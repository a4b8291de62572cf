--------------------------- MODULE DurabilityProofs ---------------------------
(***************************************************************************)
(* Proofs about what an acknowledged row survives: crashes, shutdowns and  *)
(* restarts (module Recovery), and a copy of the files (module Backup).    *)
(***************************************************************************)
EXTENDS Backup, RecoveryProofs

-----------------------------------------------------------------------------
(* The inductive invariant.                                                *)

\* The log as it is when its buffer has reached the file.
AllLog == log \o buf

\* Only an open database has records in the buffer.  Records are in the order
\* in which they were appended, and none has the LSN of the next one.
LogInv ==
    /\ state # "open" => buf = <<>>
    /\ \A i \in DOMAIN AllLog : AllLog[i].n <= written
    /\ \A i, j \in DOMAIN AllLog : i < j => AllLog[i].n < AllLog[j].n
    /\ state = "open" => \A i \in DOMAIN AllLog : AllLog[i].lsn < nextLsn

\* A page that is still to be written for this process.
Owed == IF state = "down" \/ pending # <<>> THEN 1 ELSE 0

\* Every page has an insertion or a restart of its own, so that page numbers
\* never reach the flag bit.
PageInv ==
    /\ Owed <= written + restarts
    /\ \A i \in DOMAIN file : file[i].page + Owed <= written + restarts

\* The row ids of a row, committed or not.
Places(row) == {i \in 1 .. RowCount : RowAt(i) = row}

\* The opens there have been after restarts.
Opens == IF state = "down" THEN restarts - 1 ELSE restarts

\* A row has been in the log before it is in the table, and every open has
\* added two copies at most.
PlaceInv ==
    /\ state = "down" => restarts > 0 /\ pending = <<>>
    /\ \A i \in 1 .. RowCount : RowAt(i).n <= written
    /\ \A row \in Row : Cardinality(Places(row)) <= 1 + 2 * Opens

\* The running process has the row on a page as committed, and so has the
\* saved index if it can be read.
HeldAt(i, row) ==
    /\ i \in DOMAIN file /\ file[i].row = row
    /\ i \in DOMAIN index /\ Committed(index[i])
Held(row) == \E i \in DOMAIN file : HeldAt(i, row)

SavedAt(i) == Loadable => i \in DOMAIN vfile.entries /\ Committed(vfile.entries[i])
Saved(row) == \E i \in DOMAIN file : HeldAt(i, row) /\ SavedAt(i)

\* What the files alone say, the log left aside.
OnDisk(row) == \E i \in DOMAIN file : file[i].row = row /\ SavedAt(i)

\* A record that recovery does not skip, whichever checkpoint counts.
Over(rec, floors) == \A m \in floors : m < rec.lsn

\* q has the record of the row's insertion ...
InsertOf(rec, row, floors) == rec.type = "insert" /\ RowOf(rec) = row /\ Over(rec, floors)
Entered(q, row, floors) == \E i \in DOMAIN q : InsertOf(q[i], row, floors)

\* ... and, not after done, that of its transaction's commit.
CommitOf(rec, row, floors) == rec.type = "commit" /\ rec.tx = row.tx /\ Over(rec, floors)
Logged(q, row, floors, done) ==
    \E i, j \in DOMAIN q : /\ InsertOf(q[i], row, floors) /\ CommitOf(q[j], row, floors)
                           /\ q[i].n <= q[j].n /\ q[j].n <= done

\* The LSNs up to which recovery may skip: checkpoint.meta as it is, and as the
\* running checkpoint will write it.
AckFloors == {meta} \cup (IF ckpt \in {"saved", "meta"} THEN {ckptLsn} ELSE {})
RunFloors == {meta} \cup (IF ckpt = "idle" THEN {} ELSE {ckptLsn})

\* A row id has an entry, and the entry, wherever it is.
Known(i) == i <= Len(file) => i \in DOMAIN index
EntryAt(i) == IF i <= Len(file) THEN index[i] ELSE pending[i - Len(file)].ts

\* A transaction's rows carry its mark; each of them is at risk, or saved, or
\* recovery will find its record - when the commit record is written, that too.
RowSafe(s, row) ==
    \/ row \in atRisk
    \/ Saved(row)
    \/ pc[s] = "in" /\ Entered(AllLog, row, RunFloors)
    \/ pc[s] = "commit" /\ Logged(AllLog, row, RunFloors, written)

WrittenBy(s) == {RowAt(i) : i \in ws[s]}

MarkInv == \A s \in Sessions : \A i \in ws[s] : Known(i) /\ EntryAt(i) = Mark(tx[s])
RunInv == \A s \in Sessions : \A row \in WrittenBy(s) : RowSafe(s, row)

\* No two running transactions have the same id.
TxInv ==
    \A s \in Sessions : pc[s] # "out" =>
        /\ tx[s] < nextTx
        /\ \A t \in Sessions : t # s /\ pc[t] # "out" => tx[t] # tx[s]

\* Only an open database has a checkpoint running.  Who runs beside one, and
\* did not when it began, has begun behind its LSN.
SpanInv ==
    /\ state # "open" => ckpt = "idle"
    /\ ckpt # "idle" => /\ ckptLsn <= nextLsn
                        /\ \A s \in Sessions \ spans : pc[s] # "out" => ckptLsn < nextLsn

\* What is known of an acknowledged row while the database is open ...
AckSafe(a) ==
    /\ Copies(a.row) # {}
    /\ a.row \in atRisk \/ Saved(a.row) \/ Logged(log, a.row, AckFloors, a.done)
    /\ ckpt = "writing" => Held(a.row) \/ (a.row.tx = 0 /\ a.row \in atRisk)
    /\ state = "closing" => Held(a.row)

\* ... and when it is not.
DownSafe(a) == OnDisk(a.row) \/ Logged(log, a.row, {meta}, a.done)

AckInv ==
    \A a \in acked : a.row \in excused \/ IF state = "down" THEN DownSafe(a) ELSE AckSafe(a)

-----------------------------------------------------------------------------
(* Records.                                                                *)

\* r has the records of q where q has them.
Grown(q, r) == \A i \in DOMAIN q : i \in DOMAIN r /\ r[i] = q[i]

\* What q tells of a row, r tells too; and floors may be lowered.
LEMMA EnteredKept ==
    ASSUME NEW q, NEW r, Grown(q, r), NEW row, NEW F, NEW G, \A k : k \in DOMAIN q /\ Over(q[k], F) => Over(q[k], G),
           Entered(q, row, F)
    PROVE  Entered(r, row, G)
BY DEF Grown, Entered, InsertOf

\* The same of a row and its transaction's commit.
LEMMA LoggedKept ==
    ASSUME NEW q, NEW r, Grown(q, r), NEW row, NEW F, NEW G, \A k : k \in DOMAIN q /\ Over(q[k], F) => Over(q[k], G),
           NEW done, Logged(q, row, F, done)
    PROVE  Logged(r, row, G, done)
<1>1. PICK i \in DOMAIN q, j \in DOMAIN q :
         /\ InsertOf(q[i], row, F) /\ CommitOf(q[j], row, F)
         /\ q[i].n <= q[j].n /\ q[j].n <= done
  BY DEF Logged
<1>2. i \in DOMAIN r /\ j \in DOMAIN r /\ r[i] = q[i] /\ r[j] = q[j]
  BY DEF Grown
<1>3. InsertOf(r[i], row, G) /\ CommitOf(r[j], row, G)
  BY <1>1, <1>2 DEF InsertOf, CommitOf
<1> QED  BY <1>1, <1>2, <1>3 DEF Logged

\* Where the records of a log with its buffer are.
LEMMA ConcatShape ==
    ASSUME NEW p \in Seq(Record), NEW q \in Seq(Record), NEW r, r = p \o q
    PROVE  /\ r \in Seq(Record) /\ DOMAIN r = 1 .. Len(p) + Len(q) /\ Len(r) = Len(p) + Len(q)
           /\ Len(p) \in Nat /\ Len(q) \in Nat /\ DOMAIN p = 1 .. Len(p) /\ DOMAIN q = 1 .. Len(q)
           /\ \A i \in DOMAIN p : r[i] = p[i]
           /\ \A i \in DOMAIN q : r[Len(p) + i] = q[i]
           /\ Grown(p, r)
<1>1. /\ r \in Seq(Record) /\ Len(r) = Len(p) + Len(q)
      /\ \A i \in 1 .. Len(p) + Len(q) : r[i] = IF i <= Len(p) THEN p[i] ELSE q[i - Len(p)]
  BY ConcatProperties
<1>2. /\ DOMAIN r = 1 .. Len(p) + Len(q) /\ Len(p) \in Nat /\ Len(q) \in Nat
      /\ DOMAIN p = 1 .. Len(p) /\ DOMAIN q = 1 .. Len(q)
  BY <1>1, LenProperties
<1>3. \A i \in DOMAIN p : i \in DOMAIN r /\ r[i] = p[i]
  BY <1>1, <1>2
<1>4. ASSUME NEW i \in DOMAIN q PROVE r[Len(p) + i] = q[i]
  <2>1. /\ Len(p) + i \in 1 .. Len(p) + Len(q) /\ ~(Len(p) + i <= Len(p))
        /\ (Len(p) + i) - Len(p) = i
    BY <1>2
  <2> QED  BY <1>1, <2>1
<1> QED  BY <1>1, <1>2, <1>3, <1>4 DEF Grown

\* The log with its buffer is a sequence of records.
LEMMA AllType ==
    ASSUME TypeOK
    PROVE  /\ AllLog \in Seq(Record) /\ DOMAIN AllLog = 1 .. Len(AllLog) /\ Len(AllLog) \in Nat
           /\ \A i \in DOMAIN AllLog : /\ AllLog[i] \in Record
                                       /\ AllLog[i].n \in Nat /\ AllLog[i].lsn \in Nat
           /\ Grown(log, AllLog)
<1>1. PICK q : q = AllLog
  OBVIOUS
<1>2. q \in Seq(Record) /\ Grown(log, q)
  BY <1>1, SeqTypes, ConcatShape DEF AllLog
<1>3. DOMAIN q = 1 .. Len(q) /\ Len(q) \in Nat /\ \A i \in DOMAIN q : q[i] \in Record
  BY <1>2, LenProperties, ElementOfSeq
<1>4. \A i \in DOMAIN q : q[i].n \in Nat /\ q[i].lsn \in Nat
  BY <1>3 DEF Record
<1> QED  BY <1>1, <1>2, <1>3, <1>4

\* append_record adds its record at the end.
LEMMA AllAppended ==
    ASSUME TypeOK, NEW r \in Record, buf' = Append(buf, r), log' = log
    PROVE  /\ DOMAIN AllLog' = 1 .. Len(AllLog) + 1
           /\ Grown(AllLog, AllLog')
           /\ AllLog'[Len(AllLog) + 1] = r
<1>1. /\ buf' \in Seq(Record) /\ Len(buf') = Len(buf) + 1
      /\ \A i \in 1 .. Len(buf) : buf'[i] = buf[i]
      /\ buf'[Len(buf) + 1] = r
  BY SeqTypes, AppendProperties
<1>2. PICK p, q : p = AllLog /\ q = AllLog'
  OBVIOUS
<1>3. p = log \o buf /\ q = log \o buf'
  BY <1>2 DEF AllLog
<1>4. /\ DOMAIN p = 1 .. Len(log) + Len(buf) /\ Len(p) = Len(log) + Len(buf)
      /\ Len(log) \in Nat /\ Len(buf) \in Nat /\ DOMAIN log = 1 .. Len(log) /\ DOMAIN buf = 1 .. Len(buf)
      /\ \A i \in DOMAIN log : p[i] = log[i]
      /\ \A i \in DOMAIN buf : p[Len(log) + i] = buf[i]
  BY <1>3, SeqTypes, ConcatShape
<1>5. /\ DOMAIN q = 1 .. Len(log) + Len(buf') /\ DOMAIN buf' = 1 .. Len(buf')
      /\ \A i \in DOMAIN log : q[i] = log[i]
      /\ \A i \in DOMAIN buf' : q[Len(log) + i] = buf'[i]
  <2>1. log \in Seq(Record) /\ buf' \in Seq(Record)
    BY <1>1, SeqTypes
  <2> QED  BY <1>3, <2>1, ConcatShape
<1>6. DOMAIN q = 1 .. Len(p) + 1 /\ q[Len(p) + 1] = r
  <2>1. Len(buf) + 1 \in DOMAIN buf' /\ Len(log) + (Len(buf) + 1) = Len(p) + 1
        /\ Len(log) + Len(buf') = Len(p) + 1
    BY <1>1, <1>4, <1>5
  <2> QED  BY <1>1, <1>5, <2>1
<1>7. ASSUME NEW i \in DOMAIN p PROVE i \in DOMAIN q /\ q[i] = p[i]
  <2>1. i \in DOMAIN q
    BY <1>4, <1>6
  <2>2. CASE i <= Len(log)
    <3>1. i \in DOMAIN log
      BY <1>4, <2>2
    <3> QED  BY <1>4, <1>5, <2>1, <3>1
  <2>3. CASE ~(i <= Len(log))
    <3>1. PICK k \in DOMAIN buf : i = Len(log) + k
      <4>1. i - Len(log) \in DOMAIN buf /\ i = Len(log) + (i - Len(log))
        BY <1>4, <2>3
      <4> QED  BY <4>1
    <3>2. k \in DOMAIN buf' /\ buf'[k] = buf[k]
      BY <1>1, <1>4, <1>5
    <3> QED  BY <1>4, <1>5, <2>1, <3>1, <3>2
  <2> QED  BY <2>2, <2>3
<1> QED  BY <1>2, <1>6, <1>7 DEF Grown

\* An empty buffer adds nothing.
LEMMA ConcatNothing ==
    ASSUME NEW q \in Seq(Record), NEW e, e = <<>> PROVE q \o e = q
<1>1. e \in Seq(Record)
  OBVIOUS
<1>2. q \o e = q <=> e = <<>>
  BY <1>1, ConcatEqualIffEmpty
<1> QED  BY <1>2

\* A flush of the whole buffer changes nothing in that sequence.
LEMMA AllFlushed ==
    ASSUME TypeOK, log' = log \o buf, buf' = <<>>
    PROVE  AllLog' = AllLog /\ log' = AllLog
<1>1. log \o buf \in Seq(Record)
  BY SeqTypes, ConcatProperties
<1>2. log' \o buf' = log'
  BY <1>1, ConcatNothing
<1> QED  BY <1>2 DEF AllLog

\* A crash leaves a beginning of it.
LEMMA AllCut ==
    ASSUME TypeOK, NEW k \in 0 .. Len(buf), log' = log \o SubSeq(buf, 1, k), buf' = <<>>
    PROVE  AllLog' = log' /\ Grown(log, log') /\ Grown(log', AllLog)
<1>1. Len(buf) \in Nat /\ DOMAIN buf = 1 .. Len(buf)
  BY SeqTypes
<1>2. PICK b : b = SubSeq(buf, 1, k)
  OBVIOUS
<1>3. /\ b \in Seq(Record) /\ Len(b) = k
      /\ \A i \in 1 .. k : b[i] = buf[i]
  <2>1. \A i \in 1 .. k : buf[i] \in Record
    BY <1>1, SeqTypes
  <2>2. /\ b \in Seq(Record)
        /\ Len(b) = IF 1 <= k THEN k - 1 + 1 ELSE 0
        /\ \A i \in 1 .. k - 1 + 1 : b[i] = buf[1 + i - 1]
    BY <1>2, <2>1, SubSeqProperties
  <2>3. k - 1 + 1 = k /\ (IF 1 <= k THEN k - 1 + 1 ELSE 0) = k /\ \A i \in 1 .. k : 1 + i - 1 = i
    BY <1>1
  <2> QED  BY <2>2, <2>3
<1>4. PICK p, q : p = AllLog /\ q = log'
  OBVIOUS
<1>5. p = log \o buf /\ q = log \o b
  BY <1>2, <1>4 DEF AllLog
<1>6. /\ DOMAIN p = 1 .. Len(log) + Len(buf)
      /\ Len(log) \in Nat /\ DOMAIN log = 1 .. Len(log)
      /\ \A i \in DOMAIN log : p[i] = log[i]
      /\ \A i \in DOMAIN buf : p[Len(log) + i] = buf[i]
  BY <1>5, SeqTypes, ConcatShape
<1>7. /\ q \in Seq(Record) /\ DOMAIN q = 1 .. Len(log) + k /\ DOMAIN b = 1 .. k
      /\ \A i \in DOMAIN log : q[i] = log[i]
      /\ \A i \in DOMAIN b : q[Len(log) + i] = b[i]
      /\ Grown(log, q)
  <2>1. log \in Seq(Record) /\ b \in Seq(Record) /\ q = log \o b
    BY <1>3, <1>5, SeqTypes
  <2>2. /\ q \in Seq(Record) /\ DOMAIN q = 1 .. Len(log) + Len(b) /\ DOMAIN b = 1 .. Len(b)
        /\ \A i \in DOMAIN log : q[i] = log[i]
        /\ \A i \in DOMAIN b : q[Len(log) + i] = b[i]
    BY <2>1, ConcatShape
  <2>3. Grown(log, q)
    BY <2>1, ConcatShape
  <2> QED  BY <1>3, <2>2, <2>3
<1>8. ASSUME NEW i \in DOMAIN q PROVE i \in DOMAIN p /\ p[i] = q[i]
  <2>1. i \in DOMAIN p
    BY <1>1, <1>6, <1>7
  <2>2. CASE i <= Len(log)
    <3>1. i \in DOMAIN log
      BY <1>6, <1>7, <2>2
    <3> QED  BY <1>6, <1>7, <2>1, <3>1
  <2>3. CASE ~(i <= Len(log))
    <3>1. PICK m \in 1 .. k : i = Len(log) + m
      <4>1. i - Len(log) \in 1 .. k /\ i = Len(log) + (i - Len(log))
        BY <1>6, <1>7, <2>3
      <4> QED  BY <4>1
    <3>2. m \in DOMAIN buf /\ m \in DOMAIN b /\ b[m] = buf[m]
      BY <1>1, <1>3, <1>7
    <3> QED  BY <1>6, <1>7, <2>1, <3>1, <3>2
  <2> QED  BY <2>2, <2>3
<1>9. log' \o buf' = log'
  BY <1>4, <1>7, ConcatNothing
<1> QED  BY <1>4, <1>7, <1>8, <1>9 DEF Grown, AllLog

\* append_record keeps the order of the records.
LEMMA LogAppend ==
    ASSUME TypeParts, LogInv, NEW x \in Nat, NEW ts \in Ts,
           NEW type \in {"begin", "insert", "commit", "rollback"}, AppendRecord(x, type, ts),
           log' = log, state' = state, NEW r, r = Rec(x, type, ts)
    PROVE  /\ LogInv' /\ r \in Record /\ Grown(AllLog, AllLog')
           /\ Len(AllLog) + 1 \in DOMAIN AllLog' /\ AllLog'[Len(AllLog) + 1] = r
<1>1. TypeOK
  BY PartsOfType
<1>2. /\ state = "open" /\ written' = written + 1 /\ nextLsn' = nextLsn + 1
      /\ buf' = Append(buf, r)
  BY DEF AppendRecord
<1>3. written \in Nat /\ nextLsn \in Nat /\ restarts \in Nat
  BY <1>1, Spans DEF TypeOK
<1>4. r \in Record /\ r.lsn = nextLsn /\ r.n = written + 1
  BY <1>3 DEF Rec, Record
<1>5. PICK p, q : p = AllLog /\ q = AllLog'
  OBVIOUS
<1>6. DOMAIN q = 1 .. Len(p) + 1 /\ Grown(p, q) /\ q[Len(p) + 1] = r
  BY <1>1, <1>2, <1>4, <1>5, AllAppended
<1>7. /\ DOMAIN p = 1 .. Len(p) /\ Len(p) \in Nat
      /\ \A i \in DOMAIN p : p[i].n \in Nat /\ p[i].lsn \in Nat
  BY <1>1, <1>5, AllType
<1>8. /\ \A i \in DOMAIN p : p[i].n <= written /\ p[i].lsn < nextLsn
      /\ \A i, j \in DOMAIN p : i < j => p[i].n < p[j].n
  BY <1>2, <1>5 DEF LogInv
<1>9. \A i \in DOMAIN q : i \in DOMAIN p \/ i = Len(p) + 1
  BY <1>6, <1>7
<1>10. ASSUME NEW i \in DOMAIN q PROVE q[i].n <= written' /\ q[i].lsn < nextLsn'
  <2>1. CASE i \in DOMAIN p
    <3>1. q[i] = p[i]
      BY <1>6, <2>1 DEF Grown
    <3> QED  BY <1>2, <1>3, <1>7, <1>8, <2>1, <3>1
  <2>2. CASE i = Len(p) + 1
    BY <1>2, <1>3, <1>4, <1>6, <2>2
  <2> QED  BY <1>9, <2>1, <2>2
<1>11. ASSUME NEW i \in DOMAIN q, NEW j \in DOMAIN q, i < j PROVE q[i].n < q[j].n
  <2>1. i \in DOMAIN p
    BY <1>6, <1>7, <1>11
  <2>2. q[i] = p[i]
    BY <1>6, <2>1 DEF Grown
  <2>3. CASE j \in DOMAIN p
    <3>1. q[j] = p[j]
      BY <1>6, <2>3 DEF Grown
    <3> QED  BY <1>8, <1>11, <2>1, <2>2, <2>3, <3>1
  <2>4. CASE j = Len(p) + 1
    BY <1>3, <1>4, <1>6, <1>7, <1>8, <2>1, <2>2, <2>4
  <2> QED  BY <1>9, <2>3, <2>4
<1>12. LogInv'
  BY <1>2, <1>5, <1>10, <1>11 DEF LogInv
<1>13. Len(p) + 1 \in DOMAIN q
  BY <1>6, <1>7
<1> QED  BY <1>4, <1>5, <1>6, <1>12, <1>13

\* What a log has that is the beginning of another.
LEMMA LogPrefix ==
    ASSUME LogInv, NEW q, Grown(q, AllLog)
    PROVE  /\ \A i \in DOMAIN q : q[i].n <= written
           /\ \A i, j \in DOMAIN q : i < j => q[i].n < q[j].n
           /\ state = "open" => \A i \in DOMAIN q : q[i].lsn < nextLsn
BY DEF LogInv, Grown

\* The log's file only ever grows, and while a process lives so does the log
\* with its buffer.
LEMMA LogStep ==
    ASSUME TypeParts, LogInv, [Next]_vars
    PROVE  /\ LogInv' /\ Grown(log, log')
           /\ state' # "down" => Grown(AllLog, AllLog')
<1>1. TypeOK /\ BoundInv
  BY PartsOfType
<1>2. /\ \A s \in Sessions : tx[s] \in Nat
      /\ nextTx \in Nat /\ 0 \in Ts /\ Tick(clock) \in Ts
  BY <1>1, Timestamps, Spans DEF TypeOK
<1>3. Grown(log, log) /\ Grown(AllLog, AllLog)
  BY DEF Grown
<1>4. ASSUME NEW x \in Nat, NEW ts \in Ts,
             NEW type \in {"begin", "insert", "commit", "rollback"}, AppendRecord(x, type, ts),
             log' = log, state' = state
      PROVE  LogInv' /\ Grown(AllLog, AllLog')
  <2>1. PICK r : r = Rec(x, type, ts)
    OBVIOUS
  <2> QED  BY <1>4, <2>1, LogAppend
<1>5. ASSUME NEW s \in Sessions, Begin(s) \/ Insert(s) \/ LogCommit(s) \/ Rollback(s)
      PROVE  /\ LogInv' /\ Grown(log, log') /\ Grown(AllLog, AllLog')
  <2>1. log' = log /\ state' = state
    BY <1>5 DEF Begin, Insert, LogCommit, Rollback, diskVars
  <2>2. \/ AppendRecord(nextTx, "begin", 0) \/ AppendRecord(tx[s], "insert", 0)
        \/ AppendRecord(tx[s], "commit", Tick(clock)) \/ AppendRecord(tx[s], "rollback", 0)
    BY <1>5 DEF Begin, Insert, LogCommit, Rollback
  <2>3. LogInv' /\ Grown(AllLog, AllLog')
    BY <1>2, <1>4, <2>1, <2>2
  <2> QED  BY <1>3, <2>1, <2>3
<1>6. ASSUME NEW s \in Sessions, FinishCommit(s)
      PROVE  /\ LogInv' /\ Grown(log, log') /\ Grown(AllLog, AllLog')
  <2>1. /\ log' = log \o buf /\ buf' = <<>> /\ UNCHANGED <<written, nextLsn>> /\ state = "open"
    BY <1>6 DEF FinishCommit
  <2>2. AllLog' = AllLog /\ log' = AllLog
    BY <1>1, <2>1, AllFlushed
  <2>3. Grown(log, AllLog)
    BY <1>1, AllType
  <2> QED  BY <1>3, <2>1, <2>2, <2>3 DEF LogInv
<1>7. CASE \/ Flush \/ CkptBegin \/ CkptSave \/ CkptWrite \/ CkptMetaOpen \/ CkptMeta
           \/ UNCHANGED vars
  <2>1. UNCHANGED <<log, buf, state, written, nextLsn>>
    BY <1>7 DEF Flush, CkptBegin, CkptSave, CkptWrite, CkptMetaOpen, CkptMeta, vars, memVars, diskVars
  <2> QED  BY <1>3, <2>1 DEF LogInv, AllLog
<1>8. CASE CloseBegin
  <2>1. /\ log' = log \o buf /\ buf' = <<>> /\ UNCHANGED <<written, nextLsn>> /\ state = "open"
        /\ state' = "closing"
    BY <1>8 DEF CloseBegin
  <2>2. AllLog' = AllLog /\ log' = AllLog
    BY <1>1, <2>1, AllFlushed
  <2>3. Grown(log, AllLog)
    BY <1>1, AllType
  <2> QED  BY <1>3, <2>1, <2>2, <2>3 DEF LogInv
<1>9. CASE CloseEnd
  <2>1. /\ log' = log /\ buf' = <<>> /\ written' = written /\ state = "closing" /\ state' = "down"
    BY <1>9 DEF CloseEnd, MemoryGone
  <2>2. AllLog' = AllLog
    BY <2>1 DEF AllLog, LogInv
  <2> QED  BY <1>3, <2>1, <2>2 DEF LogInv
<1>10. CASE Crash
  <2>1. /\ buf' = <<>> /\ written' = written /\ state' = "down"
    BY <1>10 DEF Crash, MemoryGone
  <2>2. PICK k \in 0 .. Len(buf) : log' = log \o SubSeq(buf, 1, k)
    BY <1>10 DEF Crash
  <2>3. AllLog' = log' /\ Grown(log, log') /\ Grown(log', AllLog)
    BY <1>1, <2>1, <2>2, AllCut
  <2>4. PICK q : q = log'
    OBVIOUS
  <2>5. /\ \A i \in DOMAIN q : q[i].n <= written
        /\ \A i, j \in DOMAIN q : i < j => q[i].n < q[j].n
    BY <2>3, <2>4, LogPrefix
  <2> QED  BY <2>1, <2>3, <2>4, <2>5 DEF LogInv
<1>11. ASSUME NEW target, Open(target)
       PROVE  /\ LogInv' /\ Grown(log, log') /\ Grown(AllLog, AllLog')
  <2>1. /\ UNCHANGED <<log, buf, written>> /\ state = "down" /\ state' = "open"
        /\ nextLsn' = ScannedLsn
    BY <1>11 DEF Open, diskVars
  <2>2. AllLog = log /\ AllLog' = AllLog
    <3>1. buf = <<>> /\ log \in Seq(Record)
      BY <1>1, <2>1, SeqTypes DEF LogInv
    <3>2. log \o buf = log
      BY <3>1, ConcatNothing
    <3> QED  BY <2>1, <3>2 DEF AllLog
  <2>3. \A i \in DOMAIN log : log[i].lsn < ScannedLsn
    <3> DEFINE S == {log[i].lsn : i \in DOMAIN log}
    <3>1. \A i \in DOMAIN log : log[i].lsn \in Nat /\ log[i].lsn <= written
      BY <1>1, SeqTypes DEF BoundInv, Record
    <3>2. S \in SUBSET Nat /\ written \in Nat /\ \A n \in S : n <= written
      BY <1>1, <3>1, Spans DEF TypeOK
    <3>3. ScannedLsn = 1 + Greatest(S)
      BY DEF ScannedLsn
    <3>4. \A i \in DOMAIN log : log[i].lsn \in S
      OBVIOUS
    <3> HIDE DEF S
    <3>5. Greatest(S) \in Nat /\ \A n \in S : n <= Greatest(S)
      BY <3>2, GreatestEffect
    <3> QED  BY <3>1, <3>3, <3>4, <3>5
  <2>4. LogInv'
    BY <2>1, <2>2, <2>3 DEF LogInv
  <2> QED  BY <1>3, <2>1, <2>2, <2>4
<1> QED  BY <1>5, <1>6, <1>7, <1>8, <1>9, <1>10, <1>11 DEF Next

-----------------------------------------------------------------------------
(* Pages.                                                                  *)

\* A page's number is below the flag bit, and so is that of the next one.
LEMMA PageBound ==
    ASSUME TypeParts, PageInv
    PROVE  /\ \A i \in DOMAIN file : file[i].page \in Nat /\ file[i].page < kTxIdFlag
           /\ PageCount \in Nat /\ PageCount + Owed <= written + restarts
           /\ written + restarts < kTxIdFlag /\ Owed \in {0, 1} /\ written \in Nat /\ restarts \in Nat
<1>1. TypeOK /\ BoundInv
  BY PartsOfType
<1>2. /\ written \in Nat /\ restarts \in Nat /\ written + restarts < kTxIdFlag /\ kTxIdFlag \in Nat
      /\ Owed \in {0, 1}
  <2>1. written \in Nat /\ restarts \in Nat /\ written <= MaxRecords /\ restarts <= MaxRestarts
    BY <1>1, Spans DEF TypeOK
  <2>2. written + restarts < kTxIdFlag
    BY <2>1, Spans
  <2> QED  BY <2>1, <2>2, Spans DEF Owed
<1>3. \A i \in DOMAIN file : file[i].page \in Nat /\ file[i].page + Owed <= written + restarts
  BY <1>1, SeqTypes DEF PageInv
<1>4. \A i \in DOMAIN file : file[i].page \in Nat /\ file[i].page < kTxIdFlag
  BY <1>2, <1>3
<1> DEFINE S == {file[i].page : i \in DOMAIN file}
<1>5. S \in SUBSET Nat /\ PageCount = Greatest(S)
      /\ \A n \in S : n + Owed <= written + restarts
  BY <1>3 DEF PageCount
<1>6. \A n \in S : n <= written + restarts
  <2> HIDE DEF S
  <2> QED  BY <1>2, <1>5
<1>7. PageCount \in S \cup {0} /\ PageCount \in Nat
  <2> HIDE DEF S
  <2>1. written + restarts \in Nat
    BY <1>2
  <2> QED  BY <1>5, <1>6, <2>1, GreatestEffect
<1>8. 0 + Owed <= written + restarts
  BY <1>2 DEF PageInv
<1>9. PageCount + Owed <= written + restarts
  <2> HIDE DEF S
  <2> QED  BY <1>5, <1>7, <1>8
<1> QED  BY <1>2, <1>4, <1>7, <1>9

\* Every page has an insertion or a restart of its own.
LEMMA PageStep ==
    ASSUME TypeParts, SessionsInv, PageInv, [Next]_vars
    PROVE  PageInv'
<1>1. TypeOK /\ BoundInv
  BY PartsOfType
<1>2. /\ \A i \in DOMAIN file : file[i].page \in Nat /\ file[i].page + Owed <= written + restarts
      /\ PageCount \in Nat /\ PageCount + Owed <= written + restarts
      /\ Owed <= written + restarts
      /\ Owed \in {0, 1} /\ Owed' \in {0, 1} /\ written \in Nat /\ restarts \in Nat
  BY <1>1, PageBound, SeqTypes DEF PageInv, Owed
<1>3. ASSUME file' = file, NEW d \in {0, 1}, written' + restarts' = (written + restarts) + d,
             Owed' <= Owed + d
      PROVE  PageInv'
  <2>1. PICK w \in Nat, o \in {0, 1}, u \in {0, 1} : w = written + restarts /\ o = Owed /\ u = Owed'
    BY <1>2
  <2>2. o <= w /\ u <= o + d /\ written' + restarts' = w + d
    BY <1>2, <1>3, <2>1
  <2>3. ASSUME NEW i \in DOMAIN file' PROVE file'[i].page + Owed' <= written' + restarts'
    <3>1. PICK g \in Nat : g = file[i].page /\ g + o <= w
      BY <1>2, <1>3, <2>1, <2>3
    <3>2. g + u <= w + d
      BY <2>2, <3>1
    <3> QED  BY <1>3, <2>1, <2>2, <3>1, <3>2
  <2>4. u <= w + d
    BY <2>2
  <2> QED  BY <2>1, <2>2, <2>3, <2>4 DEF PageInv
<1>4. ASSUME FlushPending, state = "open", state' # "down", UNCHANGED <<written, restarts>>
      PROVE  PageInv'
  <2>1. /\ \A i \in DOMAIN file : file'[i] = file[i]
        /\ \A j \in DOMAIN pending : file'[Len(file) + j].page = PageCount + 1
        /\ DOMAIN file' = 1 .. RowCount /\ pending' = <<>>
    BY <1>1, <1>4, FlushEffect
  <2>2. Owed' = 0
    BY <1>4, <2>1 DEF Owed
  <2>3. ASSUME NEW i \in DOMAIN file' PROVE file'[i].page + Owed' <= written' + restarts'
    <3>1. CASE i \in DOMAIN file
      <4>1. PICK g \in Nat : g = file[i].page
        BY <1>2, <3>1
      <4>2. g + Owed <= written + restarts
        BY <1>2, <3>1, <4>1
      <4>3. g + 0 <= written + restarts
        BY <1>2, <4>2
      <4> QED  BY <1>4, <2>1, <2>2, <3>1, <4>1, <4>3
    <3>2. CASE i \notin DOMAIN file
      <4>1. PICK j \in DOMAIN pending : i = Len(file) + j
        <5>1. i - Len(file) \in DOMAIN pending /\ i = Len(file) + (i - Len(file))
          BY <1>1, <2>1, <2>3, <3>2, SeqTypes
        <5> QED  BY <5>1
      <4>2. pending # <<>>
        OBVIOUS
      <4>3. Owed = 1
        BY <4>2 DEF Owed
      <4>4. file'[i].page = PageCount + 1
        BY <2>1, <4>1
      <4> QED  BY <1>2, <1>4, <2>2, <4>3, <4>4
    <3> QED  BY <3>1, <3>2
  <2>4. Owed' <= written' + restarts'
    BY <1>2, <1>4, <2>2
  <2> QED  BY <2>3, <2>4 DEF PageInv
<1>5. CASE \E s \in Sessions : Begin(s) \/ Insert(s) \/ LogCommit(s)
  <2>1. /\ UNCHANGED <<file, restarts>> /\ written' = written + 1
    BY <1>5 DEF Begin, Insert, LogCommit, AppendRecord, diskVars
  <2>2. written' + restarts' = (written + restarts) + 1 /\ Owed' <= Owed + 1
    BY <1>2, <2>1
  <2> QED  BY <1>3, <2>1, <2>2
<1>6. ASSUME NEW s \in Sessions, FinishCommit(s) \/ Rollback(s) PROVE PageInv'
  <2>1. /\ UNCHANGED <<file, restarts, state>> /\ written' \in {written, written + 1}
        /\ \E ts \in Ts : Stamp(ws[s], tx[s], ts)
    <3>1. cts[s] \in Ts /\ AbortedTs \in Ts
      BY <1>1, Timestamps DEF TypeOK
    <3> QED  BY <1>6, <3>1 DEF FinishCommit, Rollback, AppendRecord, diskVars
  <2>2. pending' \in Seq(PendingRow) /\ DOMAIN pending' = DOMAIN pending
    BY <1>1, <2>1, StampEffect
  <2>3. pending = <<>> => pending' = <<>>
    BY <2>2
  <2>4. Owed' <= Owed /\ Owed' <= Owed + 0 /\ Owed' <= Owed + 1
    <3>1. Owed' = 1 => Owed = 1
      BY <2>1, <2>3 DEF Owed
    <3> QED  BY <1>2, <3>1
  <2>5. \/ written' + restarts' = (written + restarts) + 0
        \/ written' + restarts' = (written + restarts) + 1
    <3>1. restarts' = restarts /\ (written' = written \/ written' = written + 1)
      BY <2>1
    <3> QED  BY <1>2, <3>1
  <2> QED  BY <1>3, <2>1, <2>4, <2>5
<1>7. CASE Flush \/ CkptSave \/ CloseBegin
  BY <1>4, <1>7 DEF Flush, CkptSave, CloseBegin
<1>8. CASE CkptBegin \/ CkptWrite \/ CkptMetaOpen \/ CkptMeta \/ UNCHANGED vars
  <2>1. UNCHANGED <<file, restarts, written, state, pending>>
    BY <1>8 DEF CkptBegin, CkptWrite, CkptMetaOpen, CkptMeta, vars, memVars, diskVars
  <2>2. Owed' = Owed
    BY <2>1 DEF Owed
  <2>3. written' + restarts' = (written + restarts) + 0 /\ Owed' <= Owed + 0
    BY <1>2, <2>1, <2>2
  <2> QED  BY <1>3, <2>1, <2>3
<1>9. CASE CloseEnd \/ Crash
  <2>1. UNCHANGED <<file, written>> /\ restarts' = restarts + 1
    BY <1>9 DEF CloseEnd, Crash
  <2>2. written' + restarts' = (written + restarts) + 1 /\ Owed' <= Owed + 1
    BY <1>2, <2>1
  <2> QED  BY <1>3, <2>1, <2>2
<1>10. CASE \E target \in Targets : Open(target)
  <2>1. UNCHANGED <<file, written, restarts>> /\ state = "down"
    BY <1>10 DEF Open, diskVars
  <2>2. Owed = 1
    BY <2>1 DEF Owed
  <2>3. written' + restarts' = (written + restarts) + 0 /\ Owed' <= Owed + 0
    BY <1>2, <2>1, <2>2
  <2> QED  BY <1>3, <2>1, <2>3
<1> QED  BY <1>5, <1>6, <1>7, <1>8, <1>9, <1>10 DEF Next

-----------------------------------------------------------------------------
(* What Database::open replays.                                            *)

\* The records pass 2 turns into rows, by their places in the log read twice,
\* and the number of them up to a place.
Hits(target) ==
    {i \in Delivered(log \o log, target) :
        (log \o log)[i].type = "insert" /\ (log \o log)[i].tx \in DOMAIN CommittedTxns(target)}
Count(S, i) == Cardinality({j \in S : j <= i})

\* Counting tells the elements of a finite set of naturals apart.
LEMMA CountEffect ==
    ASSUME NEW S \in SUBSET Nat, NEW b \in Nat, \A n \in S : n <= b
    PROVE  /\ Cardinality(S) \in Nat
           /\ \A i \in S : Count(S, i) \in 1 .. Cardinality(S)
           /\ \A i, k \in S : Count(S, i) = Count(S, k) => i = k
<1> DEFINE Upto(i) == {j \in S : j <= i}
<1>1. IsFiniteSet(S) /\ Cardinality(S) \in Nat
  BY FS_BoundedSetOfNaturals, FS_CardinalityType
<1>2. \A i \in S : Upto(i) \in SUBSET S /\ i \in Upto(i) /\ Count(S, i) = Cardinality(Upto(i))
  BY DEF Count
<1>3. \A i, k \in S : i < k => Upto(i) \in SUBSET Upto(k) /\ k \notin Upto(i) /\ k \in Upto(k)
  <2>1. ASSUME NEW i \in S, NEW k \in S, i < k, NEW j \in S, j <= i PROVE j <= k
    <3>1. i \in Nat /\ j \in Nat /\ k \in Nat
      OBVIOUS
    <3> QED  BY <2>1, <3>1
  <2>2. \A i, k \in S : i < k => ~(k <= i) /\ k <= k
    OBVIOUS
  <2> QED  BY <2>1, <2>2
<1> HIDE DEF Upto
<1>4. \A i \in S : /\ IsFiniteSet(Upto(i)) /\ Cardinality(Upto(i)) \in Nat
                   /\ Cardinality(Upto(i)) <= Cardinality(S)
  BY <1>1, <1>2, FS_Subset, FS_CardinalityType
<1>5. \A i \in S : Cardinality(Upto(i)) # 0
  BY <1>2, <1>4, FS_EmptySet
<1>6. ASSUME NEW i \in S, NEW k \in S, i < k PROVE Count(S, i) # Count(S, k)
  <2>1. Cardinality(Upto(k)) = Cardinality(Upto(i)) => Upto(k) = Upto(i)
    BY <1>3, <1>4, <1>6, FS_Subset
  <2> QED  BY <1>2, <1>3, <1>6, <2>1
<1>7. \A i \in S : Count(S, i) \in 1 .. Cardinality(S)
  BY <1>1, <1>2, <1>4, <1>5
<1>8. \A i, k \in S : i < k \/ k < i \/ i = k
  OBVIOUS
<1> QED  BY <1>1, <1>6, <1>7, <1>8

\* The reader of pass 2 finds every record of the log twice.
LEMMA LogTwice ==
    ASSUME TypeOK, NEW recs, recs = log \o log
    PROVE  /\ DOMAIN recs = 1 .. Len(recs) /\ Len(recs) \in Nat
           /\ \A m \in DOMAIN log : m \in DOMAIN recs /\ recs[m] = log[m]
           /\ \A i \in DOMAIN recs : \E m \in DOMAIN log : recs[i] = log[m] /\ i \in {m, Len(log) + m}
<1>1. log \in Seq(Record)
  BY SeqTypes
<1>2. /\ DOMAIN recs = 1 .. Len(log) + Len(log) /\ Len(recs) = Len(log) + Len(log)
      /\ Len(log) \in Nat /\ DOMAIN log = 1 .. Len(log)
      /\ \A i \in DOMAIN log : recs[i] = log[i]
      /\ \A i \in DOMAIN log : recs[Len(log) + i] = log[i]
  BY <1>1, ConcatShape
<1>3. ASSUME NEW i \in DOMAIN recs
      PROVE  \E m \in DOMAIN log : recs[i] = log[m] /\ i \in {m, Len(log) + m}
  <2>1. CASE i <= Len(log)
    BY <1>2, <2>1
  <2>2. CASE ~(i <= Len(log))
    <3>1. PICK m \in DOMAIN log : i = Len(log) + m
      <4>1. i - Len(log) \in DOMAIN log /\ i = Len(log) + (i - Len(log))
        BY <1>2, <2>2
      <4> QED  BY <4>1
    <3> QED  BY <1>2, <3>1
  <2> QED  BY <2>1, <2>2
<1> QED  BY <1>2, <1>3

\* Each replayed row is that of one such record, and each such record gives one.
LEMMA ReplayShape ==
    ASSUME TypeOK, NEW target, NEW p, p = Replay(target), NEW recs, recs = log \o log,
           NEW H, H = Hits(target)
    PROVE  /\ H \subseteq DOMAIN recs /\ H \in SUBSET Nat
           /\ DOMAIN p = 1 .. Cardinality(H)
           /\ \A k \in DOMAIN p : \E i \in H : Count(H, i) = k /\ p[k].row = RowOf(recs[i])
           /\ \A i \in H : Count(H, i) \in DOMAIN p /\ p[Count(H, i)].row = RowOf(recs[i])
<1> DEFINE at(k) == CHOOSE i \in H : Count(H, i) = k
           made(k) == [row |-> RowOf(recs[at(k)]), ts |-> CommittedTxns(target)[recs[at(k)].tx]]
<1>1. p = [k \in 1 .. Cardinality(H) |-> made(k)]
  BY DEF Replay, Hits, Count
<1>2. H \subseteq DOMAIN recs
  BY DEF Hits, Delivered
<1>3. DOMAIN recs = 1 .. Len(recs) /\ Len(recs) \in Nat
  BY LogTwice
<1>4. H \in SUBSET Nat /\ \A n \in H : n <= Len(recs)
  BY <1>2, <1>3
<1>5. /\ Cardinality(H) \in Nat
      /\ \A i \in H : Count(H, i) \in 1 .. Cardinality(H)
      /\ \A i, k \in H : Count(H, i) = Count(H, k) => i = k
  BY <1>3, <1>4, CountEffect
<1>6. ASSUME NEW k \in 1 .. Cardinality(H) PROVE at(k) \in H /\ Count(H, at(k)) = k
  <2>1. k \in Nat \ {0} /\ k <= Cardinality(H)
    BY <1>5
  <2>2. \E i \in H : Cardinality({j \in H : j <= i}) = k
    BY <1>3, <1>4, <2>1, NthExists
  <2>3. \E i \in H : Count(H, i) = k
    BY <2>2 DEF Count
  <2> QED  BY <2>3
<1> HIDE DEF at
<1>7. DOMAIN p = 1 .. Cardinality(H) /\ \A k \in 1 .. Cardinality(H) : p[k].row = RowOf(recs[at(k)])
  <2>1. \A k : made(k).row = RowOf(recs[at(k)])
    OBVIOUS
  <2> HIDE DEF made
  <2>2. DOMAIN p = 1 .. Cardinality(H) /\ \A k \in 1 .. Cardinality(H) : p[k] = made(k)
    BY <1>1
  <2> QED  BY <2>1, <2>2
<1>8. ASSUME NEW i \in H PROVE Count(H, i) \in DOMAIN p /\ p[Count(H, i)].row = RowOf(recs[i])
  <2>1. PICK k \in 1 .. Cardinality(H) : k = Count(H, i)
    BY <1>5
  <2>2. at(k) = i
    BY <1>5, <1>6, <2>1
  <2> QED  BY <1>7, <2>1, <2>2
<1> QED  BY <1>2, <1>4, <1>6, <1>7, <1>8

\* A row is replayed twice at most.
LEMMA ReplayTwice ==
    ASSUME TypeParts, LogInv, state = "down", NEW target, NEW p, p = Replay(target)
    PROVE  /\ \A k \in DOMAIN p : p[k].row.n <= written
           /\ \A row : \E a, b : \A k \in DOMAIN p : p[k].row = row => k \in {a, b}
<1>1. TypeOK
  BY PartsOfType
<1>2. AllLog = log
  <2>1. buf = <<>> /\ log \in Seq(Record)
    BY <1>1, SeqTypes DEF LogInv
  <2> QED  BY <2>1, ConcatNothing DEF AllLog
<1>3. /\ \A i \in DOMAIN log : log[i].n <= written
      /\ \A i, j \in DOMAIN log : i < j => log[i].n < log[j].n
  BY <1>2 DEF LogInv
<1>4. DOMAIN log = 1 .. Len(log) /\ \A i \in DOMAIN log : log[i].n \in Nat
  BY <1>1, SeqTypes DEF Record
<1>5. PICK recs, H : recs = log \o log /\ H = Hits(target)
  OBVIOUS
<1>6. /\ H \subseteq DOMAIN recs
      /\ \A k \in DOMAIN p : \E i \in H : Count(H, i) = k /\ p[k].row = RowOf(recs[i])
  BY <1>1, <1>5, ReplayShape
<1>7. \A i \in DOMAIN recs : \E m \in DOMAIN log : recs[i] = log[m] /\ i \in {m, Len(log) + m}
  BY <1>1, <1>5, LogTwice
<1>8. ASSUME NEW k \in DOMAIN p
      PROVE  \E m \in DOMAIN log : /\ p[k].row = RowOf(log[m])
                                   /\ k \in {Count(H, m), Count(H, Len(log) + m)}
  <2>1. PICK i \in H : Count(H, i) = k /\ p[k].row = RowOf(recs[i])
    BY <1>6
  <2>2. PICK m \in DOMAIN log : recs[i] = log[m] /\ i \in {m, Len(log) + m}
    BY <1>6, <1>7, <2>1
  <2> QED  BY <2>1, <2>2
<1>9. \A m \in DOMAIN log : RowOf(log[m]).n = log[m].n
  BY DEF RowOf
<1>10. \A k \in DOMAIN p : p[k].row.n <= written
  BY <1>3, <1>8, <1>9
<1>11. \A l, m \in DOMAIN log : log[l].n = log[m].n => l = m
  <2>1. \A l, m \in DOMAIN log : l < m \/ m < l \/ l = m
    BY <1>4
  <2> QED  BY <1>3, <1>4, <2>1
<1>12. ASSUME NEW row PROVE \E a, b : \A k \in DOMAIN p : p[k].row = row => k \in {a, b}
  <2>1. CASE \E m \in DOMAIN log : RowOf(log[m]) = row
    <3>1. PICK m \in DOMAIN log : RowOf(log[m]) = row
      BY <2>1
    <3>2. ASSUME NEW k \in DOMAIN p, p[k].row = row
          PROVE  k \in {Count(H, m), Count(H, Len(log) + m)}
      <4>1. PICK l \in DOMAIN log : /\ p[k].row = RowOf(log[l])
                                    /\ k \in {Count(H, l), Count(H, Len(log) + l)}
        BY <1>8
      <4>2. l = m
        BY <1>9, <1>11, <3>1, <3>2, <4>1
      <4> QED  BY <4>1, <4>2
    <3> QED  BY <3>2
  <2>2. CASE ~\E m \in DOMAIN log : RowOf(log[m]) = row
    BY <1>8, <2>2
  <2> QED  BY <2>1, <2>2
<1> QED  BY <1>10, <1>12

\* A row that was logged, above the checkpoint and with its commit before the
\* target, is replayed.
LEMMA ReplayHas ==
    ASSUME TypeParts, LogInv, state = "down", NEW target \in Nat, NEW p, p = Replay(target),
           NEW row \in Row, NEW done \in Nat, done <= target, Logged(log, row, {meta}, done)
    PROVE  \E k \in DOMAIN p : p[k].row = row
<1>1. TypeOK
  BY PartsOfType
<1>2. AllLog = log
  <2>1. buf = <<>> /\ log \in Seq(Record)
    BY <1>1, SeqTypes DEF LogInv
  <2> QED  BY <2>1, ConcatNothing DEF AllLog
<1>3. \A i, j \in DOMAIN log : i < j => log[i].n < log[j].n
  BY <1>2 DEF LogInv
<1>4. /\ DOMAIN log = 1 .. Len(log) /\ Len(log) \in Nat /\ meta \in Nat
      /\ \A i \in DOMAIN log : log[i].n \in Nat /\ log[i].lsn \in Nat
  BY <1>1, SeqTypes DEF Record, TypeOK
<1>5. PICK i \in DOMAIN log, j \in DOMAIN log :
         /\ InsertOf(log[i], row, {meta}) /\ CommitOf(log[j], row, {meta})
         /\ log[i].n <= log[j].n /\ log[j].n <= done
  BY DEF Logged
<1>6. /\ log[i].type = "insert" /\ RowOf(log[i]) = row /\ log[i].lsn > meta
      /\ log[j].type = "commit" /\ log[j].tx = row.tx /\ log[j].lsn > meta
      /\ log[i].tx = row.tx
  <2>1. meta < log[i].lsn /\ meta < log[j].lsn
    BY <1>5 DEF InsertOf, CommitOf, Over
  <2>2. RowOf(log[i]) = row /\ RowOf(log[i]).tx = log[i].tx
    BY <1>5 DEF InsertOf, RowOf
  <2> QED  BY <1>4, <1>5, <2>1, <2>2 DEF InsertOf, CommitOf
<1>7. log[i].n <= target /\ log[j].n <= target
  BY <1>4, <1>5
<1>8. ASSUME NEW k \in DOMAIN log, log[k].n <= target, NEW m \in 1 .. k
      PROVE  m \in DOMAIN log /\ log[m].n <= target
  <2>1. m \in DOMAIN log /\ (m = k \/ m < k)
    BY <1>4
  <2>2. m < k => log[m].n < log[k].n
    BY <1>3, <2>1
  <2>3. CASE m = k
    BY <1>8, <2>1, <2>3
  <2>4. CASE m < k
    <3>1. log[m].n < log[k].n /\ log[m].n \in Nat /\ log[k].n \in Nat
      BY <1>4, <2>1, <2>2, <2>4
    <3> QED  BY <1>8, <2>1, <3>1
  <2> QED  BY <2>1, <2>3, <2>4
<1>9. row.tx \in DOMAIN CommittedTxns(target)
  <2>1. j \in Delivered(log, target)
    BY <1>6, <1>7, <1>8 DEF Delivered
  <2> QED  BY <1>6, <2>1 DEF CommittedTxns
<1>10. PICK recs, H : recs = log \o log /\ H = Hits(target)
  OBVIOUS
<1>11. \A m \in DOMAIN log : m \in DOMAIN recs /\ recs[m] = log[m]
  BY <1>1, <1>10, LogTwice
<1>12. i \in Delivered(recs, target)
  <2>1. ASSUME NEW m \in 1 .. i PROVE recs[m].n <= target
    <3>1. m \in DOMAIN log /\ log[m].n <= target
      BY <1>7, <1>8
    <3> QED  BY <1>11, <3>1
  <2> QED  BY <1>6, <1>11, <2>1 DEF Delivered
<1>13. i \in H
  BY <1>6, <1>9, <1>10, <1>11, <1>12 DEF Hits
<1>14. Count(H, i) \in DOMAIN p /\ p[Count(H, i)].row = RowOf(recs[i])
  BY <1>1, <1>10, <1>13, ReplayShape
<1> QED  BY <1>6, <1>11, <1>14

\* The rows of a database that has been opened: those of the file, then the
\* replayed ones.
LEMMA OpenRows ==
    ASSUME TypeParts, pending = <<>>, NEW target, Open(target), NEW p, p = pending'
    PROVE  /\ p = Replay(target) /\ p \in Seq(PendingRow) /\ DOMAIN p = 1 .. Len(p) /\ Len(p) \in Nat
           /\ RowCount = Len(file) /\ RowCount' = Len(file) + Len(p) /\ file' = file /\ KeepsRows
           /\ \A k \in DOMAIN p : Len(file) + k \in 1 .. RowCount' /\ ~(Len(file) + k <= Len(file))
           /\ \A i, k : k \in DOMAIN p /\ i = Len(file) + k => RowAt(i)' = p[k].row
           /\ \A i \in 1 .. RowCount' : i \in 1 .. RowCount \/ \E k \in DOMAIN p : i = Len(file) + k
<1>1. TypeOK /\ BoundInv /\ WonInv
  BY PartsOfType
<1>2. p = Replay(target) /\ file' = file
  BY DEF Open, diskVars
<1>3. p \in Seq(PendingRow) /\ DOMAIN p = 1 .. Len(p) /\ Len(p) \in Nat
  BY <1>1, <1>2, ReplayEffect
<1>4. RowCount = Len(file) /\ Len(file) \in Nat /\ DOMAIN file = 1 .. Len(file)
  <2>1. Len(pending) = 0
    OBVIOUS
  <2> QED  BY <1>1, <2>1, SeqTypes
<1>5. RowCount' = Len(file) + Len(p)
  BY <1>2 DEF RowCount
<1>6. \A i \in 1 .. RowCount : RowAt(i)' = RowAt(i)
  BY <1>2, <1>4 DEF RowAt
<1>7. KeepsRows
  BY <1>2, <1>3, <1>4, <1>5, <1>6 DEF KeepsRows
<1>8. ASSUME NEW i, NEW k \in DOMAIN p, i = Len(file) + k
      PROVE  i \in 1 .. RowCount' /\ ~(i <= Len(file)) /\ RowAt(i)' = p[k].row
  <2>1. i \in 1 .. RowCount' /\ ~(i <= Len(file)) /\ i - Len(file) = k
    BY <1>3, <1>4, <1>5, <1>8
  <2> QED  BY <1>2, <2>1 DEF RowAt
<1>9. ASSUME NEW i \in 1 .. RowCount', i \notin 1 .. RowCount
      PROVE  \E k \in DOMAIN p : i = Len(file) + k
  <2>1. i - Len(file) \in DOMAIN p /\ i = Len(file) + (i - Len(file))
    BY <1>3, <1>4, <1>5, <1>9
  <2> QED  BY <2>1
<1> QED  BY <1>2, <1>3, <1>4, <1>5, <1>7, <1>8, <1>9

\* A row's places are finitely many.
LEMMA PlacesFinite ==
    ASSUME TypeOK, NEW row PROVE IsFiniteSet(Places(row)) /\ Cardinality(Places(row)) \in Nat
<1>1. IsFiniteSet(1 .. RowCount)
  <2>1. RowCount \in Int
    BY SeqTypes
  <2> QED  BY <2>1, FS_Interval
<1>2. Places(row) \in SUBSET (1 .. RowCount)
  BY DEF Places
<1> QED  BY <1>1, <1>2, FS_Subset, FS_CardinalityType

\* Only Insert and Open add places: Insert one for a new row, Open two for any.
LEMMA PlaceStep ==
    ASSUME TypeParts, SessionsInv, LogInv, PlaceInv, [Next]_vars
    PROVE  PlaceInv'
<1>1. TypeOK /\ BoundInv /\ WonInv
  BY PartsOfType
<1>2. /\ written \in Nat /\ restarts \in Nat /\ RowCount \in Nat
      /\ \A i \in 1 .. RowCount : RowAt(i) \in Row /\ RowAt(i).n \in Nat /\ RowAt(i).n <= written
      /\ \A s \in Sessions : cts[s] \in Ts
      /\ AbortedTs \in Ts
  <2>1. \A i \in 1 .. RowCount : RowAt(i) \in Row
    BY <1>1, RowAtType
  <2>2. \A row \in Row : row.n \in Nat
    BY DEF Row
  <2>3. RowCount \in Nat /\ \A i \in 1 .. RowCount : RowAt(i).n <= written
    BY <1>1, SeqTypes DEF PlaceInv
  <2>4. AbortedTs \in Ts
    BY <1>1, Timestamps
  <2>5. written \in Nat /\ restarts \in Nat /\ \A s \in Sessions : cts[s] \in Ts
    BY <1>1, Spans DEF TypeOK
  <2> QED  BY <2>1, <2>2, <2>3, <2>4, <2>5
<1>3. \A row \in Row : Cardinality(Places(row)) <= 1 + 2 * Opens
  BY DEF PlaceInv
<1>4. ASSUME KeepsRows, RowCount' = RowCount, written' \in Nat, written <= written',
             state # "down", state' # "down", restarts' = restarts
      PROVE  PlaceInv'
  <2>1. \A i \in 1 .. RowCount' : RowAt(i)' = RowAt(i)
    BY <1>4 DEF KeepsRows
  <2>2. \A row : Places(row)' = Places(row)
    BY <1>4, <2>1 DEF Places
  <2>3. Opens' = Opens
    BY <1>4 DEF Opens
  <2>4. \A i \in 1 .. RowCount' : RowAt(i)'.n <= written'
    BY <1>2, <1>4, <2>1
  <2>5. \A row \in Row : Cardinality(Places(row)') <= 1 + 2 * Opens'
    BY <1>3, <2>2, <2>3
  <2> QED  BY <1>4, <2>4, <2>5 DEF PlaceInv
<1>5. ASSUME UNCHANGED <<file, pending>> PROVE KeepsRows /\ RowCount' = RowCount
  BY <1>1, <1>2, <1>5, SeqTypes DEF KeepsRows, RowCount, RowAt
<1>6. CASE \E s \in Sessions : Begin(s) \/ LogCommit(s)
  <2>1. /\ UNCHANGED <<file, pending, restarts, state>> /\ written' = written + 1 /\ state = "open"
    BY <1>6 DEF Begin, LogCommit, AppendRecord, diskVars
  <2> QED  BY <1>2, <1>4, <1>5, <2>1
<1>7. ASSUME NEW s \in Sessions, Insert(s) PROVE PlaceInv'
  <2>1. PICK r : r = Rec(tx[s], "insert", 0)
    OBVIOUS
  <2>2. PICK p : p = [row |-> RowOf(r), ts |-> IF pc[s] = "out" THEN Tick(clock) ELSE Mark(tx[s])]
    OBVIOUS
  <2>3. /\ pending' = Append(pending, p) /\ UNCHANGED <<file, restarts, state>>
        /\ written' = written + 1 /\ state = "open"
    BY <1>7, <2>1, <2>2 DEF Insert, AppendRecord, diskVars
  <2>4. r.tx = tx[s] /\ r.proc = restarts /\ r.n = written + 1 /\ tx[s] \in 0 .. MaxTx /\ tx[s] \in Nat
    BY <1>1, <2>1, Spans DEF Rec, TypeOK
  <2>5. p \in PendingRow /\ p.row \in Row /\ p.row.n = written + 1
    <3>1. Tick(clock) \in Ts /\ Mark(tx[s]) \in Ts
      BY <1>1, <2>4, Timestamps
    <3> QED  BY <1>2, <2>2, <2>4, <3>1 DEF PendingRow, RowOf, Row
  <2>6. /\ RowCount' = RowCount + 1 /\ KeepsRows
        /\ \A i : i = RowCount + 1 => RowAt(i)' = p.row
    BY <1>1, <2>3, <2>5, PendEffect
  <2>7. \A i \in 1 .. RowCount' : i \in 1 .. RowCount \/ i = RowCount + 1
    BY <1>2, <2>6
  <2>8. \A i \in 1 .. RowCount : RowAt(i)' = RowAt(i) /\ RowAt(i) # p.row
    <3>1. \A i \in 1 .. RowCount : RowAt(i).n # written + 1
      BY <1>2
    <3> QED  BY <2>5, <2>6, <3>1 DEF KeepsRows
  <2>9. \A i \in 1 .. RowCount' : RowAt(i)'.n <= written'
    <3>1. \A i \in 1 .. RowCount : RowAt(i).n <= written + 1
      BY <1>2
    <3>2. written + 1 <= written + 1
      BY <1>2
    <3> QED  BY <2>3, <2>5, <2>6, <2>7, <2>8, <3>1, <3>2
  <2>10. ASSUME NEW row \in Row PROVE Cardinality(Places(row)') <= 1 + 2 * Opens'
    <3>1. Opens' = Opens /\ Opens \in Nat
      BY <1>2, <2>3 DEF Opens
    <3>2. CASE row = p.row
      <4>1. Places(row)' = {RowCount + 1}
        <5>1. RowCount + 1 \in 1 .. RowCount'
          BY <1>2, <2>6
        <5> QED  BY <2>6, <2>7, <2>8, <3>2, <5>1 DEF Places
      <4>2. Cardinality(Places(row)') = 1
        BY <4>1, FS_Singleton
      <4> QED  BY <3>1, <4>2
    <3>3. CASE row # p.row
      <4>1. Places(row)' = Places(row)
        <5>1. \A i \in 1 .. RowCount : i \in 1 .. RowCount'
          BY <1>2, <2>6
        <5> QED  BY <2>6, <2>7, <2>8, <3>3, <5>1 DEF Places
      <4> QED  BY <1>3, <3>1, <4>1
    <3> QED  BY <3>2, <3>3
  <2> QED  BY <2>3, <2>9, <2>10 DEF PlaceInv
<1>8. ASSUME NEW s \in Sessions, FinishCommit(s) \/ Rollback(s) PROVE PlaceInv'
  <2>1. /\ \E ts \in Ts : Stamp(ws[s], tx[s], ts)
        /\ UNCHANGED <<file, restarts, state>> /\ written' \in {written, written + 1} /\ state = "open"
    BY <1>2, <1>8 DEF FinishCommit, Rollback, AppendRecord, diskVars
  <2>2. KeepsRows /\ RowCount' = RowCount
    BY <1>1, <2>1, StampEffect
  <2>3. written' \in Nat /\ written <= written'
    BY <1>2, <2>1
  <2> QED  BY <1>4, <2>1, <2>2, <2>3
<1>9. CASE Flush \/ CkptSave \/ CloseBegin
  <2>1. /\ FlushPending /\ UNCHANGED <<restarts, written>> /\ state = "open"
        /\ state' # "down"
    BY <1>9 DEF Flush, CkptSave, CloseBegin
  <2>2. KeepsRows /\ RowCount' = RowCount
    BY <1>1, <2>1, FlushEffect
  <2> QED  BY <1>2, <1>4, <2>1, <2>2
<1>10. CASE CkptBegin \/ CkptWrite \/ CkptMetaOpen \/ CkptMeta
  <2>1. UNCHANGED <<file, pending, restarts, written, state>> /\ state = "open"
    BY <1>10 DEF CkptBegin, CkptWrite, CkptMetaOpen, CkptMeta, memVars, diskVars
  <2> QED  BY <1>2, <1>4, <1>5, <2>1
<1>11. CASE UNCHANGED vars
  <2>1. UNCHANGED <<file, pending, restarts, written, state>>
    BY <1>11 DEF vars, memVars, diskVars
  <2> QED  BY <2>1 DEF PlaceInv, Places, Opens, RowCount, RowAt
<1>12. CASE CloseEnd \/ Crash
  <2>1. /\ file' = file /\ pending' = <<>> /\ written' = written /\ restarts' = restarts + 1
        /\ state # "down" /\ state' = "down"
    BY <1>12 DEF CloseEnd, Crash, MemoryGone
  <2>2. RowCount' = Len(file) /\ Len(file) \in Nat /\ Len(file) <= RowCount
    <3>1. Len(pending') = 0
      BY <2>1
    <3> QED  BY <1>1, <2>1, <3>1, SeqTypes DEF RowCount
  <2>3. \A i \in 1 .. RowCount' : i \in 1 .. RowCount /\ RowAt(i)' = RowAt(i)
    <3>1. \A i \in 1 .. Len(file) : i \in 1 .. RowCount /\ i <= Len(file)
      BY <1>2, <2>2
    <3> QED  BY <2>1, <2>2, <3>1 DEF RowAt
  <2>4. Opens' = Opens
    <3>1. (restarts + 1) - 1 = restarts
      BY <1>2
    <3> QED  BY <2>1, <3>1 DEF Opens
  <2>5. ASSUME NEW row \in Row PROVE Cardinality(Places(row)') <= 1 + 2 * Opens'
    <3>1. Places(row)' \in SUBSET Places(row)
      BY <2>3 DEF Places
    <3>2. IsFiniteSet(Places(row)) /\ Cardinality(Places(row)) \in Nat
      BY <1>1, PlacesFinite
    <3>3. Cardinality(Places(row)') <= Cardinality(Places(row)) /\ Cardinality(Places(row)') \in Nat
      BY <3>1, <3>2, FS_Subset, FS_CardinalityType
    <3>4. Opens \in Nat
      BY <1>2, <2>1 DEF Opens
    <3> QED  BY <1>3, <2>4, <3>2, <3>3, <3>4
  <2>6. \A i \in 1 .. RowCount' : RowAt(i)'.n <= written'
    BY <1>2, <2>1, <2>3
  <2>7. restarts' > 0
    BY <1>2, <2>1
  <2> QED  BY <2>1, <2>5, <2>6, <2>7 DEF PlaceInv
<1>13. ASSUME NEW target, Open(target) PROVE PlaceInv'
  <2>1. UNCHANGED <<written, restarts>> /\ state = "down" /\ state' = "open"
    BY <1>13 DEF Open
  <2>2. pending = <<>> /\ restarts > 0
    BY <2>1 DEF PlaceInv
  <2>3. PICK p : p = pending'
    OBVIOUS
  <2>4. /\ p = Replay(target) /\ RowCount = Len(file) /\ KeepsRows
        /\ \A i, k : k \in DOMAIN p /\ i = Len(file) + k => RowAt(i)' = p[k].row
        /\ \A i \in 1 .. RowCount' : i \in 1 .. RowCount \/ \E k \in DOMAIN p : i = Len(file) + k
    BY <1>13, <2>2, <2>3, OpenRows
  <2>5. /\ \A k \in DOMAIN p : p[k].row.n <= written
        /\ \A row : \E a, b : \A k \in DOMAIN p : p[k].row = row => k \in {a, b}
    BY <2>1, <2>4, ReplayTwice
  <2>6. \A i \in 1 .. RowCount' : RowAt(i)'.n <= written'
    BY <1>2, <2>1, <2>4, <2>5 DEF KeepsRows
  <2>7. Opens = restarts - 1 /\ Opens' = restarts /\ Opens \in Nat
    BY <1>2, <2>1, <2>2 DEF Opens
  <2>8. ASSUME NEW row \in Row PROVE Cardinality(Places(row)') <= 1 + 2 * Opens'
    <3>1. PICK a, b : \A k \in DOMAIN p : p[k].row = row => k \in {a, b}
      BY <2>5
    <3>2. PICK A, B : A = Len(file) + a /\ B = Len(file) + b
      OBVIOUS
    <3>3. ASSUME NEW i \in Places(row)' PROVE i \in (Places(row) \cup {A}) \cup {B}
      <4>1. i \in 1 .. RowCount' /\ RowAt(i)' = row
        BY <3>3 DEF Places
      <4>2. CASE i \in 1 .. RowCount
        BY <2>4, <4>1, <4>2 DEF Places, KeepsRows
      <4>3. ASSUME NEW k \in DOMAIN p, i = Len(file) + k PROVE i \in {A, B}
        BY <2>4, <3>1, <3>2, <4>1, <4>3
      <4> QED  BY <2>4, <4>1, <4>2, <4>3
    <3>4. IsFiniteSet(Places(row)) /\ Cardinality(Places(row)) \in Nat
      BY <1>1, PlacesFinite
    <3>5. PICK S, T : S = Places(row) /\ T = Places(row)'
      OBVIOUS
    <3>6. /\ IsFiniteSet(S \cup {A}) /\ Cardinality(S \cup {A}) \in Nat
          /\ Cardinality(S \cup {A}) <= Cardinality(S) + 1
      BY <3>4, <3>5, FS_AddElement
    <3>7. PICK U : U = S \cup {A}
      OBVIOUS
    <3>8. /\ IsFiniteSet(U \cup {B}) /\ Cardinality(U \cup {B}) \in Nat /\ Cardinality(U) \in Nat
          /\ Cardinality(U \cup {B}) <= Cardinality(U) + 1
      BY <3>6, <3>7, FS_AddElement
    <3>9. T \in SUBSET (U \cup {B})
      BY <3>3, <3>5, <3>7
    <3>10. Cardinality(T) <= Cardinality(U \cup {B}) /\ Cardinality(T) \in Nat
      BY <3>8, <3>9, FS_Subset, FS_CardinalityType
    <3>11. Cardinality(T) <= 1 + 2 * (Opens + 1)
      <4>1. \A c, d, e, f, o \in Nat : c <= 1 + 2 * o /\ d <= c + 1 /\ e <= d + 1 /\ f <= e
                                        => f <= 1 + 2 * (o + 1)
        OBVIOUS
      <4>2. Cardinality(S) <= 1 + 2 * Opens /\ Cardinality(S) \in Nat
        BY <1>3, <3>4, <3>5
      <4>3. Cardinality(U) <= Cardinality(S) + 1
        BY <3>6, <3>7
      <4> QED  BY <2>7, <3>8, <3>10, <4>1, <4>2, <4>3
    <3>12. Opens' = Opens + 1
      BY <1>2, <2>7
    <3> QED  BY <3>5, <3>11, <3>12
  <2> QED  BY <2>1, <2>6, <2>8 DEF PlaceInv
<1> QED  BY <1>6, <1>7, <1>8, <1>9, <1>10, <1>11, <1>12, <1>13 DEF Next

-----------------------------------------------------------------------------
(* Entries.                                                                *)

\* A row id keeps its entry.
KeepsEntry(i) == Known(i) => Known(i)' /\ EntryAt(i)' = EntryAt(i)

\* What is committed has an entry that is.
LEMMA CommittedEntry == \A i : CommittedAt(i) <=> Known(i) /\ Committed(EntryAt(i))
BY DEF CommittedAt, Known, EntryAt

\* The places of pending rows.
LEMMA PendingPlace ==
    ASSUME TypeOK, NEW i \in 1 .. RowCount, ~(i <= Len(file))
    PROVE  i - Len(file) \in DOMAIN pending /\ i = Len(file) + (i - Len(file)) /\ i \notin DOMAIN file
BY SeqTypes

\* Flushing keeps all entries, and afterwards all are in the index.
LEMMA FlushEntries ==
    ASSUME TypeOK, BoundInv, FlushPending
    PROVE  \A i \in 1 .. RowCount : KeepsEntry(i)
<1> SUFFICES ASSUME NEW i \in 1 .. RowCount, Known(i) PROVE Known(i)' /\ EntryAt(i)' = EntryAt(i)
  BY DEF KeepsEntry
<1>1. /\ Len(file') = RowCount
      /\ DOMAIN index' = DOMAIN index \cup (Len(file) + 1 .. RowCount)
      /\ \A k \in DOMAIN index : index'[k] = index[k]
      /\ \A j \in DOMAIN pending : index'[Len(file) + j] = pending[j].ts
  BY FlushEffect
<1>2. i <= Len(file') /\ RowCount \in Nat /\ Len(file) \in Nat
  BY <1>1, SeqTypes
<1>3. CASE i <= Len(file)
  BY <1>1, <1>2, <1>3 DEF Known, EntryAt
<1>4. CASE ~(i <= Len(file))
  <2>1. i - Len(file) \in DOMAIN pending /\ i = Len(file) + (i - Len(file))
    BY <1>4, PendingPlace
  <2>2. i \in Len(file) + 1 .. RowCount
    BY <1>2, <1>4
  <2>3. index'[i] = pending[i - Len(file)].ts
    BY <1>1, <2>1
  <2> QED  BY <1>1, <1>2, <1>4, <2>2, <2>3 DEF Known, EntryAt
<1> QED  BY <1>3, <1>4

\* commit_rows gives ts to the rows it is given that carry the mark, and leaves
\* every other entry alone.
LEMMA StampEntries ==
    ASSUME TypeOK, NEW rids, NEW x, NEW ts \in Ts, Stamp(rids, x, ts), file' = file
    PROVE  \A i \in 1 .. RowCount : Known(i) =>
              /\ Known(i)'
              /\ EntryAt(i)' = IF i \in rids /\ EntryAt(i) = Mark(x) THEN ts ELSE EntryAt(i)
<1> SUFFICES ASSUME NEW i \in 1 .. RowCount, Known(i)
             PROVE  /\ Known(i)'
                    /\ EntryAt(i)' = IF i \in rids /\ EntryAt(i) = Mark(x) THEN ts ELSE EntryAt(i)
  OBVIOUS
<1>1. index' = [k \in DOMAIN index |-> IF k \in rids /\ index[k] = Mark(x) THEN ts ELSE index[k]]
  BY DEF Stamp
<1>2. pending' = [j \in DOMAIN pending |->
                    IF Len(file) + j \in rids /\ pending[j].ts = Mark(x)
                    THEN [pending[j] EXCEPT !.ts = ts] ELSE pending[j]]
  BY DEF Stamp
<1>3. CASE i <= Len(file)
  BY <1>1, <1>3 DEF Known, EntryAt
<1>4. CASE ~(i <= Len(file))
  <2>1. PICK j \in DOMAIN pending : j = i - Len(file) /\ i = Len(file) + j
    BY <1>4, PendingPlace
  <2>2. pending[j] \in PendingRow
    BY SeqTypes, ElementOfSeq
  <2>3. pending'[j] = IF i \in rids /\ pending[j].ts = Mark(x)
                      THEN [pending[j] EXCEPT !.ts = ts] ELSE pending[j]
    BY <1>2, <2>1
  <2>4. pending'[j].ts = IF i \in rids /\ pending[j].ts = Mark(x) THEN ts ELSE pending[j].ts
    BY <2>2, <2>3 DEF PendingRow
  <2> QED  BY <1>4, <2>1, <2>4 DEF Known, EntryAt
<1> QED  BY <1>3, <1>4

\* A row that joins the active batch brings its entry.
LEMMA PendEntries ==
    ASSUME TypeOK, NEW p \in PendingRow, pending' = Append(pending, p), UNCHANGED <<file, index>>
    PROVE  /\ \A i \in 1 .. RowCount : KeepsEntry(i)
           /\ \A i : i = RowCount + 1 => Known(i)' /\ EntryAt(i)' = p.ts
<1>1. /\ \A j \in DOMAIN pending : pending'[j] = pending[j]
      /\ pending'[Len(pending) + 1] = p
  BY PendEffect
<1>2. ASSUME NEW i \in 1 .. RowCount PROVE KeepsEntry(i)
  <2>1. CASE i <= Len(file)
    BY <2>1 DEF KeepsEntry, Known, EntryAt
  <2>2. CASE ~(i <= Len(file))
    <3>1. i - Len(file) \in DOMAIN pending
      BY <2>2, PendingPlace
    <3> QED  BY <1>1, <2>2, <3>1 DEF KeepsEntry, Known, EntryAt
  <2> QED  BY <2>1, <2>2
<1>3. ASSUME NEW i, i = RowCount + 1 PROVE Known(i)' /\ EntryAt(i)' = p.ts
  <2>1. ~(i <= Len(file)) /\ i - Len(file) = Len(pending) + 1
    BY <1>3, SeqTypes
  <2> QED  BY <1>1, <2>1 DEF Known, EntryAt
<1> QED  BY <1>2, <1>3

\* Without a restart, rows keep their places and committed rows stay committed.
LEMMA LiveEntries ==
    ASSUME TypeParts, [Next]_vars, state # "down", state' # "down"
    PROVE  /\ KeepsRows
           /\ \A i \in 1 .. RowCount : CommittedAt(i) => CommittedAt(i)'
<1>1. TypeOK /\ BoundInv
  BY PartsOfType
<1>2. /\ \A s \in Sessions : tx[s] \in 0 .. MaxTx /\ cts[s] \in Ts
      /\ Tick(clock) \in Ts /\ AbortedTs \in Ts
      /\ \A y \in 0 .. MaxTx : Mark(y) \in Ts /\ ~Committed(Mark(y))
  BY <1>1, Timestamps DEF TypeOK
<1>3. \A i : KeepsEntry(i) => (CommittedAt(i) => CommittedAt(i)')
  <2>1. \A i : CommittedAt(i)' <=> Known(i)' /\ Committed(EntryAt(i)')
    BY DEF CommittedAt, Known, EntryAt
  <2> QED  BY <2>1, CommittedEntry DEF KeepsEntry
<1>4. ASSUME UNCHANGED <<file, pending, index>>
      PROVE  KeepsRows /\ \A i \in 1 .. RowCount : CommittedAt(i) => CommittedAt(i)'
  <2>1. KeepsRows
    BY <1>1, <1>4, SeqTypes DEF KeepsRows, RowCount, RowAt
  <2> QED  BY <1>4, <2>1 DEF CommittedAt
<1>5. ASSUME NEW s \in Sessions, Insert(s)
      PROVE  KeepsRows /\ \A i \in 1 .. RowCount : CommittedAt(i) => CommittedAt(i)'
  <2>1. PICK p : p = [row |-> RowOf(Rec(tx[s], "insert", 0)),
                      ts |-> IF pc[s] = "out" THEN Tick(clock) ELSE Mark(tx[s])]
    OBVIOUS
  <2>2. pending' = Append(pending, p) /\ UNCHANGED <<file, index>>
    BY <1>5, <2>1 DEF Insert, diskVars
  <2>3. p \in PendingRow
    <3>1. written \in Nat /\ restarts \in Nat /\ tx[s] \in Nat
      BY <1>1, <1>2, Spans DEF TypeOK
    <3>2. RowOf(Rec(tx[s], "insert", 0)) \in Row
      BY <3>1 DEF RowOf, Rec, Row
    <3> QED  BY <1>2, <2>1, <3>2 DEF PendingRow
  <2>4. KeepsRows /\ \A i \in 1 .. RowCount : KeepsEntry(i)
    BY <1>1, <2>2, <2>3, PendEffect, PendEntries
  <2> QED  BY <1>3, <2>4
<1>6. ASSUME NEW s \in Sessions, FinishCommit(s) \/ Rollback(s)
      PROVE  KeepsRows /\ \A i \in 1 .. RowCount : CommittedAt(i) => CommittedAt(i)'
  <2>1. PICK ts \in Ts : Stamp(ws[s], tx[s], ts) /\ file' = file
    BY <1>2, <1>6 DEF FinishCommit, Rollback, diskVars
  <2>2. KeepsRows
    BY <1>1, <2>1, StampEffect
  <2>3. PICK x : x = tx[s] /\ ~Committed(Mark(x))
    BY <1>2
  <2>4. \A i \in 1 .. RowCount : Known(i) =>
              /\ Known(i)'
              /\ EntryAt(i)' = IF i \in ws[s] /\ EntryAt(i) = Mark(x) THEN ts ELSE EntryAt(i)
    BY <1>1, <2>1, <2>3, StampEntries
  <2>5. ASSUME NEW i \in 1 .. RowCount, CommittedAt(i) PROVE CommittedAt(i)'
    <3>1. Known(i) /\ Committed(EntryAt(i))
      BY <2>5, CommittedEntry
    <3>2. EntryAt(i) # Mark(x)
      BY <2>3, <3>1
    <3>3. KeepsEntry(i)
      BY <2>4, <3>2 DEF KeepsEntry
    <3> QED  BY <1>3, <2>5, <3>3
  <2> QED  BY <2>2, <2>5
<1>7. CASE Flush \/ CkptSave \/ CloseBegin
  <2>1. FlushPending
    BY <1>7 DEF Flush, CkptSave, CloseBegin
  <2> QED  BY <1>1, <1>3, <2>1, FlushEffect, FlushEntries
<1>8. CASE \/ \E s \in Sessions : Begin(s) \/ LogCommit(s)
           \/ CkptBegin \/ CkptWrite \/ CkptMetaOpen \/ CkptMeta \/ UNCHANGED vars
  <2>1. UNCHANGED <<file, pending, index>>
    BY <1>8 DEF Begin, LogCommit, CkptBegin, CkptWrite, CkptMetaOpen, CkptMeta, vars, memVars, diskVars
  <2> QED  BY <1>4, <2>1
<1>9. CASE CloseEnd \/ Crash \/ \E target \in Targets : Open(target)
  BY <1>9 DEF CloseEnd, Crash, Open
<1> QED  BY <1>5, <1>6, <1>7, <1>8, <1>9 DEF Next

\* What is held is a committed row of the file.
LEMMA HeldPlace ==
    ASSUME TypeOK, NEW i, NEW row
    PROVE  HeldAt(i, row) <=> i \in DOMAIN file /\ i \in 1 .. RowCount /\ RowAt(i) = row /\ CommittedAt(i)
<1>1. \A k \in DOMAIN file : k <= Len(file) /\ k \in 1 .. RowCount
  BY SeqTypes
<1> QED  BY <1>1 DEF HeldAt, RowAt, CommittedAt

\* vfile while a process lives: it stays, is truncated, or becomes the index.
LEMMA LiveSaved ==
    ASSUME TypeParts, [Next]_vars, state # "down", state' # "down"
    PROVE  \/ vfile' = vfile
           \/ vfile'.st = "torn"
           \/ CkptWrite
<1>1. [st |-> "torn", entries |-> <<>>].st = "torn"
  OBVIOUS
<1>2. CASE \E s \in Sessions : Begin(s) \/ Insert(s) \/ LogCommit(s) \/ FinishCommit(s) \/ Rollback(s)
  BY <1>2 DEF Begin, Insert, LogCommit, FinishCommit, Rollback, diskVars
<1>3. CASE Flush \/ CkptBegin \/ CkptMetaOpen \/ CkptMeta \/ UNCHANGED vars
  BY <1>3 DEF Flush, CkptBegin, CkptMetaOpen, CkptMeta, vars, diskVars
<1>4. CASE CkptSave \/ CloseBegin
  BY <1>1, <1>4 DEF CkptSave, CloseBegin
<1>5. CASE CloseEnd \/ Crash \/ \E target \in Targets : Open(target)
  BY <1>5 DEF CloseEnd, Crash, Open
<1> QED  BY <1>2, <1>3, <1>4, <1>5 DEF Next

\* Without a restart, a row that is committed, held or saved remains so.
LEMMA LiveRows ==
    ASSUME TypeParts, TypeOK', [Next]_vars, state # "down", state' # "down", NEW row
    PROVE  /\ Copies(row) # {} => Copies(row)' # {}
           /\ Held(row) => Held(row)'
           /\ Saved(row) => Saved(row)'
           /\ \A i : HeldAt(i, row) => HeldAt(i, row)'
           /\ \A i : HeldAt(i, row) /\ SavedAt(i) => SavedAt(i)'
<1>1. TypeOK /\ BoundInv
  BY PartsOfType
<1>2. KeepsRows /\ \A i \in 1 .. RowCount : CommittedAt(i) => CommittedAt(i)'
  BY LiveEntries
<1>3. \A i \in 1 .. RowCount : i \in 1 .. RowCount'
  <2>1. RowCount \in Nat
    BY <1>1, SeqTypes
  <2> QED  BY <1>2, <2>1 DEF KeepsRows
<1>4. Copies(row) # {} => Copies(row)' # {}
  BY <1>2, <1>3 DEF Copies, KeepsRows
<1>5. ASSUME NEW i, HeldAt(i, row) PROVE HeldAt(i, row)'
  <2>1. i \in DOMAIN file /\ i \in 1 .. RowCount /\ RowAt(i) = row /\ CommittedAt(i)
    BY <1>1, <1>5, HeldPlace
  <2>2. i \in DOMAIN file' /\ i \in 1 .. RowCount' /\ RowAt(i)' = row /\ CommittedAt(i)'
    BY <1>2, <1>3, <2>1 DEF KeepsRows
  <2>3. i <= Len(file')
    BY <2>2, SeqTypes
  <2> QED  BY <2>2, <2>3 DEF HeldAt, RowAt, CommittedAt
<1>6. Held(row) => Held(row)'
  BY <1>5 DEF Held, HeldAt
<1>7. ASSUME NEW i, HeldAt(i, row), SavedAt(i) PROVE SavedAt(i)'
  <2>1. CASE vfile' = vfile
    BY <1>7, <2>1 DEF SavedAt, Loadable
  <2>2. CASE vfile'.st = "torn"
    BY <2>2 DEF SavedAt, Loadable
  <2>3. CASE CkptWrite
    BY <1>7, <2>3 DEF CkptWrite, SaveIndex, HeldAt, SavedAt
  <2> QED  BY <2>1, <2>2, <2>3, LiveSaved
<1>8. Saved(row) => Saved(row)'
  BY <1>5, <1>7 DEF Saved, HeldAt
<1> QED  BY <1>4, <1>5, <1>6, <1>7, <1>8

\* save_vindex saves what is held.
LEMMA WriteSaves ==
    ASSUME TypeOK, CkptWrite, NEW row
    PROVE  /\ Held(row) => Saved(row)'
           /\ row \in atRisk => row \in atRisk' \/ Saved(row)'
<1>1. /\ UNCHANGED <<file, index>> /\ vfile' = [st |-> "ok", entries |-> index]
      /\ atRisk' = atRisk \ {file[i].row : i \in {j \in DOMAIN index : Committed(index[j])}}
  BY DEF CkptWrite, SaveIndex, memVars
<1>2. vfile'.entries = index
  BY <1>1
<1>3. \A i : HeldAt(i, row) => HeldAt(i, row)' /\ SavedAt(i)'
  BY <1>1, <1>2 DEF HeldAt, SavedAt
<1>4. Held(row) => Saved(row)'
  BY <1>3 DEF Held, Saved, HeldAt
<1>5. DOMAIN index \subseteq DOMAIN file
  BY DEF TypeOK
<1>6. row \in atRisk => row \in atRisk' \/ Held(row)
  BY <1>1, <1>5 DEF Held, HeldAt
<1> QED  BY <1>4, <1>6

\* A flush leaves no committed row outside the file.
LEMMA FlushHolds ==
    ASSUME TypeOK, BoundInv, FlushPending, NEW row, Copies(row) # {}
    PROVE  Held(row)'
<1>1. PICK i \in 1 .. RowCount : RowAt(i) = row /\ CommittedAt(i)
  BY DEF Copies
<1>2. DOMAIN file' = 1 .. RowCount /\ Len(file') = RowCount /\ KeepsRows
  BY FlushEffect
<1>3. Known(i)' /\ EntryAt(i)' = EntryAt(i) /\ Committed(EntryAt(i))
  BY <1>1, FlushEntries, CommittedEntry DEF KeepsEntry
<1>4. i <= Len(file')
  BY <1>2, SeqTypes
<1>5. i \in DOMAIN index' /\ index'[i] = EntryAt(i)
  BY <1>3, <1>4 DEF Known, EntryAt
<1>6. file'[i].row = row
  BY <1>1, <1>2, <1>4 DEF KeepsRows, RowAt
<1> QED  BY <1>2, <1>3, <1>5, <1>6 DEF Held, HeldAt

\* Without a restart, a row at risk stays so until it is saved.
LEMMA LiveRisk ==
    ASSUME [Next]_vars, state # "down", state' # "down"
    PROVE  \/ atRisk \subseteq atRisk'
           \/ CkptWrite
<1>1. CASE \E s \in Sessions : Begin(s) \/ Insert(s) \/ LogCommit(s) \/ FinishCommit(s) \/ Rollback(s)
  BY <1>1 DEF Begin, Insert, LogCommit, FinishCommit, Rollback
<1>2. CASE Flush \/ CkptBegin \/ CkptSave \/ CkptMetaOpen \/ CkptMeta \/ CloseBegin \/ UNCHANGED vars
  BY <1>2 DEF Flush, CkptBegin, CkptSave, CkptMetaOpen, CkptMeta, CloseBegin, vars
<1>3. CASE CloseEnd \/ Crash \/ \E target \in Targets : Open(target)
  BY <1>3 DEF CloseEnd, Crash, Open
<1> QED  BY <1>1, <1>2, <1>3 DEF Next

-----------------------------------------------------------------------------
(* Transactions and checkpoints.                                           *)

\* Every transaction of a process gets an id of its own.
LEMMA TxStep ==
    ASSUME TypeParts, OwnInv, TxInv, [Next]_vars
    PROVE  TxInv'
<1>1. /\ tx \in [Sessions -> 0 .. MaxTx] /\ pc \in [Sessions -> {"out", "in", "commit"}]
      /\ nextTx \in Nat /\ \A s \in Sessions : tx[s] \in Nat
  <2>1. TypeOK
    BY PartsOfType
  <2> QED  BY <2>1, Spans DEF TypeOK
<1>2. ASSUME nextTx' = nextTx,
             \A s \in Sessions : \/ tx'[s] = tx[s] /\ (pc'[s] # "out" => pc[s] # "out")
                                 \/ pc'[s] = "out"
      PROVE  TxInv'
  BY <1>2 DEF TxInv
<1>3. ASSUME NEW s \in Sessions, Begin(s) PROVE TxInv'
  <2>1. /\ pc[s] = "out" /\ nextTx' = nextTx + 1
        /\ tx' = [tx EXCEPT ![s] = nextTx] /\ pc' = [pc EXCEPT ![s] = "in"]
    BY <1>3 DEF Begin
  <2>2. \A t \in Sessions : t # s => tx'[t] = tx[t] /\ pc'[t] = pc[t]
    BY <1>1, <2>1
  <2>3. tx'[s] = nextTx
    BY <1>1, <2>1
  <2>4. \A t \in Sessions : t # s /\ pc'[t] # "out" => tx'[t] < nextTx /\ tx'[t] \in Nat
    BY <1>1, <2>2 DEF TxInv
  <2>5. ASSUME NEW t \in Sessions, pc'[t] # "out" PROVE tx'[t] < nextTx'
    BY <1>1, <2>1, <2>3, <2>4, <2>5
  <2>6. ASSUME NEW t \in Sessions, NEW u \in Sessions, t # u, pc'[t] # "out", pc'[u] # "out"
        PROVE  tx'[u] # tx'[t]
    <3>1. CASE t # s /\ u # s
      BY <2>2, <2>6, <3>1 DEF TxInv
    <3>2. CASE t = s \/ u = s
      BY <1>1, <2>3, <2>4, <2>6, <3>2
    <3> QED  BY <3>1, <3>2
  <2> QED  BY <2>5, <2>6 DEF TxInv
<1>4. CASE \E s \in Sessions : Insert(s) \/ LogCommit(s) \/ FinishCommit(s) \/ Rollback(s)
  BY <1>1, <1>2, <1>4 DEF Insert, LogCommit, FinishCommit, Rollback, Leave
<1>5. CASE Flush \/ CkptBegin \/ CkptSave \/ CkptWrite \/ CkptMetaOpen \/ CkptMeta \/ UNCHANGED vars
  BY <1>2, <1>5 DEF Flush, CkptBegin, CkptSave, CkptWrite, CkptMetaOpen, CkptMeta, vars, sessVars
<1>6. CASE CloseBegin \/ Crash
  BY <1>6 DEF CloseBegin, Crash, SessionsGone, TxInv
<1>7. CASE CloseEnd \/ \E target \in Targets : Open(target)
  BY <1>2, <1>7 DEF CloseEnd, Open, sessVars
<1> QED  BY <1>3, <1>4, <1>5, <1>6, <1>7 DEF Next

\* A checkpoint's LSN is not behind the log's, and is before that of whoever
\* begins later.
LEMMA SpanStep ==
    ASSUME TypeParts, SpanInv, [Next]_vars
    PROVE  SpanInv'
<1>1. nextLsn \in Nat /\ ckptLsn \in Nat /\ pc \in [Sessions -> {"out", "in", "commit"}]
      /\ spans \in SUBSET Sessions
  <2>1. TypeOK
    BY PartsOfType
  <2> QED  BY <2>1 DEF TypeOK
<1>2. ASSUME ckpt' # "idle" => ckpt # "idle" /\ ckptLsn' = ckptLsn,
             nextLsn' \in {nextLsn, nextLsn + 1}, state' = "open",
             \A s \in Sessions : pc'[s] # "out" /\ s \notin spans' =>
                                    nextLsn' = nextLsn + 1 \/ (pc[s] # "out" /\ s \notin spans)
      PROVE  SpanInv'
  <2>1. SUFFICES ASSUME ckpt' # "idle"
                 PROVE  /\ ckptLsn' <= nextLsn'
                        /\ \A s \in Sessions \ spans' : pc'[s] # "out" => ckptLsn' < nextLsn'
    BY <1>2 DEF SpanInv
  <2>2. /\ ckptLsn' = ckptLsn /\ ckptLsn <= nextLsn
        /\ \A s \in Sessions \ spans : pc[s] # "out" => ckptLsn < nextLsn
    BY <1>2, <2>1 DEF SpanInv
  <2>3. nextLsn <= nextLsn' /\ nextLsn' \in Nat
    BY <1>1, <1>2
  <2>4. ckptLsn' <= nextLsn'
    BY <1>1, <2>2, <2>3
  <2>5. ASSUME NEW s \in Sessions \ spans', pc'[s] # "out" PROVE ckptLsn' < nextLsn'
    <3>1. CASE nextLsn' = nextLsn + 1
      BY <1>1, <2>2, <3>1
    <3>2. CASE pc[s] # "out" /\ s \notin spans
      BY <1>1, <2>2, <2>3, <3>2
    <3> QED  BY <1>2, <2>5, <3>1, <3>2
  <2> QED  BY <2>4, <2>5
<1>3. CASE \E s \in Sessions : Begin(s) \/ Insert(s) \/ LogCommit(s)
  <2>1. /\ UNCHANGED <<ckpt, ckptLsn>> /\ nextLsn' = nextLsn + 1 /\ state' = "open"
    BY <1>3 DEF Begin, Insert, LogCommit, AppendRecord, ckptVars
  <2> QED  BY <1>2, <2>1
<1>4. ASSUME NEW s \in Sessions, FinishCommit(s) \/ Rollback(s) PROVE SpanInv'
  <2>1. /\ UNCHANGED <<ckpt, ckptLsn>> /\ nextLsn' \in {nextLsn, nextLsn + 1} /\ state' = "open"
        /\ pc' = [pc EXCEPT ![s] = "out"] /\ spans' = spans \ {s}
    BY <1>4 DEF FinishCommit, Rollback, AppendRecord, Leave, ckptVars
  <2>2. \A t \in Sessions : pc'[t] # "out" /\ t \notin spans' => pc[t] # "out" /\ t \notin spans
    BY <1>1, <2>1
  <2> QED  BY <1>2, <2>1, <2>2
<1>5. CASE Flush \/ CkptSave \/ CkptWrite \/ CkptMetaOpen \/ CkptMeta
  <2>1. /\ ckpt' # "idle" => ckpt # "idle" /\ ckptLsn' = ckptLsn
        /\ UNCHANGED <<nextLsn, pc, spans>> /\ state' = "open"
    BY <1>5 DEF Flush, CkptSave, CkptWrite, CkptMetaOpen, CkptMeta, ckptVars, memVars, sessVars
  <2> QED  BY <1>2, <2>1
<1>6. CASE CkptBegin
  <2>1. /\ ckptLsn' = nextLsn /\ nextLsn' = nextLsn /\ pc' = pc /\ state' = "open"
        /\ \A s \in Sessions : pc[s] # "out" => s \in spans'
    BY <1>6 DEF CkptBegin, Running, memVars, sessVars
  <2> QED  BY <1>1, <2>1 DEF SpanInv
<1>7. CASE CloseBegin \/ Crash
  BY <1>7 DEF CloseBegin, Crash, SessionsGone, SpanInv
<1>8. CASE CloseEnd \/ \E target \in Targets : Open(target)
  BY <1>8 DEF CloseEnd, Open, ckptVars, SpanInv
<1>9. CASE UNCHANGED vars
  BY <1>9 DEF vars, ckptVars, memVars, sessVars, SpanInv
<1> QED  BY <1>3, <1>4, <1>5, <1>6, <1>7, <1>8, <1>9 DEF Next

\* Floors: a record that is above those of a running transaction is above
\* those of an acknowledged one; and neither rises, but for the checkpoint that
\* begins, or whose index has just been saved.
LEMMA FloorsStep ==
    ASSUME TypeParts, SpanInv, [Next]_vars, state # "down", state' # "down", NEW rec \in Record
    PROVE  /\ Over(rec, RunFloors) => Over(rec, AckFloors) /\ Over(rec, {meta})
           /\ Over(rec, AckFloors) => Over(rec, {meta})
           /\ Over(rec, RunFloors) => Over(rec, RunFloors') \/ CkptBegin
           /\ Over(rec, AckFloors) => Over(rec, AckFloors') \/ CkptWrite
<1>1. rec.lsn \in Nat /\ meta \in Nat /\ ckptLsn \in Nat
  <2>1. TypeOK
    BY PartsOfType
  <2> QED  BY <2>1 DEF TypeOK, Record
<1>2. /\ Over(rec, RunFloors) <=> meta < rec.lsn /\ (ckpt # "idle" => ckptLsn < rec.lsn)
      /\ Over(rec, AckFloors) <=> meta < rec.lsn /\ (ckpt \in {"saved", "meta"} => ckptLsn < rec.lsn)
      /\ Over(rec, {meta}) <=> meta < rec.lsn
  BY DEF Over, RunFloors, AckFloors
<1>3. /\ Over(rec, RunFloors') <=> meta' < rec.lsn /\ (ckpt' # "idle" => ckptLsn' < rec.lsn)
      /\ Over(rec, AckFloors') <=> meta' < rec.lsn /\ (ckpt' \in {"saved", "meta"} => ckptLsn' < rec.lsn)
  BY DEF Over, RunFloors, AckFloors
<1>4. CASE UNCHANGED <<meta, ckpt, ckptLsn>>
  BY <1>2, <1>3, <1>4
<1>5. CASE \E s \in Sessions : Begin(s) \/ Insert(s) \/ LogCommit(s) \/ FinishCommit(s) \/ Rollback(s)
  BY <1>4, <1>5 DEF Begin, Insert, LogCommit, FinishCommit, Rollback, diskVars, ckptVars
<1>6. CASE Flush \/ UNCHANGED vars
  BY <1>4, <1>6 DEF Flush, vars, diskVars, ckptVars
<1>7. CASE CkptBegin
  <2>1. meta' = meta /\ ckpt' = "begun"
    BY <1>7 DEF CkptBegin, diskVars
  <2> QED  BY <1>2, <1>3, <1>7, <2>1
<1>8. CASE CkptSave
  <2>1. meta' = meta /\ ckpt = "begun" /\ ckpt' = "writing" /\ ckptLsn' = ckptLsn
    BY <1>8 DEF CkptSave
  <2> QED  BY <1>2, <1>3, <2>1
<1>9. CASE CkptWrite
  <2>1. meta' = meta /\ ckpt = "writing" /\ ckpt' = "saved" /\ ckptLsn' = ckptLsn
    BY <1>9 DEF CkptWrite
  <2> QED  BY <1>2, <1>3, <1>9, <2>1
<1>10. CASE CkptMetaOpen
  <2>1. meta' = 0 /\ ckpt = "saved" /\ ckpt' = "meta" /\ ckptLsn' = ckptLsn
    BY <1>10 DEF CkptMetaOpen
  <2> QED  BY <1>1, <1>2, <1>3, <2>1
<1>11. CASE CkptMeta
  <2>1. meta' = ckptLsn /\ ckpt = "meta" /\ ckpt' = "idle"
    BY <1>11 DEF CkptMeta
  <2> QED  BY <1>2, <1>3, <2>1
<1>12. CASE CloseBegin
  <2>1. meta' = meta /\ ckpt' = "idle"
    BY <1>12 DEF CloseBegin, SessionsGone
  <2> QED  BY <1>2, <1>3, <2>1
<1>13. CASE CloseEnd \/ Crash \/ \E target \in Targets : Open(target)
  BY <1>13 DEF CloseEnd, Crash, Open
<1> QED  BY <1>5, <1>6, <1>7, <1>8, <1>9, <1>10, <1>11, <1>12, <1>13 DEF Next

\* What was logged by then was logged by any later time.
LEMMA LoggedLater ==
    ASSUME NEW q, \A i \in DOMAIN q : q[i].n \in Nat, NEW row, NEW F,
           NEW done \in Nat, NEW later \in Nat, done <= later, Logged(q, row, F, done)
    PROVE  Logged(q, row, F, later)
<1>1. PICK i \in DOMAIN q, j \in DOMAIN q :
         /\ InsertOf(q[i], row, F) /\ CommitOf(q[j], row, F)
         /\ q[i].n <= q[j].n /\ q[j].n <= done
  BY DEF Logged
<1>2. q[j].n <= later
  BY <1>1
<1> QED  BY <1>1, <1>2 DEF Logged

\* A commit record completes what is logged of a row of its transaction.
LEMMA CommitLogged ==
    ASSUME TypeParts, LogInv, NEW r, NEW q, NEW row, NEW F, r.type = "commit", r.tx = row.tx,
           r.lsn = nextLsn, r.n = written + 1, state = "open", \A m \in F : m \in Nat,
           Grown(AllLog, q), NEW e \in DOMAIN q, q[e] = r, Entered(AllLog, row, F)
    PROVE  Logged(q, row, F, written + 1)
<1>1. TypeOK
  BY PartsOfType
<1>2. written \in Nat /\ nextLsn \in Nat
  BY <1>1, Spans DEF TypeOK
<1>3. PICK p : p = AllLog
  OBVIOUS
<1>4. PICK i \in DOMAIN p : InsertOf(p[i], row, F)
  BY <1>3 DEF Entered
<1>5. p[i].n \in Nat /\ p[i].lsn \in Nat /\ p[i].n <= written /\ p[i].lsn < nextLsn
  BY <1>1, <1>3, <1>4, AllType DEF LogInv
<1>6. i \in DOMAIN q /\ q[i] = p[i]
  BY <1>3, <1>4 DEF Grown
<1>7. \A m \in F : m < r.lsn
  <2>1. \A m \in F : m < p[i].lsn
    BY <1>4 DEF InsertOf, Over
  <2> QED  BY <1>2, <1>5, <2>1
<1>8. CommitOf(q[e], row, F)
  BY <1>7 DEF CommitOf, Over
<1>9. q[i].n <= q[e].n /\ q[e].n <= written + 1
  BY <1>2, <1>5, <1>6
<1> QED  BY <1>4, <1>6, <1>8, <1>9 DEF Logged

\* A transaction's rows carry its mark until it ends.
LEMMA MarkStep ==
    ASSUME TypeParts, SessionsInv, OwnInv, TxInv, MarkInv, [Next]_vars
    PROVE  MarkInv'
<1>1. TypeOK /\ BoundInv
  BY PartsOfType
<1>2. /\ \A s \in Sessions : tx[s] \in 0 .. MaxTx /\ tx[s] \in Nat /\ cts[s] \in Ts
                             /\ ws[s] \in SUBSET (1 .. RowCount)
      /\ ws \in [Sessions -> SUBSET (1 .. RowCount)]
      /\ tx \in [Sessions -> 0 .. MaxTx] /\ RowCount \in Nat
  BY <1>1, Spans, SeqTypes DEF TypeOK
<1>3. AbortedTs \in Ts /\ Tick(clock) \in Ts /\ \A y \in 0 .. MaxTx : Mark(y) \in Ts
  BY <1>1, Timestamps
<1>4. ASSUME \A i \in 1 .. RowCount : KeepsEntry(i), UNCHANGED tx, ws' = ws \/ ws' = [s \in Sessions |-> {}]
      PROVE  MarkInv'
  <2>1. ASSUME NEW s \in Sessions, NEW i \in ws'[s] PROVE Known(i)' /\ EntryAt(i)' = Mark(tx'[s])
    <3>1. i \in ws[s] /\ i \in 1 .. RowCount
      BY <1>2, <1>4, <2>1
    <3> QED  BY <1>4, <3>1 DEF MarkInv, KeepsEntry
  <2> QED  BY <2>1 DEF MarkInv, Mark
<1>5. ASSUME UNCHANGED <<file, index, pending>> PROVE \A i \in 1 .. RowCount : KeepsEntry(i)
  BY <1>5 DEF KeepsEntry, Known, EntryAt
<1>6. ASSUME NEW s \in Sessions, Begin(s) PROVE MarkInv'
  <2>1. /\ pc[s] = "out" /\ tx' = [tx EXCEPT ![s] = nextTx]
        /\ UNCHANGED <<file, index, pending, ws>>
    BY <1>6 DEF Begin, diskVars
  <2>2. ws[s] = {}
    BY <2>1 DEF OwnInv
  <2>3. ASSUME NEW t \in Sessions, NEW i \in ws'[t] PROVE Known(i)' /\ EntryAt(i)' = Mark(tx'[t])
    <3>1. t # s /\ i \in ws[t] /\ i \in 1 .. RowCount /\ tx'[t] = tx[t]
      BY <1>2, <2>1, <2>2, <2>3
    <3> QED  BY <1>5, <2>1, <3>1 DEF MarkInv, KeepsEntry
  <2> QED  BY <2>3 DEF MarkInv, Mark
<1>7. ASSUME NEW s \in Sessions, Insert(s) PROVE MarkInv'
  <2>1. PICK p : p = [row |-> RowOf(Rec(tx[s], "insert", 0)),
                      ts |-> IF pc[s] = "out" THEN Tick(clock) ELSE Mark(tx[s])]
    OBVIOUS
  <2>2. /\ pending' = Append(pending, p) /\ UNCHANGED <<file, index, tx>>
        /\ ws' = IF pc[s] = "out" THEN ws ELSE [ws EXCEPT ![s] = @ \cup {RowCount + 1}]
    BY <1>7, <2>1 DEF Insert, diskVars
  <2>3. p \in PendingRow /\ (pc[s] # "out" => p.ts = Mark(tx[s]))
    <3>1. written \in Nat /\ restarts \in Nat
      BY <1>1, Spans DEF TypeOK
    <3>2. RowOf(Rec(tx[s], "insert", 0)) \in Row
      BY <1>2, <3>1 DEF RowOf, Rec, Row
    <3> QED  BY <1>2, <1>3, <2>1, <3>2 DEF PendingRow
  <2>4. /\ \A i \in 1 .. RowCount : KeepsEntry(i)
        /\ \A i : i = RowCount + 1 => Known(i)' /\ EntryAt(i)' = p.ts
    BY <1>1, <2>2, <2>3, PendEntries
  <2>5. ASSUME NEW t \in Sessions, NEW i \in ws'[t] PROVE Known(i)' /\ EntryAt(i)' = Mark(tx'[t])
    <3>1. CASE i \in ws[t]
      <4>1. i \in 1 .. RowCount
        BY <1>2, <3>1
      <4> QED  BY <2>2, <2>4, <3>1, <4>1 DEF MarkInv, KeepsEntry
    <3>2. CASE i \notin ws[t]
      <4>1. t = s /\ i = RowCount + 1 /\ pc[s] # "out"
        BY <1>2, <2>2, <2>5, <3>2
      <4> QED  BY <2>2, <2>3, <2>4, <4>1
    <3> QED  BY <3>1, <3>2
  <2> QED  BY <2>5 DEF MarkInv, Mark
<1>8. ASSUME NEW s \in Sessions, FinishCommit(s) \/ Rollback(s) PROVE MarkInv'
  <2>1. PICK ts \in Ts : Stamp(ws[s], tx[s], ts) /\ file' = file
    BY <1>2, <1>3, <1>8 DEF FinishCommit, Rollback, diskVars
  <2>2. /\ tx' = [tx EXCEPT ![s] = 0] /\ ws' = [ws EXCEPT ![s] = {}] /\ pc[s] # "out"
    BY <1>8 DEF FinishCommit, Rollback, Leave
  <2>3. \A i \in 1 .. RowCount : Known(i) =>
              /\ Known(i)'
              /\ EntryAt(i)' = IF i \in ws[s] /\ EntryAt(i) = Mark(tx[s]) THEN ts ELSE EntryAt(i)
    <3>1. PICK w, x : w = ws[s] /\ x = tx[s]
      OBVIOUS
    <3>2. Stamp(w, x, ts)
      BY <2>1, <3>1
    <3> QED  BY <1>1, <2>1, <3>1, <3>2, StampEntries
  <2>4. ASSUME NEW t \in Sessions, NEW i \in ws'[t] PROVE Known(i)' /\ EntryAt(i)' = Mark(tx'[t])
    <3>1. t # s /\ i \in ws[t] /\ i \in 1 .. RowCount /\ tx'[t] = tx[t]
      BY <1>2, <2>2, <2>4
    <3>2. pc[t] # "out"
      BY <3>1 DEF OwnInv
    <3>3. tx[t] # tx[s]
      BY <2>2, <3>1, <3>2 DEF TxInv
    <3>4. Mark(tx[t]) # Mark(tx[s])
      BY <1>2, <3>3, Spans DEF Mark
    <3> QED  BY <2>3, <3>1, <3>4 DEF MarkInv
  <2> QED  BY <2>4 DEF MarkInv, Mark
<1>9. CASE Flush \/ CkptSave
  <2>1. FlushPending /\ UNCHANGED <<tx, ws>>
    BY <1>9 DEF Flush, CkptSave, sessVars
  <2>2. \A i \in 1 .. RowCount : KeepsEntry(i)
    BY <1>1, <2>1, FlushEntries
  <2> QED  BY <1>4, <2>1, <2>2
<1>10. CASE \/ \E s \in Sessions : LogCommit(s)
            \/ CkptBegin \/ CkptWrite \/ CkptMetaOpen \/ CkptMeta \/ UNCHANGED vars
  <2>1. UNCHANGED <<file, pending, index, tx, ws>>
    BY <1>10 DEF LogCommit, CkptBegin, CkptWrite, CkptMetaOpen, CkptMeta, vars, memVars, diskVars, sessVars
  <2> QED  BY <1>4, <1>5, <2>1
<1>11. CASE CloseBegin \/ Crash
  BY <1>11 DEF CloseBegin, Crash, SessionsGone, MarkInv
<1>12. CASE CloseEnd \/ \E target \in Targets : Open(target)
  <2>1. state # "open" /\ UNCHANGED ws
    BY <1>12 DEF CloseEnd, Open, sessVars
  <2> QED  BY <2>1 DEF SessionsInv, MarkInv
<1> QED  BY <1>6, <1>7, <1>8, <1>9, <1>10, <1>11, <1>12 DEF Next

\* What is known of a running transaction's row stays known.
LEMMA RowSafeKept ==
    ASSUME TypeParts, TypeOK', LogInv, SpanInv, [Next]_vars, state # "down", state' # "down", ~CkptBegin,
           NEW s, pc'[s] = pc[s], NEW row, RowSafe(s, row)
    PROVE  RowSafe(s, row)'
<1>1. TypeOK
  BY PartsOfType
<1>2. PICK p, q, F, G : p = AllLog /\ q = AllLog' /\ F = RunFloors /\ G = RunFloors'
  OBVIOUS
<1>3. Grown(p, q)
  BY <1>2, LogStep
<1>4. \A k \in DOMAIN p : p[k] \in Record /\ p[k].n \in Nat
  BY <1>1, <1>2, AllType
<1>5. \A k : k \in DOMAIN p /\ Over(p[k], F) => Over(p[k], G)
  BY <1>2, <1>4, FloorsStep
<1>6. CASE row \in atRisk
  <2>1. row \in atRisk' \/ Saved(row)'
    BY <1>1, <1>6, LiveRisk, WriteSaves
  <2> QED  BY <2>1 DEF RowSafe
<1>7. CASE Saved(row)
  <2>1. Saved(row)'
    BY <1>1, <1>7, LiveRows
  <2> QED  BY <2>1 DEF RowSafe
<1>8. CASE pc[s] = "in" /\ Entered(AllLog, row, RunFloors)
  <2>1. Entered(q, row, G)
    BY <1>2, <1>3, <1>5, <1>8, EnteredKept
  <2> QED  BY <1>2, <1>8, <2>1 DEF RowSafe
<1>9. CASE pc[s] = "commit" /\ Logged(AllLog, row, RunFloors, written)
  <2>1. Logged(q, row, G, written)
    BY <1>2, <1>3, <1>5, <1>9, LoggedKept
  <2>2. \A i \in DOMAIN q : q[i].n \in Nat
    <3>1. PICK l, b : l = log' /\ b = buf'
      OBVIOUS
    <3>2. l \in Seq(Record) /\ b \in Seq(Record)
      BY <1>1, <3>1 DEF TypeOK
    <3>3. q \in Seq(Record)
      BY <1>2, <3>1, <3>2, ConcatProperties DEF AllLog
    <3>4. \A i \in DOMAIN q : q[i] \in Record
      BY <3>3, LenProperties, ElementOfSeq
    <3> QED  BY <3>4 DEF Record
  <2>3. written \in Nat /\ written' \in Nat /\ written <= written'
    <3>1. written' = written \/ written' = written + 1
      BY DEF Next, Begin, Insert, LogCommit, FinishCommit, Rollback, AppendRecord, Flush, CkptBegin, CkptSave,
             CkptWrite, CkptMetaOpen, CkptMeta, CloseBegin, CloseEnd, Crash, Open, vars
    <3> QED  BY <1>1, <3>1, Spans DEF TypeOK
  <2>4. Logged(q, row, G, written')
    BY <2>1, <2>2, <2>3, LoggedLater
  <2> QED  BY <1>2, <1>9, <2>4 DEF RowSafe
<1> QED  BY <1>6, <1>7, <1>8, <1>9 DEF RowSafe

\* A row of a running transaction is at risk, or saved, or in the log above
\* every checkpoint that may count.
LEMMA RunStep ==
    ASSUME TypeParts, TypeOK', SessionsInv, OwnInv, LogInv, SpanInv, RunInv, [Next]_vars
    PROVE  RunInv'
<1>1. TypeOK /\ BoundInv
  BY PartsOfType
<1>2. /\ \A s \in Sessions : tx[s] \in 0 .. MaxTx /\ tx[s] \in Nat /\ ws[s] \in SUBSET (1 .. RowCount)
      /\ ws \in [Sessions -> SUBSET (1 .. RowCount)]
      /\ pc \in [Sessions -> {"out", "in", "commit"}]
      /\ written \in Nat /\ restarts \in Nat /\ nextLsn \in Nat /\ meta \in Nat /\ ckptLsn \in Nat
  BY <1>1, Spans DEF TypeOK
<1>3. 0 \in Ts /\ Tick(clock) \in Ts /\ \A y \in 0 .. MaxTx : Mark(y) \in Ts
  BY <1>1, Timestamps
<1>4. ASSUME KeepsRows, state = "open", state' = "open", ~CkptBegin, NEW s \in Sessions, pc'[s] = pc[s],
             ws'[s] = ws[s], NEW row \in WrittenBy(s)'
      PROVE  RowSafe(s, row)'
  <2>1. row \in WrittenBy(s)
    <3>1. PICK i \in ws'[s] : row = RowAt(i)'
      BY <1>4 DEF WrittenBy
    <3>2. i \in ws[s] /\ i \in 1 .. RowCount
      BY <1>2, <1>4, <3>1
    <3> QED  BY <1>4, <3>1, <3>2 DEF WrittenBy, KeepsRows
  <2>2. RowSafe(s, row)
    BY <2>1 DEF RunInv
  <2> QED  BY <1>4, <2>2, RowSafeKept
<1>5. ASSUME state # "down", state' # "down" PROVE KeepsRows
  BY <1>5, LiveEntries
<1>6. ASSUME NEW s \in Sessions, Begin(s) PROVE RunInv'
  <2>1. /\ pc[s] = "out" /\ pc' = [pc EXCEPT ![s] = "in"] /\ ws' = ws /\ state = "open" /\ state' = "open"
        /\ ckpt' = ckpt
    BY <1>6 DEF Begin, AppendRecord, ckptVars
  <2>2. ws[s] = {} /\ KeepsRows /\ ~CkptBegin
    <3>1. CkptBegin => pc' = pc
      BY DEF CkptBegin, sessVars
    <3>2. pc' # pc
      BY <1>2, <2>1
    <3> QED  BY <1>5, <2>1, <3>1, <3>2 DEF OwnInv
  <2>3. ASSUME NEW t \in Sessions, NEW row \in WrittenBy(t)' PROVE RowSafe(t, row)'
    <3>1. t # s
      BY <2>1, <2>2, <2>3 DEF WrittenBy
    <3>2. pc'[t] = pc[t] /\ ws'[t] = ws[t]
      BY <1>2, <2>1, <3>1
    <3> QED  BY <1>4, <2>1, <2>2, <2>3, <3>2
  <2> QED  BY <2>3 DEF RunInv
<1>7. ASSUME NEW s \in Sessions, Insert(s) PROVE RunInv'
  <2>1. PICK r : r = Rec(tx[s], "insert", 0)
    OBVIOUS
  <2>2. PICK p : p = [row |-> RowOf(r), ts |-> IF pc[s] = "out" THEN Tick(clock) ELSE Mark(tx[s])]
    OBVIOUS
  <2>3. /\ pending' = Append(pending, p) /\ AppendRecord(tx[s], "insert", 0)
        /\ UNCHANGED <<file, log, meta, ckpt, ckptLsn, tx, pc, state>> /\ state = "open"
        /\ pc[s] \in {"out", "in"}
        /\ ws' = IF pc[s] = "out" THEN ws ELSE [ws EXCEPT ![s] = @ \cup {RowCount + 1}]
        /\ s \in spans \/ nextLsn <= meta => RowOf(r) \in atRisk'
    BY <1>7, <2>1, <2>2 DEF Insert, AppendRecord, diskVars, ckptVars
  <2>4. /\ r.lsn = nextLsn /\ r.type = "insert" /\ r.n = written + 1 /\ r.tx = tx[s] /\ r.proc = restarts
    BY <2>1 DEF Rec
  <2>5. /\ r \in Record
        /\ Len(AllLog) + 1 \in DOMAIN AllLog' /\ AllLog'[Len(AllLog) + 1] = r
    BY <1>2, <1>3, <2>1, <2>3, LogAppend
  <2>6. p \in PendingRow /\ p.row = RowOf(r)
    <3>1. RowOf(r) \in Row
      BY <1>2, <2>4 DEF RowOf, Row
    <3> QED  BY <1>2, <1>3, <2>2, <3>1 DEF PendingRow
  <2>7. KeepsRows /\ \A i : i = RowCount + 1 => RowAt(i)' = RowOf(r)
    BY <1>1, <2>3, <2>6, PendEffect
  <2>8. ~CkptBegin
    <3>1. CkptBegin => nextLsn' = nextLsn
      BY DEF CkptBegin, memVars
    <3>2. nextLsn' = nextLsn + 1
      BY <2>3 DEF AppendRecord
    <3> QED  BY <1>2, <3>1, <3>2
  <2>9. ASSUME pc[s] = "in" PROVE RowSafe(s, RowOf(r))'
    <3>1. PICK row : row = RowOf(r)
      OBVIOUS
    <3>2. CASE s \in spans \/ nextLsn <= meta
      <4>1. row \in atRisk'
        BY <2>3, <3>1, <3>2
      <4>2. RowSafe(s, row)'
        BY <4>1 DEF RowSafe
      <4> QED  BY <2>1, <3>1, <4>2 DEF RowOf
    <3>3. CASE ~(s \in spans \/ nextLsn <= meta)
      <4>1. meta < nextLsn /\ (ckpt # "idle" => ckptLsn < nextLsn)
        BY <1>2, <2>9, <3>3 DEF SpanInv
      <4>2. PICK G : G = RunFloors'
        OBVIOUS
      <4>3. Over(r, G)
        BY <2>3, <2>4, <4>1, <4>2 DEF RunFloors, Over
      <4>4. InsertOf(r, row, G)
        BY <2>4, <3>1, <4>3 DEF InsertOf
      <4>5. PICK q : q = AllLog'
        OBVIOUS
      <4>6. Entered(q, row, G)
        BY <2>5, <4>4, <4>5 DEF Entered
      <4>7. RowSafe(s, row)'
        BY <2>3, <2>9, <4>2, <4>5, <4>6 DEF RowSafe
      <4> QED  BY <2>1, <3>1, <4>7 DEF RowOf
    <3> QED  BY <3>2, <3>3
  <2>10. ASSUME NEW t \in Sessions, NEW row \in WrittenBy(t)' PROVE RowSafe(t, row)'
    <3>1. PICK i \in ws'[t] : row = RowAt(i)'
      BY <2>10 DEF WrittenBy
    <3>2. CASE i \in ws[t]
      <4>1. i \in 1 .. RowCount
        BY <1>2, <3>2
      <4>2. row \in WrittenBy(t)
        BY <2>7, <3>1, <3>2, <4>1 DEF WrittenBy, KeepsRows
      <4>3. RowSafe(t, row)
        BY <4>2 DEF RunInv
      <4> QED  BY <2>3, <2>8, <4>3, RowSafeKept
    <3>3. CASE i \notin ws[t]
      <4>1. t = s /\ i = RowCount + 1 /\ pc[s] = "in"
        BY <1>2, <2>3, <3>1, <3>3
      <4>2. row = RowOf(r)
        BY <2>7, <3>1, <4>1
      <4> QED  BY <2>9, <4>1, <4>2
    <3> QED  BY <3>2, <3>3
  <2> QED  BY <2>10 DEF RunInv
<1>8. ASSUME NEW s \in Sessions, LogCommit(s) PROVE RunInv'
  <2>1. PICK r : r = Rec(tx[s], "commit", Tick(clock))
    OBVIOUS
  <2>2. /\ AppendRecord(tx[s], "commit", Tick(clock)) /\ pc[s] = "in"
        /\ UNCHANGED <<log, meta, ckpt, ckptLsn, state, ws>> /\ state = "open"
        /\ pc' = [pc EXCEPT ![s] = "commit"] /\ written' = written + 1
    BY <1>8 DEF LogCommit, AppendRecord, diskVars, ckptVars
  <2>3. r.lsn = nextLsn /\ r.type = "commit" /\ r.n = written + 1 /\ r.tx = tx[s]
    BY <2>1 DEF Rec
  <2>4. /\ Grown(AllLog, AllLog')
        /\ Len(AllLog) + 1 \in DOMAIN AllLog' /\ AllLog'[Len(AllLog) + 1] = r
    BY <1>2, <1>3, <2>1, <2>2, LogAppend
  <2>5. KeepsRows /\ ~CkptBegin
    <3>1. CkptBegin => pc' = pc
      BY DEF CkptBegin, sessVars
    <3>2. pc' # pc
      BY <1>2, <2>2
    <3> QED  BY <1>5, <2>2, <3>1, <3>2
  <2>6. ASSUME NEW row \in WrittenBy(s)' PROVE RowSafe(s, row)'
    <3>1. PICK i \in ws'[s] : row = RowAt(i)'
      BY <2>6 DEF WrittenBy
    <3>2. i \in ws[s] /\ i \in 1 .. RowCount /\ row = RowAt(i)
      BY <1>2, <2>2, <2>5, <3>1 DEF KeepsRows
    <3>3. row \in WrittenBy(s) /\ row.tx = tx[s]
      BY <3>2 DEF WrittenBy, OwnInv
    <3>4. RowSafe(s, row)
      BY <3>3 DEF RunInv
    <3>5. CASE row \in atRisk
      <4>1. row \in atRisk'
        BY <1>8, <3>5 DEF LogCommit
      <4> QED  BY <4>1 DEF RowSafe
    <3>6. CASE Saved(row)
      <4>1. Saved(row)'
        BY <2>2, <3>6, LiveRows
      <4> QED  BY <4>1 DEF RowSafe
    <3>7. CASE Entered(AllLog, row, RunFloors)
      <4>1. PICK q, e, F : q = AllLog' /\ e = Len(AllLog) + 1 /\ F = RunFloors
        OBVIOUS
      <4>2. F = RunFloors' /\ \A m \in F : m \in Nat
        BY <1>2, <2>2, <4>1 DEF RunFloors
      <4>3. Grown(AllLog, q) /\ e \in DOMAIN q /\ q[e] = r
        BY <2>4, <4>1
      <4>4. Logged(q, row, F, written + 1)
        BY <2>2, <2>3, <3>3, <3>7, <4>1, <4>2, <4>3, CommitLogged
      <4>5. pc'[s] = "commit"
        BY <1>2, <2>2
      <4> QED  BY <2>2, <4>1, <4>2, <4>4, <4>5 DEF RowSafe
    <3> QED  BY <2>2, <3>4, <3>5, <3>6, <3>7 DEF RowSafe
  <2>7. ASSUME NEW t \in Sessions, t # s, NEW row \in WrittenBy(t)' PROVE RowSafe(t, row)'
    <3>1. pc'[t] = pc[t] /\ ws'[t] = ws[t]
      BY <1>2, <2>2, <2>7
    <3> QED  BY <1>4, <2>2, <2>5, <2>7, <3>1
  <2> QED  BY <2>6, <2>7 DEF RunInv
<1>9. ASSUME NEW s \in Sessions, FinishCommit(s) \/ Rollback(s) PROVE RunInv'
  <2>1. /\ pc' = [pc EXCEPT ![s] = "out"] /\ ws' = [ws EXCEPT ![s] = {}] /\ pc[s] # "out"
        /\ state = "open" /\ state' = "open"
    BY <1>9 DEF FinishCommit, Rollback, AppendRecord, Leave
  <2>2. KeepsRows /\ ~CkptBegin
    <3>1. CkptBegin => pc' = pc
      BY DEF CkptBegin, sessVars
    <3>2. pc' # pc
      BY <1>2, <2>1
    <3> QED  BY <1>5, <2>1, <3>1, <3>2
  <2>3. ASSUME NEW t \in Sessions, NEW row \in WrittenBy(t)' PROVE RowSafe(t, row)'
    <3>1. t # s
      BY <1>2, <2>1, <2>3 DEF WrittenBy
    <3>2. pc'[t] = pc[t] /\ ws'[t] = ws[t]
      BY <1>2, <2>1, <3>1
    <3> QED  BY <1>4, <2>1, <2>2, <2>3, <3>2
  <2> QED  BY <2>3 DEF RunInv
<1>10. CASE CkptBegin
  <2>1. /\ UNCHANGED <<file, pending, pc, ws>>
        /\ atRisk' = atRisk \cup {RowAt(i) : i \in UNION {ws[s] : s \in Running}}
    BY <1>10 DEF CkptBegin, memVars, diskVars, sessVars
  <2>2. ASSUME NEW s \in Sessions, NEW row \in WrittenBy(s)' PROVE RowSafe(s, row)'
    <3>1. PICK i \in ws'[s] : row = RowAt(i)'
      BY <2>2 DEF WrittenBy
    <3>2. i \in ws[s] /\ row = RowAt(i)
      BY <2>1, <3>1 DEF RowAt
    <3>3. s \in Running
      BY <3>2 DEF OwnInv, Running
    <3>4. row \in atRisk'
      BY <2>1, <3>2, <3>3
    <3> QED  BY <3>4 DEF RowSafe
  <2> QED  BY <2>2 DEF RunInv
<1>11. ASSUME Flush \/ CkptSave \/ CkptWrite \/ CkptMetaOpen \/ CkptMeta, ~CkptBegin PROVE RunInv'
  <2>1. UNCHANGED <<pc, ws>> /\ state = "open" /\ state' = "open"
    BY <1>11 DEF Flush, CkptSave, CkptWrite, CkptMetaOpen, CkptMeta, sessVars
  <2>2. KeepsRows
    BY <1>5, <2>1
  <2>3. ASSUME NEW t \in Sessions, NEW row \in WrittenBy(t)' PROVE RowSafe(t, row)'
    BY <1>4, <1>11, <2>1, <2>2, <2>3
  <2> QED  BY <2>3 DEF RunInv
<1>12. CASE CloseBegin \/ Crash
  <2>1. \A s \in Sessions : WrittenBy(s)' = {}
    BY <1>12 DEF CloseBegin, Crash, SessionsGone, WrittenBy
  <2> QED  BY <2>1 DEF RunInv
<1>13. CASE CloseEnd \/ \E target \in Targets : Open(target)
  <2>1. \A s \in Sessions : ws'[s] = {}
    BY <1>13 DEF CloseEnd, Open, sessVars, SessionsInv
  <2>2. \A s \in Sessions : WrittenBy(s)' = {}
    BY <2>1 DEF WrittenBy
  <2> QED  BY <2>2 DEF RunInv
<1>14. CASE UNCHANGED vars
  <2>1. UNCHANGED <<pc, ws, state>>
    BY <1>14 DEF vars, sessVars
  <2>2. CASE state = "open"
    <3>1. ASSUME NEW t \in Sessions, NEW row \in WrittenBy(t)' PROVE RowSafe(t, row)'
      BY <1>4, <1>5, <1>10, <2>1, <2>2, <3>1 DEF RunInv
    <3> QED  BY <3>1 DEF RunInv
  <2>3. CASE state # "open"
    <3>1. \A s \in Sessions : WrittenBy(s)' = {}
      BY <2>1, <2>3 DEF SessionsInv, WrittenBy
    <3> QED  BY <3>1 DEF RunInv
  <2> QED  BY <2>2, <2>3
<1> QED  BY <1>6, <1>7, <1>8, <1>9, <1>10, <1>11, <1>12, <1>13, <1>14 DEF Next

-----------------------------------------------------------------------------
(* Acknowledged rows.                                                      *)

\* What is known of an acknowledged row stays known while the process lives.
LEMMA AckSafeKept ==
    ASSUME TypeParts, TypeOK', LogInv, SpanInv, [Next]_vars, state # "down", state' # "down",
           NEW a, AckSafe(a)
    PROVE  AckSafe(a)'
<1>1. TypeOK /\ BoundInv
  BY PartsOfType
<1>2. PICK row, done : row = a.row /\ done = a.done
  OBVIOUS
<1>3. /\ Copies(row) # {}
      /\ row \in atRisk \/ Saved(row) \/ Logged(log, row, AckFloors, done)
      /\ ckpt = "writing" => Held(row) \/ (row.tx = 0 /\ row \in atRisk)
      /\ state = "closing" => Held(row)
  BY <1>2 DEF AckSafe
<1>4. /\ Copies(row)' # {} /\ (Held(row) => Held(row)') /\ (Saved(row) => Saved(row)')
  BY <1>3, LiveRows
<1>5. row \in atRisk => row \in atRisk' \/ Saved(row)'
  BY <1>1, LiveRisk, WriteSaves
<1>6. row \in atRisk' \/ Saved(row)' \/ Logged(log', row, AckFloors', done)
  <2>1. CASE CkptWrite
    <3>1. Held(row) => Saved(row)'
      BY <1>1, <2>1, WriteSaves
    <3>2. ckpt = "writing"
      BY <2>1 DEF CkptWrite
    <3> QED  BY <1>3, <1>5, <3>1, <3>2
  <2>2. CASE ~CkptWrite
    <3>1. PICK p, q, F, G : p = log /\ q = log' /\ F = AckFloors /\ G = AckFloors'
      OBVIOUS
    <3>2. Grown(p, q)
      BY <3>1, LogStep
    <3>3. \A k \in DOMAIN p : p[k] \in Record
      BY <1>1, <3>1, SeqTypes
    <3>4. \A k : k \in DOMAIN p /\ Over(p[k], F) => Over(p[k], G)
      BY <2>2, <3>1, <3>3, FloorsStep
    <3>5. Logged(p, row, F, done) => Logged(q, row, G, done)
      BY <3>2, <3>4, LoggedKept
    <3> QED  BY <1>3, <1>4, <1>5, <3>1, <3>5
  <2> QED  BY <2>1, <2>2
<1>7. ckpt' = "writing" => Held(row)' \/ (row.tx = 0 /\ row \in atRisk')
  <2>1. CASE CkptSave
    <3>1. FlushPending
      BY <2>1 DEF CkptSave
    <3> QED  BY <1>1, <1>3, <3>1, FlushHolds
  <2>2. CASE CkptWrite
    BY <2>2 DEF CkptWrite
  <2>3. CASE ~CkptSave /\ ~CkptWrite
    <3>1. ckpt' = "writing" => ckpt = "writing"
      BY <2>3 DEF Next, Begin, Insert, LogCommit, FinishCommit, Rollback, Flush, CkptBegin,
                  CkptMetaOpen, CkptMeta, CloseBegin, CloseEnd, Crash, Open, SessionsGone, vars, ckptVars
    <3>2. atRisk \subseteq atRisk'
      BY <2>3, LiveRisk
    <3> QED  BY <1>3, <1>4, <3>1, <3>2
  <2> QED  BY <2>1, <2>2, <2>3
<1>8. state' = "closing" => Held(row)'
  <2>1. CASE CloseBegin
    <3>1. FlushPending
      BY <2>1 DEF CloseBegin
    <3> QED  BY <1>1, <1>3, <3>1, FlushHolds
  <2>2. CASE ~CloseBegin
    <3>1. state' = "closing" => state = "closing"
      BY <2>2 DEF Next, Begin, Insert, LogCommit, FinishCommit, Rollback, AppendRecord, Flush, CkptBegin, CkptSave,
                  CkptWrite, CkptMetaOpen, CkptMeta, CloseEnd, Crash, Open, vars
    <3> QED  BY <1>3, <1>4, <3>1
  <2> QED  BY <2>1, <2>2
<1> QED  BY <1>2, <1>4, <1>6, <1>7, <1>8 DEF AckSafe

\* INSERT outside a transaction acknowledges a row that is at risk.
LEMMA AckInsert ==
    ASSUME TypeParts, OwnInv, NEW s \in Sessions, Insert(s), NEW a \in acked' \ acked
    PROVE  a.row \in excused' \/ AckSafe(a)'
<1>1. TypeOK /\ BoundInv
  BY PartsOfType
<1>2. PICK r : r = Rec(tx[s], "insert", 0)
  OBVIOUS
<1>3. PICK p : p = [row |-> RowOf(r), ts |-> IF pc[s] = "out" THEN Tick(clock) ELSE Mark(tx[s])]
  OBVIOUS
<1>4. /\ acked' = IF pc[s] = "out" THEN acked \cup {[row |-> RowOf(r), done |-> RowOf(r).n]} ELSE acked
      /\ pending' = Append(pending, p) /\ UNCHANGED <<file, index>> /\ state' = "open"
      /\ excused' = IF pc[s] = "out" THEN excused \cup Buried({RowOf(r)}, Tick(clock)) ELSE excused
      /\ pc[s] = "out" => RowOf(r) \in atRisk'
  BY <1>2, <1>3 DEF Insert, AppendRecord, diskVars
<1>5. pc[s] = "out" /\ a.row = RowOf(r)
  BY <1>4
<1>6. a.row \in atRisk' /\ p.row = a.row /\ p.ts = Tick(clock)
  BY <1>3, <1>4, <1>5
<1>7. a.row.tx = 0
  <2>1. tx[s] = 0
    BY <1>5 DEF OwnInv
  <2>2. r.tx = tx[s] /\ RowOf(r).tx = r.tx
    BY <1>2 DEF Rec, RowOf
  <2> QED  BY <1>5, <2>1, <2>2
<1>8. p \in PendingRow
  <2>1. written \in Nat /\ restarts \in Nat /\ tx[s] \in Nat
    BY <1>1, Spans DEF TypeOK
  <2>2. RowOf(r) \in Row
    BY <1>2, <2>1 DEF RowOf, Rec, Row
  <2>3. Tick(clock) \in Ts
    BY <1>1, Timestamps
  <2> QED  BY <1>5, <1>6, <2>2, <2>3, <1>3 DEF PendingRow
<1>9. PICK i : i = RowCount + 1
  OBVIOUS
<1>10. RowAt(i)' = a.row /\ Known(i)' /\ EntryAt(i)' = Tick(clock) /\ i \in 1 .. RowCount'
  <2>1. RowCount' = RowCount + 1 /\ RowAt(i)' = p.row
    BY <1>1, <1>4, <1>8, <1>9, PendEffect
  <2>2. Known(i)' /\ EntryAt(i)' = p.ts
    BY <1>1, <1>4, <1>8, <1>9, PendEntries
  <2>3. RowCount + 1 \in 1 .. RowCount + 1
    BY <1>1, SeqTypes
  <2> QED  BY <1>6, <1>9, <2>1, <2>2, <2>3
<1>11. CASE Committed(Tick(clock))
  <2>1. CommittedAt(i)'
    BY <1>10, <1>11 DEF CommittedAt, Known, EntryAt
  <2>2. Copies(a.row)' # {}
    BY <1>10, <2>1 DEF Copies
  <2> QED  BY <1>4, <1>6, <1>7, <2>2 DEF AckSafe
<1>12. CASE ~Committed(Tick(clock))
  BY <1>4, <1>5, <1>12 DEF Buried
<1> QED  BY <1>11, <1>12

\* COMMIT acknowledges rows that it has stamped, and whose records it has
\* flushed.
LEMMA AckCommit ==
    ASSUME TypeParts, TypeOK', MarkInv, RunInv, SpanInv, LogInv, [Next]_vars,
           NEW s \in Sessions, FinishCommit(s), NEW a \in acked' \ acked
    PROVE  a.row \in excused' \/ AckSafe(a)'
<1>1. TypeOK /\ BoundInv
  BY PartsOfType
<1>2. /\ acked' = acked \cup {[row |-> RowAt(i), done |-> written] : i \in ws[s]}
      /\ excused' = excused \cup Buried({RowAt(i) : i \in ws[s]}, cts[s])
      /\ UNCHANGED <<atRisk, file, meta, ckpt, ckptLsn, state>> /\ ckpt # "writing" /\ state = "open"
      /\ Stamp(ws[s], tx[s], cts[s]) /\ log' = log \o buf /\ buf' = <<>> /\ pc[s] = "commit"
  BY DEF FinishCommit, IndexFree, ckptVars
<1>3. PICK i \in ws[s] : a = [row |-> RowAt(i), done |-> written]
  BY <1>2
<1>4. PICK row : row = RowAt(i) /\ a.row = row /\ a.done = written
  BY <1>3
<1>5. i \in 1 .. RowCount /\ cts[s] \in Ts
  BY <1>1, <1>3 DEF TypeOK
<1>6. Known(i) /\ EntryAt(i) = Mark(tx[s])
  BY <1>3 DEF MarkInv
<1>7. Known(i)' /\ EntryAt(i)' = cts[s]
  <2>1. PICK w, x, ts : w = ws[s] /\ x = tx[s] /\ ts = cts[s]
    OBVIOUS
  <2>2. Stamp(w, x, ts)
    BY <1>2, <2>1
  <2>3. /\ Known(i)' /\ EntryAt(i)' = IF i \in w /\ EntryAt(i) = Mark(x) THEN ts ELSE EntryAt(i)
    BY <1>1, <1>2, <1>5, <1>6, <2>1, <2>2, StampEntries
  <2> QED  BY <1>3, <1>6, <2>1, <2>3
<1>8. KeepsRows
  BY <1>2, LiveEntries
<1>9. i \in 1 .. RowCount' /\ RowAt(i)' = row
  BY <1>1, <1>4, <1>5, <1>8, SeqTypes DEF KeepsRows
<1>10. CASE ~Committed(cts[s])
  BY <1>2, <1>3, <1>4, <1>10 DEF Buried
<1>11. CASE Committed(cts[s])
  <2>1. CommittedAt(i)'
    BY <1>7, <1>11 DEF CommittedAt, Known, EntryAt
  <2>2. Copies(row)' # {}
    BY <1>9, <2>1 DEF Copies
  <2>3. RowSafe(s, row)
    BY <1>3, <1>4 DEF RunInv, WrittenBy
  <2>4. row \in atRisk' \/ Saved(row)' \/ Logged(log', row, AckFloors', written)
    <3>1. CASE row \in atRisk
      BY <1>2, <3>1
    <3>2. CASE Saved(row)
      BY <1>2, <3>2, LiveRows
    <3>3. CASE Logged(AllLog, row, RunFloors, written)
      <4>1. log' = AllLog
        BY <1>1, <1>2, AllFlushed
      <4>2. PICK p, F, G : p = AllLog /\ F = RunFloors /\ G = AckFloors'
        OBVIOUS
      <4>3. \A k \in DOMAIN p : p[k] \in Record
        BY <1>1, <4>2, AllType
      <4>4. G = AckFloors
        BY <1>2, <4>2 DEF AckFloors
      <4>5. \A k : k \in DOMAIN p /\ Over(p[k], F) => Over(p[k], G)
        BY <1>2, <4>2, <4>3, <4>4, FloorsStep
      <4>6. Grown(p, p)
        BY DEF Grown
      <4>7. Logged(p, row, G, written)
        BY <3>3, <4>2, <4>5, <4>6, LoggedKept
      <4> QED  BY <4>1, <4>2, <4>7
    <3> QED  BY <1>2, <2>3, <3>1, <3>2, <3>3 DEF RowSafe
  <2> QED  BY <1>2, <1>4, <2>2, <2>4 DEF AckSafe
<1> QED  BY <1>10, <1>11

\* A crash costs what is at risk and no more.
LEMMA AckCrash ==
    ASSUME TypeParts, LogInv, SpanInv, [Next]_vars, Crash, NEW a, AckSafe(a), a.row \notin excused'
    PROVE  DownSafe(a)'
<1>1. PICK row, done : row = a.row /\ done = a.done
  OBVIOUS
<1>2. UNCHANGED <<file, vfile, meta>> /\ row \notin atRisk
  BY <1>1 DEF Crash
<1>3. Saved(row) \/ Logged(log, row, AckFloors, done)
  BY <1>1, <1>2 DEF AckSafe
<1>4. CASE Saved(row)
  <2>1. OnDisk(row)
    BY <1>4 DEF Saved, OnDisk, HeldAt
  <2>2. OnDisk(row)'
    BY <1>2, <2>1 DEF OnDisk, SavedAt, Loadable
  <2> QED  BY <1>1, <2>2 DEF DownSafe
<1>5. CASE Logged(log, row, AckFloors, done)
  <2>1. PICK p, q, F, G : p = log /\ q = log' /\ F = AckFloors /\ G = {meta}
    OBVIOUS
  <2>2. Grown(p, q)
    BY <2>1, LogStep
  <2>3. \A k : k \in DOMAIN p /\ Over(p[k], F) => Over(p[k], G)
    BY <2>1 DEF Over, AckFloors
  <2>4. Logged(q, row, G, done)
    BY <1>5, <2>1, <2>2, <2>3, LoggedKept
  <2> QED  BY <1>1, <1>2, <2>1, <2>4 DEF DownSafe
<1> QED  BY <1>3, <1>4, <1>5

\* close saves all that is held.
LEMMA AckClose ==
    ASSUME CloseEnd, NEW a, AckSafe(a)
    PROVE  DownSafe(a)'
<1>1. /\ file' = file /\ vfile' = [st |-> "ok", entries |-> index] /\ state = "closing"
  BY DEF CloseEnd, SaveIndex
<1>2. PICK i \in DOMAIN file : HeldAt(i, a.row)
  BY <1>1 DEF AckSafe, Held
<1>3. vfile'.entries = index
  BY <1>1
<1>4. SavedAt(i)' /\ file'[i].row = a.row
  BY <1>1, <1>2, <1>3 DEF SavedAt, HeldAt
<1> QED  BY <1>1, <1>4 DEF DownSafe, OnDisk

\* open finds what is on disk, and replays what is only logged.
LEMMA AckOpen ==
    ASSUME TypeParts, TypeOK', LogInv, PageInv, PlaceInv, SpanInv, NEW target \in Nat, Open(target),
           NEW a \in acked, DownSafe(a), a.row \notin excused'
    PROVE  AckSafe(a)'
<1>1. TypeOK /\ BoundInv
  BY PartsOfType
<1>2. /\ state = "down" /\ state' = "open"
      /\ index' = IF Loadable THEN vfile.entries ELSE Rebuilt
      /\ UNCHANGED <<file, vfile, log, meta, ckpt, ckptLsn>>
      /\ excused' = excused \cup {b.row : b \in {c \in acked : c.done > target}}
                        \cup UNION {Buried({p.row}, p.ts) : p \in {pending'[k] : k \in DOMAIN pending'}}
  BY DEF Open, diskVars, ckptVars
<1>3. ckpt' = "idle" /\ AckFloors' = {meta}
  BY <1>2 DEF SpanInv, AckFloors
<1>4. PICK row, done : row = a.row /\ done = a.done
  OBVIOUS
<1>5. row \in Row /\ done \in Nat
  BY <1>1, <1>4 DEF TypeOK
<1>6. pending = <<>>
  BY <1>2 DEF PlaceInv
<1>7. ASSUME NEW i \in 1 .. RowCount', RowAt(i)' = row, CommittedAt(i)' PROVE Copies(row)' # {}
  BY <1>7 DEF Copies
<1>8. CASE OnDisk(row)
  <2>1. PICK i \in DOMAIN file : file[i].row = row /\ SavedAt(i)
    BY <1>8 DEF OnDisk
  <2>2. i \in DOMAIN index' /\ Committed(index'[i])
    <3>1. CASE Loadable
      BY <1>2, <2>1, <3>1 DEF SavedAt
    <3>2. CASE ~Loadable
      <4>1. index'[i] = file[i].page % TsSpan /\ i \in DOMAIN index'
        BY <1>2, <2>1, <3>2 DEF Rebuilt
      <4>2. file[i].page \in Nat /\ file[i].page < kTxIdFlag
        BY <2>1, PageBound
      <4>3. file[i].page < TsSpan /\ TsSpan \in Nat \ {0}
        BY <4>2, Spans
      <4>4. file[i].page % TsSpan = file[i].page
        BY <4>2, <4>3, ModEffect
      <4> QED  BY <4>1, <4>2, <4>4 DEF Committed
    <3> QED  BY <3>1, <3>2
  <2>3. HeldAt(i, row)' /\ SavedAt(i)'
    BY <1>2, <2>1, <2>2 DEF HeldAt, SavedAt, Loadable
  <2>4. Saved(row)'
    BY <1>2, <2>3 DEF Saved
  <2>5. i \in 1 .. RowCount' /\ RowAt(i)' = row /\ CommittedAt(i)'
    <3>1. i <= Len(file) /\ i \in 1 .. RowCount
      BY <1>1, SeqTypes
    <3>2. KeepsRows
      BY <1>6, OpenRows
    <3>3. 1 .. RowCount \subseteq 1 .. RowCount'
      BY <1>1, <3>2, SeqTypes DEF KeepsRows
    <3> QED  BY <1>2, <2>3, <3>1, <3>3 DEF HeldAt, RowAt, CommittedAt
  <2> QED  BY <1>2, <1>3, <1>4, <1>7, <2>4, <2>5 DEF AckSafe
<1>9. CASE Logged(log, row, {meta}, done)
  <2>1. PICK p : p = pending'
    OBVIOUS
  <2>2. /\ p = Replay(target) /\ Len(file) \in Nat
        /\ \A k \in DOMAIN p : Len(file) + k \in 1 .. RowCount' /\ ~(Len(file) + k <= Len(file))
        /\ \A i, k : k \in DOMAIN p /\ i = Len(file) + k => RowAt(i)' = p[k].row
        /\ DOMAIN p = 1 .. Len(p)
    BY <1>1, <1>6, <2>1, OpenRows, SeqTypes
  <2>3. done <= target
    <3>1. ~(done > target)
      BY <1>2, <1>4
    <3> QED  BY <1>5, <3>1
  <2>4. PICK k \in DOMAIN p : p[k].row = row
    BY <1>2, <1>5, <1>9, <2>2, <2>3, ReplayHas
  <2>5. Committed(p[k].ts)
    BY <1>2, <1>4, <2>1, <2>4 DEF Buried
  <2>6. PICK i : i = Len(file) + k
    OBVIOUS
  <2>7. i \in 1 .. RowCount' /\ ~(i <= Len(file)) /\ RowAt(i)' = row /\ i - Len(file) = k
    BY <2>2, <2>4, <2>6
  <2>8. CommittedAt(i)'
    BY <1>2, <2>1, <2>5, <2>7 DEF CommittedAt
  <2>9. Copies(row)' # {}
    BY <1>7, <2>7, <2>8
  <2>10. Logged(log', row, AckFloors', done)
    BY <1>2, <1>3, <1>9
  <2> QED  BY <1>2, <1>3, <1>4, <2>9, <2>10 DEF AckSafe
<1> QED  BY <1>4, <1>8, <1>9 DEF DownSafe

\* Every step keeps what is known of the acknowledged rows.
LEMMA AckStep ==
    ASSUME TypeParts, TypeOK', OwnInv, LogInv, PageInv, PlaceInv, SpanInv, MarkInv, RunInv, AckInv,
           [Next]_vars
    PROVE  AckInv'
<1>1. \A a \in acked : a.row \in excused \/ IF state = "down" THEN DownSafe(a) ELSE AckSafe(a)
  BY DEF AckInv
<1>2. excused \subseteq excused'
  BY DEF Next, Begin, Insert, LogCommit, FinishCommit, Rollback, Flush, CkptBegin, CkptSave, CkptWrite,
         CkptMetaOpen, CkptMeta, CloseBegin, CloseEnd, Crash, Open, vars, pastVars
<1>3. CASE state # "down" /\ state' # "down"
  <2>1. ASSUME NEW a \in acked PROVE a.row \in excused' \/ AckSafe(a)'
    BY <1>1, <1>2, <1>3, AckSafeKept
  <2>2. ASSUME NEW a \in acked' \ acked PROVE a.row \in excused' \/ AckSafe(a)'
    <3>1. \/ acked' = acked
          \/ \E s \in Sessions : Insert(s) \/ FinishCommit(s)
      BY DEF Next, Begin, LogCommit, Rollback, Flush, CkptBegin, CkptSave, CkptWrite,
             CkptMetaOpen, CkptMeta, CloseBegin, CloseEnd, Crash, Open, vars
    <3> QED  BY <2>2, <3>1, AckInsert, AckCommit
  <2>3. \A a \in acked' : a.row \in excused' \/ AckSafe(a)'
    BY <2>1, <2>2
  <2> QED  BY <1>3, <2>3 DEF AckInv
<1>4. CASE Crash
  <2>1. acked' = acked /\ state' = "down" /\ state # "down"
    BY <1>4 DEF Crash
  <2>2. \A a \in acked : a.row \in excused' \/ DownSafe(a)'
    BY <1>1, <1>2, <1>4, <2>1, AckCrash
  <2> QED  BY <2>1, <2>2 DEF AckInv
<1>5. CASE CloseEnd
  <2>1. acked' = acked /\ state' = "down" /\ state # "down"
    BY <1>5 DEF CloseEnd
  <2>2. \A a \in acked : a.row \in excused' \/ DownSafe(a)'
    BY <1>1, <1>2, <1>5, <2>1, AckClose
  <2> QED  BY <2>1, <2>2 DEF AckInv
<1>6. ASSUME NEW target \in Targets, Open(target) PROVE AckInv'
  <2>1. acked' = acked /\ state = "down" /\ state' = "open"
    BY <1>6 DEF Open
  <2>2. target \in Nat
    <3>1. TypeOK
      BY PartsOfType
    <3> QED  BY <3>1, Spans DEF Targets, TypeOK
  <2>3. \A a \in acked : a.row \in excused' \/ AckSafe(a)'
    BY <1>1, <1>2, <1>6, <2>1, <2>2, AckOpen
  <2> QED  BY <2>1, <2>3 DEF AckInv
<1>7. CASE UNCHANGED vars /\ state = "down"
  <2>1. UNCHANGED <<acked, state, excused, file, vfile, log, meta>>
    BY <1>7 DEF vars, diskVars, pastVars
  <2>2. \A a \in acked : DownSafe(a) => DownSafe(a)'
    BY <2>1 DEF DownSafe, OnDisk, SavedAt, Loadable
  <2> QED  BY <1>1, <1>7, <2>1, <2>2 DEF AckInv
<1>8. \/ state # "down" /\ state' # "down"
      \/ Crash \/ CloseEnd \/ (\E target \in Targets : Open(target))
      \/ UNCHANGED vars /\ state = "down"
  BY DEF Next, Begin, Insert, LogCommit, FinishCommit, Rollback, AppendRecord, Flush, CkptBegin, CkptSave,
         CkptWrite, CkptMetaOpen, CkptMeta, CloseBegin, vars
<1> QED  BY <1>3, <1>4, <1>5, <1>6, <1>7, <1>8

\* The parts of the inductive invariant.
DurableParts ==
    /\ TypeParts /\ SessionsInv /\ OwnInv /\ LogInv /\ PageInv /\ PlaceInv
    /\ TxInv /\ SpanInv /\ MarkInv /\ RunInv /\ AckInv

\* They hold at first.
LEMMA DurableInit == Init => DurableParts
<1> SUFFICES ASSUME Init PROVE DurableParts
  OBVIOUS
<1>1. TypeParts /\ SessionsInv
  BY InitType DEF Init, SessionsInv
<1>2. OwnInv /\ TxInv /\ MarkInv
  BY DEF Init, OwnInv, TxInv, MarkInv
<1>3. SpanInv /\ AckInv
  BY DEF Init, SpanInv, AckInv
<1>4. RunInv
  BY DEF Init, RunInv, WrittenBy
<1>5. file = <<>> /\ pending = <<>> /\ log = <<>> /\ buf = <<>> /\ state = "open" /\ written = 0 /\ restarts = 0
  BY DEF Init
<1>6. PageInv
  BY <1>5 DEF PageInv, Owed
<1>7. RowCount = 0
  <2>1. Len(file) = 0 /\ Len(pending) = 0
    BY <1>5
  <2> QED  BY <2>1 DEF RowCount
<1>8. PlaceInv
  <2>1. 1 .. RowCount = {}
    BY <1>7
  <2>2. \A row : Places(row) = {}
    BY <2>1 DEF Places
  <2>3. \A row \in Row : Cardinality(Places(row)) <= 1 + 2 * Opens
    <3>1. Opens = 0 /\ Cardinality({}) = 0
      BY <1>5, FS_EmptySet DEF Opens
    <3>2. 0 <= 1 + 2 * 0
      OBVIOUS
    <3> QED  BY <2>2, <3>1, <3>2
  <2> QED  BY <1>5, <2>1, <2>3 DEF PlaceInv
<1>9. LogInv
  <2>1. DOMAIN AllLog = {}
    <3>1. log \in Seq(Record) /\ buf = <<>> /\ DOMAIN log = {}
      BY <1>5
    <3>2. log \o buf = log
      BY <3>1, ConcatNothing
    <3> QED  BY <3>1, <3>2 DEF AllLog
  <2> QED  BY <1>5, <2>1 DEF LogInv
<1> QED  BY <1>1, <1>2, <1>3, <1>4, <1>6, <1>8, <1>9 DEF DurableParts

\* The types, in the next state.
LEMMA NextType == ASSUME TypeParts' PROVE TypeOK'
BY DEF TypeParts, FileType, LogType, RowsType, SessType, GhostType, GoodLog, FileRow, PendingRow, TypeOK

\* Every step keeps the parts.
LEMMA DurableStep == ASSUME DurableParts, [Next]_vars PROVE DurableParts'
<1>1. /\ TypeParts /\ SessionsInv /\ OwnInv /\ LogInv /\ PageInv /\ PlaceInv
      /\ TxInv /\ SpanInv /\ MarkInv /\ RunInv /\ AckInv
  BY DEF DurableParts
<1>2. TypeParts' /\ TypeOK' /\ SessionsInv'
  BY <1>1, TypeStep, SessionsStep, NextType
<1>3. OwnInv' /\ LogInv' /\ PageInv' /\ PlaceInv'
  BY <1>1, OwnStep, LogStep, PageStep, PlaceStep
<1>4. TxInv' /\ SpanInv' /\ MarkInv'
  BY <1>1, TxStep, SpanStep, MarkStep
<1>5. RunInv' /\ AckInv'
  BY <1>1, <1>2, RunStep, AckStep
<1> QED  BY <1>2, <1>3, <1>4, <1>5 DEF DurableParts

\* They hold in every reachable state.
LEMMA DurableInvariant == Spec => []DurableParts
<1>1. DurableParts /\ [Next]_vars => DurableParts'
  BY DurableStep
<1> QED  BY <1>1, DurableInit, PTL DEF Spec

\* A row whose COMMIT or INSERT was acknowledged is in the database after any
\* number of crashes, shutdowns and opens, whatever checkpoints ran and whichever
\* of the four files an end of the process found half written, unless atRisk
\* named it when a process crashed or nothing is claimed of it; and every open
\* adds two copies of a row at most.
THEOREM AckedRowsSurvive == Spec => []AckedPresent
<1>1. DurableParts => AckedPresent
  <2> SUFFICES ASSUME DurableParts, state \in {"open", "closing"}, NEW a \in acked
               PROVE  /\ a.row \in excused \/ Copies(a.row) # {}
                      /\ Cardinality(Copies(a.row)) <= 1 + 2 * restarts
    BY DEF AckedPresent
  <2>1. TypeOK /\ PlaceInv /\ AckInv
    BY PartsOfType DEF DurableParts
  <2>2. a.row \in excused \/ Copies(a.row) # {}
    BY <2>1 DEF AckInv, AckSafe
  <2>3. PICK row : row = a.row
    OBVIOUS
  <2>4. row \in Row
    BY <2>1, <2>3 DEF TypeOK
  <2>5. Copies(row) \in SUBSET Places(row)
    BY DEF Copies, Places
  <2>6. IsFiniteSet(Places(row)) /\ Cardinality(Places(row)) \in Nat
    BY <2>1, PlacesFinite
  <2>7. Cardinality(Copies(row)) <= Cardinality(Places(row)) /\ Cardinality(Copies(row)) \in Nat
    BY <2>5, <2>6, FS_Subset, FS_CardinalityType
  <2>8. Cardinality(Places(row)) <= 1 + 2 * restarts
    BY <2>1, <2>4 DEF PlaceInv, Opens
  <2>9. restarts \in Nat
    BY <2>1, Spans DEF TypeOK
  <2>10. Cardinality(Copies(row)) <= 1 + 2 * restarts
    BY <2>6, <2>7, <2>8, <2>9
  <2> QED  BY <2>2, <2>3, <2>10
<1> QED  BY <1>1, DurableInvariant, PTL

-----------------------------------------------------------------------------
(* Backups.                                                                *)

\* The copies made so far have the row under row id i.
CopyHas(i, row) ==
    /\ "raw" \notin todo => /\ i \in DOMAIN copy.raw /\ copy.raw[i].row = row
                            /\ copy.raw[i].page \in Nat /\ copy.raw[i].page < kTxIdFlag
    /\ "vindex" \notin todo /\ copy.vindex.st = "ok" =>
          i \in DOMAIN copy.vindex.entries /\ Committed(copy.vindex.entries[i])

\* A backup runs in an open database, and has copied both files in the end.
StageInv ==
    /\ DOMAIN copy = Files
    /\ stage \in {"ask", "begun", "copying"} => state = "open"
    /\ stage = "done" => todo = {}

\* How far a row that is due has come: it is acknowledged, then held by the
\* flush of the statement's own checkpoint, then saved by it, then copied.
DueInv ==
    \A row \in due \ excused :
        /\ stage \in {"ask", "begun"} => \E a \in acked : a.row = row
        /\ stage = "begun" /\ ckpt # "begun" => Held(row)
        /\ stage = "begun" /\ ckpt \notin {"begun", "writing"} => Saved(row)
        /\ stage = "copying" => \E i \in DOMAIN file : HeldAt(i, row) /\ SavedAt(i) /\ CopyHas(i, row)
        /\ stage = "done" => \E i \in DOMAIN copy.raw : CopyHas(i, row)

\* In the first process, no timestamp has the flag and nothing is excused ...
FirstInv ==
    restarts = 0 => /\ clock <= written /\ excused = {}
                    /\ \A s \in Sessions : cts[s] <= written

\* ... a transaction with a committed row has committed and is over ...
Ended(x) == x < nextTx /\ \A s \in Sessions : pc[s] # "out" => tx[s] # x
EndedInv ==
    restarts = 0 => \A i \in 1 .. RowCount : CommittedAt(i) /\ RowAt(i).tx # 0 =>
                       /\ <<RowAt(i).proc, RowAt(i).tx>> \in wonTx
                       /\ state = "open" => Ended(RowAt(i).tx)

\* ... and an index that was saved has all of it or nothing.
WholeIn(entries) ==
    \A j \in DOMAIN entries : Committed(entries[j]) =>
        /\ j \in DOMAIN index /\ Committed(index[j])
        /\ \A a \in acked : file[j].row.tx # 0 /\ a.row.tx = file[j].row.tx =>
              \E k \in DOMAIN entries : Committed(entries[k]) /\ file[k].row = a.row
WholeInv == restarts = 0 /\ Loadable => WholeIn(vfile.entries)

\* A checkpoint leaves an index that can be read, until the next one.
SavedInv ==
    /\ ckpt \in {"saved", "meta"} => Loadable
    /\ stage = "begun" /\ ckpt = "idle" => Loadable

\* The copies are of one index, and of pages that have all its rows.
CopyInv ==
    stage \in {"copying", "done"} /\ ~moved /\ restarts = 0 =>
        /\ stage = "copying" => Loadable
        /\ stage = "copying" /\ "vindex" \notin todo => copy.vindex = vfile
        /\ stage = "copying" /\ "raw" \notin todo => DOMAIN vfile.entries \subseteq DOMAIN copy.raw
        /\ "vindex" \notin todo => copy.vindex.st = "ok" /\ WholeIn(copy.vindex.entries)
        /\ "raw" \notin todo => \A j \in DOMAIN copy.raw : j \in DOMAIN file /\ copy.raw[j] = file[j]
        /\ todo = {} => DOMAIN copy.vindex.entries \subseteq DOMAIN copy.raw

-----------------------------------------------------------------------------
(* Backups: every acknowledged row.                                        *)

\* A backup is nothing to the database but a checkpoint.
LEMMA BackupIsStep == [BackupNext]_allVars => [Next]_vars
<1>1. ASSUME DatabaseStep PROVE Next
  BY <1>1 DEF DatabaseStep
<1>2. ASSUME BackupCheckpoint PROVE Next
  BY <1>2 DEF BackupCheckpoint, Next
<1>3. ASSUME BackupAsk \/ BackupStart \/ (\E f \in Files : CopyFile(f)) \/ CopyFails \/ BackupEnd
      PROVE  UNCHANGED vars
  BY <1>3 DEF BackupAsk, BackupStart, CopyFile, CopyFails, BackupEnd
<1>4. ASSUME UNCHANGED allVars PROVE UNCHANGED vars
  BY <1>4 DEF allVars
<1> QED  BY <1>1, <1>2, <1>3, <1>4 DEF BackupNext

\* BACKUP beside the sessions, the checkpointer and the recovery takes no step
\* of theirs that they could not take by themselves: every behaviour with
\* backups is one of Recovery.
THEOREM BackupRefines == BackupSpec => Spec
<1>1. BackupInit => Init
  BY DEF BackupInit
<1> QED  BY <1>1, BackupIsStep, PTL DEF BackupSpec, Spec

\* What a step of the database leaves of the past, and which files it writes.
LEMMA PastKept ==
    ASSUME TypeParts, [Next]_vars
    PROVE  /\ excused \subseteq excused' /\ acked \subseteq acked' /\ wonTx \subseteq wonTx'
           /\ \A i \in DOMAIN file : i \in DOMAIN file' /\ file'[i] = file[i]
<1>1. /\ excused \subseteq excused' /\ acked \subseteq acked' /\ wonTx \subseteq wonTx'
  BY DEF Next, Begin, Insert, LogCommit, FinishCommit, Rollback, Flush, CkptBegin, CkptSave, CkptWrite,
         CkptMetaOpen, CkptMeta, CloseBegin, CloseEnd, Crash, Open, vars, pastVars
<1>2. CASE Flush \/ CkptSave \/ CloseBegin
  <2>1. FlushPending
    BY <1>2 DEF Flush, CkptSave, CloseBegin
  <2>2. TypeOK /\ BoundInv
    BY PartsOfType
  <2>3. DOMAIN file' = 1 .. RowCount /\ \A i \in DOMAIN file : file'[i] = file[i]
    BY <2>1, <2>2, FlushEffect
  <2>4. \A i \in DOMAIN file : i \in 1 .. RowCount
    BY <2>2, SeqTypes
  <2> QED  BY <1>1, <2>3, <2>4
<1>3. CASE ~(Flush \/ CkptSave \/ CloseBegin)
  <2>1. file' = file
    BY <1>3 DEF Next, Begin, Insert, LogCommit, FinishCommit, Rollback, CkptBegin, CkptWrite,
           CkptMetaOpen, CkptMeta, CloseEnd, Crash, Open, vars, diskVars
  <2> QED  BY <1>1, <2>1
<1> QED  BY <1>2, <1>3

\* The steps of a checkpoint, while the database is open.
LEMMA CkptMoves ==
    ASSUME TypeParts, [Next]_vars, state = "open", state' = "open"
    PROVE  /\ ckpt = "begun" => ckpt' = "begun" \/ CkptSave
           /\ ckpt = "writing" => ckpt' = "writing" \/ CkptWrite
           /\ ckpt \in {"saved", "meta"} => ckpt' \in {"saved", "meta", "idle"}
           /\ ckpt = "idle" => ckpt' \in {"idle", "begun"}
           /\ vfile' = vfile \/ CkptSave \/ CkptWrite
<1>1. CASE \E s \in Sessions : Begin(s) \/ Insert(s) \/ LogCommit(s) \/ FinishCommit(s) \/ Rollback(s)
  BY <1>1 DEF Begin, Insert, LogCommit, FinishCommit, Rollback, ckptVars, diskVars
<1>2. CASE Flush \/ UNCHANGED vars
  BY <1>2 DEF Flush, ckptVars, vars, diskVars
<1>3. CASE CkptBegin \/ CkptSave \/ CkptWrite \/ CkptMetaOpen \/ CkptMeta
  BY <1>3 DEF CkptBegin, CkptSave, CkptWrite, CkptMetaOpen, CkptMeta, diskVars
<1>4. CASE CloseBegin \/ CloseEnd \/ Crash \/ \E target \in Targets : Open(target)
  BY <1>4 DEF CloseBegin, CloseEnd, Crash, Open
<1> QED  BY <1>1, <1>2, <1>3, <1>4 DEF Next

\* A backup ends with its process.
LEMMA StageStep ==
    ASSUME StageInv, [BackupNext]_allVars PROVE StageInv'
<1>1. CASE DatabaseStep
  BY <1>1 DEF DatabaseStep, StageInv
<1>2. CASE BackupAsk \/ BackupStart \/ CopyFails \/ BackupEnd
  <2>1. DOMAIN NoCopy = Files
    BY DEF NoCopy, Files
  <2>2. state' = state
    BY <1>2 DEF BackupAsk, BackupStart, CopyFails, BackupEnd, vars
  <2> QED  BY <1>2, <2>1, <2>2 DEF BackupAsk, BackupStart, CopyFails, BackupEnd, StageInv
<1>3. CASE BackupCheckpoint
  BY <1>3 DEF BackupCheckpoint, CkptBegin, StageInv
<1>4. CASE \E f \in Files : CopyFile(f)
  BY <1>4 DEF CopyFile, StageInv, vars
<1>5. CASE UNCHANGED allVars
  BY <1>5 DEF allVars, vars, backupVars, StageInv
<1> QED  BY <1>1, <1>2, <1>3, <1>4, <1>5 DEF BackupNext

\* A step of the database takes a row that is due no step back: the flush of a
\* checkpoint holds what is acknowledged, save_vindex saves what is held.
LEMMA DueLive ==
    ASSUME DurableParts, TypeOK', StageInv, DueInv, DatabaseStep, [Next]_vars PROVE DueInv'
<1>1. TypeParts /\ TypeOK /\ BoundInv /\ AckInv
  BY PartsOfType DEF DurableParts
<1>2. /\ UNCHANGED <<copy, due>> /\ (stage' = "none" \/ (stage' = stage /\ todo' = todo))
      /\ stage \in {"ask", "begun", "copying"} => state = "open" /\ (state' = "open" \/ stage' = "none")
  BY DEF DatabaseStep, StageInv
<1>3. excused \subseteq excused' /\ acked \subseteq acked'
  BY <1>1, PastKept
<1>4. CASE stage' = "none"
  BY <1>4 DEF DueInv
<1> SUFFICES ASSUME stage' = stage, todo' = todo, NEW row \in due' \ excused'
             PROVE  /\ stage \in {"ask", "begun"} => \E a \in acked' : a.row = row
                    /\ stage = "begun" /\ ckpt' # "begun" => Held(row)'
                    /\ stage = "begun" /\ ckpt' \notin {"begun", "writing"} => Saved(row)'
                    /\ stage = "copying" =>
                          \E i \in DOMAIN file' : HeldAt(i, row)' /\ SavedAt(i)' /\ CopyHas(i, row)'
                    /\ stage = "done" => \E i \in DOMAIN copy.raw' : CopyHas(i, row)'
  BY <1>2, <1>4 DEF DueInv
<1>5. row \in due \ excused
  BY <1>2, <1>3
<1>6. \A i : CopyHas(i, row) => CopyHas(i, row)'
  BY <1>2 DEF CopyHas
<1>7. stage = "done" => \E i \in DOMAIN copy'.raw : CopyHas(i, row)'
  BY <1>2, <1>5, <1>6 DEF DueInv
<1>8. stage \in {"ask", "begun"} => \E a \in acked : a.row = row
  BY <1>5 DEF DueInv
<1>9. ASSUME stage = "copying"
      PROVE  \E i \in DOMAIN file' : HeldAt(i, row)' /\ SavedAt(i)' /\ CopyHas(i, row)'
  <2>1. state # "down" /\ state' # "down"
    BY <1>2, <1>9
  <2>2. PICK i \in DOMAIN file : HeldAt(i, row) /\ SavedAt(i) /\ CopyHas(i, row)
    BY <1>5, <1>9 DEF DueInv
  <2>3. HeldAt(i, row)' /\ SavedAt(i)'
    BY <1>1, <2>1, <2>2, LiveRows
  <2>4. i \in DOMAIN file'
    BY <2>3 DEF HeldAt
  <2> QED  BY <1>6, <2>2, <2>3, <2>4
<1>10. ASSUME stage = "begun"
       PROVE  /\ ckpt' # "begun" => Held(row)'
              /\ ckpt' \notin {"begun", "writing"} => Saved(row)'
  <2>1. state = "open" /\ state' = "open"
    BY <1>2, <1>10
  <2>2. /\ Held(row) => Held(row)'
        /\ Saved(row) => Saved(row)'
    BY <1>1, <2>1, LiveRows
  <2>3. ASSUME CkptSave PROVE Held(row)' /\ ckpt' = "writing"
    <3>1. PICK a \in acked : a.row = row
      BY <1>8, <1>10
    <3>2. Copies(row) # {}
      BY <1>1, <1>5, <2>1, <3>1 DEF AckInv, AckSafe
    <3> QED  BY <1>1, <2>3, <3>2, FlushHolds DEF CkptSave
  <2>4. CASE ckpt = "begun"
    BY <1>1, <2>1, <2>3, <2>4, CkptMoves
  <2>5. CASE ckpt = "writing"
    <3>1. Held(row)
      BY <1>5, <1>10, <2>5 DEF DueInv
    <3>2. CkptWrite => Saved(row)'
      BY <1>1, <3>1, WriteSaves
    <3> QED  BY <1>1, <2>1, <2>2, <2>5, <3>1, <3>2, CkptMoves
  <2>6. CASE ckpt \notin {"begun", "writing"}
    <3>1. Held(row) /\ Saved(row)
      BY <1>5, <1>10, <2>6 DEF DueInv
    <3> QED  BY <2>2, <3>1
  <2> QED  BY <2>4, <2>5, <2>6
<1> QED  BY <1>3, <1>7, <1>8, <1>9, <1>10

\* What the copies have of a row grows file by file.
LEMMA DueCopied ==
    ASSUME DurableParts, StageInv, DueInv, NEW f \in Files, CopyFile(f) PROVE DueInv'
<1>1. TypeParts /\ PageInv
  BY DEF DurableParts
<1>2. /\ stage = "copying" /\ stage' = "copying" /\ todo' = todo \ {f}
      /\ UNCHANGED <<file, index, vfile, due, excused, vars>>
      /\ copy' = IF f = "raw" THEN [copy EXCEPT !.raw = file] ELSE [copy EXCEPT !.vindex = vfile]
  BY DEF CopyFile, vars, diskVars, memVars, pastVars
<1>3. DOMAIN copy = {"raw", "vindex"} /\ f \in {"raw", "vindex"}
  BY DEF StageInv, Files
<1>4. /\ f = "raw" => copy'.raw = file /\ copy'.vindex = copy.vindex
      /\ f = "vindex" => copy'.raw = copy.raw /\ copy'.vindex = vfile
  BY <1>2, <1>3
<1>5. ASSUME NEW row, NEW i, HeldAt(i, row), SavedAt(i), CopyHas(i, row) PROVE CopyHas(i, row)'
  <2>1. i \in DOMAIN file /\ file[i].row = row /\ file[i].page \in Nat /\ file[i].page < kTxIdFlag
    BY <1>1, <1>5, PageBound DEF HeldAt
  <2>2. CASE f = "raw"
    <3>1. "vindex" \notin todo' => "vindex" \notin todo
      BY <1>2, <2>2
    <3> QED  BY <1>4, <1>5, <2>1, <2>2, <3>1 DEF CopyHas
  <2>3. CASE f = "vindex"
    <3>1. "raw" \notin todo' => "raw" \notin todo
      BY <1>2, <2>3
    <3>2. vfile.st = "ok" => i \in DOMAIN vfile.entries /\ Committed(vfile.entries[i])
      BY <1>5 DEF SavedAt, Loadable
    <3> QED  BY <1>4, <1>5, <2>3, <3>1, <3>2 DEF CopyHas
  <2> QED  BY <1>3, <2>2, <2>3
<1>6. ASSUME NEW row \in due' \ excused'
      PROVE  \E i \in DOMAIN file' : HeldAt(i, row)' /\ SavedAt(i)' /\ CopyHas(i, row)'
  <2>1. PICK i \in DOMAIN file : HeldAt(i, row) /\ SavedAt(i) /\ CopyHas(i, row)
    BY <1>2, <1>6 DEF DueInv
  <2>2. CopyHas(i, row)'
    BY <1>5, <2>1
  <2>3. HeldAt(i, row)' /\ SavedAt(i)' /\ i \in DOMAIN file'
    BY <1>2, <2>1 DEF HeldAt, SavedAt, Loadable
  <2> QED  BY <2>2, <2>3
<1> QED  BY <1>2, <1>6 DEF DueInv

\* Every step keeps DueInv.
LEMMA DueStep ==
    ASSUME DurableParts, TypeOK', StageInv, DueInv, [BackupNext]_allVars PROVE DueInv'
<1>1. CASE DatabaseStep
  BY <1>1, DueLive, BackupIsStep
<1>2. CASE BackupAsk
  BY <1>2 DEF BackupAsk, DueInv, vars
<1>3. CASE BackupCheckpoint
  BY <1>3 DEF BackupCheckpoint, CkptBegin, DueInv, pastVars
<1>4. CASE BackupStart
  <2>1. /\ stage = "begun" /\ ckpt = "idle" /\ stage' = "copying" /\ todo' = {"raw", "vindex"}
        /\ UNCHANGED <<file, index, vfile, due, excused>>
    BY <1>4 DEF BackupStart, vars, diskVars, memVars, pastVars, Files
  <2>2. ASSUME NEW row \in due' \ excused'
        PROVE  \E i \in DOMAIN file' : HeldAt(i, row)' /\ SavedAt(i)' /\ CopyHas(i, row)'
    <3>1. Saved(row)
      BY <2>1, <2>2 DEF DueInv
    <3>2. PICK i \in DOMAIN file : HeldAt(i, row) /\ SavedAt(i)
      BY <3>1 DEF Saved
    <3>3. HeldAt(i, row)' /\ SavedAt(i)' /\ i \in DOMAIN file'
      BY <2>1, <3>2 DEF HeldAt, SavedAt, Loadable
    <3>4. CopyHas(i, row)'
      BY <2>1 DEF CopyHas
    <3> QED  BY <3>3, <3>4
  <2> QED  BY <2>1, <2>2 DEF DueInv
<1>5. CASE \E f \in Files : CopyFile(f)
  BY <1>5, DueCopied
<1>6. CASE CopyFails
  BY <1>6 DEF CopyFails, DueInv
<1>7. CASE BackupEnd
  <2>1. stage = "copying" /\ stage' = "done" /\ todo = {} /\ UNCHANGED <<todo, copy, due, excused>>
    BY <1>7 DEF BackupEnd, vars, pastVars
  <2>2. ASSUME NEW row \in due' \ excused' PROVE \E i \in DOMAIN copy'.raw : CopyHas(i, row)'
    <3>1. PICK i : CopyHas(i, row)
      BY <2>1, <2>2 DEF DueInv
    <3>2. i \in DOMAIN copy.raw
      BY <2>1, <3>1 DEF CopyHas
    <3>3. CopyHas(i, row)'
      BY <2>1, <3>1 DEF CopyHas
    <3> QED  BY <2>1, <3>2, <3>3
  <2> QED  BY <2>1, <2>2 DEF DueInv
<1>8. CASE UNCHANGED allVars
  BY <1>8 DEF allVars, vars, diskVars, memVars, ckptVars, pastVars, backupVars, DueInv, Held, Saved, HeldAt, SavedAt,
              Loadable, CopyHas
<1> QED  BY <1>1, <1>2, <1>3, <1>4, <1>5, <1>6, <1>7, <1>8 DEF BackupNext

\* The parts of the inductive invariant for complete backups.
DueParts == DurableParts /\ StageInv /\ DueInv

\* They hold in every reachable state.
LEMMA DueInvariant == BackupSpec => []DueParts
<1>1. BackupInit => DueParts
  <2>1. DOMAIN NoCopy = Files
    BY DEF NoCopy, Files
  <2> QED  BY <2>1, DurableInit DEF BackupInit, DueParts, StageInv, DueInv
<1>2. DueParts /\ [BackupNext]_allVars => DueParts'
  <2> SUFFICES ASSUME DueParts, [BackupNext]_allVars PROVE DueParts'
    OBVIOUS
  <2>1. DurableParts'
    BY DurableStep, BackupIsStep DEF DueParts
  <2>2. TypeOK'
    BY <2>1, NextType DEF DurableParts
  <2> QED  BY <2>1, <2>2, StageStep, DueStep DEF DueParts
<1> QED  BY <1>1, <1>2, PTL DEF BackupSpec

\* A backup, opened, has every row whose COMMIT or INSERT was acknowledged
\* before BACKUP was called, whichever file was copied first and whatever
\* sessions and the checkpointer did meanwhile; if .vindex was copied while it
\* was being written, the rows come from the pages.
THEOREM BackupHasAcked == BackupSpec => []BackupComplete
<1>1. DueParts => BackupComplete
  <2> SUFFICES ASSUME DueParts, stage = "done", NEW row \in due \ excused PROVE row \in CopiedRows
    BY DEF BackupComplete
  <2>1. PICK i \in DOMAIN copy.raw : CopyHas(i, row)
    BY DEF DueParts, DueInv
  <2>2. /\ copy.raw[i].row = row /\ copy.raw[i].page \in Nat /\ copy.raw[i].page < kTxIdFlag
        /\ copy.vindex.st = "ok" => i \in DOMAIN copy.vindex.entries /\ Committed(copy.vindex.entries[i])
    BY <2>1 DEF DueParts, StageInv, CopyHas
  <2>3. i \in DOMAIN CopiedIndex /\ Committed(CopiedIndex[i])
    <3>1. CASE copy.vindex.st = "ok"
      BY <2>2, <3>1 DEF CopiedIndex
    <3>2. CASE copy.vindex.st # "ok"
      <4>1. i \in DOMAIN CopiedIndex /\ CopiedIndex[i] = copy.raw[i].page % TsSpan
        BY <2>1, <3>2 DEF CopiedIndex
      <4>2. copy.raw[i].page < TsSpan
        BY <2>2, Spans
      <4>3. copy.raw[i].page % TsSpan = copy.raw[i].page
        BY <2>2, <4>2, ModEffect, Spans
      <4> QED  BY <2>2, <4>1, <4>3 DEF Committed
    <3> QED  BY <3>1, <3>2
  <2> QED  BY <2>1, <2>2, <2>3 DEF CopiedRows
<1> QED  BY <1>1, DueInvariant, PTL

-----------------------------------------------------------------------------
(* Backups: whole transactions.                                            *)

\* In the first process there is no restart behind a step.
LEMMA FirstLive ==
    ASSUME TypeParts, PlaceInv, PlaceInv', [Next]_vars, restarts' = 0
    PROVE  /\ restarts = 0 /\ state # "down" /\ state' # "down" /\ (state' = "open" => state = "open")
           /\ ~CloseEnd /\ ~Crash /\ \A target : ~Open(target)
<1>1. restarts \in Nat
  BY PartsOfType, Spans DEF TypeOK
<1>2. ~CloseEnd /\ ~Crash
  BY <1>1 DEF CloseEnd, Crash
<1>3. restarts' = restarts
  BY <1>2 DEF Next, Begin, Insert, LogCommit, FinishCommit, Rollback, Flush, CkptBegin, CkptSave, CkptWrite,
         CkptMetaOpen, CkptMeta, CloseBegin, Open, SessionsGone, vars
<1>4. state # "down" /\ state' # "down"
  BY <1>3 DEF PlaceInv
<1>5. \A target : ~Open(target)
  BY <1>4 DEF Open
<1>6. state' = state \/ state' = "closing"
  BY <1>2, <1>5 DEF Next, Begin, Insert, LogCommit, FinishCommit, Rollback, Flush, CkptBegin, CkptSave, CkptWrite,
         CkptMetaOpen, CkptMeta, CloseBegin, vars
<1> QED  BY <1>2, <1>3, <1>4, <1>5, <1>6

\* The clock counts insertions and commits, so it never reaches the flag bit.
LEMMA FirstTick ==
    ASSUME TypeOK, clock <= written, written < MaxRecords
    PROVE  Tick(clock) <= written + 1 /\ Committed(Tick(clock)) /\ clock <= written + 1
<1>1. clock \in Nat /\ written \in Nat /\ TsSpan \in Nat \ {0}
  BY Spans DEF TypeOK, Ts
<1>2. clock + 1 <= written + 1 /\ clock + 1 < kTxIdFlag /\ clock + 1 < TsSpan
  BY <1>1, Spans
<1>3. (clock + 1) % TsSpan = clock + 1
  <2>1. PICK c \in Nat : c = clock + 1
    BY <1>1
  <2>2. c % TsSpan = c
    BY <1>1, <1>2, <2>1, ModEffect
  <2> QED  BY <2>1, <2>2
<1> QED  BY <1>1, <1>2, <1>3 DEF Tick, Committed

\* Nothing is excused before the first restart.
LEMMA FirstStep ==
    ASSUME TypeParts, PlaceInv, PlaceInv', FirstInv, [Next]_vars PROVE FirstInv'
<1> SUFFICES ASSUME restarts' = 0
             PROVE  clock' <= written' /\ excused' = {} /\ \A s \in Sessions : cts'[s] <= written'
  BY DEF FirstInv
<1>1. /\ restarts = 0 /\ ~CloseEnd /\ ~Crash /\ \A target : ~Open(target)
  BY FirstLive
<1>2. TypeOK /\ clock <= written /\ excused = {} /\ \A s \in Sessions : cts[s] <= written
  BY <1>1, PartsOfType DEF FirstInv
<1>3. /\ clock \in Nat /\ written \in Nat /\ cts \in [Sessions -> Ts] /\ \A s \in Sessions : cts[s] \in Nat
  BY <1>2, Spans DEF TypeOK, Ts
<1>4. \A s \in Sessions : cts[s] <= written + 1 /\ Committed(cts[s])
  <2>1. written < kTxIdFlag
    BY <1>2, Spans DEF TypeOK
  <2> QED  BY <1>2, <1>3, <2>1, Spans DEF Committed
<1>5. ASSUME NEW s \in Sessions, Begin(s)
      PROVE  clock' <= written' /\ excused' = {} /\ \A t \in Sessions : cts'[t] <= written'
  BY <1>2, <1>3, <1>4, <1>5 DEF Begin, AppendRecord, pastVars
<1>6. ASSUME NEW s \in Sessions, Insert(s)
      PROVE  clock' <= written' /\ excused' = {} /\ \A t \in Sessions : cts'[t] <= written'
  <2>1. /\ clock' \in {clock, Tick(clock)} /\ written' = written + 1 /\ cts' = cts /\ written < MaxRecords
        /\ \E rows : excused' \in {excused, excused \cup Buried(rows, Tick(clock))}
    BY <1>6 DEF Insert, AppendRecord
  <2>2. Tick(clock) <= written + 1 /\ Committed(Tick(clock)) /\ clock <= written + 1
    BY <1>2, <2>1, FirstTick
  <2>3. excused' = {}
    BY <1>2, <2>1, <2>2 DEF Buried
  <2> QED  BY <1>4, <2>1, <2>2, <2>3
<1>7. ASSUME NEW s \in Sessions, LogCommit(s)
      PROVE  clock' <= written' /\ excused' = {} /\ \A t \in Sessions : cts'[t] <= written'
  <2>1. /\ clock' = Tick(clock) /\ written' = written + 1 /\ written < MaxRecords
        /\ cts' = [cts EXCEPT ![s] = Tick(clock)] /\ excused' = excused
    BY <1>7 DEF LogCommit, AppendRecord, pastVars
  <2>2. Tick(clock) <= written + 1
    BY <1>2, <2>1, FirstTick
  <2>3. \A t \in Sessions : cts'[t] \in {cts[t], Tick(clock)}
    BY <1>3, <2>1
  <2> QED  BY <1>2, <1>4, <2>1, <2>2, <2>3
<1>8. ASSUME NEW s \in Sessions, FinishCommit(s)
      PROVE  clock' <= written' /\ excused' = {} /\ \A t \in Sessions : cts'[t] <= written'
  <2>1. /\ clock' = clock /\ written' = written /\ cts' = [cts EXCEPT ![s] = 0]
        /\ \E rows : excused' = excused \cup Buried(rows, cts[s])
    BY <1>8 DEF FinishCommit, Leave
  <2>2. excused' = {}
    BY <1>2, <1>4, <2>1 DEF Buried
  <2>3. \A t \in Sessions : cts'[t] \in {cts[t], 0}
    BY <1>3, <2>1
  <2> QED  BY <1>2, <1>3, <2>1, <2>2, <2>3
<1>9. ASSUME NEW s \in Sessions, Rollback(s)
      PROVE  clock' <= written' /\ excused' = {} /\ \A t \in Sessions : cts'[t] <= written'
  <2>1. clock' = clock /\ written' = written + 1 /\ cts' = [cts EXCEPT ![s] = 0] /\ excused' = excused
    BY <1>9 DEF Rollback, AppendRecord, Leave, pastVars
  <2>2. \A t \in Sessions : cts'[t] \in {cts[t], 0}
    BY <1>3, <2>1
  <2> QED  BY <1>2, <1>3, <1>4, <2>1, <2>2
<1>10. CASE Flush \/ CkptBegin \/ CkptSave \/ CkptWrite \/ CkptMetaOpen \/ CkptMeta \/ CloseBegin \/ UNCHANGED vars
  <2>1. /\ clock' = clock /\ written' = written /\ excused' = excused
        /\ cts' = cts \/ cts' = [s \in Sessions |-> 0]
    BY <1>10 DEF Flush, CkptBegin, CkptSave, CkptWrite, CkptMetaOpen, CkptMeta, CloseBegin, SessionsGone, vars,
                 memVars, sessVars, pastVars
  <2>2. \A t \in Sessions : cts'[t] \in {cts[t], 0}
    BY <1>3, <2>1
  <2> QED  BY <1>2, <1>3, <2>1, <2>2
<1> QED  BY <1>1, <1>5, <1>6, <1>7, <1>8, <1>9, <1>10 DEF Next

\* Who becomes committed without a restart: a row outside of transactions, or
\* one of the transaction that finishes its commit.
LEMMA Newly ==
    ASSUME TypeParts, OwnInv, [Next]_vars, state # "down", state' # "down", NEW i \in 1 .. RowCount', CommittedAt(i)'
    PROVE  \/ i \in 1 .. RowCount /\ CommittedAt(i)
           \/ RowAt(i)'.tx = 0 /\ \E s \in Sessions : Insert(s) /\ pc[s] = "out" /\ i = RowCount + 1
           \/ \E s \in Sessions : FinishCommit(s) /\ i \in ws[s]
<1>1. TypeOK /\ BoundInv
  BY PartsOfType
<1>2. /\ \A s \in Sessions : tx[s] \in 0 .. MaxTx /\ cts[s] \in Ts
      /\ Tick(clock) \in Ts /\ AbortedTs \in Ts /\ ~Committed(AbortedTs)
      /\ \A y \in 0 .. MaxTx : Mark(y) \in Ts /\ ~Committed(Mark(y))
  BY <1>1, Timestamps DEF TypeOK
<1>3. /\ Len(file) \in Nat /\ Len(pending) \in Nat /\ RowCount = Len(file) + Len(pending) /\ RowCount \in Nat
      /\ DOMAIN pending = 1 .. Len(pending) /\ DOMAIN file = 1 .. Len(file)
  BY <1>1, SeqTypes
<1>4. CASE UNCHANGED <<file, pending, index>>
  BY <1>4 DEF RowCount, CommittedAt
<1>5. ASSUME NEW s \in Sessions, Insert(s)
      PROVE  \/ i \in 1 .. RowCount /\ CommittedAt(i)
             \/ RowAt(i)'.tx = 0 /\ pc[s] = "out" /\ i = RowCount + 1
  <2>1. PICK p : p = [row |-> RowOf(Rec(tx[s], "insert", 0)),
                      ts |-> IF pc[s] = "out" THEN Tick(clock) ELSE Mark(tx[s])]
    OBVIOUS
  <2>2. pending' = Append(pending, p) /\ UNCHANGED <<file, index>>
    BY <1>5, <2>1 DEF Insert, diskVars
  <2>3. p \in PendingRow /\ p.row.tx = tx[s]
    <3>1. written \in Nat /\ restarts \in Nat /\ tx[s] \in Nat
      BY <1>1, <1>2, Spans DEF TypeOK
    <3>2. RowOf(Rec(tx[s], "insert", 0)) \in Row /\ RowOf(Rec(tx[s], "insert", 0)).tx = tx[s]
      BY <3>1 DEF RowOf, Rec, Row
    <3> QED  BY <1>2, <2>1, <3>2 DEF PendingRow
  <2>4. /\ \A j \in DOMAIN pending : pending'[j] = pending[j]
        /\ pending'[Len(pending) + 1] = p
        /\ RowCount' = RowCount + 1
        /\ i = RowCount + 1 => RowAt(i)' = p.row
    BY <1>1, <2>2, <2>3, PendEffect
  <2>5. CASE i \in 1 .. RowCount
    <3>1. CASE i <= Len(file)
      BY <2>2, <2>5, <3>1 DEF CommittedAt
    <3>2. CASE ~(i <= Len(file))
      <4>1. i - Len(file) \in DOMAIN pending
        BY <1>1, <2>5, <3>2, PendingPlace
      <4> QED  BY <2>2, <2>4, <2>5, <3>2, <4>1 DEF CommittedAt
    <3> QED  BY <3>1, <3>2
  <2>6. CASE i = RowCount + 1
    <3>1. ~(i <= Len(file)) /\ i - Len(file) = Len(pending) + 1
      BY <1>3, <2>6
    <3>2. Committed(p.ts)
      BY <2>2, <2>4, <3>1 DEF CommittedAt
    <3>3. pc[s] = "out"
      BY <1>2, <2>1, <3>2
    <3>4. tx[s] = 0
      BY <3>3 DEF OwnInv
    <3> QED  BY <2>3, <2>4, <2>6, <3>3, <3>4
  <2> QED  BY <1>3, <2>4, <2>5, <2>6
<1>6. ASSUME NEW s \in Sessions, FinishCommit(s) \/ Rollback(s)
      PROVE  \/ i \in 1 .. RowCount /\ CommittedAt(i)
             \/ FinishCommit(s) /\ i \in ws[s]
  <2>1. PICK ts \in Ts : /\ Stamp(ws[s], tx[s], ts) /\ file' = file
                         /\ FinishCommit(s) \/ ~Committed(ts)
    BY <1>2, <1>6 DEF FinishCommit, Rollback, diskVars
  <2>2. /\ DOMAIN index' = DOMAIN index
        /\ \A k \in DOMAIN index : index'[k] = index[k] \/ (index'[k] = ts /\ k \in ws[s])
        /\ \A j \in DOMAIN pending : \/ pending'[j].ts = pending[j].ts
                                     \/ pending'[j].ts = ts /\ Len(file) + j \in ws[s]
        /\ RowCount' = RowCount
    BY <1>1, <2>1, StampEffect
  <2>3. CASE i <= Len(file)
    BY <2>1, <2>2, <2>3 DEF CommittedAt
  <2>4. CASE ~(i <= Len(file))
    <3>1. i - Len(file) \in DOMAIN pending /\ i = Len(file) + (i - Len(file))
      BY <1>1, <2>2, <2>4, PendingPlace
    <3>2. PICK j : j = i - Len(file)
      OBVIOUS
    <3>3. Committed(pending'[j].ts)
      BY <2>1, <2>4, <3>2 DEF CommittedAt
    <3> QED  BY <2>1, <2>2, <2>4, <3>1, <3>2, <3>3 DEF CommittedAt
  <2> QED  BY <2>3, <2>4
<1>7. CASE Flush \/ CkptSave \/ CloseBegin
  <2>1. FlushPending
    BY <1>7 DEF Flush, CkptSave, CloseBegin
  <2>2. /\ Len(file') = RowCount /\ RowCount' = RowCount
        /\ DOMAIN index' = DOMAIN index \cup (Len(file) + 1 .. RowCount)
        /\ \A k \in DOMAIN index : index'[k] = index[k]
        /\ \A j \in DOMAIN pending : index'[Len(file) + j] = pending[j].ts
    BY <1>1, <2>1, FlushEffect
  <2>3. i \in DOMAIN index' /\ Committed(index'[i])
    BY <1>3, <2>2 DEF CommittedAt
  <2>4. CASE i <= Len(file)
    <3>1. i \in DOMAIN index
      BY <1>3, <2>2, <2>3, <2>4
    <3> QED  BY <2>2, <2>3, <2>4, <3>1 DEF CommittedAt
  <2>5. CASE ~(i <= Len(file))
    <3>1. i - Len(file) \in DOMAIN pending /\ i = Len(file) + (i - Len(file))
      BY <1>1, <2>2, <2>5, PendingPlace
    <3> QED  BY <2>2, <2>3, <2>5, <3>1 DEF CommittedAt
  <2> QED  BY <2>4, <2>5
<1>8. CASE \/ \E s \in Sessions : Begin(s) \/ LogCommit(s)
           \/ CkptBegin \/ CkptWrite \/ CkptMetaOpen \/ CkptMeta \/ UNCHANGED vars
  <2>1. UNCHANGED <<file, pending, index>>
    BY <1>8 DEF Begin, LogCommit, CkptBegin, CkptWrite, CkptMetaOpen, CkptMeta, vars, memVars, diskVars
  <2> QED  BY <1>4, <2>1
<1>9. CASE CloseEnd \/ Crash \/ \E target \in Targets : Open(target)
  BY <1>9 DEF CloseEnd, Crash, Open
<1> QED  BY <1>5, <1>6, <1>7, <1>8, <1>9 DEF Next

\* A transaction that is over stays so.
LEMMA EndedKept ==
    ASSUME TypeParts, [Next]_vars, state = "open", state' = "open", NEW x \in Nat, Ended(x)
    PROVE  Ended(x)'
<1>1. /\ tx \in [Sessions -> 0 .. MaxTx] /\ pc \in [Sessions -> {"out", "in", "commit"}] /\ nextTx \in Nat
  <2>1. TypeOK
    BY PartsOfType
  <2> QED  BY <2>1, Spans DEF TypeOK
<1>2. ASSUME nextTx' = nextTx,
             \A s \in Sessions : pc'[s] = "out" \/ (pc[s] # "out" /\ tx'[s] = tx[s])
                                    \/ (pc'[s] = pc[s] /\ tx'[s] = tx[s])
      PROVE  Ended(x)'
  BY <1>2 DEF Ended
<1>3. ASSUME NEW s \in Sessions, Begin(s) PROVE Ended(x)'
  <2>1. nextTx' = nextTx + 1 /\ tx' = [tx EXCEPT ![s] = nextTx] /\ pc' = [pc EXCEPT ![s] = "in"]
    BY <1>3 DEF Begin
  <2>2. x < nextTx /\ x < nextTx' /\ x # nextTx
    BY <1>1, <2>1 DEF Ended
  <2>3. \A t \in Sessions : pc'[t] # "out" => tx'[t] = nextTx \/ (tx'[t] = tx[t] /\ pc[t] # "out")
    BY <1>1, <2>1
  <2> QED  BY <2>2, <2>3 DEF Ended
<1>4. ASSUME NEW s \in Sessions, Insert(s) \/ LogCommit(s) PROVE Ended(x)'
  <2>1. nextTx' = nextTx /\ tx' = tx /\ (pc' = pc \/ (pc[s] = "in" /\ pc' = [pc EXCEPT ![s] = "commit"]))
    BY <1>4 DEF Insert, LogCommit
  <2>2. \A t \in Sessions : pc'[t] = "out" \/ (pc[t] # "out" /\ tx'[t] = tx[t])
                                    \/ (pc'[t] = pc[t] /\ tx'[t] = tx[t])
    BY <1>1, <2>1
  <2> QED  BY <1>2, <2>1, <2>2
<1>5. ASSUME NEW s \in Sessions, FinishCommit(s) \/ Rollback(s) PROVE Ended(x)'
  <2>1. nextTx' = nextTx /\ tx' = [tx EXCEPT ![s] = 0] /\ pc' = [pc EXCEPT ![s] = "out"]
    BY <1>5 DEF FinishCommit, Rollback, Leave
  <2>2. \A t \in Sessions : pc'[t] = "out" \/ (pc[t] # "out" /\ tx'[t] = tx[t])
                                    \/ (pc'[t] = pc[t] /\ tx'[t] = tx[t])
    BY <1>1, <2>1
  <2> QED  BY <1>2, <2>1, <2>2
<1>6. CASE Flush \/ CkptBegin \/ CkptSave \/ CkptWrite \/ CkptMetaOpen \/ CkptMeta \/ UNCHANGED vars
  BY <1>2, <1>6 DEF Flush, CkptBegin, CkptSave, CkptWrite, CkptMetaOpen, CkptMeta, vars, sessVars
<1>7. CASE CloseBegin \/ CloseEnd \/ Crash \/ \E target \in Targets : Open(target)
  BY <1>7 DEF CloseBegin, CloseEnd, Crash, Open
<1> QED  BY <1>3, <1>4, <1>5, <1>6, <1>7 DEF Next

\* A transaction has all of its rows committed by one step, its last.
LEMMA EndedStep ==
    ASSUME TypeParts, OwnInv, TxInv, PlaceInv, PlaceInv', EndedInv, [Next]_vars PROVE EndedInv'
<1> SUFFICES ASSUME restarts' = 0, NEW i \in 1 .. RowCount', CommittedAt(i)', RowAt(i)'.tx # 0
             PROVE  /\ <<RowAt(i)'.proc, RowAt(i)'.tx>> \in wonTx'
                    /\ state' = "open" => Ended(RowAt(i).tx)'
  BY DEF EndedInv
<1>1. restarts = 0 /\ state # "down" /\ state' # "down" /\ (state' = "open" => state = "open")
  BY FirstLive
<1>2. KeepsRows /\ wonTx \subseteq wonTx' /\ TypeOK
  BY <1>1, LiveEntries, PastKept, PartsOfType
<1>3. PICK row : row = RowAt(i)'
  OBVIOUS
<1>4. PICK x : x = row.tx
  OBVIOUS
<1>5. ASSUME i \in 1 .. RowCount, CommittedAt(i)
      PROVE  <<row.proc, x>> \in wonTx' /\ (state' = "open" => Ended(x)')
  <2>1. RowAt(i) = row
    BY <1>2, <1>3, <1>5 DEF KeepsRows
  <2>2. <<row.proc, x>> \in wonTx /\ (state = "open" => Ended(x))
    BY <1>1, <1>3, <1>4, <1>5, <2>1 DEF EndedInv
  <2>3. x \in Nat
    BY <1>2, <1>4, <1>5, <2>1, RowAtType DEF Row
  <2> QED  BY <1>1, <1>2, <2>2, <2>3, EndedKept
<1>6. ASSUME NEW s \in Sessions, FinishCommit(s), i \in ws[s]
      PROVE  <<row.proc, x>> \in wonTx' /\ Ended(x)'
  <2>1. i \in 1 .. RowCount
    BY <1>2, <1>6 DEF TypeOK
  <2>2. RowAt(i) = row
    BY <1>2, <1>3, <2>1 DEF KeepsRows
  <2>3. row.tx = tx[s] /\ row.proc = restarts /\ pc[s] = "commit"
    BY <1>6, <2>2 DEF OwnInv, FinishCommit
  <2>4. <<restarts, tx[s]>> \in wonTx
    BY <2>3 DEF OwnInv
  <2>5. /\ nextTx' = nextTx /\ tx' = [tx EXCEPT ![s] = 0] /\ pc' = [pc EXCEPT ![s] = "out"]
        /\ tx \in [Sessions -> 0 .. MaxTx] /\ pc \in [Sessions -> {"out", "in", "commit"}]
    BY <1>2, <1>6 DEF FinishCommit, Leave, TypeOK
  <2>6. x < nextTx /\ \A t \in Sessions : t # s /\ pc[t] # "out" => tx[t] # x
    BY <1>4, <2>3 DEF TxInv
  <2>7. \A t \in Sessions : pc'[t] # "out" => t # s /\ pc[t] # "out" /\ tx'[t] = tx[t]
    BY <2>5
  <2>8. Ended(x)'
    BY <2>5, <2>6, <2>7 DEF Ended
  <2> QED  BY <1>2, <1>4, <2>3, <2>4, <2>8
<1>7. <<row.proc, x>> \in wonTx' /\ (state' = "open" => Ended(x)')
  BY <1>1, <1>3, <1>5, <1>6, Newly
<1> QED  BY <1>3, <1>4, <1>7 DEF Ended

\* Who is acknowledged by a step: a row outside of transactions, or one of a
\* transaction that was running.
LEMMA NewAck ==
    ASSUME OwnInv, [Next]_vars, NEW a \in acked' \ acked
    PROVE  \/ a.row.tx = 0
           \/ \E s \in Sessions : state = "open" /\ pc[s] # "out" /\ a.row.tx = tx[s]
<1>1. ASSUME NEW s \in Sessions, Insert(s) PROVE a.row.tx = 0
  <2>1. pc[s] = "out" /\ a.row = RowOf(Rec(tx[s], "insert", 0))
    BY <1>1 DEF Insert
  <2>2. a.row.tx = tx[s]
    BY <2>1 DEF RowOf, Rec
  <2> QED  BY <2>1, <2>2 DEF OwnInv
<1>2. ASSUME NEW s \in Sessions, FinishCommit(s)
      PROVE  state = "open" /\ pc[s] # "out" /\ a.row.tx = tx[s]
  <2>1. PICK i \in ws[s] : a.row = RowAt(i)
    BY <1>2 DEF FinishCommit
  <2> QED  BY <1>2, <2>1 DEF OwnInv, FinishCommit
<1>3. CASE \/ \E s \in Sessions : Begin(s) \/ LogCommit(s) \/ Rollback(s)
           \/ Flush \/ CkptBegin \/ CkptSave \/ CkptWrite \/ CkptMetaOpen \/ CkptMeta
           \/ CloseBegin \/ CloseEnd \/ Crash \/ (\E target \in Targets : Open(target)) \/ UNCHANGED vars
  BY <1>3 DEF Begin, LogCommit, Rollback, Flush, CkptBegin, CkptSave, CkptWrite, CkptMetaOpen, CkptMeta,
              CloseBegin, CloseEnd, Crash, Open, vars
<1> QED  BY <1>1, <1>2, <1>3 DEF Next

\* An index that has transactions whole still does after a step: who commits
\* later has no row in it.
LEMMA WholeKept ==
    ASSUME TypeParts, TypeOK', OwnInv, PlaceInv, PlaceInv', EndedInv, [Next]_vars, restarts' = 0,
           NEW E, WholeIn(E)
    PROVE  WholeIn(E)'
<1>1. restarts = 0 /\ state # "down" /\ state' # "down" /\ TypeOK
  BY FirstLive, PartsOfType
<1>2. ASSUME NEW j \in DOMAIN E, Committed(E[j])
      PROVE  /\ j \in DOMAIN index /\ Committed(index[j]) /\ HeldAt(j, file[j].row)
             /\ j \in DOMAIN index' /\ Committed(index'[j]) /\ file'[j].row = file[j].row
  <2>1. j \in DOMAIN index /\ Committed(index[j]) /\ j \in DOMAIN file
    BY <1>1, <1>2 DEF WholeIn, TypeOK
  <2>2. PICK row : row = file[j].row
    OBVIOUS
  <2>3. HeldAt(j, row)
    BY <2>1, <2>2 DEF HeldAt
  <2>4. HeldAt(j, row)'
    BY <1>1, <2>3, LiveRows
  <2> QED  BY <2>1, <2>2, <2>3, <2>4 DEF HeldAt
<1>3. ASSUME NEW j \in DOMAIN E, Committed(E[j]), file'[j].row.tx # 0,
             NEW a \in acked', a.row.tx = file'[j].row.tx
      PROVE  \E k \in DOMAIN E : Committed(E[k]) /\ file'[k].row = a.row
  <2>1. file'[j].row = file[j].row /\ HeldAt(j, file[j].row)
    BY <1>2, <1>3
  <2>2. CASE a \in acked
    <3>1. PICK k \in DOMAIN E : Committed(E[k]) /\ file[k].row = a.row
      BY <1>3, <2>1, <2>2 DEF WholeIn
    <3> QED  BY <1>2, <3>1
  <2>3. CASE a \notin acked
    <3>1. PICK s \in Sessions : state = "open" /\ pc[s] # "out" /\ a.row.tx = tx[s]
      BY <1>3, <2>3, NewAck
    <3>2. PICK row : row = file[j].row
      OBVIOUS
    <3>3. j \in 1 .. RowCount /\ RowAt(j) = row /\ CommittedAt(j)
      BY <1>1, <2>1, <3>2, HeldPlace
    <3>4. Ended(row.tx)
      BY <1>1, <1>3, <2>1, <3>1, <3>2, <3>3 DEF EndedInv
    <3> QED  BY <1>3, <2>1, <3>1, <3>2, <3>4 DEF Ended
  <2> QED  BY <2>2, <2>3
<1> QED  BY <1>2, <1>3 DEF WholeIn

\* save_vindex writes whole transactions: when it has the lock, no acknowledged
\* row is outside the pages.
LEMMA WholeStep ==
    ASSUME DurableParts, TypeOK', PlaceInv', FirstInv, EndedInv, WholeInv, [Next]_vars PROVE WholeInv'
<1>1. TypeParts /\ TypeOK /\ OwnInv /\ PlaceInv /\ AckInv
  BY PartsOfType DEF DurableParts
<1> SUFFICES ASSUME restarts' = 0, Loadable' PROVE WholeIn(vfile.entries)'
  BY DEF WholeInv
<1>2. restarts = 0 /\ state # "down" /\ state' # "down"
  BY <1>1, FirstLive
<1>3. CASE vfile' = vfile
  <2>1. PICK E : E = vfile.entries /\ E = vfile'.entries
    BY <1>3
  <2>2. WholeIn(E)
    BY <1>2, <1>3, <2>1 DEF WholeInv, Loadable
  <2>3. WholeIn(E)'
    BY <1>1, <2>2, WholeKept
  <2> QED  BY <2>1, <2>3 DEF WholeIn
<1>4. CASE vfile'.st = "torn"
  BY <1>4 DEF Loadable
<1>5. CASE CkptWrite
  <2>1. /\ vfile' = [st |-> "ok", entries |-> index] /\ state = "open" /\ ckpt = "writing"
        /\ UNCHANGED <<file, index, acked>>
    BY <1>5 DEF CkptWrite, SaveIndex, memVars
  <2>2. vfile'.entries = index
    BY <2>1
  <2>3. ASSUME NEW a \in acked, a.row.tx # 0
        PROVE  \E k \in DOMAIN index : Committed(index[k]) /\ file[k].row = a.row
    <3>1. AckSafe(a)
      BY <1>1, <1>2, <2>1 DEF AckInv, FirstInv
    <3>2. Held(a.row)
      BY <2>1, <2>3, <3>1 DEF AckSafe
    <3> QED  BY <3>2 DEF Held, HeldAt
  <2> QED  BY <2>1, <2>2, <2>3 DEF WholeIn
<1> QED  BY <1>1, <1>2, <1>3, <1>4, <1>5, LiveSaved

\* A checkpoint leaves an index that can be read.
LEMMA SavedStep ==
    ASSUME TypeParts, SpanInv, StageInv, SavedInv, [BackupNext]_allVars PROVE SavedInv'
<1>1. CASE DatabaseStep
  <2>1. /\ [Next]_vars
        /\ stage' = "begun" => stage = "begun" /\ state = "open" /\ state' = "open"
    BY <1>1 DEF DatabaseStep, StageInv
  <2>2. state # "open" => ckpt = "idle"
    BY DEF SpanInv
  <2>3. CASE state = "open" /\ state' = "open"
    <3>1. /\ ckpt = "begun" => ckpt' = "begun" \/ CkptSave
          /\ ckpt = "writing" => ckpt' = "writing" \/ CkptWrite
          /\ ckpt \in {"saved", "meta"} => ckpt' \in {"saved", "meta", "idle"}
          /\ ckpt = "idle" => ckpt' \in {"idle", "begun"}
          /\ vfile' = vfile \/ CkptSave \/ CkptWrite
          /\ ckpt \in {"idle", "begun", "writing", "saved", "meta"}
      BY <2>1, <2>3, CkptMoves DEF TypeParts, SessType
    <3>2. CASE CkptSave
      BY <3>2 DEF CkptSave, SavedInv
    <3>3. CASE CkptWrite
      BY <3>3 DEF CkptWrite, SaveIndex, SavedInv, Loadable
    <3>4. CASE ~CkptSave /\ ~CkptWrite
      BY <2>1, <3>1, <3>4 DEF SavedInv, Loadable
    <3> QED  BY <3>2, <3>3, <3>4
  <2>4. CASE ~(state = "open" /\ state' = "open")
    <3>1. stage' # "begun"
      BY <2>1, <2>4
    <3>2. ckpt' = "idle"
      BY <2>1, <2>2, <2>4 DEF Next, Begin, Insert, LogCommit, FinishCommit, Rollback, AppendRecord, Flush, CkptBegin,
             CkptSave, CkptWrite, CkptMetaOpen, CkptMeta, CloseBegin, CloseEnd, Crash, Open, SessionsGone, vars, ckptVars
    <3> QED  BY <3>1, <3>2 DEF SavedInv
  <2> QED  BY <2>3, <2>4
<1>2. CASE BackupCheckpoint
  BY <1>2 DEF BackupCheckpoint, CkptBegin, SavedInv
<1>3. CASE BackupAsk \/ BackupStart \/ (\E f \in Files : CopyFile(f)) \/ CopyFails \/ BackupEnd \/ UNCHANGED allVars
  <2>1. UNCHANGED <<vfile, ckpt>> /\ (stage' = "begun" => stage = "begun")
    BY <1>3 DEF BackupAsk, BackupStart, CopyFile, CopyFails, BackupEnd, allVars, backupVars, vars, diskVars, ckptVars
  <2> QED  BY <2>1 DEF SavedInv, Loadable
<1> QED  BY <1>1, <1>2, <1>3 DEF BackupNext

\* Steps of the database leave the copies what they are, and the rows they
\* were made of in place.
LEMMA CopyLive ==
    ASSUME TypeParts, TypeOK', OwnInv, PlaceInv, PlaceInv', EndedInv, CopyInv, DatabaseStep, [Next]_vars PROVE CopyInv'
<1> SUFFICES ASSUME stage' \in {"copying", "done"}, ~moved', restarts' = 0
             PROVE  /\ stage' = "copying" => Loadable'
                    /\ stage' = "copying" /\ "vindex" \notin todo' => copy'.vindex = vfile'
                    /\ stage' = "copying" /\ "raw" \notin todo' => DOMAIN vfile'.entries \subseteq DOMAIN copy'.raw
                    /\ "vindex" \notin todo' => copy'.vindex.st = "ok" /\ WholeIn(copy.vindex.entries)'
                    /\ "raw" \notin todo' => \A j \in DOMAIN copy'.raw : j \in DOMAIN file' /\ copy'.raw[j] = file'[j]
                    /\ todo' = {} => DOMAIN copy'.vindex.entries \subseteq DOMAIN copy'.raw
  BY DEF CopyInv
<1>1. /\ stage' = stage /\ todo' = todo /\ copy' = copy /\ ~moved /\ restarts = 0
      /\ stage = "copying" => vfile' = vfile
  BY FirstLive DEF DatabaseStep
<1>2. PICK E : E = copy.vindex.entries /\ E = copy'.vindex.entries
  BY <1>1
<1>3. "vindex" \notin todo => WholeIn(E)
  BY <1>1, <1>2 DEF CopyInv
<1>4. "vindex" \notin todo => WholeIn(E)'
  BY <1>3, WholeKept
<1>5. "vindex" \notin todo' => copy'.vindex.st = "ok" /\ WholeIn(copy.vindex.entries)'
  <2>1. WholeIn(E)' => WholeIn(copy.vindex.entries)'
    BY <1>2 DEF WholeIn
  <2> QED  BY <1>1, <1>4, <2>1 DEF CopyInv
<1>6. \A j \in DOMAIN file : j \in DOMAIN file' /\ file'[j] = file[j]
  BY PastKept
<1>7. "raw" \notin todo' => \A j \in DOMAIN copy'.raw : j \in DOMAIN file' /\ copy'.raw[j] = file'[j]
  BY <1>1, <1>6 DEF CopyInv
<1>8. /\ stage' = "copying" => Loadable'
      /\ stage' = "copying" /\ "vindex" \notin todo' => copy'.vindex = vfile'
      /\ stage' = "copying" /\ "raw" \notin todo' => DOMAIN vfile'.entries \subseteq DOMAIN copy'.raw
      /\ todo' = {} => DOMAIN copy'.vindex.entries \subseteq DOMAIN copy'.raw
  BY <1>1 DEF CopyInv, Loadable
<1> QED  BY <1>5, <1>7, <1>8

\* A file that is copied is copied as it is.
LEMMA CopyCopied ==
    ASSUME TypeOK, StageInv, WholeInv, CopyInv, NEW f \in Files, CopyFile(f) PROVE CopyInv'
<1>1. /\ stage = "copying" /\ stage' = "copying" /\ todo' = todo \ {f} /\ f \in {"raw", "vindex"}
      /\ UNCHANGED <<file, index, vfile, restarts, acked, moved>>
      /\ copy' = IF f = "raw" THEN [copy EXCEPT !.raw = file] ELSE [copy EXCEPT !.vindex = vfile]
  BY DEF CopyFile, vars, diskVars, memVars, Files
<1>2. DOMAIN copy = {"raw", "vindex"}
  BY DEF StageInv, Files
<1>3. /\ f = "raw" => copy'.raw = file /\ copy'.vindex = copy.vindex
      /\ f = "vindex" => copy'.raw = copy.raw /\ copy'.vindex = vfile
  BY <1>1, <1>2
<1> SUFFICES ASSUME ~moved, restarts = 0
             PROVE  /\ Loadable'
                    /\ "vindex" \notin todo' => copy'.vindex = vfile'
                    /\ "raw" \notin todo' => DOMAIN vfile'.entries \subseteq DOMAIN copy'.raw
                    /\ "vindex" \notin todo' => copy'.vindex.st = "ok" /\ WholeIn(copy.vindex.entries)'
                    /\ "raw" \notin todo' => \A j \in DOMAIN copy'.raw : j \in DOMAIN file' /\ copy'.raw[j] = file'[j]
                    /\ todo' = {} => DOMAIN copy'.vindex.entries \subseteq DOMAIN copy'.raw
  BY <1>1 DEF CopyInv
<1>4. /\ Loadable
      /\ "vindex" \notin todo => copy.vindex = vfile /\ copy.vindex.st = "ok" /\ WholeIn(copy.vindex.entries)
      /\ "raw" \notin todo => /\ DOMAIN vfile.entries \subseteq DOMAIN copy.raw
                              /\ \A j \in DOMAIN copy.raw : j \in DOMAIN file /\ copy.raw[j] = file[j]
  BY <1>1 DEF CopyInv
<1>5. WholeIn(vfile.entries) /\ vfile.st = "ok"
  BY <1>4 DEF WholeInv, Loadable
<1>6. DOMAIN vfile.entries \subseteq DOMAIN file
  BY DEF TypeOK
<1>7. "vindex" \notin todo' => copy'.vindex = vfile /\ copy'.vindex.st = "ok"
  BY <1>1, <1>3, <1>4, <1>5
<1>8. "raw" \notin todo' => /\ DOMAIN vfile.entries \subseteq DOMAIN copy'.raw
                            /\ \A j \in DOMAIN copy'.raw : j \in DOMAIN file /\ copy'.raw[j] = file[j]
  BY <1>1, <1>3, <1>4, <1>6
<1>9. "vindex" \notin todo' => WholeIn(copy.vindex.entries)'
  <2>1. ASSUME copy'.vindex = vfile PROVE WholeIn(copy.vindex.entries)'
    BY <1>1, <1>5, <2>1 DEF WholeIn
  <2> QED  BY <1>7, <2>1
<1>10. todo' = {} => DOMAIN copy'.vindex.entries \subseteq DOMAIN copy'.raw
  BY <1>7, <1>8
<1> QED  BY <1>1, <1>4, <1>7, <1>8, <1>9, <1>10 DEF Loadable

\* Every step keeps CopyInv.
LEMMA CopyStep ==
    ASSUME DurableParts, TypeOK', PlaceInv', EndedInv, StageInv, WholeInv, SavedInv, CopyInv, [BackupNext]_allVars
    PROVE  CopyInv'
<1>1. TypeParts /\ TypeOK /\ OwnInv /\ PlaceInv
  BY PartsOfType DEF DurableParts
<1>2. CASE DatabaseStep
  BY <1>1, <1>2, CopyLive, BackupIsStep
<1>3. CASE \E f \in Files : CopyFile(f)
  BY <1>1, <1>3, CopyCopied
<1>4. CASE BackupAsk \/ BackupCheckpoint \/ CopyFails
  BY <1>4 DEF BackupAsk, BackupCheckpoint, CopyFails, CopyInv
<1>5. CASE BackupStart
  <2>1. stage' = "copying" /\ todo' = {"raw", "vindex"} /\ Loadable /\ vfile' = vfile
    BY <1>5 DEF BackupStart, SavedInv, Files, vars, diskVars
  <2> QED  BY <2>1 DEF CopyInv, Loadable
<1>6. CASE BackupEnd
  <2>1. stage = "copying" /\ stage' = "done" /\ UNCHANGED <<todo, copy, moved, file, index, restarts, acked>>
    BY <1>6 DEF BackupEnd, vars, diskVars, memVars
  <2>2. WholeIn(copy.vindex.entries) => WholeIn(copy.vindex.entries)'
    BY <2>1 DEF WholeIn
  <2> QED  BY <2>1, <2>2 DEF CopyInv
<1>7. CASE UNCHANGED allVars
  <2>1. UNCHANGED <<stage, todo, copy, moved, file, index, vfile, restarts, acked>>
    BY <1>7 DEF allVars, backupVars, vars, diskVars, memVars
  <2>2. WholeIn(copy.vindex.entries) => WholeIn(copy.vindex.entries)'
    BY <2>1 DEF WholeIn
  <2> QED  BY <2>1, <2>2 DEF CopyInv, Loadable
<1> QED  BY <1>2, <1>3, <1>4, <1>5, <1>6, <1>7 DEF BackupNext

\* The parts of the inductive invariant for whole transactions.
CopyParts ==
    /\ DurableParts /\ StageInv /\ FirstInv /\ EndedInv /\ WholeInv /\ SavedInv /\ CopyInv

\* They hold in every reachable state.
LEMMA CopyInvariant == BackupSpec => []CopyParts
<1>1. BackupInit => CopyParts
  <2> SUFFICES ASSUME BackupInit PROVE CopyParts
    OBVIOUS
  <2>1. DurableParts
    BY DurableInit DEF BackupInit
  <2>2. DOMAIN NoCopy = Files /\ Init
    BY DEF NoCopy, Files, BackupInit
  <2>3. StageInv /\ SavedInv /\ CopyInv /\ WholeInv
    BY <2>2 DEF BackupInit, Init, StageInv, SavedInv, CopyInv, WholeInv, Loadable, NoFile
  <2>4. FirstInv
    BY <2>2 DEF Init, FirstInv
  <2>5. EndedInv
    <3>1. Len(file) = 0 /\ Len(pending) = 0
      BY <2>2 DEF Init
    <3>2. RowCount = 0
      BY <3>1 DEF RowCount
    <3> QED  BY <3>2 DEF EndedInv
  <2> QED  BY <2>1, <2>3, <2>4, <2>5 DEF CopyParts
<1>2. CopyParts /\ [BackupNext]_allVars => CopyParts'
  <2> SUFFICES ASSUME CopyParts, [BackupNext]_allVars PROVE CopyParts'
    OBVIOUS
  <2>1. [Next]_vars /\ DurableParts
    BY BackupIsStep DEF CopyParts
  <2>2. DurableParts'
    BY <2>1, DurableStep
  <2>3. TypeOK' /\ PlaceInv'
    BY <2>2, NextType DEF DurableParts
  <2>4. TypeParts /\ OwnInv /\ TxInv /\ PlaceInv /\ SpanInv
    BY <2>1 DEF DurableParts
  <2>5. FirstInv' /\ EndedInv' /\ WholeInv'
    BY <2>1, <2>3, <2>4, FirstStep, EndedStep, WholeStep DEF CopyParts
  <2>6. StageInv' /\ SavedInv' /\ CopyInv'
    BY <2>1, <2>3, <2>4, StageStep, SavedStep, CopyStep DEF CopyParts
  <2> QED  BY <2>2, <2>5, <2>6 DEF CopyParts
<1> QED  BY <1>1, <1>2, PTL DEF BackupSpec

\* A backup taken before the first restart shows a transaction whole or not at
\* all, and only if it committed, in whichever order the files were copied and
\* whatever committed between the two copies, as long as no other checkpoint
\* rewrote .vindex while they were made.
THEOREM BackupShowsWhole == BackupSpec => []BackupAtomic
<1>1. CopyParts => BackupAtomic
  <2> SUFFICES ASSUME CopyParts, stage = "done", ~moved, restarts = 0, NEW i \in DOMAIN copy.raw,
                      NEW row, row = copy.raw[i].row, row.tx # 0, row \in CopiedRows
               PROVE  /\ \E w \in wonTx : w = <<row.proc, row.tx>>
                      /\ \A a \in acked : a.row.tx = row.tx => a.row \in CopiedRows
    BY DEF BackupAtomic
  <2>1. TypeOK /\ EndedInv /\ CopyInv /\ todo = {}
    BY PartsOfType DEF CopyParts, DurableParts, StageInv
  <2>2. PICK E : E = copy.vindex.entries
    OBVIOUS
  <2>3. /\ CopiedIndex = E /\ WholeIn(E) /\ DOMAIN E \subseteq DOMAIN copy.raw
        /\ \A j \in DOMAIN copy.raw : j \in DOMAIN file /\ copy.raw[j] = file[j]
    BY <2>1, <2>2 DEF CopyInv, CopiedIndex
  <2>4. CopiedRows = {copy.raw[j].row : j \in {k \in DOMAIN copy.raw \cap DOMAIN E : Committed(E[k])}}
    BY <2>3 DEF CopiedRows
  <2>5. PICK j \in DOMAIN copy.raw \cap DOMAIN E : Committed(E[j]) /\ copy.raw[j].row = row
    BY <2>4
  <2>6. j \in DOMAIN index /\ Committed(index[j]) /\ j \in DOMAIN file /\ file[j].row = row
    BY <2>3, <2>5 DEF WholeIn
  <2>7. <<row.proc, row.tx>> \in wonTx
    <3>1. HeldAt(j, row)
      BY <2>6 DEF HeldAt
    <3>2. j \in 1 .. RowCount /\ RowAt(j) = row /\ CommittedAt(j)
      BY <2>1, <3>1, HeldPlace
    <3> QED  BY <2>1, <3>2 DEF EndedInv
  <2>8. ASSUME NEW a \in acked, a.row.tx = row.tx PROVE a.row \in CopiedRows
    <3>1. PICK k \in DOMAIN E : Committed(E[k]) /\ file[k].row = a.row
      BY <2>3, <2>5, <2>6, <2>8 DEF WholeIn
    <3>2. k \in DOMAIN copy.raw /\ copy.raw[k].row = a.row
      BY <2>3, <3>1
    <3> QED  BY <2>4, <3>1, <3>2
  <2> QED  BY <2>7, <2>8
<1> QED  BY <1>1, CopyInvariant, PTL

-----------------------------------------------------------------------------
(* The promise of DurableRows.                                             *)

\* An acknowledged row is an old one, and no running transaction's.
FreshInv ==
    \A a \in acked : a.row.n <= written /\ \A s \in Sessions : a.row \notin WrittenBy(s)

\* A write set gets nothing but the row that its session inserts.
LEMMA SetsGrow ==
    ASSUME TypeParts, SessionsInv, [Next]_vars, NEW s \in Sessions, NEW i \in ws'[s]
    PROVE  /\ state # "down" /\ state' # "down"
           /\ i \in ws[s] \/ (Insert(s) /\ i = RowCount + 1)
<1>1. TypeOK
  BY PartsOfType
<1>2. ws \in [Sessions -> SUBSET (1 .. RowCount)]
  BY <1>1 DEF TypeOK
<1>3. ASSUME NEW t \in Sessions, Insert(t)
      PROVE  /\ state # "down" /\ state' # "down"
             /\ i \in ws[s] \/ (Insert(s) /\ i = RowCount + 1)
  <2>1. state = "open" /\ state' = "open"
    BY <1>3 DEF Insert, AppendRecord
  <2>2. CASE ws' = ws
    BY <2>1, <2>2
  <2>3. CASE ws' = [ws EXCEPT ![t] = @ \cup {RowCount + 1}]
    BY <1>2, <1>3, <2>1, <2>3
  <2> QED  BY <1>3, <2>2, <2>3 DEF Insert
<1>4. ASSUME NEW t \in Sessions, FinishCommit(t) \/ Rollback(t)
      PROVE  state # "down" /\ state' # "down" /\ i \in ws[s]
  <2>1. state = "open" /\ state' = "open" /\ ws' = [ws EXCEPT ![t] = {}]
    BY <1>4 DEF FinishCommit, Rollback, Leave, AppendRecord
  <2> QED  BY <1>2, <2>1
<1>5. CASE CloseBegin \/ Crash
  <2>1. ws' = [t \in Sessions |-> {}]
    BY <1>5 DEF CloseBegin, Crash, SessionsGone
  <2> QED  BY <2>1
<1>6. CASE \/ \E t \in Sessions : Begin(t) \/ LogCommit(t)
           \/ Flush \/ CkptBegin \/ CkptSave \/ CkptWrite \/ CkptMetaOpen \/ CkptMeta
  <2>1. state = "open" /\ state' = "open" /\ ws' = ws
    BY <1>6 DEF Begin, LogCommit, AppendRecord, Flush, CkptBegin, CkptSave, CkptWrite, CkptMetaOpen,
                CkptMeta, sessVars
  <2> QED  BY <2>1
<1>7. CASE CloseEnd \/ (\E target \in Targets : Open(target))
  <2>1. state # "open" /\ ws' = ws
    BY <1>7 DEF CloseEnd, Open, sessVars
  <2> QED  BY <2>1 DEF SessionsInv
<1>8. CASE UNCHANGED vars
  <2>1. state' = state /\ ws' = ws
    BY <1>8 DEF vars, sessVars
  <2>2. state = "open"
    BY <2>1 DEF SessionsInv
  <2> QED  BY <2>1, <2>2
<1> QED  BY <1>3, <1>4, <1>5, <1>6, <1>7, <1>8 DEF Next

\* What an INSERT outside of transactions and a COMMIT acknowledge.
LEMMA AckedRows ==
    ASSUME TypeParts, OwnInv, [Next]_vars, NEW a \in acked', a \notin acked
    PROVE  \/ \E s \in Sessions : Insert(s) /\ pc[s] = "out" /\ a.row = RowOf(Rec(tx[s], "insert", 0))
           \/ \E s \in Sessions : FinishCommit(s) /\ a.row \in WrittenBy(s)
<1>1. ASSUME NEW s \in Sessions, Insert(s)
      PROVE  pc[s] = "out" /\ a.row = RowOf(Rec(tx[s], "insert", 0))
  BY <1>1 DEF Insert
<1>2. ASSUME NEW s \in Sessions, FinishCommit(s) PROVE a.row \in WrittenBy(s)
  BY <1>2 DEF FinishCommit, WrittenBy
<1>3. CASE \/ \E s \in Sessions : Begin(s) \/ LogCommit(s) \/ Rollback(s)
           \/ Flush \/ CkptBegin \/ CkptSave \/ CkptWrite \/ CkptMetaOpen \/ CkptMeta
           \/ CloseBegin \/ CloseEnd \/ Crash \/ (\E target \in Targets : Open(target)) \/ UNCHANGED vars
  BY <1>3 DEF Begin, LogCommit, Rollback, Flush, CkptBegin, CkptSave, CkptWrite, CkptMetaOpen, CkptMeta,
              CloseBegin, CloseEnd, Crash, Open, vars
<1> QED  BY <1>1, <1>2, <1>3 DEF Next

\* The row of an insertion is newer than all others.
LEMMA InsertRow ==
    ASSUME TypeParts, NEW s \in Sessions, Insert(s)
    PROVE  /\ RowOf(Rec(tx[s], "insert", 0)).n = written + 1
           /\ \A i : i = RowCount + 1 => RowAt(i)' = RowOf(Rec(tx[s], "insert", 0))
           /\ RowCount' = RowCount + 1 /\ written' = written + 1
<1>1. TypeOK /\ BoundInv
  BY PartsOfType
<1>2. /\ \A t \in Sessions : tx[t] \in 0 .. MaxTx
      /\ Tick(clock) \in Ts /\ \A y \in 0 .. MaxTx : Mark(y) \in Ts
  BY <1>1, Timestamps DEF TypeOK
<1>3. PICK p : p = [row |-> RowOf(Rec(tx[s], "insert", 0)),
                    ts |-> IF pc[s] = "out" THEN Tick(clock) ELSE Mark(tx[s])]
  OBVIOUS
<1>4. pending' = Append(pending, p) /\ UNCHANGED <<file, index>> /\ written' = written + 1
  BY <1>3 DEF Insert, AppendRecord, diskVars
<1>5. RowOf(Rec(tx[s], "insert", 0)) \in Row /\ RowOf(Rec(tx[s], "insert", 0)).n = written + 1
  <2>1. written \in Nat /\ restarts \in Nat /\ tx[s] \in Nat
    BY <1>1, <1>2, Spans DEF TypeOK
  <2> QED  BY <2>1 DEF RowOf, Rec, Row
<1>6. p \in PendingRow /\ p.row = RowOf(Rec(tx[s], "insert", 0))
  BY <1>2, <1>3, <1>5 DEF PendingRow
<1>7. RowCount' = RowCount + 1 /\ \A i : i = RowCount + 1 => RowAt(i)' = p.row
  BY <1>1, <1>4, <1>6, PendEffect
<1> QED  BY <1>4, <1>5, <1>6, <1>7

\* Every step keeps old rows old and apart.
LEMMA FreshStep ==
    ASSUME TypeParts, TypeParts', SessionsInv, OwnInv, PlaceInv, TxInv, FreshInv, [Next]_vars
    PROVE  FreshInv'
<1>0. TypeOK /\ BoundInv /\ TypeOK'
  BY PartsOfType, NextType
<1>1. TypeOK /\ BoundInv /\ written \in Nat
  <2>1. written \in Nat
    BY <1>0, Spans DEF TypeOK
  <2> QED  BY <1>0, <2>1
<1>2. written' \in Nat
  BY <1>0, Spans DEF TypeOK
<1>3. written <= written'
  <2>1. written' = written \/ written' = written + 1
    BY DEF Next, Begin, Insert, LogCommit, FinishCommit, Rollback, AppendRecord, Flush, CkptBegin,
       CkptSave, CkptWrite, CkptMetaOpen, CkptMeta, CloseBegin, CloseEnd, Crash, Open, vars
  <2> QED  BY <1>1, <2>1
<1>4. \A s \in Sessions : \A i \in ws[s] : i \in 1 .. RowCount
  BY <1>1 DEF TypeOK
<1>5. ASSUME NEW s \in Sessions, NEW row \in WrittenBy(s)'
      PROVE  row \in WrittenBy(s) \/ (Insert(s) /\ row.n = written + 1)
  <2>1. PICK i \in ws'[s] : row = RowAt(i)'
    BY <1>5 DEF WrittenBy
  <2>2. /\ state # "down" /\ state' # "down"
        /\ i \in ws[s] \/ (Insert(s) /\ i = RowCount + 1)
    BY SetsGrow
  <2>3. CASE i \in ws[s]
    <3>1. KeepsRows
      BY <2>2, LiveEntries
    <3>2. RowAt(i)' = RowAt(i)
      BY <1>4, <2>3, <3>1 DEF KeepsRows
    <3> QED  BY <2>1, <2>3, <3>2 DEF WrittenBy
  <2>4. CASE Insert(s) /\ i = RowCount + 1
    BY <2>1, <2>4, InsertRow
  <2> QED  BY <2>2, <2>3, <2>4
<1>6. ASSUME NEW a \in acked
      PROVE  a.row.n <= written' /\ \A s \in Sessions : a.row \notin WrittenBy(s)'
  <2>1. a.row.n <= written /\ a.row.n \in Nat /\ \A s \in Sessions : a.row \notin WrittenBy(s)
    BY <1>1 DEF FreshInv, TypeOK, Row
  <2>2. a.row.n <= written' /\ a.row.n # written + 1
    BY <1>1, <1>2, <1>3, <2>1
  <2> QED  BY <1>5, <2>1, <2>2
<1>7. ASSUME NEW a \in acked', a \notin acked
      PROVE  a.row.n <= written' /\ \A s \in Sessions : a.row \notin WrittenBy(s)'
  <2>1. ASSUME NEW s \in Sessions, NEW i \in ws[s]
        PROVE  RowAt(i).n <= written /\ RowAt(i) \in Row /\ RowAt(i).tx = tx[s] /\ pc[s] # "out"
    BY <1>1, <1>4, RowAtType DEF PlaceInv, OwnInv
  <2>2. ASSUME NEW t \in Sessions, Insert(t), pc[t] = "out", a.row = RowOf(Rec(tx[t], "insert", 0))
        PROVE  a.row.n <= written' /\ \A s \in Sessions : a.row \notin WrittenBy(s)'
    <3>1. a.row.n = written + 1 /\ written' = written + 1
      BY <2>2, InsertRow
    <3>2. ASSUME NEW s \in Sessions, a.row \in WrittenBy(s)' PROVE FALSE
      <4>1. ws' = ws
        BY <2>2 DEF Insert
      <4>2. PICK i \in ws[s] : a.row = RowAt(i)'
        BY <3>2, <4>1 DEF WrittenBy
      <4>3. KeepsRows
        <5>1. state # "down" /\ state' # "down"
          BY <2>2 DEF Insert, AppendRecord
        <5> QED  BY <5>1, LiveEntries
      <4>4. RowAt(i)' = RowAt(i)
        BY <1>4, <4>3 DEF KeepsRows
      <4>5. RowAt(i).n <= written /\ RowAt(i).n \in Nat
        BY <2>1 DEF Row
      <4> QED  BY <1>1, <3>1, <4>2, <4>4, <4>5
    <3> QED  BY <1>1, <3>1, <3>2
  <2>3. ASSUME NEW t \in Sessions, FinishCommit(t), a.row \in WrittenBy(t)
        PROVE  a.row.n <= written' /\ \A s \in Sessions : a.row \notin WrittenBy(s)'
    <3>1. PICK i \in ws[t] : a.row = RowAt(i)
      BY <2>3 DEF WrittenBy
    <3>2. a.row.n <= written /\ a.row.n \in Nat /\ a.row.tx = tx[t] /\ pc[t] # "out"
      BY <2>1, <3>1 DEF Row
    <3>3. ws' = [ws EXCEPT ![t] = {}] /\ ws \in [Sessions -> SUBSET (1 .. RowCount)] /\ ~Insert(t)
          /\ \A s \in Sessions : ~Insert(s)
      <4>1. written' = written /\ ws' = [ws EXCEPT ![t] = {}]
        BY <2>3 DEF FinishCommit, Leave
      <4>2. \A s \in Sessions : ~Insert(s)
        BY <1>1, <4>1, InsertRow
      <4> QED  BY <1>1, <4>1, <4>2 DEF TypeOK
    <3>4. ASSUME NEW s \in Sessions, a.row \in WrittenBy(s)' PROVE FALSE
      <4>1. a.row \in WrittenBy(s)
        BY <1>5, <3>3, <3>4
      <4>2. s # t
        BY <3>3, <3>4 DEF WrittenBy
      <4>3. PICK j \in ws[s] : a.row = RowAt(j)
        BY <4>1 DEF WrittenBy
      <4>4. a.row.tx = tx[s] /\ pc[s] # "out"
        BY <2>1, <4>3
      <4> QED  BY <3>2, <4>2, <4>4 DEF TxInv
    <3> QED  BY <1>1, <1>2, <1>3, <3>2, <3>4
  <2> QED  BY <1>7, <2>2, <2>3, AckedRows
<1> QED  BY <1>6, <1>7 DEF FreshInv

\* Without a restart nothing vanishes.
LEMMA VisibleKept ==
    ASSUME TypeParts, [Next]_vars, state # "down", state' # "down"
    PROVE  Visible \subseteq Visible'
<1>1. KeepsRows /\ \A i \in 1 .. RowCount : CommittedAt(i) => CommittedAt(i)'
  BY LiveEntries
<1>2. TypeOK
  BY PartsOfType
<1>3. \A i \in 1 .. RowCount : i \in 1 .. RowCount'
  <2>1. RowCount \in Nat
    BY <1>2, SeqTypes
  <2> QED  BY <1>1, <2>1 DEF KeepsRows
<1>4. ASSUME NEW row \in Visible PROVE row \in Visible'
  <2>1. PICK i \in 1 .. RowCount : CommittedAt(i) /\ row = RowAt(i)
    BY <1>4 DEF Visible
  <2>2. i \in 1 .. RowCount' /\ CommittedAt(i)' /\ row = RowAt(i)'
    BY <1>1, <1>3, <2>1 DEF KeepsRows
  <2> QED  BY <2>2 DEF Visible
<1> QED  BY <1>4

\* ... and what becomes visible is what is inserted or committed by the step.
LEMMA VisibleNew ==
    ASSUME TypeParts, OwnInv, [Next]_vars, state # "down", state' # "down", NEW row \in Visible', row \notin Visible
    PROVE  \/ \E s \in Sessions : Insert(s) /\ pc[s] = "out" /\ row = RowOf(Rec(tx[s], "insert", 0))
           \/ \E s \in Sessions : FinishCommit(s) /\ row \in WrittenBy(s)
<1>1. PICK i \in 1 .. RowCount' : CommittedAt(i)' /\ row = RowAt(i)'
  BY DEF Visible
<1>2. KeepsRows /\ TypeOK
  BY LiveEntries, PartsOfType
<1>3. CASE i \in 1 .. RowCount /\ CommittedAt(i)
  <2>1. row = RowAt(i)
    BY <1>1, <1>2, <1>3 DEF KeepsRows
  <2> QED  BY <1>3, <2>1 DEF Visible
<1>4. ASSUME NEW s \in Sessions, Insert(s), pc[s] = "out", i = RowCount + 1
      PROVE  row = RowOf(Rec(tx[s], "insert", 0))
  BY <1>1, <1>4, InsertRow
<1>5. ASSUME NEW s \in Sessions, FinishCommit(s), i \in ws[s]
      PROVE  row \in WrittenBy(s)
  <2>1. i \in 1 .. RowCount
    BY <1>2, <1>5 DEF TypeOK
  <2>2. row = RowAt(i)
    BY <1>1, <1>2, <2>1 DEF KeepsRows
  <2> QED  BY <1>5, <2>2 DEF WrittenBy
<1> QED  BY <1>1, <1>3, <1>4, <1>5, Newly

\* A call that returns: its rows become visible together, or not at all.
LEMMA AnswerInsert ==
    ASSUME TypeParts, OwnInv, PlaceInv, FreshInv, [Next]_vars, NEW s \in Sessions, Insert(s), pc[s] = "out"
    PROVE  Durable!Answer
<1>1. TypeOK /\ BoundInv
  BY PartsOfType
<1>2. Tick(clock) \in Ts /\ written \in Nat /\ restarts \in Nat /\ tx[s] \in Nat
  <2>1. written \in Nat /\ restarts \in Nat /\ tx[s] \in Nat /\ clock \in Ts
    BY <1>1, Spans DEF TypeOK
  <2> QED  BY <1>1, <2>1, Timestamps
<1>3. PICK row : row = RowOf(Rec(tx[s], "insert", 0))
  OBVIOUS
<1>4. PICK ts : ts = Tick(clock)
  OBVIOUS
<1>5. /\ state = "open" /\ state' = "open"
      /\ acked' = acked \cup {[row |-> row, done |-> row.n]}
      /\ excused' = excused \cup Buried({row}, ts)
      /\ pending' = Append(pending, [row |-> row, ts |-> ts])
      /\ UNCHANGED <<file, index>>
  BY <1>3, <1>4 DEF Insert, AppendRecord, diskVars
<1>6. row.n = written + 1 /\ row \in Row
  <2>1. row \in Row
    BY <1>2, <1>3 DEF RowOf, Rec, Row
  <2> QED  BY <1>3, <2>1, InsertRow
<1>7. \A a \in acked : a.row # row
  <2>1. \A a \in acked : a.row.n <= written /\ a.row.n \in Nat
    BY <1>1 DEF FreshInv, TypeOK, Row
  <2> QED  BY <1>2, <1>6, <2>1
<1>8. {a.row : a \in acked'} = {a.row : a \in acked} \cup {row}
  <2>1. PICK b : b = [row |-> row, done |-> row.n]
    OBVIOUS
  <2>2. acked' = acked \cup {b} /\ b.row = row
    BY <1>5, <2>1
  <2> QED  BY <2>2, Zenon
<1>9. {a.row : a \in acked'} \ {a.row : a \in acked} = {row}
  BY <1>7, <1>8
<1>10. Visible \subseteq Visible' /\ \A r \in Visible' : r \in Visible \/ r = row
  <2>1. Visible \subseteq Visible'
    BY <1>5, VisibleKept
  <2>2. ASSUME NEW r \in Visible', r \notin Visible PROVE r = row
    <3>1. ASSUME NEW t \in Sessions, Insert(t) PROVE RowOf(Rec(tx[t], "insert", 0)) = row
      <4>1. PICK i : i = RowCount + 1
        OBVIOUS
      <4>2. RowAt(i)' = row /\ RowAt(i)' = RowOf(Rec(tx[t], "insert", 0))
        BY <1>3, <3>1, <4>1, InsertRow
      <4> QED  BY <4>2
    <3>2. \A t \in Sessions : ~FinishCommit(t)
      BY <1>2 DEF Insert, FinishCommit, AppendRecord
    <3> QED  BY <1>5, <2>2, <3>1, <3>2, VisibleNew
  <2> QED  BY <2>1, <2>2
<1>11. PICK i : i = RowCount + 1
  OBVIOUS
<1>12. RowAt(i)' = row /\ Known(i)' /\ EntryAt(i)' = ts /\ i \in 1 .. RowCount'
  <2>1. [row |-> row, ts |-> ts] \in PendingRow
    BY <1>2, <1>4, <1>6 DEF PendingRow
  <2>2. RowAt(i)' = row /\ RowCount' = RowCount + 1 /\ RowCount \in Nat
    BY <1>1, <1>3, <1>11, InsertRow, SeqTypes
  <2>3. Known(i)' /\ EntryAt(i)' = ts
    BY <1>1, <1>5, <1>11, <2>1, PendEntries
  <2> QED  BY <1>11, <2>2, <2>3
<1>13. CASE Committed(ts)
  <2>1. CommittedAt(i)'
    BY <1>12, <1>13 DEF CommittedAt, Known, EntryAt
  <2>2. row \in Visible'
    BY <1>12, <2>1 DEF Visible
  <2>3. Visible' = Visible \cup {row} /\ excused' = excused
    BY <1>5, <1>10, <1>13, <2>2 DEF Buried
  <2> QED  BY <1>5, <1>8, <1>9, <2>3 DEF Durable!Answer
<1>14. CASE ~Committed(ts)
  <2>1. ASSUME row \in Visible', row \notin Visible PROVE FALSE
    <3>1. PICK j \in 1 .. RowCount' : CommittedAt(j)' /\ RowAt(j)' = row
      BY <2>1 DEF Visible
    <3>2. j = i
      <4>1. CASE j \in 1 .. RowCount
        <5>1. KeepsRows
          BY <1>5, LiveEntries
        <5>2. RowAt(j) = row /\ RowAt(j).n <= written /\ row.n \in Nat
          BY <1>6, <3>1, <4>1, <5>1 DEF KeepsRows, PlaceInv, Row
        <5> QED  BY <1>2, <1>6, <5>2
      <4>2. RowCount' = RowCount + 1 /\ RowCount \in Nat
        BY <1>1, InsertRow, SeqTypes
      <4> QED  BY <1>11, <4>1, <4>2
    <3>3. Committed(EntryAt(i)')
      BY <3>1, <3>2 DEF CommittedAt, EntryAt
    <3> QED  BY <1>12, <1>14, <3>3
  <2>2. Visible' = Visible /\ excused' = excused \cup {row}
    BY <1>5, <1>10, <1>14, <2>1 DEF Buried
  <2> QED  BY <1>5, <1>8, <1>9, <2>2 DEF Durable!Answer
<1> QED  BY <1>13, <1>14

\* So with the rows of a COMMIT.
LEMMA AnswerCommit ==
    ASSUME TypeParts, OwnInv, MarkInv, FreshInv, [Next]_vars, NEW s \in Sessions, FinishCommit(s)
    PROVE  Durable!Answer
<1>1. TypeOK /\ BoundInv
  BY PartsOfType
<1>2. PICK ts \in Ts : ts = cts[s]
  BY <1>1 DEF TypeOK
<1>3. PICK x : x = tx[s]
  OBVIOUS
<1>4. /\ state = "open" /\ state' = "open"
      /\ Stamp(ws[s], x, ts) /\ file' = file
      /\ acked' = acked \cup {[row |-> RowAt(i), done |-> written] : i \in ws[s]}
      /\ excused' = excused \cup Buried(WrittenBy(s), ts)
      /\ UNCHANGED written
  BY <1>2, <1>3 DEF FinishCommit, WrittenBy
<1>5. {a.row : a \in acked'} = {a.row : a \in acked} \cup WrittenBy(s)
  <2>1. ASSUME NEW a \in acked', a \notin acked PROVE a.row \in WrittenBy(s)
    BY <1>4, <2>1 DEF WrittenBy
  <2>2. ASSUME NEW row \in WrittenBy(s) PROVE \E a \in acked' : a.row = row
    <3>1. PICK i \in ws[s] : row = RowAt(i)
      BY DEF WrittenBy
    <3>2. [row |-> row, done |-> written] \in acked'
      BY <1>4, <3>1
    <3> QED  BY <3>2
  <2>3. acked \subseteq acked'
    BY <1>4
  <2> QED  BY <2>1, <2>2, <2>3
<1>6. {a.row : a \in acked'} \ {a.row : a \in acked} = WrittenBy(s)
  BY <1>5 DEF FreshInv
<1>7. /\ \A i \in ws[s] : i \in 1 .. RowCount /\ Known(i) /\ EntryAt(i) = Mark(x)
      /\ RowCount' = RowCount /\ KeepsRows
  <2>1. KeepsRows /\ RowCount' = RowCount
    BY <1>1, <1>4, StampEffect
  <2> QED  BY <1>1, <1>3, <2>1 DEF MarkInv, TypeOK
<1>8. \A i \in ws[s] : Known(i)' /\ EntryAt(i)' = ts
  BY <1>1, <1>4, <1>7, StampEntries
<1>n. ASSUME NEW j \in 1 .. RowCount', CommittedAt(j)', ~CommittedAt(j) PROVE j \in ws[s]
  <2>1. ASSUME NEW t \in Sessions, FinishCommit(t), j \in ws[t] PROVE j \in ws[s]
    <3>1. ws' = [ws EXCEPT ![t] = {}] /\ ws' = [ws EXCEPT ![s] = {}]
          /\ ws \in [Sessions -> SUBSET (1 .. RowCount)]
      BY <1>1, <2>1 DEF FinishCommit, Leave, TypeOK
    <3>2. ws'[t] = {} /\ (t # s => ws'[t] = ws[t])
      BY <3>1
    <3> QED  BY <2>1, <3>2
  <2>2. \A t \in Sessions : ~Insert(t)
    <3>1. written \in Nat
      BY <1>1, Spans DEF TypeOK
    <3> QED  BY <1>4, <3>1, InsertRow
  <2> QED  BY <1>4, <1>n, <2>1, <2>2, Newly
<1>9. Visible \subseteq Visible' /\ \A r \in Visible' : r \in Visible \/ r \in WrittenBy(s)
  <2>1. Visible \subseteq Visible'
    BY <1>4, VisibleKept
  <2>2. ASSUME NEW r \in Visible', r \notin Visible PROVE r \in WrittenBy(s)
    <3>1. PICK j \in 1 .. RowCount' : CommittedAt(j)' /\ r = RowAt(j)'
      BY <2>2 DEF Visible
    <3>2. j \in 1 .. RowCount /\ r = RowAt(j) /\ ~CommittedAt(j)
      BY <1>7, <2>2, <3>1 DEF KeepsRows, Visible
    <3>3. j \in ws[s]
      BY <1>n, <3>1, <3>2
    <3> QED  BY <3>2, <3>3 DEF WrittenBy
  <2> QED  BY <2>1, <2>2
<1>10. CASE Committed(ts)
  <2>1. ASSUME NEW row \in WrittenBy(s) PROVE row \in Visible'
    <3>1. PICK i \in ws[s] : row = RowAt(i)
      BY DEF WrittenBy
    <3>2. CommittedAt(i)'
      BY <1>8, <1>10 DEF CommittedAt, Known, EntryAt
    <3>3. i \in 1 .. RowCount' /\ row = RowAt(i)'
      BY <1>7, <3>1 DEF KeepsRows
    <3> QED  BY <3>2, <3>3 DEF Visible
  <2>2. Visible' = Visible \cup WrittenBy(s) /\ excused' = excused
    BY <1>4, <1>9, <1>10, <2>1 DEF Buried
  <2> QED  BY <1>4, <1>5, <1>6, <2>2 DEF Durable!Answer
<1>11. CASE ~Committed(ts)
  <2>1. ASSUME NEW r \in Visible', r \notin Visible PROVE FALSE
    <3>1. PICK j \in 1 .. RowCount' : CommittedAt(j)' /\ r = RowAt(j)'
      BY <2>1 DEF Visible
    <3>2. j \in 1 .. RowCount /\ r = RowAt(j) /\ ~CommittedAt(j)
      BY <1>7, <2>1, <3>1 DEF KeepsRows, Visible
    <3>3. j \in ws[s]
      BY <1>n, <3>1, <3>2
    <3>4. Committed(EntryAt(j)')
      BY <3>1 DEF CommittedAt, EntryAt
    <3> QED  BY <1>8, <1>11, <3>3, <3>4
  <2>2. Visible' = Visible /\ excused' = excused \cup WrittenBy(s)
    BY <1>4, <1>9, <1>11, <2>1 DEF Buried
  <2> QED  BY <1>4, <1>5, <1>6, <2>2 DEF Durable!Answer
<1> QED  BY <1>10, <1>11

\* Every step of the database is one that DurableRows allows.
LEMMA DurableRowsStep ==
    ASSUME DurableParts, FreshInv, [Next]_vars PROVE [Durable!Next]_(Durable!vars)
<1>1. /\ TypeParts /\ SessionsInv /\ OwnInv /\ PlaceInv /\ MarkInv /\ AckInv /\ AckInv'
  BY DurableStep DEF DurableParts
<1>2. excused \subseteq excused'
  BY <1>1, PastKept
<1>3. ASSUME NEW s \in Sessions, Insert(s), pc[s] = "out" PROVE Durable!Next
  BY <1>1, <1>3, AnswerInsert DEF Durable!Next
<1>4. ASSUME NEW s \in Sessions, FinishCommit(s) PROVE Durable!Next
  BY <1>1, <1>4, AnswerCommit DEF Durable!Next
<1>5. ASSUME state # "down", state' # "down",
             \A s \in Sessions : ~FinishCommit(s) /\ ~(Insert(s) /\ pc[s] = "out")
      PROVE  UNCHANGED Durable!vars
  <2>1. Visible' = Visible
    BY <1>1, <1>5, VisibleKept, VisibleNew
  <2>2. acked' = acked /\ excused' = excused
    BY <1>5 DEF Next, Begin, Insert, LogCommit, Rollback, Flush, CkptBegin, CkptSave, CkptWrite,
                CkptMetaOpen, CkptMeta, CloseBegin, CloseEnd, Crash, Open, vars, pastVars
  <2> QED  BY <1>5, <2>1, <2>2 DEF Durable!vars
<1>6. ASSUME MemoryGone, file' = file PROVE Visible' = {}
  <2>1. index' = <<>> /\ pending' = <<>> /\ TypeOK
    BY <1>1, <1>6, PartsOfType DEF MemoryGone
  <2>2. Len(pending') = 0 /\ DOMAIN index' = {} /\ Len(file) \in Nat
    BY <2>1, SeqTypes
  <2>3. RowCount' = Len(file')
    BY <1>6, <2>2 DEF RowCount
  <2>4. \A i \in 1 .. RowCount' : ~CommittedAt(i)'
    BY <1>6, <2>2, <2>3 DEF CommittedAt
  <2> QED  BY <2>4 DEF Visible
<1>7. CASE CloseEnd
  <2>1. state = "closing" /\ state' = "down" /\ UNCHANGED <<acked, excused>> /\ MemoryGone /\ file' = file
    BY <1>7 DEF CloseEnd
  <2>2. Visible' = {}
    BY <1>6, <2>1
  <2>3. Durable!Shutdown
    BY <2>1, <2>2 DEF Durable!Shutdown
  <2> QED  BY <2>3 DEF Durable!Next
<1>8. CASE Crash
  <2>1. state # "down" /\ state' = "down" /\ UNCHANGED acked /\ MemoryGone /\ file' = file
    BY <1>8 DEF Crash
  <2>2. Visible' = {}
    BY <1>6, <2>1
  <2>3. Durable!Crash
    BY <1>2, <2>1, <2>2 DEF Durable!Crash
  <2> QED  BY <2>3 DEF Durable!Next
<1>9. ASSUME NEW target \in Targets, Open(target) PROVE Durable!Next
  <2>1. state = "down" /\ state' = "open" /\ UNCHANGED acked
    BY <1>9 DEF Open
  <2>2. \A a \in acked : a.row \in excused' \/ Copies(a.row)' # {}
    BY <1>1, <2>1 DEF AckInv, AckSafe
  <2>3. \A row : Copies(row)' # {} => row \in Visible'
    BY DEF Copies, Visible
  <2>4. Durable!Start
    BY <1>2, <2>1, <2>2, <2>3 DEF Durable!Start
  <2> QED  BY <2>4 DEF Durable!Next
<1>10. CASE UNCHANGED vars
  <2>1. UNCHANGED <<state, acked, excused, file, pending, index>>
    BY <1>10 DEF vars, diskVars, memVars, pastVars
  <2>2. Visible' = Visible
    BY <2>1 DEF Visible, RowAt, RowCount, CommittedAt
  <2> QED  BY <2>1, <2>2 DEF Durable!vars
<1>11. \/ state # "down" /\ state' # "down"
       \/ Crash \/ CloseEnd \/ (\E target \in Targets : Open(target)) \/ UNCHANGED vars
  BY DEF Next, Begin, Insert, LogCommit, FinishCommit, Rollback, AppendRecord, Flush, CkptBegin, CkptSave,
         CkptWrite, CkptMetaOpen, CkptMeta, CloseBegin
<1> QED  BY <1>3, <1>4, <1>5, <1>7, <1>8, <1>9, <1>10, <1>11

\* Pages, saved index, log, checkpoints, crashes and replay together implement
\* the promise of DurableRows: what is visible never vanishes while a process
\* runs, becomes visible only by its own acknowledgement and a COMMIT as a
\* whole, and is there again after a restart unless it is excused; a shutdown
\* excuses nothing.
THEOREM RecoveryRefinesDurableRows == Spec => RefinesDurableRows
<1>1. Init => FreshInv
  BY DEF Init, FreshInv
<1>2. DurableParts /\ FreshInv /\ [Next]_vars => FreshInv'
  <2> SUFFICES ASSUME DurableParts, FreshInv, [Next]_vars PROVE FreshInv'
    OBVIOUS
  <2>1. DurableParts'
    BY DurableStep
  <2> QED  BY <2>1, FreshStep DEF DurableParts
<1>3. Init => Durable!Init
  <2> SUFFICES ASSUME Init PROVE Durable!Init
    OBVIOUS
  <2>1. file = <<>> /\ pending = <<>> /\ state = "open" /\ acked = {} /\ excused = {}
    BY DEF Init
  <2>2. RowCount = 0
    <3>1. Len(file) = 0 /\ Len(pending) = 0
      BY <2>1
    <3> QED  BY <3>1 DEF RowCount
  <2>3. 1 .. RowCount = {}
    BY <2>2
  <2>4. Visible = {}
    BY <2>3 DEF Visible
  <2> QED  BY <2>1, <2>4 DEF Durable!Init
<1>4. DurableParts /\ FreshInv /\ [Next]_vars => [Durable!Next]_(Durable!vars)
  BY DurableRowsStep
<1> QED  BY <1>1, <1>2, <1>3, <1>4, DurableInvariant, PTL DEF Spec, RefinesDurableRows, Durable!Spec
===============================================================================
