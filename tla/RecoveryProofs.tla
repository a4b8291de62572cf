---------------------------- MODULE RecoveryProofs ----------------------------
(***************************************************************************)
(* Proofs about module Recovery, for any number of sessions, records,      *)
(* transactions, checkpoints, crashes and restarts.                        *)
(***************************************************************************)
EXTENDS Recovery, ExtremaLemmas, FiniteSetTheorems, SequenceTheorems

-----------------------------------------------------------------------------
(* The inductive invariant.                                                *)

\* Saved timestamps fit their field, LSNs are bounded by the number of
\* records and page numbers by the number of rows, so that the maxima of
\* Database::open exist; a shutdown has still a restart to go.
BoundInv ==
    /\ \A i \in DOMAIN vfile.entries : vfile.entries[i] \in Ts
    /\ \A i \in DOMAIN file : file[i].page <= i
    /\ \A i \in DOMAIN log : log[i].lsn <= written
    /\ \A i \in DOMAIN buf : buf[i].lsn <= written
    /\ nextLsn <= written + 1
    /\ state = "closing" => restarts < MaxRestarts

\* Only an open database has sessions.
SessionsInv ==
    state # "open" => \A s \in Sessions : pc[s] = "out" /\ ws[s] = {}

\* A transaction's write set names rows of its own; without a transaction
\* there is neither a write set nor an id.
OwnInv ==
    \A s \in Sessions :
        /\ pc[s] = "out" => ws[s] = {} /\ tx[s] = 0
        /\ \A i \in ws[s] : RowAt(i).tx = tx[s] /\ RowAt(i).proc = restarts
        /\ pc[s] = "commit" => <<restarts, tx[s]>> \in wonTx

\* A commit record is one of a transaction that committed.
WonInv ==
    /\ \A i \in DOMAIN log : log[i].type = "commit" => <<log[i].proc, log[i].tx>> \in wonTx
    /\ \A i \in DOMAIN buf : buf[i].type = "commit" => <<buf[i].proc, buf[i].tx>> \in wonTx

\* A row that may be visible: it was inserted outside a transaction, or one
\* with its id has committed.
Won(row, won) == row.tx = 0 \/ \E w \in won : w[2] = row.tx

\* What is saved, indexed and pending as committed may be visible.
SeenInv ==
    ~rebuilt =>
        /\ \A i \in DOMAIN vfile.entries : Committed(vfile.entries[i]) => Won(file[i].row, wonTx)
        /\ \A i \in DOMAIN index : Committed(index[i]) => Won(file[i].row, wonTx)
        /\ \A j \in DOMAIN pending : Committed(pending[j].ts) => Won(pending[j].row, wonTx)

\* The clock does not come round, and what is indexed or about to be is behind
\* it.
ClockInv ==
    state # "down" /\ ~broken =>
        /\ clock < kTxIdFlag + written
        /\ \A s \in Sessions : pc[s] = "commit" => cts[s] <= clock
        /\ \A i \in DOMAIN index : Committed(index[i]) => index[i] <= clock \/ i \in replayed
        /\ \A j \in DOMAIN pending :
              Committed(pending[j].ts) => pending[j].ts <= clock \/ Len(file) + j \in replayed

-----------------------------------------------------------------------------
(* Numbers and sets.                                                       *)

\* Timestamps are computed modulo a number that is not zero.
LEMMA Spans ==
    /\ kTxIdFlag \in Nat \ {0} /\ TsSpan \in Nat \ {0} /\ TsSpan = 2 * kTxIdFlag
    /\ MaxTx \in Nat /\ MaxRecords \in Nat /\ MaxRestarts \in Nat /\ MaxCkpts \in Nat
    /\ MaxTx < kTxIdFlag /\ MaxRecords <= kTxIdFlag /\ MaxRecords + MaxRestarts < kTxIdFlag
BY RecoveryAssumption

\* What % gives.
LEMMA ModEffect ==
    ASSUME NEW a \in Nat, NEW n \in Nat \ {0}
    PROVE  a % n \in 0 .. n - 1 /\ (a < n => a % n = a)
OBVIOUS

\* The timestamps an action writes fit their field; marks and the timestamp of
\* an aborted row carry the flag.
LEMMA Timestamps ==
    ASSUME TypeOK
    PROVE  /\ Ts = 0 .. TsSpan - 1 /\ 0 \in Ts /\ Tick(clock) \in Ts
           /\ AbortedTs \in Ts /\ ~Committed(AbortedTs)
           /\ \A y \in 0 .. MaxTx : Mark(y) \in Ts /\ ~Committed(Mark(y))
<1>1. Ts = 0 .. TsSpan - 1
  BY DEF Ts
<1>2. clock \in Nat
  BY <1>1 DEF TypeOK
<1>3. Tick(clock) \in Ts
  BY <1>1, <1>2, Spans, ModEffect DEF Tick
<1> QED  BY <1>1, <1>3, Spans DEF AbortedTs, Mark, Committed

\* The greatest of a bounded set.
LEMMA GreatestEffect ==
    ASSUME NEW S \in SUBSET Nat, NEW b \in Nat, \A n \in S : n <= b
    PROVE  /\ Greatest(S) \in S \cup {0} /\ Greatest(S) \in Nat
           /\ \A n \in S : n <= Greatest(S)
           /\ Greatest(S) <= b
<1> DEFINE T == S \cup {0}
<1>1. T \in SUBSET Nat /\ T # {} /\ \A n \in T : n <= b
  OBVIOUS
<1>2. \E m \in T : \A n \in T : n <= m
  BY <1>1, GreatestExists
<1>3. \E m \in T : \A n \in S : n <= m
  BY <1>2
<1>4. Greatest(S) \in T /\ \A n \in S : n <= Greatest(S)
  BY <1>3 DEF Greatest
<1> QED  BY <1>1, <1>4

\* A finite set of naturals has a first, a second, ... element.
LEMMA NthExists ==
    ASSUME NEW S \in SUBSET Nat, NEW b \in Nat, \A n \in S : n <= b,
           NEW k \in Nat \ {0}, k <= Cardinality(S)
    PROVE  \E i \in S : Cardinality({j \in S : j <= i}) = k
<1> DEFINE Upto(i) == {j \in S : j <= i}
           T == {i \in S : Cardinality(Upto(i)) >= k}
<1>1. IsFiniteSet(S) /\ Cardinality(S) \in Nat
  BY FS_BoundedSetOfNaturals, FS_CardinalityType
<1>2. \A i \in Nat : IsFiniteSet(Upto(i)) /\ Cardinality(Upto(i)) \in Nat
  <2>1. \A i \in Nat : Upto(i) \in SUBSET S
    OBVIOUS
  <2> HIDE DEF Upto
  <2> QED  BY <1>1, <2>1, FS_Subset, FS_CardinalityType
<1>3. S # {}
  BY FS_EmptySet
<1>4. PICK g \in S : \A n \in S : n <= g
  BY <1>3, GreatestExists
<1>5. Upto(g) = S
  BY <1>4
<1>6. g \in T
  BY <1>1, <1>5
<1>7. PICK m \in T : \A n \in T : m <= n
  BY <1>6, LeastExists
<1>8. m \in S /\ m \in Nat /\ Cardinality(Upto(m)) >= k
  BY <1>7
<1>9. ASSUME Cardinality(Upto(m)) > k PROVE FALSE
  <2> DEFINE R == Upto(m) \ {m}
  <2>1. m \in Upto(m)
    BY <1>8
  <2>2. IsFiniteSet(R) /\ Cardinality(R) = Cardinality(Upto(m)) - 1
    <3> HIDE DEF Upto
    <3> QED  BY <1>2, <1>8, <2>1, FS_RemoveElement
  <2>3. Cardinality(R) \in Nat /\ Cardinality(R) >= k
    BY <1>2, <1>8, <1>9, <2>2, SMTT(30)
  <2>4. R # {}
    <3> HIDE DEF R
    <3> QED  BY <2>2, <2>3, FS_EmptySet
  <2>5. R \in SUBSET Nat /\ \A n \in R : n <= b
    OBVIOUS
  <2>6. PICK p \in R : \A n \in R : n <= p
    <3> HIDE DEF R
    <3> QED  BY <2>4, <2>5, GreatestExists
  <2>7. p \in S /\ p < m
    BY <1>8, <2>6
  <2>8. Upto(p) = R
    <3>1. \A j \in S : j <= p => j \in R
      BY <1>8, <2>7
    <3>2. \A j \in R : j \in S /\ j <= p
      BY <2>6
    <3> HIDE DEF R
    <3> QED  BY <3>1, <3>2
  <2>9. p \in T
    BY <2>3, <2>7, <2>8
  <2> QED  BY <1>7, <1>8, <2>7, <2>9
<1>10. Cardinality(Upto(m)) = k
  <2>1. Cardinality(Upto(m)) \in Nat
    BY <1>2, <1>8
  <2> HIDE DEF Upto
  <2> QED  BY <1>8, <1>9, <2>1
<1> QED  BY <1>8, <1>10

-----------------------------------------------------------------------------
(* Rows.                                                                   *)

FileRow == [row : Row, page : Nat]
PendingRow == [row : Row, ts : Ts]

\* A function on 1 .. n is a sequence.
LEMMA FunIsSeq ==
    ASSUME NEW S, NEW n \in Nat, NEW f \in [1 .. n -> S]
    PROVE  f \in Seq(S) /\ Len(f) = n /\ DOMAIN f = 1 .. n
<1>1. f \in Seq(S)
  BY SeqDef
<1>2. DOMAIN f = 1 .. Len(f) /\ Len(f) \in Nat
  BY <1>1, LenProperties
<1>3. Len(f) = n
  BY <1>2
<1> QED  BY <1>1, <1>3

\* The sequences of a well-typed state.
LEMMA SeqTypes ==
    ASSUME TypeOK
    PROVE  /\ file \in Seq(FileRow) /\ DOMAIN file = 1 .. Len(file) /\ Len(file) \in Nat
           /\ pending \in Seq(PendingRow) /\ DOMAIN pending = 1 .. Len(pending) /\ Len(pending) \in Nat
           /\ log \in Seq(Record) /\ DOMAIN log = 1 .. Len(log) /\ Len(log) \in Nat
           /\ buf \in Seq(Record) /\ DOMAIN buf = 1 .. Len(buf) /\ Len(buf) \in Nat
           /\ \A i \in DOMAIN file : file[i].row \in Row /\ file[i].page \in Nat
           /\ \A i \in DOMAIN pending : pending[i].row \in Row /\ pending[i].ts \in Ts
           /\ \A i \in DOMAIN log : log[i] \in Record
           /\ \A i \in DOMAIN buf : buf[i] \in Record
           /\ RowCount \in Nat /\ RowCount = Len(file) + Len(pending)
<1>1. file \in Seq(FileRow) /\ pending \in Seq(PendingRow) /\ log \in Seq(Record) /\ buf \in Seq(Record)
  BY DEF TypeOK, FileRow, PendingRow
<1>2. /\ DOMAIN file = 1 .. Len(file) /\ Len(file) \in Nat
      /\ DOMAIN pending = 1 .. Len(pending) /\ Len(pending) \in Nat
      /\ DOMAIN log = 1 .. Len(log) /\ Len(log) \in Nat
      /\ DOMAIN buf = 1 .. Len(buf) /\ Len(buf) \in Nat
  BY <1>1, LenProperties
<1>3. /\ \A i \in DOMAIN file : file[i] \in FileRow
      /\ \A i \in DOMAIN pending : pending[i] \in PendingRow
      /\ \A i \in DOMAIN log : log[i] \in Record
      /\ \A i \in DOMAIN buf : buf[i] \in Record
  BY <1>1, <1>2, ElementOfSeq
<1>4. /\ \A i \in DOMAIN file : file[i].row \in Row /\ file[i].page \in Nat
      /\ \A i \in DOMAIN pending : pending[i].row \in Row /\ pending[i].ts \in Ts
  BY <1>3 DEF FileRow, PendingRow
<1> QED  BY <1>1, <1>2, <1>3, <1>4 DEF RowCount

\* Every row id stands for a row.
LEMMA RowAtType ==
    ASSUME TypeOK, NEW i \in 1 .. RowCount PROVE RowAt(i) \in Row
<1>1. CASE i <= Len(file)
  <2>1. i \in DOMAIN file
    BY <1>1, SeqTypes
  <2> QED  BY <1>1, <2>1, SeqTypes DEF RowAt
<1>2. CASE ~(i <= Len(file))
  <2>1. i - Len(file) \in DOMAIN pending
    BY <1>2, SeqTypes
  <2> QED  BY <1>2, <2>1, SeqTypes DEF RowAt
<1> QED  BY <1>1, <1>2

\* The rows that are in the file stay where they are, and the pending rows
\* keep their ids.
KeepsRows ==
    /\ RowCount' \in Nat /\ RowCount <= RowCount'
    /\ \A i \in 1 .. RowCount : RowAt(i)' = RowAt(i)
    /\ \A i \in DOMAIN file : i \in DOMAIN file' /\ file'[i].row = file[i].row

\* The number of pages, which numbers the next one.
LEMMA PageCountEffect ==
    ASSUME TypeOK, BoundInv
    PROVE  PageCount \in Nat /\ PageCount <= Len(file)
<1>1. \A i \in DOMAIN file : i \in 1 .. Len(file) /\ file[i].page \in Nat /\ file[i].page <= i
  BY SeqTypes DEF BoundInv
<1>2. \A i \in DOMAIN file : file[i].page <= Len(file)
  BY <1>1, SeqTypes
<1> DEFINE S == {file[i].page : i \in DOMAIN file}
<1>3. S \in SUBSET Nat /\ \A n \in S : n <= Len(file)
  BY <1>1, <1>2
<1>4. PageCount = Greatest(S) /\ Len(file) \in Nat
  BY SeqTypes DEF PageCount
<1> HIDE DEF S
<1> QED  BY <1>3, <1>4, GreatestEffect

\* Flushing moves the pending rows to the end of the file and their timestamps
\* into the index.
LEMMA FlushEffect ==
    ASSUME TypeOK, BoundInv, FlushPending
    PROVE  /\ file' \in Seq(FileRow) /\ Len(file') = RowCount /\ DOMAIN file' = 1 .. RowCount
           /\ \A i \in DOMAIN file : file'[i] = file[i]
           /\ \A j \in DOMAIN pending : /\ file'[Len(file) + j].row = pending[j].row
                                        /\ file'[Len(file) + j].page <= Len(file) + j
           /\ pending' = <<>> /\ RowCount' = RowCount /\ KeepsRows
           /\ DOMAIN index' = DOMAIN index \cup (Len(file) + 1 .. RowCount)
           /\ \A i \in DOMAIN index : index'[i] = index[i]
           /\ \A j \in DOMAIN pending : index'[Len(file) + j] = pending[j].ts
           /\ \A j \in DOMAIN pending : file'[Len(file) + j].page = PageCount + 1
<1> DEFINE new == [j \in DOMAIN pending |-> [row |-> pending[j].row, page |-> PageCount + 1]]
<1>1. PageCount \in Nat /\ PageCount <= Len(file)
  BY PageCountEffect
<1>2. new \in [1 .. Len(pending) -> FileRow]
  BY <1>1, SeqTypes DEF FileRow
<1>3. new \in Seq(FileRow) /\ Len(new) = Len(pending)
  BY <1>2, SeqTypes, FunIsSeq
<1>4. file' = file \o new /\ pending' = <<>>
  BY DEF FlushPending
<1>5. \A j \in DOMAIN pending : new[j].row = pending[j].row /\ new[j].page = PageCount + 1
  OBVIOUS
<1> HIDE DEF new
<1>6. /\ file' \in Seq(FileRow) /\ Len(file') = RowCount
      /\ \A i \in 1 .. Len(file) + Len(pending) : file'[i] =
                     IF i <= Len(file) THEN file[i] ELSE new[i - Len(file)]
  <2>1. file \in Seq(FileRow) /\ RowCount = Len(file) + Len(pending)
    BY SeqTypes
  <2>2. /\ file \o new \in Seq(FileRow) /\ Len(file \o new) = Len(file) + Len(new)
        /\ \A i \in 1 .. Len(file) + Len(new) : (file \o new)[i] =
                     IF i <= Len(file) THEN file[i] ELSE new[i - Len(file)]
    BY <1>3, <2>1, ConcatProperties
  <2> QED  BY <1>3, <1>4, <2>1, <2>2
<1>7. DOMAIN file' = 1 .. RowCount
  BY <1>6, LenProperties
<1>8. \A i \in DOMAIN file : file'[i] = file[i] /\ i \in DOMAIN file'
  BY <1>6, <1>7, SeqTypes
<1>9. \A j \in DOMAIN pending : Len(file) + j \in 1 .. RowCount /\ file'[Len(file) + j] = new[j]
  <2>1. ASSUME NEW j \in DOMAIN pending
        PROVE  Len(file) + j \in 1 .. RowCount /\ (Len(file) + j) - Len(file) = j /\ ~(Len(file) + j <= Len(file))
    BY SeqTypes
  <2> QED  BY <1>6, <2>1, SeqTypes
<1>10. \A j \in DOMAIN pending : /\ file'[Len(file) + j].row = pending[j].row
                                 /\ file'[Len(file) + j].page <= Len(file) + j
  BY <1>1, <1>5, <1>9, SeqTypes
<1>17. \A j \in DOMAIN pending : file'[Len(file) + j].page = PageCount + 1
  BY <1>5, <1>9
<1>11. RowCount' = RowCount
  BY <1>4, <1>6, SeqTypes DEF RowCount
<1>12. \A i \in 1 .. RowCount : RowAt(i)' = RowAt(i)
  <2> SUFFICES ASSUME NEW i \in 1 .. RowCount PROVE RowAt(i)' = RowAt(i)
    OBVIOUS
  <2>1. RowAt(i)' = file'[i].row
    BY <1>6, SeqTypes DEF RowAt
  <2>2. CASE i <= Len(file)
    <3>1. i \in DOMAIN file
      BY <2>2, SeqTypes
    <3> QED  BY <1>8, <2>1, <2>2, <3>1 DEF RowAt
  <2>3. CASE ~(i <= Len(file))
    <3>1. i - Len(file) \in DOMAIN pending /\ i = Len(file) + (i - Len(file))
      BY <2>3, SeqTypes
    <3>2. file'[i].row = pending[i - Len(file)].row
      BY <1>10, <3>1
    <3> QED  BY <2>1, <2>3, <3>2 DEF RowAt
  <2> QED  BY <2>2, <2>3
<1>13. KeepsRows
  BY <1>8, <1>11, <1>12, SeqTypes DEF KeepsRows
<1>14. index' = [i \in DOMAIN index \cup (Len(file) + 1 .. RowCount) |->
                    IF i \in DOMAIN index THEN index[i] ELSE pending[i - Len(file)].ts]
  BY DEF FlushPending
<1>15. /\ DOMAIN index' = DOMAIN index \cup (Len(file) + 1 .. RowCount)
       /\ \A i \in DOMAIN index : index'[i] = index[i]
  BY <1>14
<1>16. ASSUME NEW j \in DOMAIN pending PROVE index'[Len(file) + j] = pending[j].ts
  <2>1. PICK i : i = Len(file) + j
    OBVIOUS
  <2>2. i \in Len(file) + 1 .. RowCount /\ i - Len(file) = j /\ i \notin 1 .. Len(file)
    BY <2>1, SeqTypes
  <2>3. i \notin DOMAIN index
    BY <2>2, SeqTypes DEF TypeOK
  <2>4. index'[i] = pending[j].ts
    BY <1>14, <2>2, <2>3
  <2> QED  BY <2>1, <2>4
<1> QED  BY <1>4, <1>6, <1>7, <1>8, <1>10, <1>11, <1>13, <1>15, <1>16, <1>17

\* commit_rows changes timestamps only, to ts, and only of the rows it is given.
LEMMA StampEffect ==
    ASSUME TypeOK, NEW rids, NEW x, NEW ts \in Ts, Stamp(rids, x, ts), file' = file
    PROVE  /\ DOMAIN index' = DOMAIN index
           /\ \A i \in DOMAIN index : index'[i] = index[i] \/ (index'[i] = ts /\ i \in rids)
           /\ pending' \in Seq(PendingRow) /\ DOMAIN pending' = DOMAIN pending
           /\ \A j \in DOMAIN pending :
                 /\ pending'[j].row = pending[j].row
                 /\ \/ pending'[j].ts = pending[j].ts
                    \/ pending'[j].ts = ts /\ Len(file) + j \in rids
           /\ RowCount' = RowCount /\ KeepsRows
<1>1. /\ DOMAIN index' = DOMAIN index
      /\ \A i \in DOMAIN index : index'[i] = index[i] \/ (index'[i] = ts /\ i \in rids)
  BY DEF Stamp
<1>2. pending' = [j \in DOMAIN pending |->
                    IF Len(file) + j \in rids /\ pending[j].ts = Mark(x)
                    THEN [pending[j] EXCEPT !.ts = ts] ELSE pending[j]]
  BY DEF Stamp
<1>3. \A j \in DOMAIN pending : pending[j] \in PendingRow
  BY SeqTypes, ElementOfSeq
<1>4. \A j \in DOMAIN pending :
         /\ pending'[j] \in PendingRow /\ pending'[j].row = pending[j].row
         /\ \/ pending'[j].ts = pending[j].ts
            \/ pending'[j].ts = ts /\ Len(file) + j \in rids
  BY <1>2, <1>3 DEF PendingRow
<1>5. pending' \in [1 .. Len(pending) -> PendingRow]
  BY <1>2, <1>4, SeqTypes
<1>6. pending' \in Seq(PendingRow) /\ Len(pending') = Len(pending) /\ DOMAIN pending' = DOMAIN pending
  BY <1>5, SeqTypes, FunIsSeq
<1>7. RowCount' = RowCount
  BY <1>6 DEF RowCount
<1>8. ASSUME NEW i \in 1 .. RowCount PROVE RowAt(i)' = RowAt(i)
  <2>1. CASE i <= Len(file)
    BY <2>1 DEF RowAt
  <2>2. CASE ~(i <= Len(file))
    <3>1. i - Len(file) \in DOMAIN pending
      BY <2>2, SeqTypes
    <3> QED  BY <1>4, <2>2, <3>1 DEF RowAt
  <2> QED  BY <2>1, <2>2
<1> QED  BY <1>1, <1>4, <1>6, <1>7, <1>8, SeqTypes DEF KeepsRows

\* A row joins the active batch under the next id.
LEMMA PendEffect ==
    ASSUME TypeOK, NEW p \in PendingRow, pending' = Append(pending, p), file' = file
    PROVE  /\ pending' \in Seq(PendingRow) /\ DOMAIN pending' = 1 .. Len(pending) + 1
           /\ \A j \in DOMAIN pending : pending'[j] = pending[j]
           /\ pending'[Len(pending) + 1] = p
           /\ RowCount' = RowCount + 1 /\ KeepsRows
           /\ \A i : i = RowCount + 1 => RowAt(i)' = p.row
<1>1. /\ pending' \in Seq(PendingRow) /\ Len(pending') = Len(pending) + 1
      /\ DOMAIN pending' = 1 .. Len(pending) + 1
      /\ \A j \in 1 .. Len(pending) : pending'[j] = pending[j]
      /\ pending'[Len(pending) + 1] = p
  BY SeqTypes, AppendProperties, LenProperties
<1>2. RowCount' = RowCount + 1
  BY <1>1, SeqTypes DEF RowCount
<1>3. ASSUME NEW i \in 1 .. RowCount PROVE RowAt(i)' = RowAt(i)
  <2>1. CASE i <= Len(file)
    BY <2>1 DEF RowAt
  <2>2. CASE ~(i <= Len(file))
    <3>1. i - Len(file) \in DOMAIN pending
      BY <2>2, SeqTypes
    <3> QED  BY <1>1, <2>2, <3>1, SeqTypes DEF RowAt
  <2> QED  BY <2>1, <2>2
<1>4. ASSUME NEW i, i = RowCount + 1 PROVE RowAt(i)' = p.row
  <2>1. ~(i <= Len(file)) /\ i - Len(file) = Len(pending) + 1
    BY <1>4, SeqTypes
  <2> QED  BY <1>1, <2>1 DEF RowAt
<1>5. KeepsRows
  BY <1>2, <1>3, SeqTypes DEF KeepsRows
<1>6. \A j \in DOMAIN pending : pending'[j] = pending[j]
  BY <1>1, SeqTypes
<1> QED  BY <1>1, <1>2, <1>4, <1>5, <1>6

-----------------------------------------------------------------------------
(* The log.                                                                *)

\* A sequence of log records all of which satisfy the invariant's clauses.
GoodLog(q) ==
    /\ q \in Seq(Record)
    /\ \A i \in DOMAIN q : /\ q[i].lsn <= written
                           /\ q[i].type = "commit" => <<q[i].proc, q[i].tx>> \in wonTx

\* The log and its buffer are such sequences.
LEMMA LogIsGood ==
    ASSUME TypeOK, BoundInv, WonInv PROVE GoodLog(log) /\ GoodLog(buf)
BY SeqTypes DEF BoundInv, WonInv, GoodLog

\* A flush, whole or in part, gives one.
LEMMA GoodConcat ==
    ASSUME NEW p, NEW q, GoodLog(p), GoodLog(q) PROVE GoodLog(p \o q)
<1>1. /\ p \o q \in Seq(Record) /\ Len(p \o q) = Len(p) + Len(q)
      /\ \A i \in 1 .. Len(p) + Len(q) : (p \o q)[i] = IF i <= Len(p) THEN p[i] ELSE q[i - Len(p)]
  BY ConcatProperties DEF GoodLog
<1>2. /\ DOMAIN (p \o q) = 1 .. Len(p) + Len(q) /\ Len(p) \in Nat /\ Len(q) \in Nat
      /\ DOMAIN p = 1 .. Len(p) /\ DOMAIN q = 1 .. Len(q)
  BY <1>1, LenProperties DEF GoodLog
<1>3. ASSUME NEW i \in DOMAIN (p \o q)
      PROVE  \/ \E j \in DOMAIN p : (p \o q)[i] = p[j]
             \/ \E j \in DOMAIN q : (p \o q)[i] = q[j]
  <2>1. CASE i <= Len(p)
    BY <1>1, <1>2, <2>1
  <2>2. CASE ~(i <= Len(p))
    <3>1. i - Len(p) \in DOMAIN q
      BY <1>2, <2>2
    <3> QED  BY <1>1, <1>2, <2>2, <3>1
  <2> QED  BY <2>1, <2>2
<1> QED  BY <1>1, <1>3 DEF GoodLog

\* So does a prefix.
LEMMA GoodPrefix ==
    ASSUME NEW q, GoodLog(q), NEW k \in 0 .. Len(q) PROVE GoodLog(SubSeq(q, 1, k))
<1>1. DOMAIN q = 1 .. Len(q) /\ Len(q) \in Nat
  BY LenProperties DEF GoodLog
<1>2. \A i \in 1 .. k : q[i] \in Record /\ i \in DOMAIN q
  BY <1>1, ElementOfSeq DEF GoodLog
<1>3. /\ SubSeq(q, 1, k) \in Seq(Record) /\ Len(SubSeq(q, 1, k)) = k
      /\ \A i \in 1 .. k : SubSeq(q, 1, k)[i] = q[i]
  <2>1. /\ SubSeq(q, 1, k) \in Seq(Record)
        /\ Len(SubSeq(q, 1, k)) = IF 1 <= k THEN k - 1 + 1 ELSE 0
        /\ \A i \in 1 .. k - 1 + 1 : SubSeq(q, 1, k)[i] = q[1 + i - 1]
    BY <1>2, SubSeqProperties
  <2>2. k - 1 + 1 = k /\ (IF 1 <= k THEN k - 1 + 1 ELSE 0) = k /\ \A i \in 1 .. k : 1 + i - 1 = i
    BY <1>1
  <2> QED  BY <2>1, <2>2
<1>4. DOMAIN SubSeq(q, 1, k) = 1 .. k
  BY <1>3, LenProperties
<1> QED  BY <1>2, <1>3, <1>4 DEF GoodLog

\* append_record numbers the record and leaves it in the buffer.
LEMMA AppendEffect ==
    ASSUME TypeOK, BoundInv, WonInv, NEW x \in Nat, NEW ts \in Ts,
           NEW type \in {"begin", "insert", "commit", "rollback"}, AppendRecord(x, type, ts),
           wonTx \subseteq wonTx', type = "commit" => <<restarts, x>> \in wonTx'
    PROVE  /\ state = "open" /\ written' = written + 1 /\ nextLsn' = nextLsn + 1
           /\ written' \in 0 .. MaxRecords /\ nextLsn' \in Nat \ {0} /\ nextLsn' <= written' + 1
           /\ GoodLog(buf)' /\ (UNCHANGED log => GoodLog(log)')
           /\ Rec(x, type, ts) \in Record
<1>1. /\ state = "open" /\ written' = written + 1 /\ nextLsn' = nextLsn + 1
      /\ written < MaxRecords /\ buf' = Append(buf, Rec(x, type, ts))
  BY DEF AppendRecord
<1>2. written \in Nat /\ nextLsn \in Nat \ {0} /\ nextLsn <= written + 1 /\ restarts \in Nat
  BY Spans DEF TypeOK, BoundInv
<1>3. PICK r : r = Rec(x, type, ts)
  OBVIOUS
<1>4. r \in Record /\ r.lsn = nextLsn /\ r.type = type /\ r.proc = restarts /\ r.tx = x
  BY <1>2, <1>3 DEF Rec, Record
<1>5. written' \in 0 .. MaxRecords /\ nextLsn' \in Nat \ {0} /\ nextLsn' <= written' + 1
  BY <1>1, <1>2, Spans
<1>6. GoodLog(log) /\ GoodLog(buf)
  BY LogIsGood
<1>7. ASSUME NEW q \in Record, q.lsn <= written PROVE q.lsn <= written'
  BY <1>1, <1>2, <1>7 DEF Record
<1>8. UNCHANGED log => GoodLog(log)'
  <2>1. \A i \in DOMAIN log : log[i] \in Record
    BY SeqTypes
  <2> QED  BY <1>6, <1>7, <2>1 DEF GoodLog
<1>9. GoodLog(buf)'
  <2>1. /\ buf' \in Seq(Record) /\ Len(buf') = Len(buf) + 1
        /\ \A i \in 1 .. Len(buf) : buf'[i] = buf[i]
        /\ buf'[Len(buf) + 1] = r
    BY <1>1, <1>3, <1>4, SeqTypes, AppendProperties
  <2>2. DOMAIN buf' = 1 .. Len(buf) + 1
    BY <2>1, LenProperties
  <2>3. ASSUME NEW i \in DOMAIN buf, buf'[i] = buf[i]
        PROVE  /\ buf'[i].lsn <= written'
               /\ buf'[i].type = "commit" => <<buf'[i].proc, buf'[i].tx>> \in wonTx'
    <3>1. buf[i] \in Record /\ buf[i].lsn <= written
      BY <1>6, SeqTypes DEF GoodLog
    <3> QED  BY <1>6, <1>7, <2>3, <3>1 DEF GoodLog
  <2>4. /\ r.lsn <= written'
        /\ r.type = "commit" => <<r.proc, r.tx>> \in wonTx'
    BY <1>1, <1>2, <1>4
  <2>5. ASSUME NEW i \in DOMAIN buf'
        PROVE  /\ buf'[i].lsn <= written'
               /\ buf'[i].type = "commit" => <<buf'[i].proc, buf'[i].tx>> \in wonTx'
    <3>1. i \in DOMAIN buf \/ i = Len(buf) + 1
      BY <2>2, SeqTypes
    <3>2. CASE i \in DOMAIN buf
      BY <2>1, <2>3, <3>2, SeqTypes
    <3>3. CASE i = Len(buf) + 1
      BY <2>1, <2>4, <3>3
    <3> QED  BY <3>1, <3>2, <3>3
  <2> QED  BY <2>1, <2>5 DEF GoodLog
<1> QED  BY <1>1, <1>3, <1>4, <1>5, <1>8, <1>9

-----------------------------------------------------------------------------
(* Database::open.                                                         *)

\* Pass 1 finds a transaction by its commit record.
LEMMA CommittedTxnsEffect ==
    ASSUME TypeOK, NEW target, NEW x \in DOMAIN CommittedTxns(target)
    PROVE  /\ CommittedTxns(target)[x] \in Ts
           /\ \E i \in DOMAIN log : log[i].type = "commit" /\ log[i].tx = x
<1> DEFINE commits == {i \in Delivered(log, target) : log[i].type = "commit"}
           mine == {i \in commits : log[i].tx = x}
<1>1. CommittedTxns(target) = [y \in {log[i].tx : i \in commits} |->
                                  log[Greatest({i \in commits : log[i].tx = y})].ts]
  BY DEF CommittedTxns
<1>2. PICK i \in commits : log[i].tx = x
  BY <1>1
<1>3. CommittedTxns(target)[x] = log[Greatest(mine)].ts
  BY <1>1
<1>4. commits \subseteq DOMAIN log /\ i \in mine
  BY <1>2 DEF Delivered
<1>5. mine \in SUBSET Nat /\ Len(log) \in Nat /\ \A n \in mine : n >= 1 /\ n <= Len(log)
  BY <1>4, SeqTypes
<1>6. Greatest(mine) \in mine
  <2> HIDE DEF mine, commits
  <2>1. Greatest(mine) \in mine \cup {0} /\ i <= Greatest(mine) /\ i >= 1 /\ i \in Nat
    BY <1>4, <1>5, GreatestEffect
  <2>2. Greatest(mine) # 0
    BY <2>1
  <2> QED  BY <2>1, <2>2
<1>7. log[Greatest(mine)] \in Record
  BY <1>4, <1>6, SeqTypes
<1>8. log[Greatest(mine)].ts \in Ts
  <2> HIDE DEF mine
  <2> QED  BY <1>7 DEF Record
<1> QED  BY <1>2, <1>3, <1>4, <1>8

\* Pass 2 gives rows of transactions with a commit record.
LEMMA ReplayEffect ==
    ASSUME TypeOK, BoundInv, WonInv, NEW target, NEW p, p = Replay(target)
    PROVE  /\ p \in Seq(PendingRow) /\ DOMAIN p = 1 .. Len(p) /\ Len(p) \in Nat
           /\ \A k \in DOMAIN p : p[k] \in PendingRow /\ Won(p[k].row, wonTx)
<1> DEFINE won == CommittedTxns(target)
           recs == log \o log
           hits == {i \in Delivered(recs, target) :
                      recs[i].type = "insert" /\ recs[i].tx \in DOMAIN won}
           at(k) == CHOOSE i \in hits : Cardinality({j \in hits : j <= i}) = k
           N == Cardinality(hits)
<1>1. p = [k \in 1 .. N |-> [row |-> RowOf(recs[at(k)]), ts |-> won[recs[at(k)].tx]]]
  BY DEF Replay
<1>2. /\ recs \in Seq(Record) /\ DOMAIN recs = 1 .. Len(recs) /\ Len(recs) \in Nat
      /\ \A i \in DOMAIN recs : recs[i] \in Record
  <2>1. recs \in Seq(Record)
    BY SeqTypes, ConcatProperties
  <2> HIDE DEF recs
  <2> QED  BY <2>1, LenProperties, ElementOfSeq
<1> HIDE DEF recs, won
<1>3. hits \subseteq DOMAIN recs
  BY DEF Delivered
<1>4. hits \in SUBSET Nat /\ \A i \in hits : i <= Len(recs)
  BY <1>2, <1>3
<1>5. \A i \in hits : recs[i] \in Record /\ recs[i].tx \in DOMAIN won
  BY <1>2, <1>3
<1> HIDE DEF hits
<1>6. N \in Nat
  BY <1>2, <1>4, FS_BoundedSetOfNaturals, FS_CardinalityType
<1>7. ASSUME NEW k \in 1 .. N PROVE at(k) \in hits
  <2>1. k \in Nat \ {0} /\ k <= N
    BY <1>6
  <2>2. \E i \in hits : Cardinality({j \in hits : j <= i}) = k
    BY <1>2, <1>4, <2>1, NthExists
  <2> QED  BY <2>2
<1>8. ASSUME NEW k \in 1 .. N PROVE p[k] \in PendingRow /\ Won(p[k].row, wonTx)
  <2>1. PICK r : r = recs[at(k)]
    OBVIOUS
  <2>2. r \in Record /\ r.tx \in DOMAIN won
    BY <1>5, <1>7, <2>1
  <2>3. p[k] = [row |-> RowOf(r), ts |-> won[r.tx]]
    BY <1>1, <2>1
  <2>4. PICK i \in DOMAIN log : log[i].type = "commit" /\ log[i].tx = r.tx
    BY <2>2, CommittedTxnsEffect DEF won
  <2>5. won[r.tx] \in Ts
    BY <2>2, CommittedTxnsEffect DEF won
  <2>6. RowOf(r) \in Row /\ RowOf(r).tx = r.tx
    BY <2>2 DEF RowOf, Row, Record
  <2>7. <<log[i].proc, r.tx>> \in wonTx
    BY <2>4 DEF WonInv
  <2>8. Won(RowOf(r), wonTx)
    BY <2>6, <2>7 DEF Won
  <2> QED  BY <2>3, <2>5, <2>6, <2>8 DEF PendingRow
<1>9. p \in [1 .. N -> PendingRow]
  <2> HIDE DEF N, at
  <2> QED  BY <1>1, <1>8
<1>10. p \in Seq(PendingRow) /\ Len(p) = N /\ DOMAIN p = 1 .. N
  BY <1>6, <1>9, FunIsSeq
<1> QED  BY <1>6, <1>8, <1>10

\* The index and the clock of a database that is opened: every timestamp in
\* the index is at most the clock.
LEMMA OpenClock ==
    ASSUME TypeOK, BoundInv, NEW target, Open(target)
    PROVE  /\ DOMAIN index' \subseteq DOMAIN file
           /\ \A i \in DOMAIN index' : index'[i] \in Ts /\ index'[i] <= clock'
           /\ clock' \in Ts
           /\ Loadable => index' = vfile.entries
<1> DEFINE entries == IF Loadable THEN vfile.entries ELSE Rebuilt
           c == IF Loadable THEN 0 ELSE PageCount % TsSpan
           tss == {entries[i] : i \in DOMAIN entries}
           max == Greatest(tss)
<1>1. index' = entries /\ clock' = RestoredClock(entries, c)
  BY DEF Open
<1>2. Ts = 0 .. TsSpan - 1 /\ TsSpan \in Nat \ {0}
  BY Spans DEF Ts
<1>3. DOMAIN entries \subseteq DOMAIN file /\ \A i \in DOMAIN entries : entries[i] \in Ts
  <2>1. CASE Loadable
    BY <2>1 DEF TypeOK, BoundInv
  <2>2. CASE ~Loadable
    <3>1. entries = [i \in DOMAIN file |-> file[i].page % TsSpan]
      BY <2>2 DEF Rebuilt
    <3>2. \A i \in DOMAIN file : file[i].page % TsSpan \in Ts
      BY <1>2, SeqTypes, ModEffect
    <3> QED  BY <3>1, <3>2
  <2> QED  BY <2>1, <2>2
<1>4. c \in Ts
  BY <1>2, PageCountEffect, ModEffect, SMTT(30)
<1>5. tss \in SUBSET Nat /\ TsSpan - 1 \in Nat /\ \A n \in tss : n <= TsSpan - 1
  BY <1>2, <1>3
<1>6. clock' = IF max > 0 THEN ((max + 1) - 1) % TsSpan ELSE c
  BY <1>1 DEF RestoredClock
<1>7. max \in Nat /\ max <= TsSpan - 1 /\ \A n \in tss : n <= max
  <2> HIDE DEF tss
  <2> QED  BY <1>5, GreatestEffect
<1>8. \A i \in DOMAIN entries : entries[i] <= max
  BY <1>7
<1> HIDE DEF max, entries, c, tss
<1>9. (max + 1) - 1 = max /\ max % TsSpan = max
  <2>1. max < TsSpan /\ (max + 1) - 1 = max
    BY <1>2, <1>7
  <2> QED  BY <1>2, <1>7, <2>1, ModEffect
<1>10. clock' \in Ts /\ max <= clock'
  <2>1. CASE max > 0
    <3>1. clock' = max
      BY <1>6, <1>9, <2>1
    <3> QED  BY <1>2, <1>7, <3>1
  <2>2. CASE ~(max > 0)
    <3>1. clock' = c /\ max = 0
      BY <1>6, <1>7, <2>2
    <3> QED  BY <1>2, <1>4, <3>1
  <2> QED  BY <2>1, <2>2
<1>11. \A i \in DOMAIN index' : index'[i] \in Ts /\ index'[i] <= clock'
  BY <1>1, <1>2, <1>3, <1>7, <1>8, <1>10
<1>12. Loadable => entries = vfile.entries
  BY DEF entries
<1> QED  BY <1>1, <1>3, <1>10, <1>11, <1>12

\* The scan for the last LSN of the log.
LEMMA ScanEffect ==
    ASSUME TypeOK, BoundInv
    PROVE  ScannedLsn \in Nat \ {0} /\ ScannedLsn <= written + 1
<1> DEFINE S == {log[i].lsn : i \in DOMAIN log}
<1>1. \A i \in DOMAIN log : log[i].lsn \in Nat /\ log[i].lsn <= written
  BY SeqTypes DEF BoundInv, Record
<1>2. S \in SUBSET Nat /\ written \in Nat /\ \A n \in S : n <= written
  BY <1>1, Spans DEF TypeOK
<1>3. ScannedLsn = 1 + Greatest(S)
  BY DEF ScannedLsn
<1> HIDE DEF S
<1>4. Greatest(S) \in Nat /\ Greatest(S) <= written
  BY <1>2, GreatestEffect
<1> QED  BY <1>2, <1>3, <1>4

-----------------------------------------------------------------------------
(* Type correctness.                                                       *)

\* The types, the bounds and what the log says of committed transactions, in
\* the parts that actions change together.
FileType ==
    /\ file \in Seq(FileRow) /\ \A i \in DOMAIN file : file[i].page <= i
    /\ vfile.st \in {"none", "torn", "ok"}
    /\ DOMAIN vfile.entries \subseteq DOMAIN file
    /\ \A i \in DOMAIN vfile.entries : vfile.entries[i] \in Ts
    /\ meta \in Nat

LogType ==
    /\ GoodLog(log) /\ GoodLog(buf)
    /\ nextLsn \in Nat \ {0} /\ nextLsn <= written + 1 /\ written \in 0 .. MaxRecords

RowsType ==
    /\ DOMAIN index \subseteq DOMAIN file /\ \A i \in DOMAIN index : index[i] \in Ts
    /\ pending \in Seq(PendingRow) /\ clock \in Ts
    /\ ws \in [Sessions -> SUBSET (1 .. RowCount)]
    /\ replayed \in SUBSET (1 .. RowCount)

SessType ==
    /\ state \in {"open", "closing", "down"} /\ nextTx \in 1 .. MaxTx + 1
    /\ pc \in [Sessions -> {"out", "in", "commit"}]
    /\ tx \in [Sessions -> 0 .. MaxTx] /\ cts \in [Sessions -> Ts]
    /\ ckpt \in {"idle", "begun", "writing", "saved", "meta"} /\ ckptLsn \in Nat
    /\ ckpts \in 0 .. MaxCkpts /\ restarts \in 0 .. MaxRestarts
    /\ state = "closing" => restarts < MaxRestarts

GhostType ==
    /\ acked \in SUBSET [row : Row, done : Nat]
    /\ wonTx \in SUBSET (Nat \X Nat)
    /\ atRisk \in SUBSET Row /\ excused \in SUBSET Row
    /\ spans \in SUBSET Sessions /\ broken \in BOOLEAN /\ rebuilt \in BOOLEAN

TypeParts == FileType /\ LogType /\ RowsType /\ SessType /\ GhostType

\* They amount to the types, the bounds and WonInv.
LEMMA PartsOfType == TypeParts <=> TypeOK /\ BoundInv /\ WonInv
<1>1. ASSUME TypeParts PROVE TypeOK /\ BoundInv /\ WonInv
  BY <1>1 DEF TypeParts, FileType, LogType, RowsType, SessType, GhostType, GoodLog, FileRow,
              PendingRow, TypeOK, BoundInv, WonInv
<1>2. ASSUME TypeOK, BoundInv, WonInv PROVE TypeParts
  <2>1. LogType
    BY <1>2, LogIsGood DEF LogType, TypeOK, BoundInv
  <2> QED  BY <1>2, <2>1 DEF TypeParts, FileType, RowsType, SessType, GhostType, FileRow,
                             PendingRow, TypeOK, BoundInv
<1> QED  BY <1>1, <1>2

\* An empty buffer is good.
LEMMA GoodEmpty == ASSUME NEW q, q = <<>> PROVE GoodLog(q)
<1>1. q \in Seq(Record) /\ DOMAIN q = {}
  OBVIOUS
<1> QED  BY <1>1 DEF GoodLog

\* The log is left alone.
LEMMA LogStays ==
    ASSUME LogType, UNCHANGED <<log, buf, nextLsn, written, wonTx>> PROVE LogType'
BY DEF LogType, GoodLog

\* The buffer reaches the file, or a part of it does.
LEMMA LogFlushed ==
    ASSUME LogType, buf' = <<>>, UNCHANGED <<written, wonTx>>, nextLsn' \in {1, nextLsn},
           log' = log \/ log' = log \o buf \/ \E k \in 0 .. Len(buf) : log' = log \o SubSeq(buf, 1, k)
    PROVE  LogType'
<1>1. GoodLog(log) /\ GoodLog(buf) /\ GoodLog(<<>>)
  BY GoodEmpty DEF LogType
<1>2. GoodLog(log')
  <2>1. CASE log' = log
    BY <1>1, <2>1
  <2>2. CASE log' = log \o buf
    BY <1>1, <2>2, GoodConcat
  <2>3. ASSUME NEW k \in 0 .. Len(buf), log' = log \o SubSeq(buf, 1, k) PROVE GoodLog(log')
    <3>1. GoodLog(SubSeq(buf, 1, k))
      BY <1>1, GoodPrefix
    <3> QED  BY <1>1, <2>3, <3>1, GoodConcat
  <2> QED  BY <2>1, <2>2, <2>3
<1>3. GoodLog(log)' /\ GoodLog(buf)'
  BY <1>1, <1>2 DEF GoodLog
<1>4. nextLsn' \in Nat \ {0} /\ nextLsn' <= written' + 1 /\ written' \in 0 .. MaxRecords
  BY Spans DEF LogType
<1> QED  BY <1>3, <1>4 DEF LogType

\* Flushing keeps rows and files well-typed.
LEMMA FlushRowsType ==
    ASSUME TypeOK, BoundInv, FlushPending, clock' \in Ts, ws' = ws \/ ws' = [s \in Sessions |-> {}],
           replayed' = replayed, meta' = meta,
           vfile' = vfile \/ vfile' = [st |-> "torn", entries |-> <<>>]
    PROVE  RowsType' /\ FileType'
<1>1. /\ file' \in Seq(FileRow) /\ Len(file') = RowCount /\ DOMAIN file' = 1 .. RowCount
      /\ \A i \in DOMAIN file : file'[i] = file[i]
      /\ \A j \in DOMAIN pending : file'[Len(file) + j].page <= Len(file) + j
      /\ pending' = <<>> /\ RowCount' = RowCount
      /\ DOMAIN index' = DOMAIN index \cup (Len(file) + 1 .. RowCount)
      /\ \A i \in DOMAIN index : index'[i] = index[i]
      /\ \A j \in DOMAIN pending : index'[Len(file) + j] = pending[j].ts
  BY FlushEffect
<1>2. \A i \in 1 .. RowCount : i \in DOMAIN file \/ \E j \in DOMAIN pending : i = Len(file) + j
  <2>1. ASSUME NEW i \in 1 .. RowCount, i \notin DOMAIN file
        PROVE  i - Len(file) \in DOMAIN pending /\ i = Len(file) + (i - Len(file))
    BY <2>1, SeqTypes
  <2> QED  BY <2>1
<1>3. \A i \in DOMAIN file' : file'[i].page <= i
  BY <1>1, <1>2 DEF BoundInv
<1>4. \A i \in DOMAIN index' : index'[i] \in Ts
  <2>1. \A i \in Len(file) + 1 .. RowCount : \E j \in DOMAIN pending : i = Len(file) + j
    <3>1. Len(file) \in Nat /\ RowCount \in Nat /\ DOMAIN file = 1 .. Len(file)
      BY SeqTypes
    <3>2. ASSUME NEW i \in Len(file) + 1 .. RowCount PROVE i \in 1 .. RowCount /\ i \notin DOMAIN file
      BY <3>1, <3>2
    <3> QED  BY <1>2, <3>2
  <2>2. ASSUME NEW i \in DOMAIN index PROVE index'[i] \in Ts
    <3>1. \A k \in DOMAIN index : index[k] \in Ts
      BY DEF TypeOK
    <3>2. \A k \in DOMAIN index : index'[k] = index[k]
      BY <1>1
    <3> QED  BY <2>2, <3>1, <3>2
  <2>3. ASSUME NEW i \in Len(file) + 1 .. RowCount PROVE index'[i] \in Ts
    <3>1. PICK j \in DOMAIN pending : i = Len(file) + j
      BY <2>1, <2>3
    <3>2. pending[j].ts \in Ts
      BY SeqTypes
    <3> QED  BY <1>1, <3>1, <3>2
  <2> QED  BY <1>1, <2>2, <2>3
<1>5. DOMAIN file \subseteq DOMAIN file' /\ DOMAIN index' \subseteq DOMAIN file'
  <2>1. DOMAIN file = 1 .. Len(file) /\ DOMAIN file \subseteq 1 .. RowCount
        /\ Len(file) + 1 .. RowCount \subseteq 1 .. RowCount
    BY SeqTypes
  <2>2. DOMAIN index \subseteq DOMAIN file
    BY DEF TypeOK
  <2> QED  BY <1>1, <2>1, <2>2
<1>6. pending' \in Seq(PendingRow)
  BY <1>1, EmptySeq
<1>7. /\ ws' \in [Sessions -> SUBSET (1 .. RowCount')]
      /\ replayed' \in SUBSET (1 .. RowCount')
  <2>1. ws \in [Sessions -> SUBSET (1 .. RowCount)] /\ replayed \in SUBSET (1 .. RowCount)
    BY DEF TypeOK
  <2>2. [s \in Sessions |-> {}] \in [Sessions -> SUBSET (1 .. RowCount)]
    OBVIOUS
  <2>3. RowCount' = RowCount
    BY <1>1
  <2> QED  BY <2>1, <2>2, <2>3
<1>8. RowsType'
  BY <1>4, <1>5, <1>6, <1>7 DEF RowsType
<1>9. /\ vfile'.st \in {"none", "torn", "ok"}
      /\ DOMAIN vfile'.entries \subseteq DOMAIN file'
      /\ \A i \in DOMAIN vfile'.entries : vfile'.entries[i] \in Ts
  <2>1. CASE vfile' = vfile
    BY <1>5, <2>1 DEF TypeOK, BoundInv
  <2>2. CASE vfile' = [st |-> "torn", entries |-> <<>>]
    <3>1. vfile'.st = "torn" /\ vfile'.entries = <<>> /\ DOMAIN vfile'.entries = {}
      BY <2>2
    <3> QED  BY <3>1
  <2> QED  BY <2>1, <2>2
<1> QED  BY <1>1, <1>3, <1>8, <1>9 DEF FileType, TypeOK

\* So does stamping.
LEMMA StampRowsType ==
    ASSUME TypeOK, BoundInv, NEW rids, NEW x, NEW ts \in Ts, Stamp(rids, x, ts), file' = file,
           clock' = clock, replayed' = replayed, NEW s, ws' = [ws EXCEPT ![s] = {}]
    PROVE  RowsType'
<1>1. /\ DOMAIN index' = DOMAIN index
      /\ \A i \in DOMAIN index : index'[i] = index[i] \/ index'[i] = ts
      /\ pending' \in Seq(PendingRow) /\ RowCount' = RowCount
  BY StampEffect
<1> QED  BY <1>1 DEF RowsType, TypeOK

\* The initial state is well-typed.
LEMMA InitType == Init => TypeParts
<1> SUFFICES ASSUME Init PROVE TypeParts
  OBVIOUS
<1>1. 0 \in Ts
  BY Spans DEF Ts
<1>2. FileType
  BY DEF Init, FileType, NoFile
<1>3. LogType
  BY GoodEmpty, Spans DEF Init, LogType
<1>4. RowsType
  <2>1. pending \in Seq(PendingRow) /\ DOMAIN index = {} /\ replayed = {}
    BY DEF Init
  <2> QED  BY <1>1, <2>1 DEF Init, RowsType
<1>5. SessType
  BY <1>1, Spans DEF Init, SessType
<1>6. broken \in BOOLEAN /\ rebuilt \in BOOLEAN
  BY Zenon DEF Init
<1>7. GhostType
  BY <1>6 DEF Init, GhostType
<1> QED  BY <1>2, <1>3, <1>4, <1>5, <1>7 DEF TypeParts

\* Every step keeps the types.
LEMMA TypeStep == TypeParts /\ SessionsInv /\ [Next]_vars => TypeParts'
<1> SUFFICES ASSUME TypeParts, SessionsInv, [Next]_vars PROVE TypeParts'
  OBVIOUS
<1>1. TypeOK /\ BoundInv /\ WonInv
  BY PartsOfType
<1>2. FileType /\ LogType /\ RowsType /\ SessType /\ GhostType
  BY DEF TypeParts
<1>3. /\ \A s \in Sessions : tx[s] \in Nat /\ tx[s] \in 0 .. MaxTx /\ cts[s] \in Ts
      /\ restarts \in Nat /\ written \in Nat /\ nextTx \in Nat /\ clock \in Ts
      /\ 0 \in Ts /\ AbortedTs \in Ts /\ Tick(clock) \in Ts
      /\ \A y \in 0 .. MaxTx : Mark(y) \in Ts
  BY <1>1, <1>2, Timestamps DEF SessType, LogType, RowsType
<1>4. \A s \in Sessions : \A i \in ws[s] : RowAt(i) \in Row
  BY <1>1, <1>2, RowAtType DEF RowsType
<1>5. UNCHANGED <<file, vfile, meta>> => FileType'
  BY <1>2 DEF FileType
<1>6. UNCHANGED <<file, index, pending, clock, ws, replayed>> => RowsType'
  BY <1>2 DEF RowsType, RowCount
<1>7. ASSUME NEW s \in Sessions, Begin(s) PROVE TypeParts'
  <2>1. AppendRecord(nextTx, "begin", 0) /\ nextTx <= MaxTx /\ wonTx' = wonTx /\ log' = log
    BY <1>7 DEF Begin, diskVars
  <2>2. LogType'
    BY <1>1, <1>3, <2>1, AppendEffect DEF LogType
  <2>3. FileType' /\ RowsType'
    BY <1>5, <1>6, <1>7 DEF Begin, diskVars, pastVars
  <2>4. SessType'
    BY <1>2, <1>3, <1>7, <2>1, Spans DEF Begin, SessType, ckptVars
  <2>5. GhostType'
    BY <1>2, <1>7 DEF Begin, GhostType, pastVars
  <2> QED  BY <2>2, <2>3, <2>4, <2>5 DEF TypeParts
<1>8. ASSUME NEW s \in Sessions, Insert(s) PROVE TypeParts'
  <2>1. PICK r : r = Rec(tx[s], "insert", 0)
    OBVIOUS
  <2>2. PICK p : p = [row |-> RowOf(r), ts |-> IF pc[s] = "out" THEN Tick(clock) ELSE Mark(tx[s])]
    OBVIOUS
  <2>3. AppendRecord(tx[s], "insert", 0) /\ wonTx' = wonTx /\ UNCHANGED <<file, vfile, log, meta>>
    BY <1>8 DEF Insert, diskVars
  <2>4. LogType' /\ r \in Record
    BY <1>1, <1>3, <2>1, <2>3, AppendEffect DEF LogType
  <2>5. RowOf(r) \in Row /\ p \in PendingRow /\ p.row = RowOf(r)
    BY <1>3, <2>2, <2>4 DEF RowOf, Row, Record, PendingRow
  <2>6. pending' = Append(pending, p) /\ file' = file
    BY <1>8, <2>1, <2>2 DEF Insert, diskVars
  <2>7. pending' \in Seq(PendingRow) /\ RowCount' = RowCount + 1 /\ RowCount \in Nat
    BY <1>1, <2>5, <2>6, PendEffect, SeqTypes
  <2>8. /\ clock' \in Ts /\ UNCHANGED <<index, replayed>>
        /\ ws' = ws \/ ws' = [ws EXCEPT ![s] = @ \cup {RowCount + 1}]
    BY <1>3, <1>8 DEF Insert, pastVars
  <2>9. ws' \in [Sessions -> SUBSET (1 .. RowCount')] /\ replayed' \in SUBSET (1 .. RowCount')
    <3>1. 1 .. RowCount \subseteq 1 .. RowCount' /\ RowCount + 1 \in 1 .. RowCount'
      BY <2>7
    <3> QED  BY <1>2, <2>8, <3>1 DEF RowsType
  <2>10. RowsType'
    BY <1>2, <2>6, <2>7, <2>8, <2>9 DEF RowsType
  <2>11. SessType'
    BY <1>2, <1>8 DEF Insert, SessType, ckptVars
  <2>12. GhostType'
    <3>1. /\ acked' = acked \/ acked' = acked \cup {[row |-> RowOf(r), done |-> RowOf(r).n]}
          /\ excused' = excused \/ excused' = excused \cup Buried({RowOf(r)}, Tick(clock))
          /\ atRisk' = atRisk \/ atRisk' = atRisk \cup {RowOf(r)}
          /\ UNCHANGED <<wonTx, spans, broken, rebuilt>>
      BY <1>8, <2>1 DEF Insert
    <3>2. RowOf(r).n \in Nat /\ Buried({RowOf(r)}, Tick(clock)) \subseteq {RowOf(r)}
      BY <2>5 DEF Row, Buried
    <3>3. acked' \in SUBSET [row : Row, done : Nat]
      <4>1. [row |-> RowOf(r), done |-> RowOf(r).n] \in [row : Row, done : Nat]
        BY <2>5, <3>2
      <4> QED  BY <1>2, <3>1, <4>1 DEF GhostType
    <3>4. excused' \in SUBSET Row /\ atRisk' \in SUBSET Row
      BY <1>2, <2>5, <3>1, <3>2 DEF GhostType
    <3> QED  BY <1>2, <3>1, <3>3, <3>4 DEF GhostType
  <2> QED  BY <1>5, <2>3, <2>4, <2>10, <2>11, <2>12 DEF TypeParts
<1>9. ASSUME NEW s \in Sessions, LogCommit(s) PROVE TypeParts'
  <2>1. /\ AppendRecord(tx[s], "commit", Tick(clock)) /\ log' = log
        /\ wonTx' = wonTx \cup {<<restarts, tx[s]>>}
    BY <1>9 DEF LogCommit, diskVars
  <2>2. LogType'
    <3>1. wonTx \subseteq wonTx' /\ <<restarts, tx[s]>> \in wonTx'
      BY <2>1
    <3> QED  BY <1>1, <1>3, <2>1, <3>1, AppendEffect DEF LogType
  <2>3. FileType'
    BY <1>5, <1>9 DEF LogCommit, diskVars
  <2>4. RowsType'
    BY <1>2, <1>3, <1>9 DEF LogCommit, diskVars, pastVars, RowsType, RowCount
  <2>5. SessType'
    BY <1>2, <1>3, <1>9 DEF LogCommit, SessType, ckptVars
  <2>6. GhostType'
    BY <1>2, <1>3, <1>9 DEF LogCommit, GhostType, pastVars
  <2> QED  BY <2>2, <2>3, <2>4, <2>5, <2>6 DEF TypeParts
<1>10. ASSUME NEW s \in Sessions, FinishCommit(s) PROVE TypeParts'
  <2>1. LogType'
    BY <1>2, <1>10, LogFlushed DEF FinishCommit
  <2>2. FileType'
    BY <1>5, <1>10 DEF FinishCommit
  <2>3. RowsType'
    <3>1. /\ Stamp(ws[s], tx[s], cts[s]) /\ ws' = [ws EXCEPT ![s] = {}]
          /\ file' = file /\ clock' = clock /\ replayed' = replayed
      BY <1>10 DEF FinishCommit, Leave
    <3> QED  BY <1>1, <1>3, <3>1, StampRowsType
  <2>4. SessType'
    BY <1>2, <1>3, <1>10, Spans DEF FinishCommit, Leave, SessType, ckptVars
  <2>5. GhostType'
    <3>1. /\ acked' = acked \cup {[row |-> RowAt(i), done |-> written] : i \in ws[s]}
          /\ excused' = excused \cup Buried({RowAt(i) : i \in ws[s]}, cts[s])
          /\ spans' = spans \ {s} /\ UNCHANGED <<wonTx, atRisk, broken, rebuilt>>
      BY <1>10 DEF FinishCommit, Leave
    <3>2. Buried({RowAt(i) : i \in ws[s]}, cts[s]) \subseteq Row
      BY <1>4 DEF Buried
    <3>3. {[row |-> RowAt(i), done |-> written] : i \in ws[s]} \subseteq [row : Row, done : Nat]
      BY <1>3, <1>4
    <3> QED  BY <1>2, <3>1, <3>2, <3>3 DEF GhostType
  <2> QED  BY <2>1, <2>2, <2>3, <2>4, <2>5 DEF TypeParts
<1>11. ASSUME NEW s \in Sessions, Rollback(s) PROVE TypeParts'
  <2>1. AppendRecord(tx[s], "rollback", 0) /\ log' = log /\ wonTx' = wonTx
    BY <1>11 DEF Rollback, diskVars
  <2>2. LogType'
    BY <1>1, <1>3, <2>1, AppendEffect DEF LogType
  <2>3. FileType'
    BY <1>5, <1>11 DEF Rollback, diskVars
  <2>4. RowsType'
    <3>1. /\ Stamp(ws[s], tx[s], AbortedTs) /\ ws' = [ws EXCEPT ![s] = {}]
          /\ file' = file /\ clock' = clock /\ replayed' = replayed
      BY <1>11 DEF Rollback, Leave, diskVars, pastVars
    <3> QED  BY <1>1, <1>3, <3>1, StampRowsType
  <2>5. SessType'
    BY <1>2, <1>3, <1>11, Spans DEF Rollback, Leave, SessType, ckptVars
  <2>6. GhostType'
    BY <1>2, <1>11 DEF Rollback, Leave, GhostType, pastVars
  <2> QED  BY <2>2, <2>3, <2>4, <2>5, <2>6 DEF TypeParts
<1>12. CASE Flush
  <2>1. /\ FlushPending /\ UNCHANGED <<clock, ws, replayed, meta, vfile>>
        /\ UNCHANGED <<log, buf, nextLsn, written, wonTx>>
    BY <1>12 DEF Flush, sessVars, pastVars
  <2>2. RowsType' /\ FileType'
    BY <1>1, <1>3, <2>1, FlushRowsType
  <2>3. LogType'
    BY <1>2, <2>1, LogStays
  <2>4. SessType' /\ GhostType'
    BY <1>2, <1>12 DEF Flush, SessType, GhostType, sessVars, ckptVars, pastVars
  <2> QED  BY <2>2, <2>3, <2>4 DEF TypeParts
<1>13. CASE CkptBegin
  <2>1. LogType' /\ FileType' /\ RowsType'
    BY <1>2, <1>5, <1>6, <1>13, LogStays DEF CkptBegin, diskVars, memVars, sessVars, pastVars
  <2>2. SessType'
    BY <1>2, <1>13, Spans DEF CkptBegin, SessType, sessVars, LogType
  <2>3. GhostType'
    <3>1. /\ spans' = spans \cup Running
          /\ atRisk' = atRisk \cup {RowAt(i) : i \in UNION {ws[s] : s \in Running}}
          /\ UNCHANGED <<acked, wonTx, excused, broken, rebuilt>>
      BY <1>13 DEF CkptBegin, pastVars
    <3>2. Running \subseteq Sessions
      BY DEF Running
    <3>3. {RowAt(i) : i \in UNION {ws[s] : s \in Running}} \subseteq Row
      BY <1>4, <3>2
    <3> QED  BY <1>2, <3>1, <3>2, <3>3 DEF GhostType
  <2> QED  BY <2>1, <2>2, <2>3 DEF TypeParts
<1>14. CASE CkptSave
  <2>1. /\ FlushPending /\ UNCHANGED <<clock, ws, replayed, meta>>
        /\ vfile' = [st |-> "torn", entries |-> <<>>]
        /\ UNCHANGED <<log, buf, nextLsn, written, wonTx>>
    BY <1>14 DEF CkptSave, sessVars, pastVars
  <2>2. RowsType' /\ FileType'
    BY <1>1, <1>3, <2>1, FlushRowsType
  <2>3. LogType'
    BY <1>2, <2>1, LogStays
  <2>4. SessType' /\ GhostType'
    BY <1>2, <1>14 DEF CkptSave, SessType, GhostType, sessVars, pastVars
  <2> QED  BY <2>2, <2>3, <2>4 DEF TypeParts
<1>15. ASSUME SaveIndex, UNCHANGED <<file, meta>> PROVE FileType' /\ atRisk' \subseteq atRisk
  <2>1. vfile' = [st |-> "ok", entries |-> index] /\ atRisk' \subseteq atRisk
    BY <1>15 DEF SaveIndex
  <2>2. vfile'.st = "ok" /\ vfile'.entries = index
    BY <2>1
  <2> QED  BY <1>2, <1>15, <2>1, <2>2 DEF FileType, RowsType
<1>16. CASE CkptWrite
  <2>1. LogType' /\ RowsType'
    BY <1>2, <1>6, <1>16, LogStays DEF CkptWrite, memVars, sessVars, pastVars
  <2>2. FileType' /\ atRisk' \subseteq atRisk
    BY <1>15, <1>16 DEF CkptWrite
  <2>3. SessType' /\ GhostType'
    BY <1>2, <1>16, <2>2 DEF CkptWrite, SessType, GhostType, sessVars, pastVars
  <2> QED  BY <2>1, <2>2, <2>3 DEF TypeParts
<1>17. CASE CkptMetaOpen \/ CkptMeta
  <2>1. LogType' /\ RowsType'
    BY <1>2, <1>6, <1>17, LogStays DEF CkptMetaOpen, CkptMeta, memVars, sessVars, pastVars
  <2>2. FileType'
    BY <1>2, <1>17 DEF CkptMetaOpen, CkptMeta, FileType, SessType
  <2>3. SessType' /\ GhostType'
    BY <1>2, <1>17 DEF CkptMetaOpen, CkptMeta, SessType, GhostType, sessVars, pastVars
  <2> QED  BY <2>1, <2>2, <2>3 DEF TypeParts
<1>18. ASSUME SessionsGone
       PROVE  /\ pc' \in [Sessions -> {"out", "in", "commit"}]
              /\ tx' \in [Sessions -> 0 .. MaxTx] /\ cts' \in [Sessions -> Ts]
              /\ ws' = [s \in Sessions |-> {}] /\ nextTx' \in 1 .. MaxTx + 1
              /\ spans' = {} /\ ckpt' = "idle" /\ ckptLsn' = 0
  BY <1>3, <1>18, Spans DEF SessionsGone
<1>19. CASE CloseBegin
  <2>1. /\ FlushPending /\ UNCHANGED <<clock, replayed, meta>> /\ SessionsGone
        /\ vfile' = [st |-> "torn", entries |-> <<>>]
        /\ log' = log \o buf /\ buf' = <<>> /\ UNCHANGED <<nextLsn, written, wonTx>>
    BY <1>19 DEF CloseBegin, pastVars
  <2>2. RowsType' /\ FileType'
    BY <1>1, <1>3, <1>18, <2>1, FlushRowsType
  <2>3. LogType'
    BY <1>2, <2>1, LogFlushed
  <2>4. SessType'
    BY <1>2, <1>18, <1>19, <2>1 DEF CloseBegin, SessType
  <2>5. GhostType'
    BY <1>2, <1>18, <1>19, <2>1 DEF CloseBegin, GhostType, pastVars
  <2> QED  BY <2>2, <2>3, <2>4, <2>5 DEF TypeParts
<1>20. ASSUME MemoryGone, UNCHANGED file, ws' = ws \/ ws' = [s \in Sessions |-> {}],
              \A s \in Sessions : ws'[s] = {}
       PROVE  RowsType'
  <2>1. index' = <<>> /\ pending' = <<>> /\ clock' = 0 /\ replayed' = {}
    BY <1>20 DEF MemoryGone
  <2>2. DOMAIN index' = {} /\ pending' \in Seq(PendingRow)
    BY <2>1
  <2>3. ws' = [s \in Sessions |-> {}]
    BY <1>2, <1>20 DEF RowsType
  <2> QED  BY <1>3, <2>1, <2>2, <2>3 DEF RowsType
<1>21. CASE Crash
  <2>1. /\ MemoryGone /\ SessionsGone /\ UNCHANGED <<file, vfile, meta, written, wonTx>>
        /\ \E k \in 0 .. Len(buf) : log' = log \o SubSeq(buf, 1, k)
    BY <1>21 DEF Crash
  <2>2. LogType'
    BY <1>2, <2>1, LogFlushed DEF MemoryGone
  <2>3. FileType' /\ RowsType'
    BY <1>5, <1>18, <1>20, <2>1
  <2>4. SessType'
    BY <1>2, <1>18, <1>21, <2>1, Spans DEF Crash, SessType
  <2>5. GhostType'
    BY <1>2, <1>18, <1>21, <2>1 DEF Crash, GhostType
  <2> QED  BY <2>2, <2>3, <2>4, <2>5 DEF TypeParts

<1>22. CASE CloseEnd
  <2>1. /\ MemoryGone /\ SaveIndex /\ state = "closing"
        /\ UNCHANGED <<file, meta, log, written, wonTx, ws>>
    BY <1>22 DEF CloseEnd, sessVars
  <2>2. LogType'
    BY <1>2, <2>1, LogFlushed DEF MemoryGone
  <2>3. FileType' /\ atRisk' \subseteq atRisk
    BY <1>15, <2>1
  <2>4. RowsType'
    BY <1>20, <2>1 DEF SessionsInv
  <2>5. SessType'
    BY <1>2, <1>22, Spans DEF CloseEnd, SessType, sessVars, ckptVars
  <2>6. GhostType'
    BY <1>2, <1>22, <2>3 DEF CloseEnd, GhostType
  <2> QED  BY <2>2, <2>3, <2>4, <2>5, <2>6 DEF TypeParts
<1>23. ASSUME NEW target \in Targets, Open(target) PROVE TypeParts'
  <2>1. /\ state = "down" /\ state' = "open" /\ pending' = Replay(target) /\ nextLsn' = ScannedLsn
        /\ replayed' = {Len(file) + k : k \in DOMAIN pending'}
        /\ UNCHANGED <<file, vfile, meta, log, buf, written, wonTx, ws>>
    BY <1>23 DEF Open, diskVars, sessVars
  <2>2. /\ pending' \in Seq(PendingRow) /\ DOMAIN pending' = 1 .. Len(pending') /\ Len(pending') \in Nat
        /\ \A k \in DOMAIN pending' : pending'[k] \in PendingRow
    BY <1>1, <2>1, ReplayEffect
  <2>3. LogType'
    <3>1. ScannedLsn \in Nat \ {0} /\ ScannedLsn <= written + 1
      BY <1>1, ScanEffect
    <3> QED  BY <1>2, <2>1, <3>1 DEF LogType, GoodLog
  <2>4. /\ DOMAIN index' \subseteq DOMAIN file
        /\ \A i \in DOMAIN index' : index'[i] \in Ts
        /\ clock' \in Ts
    BY <1>1, <1>23, OpenClock
  <2>5. RowsType'
    <3>1. \A s \in Sessions : ws[s] = {}
      BY <2>1 DEF SessionsInv
    <3>2. ws' \in [Sessions -> SUBSET (1 .. RowCount')]
      BY <1>2, <2>1, <3>1 DEF RowsType
    <3>3. RowCount' = Len(file) + Len(pending') /\ Len(file) \in Nat
      BY <1>1, <2>1, SeqTypes DEF RowCount
    <3>4. replayed' \in SUBSET (1 .. RowCount')
      BY <2>1, <2>2, <3>3
    <3> QED  BY <2>1, <2>2, <2>4, <3>2, <3>4 DEF RowsType
  <2>6. SessType'
    BY <1>2, <1>23, <2>1 DEF Open, SessType, sessVars, ckptVars
  <2>7. GhostType'
    <3>1. /\ excused' = excused \cup {a.row : a \in {b \in acked : b.done > target}}
                   \cup UNION {Buried({p.row}, p.ts) : p \in {pending'[k] : k \in DOMAIN pending'}}
          /\ UNCHANGED <<acked, wonTx, atRisk, spans>>
      BY <1>23 DEF Open
    <3>2. {a.row : a \in {b \in acked : b.done > target}} \subseteq Row
      BY <1>2 DEF GhostType
    <3>3. ASSUME NEW k \in DOMAIN pending' PROVE Buried({pending'[k].row}, pending'[k].ts) \subseteq Row
      <4>1. pending'[k].row \in Row
        BY <2>2 DEF PendingRow
      <4> QED  BY <4>1 DEF Buried
    <3>4. excused' \subseteq Row
      <4>1. \A k \in DOMAIN pending' : Buried({pending'[k].row}, pending'[k].ts) \subseteq Row
        BY <3>3
      <4>2. UNION {Buried({p.row}, p.ts) : p \in {pending'[k] : k \in DOMAIN pending'}} \subseteq Row
        BY <4>1, Zenon
      <4>3. excused \subseteq Row
        BY <1>2 DEF GhostType
      <4> QED  BY <3>1, <3>2, <4>2, <4>3, Zenon
    <3>5. broken' \in BOOLEAN /\ rebuilt' \in BOOLEAN
      BY <1>23, Zenon DEF Open
    <3> QED  BY <1>2, <3>1, <3>4, <3>5 DEF GhostType
  <2> QED  BY <1>5, <2>1, <2>3, <2>5, <2>6, <2>7 DEF TypeParts
<1>24. CASE UNCHANGED vars
  <2>1. LogType' /\ RowsType' /\ FileType'
    BY <1>2, <1>5, <1>6, <1>24, LogStays DEF vars, diskVars, memVars, sessVars, pastVars
  <2>2. SessType' /\ GhostType'
    BY <1>2, <1>24 DEF vars, SessType, GhostType, sessVars, ckptVars, pastVars
  <2> QED  BY <2>1, <2>2 DEF TypeParts
<1> QED
  BY <1>7, <1>8, <1>9, <1>10, <1>11, <1>12, <1>13, <1>14, <1>16, <1>17, <1>19, <1>21, <1>22, <1>23,
     <1>24 DEF Next

\* Sessions run only while the database is open.
LEMMA SessionsStep == SessionsInv /\ [Next]_vars => SessionsInv'
<1> SUFFICES ASSUME SessionsInv, [Next]_vars PROVE SessionsInv'
  OBVIOUS
<1>1. CASE \E s \in Sessions :
              Begin(s) \/ Insert(s) \/ LogCommit(s) \/ FinishCommit(s) \/ Rollback(s)
  <2>1. state' = "open"
    BY <1>1 DEF Begin, Insert, LogCommit, FinishCommit, Rollback, AppendRecord
  <2> QED  BY <2>1 DEF SessionsInv
<1>2. CASE Flush \/ CkptBegin \/ CkptSave \/ CkptWrite \/ CkptMetaOpen \/ CkptMeta
  <2>1. state' = "open"
    BY <1>2 DEF Flush, CkptBegin, CkptSave, CkptWrite, CkptMetaOpen, CkptMeta
  <2> QED  BY <2>1 DEF SessionsInv
<1>3. CASE CloseBegin \/ Crash
  <2>1. SessionsGone
    BY <1>3 DEF CloseBegin, Crash
  <2> QED  BY <2>1 DEF SessionsGone, SessionsInv
<1>4. CASE CloseEnd
  BY <1>4 DEF CloseEnd, sessVars, SessionsInv
<1>5. CASE \E target \in Targets : Open(target)
  BY <1>5 DEF Open, SessionsInv
<1>6. CASE UNCHANGED vars
  BY <1>6 DEF vars, sessVars, SessionsInv
<1> QED  BY <1>1, <1>2, <1>3, <1>4, <1>5, <1>6 DEF Next

\* The types hold in every reachable state.
LEMMA TypeInvariant == Spec => [](TypeParts /\ SessionsInv)
<1>1. Init => TypeParts /\ SessionsInv
  BY InitType DEF Init, SessionsInv
<1>2. TypeParts /\ SessionsInv /\ [Next]_vars => (TypeParts /\ SessionsInv)'
  BY TypeStep, SessionsStep
<1> QED  BY <1>1, <1>2, PTL DEF Spec

\* Every timestamp fits its field, every index entry has its row, and the
\* scans of Database::open find an LSN, a clock and the replayed rows, however
\* the process ended.
THEOREM RecoveryTypeCorrect == Spec => []TypeOK
<1>1. TypeParts => TypeOK
  BY PartsOfType
<1> QED  BY <1>1, TypeInvariant, PTL

-----------------------------------------------------------------------------
(* What is visible has been committed.                                     *)

\* Commits are never taken back.
LEMMA WonGrows ==
    ASSUME NEW won, NEW more, won \subseteq more
    PROVE  \A row : Won(row, won) => Won(row, more)
BY DEF Won

\* Write sets survive whatever leaves the rows in their places.
LEMMA OwnKept ==
    ASSUME TypeOK, OwnInv, KeepsRows, restarts' = restarts, wonTx \subseteq wonTx',
           \A s \in Sessions : \/ pc'[s] = pc[s] /\ tx'[s] = tx[s] /\ ws'[s] = ws[s]
                               \/ pc'[s] = "out" /\ tx'[s] = 0 /\ ws'[s] = {}
    PROVE  OwnInv'
<1> SUFFICES ASSUME NEW s \in Sessions
             PROVE  /\ pc'[s] = "out" => ws'[s] = {} /\ tx'[s] = 0
                    /\ \A i \in ws'[s] : RowAt(i)'.tx = tx'[s] /\ RowAt(i)'.proc = restarts'
                    /\ pc'[s] = "commit" => <<restarts', tx'[s]>> \in wonTx'
  BY DEF OwnInv
<1>1. \A i \in ws[s] : RowAt(i)' = RowAt(i)
  BY DEF KeepsRows, TypeOK
<1> QED  BY <1>1 DEF OwnInv

\* Every step keeps the sessions' write sets their own.
LEMMA OwnStep ==
    ASSUME TypeParts, SessionsInv, OwnInv, [Next]_vars
    PROVE  OwnInv'
<1>1. TypeOK /\ BoundInv /\ WonInv
  BY PartsOfType
<1>2. /\ \A s \in Sessions : tx[s] \in Nat /\ cts[s] \in Ts /\ ws[s] \subseteq 1 .. RowCount
      /\ tx \in [Sessions -> Nat] /\ ws \in [Sessions -> SUBSET (1 .. RowCount)]
      /\ pc \in [Sessions -> {"out", "in", "commit"}]
      /\ AbortedTs \in Ts /\ RowCount \in Nat
      /\ Tick(clock) \in Ts /\ \A y \in 0 .. MaxTx : Mark(y) \in Ts
      /\ \A s \in Sessions : tx[s] \in 0 .. MaxTx
  <2>1. RowCount \in Nat
    BY <1>1, SeqTypes
  <2> QED  BY <1>1, <2>1, Timestamps, Spans, SMTT(30) DEF TypeOK
<1>3. ASSUME UNCHANGED <<file, pending>> PROVE KeepsRows
  BY <1>1, <1>2, <1>3, SeqTypes DEF KeepsRows, RowCount, RowAt
<1>4. ASSUME NEW s \in Sessions, Begin(s) PROVE OwnInv'
  <2>1. /\ pc[s] = "out" /\ tx' = [tx EXCEPT ![s] = nextTx] /\ pc' = [pc EXCEPT ![s] = "in"]
        /\ UNCHANGED <<file, pending, ws, restarts, wonTx>>
    BY <1>4 DEF Begin, diskVars
  <2>2. KeepsRows /\ ws[s] = {}
    BY <1>3, <2>1 DEF OwnInv
  <2>3. ASSUME NEW t \in Sessions
        PROVE  /\ pc'[t] = "out" => ws'[t] = {} /\ tx'[t] = 0
               /\ \A i \in ws'[t] : RowAt(i)'.tx = tx'[t] /\ RowAt(i)'.proc = restarts'
               /\ pc'[t] = "commit" => <<restarts', tx'[t]>> \in wonTx'
    <3>1. CASE t = s
      BY <1>2, <2>1, <2>2, <3>1
    <3>2. CASE t # s
      <4>1. \A i \in ws[t] : RowAt(i)' = RowAt(i)
        BY <1>2, <2>2 DEF KeepsRows
      <4> QED  BY <1>2, <2>1, <3>2, <4>1 DEF OwnInv
    <3> QED  BY <3>1, <3>2
  <2> QED  BY <2>3 DEF OwnInv
<1>5. ASSUME NEW s \in Sessions, Insert(s) PROVE OwnInv'
  <2>1. PICK r : r = Rec(tx[s], "insert", 0)
    OBVIOUS
  <2>2. PICK p : p = [row |-> RowOf(r), ts |-> IF pc[s] = "out" THEN Tick(clock) ELSE Mark(tx[s])]
    OBVIOUS
  <2>3. /\ pending' = Append(pending, p) /\ pc[s] \in {"out", "in"}
        /\ ws' = IF pc[s] = "out" THEN ws ELSE [ws EXCEPT ![s] = @ \cup {RowCount + 1}]
        /\ UNCHANGED <<file, restarts, wonTx, tx, pc>>
    BY <1>5, <2>1, <2>2 DEF Insert, diskVars
  <2>4. r.tx = tx[s] /\ r.proc = restarts /\ r.n \in Nat /\ restarts \in Nat
    BY <1>1, <2>1, Spans DEF Rec, TypeOK
  <2>5. p \in PendingRow /\ p.row.tx = tx[s] /\ p.row.proc = restarts
    BY <1>2, <2>2, <2>4 DEF PendingRow, RowOf, Row
  <2>6. KeepsRows /\ \A i : i = RowCount + 1 => RowAt(i)' = p.row
    BY <1>1, <2>3, <2>5, PendEffect
  <2>7. ASSUME NEW t \in Sessions
        PROVE  /\ pc'[t] = "out" => ws'[t] = {} /\ tx'[t] = 0
               /\ pc'[t] = "commit" => <<restarts', tx'[t]>> \in wonTx'
    BY <1>2, <2>3 DEF OwnInv
  <2>8. ASSUME NEW t \in Sessions, NEW i \in ws'[t]
        PROVE  RowAt(i)'.tx = tx'[t] /\ RowAt(i)'.proc = restarts'
    <3>1. CASE i \in ws[t]
      <4>1. RowAt(i)' = RowAt(i)
        BY <1>2, <2>6, <3>1 DEF KeepsRows
      <4> QED  BY <2>3, <3>1, <4>1 DEF OwnInv
    <3>2. CASE i \notin ws[t]
      <4>1. t = s /\ i = RowCount + 1
        BY <1>2, <2>3, <2>8, <3>2
      <4> QED  BY <2>3, <2>5, <2>6, <4>1
    <3> QED  BY <3>1, <3>2
  <2> QED  BY <2>7, <2>8 DEF OwnInv
<1>6. ASSUME NEW s \in Sessions, LogCommit(s) PROVE OwnInv'
  <2>1. /\ pc[s] = "in" /\ pc' = [pc EXCEPT ![s] = "commit"]
        /\ wonTx' = wonTx \cup {<<restarts, tx[s]>>}
        /\ UNCHANGED <<file, pending, ws, tx, restarts>>
    BY <1>6 DEF LogCommit, diskVars
  <2>2. KeepsRows
    BY <1>3, <2>1
  <2>3. \A t \in Sessions : \A i \in ws[t] : RowAt(i)' = RowAt(i)
    BY <1>2, <2>2 DEF KeepsRows
  <2> QED  BY <1>2, <2>1, <2>3 DEF OwnInv
<1>7. ASSUME NEW s \in Sessions, FinishCommit(s) \/ Rollback(s) PROVE OwnInv'
  <2>1. /\ \E ts \in Ts : Stamp(ws[s], tx[s], ts)
        /\ Leave(s) /\ UNCHANGED <<file, restarts, wonTx>>
    BY <1>2, <1>7 DEF FinishCommit, Rollback, diskVars
  <2>2. KeepsRows
    BY <1>1, <2>1, StampEffect
  <2> QED  BY <1>1, <1>2, <2>1, <2>2, OwnKept DEF Leave
<1>8. CASE Flush \/ CkptSave
  <2>1. FlushPending /\ UNCHANGED <<pc, tx, ws, restarts, wonTx>>
    BY <1>8 DEF Flush, CkptSave, sessVars
  <2>2. KeepsRows
    BY <1>1, <2>1, FlushEffect
  <2> QED  BY <1>1, <2>1, <2>2, OwnKept
<1>9. CASE CkptBegin \/ CkptWrite \/ CkptMetaOpen \/ CkptMeta \/ UNCHANGED vars
  <2>1. UNCHANGED <<file, pending, pc, tx, ws, restarts, wonTx>>
    BY <1>9 DEF CkptBegin, CkptWrite, CkptMetaOpen, CkptMeta, vars, sessVars, memVars, diskVars
  <2> QED  BY <1>1, <1>3, <2>1, OwnKept
<1>10. CASE CloseBegin \/ Crash
  <2>1. SessionsGone
    BY <1>10 DEF CloseBegin, Crash
  <2> QED  BY <2>1 DEF SessionsGone, OwnInv
<1>11. CASE CloseEnd \/ \E target \in Targets : Open(target)
  <2>1. state # "open" /\ UNCHANGED <<pc, tx, ws>>
    BY <1>11 DEF CloseEnd, Open, sessVars
  <2> QED  BY <2>1 DEF SessionsInv, OwnInv
<1> QED  BY <1>4, <1>5, <1>6, <1>7, <1>8, <1>9, <1>10, <1>11 DEF Next

\* What is committed in the index, the saved index or the batches may be
\* visible.
LEMMA SeenStep ==
    ASSUME TypeParts, SessionsInv, OwnInv, SeenInv, [Next]_vars
    PROVE  SeenInv'
<1>1. TypeOK /\ BoundInv /\ WonInv
  BY PartsOfType
<1>2. /\ DOMAIN index \subseteq DOMAIN file /\ DOMAIN vfile.entries \subseteq DOMAIN file
      /\ \A s \in Sessions : cts[s] \in Ts /\ tx[s] \in 0 .. MaxTx
      /\ ~Committed(AbortedTs) /\ AbortedTs \in Ts
      /\ Tick(clock) \in Ts /\ \A y \in 0 .. MaxTx : Mark(y) \in Ts /\ ~Committed(Mark(y))
  BY <1>1, Timestamps DEF TypeOK
<1> SUFFICES ASSUME ~rebuilt'
             PROVE  /\ \A i \in DOMAIN vfile'.entries :
                          Committed(vfile'.entries[i]) => Won(file'[i].row, wonTx')
                    /\ \A i \in DOMAIN index' : Committed(index'[i]) => Won(file'[i].row, wonTx')
                    /\ \A j \in DOMAIN pending' :
                          Committed(pending'[j].ts) => Won(pending'[j].row, wonTx')
  BY DEF SeenInv, Committed
<1>3. ~rebuilt /\ wonTx \subseteq wonTx'
  <2>1. CASE \E s \in Sessions :
                Begin(s) \/ Insert(s) \/ LogCommit(s) \/ FinishCommit(s) \/ Rollback(s)
    BY <2>1 DEF Begin, Insert, LogCommit, FinishCommit, Rollback, pastVars
  <2>2. CASE Flush \/ CkptBegin \/ CkptSave \/ CkptWrite \/ CkptMetaOpen \/ CkptMeta
    BY <2>2 DEF Flush, CkptBegin, CkptSave, CkptWrite, CkptMetaOpen, CkptMeta, pastVars
  <2>3. CASE CloseBegin \/ CloseEnd \/ Crash \/ UNCHANGED vars
    BY <2>3 DEF CloseBegin, CloseEnd, Crash, vars, pastVars
  <2>4. CASE \E target \in Targets : Open(target)
    BY <2>4 DEF Open
  <2> QED  BY <2>1, <2>2, <2>3, <2>4 DEF Next
<1>4. /\ \A i \in DOMAIN vfile.entries : Committed(vfile.entries[i]) => Won(file[i].row, wonTx')
      /\ \A i \in DOMAIN index : Committed(index[i]) => Won(file[i].row, wonTx')
      /\ \A j \in DOMAIN pending : Committed(pending[j].ts) => Won(pending[j].row, wonTx')
  BY <1>3, WonGrows DEF SeenInv
<1>5. CASE UNCHANGED <<file, vfile, index, pending>>
  BY <1>4, <1>5
<1>6. ASSUME NEW s \in Sessions, Insert(s) PROVE SeenInv'
  <2>1. PICK r : r = Rec(tx[s], "insert", 0)
    OBVIOUS
  <2>2. PICK p : p = [row |-> RowOf(r), ts |-> IF pc[s] = "out" THEN Tick(clock) ELSE Mark(tx[s])]
    OBVIOUS
  <2>3. pending' = Append(pending, p) /\ UNCHANGED <<file, vfile, index>>
    BY <1>6, <2>1, <2>2 DEF Insert, diskVars
  <2>4. r.tx = tx[s] /\ r.proc \in Nat /\ r.n \in Nat
    BY <1>1, <2>1, Spans, SMTT(30) DEF Rec, TypeOK
  <2>5. p \in PendingRow /\ p.row.tx = tx[s] /\ p.ts = IF pc[s] = "out" THEN Tick(clock) ELSE Mark(tx[s])
    BY <1>2, <2>2, <2>4, Spans DEF PendingRow, RowOf, Row
  <2>6. Committed(p.ts) => Won(p.row, wonTx')
    <3>1. CASE pc[s] = "out"
      BY <2>5, <3>1 DEF OwnInv, Won
    <3>2. CASE pc[s] # "out"
      <4>1. p.ts = Mark(tx[s]) /\ ~Committed(Mark(tx[s]))
        BY <1>2, <2>5, <3>2
      <4> QED  BY <4>1
    <3> QED  BY <3>1, <3>2
  <2>7. \A j \in DOMAIN pending' :
        \/ j \in DOMAIN pending /\ pending'[j] = pending[j]
        \/ pending'[j] = p
    BY <1>1, <2>3, <2>5, PendEffect, SeqTypes
  <2> QED  BY <1>4, <2>3, <2>6, <2>7 DEF SeenInv
<1>7. ASSUME NEW s \in Sessions, NEW ts \in Ts, Stamp(ws[s], tx[s], ts),
             UNCHANGED <<file, vfile>>, Committed(ts) => pc[s] = "commit"
      PROVE  SeenInv'
  <2>1. ASSUME Committed(ts), NEW i \in ws[s] PROVE Won(RowAt(i), wonTx')
    <3>1. RowAt(i).tx = tx[s] /\ <<restarts, tx[s]>> \in wonTx'
      BY <1>3, <1>7, <2>1 DEF OwnInv
    <3> QED  BY <3>1 DEF Won
  <2>2. /\ DOMAIN index' = DOMAIN index
        /\ \A i \in DOMAIN index : index'[i] = index[i] \/ (index'[i] = ts /\ i \in ws[s])
        /\ DOMAIN pending' = DOMAIN pending
        /\ \A j \in DOMAIN pending :
              /\ pending'[j].row = pending[j].row
              /\ \/ pending'[j].ts = pending[j].ts
                 \/ pending'[j].ts = ts /\ Len(file) + j \in ws[s]
    BY <1>1, <1>7, StampEffect
  <2>3. \A i \in DOMAIN index : RowAt(i) = file[i].row
    BY <1>1, <1>2, SeqTypes DEF RowAt
  <2>4. \A j \in DOMAIN pending : RowAt(Len(file) + j) = pending[j].row
    <3> SUFFICES ASSUME NEW j \in DOMAIN pending PROVE RowAt(Len(file) + j) = pending[j].row
      OBVIOUS
    <3>1. ~(Len(file) + j <= Len(file)) /\ (Len(file) + j) - Len(file) = j
      BY <1>1, SeqTypes
    <3> QED  BY <3>1 DEF RowAt
  <2>5. \A i \in DOMAIN index' : Committed(index'[i]) => Won(file'[i].row, wonTx')
    BY <1>4, <1>7, <2>1, <2>2, <2>3
  <2>6. \A j \in DOMAIN pending' : Committed(pending'[j].ts) => Won(pending'[j].row, wonTx')
    BY <1>4, <2>1, <2>2, <2>4
  <2> QED  BY <1>4, <1>7, <2>5, <2>6 DEF SeenInv
<1>8. ASSUME NEW s \in Sessions, FinishCommit(s) PROVE SeenInv'
  <2>1. Stamp(ws[s], tx[s], cts[s]) /\ UNCHANGED <<file, vfile>> /\ pc[s] = "commit"
    BY <1>8 DEF FinishCommit
  <2> QED  BY <1>2, <1>7, <2>1
<1>9. ASSUME NEW s \in Sessions, Rollback(s) PROVE SeenInv'
  <2>1. Stamp(ws[s], tx[s], AbortedTs) /\ UNCHANGED <<file, vfile>>
    BY <1>9 DEF Rollback, diskVars
  <2> QED  BY <1>2, <1>7, <2>1
<1>10. ASSUME FlushPending, vfile' = vfile \/ vfile' = [st |-> "torn", entries |-> <<>>]
       PROVE  SeenInv'
  <2>1. /\ \A i \in DOMAIN file : file'[i] = file[i]
        /\ \A j \in DOMAIN pending : file'[Len(file) + j].row = pending[j].row
        /\ pending' = <<>>
        /\ DOMAIN index' = DOMAIN index \cup (Len(file) + 1 .. RowCount)
        /\ \A i \in DOMAIN index : index'[i] = index[i]
        /\ \A j \in DOMAIN pending : index'[Len(file) + j] = pending[j].ts
    BY <1>1, <1>10, FlushEffect
  <2>2. \A i \in Len(file) + 1 .. RowCount : \E j \in DOMAIN pending : i = Len(file) + j
    <3>1. ASSUME NEW i \in Len(file) + 1 .. RowCount
          PROVE  i - Len(file) \in DOMAIN pending /\ i = Len(file) + (i - Len(file))
      BY <1>1, SeqTypes
    <3> QED  BY <3>1
  <2>3. \A i \in DOMAIN index' : Committed(index'[i]) => Won(file'[i].row, wonTx')
    BY <1>2, <1>4, <2>1, <2>2
  <2>4. \A i \in DOMAIN vfile'.entries : Committed(vfile'.entries[i]) => Won(file'[i].row, wonTx')
    <3>1. CASE vfile' = vfile
      BY <1>2, <1>4, <2>1, <3>1
    <3>2. CASE vfile' = [st |-> "torn", entries |-> <<>>]
      <4>1. DOMAIN vfile'.entries = {}
        BY <3>2
      <4> QED  BY <4>1
    <3> QED  BY <1>10, <3>1, <3>2
  <2>5. DOMAIN pending' = {}
    BY <2>1
  <2> QED  BY <2>3, <2>4, <2>5 DEF SeenInv
<1>11. CASE Flush \/ CkptSave \/ CloseBegin
  <2>1. FlushPending /\ (vfile' = vfile \/ vfile' = [st |-> "torn", entries |-> <<>>])
    BY <1>11 DEF Flush, CkptSave, CloseBegin
  <2>2. SeenInv'
    BY <1>10, <2>1
  <2> QED  BY <2>2 DEF SeenInv
<1>12. ASSUME SaveIndex, file' = file
       PROVE  \A i \in DOMAIN vfile'.entries : Committed(vfile'.entries[i]) => Won(file'[i].row, wonTx')
  <2>1. vfile'.entries = index
    BY <1>12 DEF SaveIndex
  <2> QED  BY <1>4, <1>12, <2>1
<1>13. CASE CkptWrite
  BY <1>4, <1>12, <1>13 DEF CkptWrite, memVars
<1>14. CASE CloseEnd \/ Crash
  <2>1. DOMAIN index' = {} /\ DOMAIN pending' = {} /\ file' = file
    BY <1>14 DEF CloseEnd, Crash, MemoryGone
  <2>2. \A i \in DOMAIN vfile'.entries : Committed(vfile'.entries[i]) => Won(file'[i].row, wonTx')
    BY <1>4, <1>12, <1>14, <2>1 DEF CloseEnd, Crash
  <2> QED  BY <2>1, <2>2
<1>15. ASSUME NEW target \in Targets, Open(target) PROVE SeenInv'
  <2>1. Loadable /\ pending' = Replay(target) /\ UNCHANGED <<file, vfile, wonTx>>
    BY <1>15 DEF Open, diskVars
  <2>2. index' = vfile.entries
    BY <1>1, <1>15, <2>1, OpenClock
  <2>3. \A k \in DOMAIN pending' : Won(pending'[k].row, wonTx)
    BY <1>1, <2>1, ReplayEffect
  <2> QED  BY <1>4, <2>1, <2>2, <2>3 DEF SeenInv
<1>16. CASE \E s \in Sessions : Begin(s) \/ LogCommit(s)
  BY <1>5, <1>16 DEF Begin, LogCommit, diskVars
<1>17. CASE CkptBegin \/ CkptMetaOpen \/ CkptMeta \/ UNCHANGED vars
  BY <1>5, <1>17 DEF CkptBegin, CkptMetaOpen, CkptMeta, vars, diskVars, memVars
<1> QED
  BY <1>6, <1>8, <1>9, <1>11, <1>13, <1>14, <1>15, <1>16, <1>17 DEF Next, SeenInv

SeenParts == TypeParts /\ SessionsInv /\ OwnInv /\ SeenInv

\* They hold in every reachable state.
LEMMA SeenInvariant == Spec => []SeenParts
<1>1. Init => SeenParts
  <2>1. Init => TypeParts /\ SessionsInv
    BY InitType DEF Init, SessionsInv
  <2>2. Init => OwnInv /\ SeenInv
    BY DEF Init, OwnInv, SeenInv, NoFile
  <2> QED  BY <2>1, <2>2 DEF SeenParts
<1>2. SeenParts /\ [Next]_vars => SeenParts'
  BY TypeStep, SessionsStep, OwnStep, SeenStep DEF SeenParts
<1> QED  BY <1>1, <1>2, PTL DEF Spec

\* No crash, restart, replay or checkpoint makes a row of a transaction
\* visible that never committed, unless the index was lost and rebuilt from
\* the pages, or another process gave the transaction's id to one that did
\* commit.
THEOREM OnlyCommittedVisible == Spec => []VisibleCommitted
<1>1. SeenParts => VisibleCommitted
  <2> SUFFICES ASSUME SeenParts, ~rebuilt, NEW i \in 1 .. RowCount, NEW row, row = RowAt(i),
                      row.tx # 0, CommittedAt(i)
               PROVE  \E w \in wonTx : w = <<row.proc, row.tx>> \/ (w[2] = row.tx /\ w[1] # row.proc)
    BY DEF VisibleCommitted
  <2>1. TypeOK
    BY PartsOfType DEF SeenParts
  <2>2. Won(row, wonTx)
    <3>1. CASE i <= Len(file)
      BY <3>1 DEF SeenParts, SeenInv, RowAt, CommittedAt
    <3>2. CASE ~(i <= Len(file))
      <4>1. i - Len(file) \in DOMAIN pending
        BY <2>1, <3>2, SeqTypes
      <4> QED  BY <3>2, <4>1 DEF SeenParts, SeenInv, RowAt, CommittedAt
    <3> QED  BY <3>1, <3>2
  <2>3. PICK w \in wonTx : w[2] = row.tx
    BY <2>2 DEF Won
  <2>4. w = <<w[1], w[2]>>
    BY <2>1 DEF TypeOK
  <2> QED  BY <2>3, <2>4
<1> QED  BY <1>1, SeenInvariant, PTL

-----------------------------------------------------------------------------
(* The restored clock.                                                     *)

\* While records can be appended, the clock has a successor.
LEMMA ClockTicks ==
    ASSUME TypeOK, clock < kTxIdFlag + written, written < MaxRecords
    PROVE  Tick(clock) = clock + 1 /\ clock \in Nat /\ Tick(clock) < kTxIdFlag + (written + 1)
<1>1. clock \in Nat /\ written \in Nat
  BY Spans DEF TypeOK, Ts
<1>2. clock + 1 \in Nat /\ clock + 1 < TsSpan
  BY <1>1, Spans
<1>3. Tick(clock) = clock + 1
  BY <1>2, Spans, ModEffect DEF Tick
<1> QED  BY <1>1, <1>3, Spans

\* The clock only moves forward while the database is open, and nothing is
\* stamped with a time it has not reached.
LEMMA ClockStep ==
    ASSUME TypeParts, SessionsInv, ClockInv, [Next]_vars
    PROVE  ClockInv'
<1>1. TypeOK /\ BoundInv
  BY PartsOfType
<1>2. /\ DOMAIN index \subseteq DOMAIN file
      /\ \A s \in Sessions : cts[s] \in Ts /\ tx[s] \in 0 .. MaxTx
      /\ \A i \in DOMAIN index : index[i] \in Nat
      /\ \A j \in DOMAIN pending : pending[j].ts \in Nat /\ pending[j].row \in Row
      /\ \A s \in Sessions : cts[s] \in Nat
      /\ clock \in Nat /\ written \in Nat /\ Ts = 0 .. TsSpan - 1
      /\ ~Committed(AbortedTs) /\ AbortedTs \in Ts
      /\ Tick(clock) \in Ts /\ \A y \in 0 .. MaxTx : Mark(y) \in Ts /\ ~Committed(Mark(y))
  <2>1. Ts = 0 .. TsSpan - 1 /\ TsSpan \in Nat
    BY <1>1, Timestamps, Spans
  <2>2. \A x \in Ts : x \in Nat
    BY <2>1
  <2>3. /\ DOMAIN index \subseteq DOMAIN file /\ \A i \in DOMAIN index : index[i] \in Ts
        /\ \A s \in Sessions : cts[s] \in Ts /\ tx[s] \in 0 .. MaxTx
        /\ clock \in Ts
    BY <1>1 DEF TypeOK
  <2>4. written \in Nat
    BY <1>1, Spans DEF TypeOK
  <2>5. \A j \in DOMAIN pending : pending[j].ts \in Ts /\ pending[j].row \in Row
    BY <1>1, SeqTypes
  <2> QED  BY <1>1, <2>1, <2>2, <2>3, <2>4, <2>5, Timestamps
<1> SUFFICES ASSUME state' # "down", ~broken' PROVE ClockInv'
  BY DEF ClockInv
<1>3. ASSUME NEW target \in Targets, Open(target) PROVE ClockInv'
  <2>1. /\ state = "down" /\ pending' = Replay(target) /\ Committed(clock')
        /\ replayed' = {Len(file) + k : k \in DOMAIN pending'}
        /\ UNCHANGED <<file, pc, written>>
    BY <1>3 DEF Open, sessVars, diskVars
  <2>2. clock' \in Ts /\ \A i \in DOMAIN index' : index'[i] <= clock'
    BY <1>1, <1>3, OpenClock
  <2>3. \A s \in Sessions : pc'[s] = "out"
    BY <2>1 DEF SessionsInv
  <2>4. clock' < kTxIdFlag + written'
    BY <1>2, <2>1, <2>2, Spans DEF Committed
  <2>5. \A k \in DOMAIN pending' : Len(file') + k \in replayed'
    BY <2>1
  <2> QED  BY <2>2, <2>3, <2>4, <2>5 DEF ClockInv
<1>4. CASE CloseEnd \/ Crash
  BY <1>4 DEF CloseEnd, Crash
\* Everywhere else the claim held before.
<1> DEFINE Stays == state # "down" /\ ~broken /\ replayed' = replayed
<1>5. ASSUME Stays
      PROVE  /\ clock < kTxIdFlag + written
             /\ \A s \in Sessions : pc[s] = "commit" => cts[s] <= clock
             /\ \A i \in DOMAIN index : Committed(index[i]) => index[i] <= clock \/ i \in replayed
             /\ \A j \in DOMAIN pending :
                   Committed(pending[j].ts) => pending[j].ts <= clock \/ Len(file) + j \in replayed
  BY <1>5 DEF ClockInv
<1>6. ASSUME NEW s \in Sessions, Begin(s) PROVE ClockInv'
  <2>1. /\ Stays /\ written' = written + 1 /\ pc' = [pc EXCEPT ![s] = "in"]
        /\ UNCHANGED <<file, index, pending, clock, cts>>
    BY <1>6 DEF Begin, AppendRecord, pastVars, diskVars
  <2>2. clock' < kTxIdFlag + written'
    BY <1>2, <1>5, <2>1, Spans
  <2>3. \A t \in Sessions : pc'[t] = "commit" => pc[t] = "commit"
    BY <1>1, <2>1 DEF TypeOK
  <2> QED  BY <1>5, <2>1, <2>2, <2>3 DEF ClockInv
<1>7. ASSUME NEW s \in Sessions, LogCommit(s) PROVE ClockInv'
  <2>1. /\ Stays /\ written' = written + 1 /\ written < MaxRecords
        /\ clock' = Tick(clock) /\ cts' = [cts EXCEPT ![s] = Tick(clock)]
        /\ pc' = [pc EXCEPT ![s] = "commit"]
        /\ UNCHANGED <<file, index, pending>>
    BY <1>7 DEF LogCommit, AppendRecord, pastVars, diskVars
  <2>2. clock' = clock + 1 /\ clock' < kTxIdFlag + written'
    BY <1>1, <1>5, <2>1, ClockTicks
  <2>3. ASSUME NEW t \in Sessions, pc'[t] = "commit" PROVE cts'[t] <= clock'
    <3>1. CASE t = s
      <4>1. cts'[t] = clock'
        BY <1>1, <2>1, <3>1 DEF TypeOK
      <4> QED  BY <1>2, <2>2, <4>1
    <3>2. CASE t # s
      <4>1. cts'[t] = cts[t] /\ pc[t] = "commit"
        BY <1>1, <2>1, <2>3, <3>2 DEF TypeOK
      <4> QED  BY <1>2, <1>5, <2>1, <2>2, <4>1
    <3> QED  BY <3>1, <3>2
  <2>4. \A i \in DOMAIN index' : Committed(index'[i]) => index'[i] <= clock' \/ i \in replayed'
    BY <1>2, <1>5, <2>1, <2>2
  <2>5. \A j \in DOMAIN pending' :
           Committed(pending'[j].ts) => pending'[j].ts <= clock' \/ Len(file') + j \in replayed'
    BY <1>2, <1>5, <2>1, <2>2
  <2> QED  BY <2>2, <2>3, <2>4, <2>5 DEF ClockInv
<1>8. ASSUME NEW s \in Sessions, Insert(s) PROVE ClockInv'
  <2>1. PICK r : r = Rec(tx[s], "insert", 0)
    OBVIOUS
  <2>2. PICK p : p = [row |-> RowOf(r), ts |-> IF pc[s] = "out" THEN Tick(clock) ELSE Mark(tx[s])]
    OBVIOUS
  <2>3. /\ Stays /\ written' = written + 1 /\ written < MaxRecords
        /\ clock' = IF pc[s] = "out" THEN Tick(clock) ELSE clock
        /\ pending' = Append(pending, p)
        /\ UNCHANGED <<file, index, pc, cts>>
    BY <1>8, <2>1, <2>2 DEF Insert, AppendRecord, pastVars, diskVars
  <2>4. /\ clock <= clock' /\ clock' \in Nat /\ clock' < kTxIdFlag + written'
        /\ pc[s] = "out" => clock' = Tick(clock)
    <3>1. Tick(clock) = clock + 1 /\ Tick(clock) < kTxIdFlag + (written + 1)
      BY <1>1, <1>5, <2>3, ClockTicks
    <3> QED  BY <1>2, <1>5, <2>3, <3>1, Spans
  <2>5. r.tx = tx[s] /\ r.proc \in Nat /\ r.n \in Nat
    BY <1>1, <2>1, Spans DEF Rec, TypeOK
  <2>6. p \in PendingRow /\ p.ts = IF pc[s] = "out" THEN Tick(clock) ELSE Mark(tx[s])
    BY <1>2, <2>2, <2>5, Spans DEF PendingRow, RowOf, Row
  <2>7. Committed(p.ts) => p.ts <= clock'
    <3>1. CASE pc[s] = "out"
      BY <2>4, <2>6, <3>1
    <3>2. CASE pc[s] # "out"
      <4>1. p.ts = Mark(tx[s]) /\ ~Committed(Mark(tx[s]))
        BY <1>2, <2>6, <3>2
      <4> QED  BY <4>1
    <3> QED  BY <3>1, <3>2
  <2>8. \A j \in DOMAIN pending' :
        \/ j \in DOMAIN pending /\ pending'[j] = pending[j]
        \/ pending'[j] = p
    BY <1>1, <2>3, <2>6, PendEffect, SeqTypes
  <2>9. ASSUME NEW j \in DOMAIN pending', Committed(pending'[j].ts)
        PROVE  pending'[j].ts <= clock' \/ Len(file') + j \in replayed'
    <3>1. CASE j \in DOMAIN pending /\ pending'[j] = pending[j]
      BY <1>2, <1>5, <2>3, <2>4, <2>9, <3>1
    <3>2. CASE pending'[j] = p
      BY <2>7, <2>9, <3>2
    <3> QED  BY <2>8, <3>1, <3>2
  <2>10. \A i \in DOMAIN index' : Committed(index'[i]) => index'[i] <= clock' \/ i \in replayed'
    BY <1>2, <1>5, <2>3, <2>4
  <2>11. \A t \in Sessions : pc'[t] = "commit" => cts'[t] <= clock'
    BY <1>2, <1>5, <2>3, <2>4
  <2> QED  BY <2>4, <2>9, <2>10, <2>11 DEF ClockInv
<1>9. ASSUME NEW s \in Sessions, NEW ts \in Ts, Stays, Leave(s), Stamp(ws[s], tx[s], ts),
             UNCHANGED <<file, clock>>, written' \in {written, written + 1},
             Committed(ts) => ts <= clock
      PROVE  ClockInv'
  <2>1. /\ DOMAIN index' = DOMAIN index
        /\ \A i \in DOMAIN index : index'[i] = index[i] \/ index'[i] = ts
        /\ DOMAIN pending' = DOMAIN pending
        /\ \A j \in DOMAIN pending : pending'[j].ts = pending[j].ts \/ pending'[j].ts = ts
    BY <1>1, <1>9, StampEffect
  <2>2. \A t \in Sessions : pc'[t] = "commit" => pc[t] = "commit" /\ cts'[t] = cts[t]
    BY <1>1, <1>9 DEF Leave, TypeOK
  <2>3. clock' < kTxIdFlag + written'
    <3>1. clock < kTxIdFlag + written /\ clock' = clock
      BY <1>5, <1>9
    <3>2. written' = written \/ written' = written + 1
      BY <1>9
    <3> QED  BY <1>2, <3>1, <3>2, Spans, SMTT(30)
  <2>4. \A i \in DOMAIN index' : Committed(index'[i]) => index'[i] <= clock' \/ i \in replayed'
    BY <1>5, <1>9, <2>1
  <2>5. \A j \in DOMAIN pending' :
           Committed(pending'[j].ts) => pending'[j].ts <= clock' \/ Len(file') + j \in replayed'
    BY <1>5, <1>9, <2>1
  <2>6. \A t \in Sessions : pc'[t] = "commit" => cts'[t] <= clock'
    BY <1>5, <1>9, <2>2
  <2> QED  BY <2>3, <2>4, <2>5, <2>6 DEF ClockInv
<1>10. ASSUME NEW s \in Sessions, FinishCommit(s) PROVE ClockInv'
  <2>1. /\ Stays /\ Leave(s) /\ Stamp(ws[s], tx[s], cts[s]) /\ pc[s] = "commit"
        /\ UNCHANGED <<file, clock, written>>
    BY <1>10 DEF FinishCommit, pastVars
  <2>2. cts[s] <= clock
    BY <1>5, <2>1
  <2> QED  BY <1>2, <1>9, <2>1, <2>2
<1>11. ASSUME NEW s \in Sessions, Rollback(s) PROVE ClockInv'
  <2>1. /\ Stays /\ Leave(s) /\ Stamp(ws[s], tx[s], AbortedTs)
        /\ written' = written + 1 /\ UNCHANGED <<file, clock>>
    BY <1>11 DEF Rollback, AppendRecord, pastVars, diskVars
  <2> QED  BY <1>2, <1>9, <2>1
<1>12. CASE Flush \/ CkptSave \/ CloseBegin
  <2>1. /\ Stays /\ FlushPending /\ UNCHANGED <<clock, written>>
        /\ \A t \in Sessions : pc'[t] = "commit" => pc[t] = "commit" /\ cts'[t] = cts[t]
    BY <1>12 DEF Flush, CkptSave, CloseBegin, SessionsGone, pastVars, sessVars
  <2>2. /\ pending' = <<>>
        /\ DOMAIN index' = DOMAIN index \cup (Len(file) + 1 .. RowCount)
        /\ \A i \in DOMAIN index : index'[i] = index[i]
        /\ \A j \in DOMAIN pending : index'[Len(file) + j] = pending[j].ts
    BY <1>1, <2>1, FlushEffect
  <2>3. \A i \in Len(file) + 1 .. RowCount : \E j \in DOMAIN pending : i = Len(file) + j
    <3>1. ASSUME NEW i \in Len(file) + 1 .. RowCount
          PROVE  i - Len(file) \in DOMAIN pending /\ i = Len(file) + (i - Len(file))
      BY <1>1, SeqTypes
    <3> QED  BY <3>1
  <2>4. \A i \in DOMAIN index' : Committed(index'[i]) => index'[i] <= clock' \/ i \in replayed'
    BY <1>5, <2>1, <2>2, <2>3
  <2>5. DOMAIN pending' = {}
    BY <2>2
  <2> QED  BY <1>5, <2>1, <2>4, <2>5 DEF ClockInv
<1>13. CASE CkptBegin \/ CkptWrite \/ CkptMetaOpen \/ CkptMeta \/ UNCHANGED vars
  <2>1. Stays /\ UNCHANGED <<file, index, pending, clock, written, pc, cts>>
    BY <1>13 DEF CkptBegin, CkptWrite, CkptMetaOpen, CkptMeta, vars, pastVars, sessVars,
                 memVars, diskVars
  <2> QED  BY <1>5, <2>1 DEF ClockInv
<1> QED
  BY <1>3, <1>4, <1>6, <1>7, <1>8, <1>10, <1>11, <1>12, <1>13 DEF Next

\* When a process has restored its clock from timestamps without the flag, no
\* snapshot it takes is older than a committed row its index holds, but for
\* the rows it has just replayed from the log.
THEOREM ClockRestored == Spec => []ClockAhead
<1>1. Init => ClockInv
  BY Spans DEF Init, ClockInv
<1>2. TypeParts /\ SessionsInv /\ ClockInv /\ [Next]_vars => ClockInv'
  BY ClockStep
<1>3. TypeParts /\ ClockInv => ClockAhead
  <2>1. TypeParts => state \in {"open", "closing", "down"}
    BY PartsOfType DEF TypeOK
  <2> QED  BY <2>1 DEF ClockInv, ClockAhead
<1> QED  BY <1>1, <1>2, <1>3, TypeInvariant, PTL DEF Spec

===============================================================================
