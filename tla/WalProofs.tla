------------------------------ MODULE WalProofs ------------------------------
(***************************************************************************)
(* Proofs about module Wal, for any number of sessions, records, crashes   *)
(* and restarts and any segment size.                                      *)
(***************************************************************************)
EXTENDS Wal, ExtremaLemmas

\* The records of a file or of the buffer.
Recs(q) == {q[i] : i \in 1 .. Len(q)}

Whole(r) == r.type \notin Torn

-----------------------------------------------------------------------------
(* The inductive invariant.                                                *)

\* LSNs and segment names are bounded by the number of records, so that the
\* scan of open() and the search for the last segment have a result.
BoundInv ==
    /\ nextLsn <= written + 1
    /\ \A g \in DOMAIN log : g <= written + 1 /\ \A r \in Recs(log[g]) : r.lsn <= written
    /\ \A r \in Recs(buf) : r.lsn <= written

TypeInv == TypeOK /\ BoundInv

\* Nothing of a process outlives it but the files.
StoppedInv ==
    state # "open" =>
        /\ buf = <<>> /\ ckpt = "idle"
        /\ \A s \in Sessions : pc[s] = "out" /\ start[s] = 0 /\ mine[s] = {}

\* A transaction with records is in active_txns_, and its BEGIN came first.
SessInv ==
    \A s \in Sessions :
        /\ pc[s] \in {"out", "begun"} => mine[s] = {}
        /\ pc[s] \in {"in", "flush"} => s \in active
        /\ start[s] <= nextLsn
        /\ \A r \in mine[s] : start[s] <= r.lsn

\* The checkpoint's LSN was the next one when it began; what it is about to
\* remove is older than every record of a running transaction.
CkptInv ==
    /\ ckpt \in {"flushed", "saved", "remove"} => ckptLsn <= nextLsn
    /\ ckpt \in {"saved", "remove"} => meta = ckptLsn
    /\ ckpt = "flushed" /\ ~reused => meta <= ckptLsn
    /\ ckpt = "remove" => /\ safe <= ckptLsn
                          /\ \A s \in Sessions : \A r \in mine[s] : safe <= r.lsn

\* Only whole records are acknowledged or wait for it.
WholeInv ==
    /\ \A r \in acked : Whole(r)
    /\ \A s \in Sessions : \A r \in mine[s] : Whole(r)

\* While the log is open, the file that is written is there and is the last
\* one, and the next LSN lies beyond everything that was written.
LastInv ==
    state = "open" /\ ~reused =>
        /\ cur \in DOMAIN log /\ cur <= nextLsn /\ meta <= nextLsn
        /\ \A g \in DOMAIN log : g <= cur
        /\ \A g \in DOMAIN log : \A r \in Recs(log[g]) : Whole(r) => r.lsn < nextLsn
        /\ \A r \in Recs(buf) : r.lsn < nextLsn

\* A segment ends before the next one starts: its name tells what is in it.
OrderInv ==
    ~reused => \A g, h \in DOMAIN log :
                  g < h => \A r \in Recs(log[g]) : Whole(r) => r.lsn < h

UserInv == StoppedInv /\ SessInv /\ CkptInv /\ WholeInv
FilesInv == LastInv /\ OrderInv

-----------------------------------------------------------------------------
(* Lemmas about records and files.                                         *)

\* A concatenation has the records of both parts.
LEMMA RecsConcat ==
    ASSUME NEW p \in Seq(Record), NEW q \in Seq(Record)
    PROVE  p \o q \in Seq(Record) /\ Recs(p \o q) = Recs(p) \cup Recs(q)
<1>1. /\ p \o q \in Seq(Record) /\ Len(p \o q) = Len(p) + Len(q)
      /\ Len(p) \in Nat /\ Len(q) \in Nat
  OBVIOUS
<1>2. \A i \in 1 .. Len(p) : (p \o q)[i] = p[i] /\ i \in 1 .. Len(p \o q)
  BY <1>1
<1>3. \A i \in 1 .. Len(q) : (p \o q)[Len(p) + i] = q[i] /\ Len(p) + i \in 1 .. Len(p \o q)
  BY <1>1
<1>4. ASSUME NEW i \in 1 .. Len(p \o q) PROVE (p \o q)[i] \in Recs(p) \cup Recs(q)
  <2>1. CASE i <= Len(p)
    BY <1>1, <1>2, <2>1 DEF Recs
  <2>2. CASE i > Len(p)
    <3>1. i - Len(p) \in 1 .. Len(q) /\ i = Len(p) + (i - Len(p))
      BY <1>1, <2>2
    <3>2. (p \o q)[i] = q[i - Len(p)]
      BY <1>3, <3>1
    <3> QED  BY <3>1, <3>2 DEF Recs
  <2> QED  BY <1>1, <2>1, <2>2
<1>5. Recs(p \o q) \subseteq Recs(p) \cup Recs(q)
  BY <1>4 DEF Recs
<1>6. Recs(p) \subseteq Recs(p \o q)
  BY <1>2 DEF Recs
<1>7. Recs(q) \subseteq Recs(p \o q)
  BY <1>3 DEF Recs
<1> QED  BY <1>1, <1>5, <1>6, <1>7

\* An append adds one record.
LEMMA RecsAppend ==
    ASSUME NEW p \in Seq(Record), NEW r \in Record
    PROVE  Append(p, r) \in Seq(Record) /\ Recs(Append(p, r)) = Recs(p) \cup {r}
<1>1. /\ Append(p, r) \in Seq(Record) /\ Len(Append(p, r)) = Len(p) + 1 /\ Len(p) \in Nat
      /\ Append(p, r)[Len(p) + 1] = r
      /\ \A i \in 1 .. Len(p) : Append(p, r)[i] = p[i]
  OBVIOUS
<1>2. 1 .. Len(p) + 1 = 1 .. Len(p) \cup {Len(p) + 1}
  BY <1>1
<1> QED  BY <1>1, <1>2 DEF Recs

\* An empty file has none.
LEMMA RecsEmpty == Recs(<<>>) = {}
BY DEF Recs

\* A file with one record.
LEMMA RecsOne ==
    ASSUME NEW r \in Record
    PROVE  <<r>> \in Seq(Record) /\ Recs(<<r>>) = {r}
BY DEF Recs

\* The records of a well-typed file.
LEMMA RecsType ==
    ASSUME NEW p \in Seq(Record) PROVE Recs(p) \subseteq Record
BY DEF Recs

\* Held, in terms of the records of the files.
LEMMA HeldRecs ==
    ASSUME NEW r PROVE Held(r) <=> \E g \in DOMAIN log : r \in Recs(log[g])
BY DEF Held, Recs

\* file_.flush() adds the buffer to the current file and changes no other.
LEMMA FlushedEffect ==
    ASSUME TypeOK
    PROVE  /\ DOMAIN Flushed = DOMAIN log
           /\ \A g \in DOMAIN log : /\ Flushed[g] \in Seq(Record)
                                    /\ g # cur => Flushed[g] = log[g]
           /\ cur \in DOMAIN log => Recs(Flushed[cur]) = Recs(log[cur]) \cup Recs(buf)
<1>1. CASE cur \in DOMAIN log
  <2>1. log[cur] \in Seq(Record) /\ buf \in Seq(Record)
    BY <1>1 DEF TypeOK
  <2>2. /\ log[cur] \o buf \in Seq(Record)
        /\ Recs(log[cur] \o buf) = Recs(log[cur]) \cup Recs(buf)
    BY <2>1, RecsConcat
  <2>3. Flushed = [log EXCEPT ![cur] = log[cur] \o buf]
    BY <1>1 DEF Flushed
  <2>4. /\ DOMAIN Flushed = DOMAIN log /\ Flushed[cur] = log[cur] \o buf
        /\ \A g \in DOMAIN log : g # cur => Flushed[g] = log[g]
    BY <1>1, <2>3
  <2> QED  BY <2>2, <2>4 DEF TypeOK
<1>2. CASE cur \notin DOMAIN log
  BY <1>2 DEF Flushed, TypeOK
<1> QED  BY <1>1, <1>2

\* A new log directory holds the records of the old one, and in the current
\* file those of the buffer; nothing else.
Extends(dir) ==
    /\ DOMAIN log \subseteq DOMAIN dir
    /\ \A g \in DOMAIN log : Recs(log[g]) \subseteq Recs(dir[g])
    /\ \A g \in DOMAIN dir : \A q \in Recs(dir[g]) :
          g \in DOMAIN log /\ (q \in Recs(log[g]) \/ (g = cur /\ q \in Recs(buf)))

\* append_record takes the next LSN for r; a rotation writes the buffer out
\* and goes on in a file named after that LSN.
Appended(r) ==
    /\ r \in Record /\ r.lsn = nextLsn
    /\ state = "open" /\ written' = written + 1 /\ nextLsn' = nextLsn + 1
    /\ DOMAIN log' \subseteq Nat /\ \A g \in DOMAIN log' : log'[g] \in Seq(Record)
    /\ cur' \in Nat /\ buf' \in Seq(Record) /\ segSize' \in Nat
    /\ Extends(log')
    /\ r \in Recs(buf') /\ Recs(buf') \subseteq Recs(buf) \cup {r}
    /\ cur \in DOMAIN log => Recs(buf) \subseteq Recs(buf') \cup Recs(log'[cur])
    /\ \/ cur' = cur /\ DOMAIN log' = DOMAIN log
       \/ cur' = nextLsn /\ DOMAIN log' = DOMAIN log \cup {nextLsn}

\* That is what AppendRecord does.
LEMMA AppendEffect ==
    ASSUME TypeOK, NEW x \in Nat, NEW type \in RecordType, AppendRecord(x, type),
           NEW r, r = NewRecord(x, type)
    PROVE  Appended(r) /\ r.type = type
<1> USE DEF Appended
<1>0. /\ nextLsn \in Nat /\ cur \in Nat /\ buf \in Seq(Record) /\ segSize \in Nat
      /\ DOMAIN log \subseteq Nat /\ \A g \in DOMAIN log : log[g] \in Seq(Record)
  BY DEF TypeOK
<1>1. /\ r \in Record /\ r.lsn = nextLsn /\ r.type = type
  BY <1>0 DEF NewRecord, Record, TypeOK
<1>2. state = "open" /\ written' = written + 1 /\ nextLsn' = nextLsn + 1
  BY DEF AppendRecord
<1>3. CASE segSize >= kMaxSegmentSize
  <2>1. /\ log' = WithFile(Flushed, nextLsn) /\ cur' = nextLsn
        /\ buf' = <<r>> /\ segSize' = 1
    BY <1>3 DEF AppendRecord
  <2>2. Recs(buf') = {r} /\ buf' \in Seq(Record)
    BY <1>1, <2>1, RecsOne
  <2>3. /\ DOMAIN log' = DOMAIN log \cup {nextLsn}
        /\ \A g \in DOMAIN log : /\ log'[g] \in Seq(Record)
                                 /\ g # cur => log'[g] = log[g]
        /\ cur \in DOMAIN log => Recs(log'[cur]) = Recs(log[cur]) \cup Recs(buf)
        /\ nextLsn \notin DOMAIN log => log'[nextLsn] = <<>>
    <3>1. /\ DOMAIN log' = DOMAIN Flushed \cup {nextLsn}
          /\ \A h \in DOMAIN Flushed : log'[h] = Flushed[h]
          /\ nextLsn \notin DOMAIN Flushed => log'[nextLsn] = <<>>
      BY <2>1 DEF WithFile
    <3>2. /\ DOMAIN Flushed = DOMAIN log
          /\ \A g \in DOMAIN log : /\ Flushed[g] \in Seq(Record)
                                   /\ g # cur => Flushed[g] = log[g]
          /\ cur \in DOMAIN log => Recs(Flushed[cur]) = Recs(log[cur]) \cup Recs(buf)
      BY FlushedEffect
    <3> QED  BY <3>1, <3>2
  <2>4. \A g \in DOMAIN log' : log'[g] \in Seq(Record)
    <3>1. <<>> \in Seq(Record)
      OBVIOUS
    <3> QED  BY <2>3, <3>1
  <2>5. Extends(log')
    <3>1. ASSUME NEW g \in DOMAIN log PROVE Recs(log[g]) \subseteq Recs(log'[g])
      BY <2>3
    <3>2. ASSUME NEW g \in DOMAIN log', NEW q \in Recs(log'[g])
          PROVE  g \in DOMAIN log /\ (q \in Recs(log[g]) \/ (g = cur /\ q \in Recs(buf)))
      BY <2>3, RecsEmpty
    <3>3. DOMAIN log \subseteq DOMAIN log'
      BY <2>3
    <3> QED  BY <3>1, <3>2, <3>3 DEF Extends
  <2> QED  BY <1>0, <1>1, <1>2, <2>1, <2>2, <2>3, <2>4, <2>5
<1>4. CASE ~(segSize >= kMaxSegmentSize)
  <2>1. buf' = Append(buf, r) /\ segSize' = segSize + 1 /\ log' = log /\ cur' = cur
    BY <1>4 DEF AppendRecord
  <2>2. buf' \in Seq(Record) /\ Recs(buf') = Recs(buf) \cup {r}
    BY <1>0, <1>1, <2>1, RecsAppend
  <2>3. Extends(log')
    BY <2>1 DEF Extends
  <2> QED  BY <1>0, <1>1, <1>2, <2>1, <2>2, <2>3
<1> QED  BY <1>3, <1>4

\* A crash leaves the files as they are, but the current one may have got
\* records of the buffer, the last of them torn.
LEMMA CrashEffect ==
    ASSUME TypeOK, Crash
    PROVE  /\ DOMAIN log' = DOMAIN log
           /\ \A g \in DOMAIN log : /\ log'[g] \in Seq(Record)
                                    /\ g # cur => log'[g] = log[g]
                                    /\ Recs(log[g]) \subseteq Recs(log'[g])
           /\ \A g \in DOMAIN log : \A q \in Recs(log'[g]) :
                 \/ q \in Recs(log[g])
                 \/ g = cur /\ \E p \in Recs(buf) : q.lsn = p.lsn /\ (Whole(q) => q = p)
<1>0. PICK n \in 0 .. Len(buf) :
         \E tail \in {<<>>} \cup (IF n = Len(buf) THEN {}
                                  ELSE {<<[buf[n + 1] EXCEPT !.type = k]>> : k \in Torn}) :
            log' = IF cur \in DOMAIN log THEN [log EXCEPT ![cur] = @ \o SubSeq(buf, 1, n) \o tail] ELSE log
  BY DEF Crash
<1>1. PICK tail \in {<<>>} \cup (IF n = Len(buf) THEN {}
                                 ELSE {<<[buf[n + 1] EXCEPT !.type = k]>> : k \in Torn}) :
         log' = IF cur \in DOMAIN log THEN [log EXCEPT ![cur] = @ \o SubSeq(buf, 1, n) \o tail] ELSE log
  BY <1>0
<1>2. buf \in Seq(Record) /\ Len(buf) \in Nat
  BY DEF TypeOK
<1> DEFINE kept == SubSeq(buf, 1, n)
<1>3. kept \in Seq(Record) /\ Recs(kept) \subseteq Recs(buf)
  <2>1. kept \in Seq(Record) /\ Len(kept) = n /\ \A i \in 1 .. n : kept[i] = buf[i]
    BY <1>2
  <2>2. \A i \in 1 .. n : i \in 1 .. Len(buf)
    BY <1>2
  <2> HIDE DEF kept
  <2> QED  BY <2>1, <2>2 DEF Recs
<1>4. /\ tail \in Seq(Record)
      /\ \A q \in Recs(tail) : \E p \in Recs(buf) : q.lsn = p.lsn /\ (Whole(q) => q = p)
  <2>1. CASE tail = <<>>
    BY <2>1, RecsEmpty
  <2>2. CASE tail # <<>>
    <3>1. PICK k \in Torn : n # Len(buf) /\ tail = <<[buf[n + 1] EXCEPT !.type = k]>>
      BY <1>1, <2>2
    <3>2. n + 1 \in 1 .. Len(buf)
      BY <1>2, <3>1
    <3>3. buf[n + 1] \in Record /\ buf[n + 1] \in Recs(buf)
      BY <1>2, <3>2 DEF Recs
    <3> DEFINE t == [buf[n + 1] EXCEPT !.type = k]
    <3>4. t \in Record /\ t.lsn = buf[n + 1].lsn /\ t.type = k
      BY <3>1, <3>3 DEF Record, RecordType, Torn
    <3>5. tail = <<t>>
      BY <3>1
    <3> HIDE DEF t
    <3>6. tail \in Seq(Record) /\ Recs(tail) = {t}
      BY <3>4, <3>5, RecsOne
    <3>7. ~Whole(t)
      BY <3>1, <3>4 DEF Whole
    <3> QED  BY <3>3, <3>4, <3>6, <3>7
  <2> QED  BY <2>1, <2>2
<1>5. CASE cur \in DOMAIN log
  <2> DEFINE new == (log[cur] \o kept) \o tail
  <2>1. log[cur] \in Seq(Record)
    BY <1>5 DEF TypeOK
  <2>2. log[cur] \o kept \in Seq(Record) /\ Recs(log[cur] \o kept) = Recs(log[cur]) \cup Recs(kept)
    BY <1>3, <2>1, RecsConcat
  <2>3. new \in Seq(Record) /\ Recs(new) = Recs(log[cur]) \cup Recs(kept) \cup Recs(tail)
    BY <1>4, <2>2, RecsConcat
  <2>4. log' = [log EXCEPT ![cur] = new]
    BY <1>1, <1>5
  <2> HIDE DEF new, kept
  <2>5. /\ DOMAIN log' = DOMAIN log /\ log'[cur] = new
        /\ \A g \in DOMAIN log : g # cur => log'[g] = log[g]
    BY <1>5, <2>4
  <2>6. \A g \in DOMAIN log : log'[g] \in Seq(Record) /\ Recs(log[g]) \subseteq Recs(log'[g])
    BY <2>3, <2>5 DEF TypeOK
  <2>7. ASSUME NEW g \in DOMAIN log, NEW q \in Recs(log'[g]), q \notin Recs(log[g])
        PROVE  g = cur /\ \E p \in Recs(buf) : q.lsn = p.lsn /\ (Whole(q) => q = p)
    <3>1. g = cur /\ (q \in Recs(kept) \/ q \in Recs(tail))
      BY <2>3, <2>5, <2>7
    <3> QED  BY <1>3, <1>4, <3>1
  <2> QED  BY <2>5, <2>6, <2>7
<1>6. CASE cur \notin DOMAIN log
  <2>1. log' = log
    BY <1>1, <1>6
  <2> QED  BY <2>1 DEF TypeOK
<1> QED  BY <1>5, <1>6

\* The scan of open() gives an LSN that is at least where it starts and
\* beyond no more than what it read.
LEMMA ScanEffect ==
    ASSUME NEW recs \in Seq(Record), NEW from \in Nat, NEW b \in Nat, from <= b,
           \A r \in Recs(recs) : r.lsn + 1 <= b,
           NEW c, c = ScannedLsn(recs, from)
    PROVE  c \in Nat /\ from <= c /\ c <= b
<1> DEFINE seen == {i \in 1 .. Len(recs) :
                      /\ recs[i].type # "tornHeader"
                      /\ \A j \in 1 .. i - 1 : recs[j].type \notin Torn}
           lsns == {recs[i].lsn + 1 : i \in seen} \cup {from}
<1>1. \A i \in seen : recs[i] \in Recs(recs) /\ recs[i].lsn \in Nat
  <2>1. \A i \in 1 .. Len(recs) : recs[i] \in Record /\ recs[i] \in Recs(recs)
    BY DEF Recs
  <2>2. \A r \in Record : r.lsn \in Nat
    BY DEF Record
  <2> QED  BY <2>1, <2>2
<1>2. lsns \subseteq Nat /\ lsns # {} /\ from \in lsns /\ \A n \in lsns : n <= b
  BY <1>1
<1>3. c = CHOOSE m \in lsns : \A n \in lsns : n <= m
  BY DEF ScannedLsn
<1> HIDE DEF lsns
<1> QED  BY <1>2, <1>3, ChooseGreatest

\* The last segment of a directory that has one.
LEMMA LastSegmentEffect ==
    ASSUME TypeInv, DOMAIN log # {}
    PROVE  LastSegment \in DOMAIN log /\ \A g \in DOMAIN log : g <= LastSegment
<1>1. /\ DOMAIN log \in SUBSET Nat /\ written + 1 \in Nat
      /\ \A g \in DOMAIN log : g <= written + 1
  BY DEF TypeInv, TypeOK, BoundInv
<1> QED  BY <1>1, ChooseGreatest DEF LastSegment

\* What open() does to the log.
LEMMA OpenEffect ==
    ASSUME TypeInv, Open
    PROVE  /\ DOMAIN log' = DOMAIN log \cup {cur'} /\ cur' \in Nat
           /\ \A g \in DOMAIN log : log'[g] = log[g] /\ g <= cur'
           /\ cur' \notin DOMAIN log => log'[cur'] = <<>>
           /\ nextLsn' \in Nat \ {0} /\ nextLsn' <= written + 1
           /\ cur' <= written + 1
           /\ cur' \in DOMAIN log \/ DOMAIN log = {}
<1>1. /\ DOMAIN log \subseteq Nat /\ \A g \in DOMAIN log : log[g] \in Seq(Record)
      /\ written \in Nat /\ nextLsn \in Nat \ {0} /\ nextLsn <= written + 1
      /\ \A g \in DOMAIN log : g <= written + 1 /\ \A r \in Recs(log[g]) : r.lsn <= written
  BY DEF TypeInv, TypeOK, BoundInv
<1>2. log' = WithFile(log, cur')
  BY DEF Open
<1>3. /\ DOMAIN log' = DOMAIN log \cup {cur'}
      /\ \A g \in DOMAIN log : log'[g] = log[g]
      /\ cur' \notin DOMAIN log => log'[cur'] = <<>>
  BY <1>2 DEF WithFile
<1>4. CASE DOMAIN log = {}
  <2>1. cur' = 1 /\ nextLsn' = 1
    BY <1>4 DEF Open
  <2> QED  BY <1>1, <1>3, <1>4, <2>1
<1>5. CASE DOMAIN log # {}
  <2>1. cur' = LastSegment /\ cur' \in DOMAIN log /\ \A g \in DOMAIN log : g <= cur'
    BY <1>5, LastSegmentEffect DEF Open
  <2>2. PICK from \in {1} \cup (IF state = "closed" THEN {nextLsn} ELSE {}) :
           nextLsn' = ScannedLsn(log[LastSegment], from)
    BY <1>5 DEF Open
  <2>3. from \in Nat \ {0} /\ from <= written + 1
    BY <1>1, <2>2
  <2>4. \A r \in Recs(log[LastSegment]) : r.lsn + 1 <= written + 1
    <3>1. \A r \in Recs(log[LastSegment]) : r.lsn \in Nat /\ r.lsn <= written
      BY <1>1, <2>1, RecsType DEF Record
    <3> QED  BY <1>1, <3>1
  <2>5. log[LastSegment] \in Seq(Record)
    BY <1>1, <2>1
  <2>6. nextLsn' \in Nat /\ from <= nextLsn' /\ nextLsn' <= written + 1
    BY <1>1, <2>2, <2>3, <2>4, <2>5, ScanEffect
  <2> QED  BY <1>1, <1>3, <2>1, <2>3, <2>6
<1> QED  BY <1>4, <1>5

-----------------------------------------------------------------------------
(* Type correctness.                                                       *)

\* The files of the log, and the bounds on what is in them.
WalType ==
    /\ DOMAIN log \subseteq Nat /\ \A g \in DOMAIN log : log[g] \in Seq(Record)
    /\ cur \in Nat /\ buf \in Seq(Record)
    /\ nextLsn \in Nat \ {0} /\ segSize \in Nat /\ written \in Nat
    /\ BoundInv

\* Everything else.
UserType ==
    /\ state \in {"open", "crashed", "closed"}
    /\ nextTx \in Nat
    /\ pc \in [Sessions -> {"out", "begun", "in", "flush"}]
    /\ tx \in [Sessions -> Nat] /\ start \in [Sessions -> Nat]
    /\ mine \in [Sessions -> SUBSET Record]
    /\ active \in SUBSET Sessions
    /\ ckpt \in {"idle", "flushed", "saved", "remove"}
    /\ ckptLsn \in Nat /\ safe \in Nat /\ meta \in Nat
    /\ acked \in SUBSET Record
    /\ reused \in BOOLEAN /\ restarts \in Nat

\* The two parts together.
LEMMA TypeParts == TypeInv <=> WalType /\ UserType
BY DEF TypeInv, TypeOK, WalType, UserType

\* Appending a record keeps the log well-typed and bounded.
LEMMA AppendType ==
    ASSUME TypeInv, NEW x \in Nat, NEW type \in RecordType, AppendRecord(x, type)
    PROVE  WalType'
<1>0. PICK r : r = NewRecord(x, type)
  OBVIOUS
<1>1. TypeOK /\ BoundInv
  BY DEF TypeInv
<1>2. Appended(r)
  BY <1>0, <1>1, AppendEffect
<1> USE DEF Appended
<1>3. nextLsn \in Nat \ {0} /\ written \in Nat /\ nextLsn <= written + 1
  BY <1>1 DEF TypeOK, BoundInv
<1>4. ASSUME NEW q \in Record, q.lsn <= written PROVE q.lsn <= written'
  BY <1>2, <1>3, <1>4 DEF Record
<1>5. \A q \in Recs(buf') : q.lsn <= written'
  <2>1. \A q \in Recs(buf) : q \in Record /\ q.lsn <= written
    BY <1>1, RecsType DEF TypeOK, BoundInv
  <2>2. nextLsn <= written'
    BY <1>2, <1>3
  <2> QED  BY <1>2, <1>4, <2>1, <2>2
<1>6. ASSUME NEW g \in DOMAIN log' PROVE g <= written' + 1
  <2>1. g \in DOMAIN log => g \in Nat /\ g <= written + 1
    BY <1>1 DEF TypeOK, BoundInv
  <2> QED  BY <1>2, <1>3, <2>1
<1>7. ASSUME NEW g \in DOMAIN log', NEW q \in Recs(log'[g]) PROVE q.lsn <= written'
  <2>1. q \in Recs(log'[g]) => g \in DOMAIN log /\ (q \in Recs(log[g]) \/ (g = cur /\ q \in Recs(buf)))
    BY <1>2 DEF Extends
  <2>2. q \in Record /\ q.lsn <= written
    BY <1>1, <1>7, <2>1, RecsType DEF TypeOK, BoundInv
  <2> QED  BY <1>4, <2>2
<1>8. nextLsn' \in Nat \ {0} /\ written' \in Nat /\ nextLsn' <= written' + 1
  BY <1>2, <1>3
<1> QED  BY <1>2, <1>5, <1>6, <1>7, <1>8 DEF WalType, BoundInv

\* So does writing the buffer out, whole or in part.
LEMMA FlushType ==
    ASSUME TypeInv, UNCHANGED <<cur, nextLsn, written>>, segSize' \in Nat, buf' = <<>>,
           log' = Flushed \/ Crash
    PROVE  WalType'
<1>1. TypeOK /\ BoundInv
  BY DEF TypeInv
<1>2. /\ DOMAIN log' = DOMAIN log
      /\ \A g \in DOMAIN log : log'[g] \in Seq(Record)
      /\ \A g \in DOMAIN log : \A q \in Recs(log'[g]) :
            q \in Recs(log[g]) \/ \E p \in Recs(buf) : q.lsn = p.lsn
  <2>1. CASE log' = Flushed
    BY <1>1, <2>1, FlushedEffect
  <2>2. CASE Crash
    BY <1>1, <2>2, CrashEffect
  <2> QED  BY <2>1, <2>2
<1>3. \A g \in DOMAIN log : \A q \in Recs(log'[g]) : q.lsn <= written
  BY <1>1, <1>2 DEF BoundInv
<1>4. \A q \in Recs(buf') : q.lsn <= written
  BY RecsEmpty
<1>5. buf' \in Seq(Record)
  OBVIOUS
<1> QED  BY <1>1, <1>2, <1>3, <1>4, <1>5 DEF WalType, TypeOK, BoundInv

\* safe_lsn is the checkpoint's LSN or the start of a running transaction,
\* and no larger than any of them.
LEMMA SafeLsnEffect ==
    ASSUME TypeInv
    PROVE  /\ SafeLsn \in Nat /\ SafeLsn <= ckptLsn
           /\ \A s \in active : SafeLsn <= start[s]
<1> DEFINE lsns == {ckptLsn} \cup {start[s] : s \in active}
<1>1. lsns \in SUBSET Nat /\ lsns # {} /\ ckptLsn \in lsns /\ \A s \in active : start[s] \in lsns
  BY DEF TypeInv, TypeOK
<1>2. SafeLsn = CHOOSE m \in lsns : \A n \in lsns : m <= n
  BY DEF SafeLsn
<1> HIDE DEF lsns
<1> QED  BY <1>1, <1>2, ChooseLeast

\* The initial state is well-typed.
LEMMA InitType == Init => TypeInv
<1> SUFFICES ASSUME Init PROVE WalType /\ UserType
  BY TypeParts
<1>1. WalType
  <2>1. log = [g \in {1} |-> <<>>] /\ cur = 1 /\ buf = <<>> /\ nextLsn = 1 /\ segSize = 0 /\ written = 0
    BY DEF Init
  <2>2. DOMAIN log = {1} /\ log[1] = <<>> /\ <<>> \in Seq(Record)
    BY <2>1
  <2> QED  BY <2>1, <2>2, RecsEmpty DEF WalType, BoundInv
<1>2. UserType
  <2>1. reused \in BOOLEAN
    BY Zenon DEF Init
  <2> QED  BY <2>1 DEF Init, UserType, Idle, Zero, None
<1> QED  BY <1>1, <1>2

\* Every step keeps the types and the bounds.
LEMMA TypeStep == TypeInv /\ [Next]_vars => TypeInv'
<1> SUFFICES ASSUME TypeInv, [Next]_vars PROVE WalType' /\ UserType'
  BY TypeParts, PTL
<1>1. WalType /\ UserType
  BY TypeParts
<1> USE DEF UserType
<1>2. ASSUME NEW s \in Sessions, Begin(s) PROVE WalType' /\ UserType'
  <2>1. AppendRecord(nextTx, "begin") /\ nextTx \in Nat /\ nextLsn \in Nat
    BY <1>1, <1>2 DEF Begin, WalType
  <2>2. WalType'
    BY <2>1, AppendType DEF RecordType
  <2> QED  BY <1>1, <1>2, <2>1, <2>2 DEF Begin, ckptVars
<1>3. ASSUME NEW s \in Sessions, Register(s) PROVE WalType' /\ UserType'
  BY <1>1, <1>3 DEF Register, ckptVars, walVars, WalType, BoundInv
<1>4. ASSUME NEW s \in Sessions, Insert(s) PROVE WalType' /\ UserType'
  <2>1. AppendRecord(tx[s], "insert") /\ tx[s] \in Nat /\ NewRecord(tx[s], "insert") \in Record
    BY <1>1, <1>4 DEF Insert, WalType, NewRecord, Record, RecordType
  <2>2. WalType'
    BY <2>1, AppendType DEF RecordType
  <2> QED  BY <1>1, <1>4, <2>1, <2>2 DEF Insert, ckptVars
<1>5. ASSUME NEW s \in Sessions, AppendCommit(s) PROVE WalType' /\ UserType'
  <2>1. AppendRecord(tx[s], "commit") /\ tx[s] \in Nat /\ NewRecord(tx[s], "commit") \in Record
    BY <1>1, <1>5 DEF AppendCommit, WalType, NewRecord, Record, RecordType
  <2>2. WalType'
    BY <2>1, AppendType DEF RecordType
  <2> QED  BY <1>1, <1>5, <2>1, <2>2 DEF AppendCommit, ckptVars
<1>6. ASSUME NEW s \in Sessions, CommitFlush(s) PROVE WalType' /\ UserType'
  <2>1. WalType'
    BY <1>1, <1>6, FlushType DEF CommitFlush, WalType
  <2> QED  BY <1>1, <1>6, <2>1 DEF CommitFlush, Finish, ckptVars
<1>7. ASSUME NEW s \in Sessions, Rollback(s) PROVE WalType' /\ UserType'
  <2>1. AppendRecord(tx[s], "rollback") /\ tx[s] \in Nat
    BY <1>1, <1>7 DEF Rollback
  <2>2. WalType'
    BY <2>1, AppendType DEF RecordType
  <2> QED  BY <1>1, <1>7, <2>2 DEF Rollback, Finish, ckptVars
<1>8. CASE CkptBegin
  BY <1>1, <1>8 DEF CkptBegin, walVars, sessVars, WalType, BoundInv
<1>9. CASE CkptMeta
  BY <1>1, <1>9 DEF CkptMeta, walVars, sessVars, WalType, BoundInv
<1>10. CASE CkptOldest
  BY <1>1, <1>10, SafeLsnEffect DEF CkptOldest, walVars, sessVars, WalType, BoundInv
<1>11. CASE CkptRemove
  <2>1. /\ DOMAIN log' \subseteq DOMAIN log /\ \A g \in DOMAIN log' : log'[g] = log[g]
        /\ UNCHANGED <<cur, buf, nextLsn, segSize, written>>
    BY <1>11 DEF CkptRemove
  <2>2. WalType'
    BY <1>1, <2>1 DEF WalType, BoundInv
  <2> QED  BY <1>1, <1>11, <2>2 DEF CkptRemove, sessVars
<1>12. CASE Crash
  <2>1. WalType'
    BY <1>1, <1>12, FlushType DEF Crash, Stop, WalType
  <2> QED  BY <1>1, <1>12, <2>1 DEF Crash, Stop, Idle, Zero, None
<1>13. CASE Close
  <2>1. WalType'
    BY <1>1, <1>13, FlushType DEF Close, Stop, WalType
  <2> QED  BY <1>1, <1>13, <2>1 DEF Close, Stop, Idle, Zero, None
<1>14. CASE Open
  <2>1. /\ DOMAIN log' = DOMAIN log \cup {cur'} /\ cur' \in Nat
        /\ \A g \in DOMAIN log : log'[g] = log[g] /\ g <= cur'
        /\ cur' \notin DOMAIN log => log'[cur'] = <<>>
        /\ nextLsn' \in Nat \ {0} /\ nextLsn' <= written + 1
        /\ cur' <= written + 1
    BY <1>14, OpenEffect
  <2>2. UNCHANGED <<buf, written>> /\ segSize' = Len(log'[cur'])
    BY <1>14 DEF Open
  <2>3. \A g \in DOMAIN log' : log'[g] \in Seq(Record)
    <3>1. <<>> \in Seq(Record)
      OBVIOUS
    <3> QED  BY <1>1, <2>1, <3>1 DEF WalType
  <2>4. segSize' \in Nat
    BY <2>1, <2>2, <2>3
  <2>5. \A g \in DOMAIN log' : g <= written' + 1 /\ \A q \in Recs(log'[g]) : q.lsn <= written'
    BY <1>1, <2>1, <2>2, RecsEmpty DEF WalType, BoundInv
  <2>6. WalType'
    BY <1>1, <2>1, <2>2, <2>3, <2>4, <2>5 DEF WalType, BoundInv
  <2>7. reused' \in BOOLEAN
    BY <1>14, Zenon DEF Open
  <2> QED  BY <1>1, <1>14, <2>6, <2>7 DEF Open, sessVars, ckptVars
<1>15. CASE UNCHANGED vars
  BY <1>1, <1>15 DEF vars, walVars, sessVars, ckptVars, WalType, BoundInv
<1> QED
  BY <1>2, <1>3, <1>4, <1>5, <1>6, <1>7, <1>8, <1>9, <1>10, <1>11, <1>12, <1>13, <1>14, <1>15
  DEF Next

\* The variables of the log and its users keep their types, and the scan of
\* open() always finds an LSN (WalWriter, TransactionManager, checkpoint).
THEOREM WalTypeCorrect == Spec => []TypeOK
<1>1. TypeInv => TypeOK
  BY DEF TypeInv
<1> QED  BY <1>1, InitType, TypeStep, PTL DEF Spec

-----------------------------------------------------------------------------
(* Sessions and the checkpoint.                                            *)


\* A step that appends a record for a session: the record may join the
\* transaction's own, and the next LSN only grows.
LEMMA AppendUser ==
    ASSUME TypeInv, UserInv, NEW r, Appended(r), Whole(r), NEW s \in Sessions,
           UNCHANGED <<ckptVars, state, acked, reused>>,
           \A t \in Sessions \ {s} : /\ pc'[t] = pc[t] /\ start'[t] = start[t]
                                     /\ mine'[t] = mine[t] /\ (t \in active => t \in active'),
           mine'[s] \subseteq mine[s] \cup {r},
           pc'[s] \in {"out", "begun"} => mine'[s] = {},
           pc'[s] \in {"in", "flush"} => s \in active',
           start'[s] \in {start[s], nextLsn, 0},
           mine'[s] # {} => start'[s] = start[s]
    PROVE  UserInv'
<1>1. /\ r \in Record /\ r.lsn = nextLsn /\ state = "open" /\ nextLsn' = nextLsn + 1
  BY DEF Appended
<1>2. /\ nextLsn \in Nat /\ start \in [Sessions -> Nat] /\ mine \in [Sessions -> SUBSET Record]
      /\ ckptLsn \in Nat /\ safe \in Nat
  BY DEF TypeInv, TypeOK
<1>3. StoppedInv'
  BY <1>1 DEF StoppedInv
<1>4. SessInv'
  <2>1. ASSUME NEW t \in Sessions, t # s
        PROVE  /\ pc'[t] \in {"out", "begun"} => mine'[t] = {}
               /\ pc'[t] \in {"in", "flush"} => t \in active'
               /\ start'[t] <= nextLsn'
               /\ \A q \in mine'[t] : start'[t] <= q.lsn
    BY <1>1, <1>2, <2>1 DEF UserInv, SessInv
  <2>2. start'[s] <= nextLsn'
    BY <1>1, <1>2 DEF UserInv, SessInv
  <2>3. \A q \in mine'[s] : start'[s] <= q.lsn
    BY <1>1, <1>2 DEF UserInv, SessInv
  <2> QED  BY <2>1, <2>2, <2>3 DEF SessInv
<1>5. CkptInv'
  <2>1. UNCHANGED <<ckpt, ckptLsn, safe, meta, reused>>
    BY DEF ckptVars
  <2>2. ckpt \in {"flushed", "saved", "remove"} => ckptLsn <= nextLsn'
    BY <1>1, <1>2 DEF UserInv, CkptInv
  <2>3. ASSUME ckpt = "remove", NEW t \in Sessions, NEW q \in mine'[t] PROVE safe <= q.lsn
    <3>1. CASE q = r
      BY <1>1, <1>2, <2>3, <3>1 DEF UserInv, CkptInv
    <3>2. CASE q # r
      <4>1. q \in mine[t]
        BY <2>3, <3>2
      <4> QED  BY <2>3, <4>1 DEF UserInv, CkptInv
    <3> QED  BY <3>1, <3>2
  <2> QED  BY <2>1, <2>2, <2>3 DEF UserInv, CkptInv
<1>6. WholeInv'
  <2>1. ASSUME NEW t \in Sessions, NEW q \in mine'[t] PROVE Whole(q)
    <3>1. q = r \/ q \in mine[t]
      BY <2>1
    <3> QED  BY <3>1 DEF UserInv, WholeInv
  <2> QED  BY <2>1 DEF UserInv, WholeInv
<1> QED  BY <1>3, <1>4, <1>5, <1>6 DEF UserInv

\* Sessions and the checkpoint keep their part of the invariant.
LEMMA UserStep ==
    ASSUME TypeInv, UserInv, FilesInv, [Next]_vars
    PROVE  UserInv'
<1>1. /\ nextLsn \in Nat /\ start \in [Sessions -> Nat] /\ mine \in [Sessions -> SUBSET Record]
      /\ pc \in [Sessions -> {"out", "begun", "in", "flush"}] /\ tx \in [Sessions -> Nat]
      /\ nextTx \in Nat /\ active \in SUBSET Sessions
      /\ ckptLsn \in Nat /\ safe \in Nat /\ meta \in Nat /\ written \in Nat /\ TypeOK
  BY DEF TypeInv, TypeOK
<1>2. ASSUME NEW s \in Sessions, Begin(s) PROVE UserInv'
  <2>1. PICK r : r = NewRecord(nextTx, "begin")
    OBVIOUS
  <2>2. Appended(r) /\ Whole(r)
    BY <1>1, <1>2, <2>1, AppendEffect DEF Begin, RecordType, Torn, Whole
  <2> QED  BY <1>1, <1>2, <2>2, AppendUser DEF Begin, UserInv, SessInv
<1>3. ASSUME NEW s \in Sessions, Register(s) PROVE UserInv'
  <2>1. pc[s] = "begun" /\ state = "open" /\ mine[s] = {}
    BY <1>3 DEF Register, UserInv, StoppedInv, SessInv
  <2>2. /\ pc' = [pc EXCEPT ![s] = "in"] /\ active' = active \cup {s}
        /\ UNCHANGED <<log, cur, buf, nextLsn, tx, start, mine, ckpt, ckptLsn, safe, meta, state,
                       acked, reused>>
    BY <1>3 DEF Register, walVars, ckptVars
  <2>3. SessInv'
    BY <1>1, <2>1, <2>2 DEF UserInv, SessInv
  <2> QED  BY <2>1, <2>2, <2>3 DEF UserInv, StoppedInv, CkptInv, WholeInv
<1>4. ASSUME NEW s \in Sessions, Insert(s) PROVE UserInv'
  <2>1. PICK r : r = NewRecord(tx[s], "insert")
    OBVIOUS
  <2>2. Appended(r) /\ Whole(r)
    BY <1>1, <1>4, <2>1, AppendEffect DEF Insert, RecordType, Torn, Whole
  <2>3. /\ pc[s] \in {"out", "in"} /\ UNCHANGED <<pc, start, active>>
        /\ mine' = IF pc[s] = "out" THEN mine ELSE [mine EXCEPT ![s] = @ \cup {r}]
    BY <1>4, <2>1 DEF Insert
  <2>4. UNCHANGED <<ckptVars, state, acked, reused>>
    BY <1>4 DEF Insert
  <2> QED  BY <1>1, <2>2, <2>3, <2>4, AppendUser DEF UserInv, SessInv
<1>5. ASSUME NEW s \in Sessions, AppendCommit(s) PROVE UserInv'
  <2>1. PICK r : r = NewRecord(tx[s], "commit")
    OBVIOUS
  <2>2. Appended(r) /\ Whole(r)
    BY <1>1, <1>5, <2>1, AppendEffect DEF AppendCommit, RecordType, Torn, Whole
  <2>3. /\ pc[s] = "in" /\ pc' = [pc EXCEPT ![s] = "flush"] /\ UNCHANGED <<start, active>>
        /\ mine' = [mine EXCEPT ![s] = @ \cup {r}]
    BY <1>5, <2>1 DEF AppendCommit
  <2>4. UNCHANGED <<ckptVars, state, acked, reused>>
    BY <1>5 DEF AppendCommit
  <2> QED  BY <1>1, <2>2, <2>3, <2>4, AppendUser DEF UserInv, SessInv
<1>6. ASSUME NEW s \in Sessions, CommitFlush(s) PROVE UserInv'
  <2>1. pc[s] = "flush" /\ state = "open"
    BY <1>6 DEF CommitFlush, UserInv, StoppedInv
  <2>2. /\ pc' = [pc EXCEPT ![s] = "out"] /\ active' = active \ {s}
        /\ start' = [start EXCEPT ![s] = 0] /\ mine' = [mine EXCEPT ![s] = {}]
        /\ acked' = acked \cup mine[s]
        /\ UNCHANGED <<nextLsn, ckpt, ckptLsn, safe, meta, state, reused>>
    BY <1>6 DEF CommitFlush, Finish, ckptVars
  <2>3. SessInv'
    BY <1>1, <2>1, <2>2 DEF UserInv, SessInv
  <2>4. CkptInv' /\ WholeInv'
    BY <1>1, <2>2 DEF UserInv, CkptInv, WholeInv
  <2> QED  BY <2>1, <2>2, <2>3, <2>4 DEF UserInv, StoppedInv
<1>7. ASSUME NEW s \in Sessions, Rollback(s) PROVE UserInv'
  <2>1. PICK r : r = NewRecord(tx[s], "rollback")
    OBVIOUS
  <2>2. Appended(r) /\ Whole(r)
    BY <1>1, <1>7, <2>1, AppendEffect DEF Rollback, RecordType, Torn, Whole
  <2>3. /\ pc' = [pc EXCEPT ![s] = "out"] /\ active' = active \ {s}
        /\ start' = [start EXCEPT ![s] = 0] /\ mine' = [mine EXCEPT ![s] = {}]
    BY <1>7 DEF Rollback, Finish
  <2>4. UNCHANGED <<ckptVars, state, acked, reused>>
    BY <1>7 DEF Rollback
  <2> QED  BY <1>1, <2>2, <2>3, <2>4, AppendUser
<1>8. CASE CkptBegin
  <2>1. /\ state = "open" /\ ckptLsn' = nextLsn /\ ckpt' = "flushed"
        /\ UNCHANGED <<buf, nextLsn, pc, start, active, mine, safe, meta, state, acked, reused>>
    BY <1>8 DEF CkptBegin, walVars, sessVars
  <2>2. ~reused => meta <= nextLsn
    BY <2>1 DEF FilesInv, LastInv
  <2>3. CkptInv'
    BY <1>1, <2>1, <2>2 DEF CkptInv
  <2> QED  BY <2>1, <2>3 DEF UserInv, StoppedInv, SessInv, WholeInv
<1>9. CASE CkptMeta
  <2>1. /\ ckpt = "flushed" /\ state = "open"
        /\ UNCHANGED <<buf, nextLsn, pc, start, active, mine, safe, state, acked, reused>>
        /\ \/ meta' = ckptLsn /\ ckpt' = "saved" /\ ckptLsn' = ckptLsn
           \/ ckpt' = "idle" /\ ckptLsn' = 0 /\ meta' = meta
    BY <1>9 DEF CkptMeta, walVars, sessVars, UserInv, StoppedInv
  <2>2. CkptInv'
    BY <1>1, <2>1 DEF UserInv, CkptInv
  <2> QED  BY <2>1, <2>2 DEF UserInv, StoppedInv, SessInv, WholeInv
<1>10. CASE CkptOldest
  <2>1. /\ ckpt = "saved" /\ state = "open" /\ ckpt' = "remove" /\ safe' = SafeLsn
        /\ UNCHANGED <<buf, nextLsn, pc, start, active, mine, ckptLsn, meta, state, acked, reused>>
    BY <1>10 DEF CkptOldest, walVars, sessVars, UserInv, StoppedInv
  <2>2. SafeLsn \in Nat /\ SafeLsn <= ckptLsn /\ \A s \in active : SafeLsn <= start[s]
    BY SafeLsnEffect
  <2>3. ASSUME NEW s \in Sessions, NEW r \in mine[s] PROVE SafeLsn <= r.lsn
    <3>1. pc[s] \in {"in", "flush"} /\ s \in active /\ start[s] <= r.lsn
      BY <1>1 DEF UserInv, SessInv
    <3>2. start[s] \in Nat /\ r.lsn \in Nat /\ SafeLsn <= start[s]
      BY <1>1, <2>2, <3>1 DEF Record
    <3> QED  BY <2>2, <3>1, <3>2
  <2>4. CkptInv'
    BY <2>1, <2>2, <2>3 DEF UserInv, CkptInv
  <2> QED  BY <2>1, <2>4 DEF UserInv, StoppedInv, SessInv, WholeInv
<1>11. CASE CkptRemove
  <2>1. /\ ckpt = "remove" /\ state = "open" /\ ckpt' = "idle"
        /\ UNCHANGED <<buf, nextLsn, pc, start, active, mine, meta, state, acked, reused>>
    BY <1>11 DEF CkptRemove, sessVars, UserInv, StoppedInv
  <2> QED  BY <2>1 DEF UserInv, StoppedInv, SessInv, WholeInv, CkptInv
<1>12. CASE Crash \/ Close
  <2>1. /\ buf' = <<>> /\ ckpt' = "idle" /\ pc' = Idle /\ start' = Zero /\ mine' = None
        /\ UNCHANGED <<nextLsn, acked>>
    BY <1>12 DEF Crash, Close, Stop
  <2>2. \A s \in Sessions : pc'[s] = "out" /\ start'[s] = 0 /\ mine'[s] = {}
    BY <2>1 DEF Idle, Zero, None
  <2> QED  BY <1>1, <2>1, <2>2 DEF UserInv, StoppedInv, SessInv, WholeInv, CkptInv
<1>13. CASE Open
  <2>1. /\ state # "open" /\ state' = "open"
        /\ UNCHANGED <<buf, pc, start, active, mine, ckpt, ckptLsn, safe, meta, acked>>
    BY <1>13 DEF Open, sessVars, ckptVars
  <2>2. nextLsn' \in Nat
    BY <1>13, OpenEffect
  <2>3. ckpt = "idle" /\ \A s \in Sessions : pc[s] = "out" /\ start[s] = 0 /\ mine[s] = {}
    BY <2>1 DEF UserInv, StoppedInv
  <2>4. SessInv'
    BY <2>1, <2>2, <2>3 DEF SessInv
  <2> QED  BY <2>1, <2>3, <2>4 DEF UserInv, StoppedInv, WholeInv, CkptInv
<1>14. CASE UNCHANGED vars
  BY <1>14 DEF vars, walVars, sessVars, ckptVars, UserInv, StoppedInv, SessInv, WholeInv, CkptInv
<1> QED
  BY <1>2, <1>3, <1>4, <1>5, <1>6, <1>7, <1>8, <1>9, <1>10, <1>11, <1>12, <1>13, <1>14
  DEF Next

-----------------------------------------------------------------------------
(* The files: the current one is the last, and segments are in order.      *)

\* A directory that holds what it held and, in the current file, whole
\* records of the buffer: what every write to the log comes to.
Grown ==
    /\ DOMAIN log \subseteq DOMAIN log'
    /\ \A g \in DOMAIN log : Recs(log[g]) \subseteq Recs(log'[g])
    /\ \A g \in DOMAIN log' : \A q \in Recs(log'[g]) :
          Whole(q) => g \in DOMAIN log /\ (q \in Recs(log[g]) \/ (g = cur /\ q \in Recs(buf)))

\* A grown directory holds every record it held.
LEMMA GrownHeld ==
    ASSUME Grown, NEW q, Held(q) PROVE Held(q)'
<1>1. PICK g \in DOMAIN log : q \in Recs(log[g])
  BY HeldRecs
<1>2. g \in DOMAIN log' /\ q \in Recs(log'[g])
  BY <1>1 DEF Grown
<1> QED  BY <1>2 DEF Held, Recs

\* Writes to the log keep the files in order.
LEMMA GrownFiles ==
    ASSUME TypeInv, FilesInv, Grown, state = "open", UNCHANGED <<meta, reused>>,
           nextLsn' \in {nextLsn, nextLsn + 1},
           \/ cur' = cur /\ DOMAIN log' = DOMAIN log
           \/ cur' = nextLsn /\ DOMAIN log' = DOMAIN log \cup {nextLsn},
           \A q \in Recs(buf') : q \in Recs(buf) \/ (q.lsn = nextLsn /\ nextLsn' = nextLsn + 1)
    PROVE  FilesInv'
<1>1. nextLsn \in Nat /\ cur \in Nat /\ meta \in Nat /\ DOMAIN log \subseteq Nat
  BY DEF TypeInv, TypeOK
<1>2. /\ \A q \in Recs(buf) : q.lsn \in Nat
      /\ \A g \in DOMAIN log : \A q \in Recs(log[g]) : q.lsn \in Nat
  <2>1. \A q \in Record : q.lsn \in Nat
    BY DEF Record
  <2> QED  BY <2>1, RecsType DEF TypeInv, TypeOK
<1> SUFFICES ASSUME ~reused PROVE LastInv' /\ OrderInv'
  BY DEF FilesInv, LastInv, OrderInv
<1>3. /\ cur \in DOMAIN log /\ cur <= nextLsn /\ meta <= nextLsn
      /\ \A g \in DOMAIN log : g <= cur
      /\ \A g \in DOMAIN log : \A r \in Recs(log[g]) : Whole(r) => r.lsn < nextLsn
      /\ \A r \in Recs(buf) : r.lsn < nextLsn
  BY DEF FilesInv, LastInv
<1>4. \A g \in DOMAIN log' : \A q \in Recs(log'[g]) : Whole(q) => q.lsn \in Nat /\ q.lsn < nextLsn
  BY <1>2, <1>3 DEF Grown
<1>5. LastInv'
  <2>1. cur' \in DOMAIN log' /\ cur' <= nextLsn' /\ meta' <= nextLsn'
    BY <1>1, <1>3
  <2>2. \A g \in DOMAIN log' : g <= cur'
    BY <1>1, <1>3
  <2>3. \A g \in DOMAIN log' : \A q \in Recs(log'[g]) : Whole(q) => q.lsn < nextLsn'
    BY <1>1, <1>4
  <2>4. ASSUME NEW q \in Recs(buf') PROVE q.lsn < nextLsn'
    <3>1. CASE q \in Recs(buf)
      BY <1>1, <1>2, <1>3, <3>1
    <3>2. CASE q.lsn = nextLsn /\ nextLsn' = nextLsn + 1
      BY <1>1, <3>2
    <3> QED  BY <3>1, <3>2
  <2> QED  BY <2>1, <2>2, <2>3, <2>4 DEF LastInv
<1>6. ASSUME NEW g \in DOMAIN log', NEW h \in DOMAIN log', g < h,
             NEW q \in Recs(log'[g]), Whole(q)
      PROVE  q.lsn < h
  <2>1. g \in DOMAIN log /\ (q \in Recs(log[g]) \/ (g = cur /\ q \in Recs(buf)))
    BY <1>6 DEF Grown
  <2>2. CASE h \in DOMAIN log
    <3>1. g # cur
      BY <1>1, <1>3, <1>6, <2>2
    <3> QED  BY <1>6, <2>1, <2>2, <3>1 DEF FilesInv, OrderInv
  <2>3. CASE h \notin DOMAIN log
    <3>1. h = nextLsn
      BY <2>3
    <3> QED  BY <1>4, <1>6, <3>1
  <2> QED  BY <2>2, <2>3
<1> QED  BY <1>5, <1>6 DEF OrderInv

\* An append grows the directory.
LEMMA AppendGrows ==
    ASSUME NEW r, Appended(r) PROVE Grown
BY DEF Appended, Extends, Grown

\* So does a flush, and a crash that keeps part of the buffer.
LEMMA FlushGrows ==
    ASSUME TypeOK, log' = Flushed \/ Crash
    PROVE  Grown /\ DOMAIN log' = DOMAIN log
<1>1. CASE log' = Flushed
  BY <1>1, FlushedEffect DEF Grown
<1>2. CASE Crash
  <2>1. DOMAIN log' = DOMAIN log /\ \A g \in DOMAIN log : Recs(log[g]) \subseteq Recs(log'[g])
    BY <1>2, CrashEffect
  <2>2. ASSUME NEW g \in DOMAIN log, NEW q \in Recs(log'[g]), Whole(q)
        PROVE  q \in Recs(log[g]) \/ (g = cur /\ q \in Recs(buf))
    BY <1>2, <2>2, CrashEffect
  <2> QED  BY <2>1, <2>2 DEF Grown
<1> QED  BY <1>1, <1>2

\* What a session's step that appends does to the log.
LEMMA SessionAppends ==
    ASSUME TypeInv, NEW s \in Sessions, Begin(s) \/ Insert(s) \/ AppendCommit(s) \/ Rollback(s)
    PROVE  /\ \E r : /\ Appended(r)
                     /\ \A t \in Sessions : mine'[t] \subseteq mine[t] \cup {r}
           /\ UNCHANGED <<meta, reused, acked, state>>
<1>1. nextTx \in Nat /\ tx[s] \in Nat /\ TypeOK /\ mine \in [Sessions -> SUBSET Record]
  BY DEF TypeInv, TypeOK
<1>2. CASE Begin(s)
  <2>1. PICK r : r = NewRecord(nextTx, "begin")
    OBVIOUS
  <2>2. Appended(r)
    BY <1>1, <1>2, <2>1, AppendEffect DEF Begin, RecordType
  <2>3. UNCHANGED <<mine, meta, reused, acked, state>>
    BY <1>2 DEF Begin, ckptVars
  <2> QED  BY <2>2, <2>3
<1>3. CASE Insert(s)
  <2>1. PICK r : r = NewRecord(tx[s], "insert")
    OBVIOUS
  <2>2. Appended(r)
    BY <1>1, <1>3, <2>1, AppendEffect DEF Insert, RecordType
  <2>3. /\ mine' = IF pc[s] = "out" THEN mine ELSE [mine EXCEPT ![s] = @ \cup {r}]
        /\ UNCHANGED <<meta, reused, acked, state>>
    BY <1>3, <2>1 DEF Insert, ckptVars
  <2> QED  BY <1>1, <2>2, <2>3
<1>4. CASE AppendCommit(s)
  <2>1. PICK r : r = NewRecord(tx[s], "commit")
    OBVIOUS
  <2>2. Appended(r)
    BY <1>1, <1>4, <2>1, AppendEffect DEF AppendCommit, RecordType
  <2>3. /\ mine' = [mine EXCEPT ![s] = @ \cup {r}]
        /\ UNCHANGED <<meta, reused, acked, state>>
    BY <1>4, <2>1 DEF AppendCommit, ckptVars
  <2> QED  BY <1>1, <2>2, <2>3
<1>5. CASE Rollback(s)
  <2>1. PICK r : r = NewRecord(tx[s], "rollback")
    OBVIOUS
  <2>2. Appended(r)
    BY <1>1, <1>5, <2>1, AppendEffect DEF Rollback, RecordType
  <2>3. /\ mine' = [mine EXCEPT ![s] = {}]
        /\ UNCHANGED <<meta, reused, acked, state>>
    BY <1>5 DEF Rollback, Finish, ckptVars
  <2> QED  BY <1>1, <2>2, <2>3
<1> QED  BY <1>2, <1>3, <1>4, <1>5

\* What the checkpoint unlinks: segments other than the last whose records
\* all lie below safe_lsn.
LEMMA RemoveEffect ==
    ASSUME TypeInv, FilesInv, CkptRemove
    PROVE  /\ DOMAIN log' \subseteq DOMAIN log
           /\ \A g \in DOMAIN log' : log'[g] = log[g]
           /\ state = "open" /\ ~reused => cur \in DOMAIN log'
           /\ \A g \in DOMAIN log \ DOMAIN log' :
                 ~reused => \A q \in Recs(log[g]) : Whole(q) => q.lsn < safe
<1>1. log' = [g \in {h \in DOMAIN log : ~Removable(h, safe)} |-> log[g]]
  BY DEF CkptRemove
<1>2. /\ DOMAIN log' \subseteq DOMAIN log
      /\ \A g \in DOMAIN log' : log'[g] = log[g]
      /\ \A g \in DOMAIN log : g \notin DOMAIN log' <=> Removable(g, safe)
  BY <1>1
<1>3. DOMAIN log \subseteq Nat /\ safe \in Nat
  BY DEF TypeInv, TypeOK
<1>4. ASSUME state = "open", ~reused PROVE cur \in DOMAIN log'
  <2>1. cur \in DOMAIN log /\ \A g \in DOMAIN log : g <= cur
    BY <1>4 DEF FilesInv, LastInv
  <2>2. ~Removable(cur, safe)
    BY <1>3, <2>1 DEF Removable
  <2> QED  BY <1>2, <2>1, <2>2
<1>5. ASSUME NEW g \in DOMAIN log \ DOMAIN log', ~reused, NEW q \in Recs(log[g]), Whole(q)
      PROVE  q.lsn < safe
  <2>1. PICK h \in DOMAIN log : h > g /\ h <= safe
    BY <1>2, <1>5 DEF Removable
  <2>2. q.lsn < h
    BY <1>3, <1>5, <2>1 DEF FilesInv, OrderInv
  <2>3. q.lsn \in Nat
    <3>1. log[g] \in Seq(Record)
      BY <1>5 DEF TypeInv, TypeOK
    <3>2. q \in Record
      BY <1>5, <3>1, RecsType
    <3> QED  BY <3>2 DEF Record
  <2> QED  BY <1>3, <2>1, <2>2, <2>3
<1> QED  BY <1>2, <1>4, <1>5

\* Every step keeps the files in order.
LEMMA FilesStep ==
    ASSUME TypeInv, UserInv, FilesInv, [Next]_vars
    PROVE  FilesInv'
<1>1. TypeOK /\ nextLsn \in Nat
  BY DEF TypeInv, TypeOK
<1>2. ASSUME NEW s \in Sessions, Begin(s) \/ Insert(s) \/ AppendCommit(s) \/ Rollback(s)
      PROVE  FilesInv'
  <2>1. PICK r : Appended(r)
    BY <1>2, SessionAppends
  <2>2. UNCHANGED <<meta, reused>> /\ Grown
    BY <1>2, <2>1, SessionAppends, AppendGrows
  <2> QED  BY <2>1, <2>2, GrownFiles DEF Appended
<1>3. ASSUME NEW s \in Sessions, Register(s) PROVE FilesInv'
  BY <1>3 DEF Register, walVars, ckptVars, FilesInv, LastInv, OrderInv
<1>4. ASSUME NEW s \in Sessions, CommitFlush(s) PROVE FilesInv'
  <2>1. /\ log' = Flushed /\ buf' = <<>> /\ state = "open"
        /\ UNCHANGED <<cur, nextLsn, meta, reused>>
    BY <1>4 DEF CommitFlush, ckptVars, UserInv, StoppedInv
  <2>2. Grown /\ DOMAIN log' = DOMAIN log
    BY <1>1, <2>1, FlushGrows
  <2> QED  BY <2>1, <2>2, RecsEmpty, GrownFiles
<1>5. CASE CkptBegin
  BY <1>5 DEF CkptBegin, walVars, FilesInv, LastInv, OrderInv
<1>6. CASE CkptMeta
  <2>1. ckpt = "flushed" /\ meta' \in {meta, ckptLsn} /\ ckptLsn <= nextLsn
    BY <1>6 DEF CkptMeta, UserInv, CkptInv
  <2> QED  BY <1>6, <2>1 DEF CkptMeta, walVars, FilesInv, LastInv, OrderInv
<1>7. CASE CkptOldest
  BY <1>7 DEF CkptOldest, walVars, FilesInv, LastInv, OrderInv
<1>8. CASE CkptRemove
  <2>1. /\ DOMAIN log' \subseteq DOMAIN log
        /\ \A g \in DOMAIN log' : log'[g] = log[g]
        /\ state = "open" /\ ~reused => cur \in DOMAIN log'
    BY <1>8, RemoveEffect
  <2>2. UNCHANGED <<cur, buf, nextLsn, meta, state, reused>>
    BY <1>8 DEF CkptRemove
  <2> QED  BY <2>1, <2>2 DEF FilesInv, LastInv, OrderInv
<1>9. CASE Crash \/ Close
  <2>1. /\ log' = Flushed \/ Crash
        /\ buf' = <<>> /\ state = "open" /\ UNCHANGED <<cur, nextLsn, meta, reused>>
    BY <1>9 DEF Crash, Close, Stop
  <2>2. Grown /\ DOMAIN log' = DOMAIN log
    BY <1>1, <2>1, FlushGrows
  <2> QED  BY <2>1, <2>2, RecsEmpty, GrownFiles
<1>10. CASE Open
  <2>1. /\ DOMAIN log' = DOMAIN log \cup {cur'} /\ cur' \in Nat
        /\ \A g \in DOMAIN log : log'[g] = log[g] /\ g <= cur'
        /\ cur' \notin DOMAIN log => log'[cur'] = <<>>
        /\ nextLsn' \in Nat \ {0} /\ nextLsn' <= written + 1
        /\ cur' <= written + 1
        /\ cur' \in DOMAIN log \/ DOMAIN log = {}
    BY <1>10, OpenEffect
  <2>2. state # "open" /\ buf = <<>> /\ UNCHANGED <<buf, meta>> /\ meta \in Nat
    BY <1>1, <1>10 DEF Open, ckptVars, UserInv, StoppedInv, TypeOK
  <2>3. ASSUME ~reused' PROVE LastInv'
    <3>1. /\ ~(nextLsn' < meta) /\ ~(nextLsn' < cur')
          /\ \A g \in DOMAIN log : \A i \in 1 .. Len(log[g]) :
                Whole(log[g][i]) => ~(log[g][i].lsn >= nextLsn')
      BY <1>10, <2>3 DEF Open, Whole
    <3>2. \A g \in DOMAIN log : \A q \in Recs(log[g]) : Whole(q) => q.lsn < nextLsn'
      <4>1. \A g \in DOMAIN log : \A q \in Recs(log[g]) : q.lsn \in Nat
        BY <1>1, RecsType DEF TypeOK, Record
      <4>2. \A g \in DOMAIN log : \A q \in Recs(log[g]) : Whole(q) => ~(q.lsn >= nextLsn')
        BY <3>1 DEF Recs
      <4> QED  BY <2>1, <4>1, <4>2
    <3>3. \A g \in DOMAIN log' : \A q \in Recs(log'[g]) : Whole(q) => q.lsn < nextLsn'
      BY <2>1, <3>2, RecsEmpty
    <3>4. cur' \in DOMAIN log' /\ cur' <= nextLsn' /\ meta' <= nextLsn' /\ \A g \in DOMAIN log' : g <= cur'
      BY <2>1, <2>2, <3>1
    <3>5. \A q \in Recs(buf') : q.lsn < nextLsn'
      BY <2>2, RecsEmpty
    <3> QED  BY <3>3, <3>4, <3>5 DEF LastInv
  <2>4. ASSUME ~reused' PROVE OrderInv'
    <3>1. ~reused
      BY <1>10, <2>4 DEF Open
    <3> QED  BY <2>1, <3>1 DEF FilesInv, OrderInv
  <2> QED  BY <2>3, <2>4 DEF FilesInv, LastInv, OrderInv
<1>11. CASE UNCHANGED vars
  BY <1>11 DEF vars, walVars, sessVars, ckptVars, FilesInv, LastInv, OrderInv
<1> QED
  BY <1>2, <1>3, <1>4, <1>5, <1>6, <1>7, <1>8, <1>9, <1>10, <1>11 DEF Next

-----------------------------------------------------------------------------
(* The two safety properties.                                              *)

\* A record that was appended is in a file or still in the buffer.
Somewhere(r) == Held(r) \/ r \in Recs(buf)

SafeInv == CommitDurable /\ ActiveKept

\* A write that grows the directory and drops nothing of the buffer keeps
\* both properties.
LEMMA GrownSafe ==
    ASSUME SafeInv, Grown, UNCHANGED <<meta, reused>>,
           ~reused => \A q \in Recs(buf) : Somewhere(q)',
           ~reused => \A q \in acked' : q \in acked \/ Held(q)',
           ~reused => \A s \in Sessions : \A q \in mine'[s] : q \in mine[s] \/ Somewhere(q)'
    PROVE  SafeInv'
<1> SUFFICES ASSUME ~reused PROVE SafeInv'
  BY DEF SafeInv, CommitDurable, ActiveKept
<1>1. ASSUME NEW q \in acked' PROVE Held(q)' \/ q.lsn < meta'
  <2>1. q \in acked => Held(q) \/ q.lsn < meta
    BY DEF SafeInv, CommitDurable
  <2> QED  BY <2>1, GrownHeld
<1>2. ASSUME NEW s \in Sessions, NEW q \in mine'[s] PROVE Somewhere(q)'
  <2>1. CASE q \in mine[s]
    <3>1. Held(q) \/ q \in Recs(buf)
      BY <2>1 DEF SafeInv, ActiveKept, Recs
    <3> QED  BY <3>1, GrownHeld DEF Somewhere
  <2> QED  BY <1>2, <2>1
<1> QED  BY <1>1, <1>2 DEF SafeInv, CommitDurable, ActiveKept, Somewhere, Recs

\* Every step keeps what COMMIT acknowledged and what running transactions
\* have logged.
LEMMA SafeStep ==
    ASSUME TypeInv, UserInv, FilesInv, SafeInv, [Next]_vars
    PROVE  SafeInv'
<1>1. TypeOK /\ mine \in [Sessions -> SUBSET Record] /\ acked \in SUBSET Record
  BY DEF TypeInv, TypeOK
<1>2. ASSUME NEW s \in Sessions, Begin(s) \/ Insert(s) \/ AppendCommit(s) \/ Rollback(s)
      PROVE  SafeInv'
  <2>1. PICK r : Appended(r) /\ \A t \in Sessions : mine'[t] \subseteq mine[t] \cup {r}
    BY <1>2, SessionAppends
  <2>2. UNCHANGED <<meta, reused, acked>> /\ Grown
    BY <1>2, <2>1, SessionAppends, AppendGrows
  <2>3. Somewhere(r)'
    BY <2>1 DEF Appended, Somewhere
  <2>4. ASSUME ~reused, NEW q \in Recs(buf) PROVE Somewhere(q)'
    <3>1. cur \in DOMAIN log
      BY <2>1, <2>4 DEF Appended, FilesInv, LastInv
    <3>2. q \in Recs(buf') \/ (cur \in DOMAIN log' /\ q \in Recs(log'[cur]))
      BY <2>1, <2>2, <3>1 DEF Appended, Grown
    <3> QED  BY <3>2 DEF Somewhere, Held, Recs
  <2> QED  BY <2>1, <2>2, <2>3, <2>4, GrownSafe
<1>3. ASSUME NEW s \in Sessions, Register(s) PROVE SafeInv'
  BY <1>3 DEF Register, walVars, ckptVars, SafeInv, CommitDurable, ActiveKept, Held
<1>4. ASSUME log' = Flushed, ~reused, state = "open", NEW q \in Recs(buf)
      PROVE  Held(q)'
  <2>1. cur \in DOMAIN log
    BY <1>4 DEF FilesInv, LastInv
  <2>2. cur \in DOMAIN log' /\ q \in Recs(log'[cur])
    BY <1>1, <1>4, <2>1, FlushedEffect
  <2> QED  BY <2>2 DEF Held, Recs
<1>5. ASSUME NEW s \in Sessions, CommitFlush(s) PROVE SafeInv'
  <2>1. /\ log' = Flushed /\ state = "open" /\ acked' = acked \cup mine[s]
        /\ mine' = [mine EXCEPT ![s] = {}] /\ UNCHANGED <<meta, reused>>
    BY <1>5 DEF CommitFlush, Finish, ckptVars, UserInv, StoppedInv
  <2>2. Grown
    BY <1>1, <2>1, FlushGrows
  <2>3. ASSUME ~reused, NEW q \in mine[s] PROVE Held(q)'
    <3>1. Held(q) \/ q \in Recs(buf)
      BY <2>3 DEF SafeInv, ActiveKept, Recs
    <3> QED  BY <1>4, <2>1, <2>2, <2>3, <3>1, GrownHeld
  <2>4. ~reused => \A q \in Recs(buf) : Somewhere(q)'
    BY <1>4, <2>1 DEF Somewhere
  <2>5. \A t \in Sessions : mine'[t] \subseteq mine[t]
    BY <1>1, <2>1
  <2> QED  BY <2>1, <2>2, <2>3, <2>4, <2>5, GrownSafe
<1>6. CASE CkptBegin
  BY <1>6 DEF CkptBegin, walVars, sessVars, SafeInv, CommitDurable, ActiveKept, Held
<1>7. CASE CkptMeta
  <2>1. /\ ckpt = "flushed" /\ UNCHANGED <<log, buf, mine, acked, reused>>
        /\ meta' \in {meta, ckptLsn}
    BY <1>7 DEF CkptMeta, walVars, sessVars
  <2>2. ASSUME ~reused, NEW q \in acked, q.lsn < meta PROVE q.lsn < meta'
    <3>1. meta <= ckptLsn
      BY <2>1, <2>2 DEF UserInv, CkptInv
    <3>2. q.lsn \in Nat /\ meta \in Nat /\ ckptLsn \in Nat
      BY <1>1 DEF TypeOK, Record
    <3> QED  BY <2>1, <2>2, <3>1, <3>2
  <2>3. \A q : Held(q) <=> Held(q)'
    BY <2>1 DEF Held
  <2> QED  BY <2>1, <2>2, <2>3 DEF SafeInv, CommitDurable, ActiveKept
<1>8. CASE CkptOldest
  BY <1>8 DEF CkptOldest, walVars, sessVars, SafeInv, CommitDurable, ActiveKept, Held
<1>9. CASE CkptRemove
  <2>1. /\ ckpt = "remove" /\ UNCHANGED <<buf, mine, acked, meta, reused>>
    BY <1>9 DEF CkptRemove, sessVars
  <2>2. /\ safe \in Nat /\ meta \in Nat /\ ckptLsn \in Nat /\ safe <= ckptLsn /\ meta = ckptLsn
        /\ \A s \in Sessions : \A q \in mine[s] : safe <= q.lsn
    BY <1>1, <2>1 DEF UserInv, CkptInv, TypeOK
  <2>3. ASSUME ~reused, NEW q \in Record, Whole(q), Held(q), ~Held(q)'
        PROVE  q.lsn < safe
    <3>1. PICK g \in DOMAIN log : q \in Recs(log[g])
      BY <2>3, HeldRecs
    <3>2. g \notin DOMAIN log'
      <4>1. ASSUME g \in DOMAIN log' PROVE FALSE
        <5>1. q \in Recs(log'[g])
          BY <1>9, <3>1, <4>1, RemoveEffect
        <5> QED  BY <2>3, <4>1, <5>1 DEF Held, Recs
      <4> QED  BY <4>1
    <3> QED  BY <1>9, <2>3, <3>1, <3>2, RemoveEffect
  <2>4. ASSUME ~reused, NEW q \in acked PROVE Held(q)' \/ q.lsn < meta
    <3>1. q \in Record /\ Whole(q) /\ q.lsn \in Nat
      BY <1>1 DEF UserInv, WholeInv, Record
    <3>2. Held(q) \/ q.lsn < meta
      BY <2>4 DEF SafeInv, CommitDurable
    <3> QED  BY <2>2, <2>3, <2>4, <3>1, <3>2
  <2>5. ASSUME ~reused, NEW s \in Sessions, NEW q \in mine[s]
        PROVE  Held(q)' \/ \E i \in 1 .. Len(buf) : buf[i] = q
    <3>1. q \in Record /\ Whole(q) /\ q.lsn \in Nat
      BY <1>1 DEF UserInv, WholeInv, Record
    <3>2. Held(q) \/ \E i \in 1 .. Len(buf) : buf[i] = q
      BY <2>5 DEF SafeInv, ActiveKept
    <3>3. ~(q.lsn < safe)
      BY <2>2, <3>1
    <3> QED  BY <2>3, <2>5, <3>1, <3>2, <3>3
  <2> QED  BY <2>1, <2>4, <2>5 DEF SafeInv, CommitDurable, ActiveKept
<1>10. CASE Crash \/ Close
  <2>1. /\ log' = Flushed \/ Crash
        /\ mine' = None /\ UNCHANGED <<meta, reused, acked>>
    BY <1>10 DEF Crash, Close, Stop
  <2>2. Grown
    BY <1>1, <2>1, FlushGrows
  <2>3. ASSUME ~reused, NEW q \in acked PROVE Held(q)' \/ q.lsn < meta
    <3>1. Held(q) \/ q.lsn < meta
      BY <2>3 DEF SafeInv, CommitDurable
    <3> QED  BY <2>2, <3>1, GrownHeld
  <2>4. \A s \in Sessions : mine'[s] = {}
    BY <2>1 DEF None
  <2> QED  BY <2>1, <2>3, <2>4 DEF SafeInv, CommitDurable, ActiveKept
<1>11. CASE Open
  <2>1. /\ UNCHANGED <<buf, mine, acked, meta>> /\ (~reused' => ~reused)
    BY <1>11 DEF Open, sessVars, ckptVars
  <2>2. DOMAIN log' = DOMAIN log \cup {cur'} /\ \A g \in DOMAIN log : log'[g] = log[g]
    BY <1>11, OpenEffect
  <2>3. ASSUME NEW q, Held(q) PROVE Held(q)'
    BY <2>2, <2>3 DEF Held
  <2> QED  BY <2>1, <2>3 DEF SafeInv, CommitDurable, ActiveKept
<1>12. CASE UNCHANGED vars
  BY <1>12 DEF vars, walVars, sessVars, ckptVars, SafeInv, CommitDurable, ActiveKept, Held
<1> QED
  BY <1>2, <1>3, <1>5, <1>6, <1>7, <1>8, <1>9, <1>10, <1>11, <1>12 DEF Next

\* The initial state has nothing to lose.
LEMMA InitLog == Init => UserInv /\ FilesInv /\ SafeInv
<1> SUFFICES ASSUME Init PROVE UserInv /\ FilesInv /\ SafeInv
  OBVIOUS
<1>1. /\ DOMAIN log = {1} /\ log[1] = <<>> /\ buf = <<>> /\ cur = 1 /\ nextLsn = 1
      /\ state = "open" /\ meta = 0 /\ ckpt = "idle" /\ acked = {}
      /\ \A s \in Sessions : pc[s] = "out" /\ start[s] = 0 /\ mine[s] = {}
  BY DEF Init, Idle, Zero, None
<1>2. UserInv
  BY <1>1 DEF UserInv, StoppedInv, SessInv, CkptInv, WholeInv
<1>3. FilesInv
  BY <1>1, RecsEmpty DEF FilesInv, LastInv, OrderInv
<1>4. SafeInv
  BY <1>1 DEF SafeInv, CommitDurable, ActiveKept
<1> QED  BY <1>2, <1>3, <1>4

WalInv == TypeInv /\ UserInv /\ FilesInv /\ SafeInv

\* The invariant of the log holds in every reachable state.
LEMMA WalInvariant == Spec => []WalInv
<1>1. Init => WalInv
  BY InitType, InitLog DEF WalInv
<1>2. WalInv /\ [Next]_vars => WalInv'
  BY TypeStep, UserStep, FilesStep, SafeStep DEF WalInv
<1> QED  BY <1>1, <1>2, PTL DEF Spec

\* What COMMIT acknowledged stays in the files of the log, through crashes
\* that cut records in two, restarts, rotations and checkpoints, until
\* checkpoint.meta says that recovery starts after it.
THEOREM CommitsDurable == Spec => []CommitDurable
<1>1. WalInv => CommitDurable
  BY DEF WalInv, SafeInv
<1> QED  BY <1>1, WalInvariant, PTL

\* No checkpoint takes away a segment with an insert of a transaction that
\* is running, though BEGIN logs its record before it is entered into
\* active_txns_.
THEOREM RunningKept == Spec => []ActiveKept
<1>1. WalInv => ActiveKept
  BY DEF WalInv, SafeInv
<1> QED  BY <1>1, WalInvariant, PTL

==============================================================================
