------------------------------ MODULE MvccProofs ------------------------------
(***************************************************************************)
(* Proofs about module Mvcc, for any number of sessions, tables, rows,     *)
(* versions, transactions and timestamps.                                  *)
(***************************************************************************)
EXTENDS Mvcc, ExtremaLemmas, FiniteSetTheorems, SequenceTheorems

-----------------------------------------------------------------------------
(* The inductive invariant.  What it says of one row's entries is stated   *)
(* for the clock, the outcomes and the next transaction id as parameters.  *)

\* An entry carries a time the clock has reached, the mark of a transaction or
\* the outcome of that transaction.
Marks(e, now, out, next) ==
    /\ e.by = 0 => e.ts <= now
    /\ e.by # 0 => /\ e.by < next
                   /\ e.ts = Flagged(e.by) \/ (out[e.by] # 0 /\ e.ts = out[e.by])

\* A row has one data entry.
OneData(g) == \A i, j \in DOMAIN g : ~g[i].tomb /\ ~g[j].tomb => i = j

\* Tombstones are laid on committed rows only, and are newer than they, now and
\* when their transaction has committed.
TombsNewer(g, now, out) ==
    \A i, j \in DOMAIN g : ~g[i].tomb /\ g[j].tomb =>
        /\ g[i].ts <= now /\ g[i].ts < g[j].ts
        /\ g[j].by # 0 /\ out[g[j].by] # 0 => g[i].ts < out[g[j].by]

GroupOK(g, now, out, next) ==
    /\ g \in Seq(Entry)
    /\ \A i \in DOMAIN g : Marks(g[i], now, out, next)
    /\ OneData(g)
    /\ TombsNewer(g, now, out)

DataLast(g) == \A i \in DOMAIN g : ~g[i].tomb => i = Len(g)

\* Row ids are used in order, and what is clean has its data entry last.  (It
\* need not be sorted: commit_rows changes timestamps in place.)
IndexInv ==
    \A t \in Tables : \A r \in RowId :
        /\ GroupOK(index[t][r], nextTs, outcome, nextTx)
        /\ r >= rowCount[t] => index[t][r] = <<>>
        /\ ~dirty[t] => DataLast(index[t][r])

\* A transaction belongs to one session and is decided when it begins to stamp.
OutcomeInv ==
    \A x \in 1 .. MaxTx : /\ outcome[x] \in 0 .. nextTs \/ outcome[x] = AbortedTs
                          /\ x >= nextTx => outcome[x] = 0

TxInv ==
    /\ \A s \in Sessions : /\ tx[s] < nextTx /\ readTs[s] <= nextTs
                           /\ pc[s] = "stamp" => tx[s] # 0
                           /\ tx[s] # 0 => (pc[s] = "stamp" <=> outcome[tx[s]] # 0)
    /\ \A s, u \in Sessions : tx[s] # 0 /\ tx[s] = tx[u] => s = u

\* A row that is about to be deleted has been committed, at a time before that
\* of its tombstone.
Victims(g, now, ts, timed) ==
    \A i \in DOMAIN g : ~g[i].tomb => g[i].ts <= now /\ (timed => g[i].ts < ts)

StmtInv ==
    \A s \in Sessions :
        /\ pc[s] \in {"deleteTs", "deleteRows", "reinsert"} => stmt[s].table \in Tables
        /\ pc[s] = "deleteRows" => IF tx[s] # 0 THEN stmt[s].ts = Flagged(tx[s]) ELSE stmt[s].ts <= nextTs
        /\ pc[s] \in {"deleteTs", "deleteRows"} => \A r \in stmt[s].rows :
              /\ r < rowCount[stmt[s].table]
              /\ Victims(index[stmt[s].table][r], nextTs, stmt[s].ts, pc[s] = "deleteRows")

\* The entries with a transaction's mark.
Marked(g, x) == {i \in DOMAIN g : g[i].ts = Flagged(x)}

\* The write set of a transaction covers its marks, and once it is decided they
\* are in tables it has still to stamp.
MarkedInv ==
    \A t \in Tables : \A r \in RowId :
        /\ \A s \in Sessions : tx[s] # 0 =>
              Cardinality(Marked(index[t][r], tx[s])) <= writeSet[s][t][r]
        /\ \A x \in 1 .. MaxTx : outcome[x] # 0 /\ Marked(index[t][r], x) # {} =>
              \E s \in Sessions : tx[s] = x /\ t \in todo[s]

-----------------------------------------------------------------------------
(* Timestamps and marks.                                                   *)

\* The bounds are numbers, and timestamps and transaction ids stay below the flag.
LEMMA Bounds ==
    /\ NumTables \in Nat \ {0} /\ MaxRows \in Nat /\ MaxVersions \in Nat
    /\ MaxTs \in Nat /\ MaxTx \in Nat /\ MaxFailures \in Nat
    /\ kTxIdFlag \in Nat /\ kTxIdFlag > MaxTs + 1 /\ kTxIdFlag > MaxTx + 1
BY MvccAssumption

\* Marks are above every timestamp, below the timestamp of aborted rows, and
\* differ from each other.
LEMMA MarksApart ==
    /\ AbortedTs \in Nat /\ AbortedTs >= kTxIdFlag /\ AbortedTs # 0
    /\ \A x \in 0 .. MaxTx : /\ Flagged(x) \in Nat /\ Flagged(x) >= kTxIdFlag /\ Flagged(x) > MaxTs
                             /\ Flagged(x) # AbortedTs
    /\ \A x, y \in 0 .. MaxTx : Flagged(x) = Flagged(y) => x = y
BY Bounds DEF AbortedTs, Flagged

-----------------------------------------------------------------------------
(* Sorting.                                                                *)

\* The entries of a row, and their number.
LEMMA GroupType ==
    ASSUME NEW g \in Seq(Entry)
    PROVE  /\ DOMAIN g = 1 .. Len(g) /\ Len(g) \in Nat
           /\ IsFiniteSet(DOMAIN g) /\ Cardinality(DOMAIN g) = Len(g)
           /\ \A i \in DOMAIN g : g[i] \in Entry /\ g[i].ts \in Nat /\ g[i].tomb \in BOOLEAN /\ g[i].by \in Nat
<1>1. DOMAIN g = 1 .. Len(g) /\ Len(g) \in Nat
  BY LenProperties
<1>2. IsFiniteSet(1 .. Len(g)) /\ Cardinality(1 .. Len(g)) = Len(g)
  <2>1. /\ IsFiniteSet(1 .. Len(g))
        /\ Cardinality(1 .. Len(g)) = IF 1 > Len(g) THEN 0 ELSE Len(g) - 1 + 1
    BY <1>1, FS_Interval
  <2> QED  BY <1>1, <2>1
<1>3. \A i \in DOMAIN g : g[i] \in Entry
  BY <1>1, ElementOfSeq
<1> QED  BY <1>1, <1>2, <1>3 DEF Entry

\* Every place of the sorted array has an entry to go there, for the ranks of
\* the entries are their number's permutation.
LEMMA RankTaken ==
    ASSUME NEW g \in Seq(Entry), NEW k \in DOMAIN g
    PROVE  \E i \in DOMAIN g : Cardinality(NoLater(g, i)) = k
<1> DEFINE D == DOMAIN g
           rank == [i \in D |-> Cardinality(NoLater(g, i))]
<1>1. D = 1 .. Len(g) /\ Len(g) \in Nat /\ IsFiniteSet(D) /\ Cardinality(D) = Len(g)
  BY GroupType
<1>2. \A i \in D : i \in Nat /\ g[i].ts \in Nat
  BY GroupType
<1>3. \A i \in D : NoLater(g, i) \in SUBSET D /\ i \in NoLater(g, i)
  BY <1>2 DEF NoLater
<1>4. \A i \in D : IsFiniteSet(NoLater(g, i)) /\ Cardinality(NoLater(g, i)) \in 1 .. Len(g)
  <2> SUFFICES ASSUME NEW i \in D
               PROVE  IsFiniteSet(NoLater(g, i)) /\ Cardinality(NoLater(g, i)) \in 1 .. Len(g)
    OBVIOUS
  <2>1. NoLater(g, i) \in SUBSET D /\ NoLater(g, i) # {}
    BY <1>3
  <2>2. IsFiniteSet(NoLater(g, i)) /\ Cardinality(NoLater(g, i)) <= Len(g)
    BY <1>1, <2>1, FS_Subset
  <2>3. Cardinality(NoLater(g, i)) \in Nat /\ Cardinality(NoLater(g, i)) # 0
    BY <2>1, <2>2, FS_CardinalityType, FS_EmptySet
  <2> QED  BY <1>1, <2>2, <2>3
<1>5. ASSUME NEW i \in D, NEW j \in D, i # j,
             g[i].ts > g[j].ts \/ (g[i].ts = g[j].ts /\ i < j)
      PROVE  Cardinality(NoLater(g, i)) # Cardinality(NoLater(g, j))
  <2>1. NoLater(g, i) \in SUBSET NoLater(g, j)
    BY <1>2, <1>5 DEF NoLater
  <2>2. j \in NoLater(g, j) /\ j \notin NoLater(g, i)
    BY <1>2, <1>5 DEF NoLater
  <2> QED  BY <1>4, <2>1, <2>2, FS_Subset
<1>6. \A i, j \in D : rank[i] = rank[j] => i = j
  <2> SUFFICES ASSUME NEW i \in D, NEW j \in D, i # j
               PROVE  Cardinality(NoLater(g, i)) # Cardinality(NoLater(g, j))
    OBVIOUS
  <2>1. \/ g[i].ts > g[j].ts \/ (g[i].ts = g[j].ts /\ i < j)
        \/ g[j].ts > g[i].ts \/ (g[j].ts = g[i].ts /\ j < i)
    BY <1>2
  <2> QED  BY <1>5, <2>1
<1>7. rank \in [D -> D]
  BY <1>1, <1>4
<1>8. rank \in Injection(D, D)
  BY <1>6, <1>7 DEF Injection, IsInjective
<1> HIDE DEF D, rank
<1>9. rank \in Surjection(D, D)
  BY <1>1, <1>8, FS_Injection
<1>10. \E i \in D : rank[i] = k
  BY <1>9 DEF Surjection, D
<1> QED  BY <1>10 DEF rank, D

\* h has entries of g, none of them twice.
Picks(h, g) ==
    /\ h \in Seq(Entry)
    /\ \E p \in [DOMAIN h -> DOMAIN g] :
          /\ \A k \in DOMAIN h : h[k] = g[p[k]]
          /\ \A k, l \in DOMAIN h : p[k] = p[l] => k = l

\* ensure_sorted neither loses nor repeats an entry, and it sorts.
LEMMA SortEffect ==
    ASSUME NEW g \in Seq(Entry)
    PROVE  /\ Picks(SortedGroup(g), g)
           /\ DOMAIN SortedGroup(g) = DOMAIN g /\ Len(SortedGroup(g)) = Len(g)
           /\ \A i \in DOMAIN g : \E k \in DOMAIN g : SortedGroup(g)[k] = g[i]
           /\ \A k, l \in DOMAIN g : k < l => SortedGroup(g)[k].ts >= SortedGroup(g)[l].ts
<1> DEFINE h == SortedGroup(g)
           D == DOMAIN g
           p == [k \in D |-> CHOOSE i \in D : Cardinality(NoLater(g, i)) = k]
<1>1. D = 1 .. Len(g) /\ Len(g) \in Nat /\ IsFiniteSet(D)
  BY GroupType
<1>2. \A i \in D : i \in Nat /\ g[i] \in Entry /\ g[i].ts \in Nat
  BY GroupType
<1>3. \A k \in D : p[k] \in D /\ Cardinality(NoLater(g, p[k])) = k
  BY RankTaken
<1>4. DOMAIN h = D /\ \A k \in D : h[k] = g[p[k]]
  BY DEF SortedGroup
<1>5. p \in [D -> D]
  BY <1>3
<1> HIDE DEF p
<1>6. \A k, l \in D : p[k] = p[l] => k = l
  BY <1>3
<1>7. h \in [1 .. Len(g) -> Entry]
  <2>1. h = [k \in D |-> g[p[k]]]
    BY DEF SortedGroup, p
  <2> QED  BY <1>1, <1>2, <1>3, <2>1
<1>8. h \in Seq(Entry) /\ Len(h) = Len(g)
  <2> HIDE DEF h
  <2>1. h \in Seq(Entry)
    BY <1>1, <1>7, SeqDef
  <2>2. DOMAIN h = 1 .. Len(h) /\ Len(h) \in Nat
    BY <2>1, LenProperties
  <2> QED  BY <1>1, <1>7, <2>1, <2>2
<1>9. Picks(h, g)
  <2> HIDE DEF h
  <2> QED  BY <1>4, <1>5, <1>6, <1>8 DEF Picks
<1>10. ASSUME NEW k \in D, NEW l \in D, k < l PROVE h[k].ts >= h[l].ts
  <2>1. p[k] \in D /\ p[l] \in D
    BY <1>3
  <2>2. SUFFICES ASSUME g[p[k]].ts < g[p[l]].ts PROVE FALSE
    BY <1>2, <1>4, <2>1
  <2>3. NoLater(g, p[l]) \in SUBSET NoLater(g, p[k])
    BY <1>2, <2>1, <2>2 DEF NoLater
  <2>4. NoLater(g, p[k]) \in SUBSET D
    BY DEF NoLater
  <2>5. IsFiniteSet(NoLater(g, p[k]))
    BY <1>1, <2>4, FS_Subset
  <2>6. Cardinality(NoLater(g, p[l])) <= Cardinality(NoLater(g, p[k]))
    BY <2>3, <2>5, FS_Subset
  <2>7. l <= k
    BY <1>3, <2>6
  <2> QED  BY <1>1, <1>10, <2>7
<1>11. \A i \in D : \E k \in D : h[k] = g[i]
  <2>1. p \in Injection(D, D)
    BY <1>5, <1>6 DEF Injection, IsInjective
  <2>2. p \in Surjection(D, D)
    <3> HIDE DEF D
    <3> QED  BY <1>1, <2>1, FS_Injection
  <2>3. \A i \in D : \E k \in D : p[k] = i
    BY <2>2 DEF Surjection
  <2> QED  BY <1>4, <2>3
<1> QED  BY <1>4, <1>8, <1>9, <1>10, <1>11

-----------------------------------------------------------------------------
(* The entries of one row.                                                 *)

\* What GroupOK speaks of: a clock, outcomes it has reached, and transactions
\* that have begun.
Times(now, out, next) ==
    /\ now \in 0 .. MaxTs /\ next \in 1 .. MaxTx + 1
    /\ out \in [1 .. MaxTx -> Nat]
    /\ \A x \in 1 .. MaxTx : /\ out[x] \in 0 .. now \/ out[x] = AbortedTs
                             /\ x >= next => out[x] = 0

\* The clock moves on, transactions begin, and some are decided with what is
\* later than now.
Later(now, out, next, now2, out2, next2) ==
    /\ now <= now2 /\ next <= next2
    /\ \A x \in 1 .. MaxTx : out2[x] = out[x] \/ (out[x] = 0 /\ now < out2[x])

\* Whoever wrote an entry has begun.
LEMMA WriterType ==
    ASSUME NEW now, NEW out, NEW next, Times(now, out, next),
           NEW e \in Entry, Marks(e, now, out, next), e.by # 0
    PROVE  /\ e.by \in 1 .. MaxTx /\ e.by < next /\ e.by \in 0 .. MaxTx
           /\ out[e.by] \in Nat /\ (out[e.by] \in 0 .. now \/ out[e.by] = AbortedTs)
<1>1. e.by \in Nat /\ e.by < next
  BY DEF Entry, Marks
<1>2. e.by \in 1 .. MaxTx
  BY <1>1, Bounds DEF Times
<1> QED  BY <1>1, <1>2, Bounds DEF Times

\* An entry with a transaction's mark is its own.
LEMMA MarkedBy ==
    ASSUME NEW now, NEW out, NEW next, Times(now, out, next),
           NEW e \in Entry, Marks(e, now, out, next), NEW x \in 0 .. MaxTx, e.ts = Flagged(x)
    PROVE  e.by # 0 /\ e.by = x /\ x < next
<1>1. now \in Nat /\ now <= MaxTs
  BY Bounds DEF Times
<1>2. Flagged(x) > now
  BY <1>1, MarksApart, Bounds
<1>3. e.by # 0
  BY <1>1, <1>2, MarksApart DEF Marks
<1>4. e.by \in 0 .. MaxTx /\ e.by < next /\ (out[e.by] \in 0 .. now \/ out[e.by] = AbortedTs)
  BY <1>3, WriterType
<1>5. e.ts # out[e.by]
  BY <1>1, <1>2, <1>4, MarksApart
<1>6. e.ts = Flagged(e.by)
  BY <1>3, <1>5 DEF Marks
<1> QED  BY <1>3, <1>4, <1>6, MarksApart

\* Nothing that holds of a row's entries is lost as time goes on.
LEMMA GroupLater ==
    ASSUME NEW now, NEW out, NEW next, NEW now2, NEW out2, NEW next2,
           Times(now, out, next), Times(now2, out2, next2),
           Later(now, out, next, now2, out2, next2),
           NEW g, GroupOK(g, now, out, next)
    PROVE  GroupOK(g, now2, out2, next2)
<1>1. /\ now \in Nat /\ now2 \in Nat /\ now <= now2
      /\ next \in Nat /\ next2 \in Nat /\ next <= next2
  BY Bounds DEF Times, Later
<1>2. g \in Seq(Entry) /\ \A i \in DOMAIN g : Marks(g[i], now, out, next)
  BY DEF GroupOK
<1>3. \A i \in DOMAIN g : g[i] \in Entry /\ g[i].ts \in Nat /\ g[i].by \in Nat
  BY <1>2, GroupType
<1>4. \A i \in DOMAIN g : g[i].by # 0 => /\ g[i].by \in 1 .. MaxTx /\ out[g[i].by] \in Nat
                                         /\ \/ out2[g[i].by] = out[g[i].by]
                                            \/ out[g[i].by] = 0 /\ now < out2[g[i].by]
  BY <1>2, <1>3, WriterType DEF Later
<1>5. \A i \in DOMAIN g : Marks(g[i], now2, out2, next2)
  BY <1>1, <1>2, <1>3, <1>4 DEF Marks
<1>6. \A i \in DOMAIN g : g[i].by # 0 => out2[g[i].by] \in Nat
  BY <1>4 DEF Times
<1>7. TombsNewer(g, now2, out2)
  <2> SUFFICES ASSUME NEW i \in DOMAIN g, NEW j \in DOMAIN g, ~g[i].tomb, g[j].tomb
               PROVE  /\ g[i].ts <= now2 /\ g[i].ts < g[j].ts
                      /\ g[j].by # 0 /\ out2[g[j].by] # 0 => g[i].ts < out2[g[j].by]
    BY DEF TombsNewer
  <2>1. /\ g[i].ts <= now /\ g[i].ts < g[j].ts
        /\ g[j].by # 0 /\ out[g[j].by] # 0 => g[i].ts < out[g[j].by]
    BY DEF GroupOK, TombsNewer
  <2>2. g[i].ts <= now2
    BY <1>1, <1>3, <2>1
  <2>3. ASSUME g[j].by # 0, out2[g[j].by] # 0 PROVE g[i].ts < out2[g[j].by]
    <3>1. CASE out2[g[j].by] = out[g[j].by]
      BY <2>1, <2>3, <3>1
    <3>2. CASE now < out2[g[j].by]
      BY <1>1, <1>3, <1>6, <2>1, <2>3, <3>2
    <3> QED  BY <1>4, <2>3, <3>1, <3>2
  <2> QED  BY <2>1, <2>2, <2>3
<1> QED  BY <1>2, <1>5, <1>7 DEF GroupOK

\* Sorting and pruning keep what holds of a row's entries, and add no mark.
LEMMA GroupPicked ==
    ASSUME NEW now, NEW out, NEW next, NEW g, GroupOK(g, now, out, next),
           NEW h, Picks(h, g)
    PROVE  /\ GroupOK(h, now, out, next)
           /\ \A x : /\ IsFiniteSet(Marked(g, x)) /\ IsFiniteSet(Marked(h, x))
                     /\ Cardinality(Marked(h, x)) \in Nat /\ Cardinality(Marked(g, x)) \in Nat
                     /\ Cardinality(Marked(h, x)) <= Cardinality(Marked(g, x))
                     /\ Marked(g, x) = {} => Marked(h, x) = {}
<1>1. PICK p \in [DOMAIN h -> DOMAIN g] : /\ \A k \in DOMAIN h : h[k] = g[p[k]]
                                          /\ \A k, l \in DOMAIN h : p[k] = p[l] => k = l
  BY DEF Picks
<1>2. h \in Seq(Entry) /\ g \in Seq(Entry)
  BY DEF Picks, GroupOK
<1>3. \A k \in DOMAIN h : Marks(h[k], now, out, next)
  BY <1>1 DEF GroupOK
<1>4. OneData(h)
  BY <1>1 DEF GroupOK, OneData
<1>5. TombsNewer(h, now, out)
  <2>1. \A k, l \in DOMAIN h : p[k] \in DOMAIN g /\ p[l] \in DOMAIN g /\ h[k] = g[p[k]] /\ h[l] = g[p[l]]
    BY <1>1
  <2> QED  BY <2>1 DEF GroupOK, TombsNewer
<1>6. GroupOK(h, now, out, next)
  BY <1>2, <1>3, <1>4, <1>5 DEF GroupOK
<1>7. ASSUME NEW x
      PROVE  /\ IsFiniteSet(Marked(g, x)) /\ IsFiniteSet(Marked(h, x))
             /\ Cardinality(Marked(h, x)) \in Nat /\ Cardinality(Marked(g, x)) \in Nat
             /\ Cardinality(Marked(h, x)) <= Cardinality(Marked(g, x))
             /\ Marked(g, x) = {} => Marked(h, x) = {}
  <2>1. IsFiniteSet(DOMAIN g) /\ Marked(g, x) \in SUBSET DOMAIN g /\ Marked(h, x) \in SUBSET DOMAIN h
    BY <1>2, GroupType DEF Marked
  <2>2. IsFiniteSet(Marked(g, x))
    BY <2>1, FS_Subset
  <2> DEFINE q == [k \in Marked(h, x) |-> p[k]]
  <2>3. \A k \in Marked(h, x) : k \in DOMAIN h /\ p[k] \in Marked(g, x)
    BY <1>1 DEF Marked
  <2>4. q \in [Marked(h, x) -> Marked(g, x)] /\ \A k, l \in Marked(h, x) : q[k] = q[l] => k = l
    BY <1>1, <2>3
  <2>5. q \in Injection(Marked(h, x), Marked(g, x))
    BY <2>4 DEF Injection, IsInjective
  <2> HIDE DEF q
  <2>6. IsFiniteSet(Marked(h, x)) /\ Cardinality(Marked(h, x)) <= Cardinality(Marked(g, x))
    BY <2>2, <2>5, FS_Injection
  <2> QED  BY <2>2, <2>3, <2>6, FS_CardinalityType
<1> QED  BY <1>6, <1>7

\* The data entry of a sorted row is its last.
LEMMA SortedDataLast ==
    ASSUME NEW now, NEW out, NEW next, NEW g, GroupOK(g, now, out, next)
    PROVE  DataLast(SortedGroup(g))
<1> DEFINE h == SortedGroup(g)
<1>1. g \in Seq(Entry)
  BY DEF GroupOK
<1>2. /\ Picks(h, g) /\ DOMAIN h = DOMAIN g /\ Len(h) = Len(g)
      /\ \A k, l \in DOMAIN g : k < l => h[k].ts >= h[l].ts
  BY <1>1, SortEffect
<1> HIDE DEF h
<1>3. GroupOK(h, now, out, next)
  BY <1>2, GroupPicked
<1>4. DOMAIN h = 1 .. Len(h) /\ Len(h) \in Nat /\ \A i \in DOMAIN h : h[i].ts \in Nat /\ h[i].tomb \in BOOLEAN
  BY <1>2, GroupType DEF Picks
<1>5. ASSUME NEW i \in DOMAIN h, ~h[i].tomb, i # Len(h) PROVE FALSE
  <2>1. Len(h) \in DOMAIN h /\ i < Len(h)
    BY <1>4, <1>5
  <2>2. h[Len(h)].tomb
    BY <1>3, <1>5, <2>1 DEF GroupOK, OneData
  <2>3. h[i].ts < h[Len(h)].ts
    BY <1>3, <1>5, <2>1, <2>2 DEF GroupOK, TombsNewer
  <2>4. h[i].ts >= h[Len(h)].ts
    BY <1>2, <2>1
  <2> QED  BY <1>4, <2>1, <2>3, <2>4
<1> QED  BY <1>5 DEF DataLast, h

\* prune leaves a row as it is or takes all of it, when the data entry is the
\* last; it takes all only if a tombstone is not newer than the cutoff.
LEMMA PruneEffect ==
    ASSUME NEW g \in Seq(Entry), DataLast(g), NEW cut
    PROVE  \/ Pruned(g, cut) = g
           \/ Pruned(g, cut) = <<>> /\ \E j \in DOMAIN g : g[j].tomb /\ g[j].ts <= cut
<1> DEFINE old == NotNewer(g, cut)
           k == Min(old)
<1>1. DOMAIN g = 1 .. Len(g) /\ Len(g) \in Nat
  BY GroupType
<1>2. Pruned(g, cut) = IF old = {} THEN g ELSE IF g[k].tomb THEN <<>> ELSE SubSeq(g, 1, k)
  BY DEF Pruned
<1>3. CASE old = {}
  BY <1>2, <1>3
<1>4. CASE old # {}
  <2>1. old \in SUBSET Nat
    BY <1>1 DEF NotNewer
  <2>2. \E m \in old : \A n \in old : m <= n
    <3> HIDE DEF old
    <3> QED  BY <1>4, <2>1, LeastExists
  <2>3. k \in old
    BY <2>2 DEF Min
  <2>4. k \in DOMAIN g /\ g[k].ts <= cut
    BY <2>3 DEF NotNewer
  <2> HIDE DEF k, old
  <2>5. CASE g[k].tomb
    BY <1>2, <1>4, <2>4, <2>5
  <2>6. CASE ~g[k].tomb
    <3>1. k = Len(g)
      BY <2>4, <2>6 DEF DataLast
    <3>2. SubSeq(g, 1, Len(g)) = g
      BY SubSeqFull
    <3> QED  BY <1>2, <1>4, <2>6, <3>1, <3>2
  <2> QED  BY <2>5, <2>6
<1> QED  BY <1>3, <1>4

\* commit_rows: the marks of x become its outcome, all of them if the row id
\* comes often enough.
Stamped(h, g, count, x, ts) ==
    /\ DOMAIN h = DOMAIN g /\ Len(h) = Len(g)
    /\ \A i \in DOMAIN g : /\ h[i].tomb = g[i].tomb
                           /\ h[i].ts = g[i].ts \/ (g[i].ts = Flagged(x) /\ h[i].ts = ts)
    /\ \A y \in 0 .. MaxTx : y # x => Marked(h, y) = Marked(g, y)
    /\ Marked(h, x) \subseteq Marked(g, x)
    /\ Cardinality(Marked(g, x)) <= count => Marked(h, x) = {}

\* So does StampGroup.
LEMMA StampEffect ==
    ASSUME NEW now, NEW out, NEW next, Times(now, out, next),
           NEW g, GroupOK(g, now, out, next),
           NEW x \in 1 .. MaxTx, out[x] # 0, NEW count \in Nat,
           NEW h, h = StampGroup(g, count, x, out[x])
    PROVE  GroupOK(h, now, out, next) /\ Stamped(h, g, count, x, out[x])
<1> DEFINE full(i) == Cardinality({j \in 1 .. i : g[j].ts = Flagged(x)}) <= count
<1>1. /\ g \in Seq(Entry) /\ DOMAIN g = 1 .. Len(g) /\ Len(g) \in Nat /\ IsFiniteSet(DOMAIN g)
      /\ \A i \in DOMAIN g : g[i] \in Entry /\ g[i].ts \in Nat /\ g[i].by \in Nat /\ Marks(g[i], now, out, next)
  BY GroupType DEF GroupOK
<1>2. h = [i \in DOMAIN g |-> IF g[i].ts = Flagged(x) /\ full(i)
                             THEN [g[i] EXCEPT !.ts = out[x]] ELSE g[i]]
  BY DEF StampGroup
<1> HIDE DEF full
<1>3. out[x] \in Nat /\ (out[x] \in 0 .. now \/ out[x] = AbortedTs) /\ now \in Nat /\ now <= MaxTs /\ x \in 0 .. MaxTx
  BY Bounds DEF Times
<1>4. out[x] # Flagged(x) /\ \A y \in 0 .. MaxTx : out[x] # Flagged(y)
  BY <1>3, MarksApart, Bounds
<1>5. DOMAIN h = DOMAIN g /\ \A i \in DOMAIN g :
         /\ h[i] \in Entry /\ h[i].tomb = g[i].tomb /\ h[i].by = g[i].by
         /\ h[i].ts = g[i].ts \/ (g[i].ts = Flagged(x) /\ h[i].ts = out[x])
         /\ g[i].ts = Flagged(x) /\ full(i) => h[i].ts = out[x]
  BY <1>1, <1>2, <1>3 DEF Entry
<1>6. h \in Seq(Entry) /\ Len(h) = Len(g)
  <2>1. h \in [1 .. Len(g) -> Entry]
    BY <1>1, <1>2, <1>5
  <2>2. h \in Seq(Entry)
    BY <1>1, <2>1, SeqDef
  <2>3. DOMAIN h = 1 .. Len(h) /\ Len(h) \in Nat
    BY <2>2, LenProperties
  <2> QED  BY <1>1, <1>5, <2>2, <2>3
<1>7. \A i \in DOMAIN g : g[i].ts = Flagged(x) => g[i].by = x /\ x # 0
  BY <1>1, <1>3, MarkedBy
<1>8. \A i \in DOMAIN h : Marks(h[i], now, out, next)
  <2> SUFFICES ASSUME NEW i \in DOMAIN g PROVE Marks(h[i], now, out, next)
    BY <1>5
  <2>1. CASE h[i].ts = g[i].ts
    BY <1>1, <1>5, <2>1 DEF Marks
  <2>2. CASE g[i].ts = Flagged(x) /\ h[i].ts = out[x]
    <3>1. h[i].by = x /\ x # 0 /\ x < next
      BY <1>1, <1>5, <1>7, <2>2 DEF Marks
    <3> QED  BY <2>2, <3>1 DEF Marks
  <2> QED  BY <1>5, <2>1, <2>2
<1>9. OneData(h)
  BY <1>5 DEF GroupOK, OneData
<1>10. TombsNewer(h, now, out)
  <2> SUFFICES ASSUME NEW i \in DOMAIN g, NEW j \in DOMAIN g, ~h[i].tomb, h[j].tomb
               PROVE  /\ h[i].ts <= now /\ h[i].ts < h[j].ts
                      /\ h[j].by # 0 /\ out[h[j].by] # 0 => h[i].ts < out[h[j].by]
    BY <1>5 DEF TombsNewer
  <2>1. ~g[i].tomb /\ g[j].tomb /\ h[j].by = g[j].by
    BY <1>5
  <2>2. /\ g[i].ts <= now /\ g[i].ts < g[j].ts
        /\ g[j].by # 0 /\ out[g[j].by] # 0 => g[i].ts < out[g[j].by]
    BY <2>1 DEF GroupOK, TombsNewer
  <2>3. g[i].ts # Flagged(x)
    BY <1>1, <1>3, <2>2, MarksApart, Bounds
  <2>4. h[i].ts = g[i].ts
    BY <1>5, <2>3
  <2>5. h[i].ts < h[j].ts
    <3>1. CASE h[j].ts = g[j].ts
      BY <2>2, <2>4, <3>1
    <3>2. CASE g[j].ts = Flagged(x) /\ h[j].ts = out[x]
      BY <1>7, <2>2, <2>4, <3>2
    <3> QED  BY <1>5, <3>1, <3>2
  <2> QED  BY <2>1, <2>2, <2>4, <2>5
<1>11. GroupOK(h, now, out, next)
  BY <1>6, <1>8, <1>9, <1>10 DEF GroupOK
<1>12. \A y \in 0 .. MaxTx : y # x => Marked(h, y) = Marked(g, y)
  <2> SUFFICES ASSUME NEW y \in 0 .. MaxTx, y # x, NEW i \in DOMAIN g
               PROVE  h[i].ts = Flagged(y) <=> g[i].ts = Flagged(y)
    BY <1>5 DEF Marked
  <2>1. Flagged(x) # Flagged(y)
    BY <1>3, MarksApart
  <2> QED  BY <1>4, <1>5, <2>1
<1>13. Marked(h, x) \subseteq Marked(g, x)
  BY <1>4, <1>5 DEF Marked
<1>14. ASSUME Cardinality(Marked(g, x)) <= count PROVE Marked(h, x) = {}
  <2> SUFFICES ASSUME NEW i \in DOMAIN g, g[i].ts = Flagged(x) PROVE full(i)
    BY <1>4, <1>5 DEF Marked
  <2> DEFINE T == {j \in 1 .. i : g[j].ts = Flagged(x)}
  <2>1. T \in SUBSET Marked(g, x) /\ Marked(g, x) \in SUBSET DOMAIN g
    BY <1>1 DEF Marked
  <2>2. IsFiniteSet(Marked(g, x))
    BY <1>1, <2>1, FS_Subset
  <2>3. IsFiniteSet(T) /\ Cardinality(T) <= Cardinality(Marked(g, x))
    <3> HIDE DEF T
    <3> QED  BY <2>1, <2>2, FS_Subset
  <2>4. Cardinality(T) \in Nat /\ Cardinality(Marked(g, x)) \in Nat
    BY <2>2, <2>3, FS_CardinalityType
  <2>5. Cardinality(T) <= count
    <3> HIDE DEF T
    <3> QED  BY <1>14, <2>3, <2>4
  <2> QED  BY <2>5 DEF full
<1> QED  BY <1>5, <1>6, <1>11, <1>12, <1>13, <1>14 DEF Stamped

\* A tombstone is laid on a row that was found.
LEMMA AppendEffect ==
    ASSUME NEW now, NEW out, NEW next, NEW g, GroupOK(g, now, out, next),
           NEW e \in Entry, Marks(e, now, out, next), e.tomb,
           e.by # 0 => out[e.by] = 0,
           Victims(g, now, e.ts, TRUE)
    PROVE  /\ GroupOK(Append(g, e), now, out, next)
           /\ DOMAIN Append(g, e) = 1 .. Len(g) + 1
           /\ \A i \in DOMAIN g : i \in DOMAIN Append(g, e) /\ Append(g, e)[i] = g[i]
           /\ \A i \in DOMAIN Append(g, e) : i \in DOMAIN g \/ (i = Len(g) + 1 /\ Append(g, e)[i] = e)
<1> DEFINE h == Append(g, e)
<1>1. /\ g \in Seq(Entry) /\ DOMAIN g = 1 .. Len(g) /\ Len(g) \in Nat
      /\ \A i \in DOMAIN g : Marks(g[i], now, out, next)
  BY GroupType DEF GroupOK
<1>2. /\ h \in Seq(Entry) /\ Len(h) = Len(g) + 1
      /\ \A i \in 1 .. Len(g) : h[i] = g[i]
      /\ h[Len(g) + 1] = e
  BY <1>1, AppendProperties
<1>3. DOMAIN h = 1 .. Len(g) + 1
  BY <1>1, <1>2, LenProperties
<1> HIDE DEF h
<1>4. /\ \A i \in DOMAIN g : i \in DOMAIN h /\ h[i] = g[i]
      /\ \A i \in DOMAIN h : i \in DOMAIN g \/ (i = Len(g) + 1 /\ h[i] = e)
  BY <1>1, <1>2, <1>3
<1>5. \A i \in DOMAIN h : Marks(h[i], now, out, next)
  BY <1>1, <1>4
<1>6. OneData(h)
  BY <1>4 DEF GroupOK, OneData
<1>7. TombsNewer(h, now, out)
  <2> SUFFICES ASSUME NEW i \in DOMAIN h, NEW j \in DOMAIN h, ~h[i].tomb, h[j].tomb
               PROVE  /\ h[i].ts <= now /\ h[i].ts < h[j].ts
                      /\ h[j].by # 0 /\ out[h[j].by] # 0 => h[i].ts < out[h[j].by]
    BY DEF TombsNewer
  <2>1. i \in DOMAIN g /\ h[i] = g[i]
    BY <1>4
  <2>2. CASE j \in DOMAIN g
    BY <1>4, <2>1, <2>2 DEF GroupOK, TombsNewer
  <2>3. CASE h[j] = e
    BY <2>1, <2>3 DEF Victims
  <2> QED  BY <1>4, <2>2, <2>3
<1>8. GroupOK(h, now, out, next)
  BY <1>2, <1>5, <1>6, <1>7 DEF GroupOK
<1> QED  BY <1>3, <1>4, <1>8 DEF h

\* With it at most one mark is added.
LEMMA AppendMarked ==
    ASSUME NEW g \in Seq(Entry), NEW e \in Entry, NEW x, Cardinality(Marked(g, x)) \in Nat
    PROVE  /\ e.ts # Flagged(x) => Marked(Append(g, e), x) = Marked(g, x)
           /\ Cardinality(Marked(Append(g, e), x)) <= Cardinality(Marked(g, x)) + 1
           /\ Cardinality(Marked(Append(g, e), x)) \in Nat
<1> DEFINE h == Append(g, e)
<1>1. DOMAIN g = 1 .. Len(g) /\ Len(g) \in Nat /\ IsFiniteSet(DOMAIN g)
  BY GroupType
<1>2. /\ h \in Seq(Entry) /\ Len(h) = Len(g) + 1
      /\ \A i \in 1 .. Len(g) : h[i] = g[i]
      /\ h[Len(g) + 1] = e
  BY AppendProperties
<1>3. DOMAIN h = 1 .. Len(g) + 1
  BY <1>1, <1>2, LenProperties
<1> HIDE DEF h
<1>4. Marked(h, x) = IF e.ts = Flagged(x) THEN Marked(g, x) \cup {Len(g) + 1} ELSE Marked(g, x)
  BY <1>1, <1>2, <1>3 DEF Marked
<1>5. IsFiniteSet(Marked(g, x))
  <2>1. Marked(g, x) \in SUBSET DOMAIN g
    BY DEF Marked
  <2> QED  BY <1>1, <2>1, FS_Subset
<1>6. /\ Cardinality(Marked(g, x) \cup {Len(g) + 1}) <= Cardinality(Marked(g, x)) + 1
      /\ Cardinality(Marked(g, x) \cup {Len(g) + 1}) \in Nat
  <2>1. PICK S, n : S = Marked(g, x) /\ n = Len(g) + 1
    OBVIOUS
  <2>2. Cardinality(S \cup {n}) = IF n \in S THEN Cardinality(S) ELSE Cardinality(S) + 1
    BY <1>5, <2>1, FS_AddElement
  <2>3. Cardinality(S) \in Nat
    BY <2>1
  <2>4. Cardinality(S \cup {n}) <= Cardinality(S) + 1 /\ Cardinality(S \cup {n}) \in Nat
    BY <2>2, <2>3
  <2> QED  BY <2>1, <2>4
<1> QED  BY <1>4, <1>6 DEF h

\* A new row has one entry.
LEMMA SingleEffect ==
    ASSUME NEW now, NEW out, NEW next, NEW e \in Entry, Marks(e, now, out, next), ~e.tomb
    PROVE  /\ GroupOK(<<e>>, now, out, next) /\ DataLast(<<e>>)
           /\ DOMAIN <<e>> = {1} /\ <<e>>[1] = e
           /\ \A x : /\ Cardinality(Marked(<<e>>, x)) <= 1 /\ Cardinality(Marked(<<e>>, x)) \in Nat
                     /\ e.ts # Flagged(x) => Marked(<<e>>, x) = {}
<1>1. <<e>> \in Seq(Entry) /\ DOMAIN <<e>> = {1} /\ <<e>>[1] = e /\ Len(<<e>>) = 1
  OBVIOUS
<1>2. GroupOK(<<e>>, now, out, next) /\ DataLast(<<e>>)
  BY <1>1 DEF GroupOK, OneData, TombsNewer, DataLast
<1>3. \A x : Marked(<<e>>, x) = IF e.ts = Flagged(x) THEN {1} ELSE {}
  BY <1>1 DEF Marked
<1>4. Cardinality({1}) = 1 /\ Cardinality({}) = 0
  BY FS_Singleton, FS_EmptySet
<1> QED  BY <1>1, <1>2, <1>3, <1>4

\* No entry, no claim.
LEMMA EmptyEffect ==
    ASSUME NEW now, NEW out, NEW next
    PROVE  /\ GroupOK(<<>>, now, out, next) /\ DataLast(<<>>)
           /\ \A x : Marked(<<>>, x) = {} /\ Cardinality(Marked(<<>>, x)) = 0
<1>1. <<>> \in Seq(Entry) /\ DOMAIN <<>> = {}
  OBVIOUS
<1>2. GroupOK(<<>>, now, out, next) /\ DataLast(<<>>)
  BY <1>1 DEF GroupOK, OneData, TombsNewer, DataLast
<1>3. \A x : Marked(<<>>, x) = {}
  BY <1>1 DEF Marked
<1> QED  BY <1>2, <1>3, FS_EmptySet

-----------------------------------------------------------------------------
(* Steps.                                                                  *)

TimeInv == Times(nextTs, outcome, nextTx)

\* The clock, the outcomes and the transaction ids only grow, and a decision is
\* later than all that was before it.
LEMMA TimeStep ==
    ASSUME TypeOK, OutcomeInv, TxInv, [Next]_vars
    PROVE  /\ TimeInv /\ Times(nextTs', outcome', nextTx')
           /\ Later(nextTs, outcome, nextTx, nextTs', outcome', nextTx')
           /\ OutcomeInv'
<1>1. /\ nextTs \in Nat /\ nextTs \in 0 .. MaxTs /\ nextTx \in Nat /\ nextTx \in 1 .. MaxTx + 1
      /\ outcome \in [1 .. MaxTx -> Nat]
      /\ \A s \in Sessions : tx[s] \in 0 .. MaxTx /\ tx[s] \in Nat /\ stmt[s].rows \in SUBSET RowId
  BY Bounds DEF TypeOK
<1>2. TimeInv
  BY <1>1 DEF TimeInv, Times, OutcomeInv
<1>3. CASE /\ nextTs' \in nextTs .. MaxTs /\ nextTx' \in nextTx .. MaxTx + 1
           /\ outcome' = outcome
  <2>1. nextTs' \in 0 .. MaxTs /\ nextTs <= nextTs' /\ nextTx' \in 1 .. MaxTx + 1 /\ nextTx <= nextTx'
    BY <1>1, <1>3, Bounds
  <2>2. \A x \in 1 .. MaxTx : /\ outcome[x] \in 0 .. nextTs' \/ outcome[x] = AbortedTs
                              /\ x >= nextTx' => outcome[x] = 0
    BY <1>1, <2>1, Bounds DEF OutcomeInv
  <2>3. OutcomeInv'
    BY <1>3, <2>2 DEF OutcomeInv, AbortedTs
  <2> QED  BY <1>1, <1>2, <1>3, <2>1, <2>2, <2>3 DEF Times, Later
<1>4. ASSUME NEW s \in Sessions, pc[s] = "idle", tx[s] # 0, NEW d \in Nat,
             nextTs < d, nextTs' \in nextTs .. MaxTs, d \in 0 .. nextTs' \/ d = AbortedTs,
             outcome' = [outcome EXCEPT ![tx[s]] = d], nextTx' = nextTx
      PROVE  Times(nextTs', outcome', nextTx') /\ Later(nextTs, outcome, nextTx, nextTs', outcome', nextTx')
             /\ OutcomeInv'
  <2>1. nextTs' \in 0 .. MaxTs /\ nextTs' \in Nat /\ nextTs <= nextTs'
    BY <1>1, <1>4, Bounds
  <2>2. tx[s] \in 1 .. MaxTx /\ tx[s] < nextTx /\ outcome[tx[s]] = 0
    BY <1>1, <1>4, Bounds DEF TxInv
  <2>3. outcome' \in [1 .. MaxTx -> Nat]
    BY <1>1, <1>4
  <2>4. \A x \in 1 .. MaxTx : IF x = tx[s] THEN outcome'[x] = d ELSE outcome'[x] = outcome[x]
    BY <1>1, <1>4
  <2>5. \A x \in 1 .. MaxTx : /\ outcome'[x] \in 0 .. nextTs' \/ outcome'[x] = AbortedTs
                              /\ x >= nextTx => outcome'[x] = 0
    BY <1>1, <1>4, <2>1, <2>2, <2>4, Bounds DEF OutcomeInv
  <2>6. \A x \in 1 .. MaxTx : outcome'[x] = outcome[x] \/ (outcome[x] = 0 /\ nextTs < outcome'[x])
    BY <1>4, <2>2, <2>4
  <2>7. OutcomeInv'
    BY <1>4, <2>5 DEF OutcomeInv, AbortedTs
  <2> QED  BY <1>1, <1>4, <2>1, <2>3, <2>5, <2>6, <2>7 DEF Times, Later
<1>5. ASSUME NEW s \in Sessions, Commit(s)
      PROVE  Times(nextTs', outcome', nextTx') /\ Later(nextTs, outcome, nextTx, nextTs', outcome', nextTx')
             /\ OutcomeInv'
  <2>1. /\ pc[s] = "idle" /\ tx[s] # 0 /\ nextTs + 1 <= MaxTs /\ nextTs' = nextTs + 1
        /\ outcome' = [outcome EXCEPT ![tx[s]] = nextTs + 1] /\ nextTx' = nextTx
    BY <1>5 DEF Commit, Allocate
  <2>2. nextTs + 1 \in Nat /\ nextTs < nextTs + 1 /\ nextTs' \in nextTs .. MaxTs /\ nextTs + 1 \in 0 .. nextTs'
    BY <1>1, <2>1, Bounds
  <2> QED  BY <1>4, <2>1, <2>2
<1>6. ASSUME NEW s \in Sessions, Rollback(s)
      PROVE  Times(nextTs', outcome', nextTx') /\ Later(nextTs, outcome, nextTx, nextTs', outcome', nextTx')
             /\ OutcomeInv'
  <2>1. /\ pc[s] = "idle" /\ tx[s] # 0 /\ nextTs' = nextTs
        /\ outcome' = [outcome EXCEPT ![tx[s]] = AbortedTs] /\ nextTx' = nextTx
    BY <1>6 DEF Rollback
  <2>2. AbortedTs \in Nat /\ nextTs < AbortedTs /\ nextTs' \in nextTs .. MaxTs
    BY <1>1, <2>1, Bounds, MarksApart
  <2> QED  BY <1>4, <2>1, <2>2
<1>7. ASSUME NEW s \in Sessions, NEW t, NEW n \in Nat, InsertRows(s, t, n)
      PROVE  nextTs' \in nextTs .. MaxTs
  BY <1>1, <1>7, Bounds DEF InsertRows, Allocate
<1>8. ASSUME NEW s \in Sessions, Reinsert(s) PROVE nextTs' \in nextTs .. MaxTs
  <2>1. Cardinality(stmt[s].rows) \in Nat
    <3>1. IsFiniteSet(RowId)
      BY FS_Interval, Bounds DEF RowId
    <3> QED  BY <1>1, <3>1, FS_Subset, FS_CardinalityType
  <2> QED  BY <1>7, <1>8, <2>1 DEF Reinsert
<1>9. ASSUME NEW s \in Sessions, NEW t \in Tables, Insert(s, t) PROVE nextTs' \in nextTs .. MaxTs
  BY <1>7, <1>9 DEF Insert
<1>10. ASSUME NEW s \in Sessions,
             Begin(s) \/ EndFail(s) \/ EndTxn(s) \/ DeleteTs(s) \/ DeleteRows(s) \/ MutateFail(s)
      PROVE  nextTs' \in nextTs .. MaxTs /\ nextTx' \in nextTx .. MaxTx + 1 /\ outcome' = outcome
  <2>1. CASE Begin(s)
    BY <1>1, <2>1, Bounds DEF Begin, txVars
  <2>2. CASE EndFail(s) \/ EndTxn(s)
    BY <1>1, <2>2, Bounds DEF EndFail, EndTxn, Allocate, txVars
  <2>3. CASE DeleteTs(s)
    BY <1>1, <2>3, Bounds DEF DeleteTs, Allocate, txVars
  <2>4. CASE DeleteRows(s) \/ MutateFail(s)
    BY <1>1, <2>4, Bounds DEF DeleteRows, MutateFail, txVars
  <2> QED  BY <1>10, <2>1, <2>2, <2>3, <2>4
<1>11. ASSUME NEW s \in Sessions, NEW t \in Tables,
              DeleteScan(s, t) \/ UpdateScan(s, t) \/ StampTable(s, t)
      PROVE  nextTs' \in nextTs .. MaxTs /\ nextTx' \in nextTx .. MaxTx + 1 /\ outcome' = outcome
  BY <1>1, <1>11, Bounds DEF DeleteScan, UpdateScan, Scan, StampTable, Allocate, txVars
<1>12. ASSUME GcBegin \/ GcPrune \/ UNCHANGED vars
      PROVE  nextTs' \in nextTs .. MaxTs /\ nextTx' \in nextTx .. MaxTx + 1 /\ outcome' = outcome
  BY <1>1, <1>12, Bounds DEF GcBegin, GcPrune, vars, Allocate, txVars
<1>13. ASSUME NEW s \in Sessions, Reinsert(s) \/ \E t \in Tables : Insert(s, t)
      PROVE  nextTs' \in nextTs .. MaxTs /\ nextTx' \in nextTx .. MaxTx + 1 /\ outcome' = outcome
  <2>1. nextTx' = nextTx /\ outcome' = outcome
    BY <1>13 DEF Reinsert, Insert
  <2> QED  BY <1>1, <1>8, <1>9, <1>13, <2>1, Bounds
<1> QED  BY <1>2, <1>3, <1>5, <1>6, <1>10, <1>11, <1>12, <1>13 DEF Next

(* What a step may do to the entries of row r of table t.                  *)

Sorts(t, r) == index'[t][r] = Sorted(t)[r] /\ UNCHANGED <<outcome, rowCount, tx, writeSet>>

Stamps(t, r, s) ==
    /\ pc[s] = "stamp"
    /\ index'[t][r] = StampGroup(Sorted(t)[r], writeSet[s][t][r], tx[s], outcome[tx[s]])
    /\ UNCHANGED <<nextTs, outcome, nextTx, rowCount, tx, writeSet, pc, stmt>>
    /\ todo' = [todo EXCEPT ![s] = @ \ {t}]

Prunes(t, r) ==
    /\ gcNext # 0
    /\ index'[t][r] = Pruned(Sorted(t)[r], cutoff)
    /\ UNCHANGED <<nextTs, outcome, nextTx, rowCount, tx, writeSet, pc, stmt, todo>>

Tombstone(s) == [ts |-> stmt[s].ts, tomb |-> TRUE, by |-> tx[s]]

Buries(t, r, s) ==
    /\ pc[s] = "deleteRows" /\ t = stmt[s].table /\ r \in stmt[s].rows
    /\ index'[t][r] = Append(index[t][r], Tombstone(s))
    /\ dirty'[t] /\ UNCHANGED <<nextTs, outcome, nextTx, rowCount, tx>>
    /\ tx[s] # 0 => writeSet' = [writeSet EXCEPT ![s][t] =
                                    [q \in RowId |-> @[q] + IF q \in stmt[s].rows THEN 1 ELSE 0]]
    /\ tx[s] = 0 => writeSet' = writeSet

Creates(t, r, s, n) ==
    /\ pc[s] # "stamp" /\ n \in Nat
    /\ r \in rowCount[t] .. rowCount[t] + n - 1 /\ rowCount'[t] = rowCount[t] + n
    /\ \E ts \in Nat : /\ index'[t][r] = <<[ts |-> ts, tomb |-> FALSE, by |-> tx[s]]>>
                       /\ tx[s] # 0 => ts = Flagged(tx[s])
                       /\ tx[s] = 0 => nextTs < ts /\ ts <= nextTs'
    /\ dirty'[t] /\ UNCHANGED <<outcome, nextTx, tx>>
    /\ tx[s] # 0 => writeSet' = [writeSet EXCEPT ![s][t] =
                        [q \in RowId |-> @[q] + IF q \in rowCount[t] .. rowCount[t] + n - 1 THEN 1 ELSE 0]]
    /\ tx[s] = 0 => writeSet' = writeSet

Spares(t, r) == index'[t][r] = index[t][r] /\ (~dirty'[t] => ~dirty[t])

GroupStep(t, r) ==
    \/ Spares(t, r) \/ Sorts(t, r) \/ Prunes(t, r)
    \/ \E s \in Sessions : Stamps(t, r, s) \/ Buries(t, r, s) \/ \E n \in Nat : Creates(t, r, s, n)

\* An insertion creates rows under the next ids and spares all others.
LEMMA InsertSteps ==
    ASSUME TypeOK, NEW s \in Sessions, pc[s] # "stamp", NEW u \in Tables, NEW n \in Nat,
           InsertRows(s, u, n), UNCHANGED <<outcome, nextTx, tx>>,
           NEW t \in Tables, NEW r \in RowId
    PROVE  /\ (t # u \/ r \notin rowCount[u] .. rowCount[u] + n - 1) => Spares(t, r)
           /\ (t = u /\ r \in rowCount[u] .. rowCount[u] + n - 1) => Creates(t, r, s, n)
           /\ rowCount' = [rowCount EXCEPT ![u] = @ + n]
           /\ rowCount'[u] = rowCount[u] + n /\ rowCount[u] + n <= MaxRows
<1> DEFINE first == rowCount[u]
           new == first .. first + n - 1
           ts(q) == IF tx[s] # 0 THEN Flagged(tx[s]) ELSE nextTs + 1 + q - first
<1>1. /\ first + n <= MaxRows
      /\ rowCount' = [rowCount EXCEPT ![u] = @ + n]
      /\ index' = [index EXCEPT ![u] = [q \in RowId |->
             IF q \in new THEN <<[ts |-> ts(q), tomb |-> FALSE, by |-> tx[s]]>> ELSE @[q]]]
      /\ dirty' = [dirty EXCEPT ![u] = TRUE]
      /\ tx[s] # 0 => writeSet' = [writeSet EXCEPT ![s][u] =
                                  [q \in RowId |-> @[q] + IF q \in new THEN 1 ELSE 0]]
      /\ tx[s] = 0 => nextTs' = nextTs + n /\ writeSet' = writeSet
  BY DEF InsertRows, Allocate
<1>2. /\ index \in [Tables -> [RowId -> Seq(Entry)]] /\ dirty \in [Tables -> BOOLEAN]
      /\ rowCount \in [Tables -> 0 .. MaxRows] /\ first \in Nat /\ nextTs \in Nat
      /\ tx[s] \in 0 .. MaxTx
  BY Bounds DEF TypeOK
<1>3. t # u => index'[t] = index[t] /\ dirty'[t] = dirty[t]
  BY <1>1, <1>2
<1>4. index'[u] = [q \in RowId |->
             IF q \in new THEN <<[ts |-> ts(q), tomb |-> FALSE, by |-> tx[s]]>> ELSE index[u][q]]
  BY <1>1, <1>2
<1>5. dirty'[u] /\ rowCount'[u] = first + n
  BY <1>1, <1>2
<1>6. (t # u \/ r \notin new) => Spares(t, r)
  <2>1. CASE t # u
    BY <1>3, <2>1 DEF Spares
  <2>2. CASE t = u /\ r \notin new
    BY <1>4, <1>5, <2>2 DEF Spares
  <2> QED  BY <2>1, <2>2
<1>7. ASSUME t = u, r \in new PROVE Creates(t, r, s, n)
  <2>1. PICK m : m = ts(r)
    OBVIOUS
  <2>2. m \in Nat /\ (tx[s] # 0 => m = Flagged(tx[s])) /\ (tx[s] = 0 => nextTs < m /\ m <= nextTs')
    <3>1. CASE tx[s] # 0
      BY <1>2, <2>1, <3>1, MarksApart
    <3>2. CASE tx[s] = 0
      BY <1>1, <1>2, <1>7, <2>1, <3>2
    <3> QED  BY <3>1, <3>2
  <2>3. index'[t][r] = <<[ts |-> m, tomb |-> FALSE, by |-> tx[s]]>>
    BY <1>4, <1>7, <2>1
  <2>4. /\ tx[s] # 0 => writeSet' = [writeSet EXCEPT ![s][t] =
                        [q \in RowId |-> @[q] + IF q \in rowCount[t] .. rowCount[t] + n - 1 THEN 1 ELSE 0]]
        /\ tx[s] = 0 => writeSet' = writeSet
    BY <1>1, <1>7
  <2> HIDE DEF ts, new
  <2>5. r \in rowCount[t] .. rowCount[t] + n - 1 /\ rowCount'[t] = rowCount[t] + n /\ dirty'[t]
    BY <1>5, <1>7 DEF new
  <2> QED  BY <2>2, <2>3, <2>4, <2>5 DEF Creates
<1> QED  BY <1>1, <1>5, <1>6, <1>7

\* Statements insert any number of rows.
LEMMA RowsCounted ==
    ASSUME TypeOK, NEW s \in Sessions PROVE Cardinality(stmt[s].rows) \in Nat
<1>1. IsFiniteSet(RowId)
  BY FS_Interval, Bounds DEF RowId
<1> QED  BY <1>1, FS_Subset, FS_CardinalityType DEF TypeOK

\* Every step does one of these to every row.
LEMMA StepOfGroup ==
    ASSUME TypeOK, StmtInv, [Next]_vars, NEW t \in Tables, NEW r \in RowId
    PROVE  GroupStep(t, r)
<1>1. index \in [Tables -> [RowId -> Seq(Entry)]] /\ dirty \in [Tables -> BOOLEAN]
  BY DEF TypeOK
<1>2. CASE UNCHANGED tblVars
  BY <1>2 DEF tblVars, GroupStep, Spares
<1>3. ASSUME NEW s \in Sessions, Begin(s) \/ Commit(s) \/ Rollback(s) \/ EndFail(s) \/ EndTxn(s)
                                 \/ DeleteTs(s) \/ MutateFail(s)
      PROVE  GroupStep(t, r)
  <2>1. UNCHANGED tblVars
    BY <1>3 DEF Begin, Commit, Rollback, EndFail, EndTxn, DeleteTs, MutateFail
  <2> QED  BY <1>2, <2>1
<1>4. ASSUME NEW s \in Sessions, NEW u \in Tables, DeleteScan(s, u) \/ UpdateScan(s, u)
      PROVE  GroupStep(t, r)
  <2>1. /\ index' = [index EXCEPT ![u] = Sorted(u)] /\ dirty' = [dirty EXCEPT ![u] = FALSE]
        /\ UNCHANGED <<outcome, rowCount, tx, writeSet>>
    BY <1>4 DEF DeleteScan, UpdateScan, Scan, txVars
  <2>2. CASE t = u
    BY <1>1, <2>1, <2>2 DEF GroupStep, Sorts
  <2>3. CASE t # u
    BY <1>1, <2>1, <2>3 DEF GroupStep, Spares
  <2> QED  BY <2>2, <2>3
<1>5. ASSUME NEW s \in Sessions, NEW u \in Tables, StampTable(s, u)
      PROVE  GroupStep(t, r)
  <2>1. /\ index' = [index EXCEPT ![u] = [q \in RowId |->
             StampGroup(Sorted(u)[q], writeSet[s][u][q], tx[s], outcome[tx[s]])]]
        /\ dirty' = [dirty EXCEPT ![u] = FALSE] /\ pc[s] = "stamp"
        /\ todo' = [todo EXCEPT ![s] = @ \ {u}]
        /\ UNCHANGED <<nextTs, outcome, nextTx, rowCount, tx, writeSet, pc, stmt>>
    BY <1>5 DEF StampTable, stmtVars
  <2>2. CASE t = u
    <3>1. index'[t][r] = StampGroup(Sorted(t)[r], writeSet[s][t][r], tx[s], outcome[tx[s]])
      BY <1>1, <2>1, <2>2
    <3>2. Stamps(t, r, s)
      BY <2>1, <2>2, <3>1 DEF Stamps
    <3> QED  BY <3>2 DEF GroupStep
  <2>3. CASE t # u
    BY <1>1, <2>1, <2>3 DEF GroupStep, Spares
  <2> QED  BY <2>2, <2>3
<1>6. ASSUME NEW s \in Sessions, DeleteRows(s)
      PROVE  GroupStep(t, r)
  <2>1. PICK u : u = stmt[s].table
    OBVIOUS
  <2>2. /\ index' = [index EXCEPT ![u] = [q \in RowId |->
                IF q \in stmt[s].rows THEN Append(@[q], Tombstone(s)) ELSE @[q]]]
        /\ dirty' = [dirty EXCEPT ![u] = TRUE]
        /\ writeSet' = IF tx[s] = 0 THEN writeSet
                       ELSE [writeSet EXCEPT ![s][u] =
                               [q \in RowId |-> @[q] + IF q \in stmt[s].rows THEN 1 ELSE 0]]
        /\ pc[s] = "deleteRows"
        /\ UNCHANGED <<nextTs, outcome, nextTx, rowCount, tx>>
    BY <1>6, <2>1 DEF DeleteRows, Tombstone
  <2>3. u \in Tables
    BY <2>1, <2>2 DEF StmtInv
  <2>4. index'[u] = [q \in RowId |-> IF q \in stmt[s].rows THEN Append(index[u][q], Tombstone(s)) ELSE index[u][q]]
    BY <1>1, <2>2, <2>3
  <2>5. dirty'[u]
    BY <1>1, <2>2, <2>3
  <2>6. CASE t = u /\ r \in stmt[s].rows
    <3>1. index'[t][r] = Append(index[t][r], Tombstone(s))
      BY <2>4, <2>6
    <3>2. Buries(t, r, s)
      BY <2>1, <2>2, <2>5, <2>6, <3>1 DEF Buries
    <3> QED  BY <3>2 DEF GroupStep
  <2>7. CASE t = u /\ r \notin stmt[s].rows
    BY <2>4, <2>5, <2>7 DEF GroupStep, Spares
  <2>8. CASE t # u
    BY <1>1, <2>2, <2>8 DEF GroupStep, Spares
  <2> QED  BY <2>6, <2>7, <2>8
<1>7. ASSUME NEW s \in Sessions, Reinsert(s) \/ \E u \in Tables : Insert(s, u)
      PROVE  GroupStep(t, r)
  <2>1. PICK u \in Tables, n \in Nat : InsertRows(s, u, n) /\ UNCHANGED <<outcome, nextTx, tx>> /\ pc[s] # "stamp"
    <3>1. CASE Reinsert(s)
      <4>1. stmt[s].table \in Tables
        BY <3>1 DEF Reinsert, StmtInv
      <4> QED  BY <3>1, <4>1, RowsCounted DEF Reinsert
    <3>2. CASE \E u \in Tables : Insert(s, u)
      BY <3>2 DEF Insert
    <3> QED  BY <1>7, <3>1, <3>2
  <2>2. Spares(t, r) \/ Creates(t, r, s, n)
    BY <2>1, InsertSteps
  <2> QED  BY <2>2 DEF GroupStep
<1>8. CASE GcBegin \/ UNCHANGED vars
  <2>1. UNCHANGED tblVars
    BY <1>8 DEF GcBegin, vars
  <2> QED  BY <1>2, <2>1
<1>9. CASE GcPrune
  <2>1. PICK u : u = gcNext
    OBVIOUS
  <2>2. /\ index' = [index EXCEPT ![u] = [q \in RowId |-> Pruned(Sorted(u)[q], cutoff)]]
        /\ dirty' = [dirty EXCEPT ![u] = FALSE] /\ u \in Tables
        /\ UNCHANGED <<nextTs, outcome, nextTx, rowCount, tx, writeSet, pc, stmt, todo>>
    BY <1>9, <2>1 DEF GcPrune, txVars, stmtVars
  <2>3. gcNext # 0
    BY <2>1, <2>2, Bounds DEF Tables
  <2>4. CASE t = u
    <3>1. index'[t][r] = Pruned(Sorted(t)[r], cutoff)
      BY <1>1, <2>2, <2>4
    <3> QED  BY <2>2, <2>3, <3>1 DEF GroupStep, Prunes
  <2>5. CASE t # u
    BY <1>1, <2>2, <2>5 DEF GroupStep, Spares
  <2> QED  BY <2>4, <2>5
<1> QED  BY <1>3, <1>4, <1>5, <1>6, <1>7, <1>8, <1>9 DEF Next

\* What ensure_sorted leaves.
LEMMA SortedEffect ==
    ASSUME TypeOK, IndexInv, NEW t \in Tables, NEW r \in RowId,
           NEW g, g = index[t][r], NEW h, h = Sorted(t)[r]
    PROVE  /\ GroupOK(h, nextTs, outcome, nextTx) /\ DataLast(h) /\ Picks(h, g)
           /\ \A i \in DOMAIN g : \E k \in DOMAIN h : h[k] = g[i]
           /\ g = <<>> => h = <<>>
<1>1. GroupOK(g, nextTs, outcome, nextTx) /\ (~dirty[t] => DataLast(g))
  BY DEF IndexInv
<1>2. g \in Seq(Entry)
  BY <1>1 DEF GroupOK
<1>3. CASE dirty[t]
  <2>1. h = SortedGroup(g)
    BY <1>3 DEF Sorted
  <2>2. /\ Picks(h, g) /\ Len(h) = Len(g) /\ DOMAIN h = DOMAIN g
        /\ \A i \in DOMAIN g : \E k \in DOMAIN g : h[k] = g[i]
    BY <1>2, <2>1, SortEffect
  <2>3. GroupOK(h, nextTs, outcome, nextTx) /\ DataLast(h)
    BY <1>1, <2>1, <2>2, GroupPicked, SortedDataLast
  <2>4. g = <<>> => h = <<>>
    <3>1. h \in Seq(Entry)
      BY <2>2 DEF Picks
    <3> QED  BY <2>2, <3>1, EmptySeq
  <2> QED  BY <2>2, <2>3, <2>4
<1>4. CASE ~dirty[t]
  <2>1. h = g
    BY <1>4 DEF Sorted
  <2>2. Picks(g, g)
    <3> DEFINE p == [i \in DOMAIN g |-> i]
    <3>1. p \in [DOMAIN g -> DOMAIN g] /\ \A i \in DOMAIN g : p[i] = i
      OBVIOUS
    <3> HIDE DEF p
    <3> QED  BY <1>2, <3>1 DEF Picks
  <2> QED  BY <1>1, <1>4, <2>1, <2>2
<1> QED  BY <1>3, <1>4

\* The rows of a table only become more.
LEMMA RowCountStep ==
    ASSUME TypeOK, StmtInv, [Next]_vars
    PROVE  rowCount' \in [Tables -> 0 .. MaxRows] /\ \A t \in Tables : rowCount[t] <= rowCount'[t]
<1>1. rowCount \in [Tables -> 0 .. MaxRows]
  BY DEF TypeOK
<1>2. CASE rowCount' = rowCount
  BY <1>1, <1>2, Bounds
<1>3. ASSUME NEW s \in Sessions, Reinsert(s) \/ \E u \in Tables : Insert(s, u)
      PROVE  rowCount' \in [Tables -> 0 .. MaxRows] /\ \A t \in Tables : rowCount[t] <= rowCount'[t]
  <2>1. PICK u \in Tables, n \in Nat : InsertRows(s, u, n)
    <3>1. CASE Reinsert(s)
      <4>1. stmt[s].table \in Tables
        BY <3>1 DEF Reinsert, StmtInv
      <4> QED  BY <3>1, <4>1, RowsCounted DEF Reinsert
    <3>2. CASE \E u \in Tables : Insert(s, u)
      BY <3>2 DEF Insert
    <3> QED  BY <1>3, <3>1, <3>2
  <2>2. rowCount' = [rowCount EXCEPT ![u] = @ + n] /\ rowCount[u] + n <= MaxRows
    BY <2>1 DEF InsertRows
  <2> QED  BY <1>1, <2>2, Bounds
<1>4. ASSUME NEW s \in Sessions, Begin(s) \/ Commit(s) \/ Rollback(s) \/ EndFail(s) \/ EndTxn(s)
                                 \/ DeleteTs(s) \/ MutateFail(s) \/ DeleteRows(s)
      PROVE  rowCount' = rowCount
  BY <1>4 DEF Begin, Commit, Rollback, EndFail, EndTxn, DeleteTs, MutateFail, DeleteRows, tblVars
<1>5. ASSUME NEW s \in Sessions, NEW u \in Tables, DeleteScan(s, u) \/ UpdateScan(s, u) \/ StampTable(s, u)
      PROVE  rowCount' = rowCount
  BY <1>5 DEF DeleteScan, UpdateScan, Scan, StampTable
<1>6. CASE GcBegin \/ GcPrune \/ UNCHANGED vars
  <2>1. rowCount' = rowCount
    BY <1>6 DEF GcBegin, GcPrune, vars, tblVars
  <2> QED  BY <1>2, <2>1
<1> QED  BY <1>2, <1>3, <1>4, <1>5, <1>6 DEF Next

\* Every step keeps what holds of every row's entries.
LEMMA IndexStep ==
    ASSUME TypeOK, IndexInv, OutcomeInv, TxInv, StmtInv, [Next]_vars
    PROVE  IndexInv'
<1>1. /\ Times(nextTs, outcome, nextTx) /\ Times(nextTs', outcome', nextTx')
      /\ Later(nextTs, outcome, nextTx, nextTs', outcome', nextTx')
  BY TimeStep DEF TimeInv
<1>2. ASSUME NEW t \in Tables, NEW r \in RowId, NEW g, g = index[t][r], NEW h, h = index'[t][r]
      PROVE  /\ GroupOK(h, nextTs', outcome', nextTx')
             /\ r >= rowCount'[t] => h = <<>>
             /\ ~dirty'[t] => DataLast(h)
  <2>1. /\ GroupOK(g, nextTs, outcome, nextTx) /\ GroupOK(g, nextTs', outcome', nextTx')
        /\ r >= rowCount[t] => g = <<>>
        /\ ~dirty[t] => DataLast(g)
    BY <1>1, <1>2, GroupLater DEF IndexInv
  <2>2. PICK m : m = Sorted(t)[r]
    OBVIOUS
  <2>3. GroupOK(m, nextTs, outcome, nextTx) /\ DataLast(m) /\ (g = <<>> => m = <<>>)
    BY <1>2, <2>2, SortedEffect
  <2>4. GroupOK(m, nextTs', outcome', nextTx')
    BY <1>1, <2>3, GroupLater
  <2>5. rowCount[t] \in Nat /\ rowCount'[t] \in Nat /\ r \in Nat /\ (r >= rowCount'[t] => r >= rowCount[t])
    <3>1. rowCount \in [Tables -> 0 .. MaxRows] /\ rowCount' \in [Tables -> 0 .. MaxRows]
          /\ rowCount[t] <= rowCount'[t]
      BY RowCountStep DEF TypeOK
    <3>2. rowCount[t] \in Nat /\ rowCount'[t] \in Nat /\ r \in Nat
      BY <3>1, Bounds DEF RowId
    <3> QED  BY <3>1, <3>2
  <2>6. CASE Spares(t, r)
    BY <1>2, <2>1, <2>5, <2>6 DEF Spares
  <2>7. CASE Sorts(t, r)
    BY <1>2, <2>1, <2>2, <2>3, <2>4, <2>5, <2>7 DEF Sorts
  <2>8. CASE Prunes(t, r)
    <3>1. h = Pruned(m, cutoff)
      BY <1>2, <2>2, <2>8 DEF Prunes
    <3>2. m \in Seq(Entry)
      BY <2>3 DEF GroupOK
    <3>3. h = m \/ h = <<>>
      BY <2>3, <3>1, <3>2, PruneEffect
    <3> QED  BY <2>1, <2>3, <2>4, <2>5, <3>3, EmptyEffect
  <2>9. ASSUME NEW s \in Sessions, Stamps(t, r, s)
        PROVE  /\ GroupOK(h, nextTs', outcome', nextTx')
               /\ r >= rowCount'[t] => h = <<>>
               /\ ~dirty'[t] => DataLast(h)
    <3>1. /\ h = StampGroup(m, writeSet[s][t][r], tx[s], outcome[tx[s]]) /\ pc[s] = "stamp"
          /\ UNCHANGED <<nextTs, outcome, nextTx>>
      BY <1>2, <2>2, <2>9 DEF Stamps
    <3>2. tx[s] \in 1 .. MaxTx /\ outcome[tx[s]] # 0 /\ writeSet[s][t][r] \in Nat
      BY <3>1, Bounds DEF TxInv, TypeOK
    <3>3. /\ GroupOK(h, nextTs, outcome, nextTx) /\ DOMAIN h = DOMAIN m /\ Len(h) = Len(m)
          /\ \A i \in DOMAIN m : h[i].tomb = m[i].tomb
      <4>1. PICK x, c : x = tx[s] /\ c = writeSet[s][t][r]
        OBVIOUS
      <4>2. x \in 1 .. MaxTx /\ outcome[x] # 0 /\ c \in Nat /\ h = StampGroup(m, c, x, outcome[x])
        BY <3>1, <3>2, <4>1
      <4>3. GroupOK(h, nextTs, outcome, nextTx) /\ Stamped(h, m, c, x, outcome[x])
        BY <1>1, <2>3, <4>2, StampEffect
      <4> QED  BY <4>3 DEF Stamped
    <3>4. DataLast(h)
      BY <2>3, <3>3 DEF DataLast
    <3>5. m = <<>> => h = <<>>
      <4>1. h \in Seq(Entry)
        BY <3>3 DEF GroupOK
      <4> QED  BY <3>3, <4>1, EmptySeq
    <3> QED  BY <2>1, <2>3, <2>5, <3>1, <3>3, <3>4, <3>5
  <2>10. ASSUME NEW s \in Sessions, Buries(t, r, s)
        PROVE  /\ GroupOK(h, nextTs', outcome', nextTx')
               /\ r >= rowCount'[t] => h = <<>>
               /\ ~dirty'[t] => DataLast(h)
    <3>1. PICK e : e = Tombstone(s)
      OBVIOUS
    <3>2. /\ h = Append(g, e) /\ pc[s] = "deleteRows" /\ t = stmt[s].table /\ r \in stmt[s].rows
          /\ dirty'[t] /\ UNCHANGED <<nextTs, outcome, nextTx, rowCount>>
      BY <1>2, <2>10, <3>1 DEF Buries
    <3>3. e \in Entry /\ e.tomb /\ e.by = tx[s] /\ e.ts = stmt[s].ts
      BY <3>1, Bounds DEF Tombstone, Entry, TypeOK
    <3>4. /\ r < rowCount[t] /\ Victims(g, nextTs, e.ts, TRUE)
          /\ IF tx[s] # 0 THEN e.ts = Flagged(tx[s]) ELSE e.ts <= nextTs
      BY <1>2, <3>2, <3>3 DEF StmtInv
    <3>5. tx[s] # 0 => tx[s] < nextTx /\ outcome[tx[s]] = 0
      BY <3>2 DEF TxInv
    <3>6. Marks(e, nextTs, outcome, nextTx)
      BY <3>3, <3>4, <3>5 DEF Marks
    <3>7. GroupOK(h, nextTs, outcome, nextTx)
      <4>1. e.by # 0 => outcome[e.by] = 0
        BY <3>3, <3>5
      <4>2. GroupOK(Append(g, e), nextTs, outcome, nextTx)
        BY <2>1, <3>3, <3>4, <3>6, <4>1, AppendEffect
      <4> QED  BY <3>2, <4>2
    <3> QED  BY <2>5, <3>2, <3>4, <3>7
  <2>11. ASSUME NEW s \in Sessions, NEW n \in Nat, Creates(t, r, s, n)
        PROVE  /\ GroupOK(h, nextTs', outcome', nextTx')
               /\ r >= rowCount'[t] => h = <<>>
               /\ ~dirty'[t] => DataLast(h)
    <3>1. PICK ts \in Nat : /\ h = <<[ts |-> ts, tomb |-> FALSE, by |-> tx[s]]>>
                            /\ tx[s] # 0 => ts = Flagged(tx[s])
                            /\ tx[s] = 0 => nextTs < ts /\ ts <= nextTs'
      BY <1>2, <2>11 DEF Creates
    <3>2. PICK e : e = [ts |-> ts, tomb |-> FALSE, by |-> tx[s]]
      OBVIOUS
    <3>3. e \in Entry /\ ~e.tomb /\ e.by = tx[s] /\ e.ts = ts
      BY <3>2, Bounds DEF Entry, TypeOK
    <3>4. tx[s] # 0 => tx[s] < nextTx'
      BY <2>11 DEF TxInv, Creates
    <3>5. Marks(e, nextTs', outcome', nextTx')
      BY <3>1, <3>3, <3>4 DEF Marks
    <3>6. GroupOK(h, nextTs', outcome', nextTx') /\ DataLast(h)
      BY <3>1, <3>2, <3>3, <3>5, SingleEffect
    <3>7. r < rowCount'[t]
      BY <2>5, <2>11 DEF Creates
    <3> QED  BY <2>5, <3>6, <3>7
  <2>12. GroupStep(t, r)
    BY StepOfGroup
  <2> QED  BY <2>6, <2>7, <2>8, <2>9, <2>10, <2>11, <2>12 DEF GroupStep
<1> QED  BY <1>2 DEF IndexInv

\* The index keeps its shape.
LEMMA ShapeStep ==
    ASSUME TypeOK, StmtInv, [Next]_vars
    PROVE  /\ index' = [t \in Tables |-> [r \in RowId |-> index'[t][r]]]
           /\ dirty' \in [Tables -> BOOLEAN]
<1> DEFINE Shaped == /\ index' = [t \in Tables |-> [r \in RowId |-> index'[t][r]]]
                     /\ dirty' \in [Tables -> BOOLEAN]
<1>1. index \in [Tables -> [RowId -> Seq(Entry)]] /\ dirty \in [Tables -> BOOLEAN]
  BY DEF TypeOK
<1>2. CASE UNCHANGED tblVars
  BY <1>1, <1>2 DEF tblVars
<1>3. ASSUME NEW u, NEW S, NEW f \in [RowId -> S], NEW b \in BOOLEAN,
             index' = [index EXCEPT ![u] = f], dirty' = [dirty EXCEPT ![u] = b]
      PROVE  Shaped
  <2>1. \A t \in Tables : index'[t] = IF t = u THEN f ELSE index[t]
    BY <1>1, <1>3
  <2>2. \A t \in Tables : index'[t] = [r \in RowId |-> index'[t][r]]
    BY <1>1, <2>1
  <2>3. index' = [t \in Tables |-> index'[t]]
    BY <1>1, <1>3
  <2> QED  BY <1>1, <1>3, <2>2, <2>3
<1>4. ASSUME NEW s \in Sessions, Begin(s) \/ Commit(s) \/ Rollback(s) \/ EndFail(s) \/ EndTxn(s)
                                 \/ DeleteTs(s) \/ MutateFail(s)
      PROVE  Shaped
  <2>1. UNCHANGED tblVars
    BY <1>4 DEF Begin, Commit, Rollback, EndFail, EndTxn, DeleteTs, MutateFail
  <2> QED  BY <1>2, <2>1
<1>5. ASSUME NEW s \in Sessions, NEW u \in Tables, DeleteScan(s, u) \/ UpdateScan(s, u)
      PROVE  Shaped
  <2>1. index' = [index EXCEPT ![u] = Sorted(u)] /\ dirty' = [dirty EXCEPT ![u] = FALSE]
    BY <1>5 DEF DeleteScan, UpdateScan, Scan
  <2>2. Sorted(u) = [r \in RowId |-> Sorted(u)[r]]
    BY <1>1 DEF Sorted
  <2>3. \E S : Sorted(u) \in [RowId -> S]
    <3>1. Sorted(u) \in [RowId -> {Sorted(u)[r] : r \in RowId}]
      BY <2>2
    <3> QED  BY <3>1
  <2> QED  BY <1>3, <2>1, <2>3
<1>6. ASSUME NEW s \in Sessions, NEW u \in Tables, StampTable(s, u)
      PROVE  Shaped
  <2> DEFINE G(r) == StampGroup(Sorted(u)[r], writeSet[s][u][r], tx[s], outcome[tx[s]])
             f == [r \in RowId |-> G(r)]
  <2>1. index' = [index EXCEPT ![u] = f] /\ dirty' = [dirty EXCEPT ![u] = FALSE]
    BY <1>6 DEF StampTable
  <2>2. f \in [RowId -> {G(r) : r \in RowId}]
    OBVIOUS
  <2> HIDE DEF f, G
  <2> QED  BY <1>3, <2>1, <2>2
<1>7. ASSUME NEW s \in Sessions, DeleteRows(s) PROVE Shaped
  <2>1. PICK u : u = stmt[s].table
    OBVIOUS
  <2> DEFINE G(r) == IF r \in stmt[s].rows THEN Append(index[u][r], Tombstone(s)) ELSE index[u][r]
             f == [r \in RowId |-> G(r)]
  <2>2. index' = [index EXCEPT ![u] = f] /\ dirty' = [dirty EXCEPT ![u] = TRUE]
    BY <1>7, <2>1 DEF DeleteRows, Tombstone
  <2>3. f \in [RowId -> {G(r) : r \in RowId}]
    OBVIOUS
  <2> HIDE DEF f, G
  <2> QED  BY <1>3, <2>2, <2>3
<1>8. ASSUME NEW s \in Sessions, NEW u, NEW n, InsertRows(s, u, n) PROVE Shaped
  <2> DEFINE new == rowCount[u] .. rowCount[u] + n - 1
             ts(r) == IF tx[s] # 0 THEN Flagged(tx[s]) ELSE nextTs + 1 + r - rowCount[u]
             G(r) == IF r \in new THEN <<[ts |-> ts(r), tomb |-> FALSE, by |-> tx[s]]>> ELSE index[u][r]
             f == [r \in RowId |-> G(r)]
  <2>1. index' = [index EXCEPT ![u] = f] /\ dirty' = [dirty EXCEPT ![u] = TRUE]
    BY <1>8 DEF InsertRows
  <2>2. f \in [RowId -> {G(r) : r \in RowId}]
    OBVIOUS
  <2> HIDE DEF f, G
  <2> QED  BY <1>3, <2>1, <2>2
<1>9. ASSUME NEW s \in Sessions, Reinsert(s) \/ \E u \in Tables : Insert(s, u) PROVE Shaped
  <2>1. \E u, n : InsertRows(s, u, n)
    BY <1>9 DEF Reinsert, Insert
  <2> QED  BY <1>8, <2>1
<1>10. CASE GcBegin \/ UNCHANGED vars
  <2>1. UNCHANGED tblVars
    BY <1>10 DEF GcBegin, vars
  <2> QED  BY <1>2, <2>1
<1>11. CASE GcPrune
  <2>1. PICK u : u = gcNext
    OBVIOUS
  <2> DEFINE G(r) == Pruned(Sorted(u)[r], cutoff)
             f == [r \in RowId |-> G(r)]
  <2>2. index' = [index EXCEPT ![u] = f] /\ dirty' = [dirty EXCEPT ![u] = FALSE]
    BY <1>11, <2>1 DEF GcPrune
  <2>3. f \in [RowId -> {G(r) : r \in RowId}]
    OBVIOUS
  <2> HIDE DEF f, G
  <2> QED  BY <1>3, <2>2, <2>3
<1> QED  BY <1>4, <1>5, <1>6, <1>7, <1>9, <1>10, <1>11 DEF Next

\* The types of the sessions, their statements and the GC.
SessType ==
    /\ tx \in [Sessions -> 0 .. MaxTx]
    /\ readTs \in [Sessions -> 0 .. MaxTs]
    /\ writeSet \in [Sessions -> [Tables -> [RowId -> Nat]]]
    /\ pc \in [Sessions -> {"idle", "deleteTs", "deleteRows", "reinsert", "stamp"}]
    /\ stmt \in [Sessions -> [table : Nat, rows : SUBSET RowId, ts : Nat, update : BOOLEAN]]
    /\ todo \in [Sessions -> SUBSET Tables]
    /\ gcNext \in 0 .. NumTables /\ cutoff \in 0 .. MaxTs
    /\ failures \in 0 .. MaxFailures

\* No step gives a session, a statement or the GC a value of another type.
LEMMA SessStep ==
    ASSUME TypeOK, StmtInv, [Next]_vars PROVE SessType'
<1>1. SessType /\ nextTs \in 0 .. MaxTs /\ nextTx \in 1 .. MaxTx + 1
  BY DEF SessType, TypeOK
<1>2. NoStmt \in [table : Nat, rows : SUBSET RowId, ts : Nat, update : BOOLEAN]
  BY DEF NoStmt
<1>3. NoRows \in [Tables -> [RowId -> Nat]]
  BY DEF NoRows
<1>4. failures' = failures \/ Fails => failures' \in 0 .. MaxFailures
  BY <1>1, Bounds DEF SessType, Fails
<1>5. ASSUME NEW s \in Sessions, Begin(s) PROVE SessType'
  <2>1. /\ nextTx <= MaxTx /\ (tx' = tx \/ tx' = [tx EXCEPT ![s] = nextTx])
        /\ readTs' = readTs \/ readTs' = [readTs EXCEPT ![s] = nextTs]
        /\ failures' = failures \/ Fails
        /\ UNCHANGED <<writeSet, todo, pc, stmt, gcNext, cutoff>>
    BY <1>5 DEF Begin, stmtVars, gcVars
  <2>2. nextTx \in 0 .. MaxTx
    BY <1>1, <2>1, Bounds
  <2>3. tx' \in [Sessions -> 0 .. MaxTx] /\ readTs' \in [Sessions -> 0 .. MaxTs]
    BY <1>1, <2>1, <2>2 DEF SessType
  <2> QED  BY <1>1, <1>4, <2>1, <2>3 DEF SessType
<1>6. ASSUME NEW s \in Sessions, Commit(s) \/ Rollback(s) PROVE SessType'
  <2>1. /\ todo' = [todo EXCEPT ![s] = Touched(s)] /\ pc' = [pc EXCEPT ![s] = "stamp"]
        /\ UNCHANGED <<tx, readTs, writeSet, stmt, gcNext, cutoff, failures>>
    BY <1>6 DEF Commit, Rollback, gcVars
  <2>2. Touched(s) \in SUBSET Tables
    BY DEF Touched
  <2> QED  BY <1>1, <2>1, <2>2 DEF SessType
<1>7. ASSUME NEW s \in Sessions, ForgetTxn(s), pc' = pc \/ pc' = [pc EXCEPT ![s] = "idle"],
             failures' = failures \/ Fails, UNCHANGED <<todo, stmt, gcNext, cutoff>>
      PROVE  SessType'
  <2>1. 0 \in 0 .. MaxTx /\ 0 \in 0 .. MaxTs
    BY Bounds
  <2>2. tx' \in [Sessions -> 0 .. MaxTx] /\ readTs' \in [Sessions -> 0 .. MaxTs]
    BY <1>1, <1>7, <2>1 DEF SessType, ForgetTxn
  <2>3. writeSet' \in [Sessions -> [Tables -> [RowId -> Nat]]]
    BY <1>1, <1>3, <1>7 DEF SessType, ForgetTxn
  <2>4. pc' \in [Sessions -> {"idle", "deleteTs", "deleteRows", "reinsert", "stamp"}]
    BY <1>1, <1>7 DEF SessType
  <2> QED  BY <1>1, <1>4, <1>7, <2>2, <2>3, <2>4 DEF SessType
<1>8. ASSUME NEW s \in Sessions, EndFail(s) \/ EndTxn(s) PROVE SessType'
  BY <1>7, <1>8 DEF EndFail, EndTxn, gcVars, stmtVars
<1>9. ASSUME NEW s \in Sessions, NEW t \in Tables, DeleteScan(s, t) \/ UpdateScan(s, t) PROVE SessType'
  <2>1. PICK update \in BOOLEAN : Scan(s, t, update)
    BY <1>9 DEF DeleteScan, UpdateScan
  <2>2. PICK rows \in SUBSET Rows(index[t], IF tx[s] # 0 THEN readTs[s] ELSE nextTs + 1) :
           stmt' = [stmt EXCEPT ![s] = [table |-> t, rows |-> rows, ts |-> 0, update |-> update]]
    BY <2>1 DEF Scan
  <2>3. /\ pc' = [pc EXCEPT ![s] = "deleteTs"]
        /\ UNCHANGED <<tx, readTs, writeSet, todo, gcNext, cutoff, failures>>
    BY <2>1 DEF Scan, txVars, gcVars
  <2>4. rows \in SUBSET RowId /\ t \in Nat
    BY <2>2 DEF Rows, Tables
  <2>5. [table |-> t, rows |-> rows, ts |-> 0, update |-> update] \in
           [table : Nat, rows : SUBSET RowId, ts : Nat, update : BOOLEAN]
    BY <2>4
  <2> QED  BY <1>1, <2>2, <2>3, <2>5 DEF SessType
<1>10. ASSUME NEW s \in Sessions, NEW t \in Tables, StampTable(s, t) PROVE SessType'
  <2>1. todo' = [todo EXCEPT ![s] = @ \ {t}] /\ UNCHANGED <<tx, readTs, writeSet, pc, stmt, gcNext, cutoff, failures>>
    BY <1>10 DEF StampTable, stmtVars, gcVars
  <2> QED  BY <1>1, <2>1 DEF SessType
<1>11. ASSUME NEW s \in Sessions, DeleteTs(s) PROVE SessType'
  <2>1. PICK ts : ts = IF tx[s] # 0 THEN Flagged(tx[s]) ELSE nextTs + 1
    OBVIOUS
  <2>2. ts \in Nat
    BY <1>1, <2>1, MarksApart, Bounds DEF SessType
  <2>3. /\ stmt' = [stmt EXCEPT ![s].ts = ts] /\ pc' = [pc EXCEPT ![s] = "deleteRows"]
        /\ UNCHANGED <<tx, readTs, writeSet, todo, gcNext, cutoff, failures>>
    BY <1>11, <2>1 DEF DeleteTs, txVars, gcVars
  <2> QED  BY <1>1, <2>2, <2>3 DEF SessType
<1>12. ASSUME NEW s \in Sessions, NEW u, NEW f \in [RowId -> Nat]
       PROVE  [writeSet EXCEPT ![s][u] = f] \in [Sessions -> [Tables -> [RowId -> Nat]]]
  BY <1>1 DEF SessType
<1>13. ASSUME NEW s \in Sessions, NEW u \in Tables, NEW S
       PROVE  [r \in RowId |-> writeSet[s][u][r] + IF r \in S THEN 1 ELSE 0] \in [RowId -> Nat]
  <2>1. \A r \in RowId : writeSet[s][u][r] \in Nat
    BY <1>1 DEF SessType
  <2> QED  BY <2>1
<1>14. ASSUME NEW s \in Sessions, DeleteRows(s) PROVE SessType'
  <2>1. PICK u : u = stmt[s].table
    OBVIOUS
  <2>2. u \in Tables
    BY <1>14, <2>1 DEF DeleteRows, StmtInv
  <2>3. /\ \/ writeSet' = writeSet
           \/ writeSet' = [writeSet EXCEPT ![s][u] =
                              [r \in RowId |-> writeSet[s][u][r] + IF r \in stmt[s].rows THEN 1 ELSE 0]]
        /\ pc' = [pc EXCEPT ![s] = "reinsert"] \/ pc' = [pc EXCEPT ![s] = "idle"]
        /\ stmt' = [stmt EXCEPT ![s] = IF stmt[s].update THEN @ ELSE NoStmt]
        /\ UNCHANGED <<tx, readTs, todo, gcNext, cutoff, failures>>
    BY <1>1, <1>14, <2>1, <2>2 DEF DeleteRows, gcVars, SessType
  <2>4. writeSet' \in [Sessions -> [Tables -> [RowId -> Nat]]]
    <3>1. PICK f : f = [r \in RowId |-> writeSet[s][u][r] + IF r \in stmt[s].rows THEN 1 ELSE 0]
      OBVIOUS
    <3>2. f \in [RowId -> Nat]
      BY <1>13, <2>2, <3>1
    <3>3. writeSet' = writeSet \/ writeSet' = [writeSet EXCEPT ![s][u] = f]
      BY <2>3, <3>1
    <3>4. CASE writeSet' = writeSet
      BY <1>1, <3>4 DEF SessType
    <3>5. CASE writeSet' = [writeSet EXCEPT ![s][u] = f]
      BY <1>12, <3>2, <3>5
    <3> QED  BY <3>3, <3>4, <3>5
  <2> QED  BY <1>1, <1>2, <2>3, <2>4 DEF SessType
<1>15. ASSUME NEW s \in Sessions, NEW u \in Tables, NEW n, InsertRows(s, u, n)
       PROVE  writeSet' \in [Sessions -> [Tables -> [RowId -> Nat]]]
  <2>1. \/ writeSet' = writeSet
        \/ \E S : writeSet' = [writeSet EXCEPT ![s][u] =
                              [r \in RowId |-> writeSet[s][u][r] + IF r \in S THEN 1 ELSE 0]]
    BY <1>1, <1>15 DEF InsertRows, SessType
  <2>2. CASE writeSet' = writeSet
    BY <1>1, <2>2 DEF SessType
  <2>3. CASE writeSet' # writeSet
    <3>1. PICK S : writeSet' = [writeSet EXCEPT ![s][u] =
                              [r \in RowId |-> writeSet[s][u][r] + IF r \in S THEN 1 ELSE 0]]
      BY <2>1, <2>3
    <3>2. PICK f : f = [r \in RowId |-> writeSet[s][u][r] + IF r \in S THEN 1 ELSE 0]
      OBVIOUS
    <3>3. f \in [RowId -> Nat] /\ writeSet' = [writeSet EXCEPT ![s][u] = f]
      BY <1>13, <3>1, <3>2
    <3> QED  BY <1>12, <3>3
  <2> QED  BY <2>2, <2>3
<1>16. ASSUME NEW s \in Sessions, NEW t \in Tables, Insert(s, t) PROVE SessType'
  <2>1. InsertRows(s, t, 1) /\ UNCHANGED <<tx, readTs, todo, pc, stmt, gcNext, cutoff, failures>>
    BY <1>16 DEF Insert, stmtVars, gcVars
  <2> QED  BY <1>1, <1>15, <2>1 DEF SessType
<1>17. ASSUME NEW s \in Sessions, Reinsert(s) PROVE SessType'
  <2>1. /\ InsertRows(s, stmt[s].table, Cardinality(stmt[s].rows)) /\ stmt[s].table \in Tables
        /\ pc' = [pc EXCEPT ![s] = "idle"] /\ stmt' = [stmt EXCEPT ![s] = NoStmt]
        /\ UNCHANGED <<tx, readTs, todo, gcNext, cutoff, failures>>
    BY <1>17 DEF Reinsert, StmtInv, gcVars
  <2> QED  BY <1>1, <1>2, <1>15, <2>1 DEF SessType
<1>18. ASSUME NEW s \in Sessions, MutateFail(s) PROVE SessType'
  <2>1. /\ Fails /\ pc' = [pc EXCEPT ![s] = "idle"] /\ stmt' = [stmt EXCEPT ![s] = NoStmt]
        /\ UNCHANGED <<tx, readTs, writeSet, todo, gcNext, cutoff>>
    BY <1>18 DEF MutateFail, txVars, gcVars
  <2> QED  BY <1>1, <1>2, <1>4, <2>1 DEF SessType
<1>19. CASE GcBegin
  <2>1. /\ UNCHANGED <<gcNext, cutoff>> \/ (nextTs # 0 /\ cutoff' = nextTs /\ gcNext' = 1)
        /\ UNCHANGED <<tx, readTs, writeSet, pc, stmt, todo, failures>>
    BY <1>19 DEF GcBegin, gcVars, txVars, stmtVars
  <2>2. CASE UNCHANGED <<gcNext, cutoff>>
    BY <1>1, <2>1, <2>2 DEF SessType
  <2>3. CASE cutoff' = nextTs /\ gcNext' = 1
    <3>1. gcNext' \in 0 .. NumTables /\ cutoff' \in 0 .. MaxTs
      BY <1>1, <2>3, Bounds
    <3> QED  BY <1>1, <2>1, <3>1 DEF SessType
  <2> QED  BY <2>1, <2>2, <2>3
<1>20. CASE GcPrune
  <2>1. /\ gcNext \in Tables /\ gcNext' \in {0, IF gcNext = NumTables THEN 0 ELSE gcNext + 1}
        /\ cutoff' \in {0, cutoff}
        /\ UNCHANGED <<tx, readTs, writeSet, pc, stmt, todo, failures>>
    BY <1>20 DEF GcPrune, txVars, stmtVars
  <2>2. gcNext' \in 0 .. NumTables /\ cutoff' \in 0 .. MaxTs
    BY <1>1, <2>1, Bounds DEF SessType, Tables
  <2> QED  BY <1>1, <2>1, <2>2 DEF SessType
<1>21. CASE UNCHANGED vars
  BY <1>1, <1>21 DEF SessType, vars, txVars, stmtVars, gcVars
<1> QED
  BY <1>5, <1>6, <1>8, <1>9, <1>10, <1>11, <1>14, <1>16, <1>17, <1>18, <1>19, <1>20, <1>21 DEF Next

\* Together they are the type invariant.
LEMMA TypeStep ==
    ASSUME TypeOK, IndexInv, OutcomeInv, TxInv, StmtInv, [Next]_vars PROVE TypeOK'
<1>1. SessType' /\ dirty' \in [Tables -> BOOLEAN] /\ rowCount' \in [Tables -> 0 .. MaxRows]
  BY SessStep, ShapeStep, RowCountStep
<1>2. Times(nextTs', outcome', nextTx')
  BY TimeStep
<1>3. \A t \in Tables : \A r \in RowId : index'[t][r] \in Seq(Entry)
  BY IndexStep DEF IndexInv, GroupOK
<1>4. index' \in [Tables -> [RowId -> Seq(Entry)]]
  BY <1>3, ShapeStep
<1> QED  BY <1>1, <1>2, <1>4 DEF TypeOK, SessType, Times

\* Transactions stay with their sessions, and begin and end as they should.
LEMMA TxStep ==
    ASSUME TypeOK, OutcomeInv, TxInv, [Next]_vars PROVE TxInv'
<1>1. /\ tx \in [Sessions -> 0 .. MaxTx] /\ readTs \in [Sessions -> 0 .. MaxTs]
      /\ pc \in [Sessions -> {"idle", "deleteTs", "deleteRows", "reinsert", "stamp"}]
      /\ nextTx \in Nat \ {0} /\ nextTs \in Nat /\ nextTx \in 1 .. MaxTx + 1
      /\ outcome \in [1 .. MaxTx -> Nat]
  BY Bounds DEF TypeOK
<1>2. \A s \in Sessions : tx[s] \in Nat /\ readTs[s] \in Nat /\ (tx[s] # 0 => tx[s] \in 1 .. MaxTx)
  BY <1>1, Bounds
<1>3. nextTs' \in Nat /\ nextTs <= nextTs' /\ nextTx' \in Nat /\ nextTx <= nextTx'
  BY TimeStep, Bounds DEF Times, Later
<1>4. \A s \in Sessions : readTs[s] <= nextTs' /\ tx[s] < nextTx'
  BY <1>1, <1>2, <1>3 DEF TxInv
<1>5. CASE UNCHANGED <<tx, readTs, outcome>> /\ \A s \in Sessions : pc'[s] = "stamp" <=> pc[s] = "stamp"
  BY <1>4, <1>5 DEF TxInv
<1>6. ASSUME NEW s \in Sessions, Begin(s) PROVE TxInv'
  <2>1. /\ nextTx <= MaxTx /\ nextTx' = nextTx + 1 /\ pc[s] = "idle"
        /\ UNCHANGED <<pc, outcome>>
    BY <1>6 DEF Begin, stmtVars
  <2>2. CASE UNCHANGED <<tx, readTs>>
    BY <1>5, <2>1, <2>2
  <2>3. CASE tx' = [tx EXCEPT ![s] = nextTx] /\ readTs' = [readTs EXCEPT ![s] = nextTs]
    <3>1. \A u \in Sessions : IF u = s THEN tx'[u] = nextTx /\ readTs'[u] = nextTs
                              ELSE tx'[u] = tx[u] /\ readTs'[u] = readTs[u]
      BY <1>1, <2>3
    <3>2. outcome[nextTx] = 0
      BY <1>1, <2>1, Bounds DEF OutcomeInv
    <3>3. \A u, v \in Sessions : tx'[u] # 0 /\ tx'[u] = tx'[v] => u = v
      BY <1>1, <1>2, <3>1 DEF TxInv
    <3>4. ASSUME NEW u \in Sessions
          PROVE  /\ tx'[u] < nextTx' /\ readTs'[u] <= nextTs'
                 /\ pc'[u] = "stamp" => tx'[u] # 0
                 /\ tx'[u] # 0 => (pc'[u] = "stamp" <=> outcome'[tx'[u]] # 0)
      <4>1. CASE u = s
        BY <1>1, <1>3, <2>1, <3>1, <3>2, <4>1
      <4>2. CASE u # s
        BY <1>4, <2>1, <3>1, <4>2 DEF TxInv
      <4> QED  BY <4>1, <4>2
    <3> QED  BY <3>3, <3>4 DEF TxInv
  <2> QED  BY <1>6, <2>2, <2>3 DEF Begin
<1>7. ASSUME NEW s \in Sessions, Commit(s) \/ Rollback(s) PROVE TxInv'
  <2>1. PICK d : outcome' = [outcome EXCEPT ![tx[s]] = d] /\ d = (IF Commit(s) THEN nextTs + 1 ELSE AbortedTs)
    BY <1>7 DEF Commit, Rollback
  <2>2. /\ pc[s] = "idle" /\ tx[s] # 0 /\ pc' = [pc EXCEPT ![s] = "stamp"]
        /\ UNCHANGED <<tx, readTs>>
    BY <1>7 DEF Commit, Rollback
  <2>3. d # 0 /\ tx[s] \in 1 .. MaxTx
    BY <1>1, <1>2, <2>1, <2>2, MarksApart
  <2>4. ASSUME NEW u \in Sessions
        PROVE  /\ pc'[u] = "stamp" => tx[u] # 0
               /\ tx[u] # 0 => (pc'[u] = "stamp" <=> outcome'[tx[u]] # 0)
    <3>1. CASE u = s
      BY <1>1, <2>1, <2>2, <2>3, <3>1
    <3>2. CASE u # s
      <4>1. pc'[u] = pc[u]
        BY <1>1, <2>2, <3>2
      <4>2. tx[u] # 0 => tx[u] # tx[s] /\ tx[u] \in 1 .. MaxTx
        BY <1>2, <3>2 DEF TxInv
      <4>3. tx[u] # 0 => outcome'[tx[u]] = outcome[tx[u]]
        BY <1>1, <2>1, <4>2
      <4> QED  BY <4>1, <4>3 DEF TxInv
    <3> QED  BY <3>1, <3>2
  <2> QED  BY <1>4, <2>2, <2>4 DEF TxInv
<1>8. ASSUME NEW s \in Sessions, EndFail(s) \/ EndTxn(s) PROVE TxInv'
  <2>1. /\ tx' = [tx EXCEPT ![s] = 0] /\ readTs' = [readTs EXCEPT ![s] = 0]
        /\ outcome' = outcome /\ ((pc' = pc /\ pc[s] = "idle") \/ pc' = [pc EXCEPT ![s] = "idle"])
    BY <1>8 DEF EndFail, EndTxn, ForgetTxn, stmtVars
  <2>2. \A u \in Sessions : IF u = s THEN tx'[u] = 0 /\ readTs'[u] = 0 /\ pc'[u] = "idle"
                            ELSE tx'[u] = tx[u] /\ readTs'[u] = readTs[u] /\ pc'[u] = pc[u]
    BY <1>1, <2>1
  <2>3. \A u, v \in Sessions : tx'[u] # 0 /\ tx'[u] = tx'[v] => u = v
    BY <2>2 DEF TxInv
  <2>4. ASSUME NEW u \in Sessions
        PROVE  /\ tx'[u] < nextTx' /\ readTs'[u] <= nextTs'
               /\ pc'[u] = "stamp" => tx'[u] # 0
               /\ tx'[u] # 0 => (pc'[u] = "stamp" <=> outcome'[tx'[u]] # 0)
    <3>1. CASE u = s
      BY <1>1, <1>3, <2>2, <3>1
    <3>2. CASE u # s
      BY <1>4, <2>1, <2>2, <3>2 DEF TxInv
    <3> QED  BY <3>1, <3>2
  <2> QED  BY <2>3, <2>4 DEF TxInv
<1>9. ASSUME NEW s \in Sessions, DeleteTs(s) \/ DeleteRows(s) \/ Reinsert(s) \/ MutateFail(s) PROVE TxInv'
  <2>1. /\ UNCHANGED <<tx, readTs, outcome>> /\ pc[s] # "stamp"
        /\ \E q \in {"idle", "deleteRows", "reinsert"} : pc' = [pc EXCEPT ![s] = q]
    BY <1>9 DEF DeleteTs, DeleteRows, Reinsert, MutateFail, txVars
  <2>2. \A u \in Sessions : pc'[u] = "stamp" <=> pc[u] = "stamp"
    BY <1>1, <2>1
  <2> QED  BY <1>5, <2>1, <2>2
<1>10. ASSUME NEW s \in Sessions, NEW t \in Tables, DeleteScan(s, t) \/ UpdateScan(s, t) PROVE TxInv'
  <2>1. /\ UNCHANGED <<tx, readTs, outcome>> /\ pc[s] # "stamp" /\ pc' = [pc EXCEPT ![s] = "deleteTs"]
    BY <1>10 DEF DeleteScan, UpdateScan, Scan, txVars
  <2>2. \A u \in Sessions : pc'[u] = "stamp" <=> pc[u] = "stamp"
    BY <1>1, <2>1
  <2> QED  BY <1>5, <2>1, <2>2
<1>11. ASSUME NEW s \in Sessions, NEW t \in Tables, Insert(s, t) \/ StampTable(s, t) PROVE TxInv'
  BY <1>5, <1>11 DEF Insert, StampTable, stmtVars
<1>12. CASE GcBegin \/ GcPrune \/ UNCHANGED vars
  BY <1>5, <1>12 DEF GcBegin, GcPrune, vars, txVars, stmtVars
<1> QED  BY <1>6, <1>7, <1>8, <1>9, <1>10, <1>11, <1>12 DEF Next

-----------------------------------------------------------------------------
(* What readers find.                                                      *)

\* search finds an entry when there is one, and it finds the newest.
LEMMA BestFound ==
    ASSUME NEW g \in Seq(Entry), NEW at \in Nat, Committed(g, at) # {}
    PROVE  /\ Best(g, at) \in Committed(g, at)
           /\ \A j \in Committed(g, at) : g[j].ts <= g[Best(g, at)].ts
<1> DEFINE C == Committed(g, at)
           T == {n \in Nat : \E i \in C : n = g[i].ts}
<1>1. /\ DOMAIN g = 1 .. Len(g) /\ Len(g) \in Nat
      /\ \A i \in DOMAIN g : g[i].ts \in Nat /\ i \in Nat
  BY GroupType
<1>2. C \in SUBSET DOMAIN g /\ \A i \in C : g[i].ts \in Nat /\ g[i].ts <= at
  BY <1>1 DEF Committed
<1>3. T \in SUBSET Nat /\ T # {} /\ \A n \in T : n <= at
  BY <1>2
<1>4. PICK m \in T : \A n \in T : n <= m
  <2> HIDE DEF T
  <2> QED  BY <1>3, GreatestExists
<1> DEFINE L == {i \in C : g[i].ts = m}
<1>5. L \in SUBSET Nat /\ L # {} /\ \A i \in L : i <= Len(g)
  BY <1>1, <1>2, <1>4
<1>6. PICK b \in L : \A i \in L : i <= b
  <2> HIDE DEF L
  <2> QED  BY <1>1, <1>5, GreatestExists
<1>7. b \in C /\ \A j \in C : g[j].ts < g[b].ts \/ (g[j].ts = g[b].ts /\ j <= b)
  <2>1. b \in C /\ g[b].ts = m
    BY <1>6
  <2>2. \A j \in C : g[j].ts \in T
    BY <1>2
  <2>3. \A j \in C : g[j].ts <= m
    BY <1>4, <2>2
  <2>4. \A j \in C : g[j].ts = m => j <= b
    BY <1>6
  <2> QED  BY <1>2, <2>1, <2>3, <2>4
<1>8. /\ Best(g, at) \in C
      /\ \A j \in C : g[j].ts < g[Best(g, at)].ts \/ (g[j].ts = g[Best(g, at)].ts /\ j <= Best(g, at))
  BY <1>7 DEF Best
<1> QED  BY <1>2, <1>8, SMTT(30)

\* A row has a committed entry of a kind, data or tombstone.
Has(g, tomb, at) == \E i \in DOMAIN g : g[i].tomb = tomb /\ g[i].ts <= at

\* A row is in a snapshot when its data is, and no tombstone.
LEMMA VisibleMeans ==
    ASSUME NEW now, NEW out, NEW next, NEW g, GroupOK(g, now, out, next), NEW at \in 0 .. MaxTs
    PROVE  Visible(g, at) <=> Has(g, FALSE, at) /\ ~Has(g, TRUE, at)
<1>1. g \in Seq(Entry) /\ at \in Nat /\ at < kTxIdFlag
  BY Bounds DEF GroupOK
<1>2. \A i \in DOMAIN g : g[i].ts \in Nat /\ g[i].tomb \in BOOLEAN
  BY <1>1, GroupType
<1>3. \A i : i \in Committed(g, at) <=> i \in DOMAIN g /\ g[i].ts <= at
  BY <1>1, <1>2, Bounds DEF Committed
<1>4. CASE Committed(g, at) = {}
  BY <1>3, <1>4 DEF Visible, Has
<1>5. CASE Committed(g, at) # {}
  <2>1. PICK b : b = Best(g, at)
    OBVIOUS
  <2>2. b \in DOMAIN g /\ g[b].ts <= at /\ \A j \in DOMAIN g : g[j].ts <= at => g[j].ts <= g[b].ts
    BY <1>1, <1>3, <1>5, <2>1, BestFound
  <2>3. CASE g[b].tomb
    BY <1>2, <1>5, <2>1, <2>2, <2>3 DEF Visible, Has
  <2>4. CASE ~g[b].tomb
    <3>1. Has(g, FALSE, at) /\ Visible(g, at)
      BY <1>2, <1>5, <2>1, <2>2, <2>4 DEF Visible, Has
    <3>2. ASSUME NEW j \in DOMAIN g, g[j].tomb, g[j].ts <= at PROVE FALSE
      <4>1. g[j].ts <= g[b].ts
        BY <2>2, <3>2
      <4>2. g[b].ts < g[j].ts
        BY <2>2, <2>4, <3>2 DEF GroupOK, TombsNewer
      <4> QED  BY <1>2, <2>2, <4>1, <4>2
    <3> QED  BY <3>1, <3>2 DEF Has
  <2> QED  BY <1>2, <2>2, <2>3, <2>4
<1> QED  BY <1>4, <1>5

\* A row has as many data entries as before, and committed ones do not change.
LEMMA DataStep ==
    ASSUME TypeOK, IndexInv, OutcomeInv, TxInv, StmtInv, [Next]_vars,
           NEW t \in Tables, NEW r \in RowId, r < rowCount[t],
           NEW g, g = index[t][r], NEW h, h = index'[t][r]
    PROVE  \A i \in DOMAIN h : ~h[i].tomb =>
              \E j \in DOMAIN g : ~g[j].tomb /\ (h[i].ts = g[j].ts \/ g[j].ts > MaxTs)
<1> DEFINE Goal == \A i \in DOMAIN h : ~h[i].tomb =>
              \E j \in DOMAIN g : ~g[j].tomb /\ (h[i].ts = g[j].ts \/ g[j].ts > MaxTs)
<1>1. GroupOK(g, nextTs, outcome, nextTx)
  BY DEF IndexInv
<1>2. PICK m : m = Sorted(t)[r]
  OBVIOUS
<1>3. GroupOK(m, nextTs, outcome, nextTx) /\ DataLast(m) /\ Picks(m, g)
  BY <1>2, SortedEffect
<1>4. \A i \in DOMAIN m : \E j \in DOMAIN g : m[i] = g[j]
  BY <1>3 DEF Picks
<1>5. CASE Spares(t, r)
  BY <1>5 DEF Spares
<1>6. CASE Sorts(t, r)
  BY <1>2, <1>4, <1>6 DEF Sorts
<1>7. CASE Prunes(t, r)
  <2>1. m \in Seq(Entry) /\ h = Pruned(m, cutoff)
    BY <1>2, <1>3, <1>7 DEF Prunes, GroupOK
  <2>2. h = m \/ h = <<>>
    BY <1>3, <2>1, PruneEffect
  <2> QED  BY <1>4, <2>2
<1>8. ASSUME NEW s \in Sessions, Stamps(t, r, s) PROVE Goal
  <2>1. PICK x, c : x = tx[s] /\ c = writeSet[s][t][r]
    OBVIOUS
  <2>2. h = StampGroup(m, c, x, outcome[x]) /\ pc[s] = "stamp"
    BY <1>2, <1>8, <2>1 DEF Stamps
  <2>3. x \in 1 .. MaxTx /\ outcome[x] # 0 /\ c \in Nat
    BY <2>1, <2>2, Bounds, SMTT(30) DEF TxInv, TypeOK
  <2>4. Times(nextTs, outcome, nextTx)
    BY TimeStep DEF TimeInv
  <2>5. Stamped(h, m, c, x, outcome[x])
    BY <1>3, <2>2, <2>3, <2>4, StampEffect
  <2>6. Flagged(x) > MaxTs
    BY <2>3, MarksApart, Bounds
  <2>7. ASSUME NEW i \in DOMAIN h, ~h[i].tomb
        PROVE  \E j \in DOMAIN g : ~g[j].tomb /\ (h[i].ts = g[j].ts \/ g[j].ts > MaxTs)
    <3>1. /\ i \in DOMAIN m /\ ~m[i].tomb
          /\ h[i].ts = m[i].ts \/ m[i].ts = Flagged(x)
      BY <2>5, <2>7 DEF Stamped
    <3> QED  BY <1>4, <2>6, <3>1
  <2> QED  BY <2>7
<1>9. ASSUME NEW s \in Sessions, Buries(t, r, s) PROVE Goal
  <2>1. h = Append(g, Tombstone(s)) /\ Tombstone(s).tomb
    BY <1>9 DEF Buries, Tombstone
  <2>2. g \in Seq(Entry)
    BY <1>1 DEF GroupOK
  <2>3. DOMAIN g = 1 .. Len(g) /\ Len(g) \in Nat
    BY <2>2, GroupType
  <2>4. Tombstone(s) \in Entry
    BY Bounds DEF Tombstone, Entry, TypeOK
  <2>5. /\ Len(h) = Len(g) + 1 /\ h \in Seq(Entry) /\ h[Len(g) + 1] = Tombstone(s)
        /\ \A i \in 1 .. Len(g) : h[i] = g[i]
    BY <2>1, <2>2, <2>4, AppendProperties
  <2>6. DOMAIN h = 1 .. Len(g) + 1
    BY <2>3, <2>5, LenProperties
  <2>7. \A i \in DOMAIN h : ~h[i].tomb => i \in DOMAIN g /\ h[i] = g[i]
    BY <2>1, <2>3, <2>5, <2>6
  <2> QED  BY <2>7
<1>10. ASSUME NEW s \in Sessions, NEW n \in Nat, Creates(t, r, s, n) PROVE FALSE
  <2>1. rowCount[t] \in Nat /\ r \in Nat
    BY Bounds DEF TypeOK, RowId
  <2> QED  BY <1>10, <2>1 DEF Creates
<1>11. GroupStep(t, r)
  BY StepOfGroup
<1> QED  BY <1>5, <1>6, <1>7, <1>8, <1>9, <1>10, <1>11 DEF GroupStep

\* Rows that a statement is about to delete stay as it found them.
LEMMA VictimStep ==
    ASSUME TypeOK, IndexInv, OutcomeInv, TxInv, StmtInv, [Next]_vars,
           NEW t \in Tables, NEW r \in RowId, r < rowCount[t],
           NEW now \in Nat, now <= nextTs', now <= MaxTs, NEW ts, NEW timed,
           NEW g, g = index[t][r], NEW h, h = index'[t][r], Victims(g, now, ts, timed)
    PROVE  Victims(h, nextTs', ts, timed) /\ r < rowCount'[t]
<1>1. GroupOK(g, nextTs, outcome, nextTx) /\ IndexInv'
  BY IndexStep DEF IndexInv
<1>2. \A j \in DOMAIN g : g[j].ts \in Nat
  BY <1>1, GroupType DEF GroupOK
<1>3. nextTs' \in Nat
  BY TimeStep, Bounds DEF Times
<1>4. ASSUME NEW i \in DOMAIN h, ~h[i].tomb PROVE h[i].ts <= nextTs' /\ (timed => h[i].ts < ts)
  <2>1. PICK j \in DOMAIN g : ~g[j].tomb /\ (h[i].ts = g[j].ts \/ g[j].ts > MaxTs)
    BY <1>4, DataStep
  <2>2. g[j].ts <= now /\ (timed => g[j].ts < ts)
    BY <2>1 DEF Victims
  <2>3. h[i].ts = g[j].ts
    BY <1>2, <2>1, <2>2, Bounds
  <2> QED  BY <1>2, <1>3, <2>2, <2>3
<1>5. r < rowCount'[t]
  <2>1. /\ rowCount \in [Tables -> 0 .. MaxRows] /\ rowCount' \in [Tables -> 0 .. MaxRows]
        /\ rowCount[t] <= rowCount'[t]
    BY RowCountStep DEF TypeOK
  <2>2. rowCount[t] \in Nat /\ rowCount'[t] \in Nat /\ r \in Nat
    BY <2>1, Bounds DEF RowId
  <2> QED  BY <2>1, <2>2
<1> QED  BY <1>4, <1>5 DEF Victims

\* What a scan finds is committed, in rows that exist.
LEMMA ScanFinds ==
    ASSUME TypeOK, IndexInv, NEW t \in Tables, NEW at \in 0 .. MaxTs, NEW r \in Rows(index[t], at)
    PROVE  /\ r \in RowId /\ r < rowCount[t]
           /\ Victims(index[t][r], at, 0, FALSE)
<1>1. r \in RowId /\ Visible(index[t][r], at)
  BY DEF Rows
<1>2. PICK g : g = index[t][r]
  OBVIOUS
<1>3. GroupOK(g, nextTs, outcome, nextTx) /\ (r >= rowCount[t] => g = <<>>)
  BY <1>1, <1>2 DEF IndexInv
<1>4. PICK i \in DOMAIN g : ~g[i].tomb /\ g[i].ts <= at
  BY <1>1, <1>2, <1>3, VisibleMeans DEF Has
<1>5. r < rowCount[t]
  <2>1. g # <<>>
    BY <1>4
  <2>2. r \in Nat /\ rowCount[t] \in Nat
    BY <1>1, Bounds DEF RowId, TypeOK
  <2> QED  BY <1>3, <2>1, <2>2
<1>6. Victims(g, at, 0, FALSE)
  BY <1>3, <1>4 DEF GroupOK, OneData, Victims
<1> QED  BY <1>1, <1>2, <1>5, <1>6

\* Statements between their steps.
LEMMA StmtStep ==
    ASSUME TypeOK, IndexInv, OutcomeInv, TxInv, StmtInv, [Next]_vars PROVE StmtInv'
<1> DEFINE Ok(u) ==
        /\ pc'[u] \in {"deleteTs", "deleteRows", "reinsert"} => stmt'[u].table \in Tables
        /\ pc'[u] = "deleteRows" => IF tx'[u] # 0 THEN stmt'[u].ts = Flagged(tx'[u]) ELSE stmt'[u].ts <= nextTs'
        /\ pc'[u] \in {"deleteTs", "deleteRows"} => \A r \in stmt'[u].rows :
              /\ r < rowCount'[stmt'[u].table]
              /\ Victims(index'[stmt'[u].table][r], nextTs', stmt'[u].ts, pc'[u] = "deleteRows")
<1>1. /\ nextTs \in Nat /\ nextTs <= MaxTs /\ nextTs' \in Nat /\ nextTs <= nextTs' /\ nextTs' <= MaxTs
  BY TimeStep, Bounds DEF Times, Later, TimeInv
<1>2. /\ pc \in [Sessions -> {"idle", "deleteTs", "deleteRows", "reinsert", "stamp"}]
      /\ stmt \in [Sessions -> [table : Nat, rows : SUBSET RowId, ts : Nat, update : BOOLEAN]]
      /\ tx \in [Sessions -> 0 .. MaxTx] /\ readTs \in [Sessions -> 0 .. MaxTs]
  BY DEF TypeOK
<1>3. ASSUME NEW u \in Sessions, pc'[u] \in {"idle", "stamp"} PROVE Ok(u)
  BY <1>3
<1>4. ASSUME NEW u \in Sessions, tx'[u] = tx[u], pc'[u] = pc[u], stmt'[u] = stmt[u] PROVE Ok(u)
  <2>1. PICK t, m, R : t = stmt[u].table /\ m = stmt[u].ts /\ R = stmt[u].rows
    OBVIOUS
  <2>2. pc[u] \in {"deleteTs", "deleteRows", "reinsert"} => t \in Tables
    BY <2>1 DEF StmtInv
  <2>3. pc[u] = "deleteRows" => IF tx[u] # 0 THEN m = Flagged(tx[u]) ELSE m <= nextTs'
    <3>1. m \in Nat
      BY <1>2, <2>1
    <3> QED  BY <1>1, <2>1, <3>1 DEF StmtInv
  <2>4. ASSUME pc[u] \in {"deleteTs", "deleteRows"}, NEW r \in R
        PROVE  r < rowCount'[t] /\ Victims(index'[t][r], nextTs', m, pc[u] = "deleteRows")
    <3>1. /\ t \in Tables /\ r \in RowId /\ r < rowCount[t]
          /\ Victims(index[t][r], nextTs, m, pc[u] = "deleteRows")
      BY <1>2, <2>1, <2>4 DEF StmtInv
    <3>2. PICK g, h, timed : g = index[t][r] /\ h = index'[t][r] /\ timed = (pc[u] = "deleteRows")
      OBVIOUS
    <3>3. Victims(h, nextTs', m, timed) /\ r < rowCount'[t]
      BY <1>1, <3>1, <3>2, VictimStep
    <3> QED  BY <3>2, <3>3
  <2> QED  BY <1>4, <2>1, <2>2, <2>3, <2>4
<1>5. ASSUME NEW s \in Sessions, NEW t \in Tables, NEW update, Scan(s, t, update) PROVE StmtInv'
  <2>1. PICK at : at = IF tx[s] # 0 THEN readTs[s] ELSE nextTs + 1
    OBVIOUS
  <2>2. PICK rows \in SUBSET Rows(index[t], at) :
           stmt' = [stmt EXCEPT ![s] = [table |-> t, rows |-> rows, ts |-> 0, update |-> update]]
    BY <1>5, <2>1 DEF Scan
  <2>3. /\ pc' = [pc EXCEPT ![s] = "deleteTs"] /\ tx' = tx
        /\ tx[s] = 0 => nextTs + 1 <= MaxTs /\ nextTs' = nextTs + 1
    BY <1>5 DEF Scan, txVars, Allocate
  <2>4. at \in 0 .. MaxTs /\ at \in Nat /\ at <= nextTs' /\ at <= MaxTs
    <3>1. CASE tx[s] # 0
      BY <1>1, <1>2, <2>1, <3>1, Bounds DEF TxInv
    <3>2. CASE tx[s] = 0
      BY <1>1, <2>1, <2>3, <3>2, Bounds
    <3> QED  BY <3>1, <3>2
  <2>5. ASSUME NEW r \in rows PROVE r < rowCount'[t] /\ Victims(index'[t][r], nextTs', 0, FALSE)
    <3>1. r \in RowId /\ r < rowCount[t] /\ Victims(index[t][r], at, 0, FALSE)
      BY <2>2, <2>4, <2>5, ScanFinds
    <3>2. PICK g, h : g = index[t][r] /\ h = index'[t][r]
      OBVIOUS
    <3>3. Victims(h, nextTs', 0, FALSE) /\ r < rowCount'[t]
      BY <2>4, <3>1, <3>2, VictimStep
    <3> QED  BY <3>2, <3>3
  <2>6. /\ pc'[s] = "deleteTs" /\ stmt'[s].table = t /\ stmt'[s].rows = rows /\ stmt'[s].ts = 0
    BY <1>2, <2>2, <2>3
  <2>7. (pc'[s] = "deleteRows") = FALSE
    BY <2>6
  <2>8. Ok(s)
    BY <2>5, <2>6, <2>7
  <2>9. \A u \in Sessions : u # s => Ok(u)
    <3>1. \A u \in Sessions : u # s => tx'[u] = tx[u] /\ pc'[u] = pc[u] /\ stmt'[u] = stmt[u]
      BY <1>2, <2>2, <2>3
    <3> HIDE DEF Ok
    <3> QED  BY <1>4, <3>1
  <2>10. \A u \in Sessions : Ok(u)
    BY <2>8, <2>9
  <2> QED  BY <2>10 DEF StmtInv
<1>6. ASSUME NEW s \in Sessions, DeleteTs(s) PROVE StmtInv'
  <2>1. PICK m : m = IF tx[s] # 0 THEN Flagged(tx[s]) ELSE nextTs + 1
    OBVIOUS
  <2>2. /\ pc[s] = "deleteTs" /\ stmt' = [stmt EXCEPT ![s].ts = m] /\ pc' = [pc EXCEPT ![s] = "deleteRows"]
        /\ UNCHANGED <<index, rowCount, tx>> /\ (tx[s] = 0 => nextTs' = nextTs + 1)
    BY <1>6, <2>1 DEF DeleteTs, tblVars, txVars, Allocate
  <2>3. /\ pc'[s] = "deleteRows" /\ stmt'[s].table = stmt[s].table /\ stmt'[s].rows = stmt[s].rows
        /\ stmt'[s].ts = m /\ tx'[s] = tx[s]
    BY <1>2, <2>2
  <2>4. m \in Nat /\ nextTs < m /\ IF tx[s] # 0 THEN m = Flagged(tx[s]) ELSE m <= nextTs'
    <3>1. CASE tx[s] # 0
      BY <1>1, <1>2, <2>1, <3>1, MarksApart, Bounds
    <3>2. CASE tx[s] = 0
      BY <1>1, <2>1, <2>2, <3>2
    <3> QED  BY <3>1, <3>2
  <2>5. stmt[s].table \in Tables
    BY <2>2 DEF StmtInv
  <2>6. ASSUME NEW r \in stmt[s].rows
        PROVE  r < rowCount[stmt[s].table] /\ Victims(index[stmt[s].table][r], nextTs', m, TRUE)
    <3>1. PICK g : g = index[stmt[s].table][r]
      OBVIOUS
    <3>2. r < rowCount[stmt[s].table] /\ Victims(g, nextTs, stmt[s].ts, pc[s] = "deleteRows")
      BY <2>2, <2>6, <3>1 DEF StmtInv
    <3>3. \A i \in DOMAIN g : g[i].ts \in Nat
      <4>1. r \in RowId
        BY <1>2
      <4>2. g \in Seq(Entry)
        BY <2>5, <3>1, <4>1 DEF TypeOK
      <4> QED  BY <4>2, GroupType
    <3>4. Victims(g, nextTs', m, TRUE)
      BY <1>1, <2>4, <3>2, <3>3 DEF Victims
    <3> QED  BY <3>1, <3>2, <3>4
  <2>7. (pc'[s] = "deleteRows") = TRUE
    BY <2>3
  <2>8. Ok(s)
    BY <2>2, <2>3, <2>4, <2>5, <2>6, <2>7
  <2>9. \A u \in Sessions : u # s => Ok(u)
    <3>1. \A u \in Sessions : u # s => tx'[u] = tx[u] /\ pc'[u] = pc[u] /\ stmt'[u] = stmt[u]
      BY <1>2, <2>2
    <3> HIDE DEF Ok
    <3> QED  BY <1>4, <3>1
  <2>10. \A u \in Sessions : Ok(u)
    BY <2>8, <2>9
  <2> QED  BY <2>10 DEF StmtInv
<1>7. ASSUME NEW s \in Sessions, DeleteRows(s) PROVE StmtInv'
  <2>1. /\ pc[s] = "deleteRows" /\ tx' = tx
        /\ pc' = [pc EXCEPT ![s] = IF stmt[s].update THEN "reinsert" ELSE "idle"]
        /\ stmt' = [stmt EXCEPT ![s] = IF stmt[s].update THEN @ ELSE NoStmt]
    BY <1>7 DEF DeleteRows
  <2>2. pc'[s] = "idle" \/ (pc'[s] = "reinsert" /\ stmt'[s].table = stmt[s].table)
    BY <1>2, <2>1
  <2>3. Ok(s)
    BY <2>1, <2>2 DEF StmtInv
  <2>4. \A u \in Sessions : u # s => Ok(u)
    <3>1. \A u \in Sessions : u # s => tx'[u] = tx[u] /\ pc'[u] = pc[u] /\ stmt'[u] = stmt[u]
      BY <1>2, <2>1
    <3> HIDE DEF Ok
    <3> QED  BY <1>4, <3>1
  <2>5. \A u \in Sessions : Ok(u)
    BY <2>3, <2>4
  <2> QED  BY <2>5 DEF StmtInv
<1>8. ASSUME \E s \in Sessions : /\ pc'[s] \in {"idle", "stamp"}
                                 /\ \A u \in Sessions : u # s => tx'[u] = tx[u] /\ pc'[u] = pc[u] /\ stmt'[u] = stmt[u]
      PROVE  StmtInv'
  <2>1. \A u \in Sessions : Ok(u)
    <3> HIDE DEF Ok
    <3> QED  BY <1>3, <1>4, <1>8
  <2> QED  BY <2>1 DEF StmtInv
<1>9. ASSUME NEW s \in Sessions, Begin(s) \/ Commit(s) \/ Rollback(s) \/ EndFail(s) \/ EndTxn(s)
                                 \/ Reinsert(s) \/ MutateFail(s)
      PROVE  StmtInv'
  <2>1. /\ tx' = tx \/ \E x : tx' = [tx EXCEPT ![s] = x]
        /\ stmt' = stmt \/ stmt' = [stmt EXCEPT ![s] = NoStmt]
        /\ (pc' = pc /\ pc[s] = "idle") \/ \E q \in {"idle", "stamp"} : pc' = [pc EXCEPT ![s] = q]
    BY <1>9 DEF Begin, Commit, Rollback, EndFail, EndTxn, Reinsert, MutateFail, ForgetTxn, stmtVars, txVars
  <2>2. pc'[s] \in {"idle", "stamp"}
    BY <1>2, <2>1
  <2>3. \A u \in Sessions : u # s => tx'[u] = tx[u] /\ pc'[u] = pc[u] /\ stmt'[u] = stmt[u]
    BY <1>2, <2>1
  <2> QED  BY <1>8, <2>2, <2>3
<1>10. ASSUME UNCHANGED <<tx, pc, stmt>> PROVE StmtInv'
  <2>1. \A u \in Sessions : Ok(u)
    <3> HIDE DEF Ok
    <3> QED  BY <1>4, <1>10
  <2> QED  BY <2>1 DEF StmtInv
<1>11. ASSUME NEW s \in Sessions, NEW t \in Tables, Insert(s, t) \/ StampTable(s, t) PROVE StmtInv'
  <2>1. UNCHANGED <<tx, pc, stmt>>
    BY <1>11 DEF Insert, StampTable, stmtVars
  <2> QED  BY <1>10, <2>1
<1>12. CASE GcBegin \/ GcPrune \/ UNCHANGED vars
  <2>1. UNCHANGED <<tx, pc, stmt>>
    BY <1>12 DEF GcBegin, GcPrune, vars, txVars, stmtVars
  <2> QED  BY <1>10, <2>1
<1>13. ASSUME NEW s \in Sessions, NEW t \in Tables, DeleteScan(s, t) \/ UpdateScan(s, t) PROVE StmtInv'
  BY <1>5, <1>13 DEF DeleteScan, UpdateScan
<1> QED  BY <1>6, <1>7, <1>9, <1>11, <1>12, <1>13 DEF Next

-----------------------------------------------------------------------------
(* Marks and write sets.                                                   *)

\* A row's marks of transaction y become no more, or one more with an entry
\* in the write set of a transaction that is not decided.
MarksMove(t, r, y) ==
    \/ /\ Cardinality(Marked(index'[t][r], y)) <= Cardinality(Marked(index[t][r], y))
       /\ Marked(index[t][r], y) = {} => Marked(index'[t][r], y) = {}
    \/ \E s \in Sessions :
          /\ tx[s] = y /\ pc[s] # "stamp"
          /\ Cardinality(Marked(index'[t][r], y)) <= Cardinality(Marked(index[t][r], y)) + 1
          /\ writeSet'[s][t][r] = writeSet[s][t][r] + 1

\* The marks of a row can be counted.
LEMMA MarksFinite ==
    ASSUME NEW g \in Seq(Entry), NEW y
    PROVE  /\ IsFiniteSet(Marked(g, y)) /\ Cardinality(Marked(g, y)) \in Nat
           /\ Cardinality(Marked(g, y)) = 0 <=> Marked(g, y) = {}
<1>1. IsFiniteSet(DOMAIN g) /\ Marked(g, y) \in SUBSET DOMAIN g
  BY GroupType DEF Marked
<1>2. IsFiniteSet(Marked(g, y))
  BY <1>1, FS_Subset
<1> QED  BY <1>2, FS_CardinalityType, FS_EmptySet

\* Stamping adds no mark, and clears those of the transaction that stamps.
LEMMA StampMarks ==
    ASSUME TypeOK, IndexInv, OutcomeInv, TxInv, MarkedInv, [Next]_vars,
           NEW t \in Tables, NEW r \in RowId, NEW s \in Sessions, Stamps(t, r, s),
           NEW g, g = index[t][r], NEW h, h = index'[t][r]
    PROVE  /\ Marked(h, tx[s]) = {}
           /\ \A y \in 1 .. MaxTx : /\ Cardinality(Marked(h, y)) <= Cardinality(Marked(g, y))
                                    /\ Marked(g, y) = {} => Marked(h, y) = {}
<1>1. Times(nextTs, outcome, nextTx) /\ GroupOK(g, nextTs, outcome, nextTx)
  BY TimeStep DEF TimeInv, IndexInv
<1>2. PICK m : m = Sorted(t)[r]
  OBVIOUS
<1>3. GroupOK(m, nextTs, outcome, nextTx) /\ Picks(m, g)
  BY <1>2, SortedEffect
<1>4. PICK x, c : x = tx[s] /\ c = writeSet[s][t][r]
  OBVIOUS
<1>5. h = StampGroup(m, c, x, outcome[x]) /\ pc[s] = "stamp"
  BY <1>2, <1>4 DEF Stamps
<1>6. x \in 1 .. MaxTx /\ outcome[x] # 0 /\ c \in Nat
  BY <1>4, <1>5, Bounds, SMTT(30) DEF TxInv, TypeOK
<1>7. Stamped(h, m, c, x, outcome[x]) /\ GroupOK(h, nextTs, outcome, nextTx)
  BY <1>1, <1>3, <1>5, <1>6, StampEffect
<1>8. \A y : /\ Cardinality(Marked(m, y)) \in Nat /\ Cardinality(Marked(g, y)) \in Nat
             /\ Cardinality(Marked(m, y)) <= Cardinality(Marked(g, y))
             /\ Marked(g, y) = {} => Marked(m, y) = {}
  BY <1>1, <1>3, GroupPicked
<1>9. Marked(h, x) = {}
  <2>1. Cardinality(Marked(g, x)) <= c
    BY <1>4, <1>6, Bounds DEF MarkedInv
  <2>2. Cardinality(Marked(m, x)) <= c
    BY <1>6, <1>8, <2>1
  <2> QED  BY <1>7, <2>2 DEF Stamped
<1>10. \A y \in 1 .. MaxTx : y # x => Marked(h, y) = Marked(m, y)
  BY <1>7, Bounds DEF Stamped
<1>11. Cardinality(Marked(h, x)) = 0
  BY <1>9, FS_EmptySet
<1>12. ASSUME NEW y \in 1 .. MaxTx
       PROVE  Cardinality(Marked(h, y)) <= Cardinality(Marked(g, y)) /\ (Marked(g, y) = {} => Marked(h, y) = {})
  <2>1. CASE y = x
    BY <1>8, <1>9, <1>11, <2>1
  <2>2. CASE y # x
    BY <1>8, <1>10, <2>2
  <2> QED  BY <2>1, <2>2
<1> QED  BY <1>4, <1>9, <1>12

\* No step adds marks in any other way.
LEMMA MarksStep ==
    ASSUME TypeOK, IndexInv, OutcomeInv, TxInv, StmtInv, MarkedInv, [Next]_vars,
           NEW t \in Tables, NEW r \in RowId, NEW y \in 1 .. MaxTx
    PROVE  MarksMove(t, r, y)
<1>1. PICK g, h, m : g = index[t][r] /\ h = index'[t][r] /\ m = Sorted(t)[r]
  OBVIOUS
<1>2. GroupOK(g, nextTs, outcome, nextTx) /\ (r >= rowCount[t] => g = <<>>) /\ g \in Seq(Entry)
  BY <1>1 DEF IndexInv, GroupOK
<1>3. GroupOK(m, nextTs, outcome, nextTx) /\ DataLast(m) /\ Picks(m, g) /\ m \in Seq(Entry)
  <2>1. GroupOK(m, nextTs, outcome, nextTx) /\ DataLast(m) /\ Picks(m, g)
    BY <1>1, SortedEffect
  <2> QED  BY <2>1 DEF Picks
<1>4. /\ Cardinality(Marked(m, y)) \in Nat /\ Cardinality(Marked(g, y)) \in Nat
      /\ Cardinality(Marked(m, y)) <= Cardinality(Marked(g, y))
      /\ Marked(g, y) = {} => Marked(m, y) = {}
  BY <1>2, <1>3, GroupPicked
<1>5. Cardinality(Marked(<<>>, y)) = 0 /\ Marked(<<>>, y) = {}
  BY EmptyEffect
<1>6. CASE h = g \/ h = m \/ h = <<>>
  BY <1>1, <1>4, <1>5, <1>6 DEF MarksMove
<1>7. CASE Spares(t, r) \/ Sorts(t, r)
  BY <1>1, <1>6, <1>7 DEF Spares, Sorts
<1>8. CASE Prunes(t, r)
  <2>1. h = Pruned(m, cutoff)
    BY <1>1, <1>8 DEF Prunes
  <2>2. h = m \/ h = <<>>
    BY <1>3, <2>1, PruneEffect
  <2> QED  BY <1>6, <2>2
<1>9. ASSUME NEW s \in Sessions, Stamps(t, r, s) PROVE MarksMove(t, r, y)
  BY <1>1, <1>9, StampMarks DEF MarksMove
<1>10. writeSet \in [Sessions -> [Tables -> [RowId -> Nat]]]
  BY DEF TypeOK
<1>11. ASSUME NEW s \in Sessions, Buries(t, r, s) PROVE MarksMove(t, r, y)
  <2>1. PICK e : e = Tombstone(s)
    OBVIOUS
  <2>2. /\ h = Append(g, e) /\ pc[s] = "deleteRows" /\ r \in stmt[s].rows
        /\ tx[s] # 0 => writeSet' = [writeSet EXCEPT ![s][t] =
                                    [q \in RowId |-> @[q] + IF q \in stmt[s].rows THEN 1 ELSE 0]]
    BY <1>1, <1>11, <2>1 DEF Buries
  <2>3. e \in Entry /\ e.ts = stmt[s].ts
    BY <2>1, Bounds DEF Tombstone, Entry, TypeOK
  <2>4. /\ e.ts # Flagged(y) => Marked(h, y) = Marked(g, y)
        /\ Cardinality(Marked(h, y)) <= Cardinality(Marked(g, y)) + 1
    BY <1>2, <1>4, <2>2, <2>3, AppendMarked
  <2>5. CASE e.ts # Flagged(y)
    BY <1>1, <1>4, <2>4, <2>5 DEF MarksMove
  <2>6. CASE e.ts = Flagged(y)
    <3>1. tx[s] \in 0 .. MaxTx /\ nextTs \in Nat /\ nextTs <= MaxTs /\ y \in 0 .. MaxTx
      BY Bounds DEF TypeOK
    <3>2. IF tx[s] # 0 THEN e.ts = Flagged(tx[s]) ELSE e.ts <= nextTs
      BY <2>2, <2>3 DEF StmtInv
    <3>3. Flagged(y) > nextTs /\ Flagged(y) \in Nat
      BY <3>1, MarksApart, Bounds
    <3>4. tx[s] # 0 /\ tx[s] = y
      BY <2>6, <3>1, <3>2, <3>3, MarksApart
    <3>5. writeSet'[s][t][r] = writeSet[s][t][r] + 1
      BY <1>10, <2>2, <3>4
    <3> QED  BY <1>1, <2>2, <2>4, <3>4, <3>5 DEF MarksMove
  <2> QED  BY <2>5, <2>6
<1>12. ASSUME NEW s \in Sessions, NEW n \in Nat, Creates(t, r, s, n) PROVE MarksMove(t, r, y)
  <2>1. PICK ts \in Nat : /\ h = <<[ts |-> ts, tomb |-> FALSE, by |-> tx[s]]>>
                          /\ tx[s] # 0 => ts = Flagged(tx[s])
                          /\ tx[s] = 0 => nextTs < ts /\ ts <= nextTs'
    BY <1>1, <1>12 DEF Creates
  <2>2. /\ pc[s] # "stamp" /\ r \in rowCount[t] .. rowCount[t] + n - 1
        /\ tx[s] # 0 => writeSet' = [writeSet EXCEPT ![s][t] =
                        [q \in RowId |-> @[q] + IF q \in rowCount[t] .. rowCount[t] + n - 1 THEN 1 ELSE 0]]
    BY <1>12 DEF Creates
  <2>3. PICK e : e = [ts |-> ts, tomb |-> FALSE, by |-> tx[s]]
    OBVIOUS
  <2>4. e \in Entry /\ ~e.tomb /\ e.ts = ts
    BY <2>3, Bounds DEF Entry, TypeOK
  <2>5. Marked(h, y) = IF ts = Flagged(y) THEN {1} ELSE {}
    BY <2>1, <2>3, <2>4 DEF Marked
  <2>6. Cardinality({1}) = 1 /\ Cardinality({}) = 0
    BY FS_Singleton, FS_EmptySet
  <2>7. CASE ts # Flagged(y)
    BY <1>1, <1>4, <2>5, <2>6, <2>7 DEF MarksMove
  <2>8. CASE ts = Flagged(y)
    <3>1. tx[s] \in 0 .. MaxTx /\ nextTs' \in Nat /\ nextTs' <= MaxTs /\ y \in 0 .. MaxTx
      BY TimeStep, Bounds, SMTT(30) DEF TypeOK, Times
    <3>2. Flagged(y) > nextTs' /\ Flagged(y) \in Nat
      BY <3>1, MarksApart, Bounds
    <3>3. tx[s] # 0 /\ tx[s] = y
      BY <2>1, <2>8, <3>1, <3>2, MarksApart
    <3>4. writeSet'[s][t][r] = writeSet[s][t][r] + 1
      BY <1>10, <2>2, <3>3
    <3>5. Cardinality(Marked(h, y)) <= Cardinality(Marked(g, y)) + 1
      BY <1>4, <2>5, <2>6, <2>8
    <3> QED  BY <1>1, <2>2, <3>3, <3>4, <3>5 DEF MarksMove
  <2> QED  BY <2>7, <2>8
<1>13. GroupStep(t, r)
  BY StepOfGroup
<1> QED  BY <1>7, <1>8, <1>9, <1>11, <1>12, <1>13 DEF GroupStep

\* Sessions keep their transactions and write sets, begin or end them; they
\* leave a table to be stamped only by stamping it.
LEMMA OwnerStep ==
    ASSUME TypeOK, OutcomeInv, TxInv, StmtInv, [Next]_vars, NEW u \in Sessions
    PROVE  /\ \/ tx'[u] = 0
              \/ tx'[u] = nextTx /\ nextTx <= MaxTx /\ index' = index
              \/ tx'[u] = tx[u] /\ \A t \in Tables : \A r \in RowId : writeSet[u][t][r] <= writeSet'[u][t][r]
           /\ pc[u] = "stamp" /\ todo[u] # {} =>
                 /\ tx'[u] = tx[u]
                 /\ \A t \in todo[u] : t \in todo'[u] \/ \A r \in RowId : Stamps(t, r, u)
<1> DEFINE Kept == /\ tx'[u] = tx[u]
                   /\ \A t \in Tables : \A r \in RowId : writeSet[u][t][r] <= writeSet'[u][t][r]
           Own == \/ tx'[u] = 0
                  \/ tx'[u] = nextTx /\ nextTx <= MaxTx /\ index' = index
                  \/ Kept
           Still == pc[u] = "stamp" /\ todo[u] # {} =>
                 /\ tx'[u] = tx[u]
                 /\ \A t \in todo[u] : t \in todo'[u] \/ \A r \in RowId : Stamps(t, r, u)
<1>1. /\ tx \in [Sessions -> 0 .. MaxTx] /\ todo \in [Sessions -> SUBSET Tables]
      /\ writeSet \in [Sessions -> [Tables -> [RowId -> Nat]]]
      /\ pc \in [Sessions -> {"idle", "deleteTs", "deleteRows", "reinsert", "stamp"}]
  BY DEF TypeOK
<1>2. \A t \in Tables : \A r \in RowId : writeSet[u][t][r] \in Nat
  BY <1>1
<1>3. ASSUME writeSet'[u] = writeSet[u], tx'[u] = tx[u] PROVE Kept
  BY <1>2, <1>3
<1>4. ASSUME UNCHANGED <<tx, writeSet, todo>> PROVE Own /\ Still
  BY <1>3, <1>4
<1>5. ASSUME NEW s \in Sessions, Begin(s) PROVE Own /\ Still
  <2>1. /\ pc[s] = "idle" /\ nextTx <= MaxTx /\ UNCHANGED <<index, writeSet, todo>>
        /\ tx' = tx \/ tx' = [tx EXCEPT ![s] = nextTx]
    BY <1>5 DEF Begin, tblVars
  <2>2. CASE u = s
    <3>1. tx'[u] = tx[u] \/ tx'[u] = nextTx
      BY <1>1, <2>1, <2>2
    <3> QED  BY <1>3, <2>1, <2>2, <3>1
  <2>3. CASE u # s
    <3>1. tx'[u] = tx[u]
      BY <1>1, <2>1, <2>3
    <3> QED  BY <1>3, <2>1, <3>1
  <2> QED  BY <2>2, <2>3
<1>6. ASSUME NEW s \in Sessions, Commit(s) \/ Rollback(s) PROVE Own /\ Still
  <2>1. pc[s] = "idle" /\ todo' = [todo EXCEPT ![s] = Touched(s)] /\ UNCHANGED <<tx, writeSet>>
    BY <1>6 DEF Commit, Rollback
  <2>2. u = s \/ todo'[u] = todo[u]
    BY <1>1, <2>1
  <2> QED  BY <1>3, <2>1, <2>2
<1>7. ASSUME NEW s \in Sessions, EndFail(s) \/ EndTxn(s) PROVE Own /\ Still
  <2>1. /\ pc[s] = "idle" \/ todo[s] = {}
        /\ ForgetTxn(s) /\ todo' = todo
    BY <1>7 DEF EndFail, EndTxn
  <2>2. CASE u = s
    BY <1>1, <2>1, <2>2 DEF ForgetTxn
  <2>3. CASE u # s
    <3>1. tx'[u] = tx[u] /\ writeSet'[u] = writeSet[u]
      BY <1>1, <2>1, <2>3 DEF ForgetTxn
    <3> QED  BY <1>3, <2>1, <3>1
  <2> QED  BY <2>2, <2>3
<1>8. ASSUME NEW s \in Sessions, NEW w \in Tables, NEW S, tx' = tx, todo' = todo,
             \/ writeSet' = writeSet
             \/ writeSet' = [writeSet EXCEPT ![s][w] = [q \in RowId |-> @[q] + IF q \in S THEN 1 ELSE 0]]
      PROVE  Own /\ Still
  <2>1. CASE writeSet' = writeSet
    BY <1>4, <1>8, <2>1
  <2>2. CASE writeSet' = [writeSet EXCEPT ![s][w] = [q \in RowId |-> @[q] + IF q \in S THEN 1 ELSE 0]]
    <3>1. ASSUME NEW t \in Tables, NEW r \in RowId PROVE writeSet[u][t][r] <= writeSet'[u][t][r]
      <4>1. writeSet[u][t][r] \in Nat
        BY <1>2
      <4>2. CASE u = s /\ t = w
        <5>1. writeSet'[u][t][r] = writeSet[u][t][r] + IF r \in S THEN 1 ELSE 0
          BY <1>1, <2>2, <4>2
        <5> QED  BY <4>1, <5>1
      <4>3. CASE ~(u = s /\ t = w)
        <5>1. writeSet'[u][t] = writeSet[u][t]
          BY <1>1, <2>2, <4>3
        <5> QED  BY <4>1, <5>1
      <4> QED  BY <4>2, <4>3
    <3> QED  BY <1>8, <3>1
  <2> QED  BY <1>8, <2>1, <2>2
<1>9. ASSUME NEW s \in Sessions, DeleteRows(s) PROVE Own /\ Still
  <2>1. PICK w, S : w = stmt[s].table /\ S = stmt[s].rows
    OBVIOUS
  <2>2. w \in Tables
    BY <1>9, <2>1 DEF DeleteRows, StmtInv
  <2>3. /\ tx' = tx /\ todo' = todo
        /\ \/ writeSet' = writeSet
           \/ writeSet' = [writeSet EXCEPT ![s][w] = [q \in RowId |-> @[q] + IF q \in S THEN 1 ELSE 0]]
    BY <1>9, <2>1 DEF DeleteRows
  <2> QED  BY <1>8, <2>2, <2>3
<1>10. ASSUME NEW s \in Sessions, NEW w \in Tables, NEW n, InsertRows(s, w, n), tx' = tx, todo' = todo
       PROVE  Own /\ Still
  <2>1. PICK S : S = rowCount[w] .. rowCount[w] + n - 1
    OBVIOUS
  <2>2. \/ writeSet' = writeSet
        \/ writeSet' = [writeSet EXCEPT ![s][w] = [q \in RowId |-> @[q] + IF q \in S THEN 1 ELSE 0]]
    BY <1>10, <2>1 DEF InsertRows
  <2> QED  BY <1>8, <1>10, <2>2
<1>11. ASSUME NEW s \in Sessions, Reinsert(s) \/ \E w \in Tables : Insert(s, w) PROVE Own /\ Still
  <2>1. CASE Reinsert(s)
    <3>1. stmt[s].table \in Tables
      BY <2>1 DEF Reinsert, StmtInv
    <3> QED  BY <1>10, <2>1, <3>1 DEF Reinsert
  <2>2. CASE \E w \in Tables : Insert(s, w)
    BY <1>10, <2>2 DEF Insert
  <2> QED  BY <1>11, <2>1, <2>2
<1>12. ASSUME NEW s \in Sessions, NEW w \in Tables, StampTable(s, w) PROVE Own /\ Still
  <2>1. /\ index' = [index EXCEPT ![w] = [q \in RowId |->
             StampGroup(Sorted(w)[q], writeSet[s][w][q], tx[s], outcome[tx[s]])]]
        /\ pc[s] = "stamp" /\ todo' = [todo EXCEPT ![s] = @ \ {w}]
        /\ UNCHANGED <<nextTs, outcome, nextTx, rowCount, tx, writeSet, pc, stmt>>
    BY <1>12 DEF StampTable, stmtVars
  <2>2. ASSUME NEW r \in RowId PROVE Stamps(w, r, s)
    <3>1. index \in [Tables -> [RowId -> Seq(Entry)]]
      BY DEF TypeOK
    <3>2. index'[w][r] = StampGroup(Sorted(w)[r], writeSet[s][w][r], tx[s], outcome[tx[s]])
      BY <2>1, <3>1
    <3> QED  BY <2>1, <3>2 DEF Stamps
  <2>3. CASE u = s
    <3>1. todo'[u] = todo[u] \ {w}
      BY <1>1, <2>1, <2>3
    <3> QED  BY <1>3, <2>1, <2>2, <2>3, <3>1
  <2>4. CASE u # s
    <3>1. todo'[u] = todo[u]
      BY <1>1, <2>1, <2>4
    <3> QED  BY <1>3, <2>1, <3>1
  <2> QED  BY <2>3, <2>4
<1>13. ASSUME NEW s \in Sessions, DeleteTs(s) \/ MutateFail(s) PROVE Own /\ Still
  <2>1. UNCHANGED <<tx, writeSet, todo>>
    BY <1>13 DEF DeleteTs, MutateFail, txVars
  <2> QED  BY <1>4, <2>1
<1>14. ASSUME NEW s \in Sessions, NEW w \in Tables, DeleteScan(s, w) \/ UpdateScan(s, w) PROVE Own /\ Still
  <2>1. UNCHANGED <<tx, writeSet, todo>>
    BY <1>14 DEF DeleteScan, UpdateScan, Scan, txVars
  <2> QED  BY <1>4, <2>1
<1>15. ASSUME GcBegin \/ GcPrune \/ UNCHANGED vars PROVE Own /\ Still
  <2>1. UNCHANGED <<tx, writeSet, todo>>
    BY <1>15 DEF GcBegin, GcPrune, vars, txVars
  <2> QED  BY <1>4, <2>1
<1> HIDE DEF Own, Still
<1>16. Own /\ Still
  BY <1>5, <1>6, <1>7, <1>9, <1>11, <1>12, <1>13, <1>14, <1>15 DEF Next
<1> QED  BY <1>16 DEF Own, Still

\* A transaction is decided when commit or rollback takes its write set.
LEMMA DecideStep ==
    ASSUME TypeOK, OutcomeInv, TxInv, [Next]_vars,
           NEW x \in 1 .. MaxTx, outcome[x] = 0, outcome'[x] # 0
    PROVE  \E s \in Sessions : tx[s] = x /\ tx'[s] = x /\ todo'[s] = Touched(s) /\ index' = index
<1>1. outcome \in [1 .. MaxTx -> Nat] /\ todo \in [Sessions -> SUBSET Tables]
  BY DEF TypeOK
<1>2. ASSUME NEW s \in Sessions, Commit(s) \/ Rollback(s)
      PROVE  tx[s] = x /\ tx'[s] = x /\ todo'[s] = Touched(s) /\ index' = index
  <2>1. /\ \E d : outcome' = [outcome EXCEPT ![tx[s]] = d]
        /\ todo' = [todo EXCEPT ![s] = Touched(s)] /\ UNCHANGED <<tx, index>>
    BY <1>2 DEF Commit, Rollback, tblVars
  <2>2. tx[s] = x
    BY <1>1, <2>1
  <2> QED  BY <1>1, <2>1, <2>2
<1>3. ASSUME outcome' = outcome PROVE FALSE
  BY <1>3
<1>4. ASSUME NEW s \in Sessions, Begin(s) \/ EndFail(s) \/ EndTxn(s) \/ DeleteTs(s) \/ DeleteRows(s)
                                 \/ Reinsert(s) \/ MutateFail(s)
      PROVE  FALSE
  BY <1>3, <1>4 DEF Begin, EndFail, EndTxn, DeleteTs, DeleteRows, Reinsert, MutateFail, txVars
<1>5. ASSUME NEW s \in Sessions, NEW t \in Tables,
             Insert(s, t) \/ DeleteScan(s, t) \/ UpdateScan(s, t) \/ StampTable(s, t)
      PROVE  FALSE
  BY <1>3, <1>5 DEF Insert, DeleteScan, UpdateScan, Scan, StampTable, txVars
<1>6. CASE GcBegin \/ GcPrune \/ UNCHANGED vars
  BY <1>3, <1>6 DEF GcBegin, GcPrune, vars, txVars
<1> QED  BY <1>2, <1>4, <1>5, <1>6 DEF Next

\* So write sets cover the marks, and the marks of decided transactions are
\* still to be stamped.
LEMMA MarkedStep ==
    ASSUME TypeOK, IndexInv, OutcomeInv, TxInv, StmtInv, MarkedInv, [Next]_vars PROVE MarkedInv'
<1>1. /\ tx \in [Sessions -> 0 .. MaxTx] /\ outcome \in [1 .. MaxTx -> Nat] /\ nextTx \in 1 .. MaxTx + 1
      /\ writeSet \in [Sessions -> [Tables -> [RowId -> Nat]]]
      /\ writeSet' \in [Sessions -> [Tables -> [RowId -> Nat]]]
      /\ tx' \in [Sessions -> 0 .. MaxTx]
  BY TypeStep DEF TypeOK
<1>2. ASSUME NEW t \in Tables, NEW r \in RowId, NEW g, g = index[t][r], NEW h, h = index'[t][r],
             NEW u \in Sessions, NEW y, y = tx'[u], y # 0
      PROVE  Cardinality(Marked(h, y)) <= writeSet'[u][t][r]
  <2>1. GroupOK(g, nextTs, outcome, nextTx) /\ g \in Seq(Entry) /\ h \in Seq(Entry)
    <3>1. IndexInv'
      BY IndexStep
    <3> QED  BY <1>2, <3>1 DEF IndexInv, GroupOK
  <2>2. Cardinality(Marked(g, y)) \in Nat /\ Cardinality(Marked(h, y)) \in Nat
    BY <2>1, MarksFinite
  <2>3. writeSet'[u][t][r] \in Nat /\ writeSet[u][t][r] \in Nat /\ y \in 1 .. MaxTx
    BY <1>1, <1>2, Bounds
  <2>4. CASE y = nextTx /\ nextTx <= MaxTx /\ index' = index
    <3>1. Times(nextTs, outcome, nextTx)
      BY TimeStep DEF TimeInv
    <3>2. ASSUME NEW i \in Marked(g, y) PROVE FALSE
      <4>1. g[i] \in Entry /\ Marks(g[i], nextTs, outcome, nextTx) /\ g[i].ts = Flagged(y)
        BY <2>1, <3>2, GroupType DEF Marked, GroupOK
      <4>2. y < nextTx /\ y \in 0 .. MaxTx
        BY <2>3, <3>1, <4>1, MarkedBy, Bounds
      <4> QED  BY <2>4, <4>2, <1>1
    <3>3. Marked(h, y) = {}
      BY <1>2, <2>4, <3>2
    <3>4. Cardinality(Marked(h, y)) = 0
      BY <3>3, FS_EmptySet
    <3> QED  BY <2>3, <3>4
  <2>5. CASE tx[u] = y /\ writeSet[u][t][r] <= writeSet'[u][t][r]
    <3>1. Cardinality(Marked(g, y)) <= writeSet[u][t][r]
      BY <1>2, <2>5 DEF MarkedInv
    <3>2. MarksMove(t, r, y)
      BY <2>3, MarksStep
    <3>3. CASE Cardinality(Marked(h, y)) <= Cardinality(Marked(g, y))
      BY <2>2, <2>3, <2>5, <3>1, <3>3
    <3>4. ASSUME NEW s \in Sessions, tx[s] = y,
                 Cardinality(Marked(h, y)) <= Cardinality(Marked(g, y)) + 1,
                 writeSet'[s][t][r] = writeSet[s][t][r] + 1
          PROVE  Cardinality(Marked(h, y)) <= writeSet'[u][t][r]
      <4>1. s = u
        BY <1>2, <2>5, <3>4 DEF TxInv
      <4> QED  BY <2>2, <2>3, <3>1, <3>4, <4>1
    <3> QED  BY <1>2, <3>2, <3>3, <3>4 DEF MarksMove
  <2> QED  BY <1>2, <2>4, <2>5, OwnerStep
<1>3. ASSUME NEW t \in Tables, NEW r \in RowId, NEW g, g = index[t][r], NEW h, h = index'[t][r],
             NEW x \in 1 .. MaxTx, outcome'[x] # 0, Marked(h, x) # {}
      PROVE  \E s \in Sessions : tx'[s] = x /\ t \in todo'[s]
  <2>1. CASE outcome[x] # 0
    <3>1. MarksMove(t, r, x)
      BY MarksStep
    <3>2. ASSUME NEW s \in Sessions, tx[s] = x, pc[s] # "stamp" PROVE FALSE
      <4>1. x # 0
        OBVIOUS
      <4> QED  BY <2>1, <3>2, <4>1 DEF TxInv
    <3>3. Marked(g, x) # {}
      BY <1>3, <3>1, <3>2 DEF MarksMove
    <3>4. PICK s \in Sessions : tx[s] = x /\ t \in todo[s]
      BY <1>3, <2>1, <3>3 DEF MarkedInv
    <3>5. pc[s] = "stamp"
      BY <3>2, <3>4
    <3>6. tx'[s] = x /\ (t \in todo'[s] \/ Stamps(t, r, s))
      BY <3>4, <3>5, OwnerStep
    <3>7. ~Stamps(t, r, s)
      BY <1>3, <3>4, StampMarks
    <3> QED  BY <3>6, <3>7
  <2>2. CASE outcome[x] = 0
    <3>1. PICK s \in Sessions : tx[s] = x /\ tx'[s] = x /\ todo'[s] = Touched(s) /\ index' = index
      BY <1>3, <2>2, DecideStep
    <3>2. g \in Seq(Entry) /\ h = g
      BY <1>3, <3>1 DEF TypeOK
    <3>3. Cardinality(Marked(g, x)) \in Nat /\ Cardinality(Marked(g, x)) # 0
      BY <1>3, <3>2, MarksFinite
    <3>4. Cardinality(Marked(g, x)) <= writeSet[s][t][r] /\ writeSet[s][t][r] \in Nat
      <4>1. tx[s] # 0
        BY <3>1
      <4> QED  BY <1>1, <1>3, <3>1, <4>1 DEF MarkedInv
    <3>5. writeSet[s][t][r] > 0
      BY <3>3, <3>4
    <3> QED  BY <3>1, <3>5 DEF Touched
  <2> QED  BY <2>1, <2>2
<1>4. ASSUME NEW t \in Tables, NEW r \in RowId
      PROVE  /\ \A u \in Sessions : tx'[u] # 0 => Cardinality(Marked(index'[t][r], tx'[u])) <= writeSet'[u][t][r]
             /\ \A x \in 1 .. MaxTx : outcome'[x] # 0 /\ Marked(index'[t][r], x) # {} =>
                   \E s \in Sessions : tx'[s] = x /\ t \in todo'[s]
  BY <1>2, <1>3
<1> QED  BY <1>4 DEF MarkedInv

-----------------------------------------------------------------------------
(* The theorems.                                                           *)

MvccInv == TypeOK /\ IndexInv /\ OutcomeInv /\ TxInv /\ StmtInv /\ MarkedInv

\* It holds of a database that has just been opened.
LEMMA InitInv == Init => MvccInv
<1> SUFFICES ASSUME Init PROVE MvccInv
  OBVIOUS
<1>1. /\ nextTs = 0 /\ nextTx = 1 /\ index = [t \in Tables |-> [r \in RowId |-> <<>>]]
      /\ dirty = [t \in Tables |-> FALSE] /\ rowCount = [t \in Tables |-> 0]
      /\ tx = [s \in Sessions |-> 0] /\ readTs = [s \in Sessions |-> 0]
      /\ writeSet = [s \in Sessions |-> NoRows] /\ pc = [s \in Sessions |-> "idle"]
      /\ stmt = [s \in Sessions |-> NoStmt] /\ todo = [s \in Sessions |-> {}]
      /\ outcome = [x \in 1 .. MaxTx |-> 0] /\ gcNext = 0 /\ cutoff = 0 /\ failures = 0
  BY DEF Init
<1>2. TypeOK
  <2>1. NoStmt \in [table : Nat, rows : SUBSET RowId, ts : Nat, update : BOOLEAN]
    BY DEF NoStmt
  <2>2. NoRows \in [Tables -> [RowId -> Nat]]
    BY DEF NoRows
  <2>3. /\ nextTs \in 0 .. MaxTs /\ nextTx \in 1 .. MaxTx + 1 /\ gcNext \in 0 .. NumTables
        /\ cutoff \in 0 .. MaxTs /\ failures \in 0 .. MaxFailures
        /\ rowCount \in [Tables -> 0 .. MaxRows] /\ tx \in [Sessions -> 0 .. MaxTx]
        /\ readTs \in [Sessions -> 0 .. MaxTs] /\ outcome \in [1 .. MaxTx -> Nat]
    BY <1>1, Bounds
  <2>4. index \in [Tables -> [RowId -> Seq(Entry)]]
    <3>1. <<>> \in Seq(Entry)
      OBVIOUS
    <3> QED  BY <1>1, <3>1
  <2>5. /\ dirty \in [Tables -> BOOLEAN] /\ writeSet \in [Sessions -> [Tables -> [RowId -> Nat]]]
        /\ pc \in [Sessions -> {"idle", "deleteTs", "deleteRows", "reinsert", "stamp"}]
        /\ todo \in [Sessions -> SUBSET Tables]
    BY <1>1, <2>2
  <2>6. stmt \in [Sessions -> [table : Nat, rows : SUBSET RowId, ts : Nat, update : BOOLEAN]]
    BY <1>1, <2>1
  <2> QED  BY <2>3, <2>4, <2>5, <2>6 DEF TypeOK
<1>3. \A t \in Tables : \A r \in RowId : index[t][r] = <<>>
  BY <1>1
<1>4. IndexInv
  BY <1>3, EmptyEffect DEF IndexInv
<1>5. OutcomeInv
  BY <1>1 DEF OutcomeInv
<1>6. TxInv
  BY <1>1 DEF TxInv
<1>7. StmtInv
  BY <1>1 DEF StmtInv
<1>8. MarkedInv
  <2>1. \A x : Marked(<<>>, x) = {}
    BY EmptyEffect
  <2> QED  BY <1>1, <1>3, <2>1 DEF MarkedInv
<1> QED  BY <1>2, <1>4, <1>5, <1>6, <1>7, <1>8 DEF MvccInv

\* Every step keeps it.
LEMMA NextInv == MvccInv /\ [Next]_vars => MvccInv'
<1> SUFFICES ASSUME MvccInv, [Next]_vars PROVE MvccInv'
  OBVIOUS
<1>1. TypeOK /\ IndexInv /\ OutcomeInv /\ TxInv /\ StmtInv /\ MarkedInv
  BY DEF MvccInv
<1>2. TypeOK' /\ IndexInv'
  BY <1>1, TypeStep, IndexStep
<1>3. OutcomeInv' /\ TxInv'
  BY <1>1, TimeStep, TxStep
<1>4. StmtInv' /\ MarkedInv'
  BY <1>1, StmtStep, MarkedStep
<1> QED  BY <1>2, <1>3, <1>4 DEF MvccInv

\* So it is an invariant.
LEMMA MvccInvariant == Spec => []MvccInv
<1> QED  BY InitInv, NextInv, PTL DEF Spec

\* TypeOK always holds: no transaction, statement or GC run, however they
\* interleave, puts anything but entries into the version index, lets a session
\* read at a time the clock has not reached, or takes the GC past the last table.
THEOREM MvccTypeCorrect == Spec => []TypeOK
<1>1. MvccInv => TypeOK
  BY DEF MvccInv
<1> QED  BY <1>1, MvccInvariant, PTL

\* NoDirtyRead always holds: what search returns was written outside a
\* transaction, or by one that has decided to commit, not later than the
\* snapshot it is read at.
THEOREM NoDirtyReads == Spec => []NoDirtyRead
<1>1. ASSUME MvccInv PROVE NoDirtyRead
  <2> SUFFICES ASSUME NEW t \in Tables, NEW r \in RowId, NEW at \in 0 .. nextTs,
                      Committed(index[t][r], at) # {},
                      index[t][r][Best(index[t][r], at)].by # 0
               PROVE  outcome[index[t][r][Best(index[t][r], at)].by] \in 1 .. at
    BY DEF NoDirtyRead
  <2>1. TypeOK /\ IndexInv /\ OutcomeInv
    BY <1>1 DEF MvccInv
  <2>2. nextTs \in Nat /\ nextTs <= MaxTs /\ at \in Nat /\ at <= MaxTs
    BY <2>1, Bounds DEF TypeOK
  <2>3. Times(nextTs, outcome, nextTx)
    BY <2>1 DEF TypeOK, OutcomeInv, Times
  <2>4. PICK g, b : g = index[t][r] /\ b = Best(g, at)
    OBVIOUS
  <2>5. g \in Seq(Entry) /\ \A i \in DOMAIN g : Marks(g[i], nextTs, outcome, nextTx)
    BY <2>1, <2>4 DEF IndexInv, GroupOK
  <2>6. b \in DOMAIN g /\ g[b].ts < kTxIdFlag /\ g[b].ts <= at
    BY <2>2, <2>4, <2>5, BestFound DEF Committed
  <2>7. PICK e \in Entry : e = g[b] /\ Marks(e, nextTs, outcome, nextTx) /\ e.by # 0
    BY <2>4, <2>5, <2>6, GroupType
  <2>8. e.by \in 0 .. MaxTx /\ outcome[e.by] \in Nat
    BY <2>3, <2>7, WriterType
  <2>9. e.ts # Flagged(e.by)
    BY <2>2, <2>6, <2>7, <2>8, MarksApart, Bounds DEF Entry
  <2>10. outcome[e.by] # 0 /\ e.ts = outcome[e.by]
    BY <2>7, <2>9 DEF Marks
  <2> QED  BY <2>2, <2>4, <2>6, <2>7, <2>8, <2>10
<1> QED  BY <1>1, MvccInvariant, PTL

\* TxnSettled always holds: once the session has left a transaction that was
\* committed or rolled back, none of its entries carries its mark.
THEOREM TxnsSettled == Spec => []TxnSettled
<1>1. ASSUME MvccInv PROVE TxnSettled
  <2> SUFFICES ASSUME NEW x \in 1 .. MaxTx, outcome[x] # 0, \A s \in Sessions : tx[s] # x,
                      NEW t \in Tables, NEW r \in RowId, NEW i \in DOMAIN index[t][r],
                      index[t][r][i].by = x
               PROVE  index[t][r][i].ts = outcome[x]
    BY DEF TxnSettled
  <2>1. IndexInv /\ MarkedInv
    BY <1>1 DEF MvccInv
  <2>2. Marked(index[t][r], x) = {}
    BY <2>1 DEF MarkedInv
  <2>3. index[t][r][i].ts # Flagged(x)
    BY <2>2 DEF Marked
  <2>4. Marks(index[t][r][i], nextTs, outcome, nextTx)
    BY <2>1 DEF IndexInv, GroupOK
  <2>5. x # 0
    OBVIOUS
  <2> QED  BY <2>3, <2>4, <2>5 DEF Marks
<1> QED  BY <1>1, MvccInvariant, PTL

\* Committed entries stay with their row until prune takes all of it.
LEMMA KeepStep ==
    ASSUME MvccInv, [Next]_vars, NEW t \in Tables, NEW r \in RowId,
           NEW g, g = index[t][r], NEW h, h = index'[t][r], h # <<>>,
           NEW j \in DOMAIN g, g[j].ts <= MaxTs
    PROVE  \E i \in DOMAIN h : h[i].tomb = g[j].tomb /\ h[i].ts = g[j].ts
<1> DEFINE Goal == \E i \in DOMAIN h : h[i].tomb = g[j].tomb /\ h[i].ts = g[j].ts
<1>1. TypeOK /\ IndexInv /\ OutcomeInv /\ TxInv /\ StmtInv
  BY DEF MvccInv
<1>2. GroupOK(g, nextTs, outcome, nextTx) /\ (r >= rowCount[t] => g = <<>>) /\ g \in Seq(Entry)
  BY <1>1 DEF IndexInv, GroupOK
<1>3. PICK m : m = Sorted(t)[r]
  OBVIOUS
<1>4. GroupOK(m, nextTs, outcome, nextTx) /\ DataLast(m) /\ \E k \in DOMAIN m : m[k] = g[j]
  BY <1>1, <1>3, SortedEffect
<1>5. CASE Spares(t, r) \/ Sorts(t, r)
  BY <1>3, <1>4, <1>5 DEF Spares, Sorts
<1>6. CASE Prunes(t, r)
  <2>1. m \in Seq(Entry) /\ h = Pruned(m, cutoff)
    BY <1>3, <1>4, <1>6 DEF Prunes, GroupOK
  <2>2. h = m
    BY <1>4, <2>1, PruneEffect
  <2> QED  BY <1>4, <2>2
<1>7. ASSUME NEW s \in Sessions, Stamps(t, r, s) PROVE Goal
  <2>1. PICK x, c : x = tx[s] /\ c = writeSet[s][t][r]
    OBVIOUS
  <2>2. h = StampGroup(m, c, x, outcome[x]) /\ pc[s] = "stamp"
    BY <1>3, <1>7, <2>1 DEF Stamps
  <2>3. x \in 1 .. MaxTx /\ outcome[x] # 0 /\ c \in Nat
    BY <1>1, <2>1, <2>2, Bounds, SMTT(30) DEF TxInv, TypeOK
  <2>4. Times(nextTs, outcome, nextTx)
    BY <1>1, TimeStep DEF TimeInv
  <2>5. Stamped(h, m, c, x, outcome[x])
    BY <1>4, <2>2, <2>3, <2>4, StampEffect
  <2>6. Flagged(x) > MaxTs /\ Flagged(x) \in Nat
    BY <2>3, MarksApart, Bounds
  <2>7. PICK k \in DOMAIN m : m[k] = g[j]
    BY <1>4
  <2>8. m[k].ts # Flagged(x)
    BY <2>6, <2>7, Bounds
  <2> QED  BY <2>5, <2>7, <2>8 DEF Stamped
<1>8. ASSUME NEW s \in Sessions, Buries(t, r, s) PROVE Goal
  <2>1. h = Append(g, Tombstone(s))
    BY <1>8 DEF Buries
  <2>2. DOMAIN g = 1 .. Len(g) /\ Len(g) \in Nat
    BY <1>2, GroupType
  <2>3. Tombstone(s) \in Entry
    BY <1>1, Bounds DEF Tombstone, Entry, TypeOK
  <2>4. Len(h) = Len(g) + 1 /\ h \in Seq(Entry) /\ \A i \in 1 .. Len(g) : h[i] = g[i]
    BY <1>2, <2>1, <2>3, AppendProperties
  <2>5. DOMAIN h = 1 .. Len(g) + 1
    BY <2>2, <2>4, LenProperties
  <2> QED  BY <2>2, <2>4, <2>5, SMTT(30)
<1>9. ASSUME NEW s \in Sessions, NEW n \in Nat, Creates(t, r, s, n) PROVE FALSE
  <2>1. rowCount[t] \in Nat /\ r \in Nat
    BY <1>1, Bounds DEF TypeOK, RowId
  <2>2. g = <<>>
    BY <1>2, <1>9, <2>1 DEF Creates
  <2> QED  BY <2>2
<1>10. GroupStep(t, r)
  BY <1>1, StepOfGroup
<1> QED  BY <1>5, <1>6, <1>7, <1>8, <1>9, <1>10 DEF GroupStep

\* NoResurrection holds of every step: a row whose latest committed entry is a
\* tombstone, or that prune has dropped, is never visible again.
THEOREM DeletedStay == Spec => NoResurrection
<1> DEFINE Stay == \A t \in Tables : Deleted(index[t], rowCount[t]) \subseteq Deleted(index'[t], rowCount'[t])
<1>1. ASSUME MvccInv, [Next]_vars PROVE Stay
  <2>1. TypeOK /\ IndexInv /\ OutcomeInv /\ TxInv /\ StmtInv
    BY <1>1 DEF MvccInv
  <2>2. IndexInv'
    BY <2>1, <1>1, IndexStep
  <2> SUFFICES ASSUME NEW t \in Tables, NEW r \in Deleted(index[t], rowCount[t])
               PROVE  r \in Deleted(index'[t], rowCount'[t])
    OBVIOUS
  <2>3. /\ r \in 0 .. rowCount[t] - 1 /\ ~Visible(index[t][r], MaxTs)
        /\ \A i \in DOMAIN index[t][r] : ~index[t][r][i].tomb => index[t][r][i].ts <= MaxTs
    BY DEF Deleted
  <2>4. r \in RowId /\ r < rowCount[t] /\ r \in 0 .. rowCount'[t] - 1
    <3>1. /\ rowCount \in [Tables -> 0 .. MaxRows] /\ rowCount' \in [Tables -> 0 .. MaxRows]
          /\ rowCount[t] <= rowCount'[t]
      BY <1>1, <2>1, RowCountStep DEF TypeOK
    <3>2. rowCount[t] \in 0 .. MaxRows /\ rowCount'[t] \in Nat
      BY <3>1, Bounds
    <3> QED  BY <2>3, <3>1, <3>2, Bounds DEF RowId
  <2>5. PICK g, h : g = index[t][r] /\ h = index'[t][r]
    OBVIOUS
  <2>6. GroupOK(g, nextTs, outcome, nextTx) /\ GroupOK(h, nextTs', outcome', nextTx')
    BY <2>1, <2>2, <2>4, <2>5 DEF IndexInv
  <2>7. \A i \in DOMAIN g : g[i].ts \in Nat
    BY <2>6, GroupType DEF GroupOK
  <2>8. MaxTs \in 0 .. MaxTs
    BY Bounds
  <2>9. ASSUME NEW i \in DOMAIN h, ~h[i].tomb
        PROVE  h[i].ts <= MaxTs /\ Has(g, FALSE, MaxTs)
    <3>1. PICK j \in DOMAIN g : ~g[j].tomb /\ (h[i].ts = g[j].ts \/ g[j].ts > MaxTs)
      BY <1>1, <2>1, <2>4, <2>5, <2>9, DataStep
    <3>2. g[j].ts <= MaxTs
      BY <2>3, <2>5, <3>1
    <3>3. g[j].tomb = FALSE
      <4>1. g[j].tomb \in BOOLEAN
        BY <2>6, GroupType DEF GroupOK
      <4> QED  BY <3>1, <4>1
    <3> QED  BY <2>7, <3>1, <3>2, <3>3, Bounds DEF Has
  <2>10. ~Visible(h, MaxTs)
    <3> SUFFICES ASSUME Visible(h, MaxTs) PROVE FALSE
      OBVIOUS
    <3>1. Has(h, FALSE, MaxTs) /\ ~Has(h, TRUE, MaxTs)
      BY <2>6, <2>8, VisibleMeans
    <3>2. Has(g, FALSE, MaxTs) /\ h # <<>>
      <4>1. PICK i \in DOMAIN h : h[i].tomb = FALSE
        BY <3>1 DEF Has
      <4>2. Has(g, FALSE, MaxTs)
        BY <2>9, <4>1
      <4>3. h # <<>>
        BY <4>1
      <4> QED  BY <4>2, <4>3
    <3>3. Has(g, TRUE, MaxTs)
      BY <2>3, <2>5, <2>6, <2>8, <3>2, VisibleMeans
    <3>4. PICK j \in DOMAIN g : g[j].tomb = TRUE /\ g[j].ts <= MaxTs
      BY <3>3 DEF Has
    <3>5. \E i \in DOMAIN h : h[i].tomb = g[j].tomb /\ h[i].ts = g[j].ts
      BY <1>1, <2>4, <2>5, <3>2, <3>4, KeepStep
    <3> QED  BY <3>1, <3>4, <3>5 DEF Has
  <2> QED  BY <2>4, <2>5, <2>9, <2>10 DEF Deleted
<1>2. MvccInv /\ [Next]_vars => [Stay]_vars
  BY <1>1
<1> QED  BY <1>2, MvccInvariant, PTL DEF Spec, NoResurrection

\* Two rows look the same at a time.
SameAt(h, g, at) == \A b \in BOOLEAN : Has(h, b, at) <=> Has(g, b, at)

\* A snapshot sees no change in a row.
SeenSame(h, g, at) == SameAt(h, g, at) \/ (h = <<>> /\ Has(g, TRUE, at))

\* Nothing that a snapshot at this time covers is on its way.
Quiet(at) ==
    /\ \A u \in Sessions : pc[u] = "stamp" => outcome[tx[u]] > at
    /\ \A u \in Sessions : pc[u] = "deleteRows" => stmt[u].ts > at
    /\ gcNext # 0 => cutoff <= at

\* What a snapshot sees of a row changes only through what the snapshot covers:
\* an outcome or a tombstone with such a timestamp, or a later cutoff.
LEMMA SnapStep ==
    ASSUME MvccInv, [Next]_vars, NEW t \in Tables, NEW r \in RowId,
           NEW at \in Nat, at <= nextTs, Quiet(at),
           NEW g, g = index[t][r], NEW h, h = index'[t][r]
    PROVE  SeenSame(h, g, at)
<1> DEFINE Goal == SameAt(h, g, at) \/ (h = <<>> /\ Has(g, TRUE, at))
<1>1. TypeOK /\ IndexInv /\ OutcomeInv /\ TxInv /\ StmtInv
  BY DEF MvccInv
<1>2. GroupOK(g, nextTs, outcome, nextTx) /\ (r >= rowCount[t] => g = <<>>) /\ g \in Seq(Entry)
  BY <1>1 DEF IndexInv, GroupOK
<1>3. PICK m : m = Sorted(t)[r]
  OBVIOUS
<1>4. /\ GroupOK(m, nextTs, outcome, nextTx) /\ DataLast(m) /\ Picks(m, g)
      /\ \A i \in DOMAIN g : \E k \in DOMAIN m : m[k] = g[i]
  BY <1>1, <1>3, SortedEffect
<1>5. m \in Seq(Entry) /\ \A k \in DOMAIN m : \E i \in DOMAIN g : m[k] = g[i]
  BY <1>4 DEF Picks
<1>6. SameAt(m, g, at)
  BY <1>4, <1>5 DEF SameAt, Has
<1>7. at < nextTs + 1 /\ nextTs \in Nat /\ nextTs <= MaxTs /\ at <= MaxTs
  BY <1>1, Bounds DEF TypeOK
<1>8. ASSUME Spares(t, r) \/ Sorts(t, r) PROVE Goal
  BY <1>3, <1>6, <1>8 DEF Spares, Sorts, SameAt
<1>9. ASSUME Prunes(t, r) PROVE Goal
  <2>1. h = Pruned(m, cutoff) /\ cutoff <= at
    BY <1>3, <1>9 DEF Prunes, Quiet
  <2>2. CASE h = m
    BY <1>6, <2>2
  <2>3. ASSUME h = <<>>, NEW j \in DOMAIN m, m[j].tomb, m[j].ts <= cutoff PROVE Goal
    <3>1. m[j].ts \in Nat /\ m[j].tomb = TRUE
      <4>1. m[j].ts \in Nat /\ m[j].tomb \in BOOLEAN
        BY <1>5, GroupType
      <4> QED  BY <2>3, <4>1
    <3>2. cutoff \in Nat
      BY <1>1, Bounds DEF TypeOK
    <3>3. m[j].ts <= at
      BY <2>1, <2>3, <3>1, <3>2
    <3>4. Has(m, TRUE, at)
      BY <3>1, <3>3 DEF Has
    <3> QED  BY <1>6, <2>3, <3>4 DEF SameAt
  <2> QED  BY <1>4, <1>5, <2>1, <2>2, <2>3, PruneEffect
<1>10. ASSUME NEW s \in Sessions, Stamps(t, r, s) PROVE Goal
  <2>1. PICK x, c : x = tx[s] /\ c = writeSet[s][t][r]
    OBVIOUS
  <2>2. h = StampGroup(m, c, x, outcome[x]) /\ pc[s] = "stamp"
    BY <1>3, <1>10, <2>1 DEF Stamps
  <2>3. x \in 1 .. MaxTx /\ outcome[x] # 0 /\ c \in Nat /\ outcome[x] \in Nat
    BY <1>1, <2>1, <2>2, Bounds, SMTT(30) DEF TxInv, TypeOK
  <2>4. Times(nextTs, outcome, nextTx)
    BY <1>1, TimeStep DEF TimeInv
  <2>5. Stamped(h, m, c, x, outcome[x])
    BY <1>4, <2>2, <2>3, <2>4, StampEffect
  <2>6. Flagged(x) > at /\ Flagged(x) \in Nat /\ outcome[x] > at
    BY <1>7, <2>1, <2>2, <2>3, MarksApart, Bounds DEF Quiet
  <2>7. DOMAIN h = DOMAIN m /\ \A k \in DOMAIN m : h[k].tomb = m[k].tomb /\ (h[k].ts <= at <=> m[k].ts <= at)
    <3>1. \A k \in DOMAIN m : h[k].ts = m[k].ts \/ (m[k].ts = Flagged(x) /\ h[k].ts = outcome[x])
      BY <2>5 DEF Stamped
    <3>2. ~(Flagged(x) <= at) /\ ~(outcome[x] <= at)
      BY <2>3, <2>6
    <3> QED  BY <2>5, <3>1, <3>2 DEF Stamped
  <2>8. SameAt(h, m, at)
    BY <2>7 DEF SameAt, Has
  <2> QED  BY <1>6, <2>8 DEF SameAt
<1>11. ASSUME NEW s \in Sessions, Buries(t, r, s) PROVE Goal
  <2>1. PICK e : e = Tombstone(s)
    OBVIOUS
  <2>2. h = Append(g, e) /\ pc[s] = "deleteRows"
    BY <1>11, <2>1 DEF Buries
  <2>3. DOMAIN g = 1 .. Len(g) /\ Len(g) \in Nat
    BY <1>2, GroupType
  <2>4. e \in Entry /\ ~(e.ts <= at)
    <3>1. stmt[s].ts \in Nat /\ tx[s] \in Nat
      BY <1>1, Bounds DEF TypeOK
    <3>2. stmt[s].ts > at
      BY <2>2 DEF Quiet
    <3> QED  BY <2>1, <3>1, <3>2 DEF Tombstone, Entry
  <2>5. Len(h) = Len(g) + 1 /\ h \in Seq(Entry) /\ h[Len(g) + 1] = e /\ \A i \in 1 .. Len(g) : h[i] = g[i]
    BY <1>2, <2>2, <2>4, AppendProperties
  <2>6. DOMAIN h = 1 .. Len(g) + 1
    BY <2>3, <2>5, LenProperties
  <2>7. /\ \A i \in DOMAIN g : i \in DOMAIN h /\ h[i] = g[i]
        /\ \A i \in DOMAIN h : i \in DOMAIN g \/ h[i] = e
    BY <2>3, <2>5, <2>6, SMTT(30)
  <2>8. SameAt(h, g, at)
    BY <2>4, <2>7 DEF SameAt, Has
  <2> QED  BY <2>8
<1>12. ASSUME NEW s \in Sessions, NEW n \in Nat, Creates(t, r, s, n) PROVE Goal
  <2>1. rowCount[t] \in Nat /\ r \in Nat /\ tx[s] \in 0 .. MaxTx
    BY <1>1, Bounds DEF TypeOK, RowId
  <2>2. g = <<>>
    BY <1>2, <1>12, <2>1 DEF Creates
  <2>3. PICK ts \in Nat : /\ h = <<[ts |-> ts, tomb |-> FALSE, by |-> tx[s]]>>
                          /\ tx[s] # 0 => ts = Flagged(tx[s])
                          /\ tx[s] = 0 => nextTs < ts /\ ts <= nextTs'
    BY <1>12 DEF Creates
  <2>4. ~(ts <= at)
    <3>1. CASE tx[s] # 0
      BY <1>7, <2>1, <2>3, <3>1, MarksApart, Bounds
    <3>2. CASE tx[s] = 0
      BY <1>7, <2>3, <3>2
    <3> QED  BY <3>1, <3>2
  <2>5. DOMAIN h = {1} /\ h[1].ts = ts
    BY <2>3
  <2>6. \A b \in BOOLEAN : ~Has(h, b, at) /\ ~Has(g, b, at)
    BY <2>2, <2>4, <2>5 DEF Has
  <2> QED  BY <2>6 DEF SameAt
<1>13. GroupStep(t, r)
  BY <1>1, StepOfGroup
<1>14. Goal
  BY <1>8, <1>9, <1>10, <1>11, <1>12, <1>13 DEF GroupStep
<1> QED  BY <1>14 DEF SeenSame

\* SnapshotStable holds of every step: the rows a transaction sees change only
\* through a straggler that its snapshot covers or a GC run with a later cutoff.
THEOREM SnapshotsStable == Spec => SnapshotStable
<1> DEFINE Stable(s) ==
      tx[s] # 0 /\ tx'[s] = tx[s] =>
          \/ Straggler(s)
          \/ gcNext # 0 /\ cutoff > readTs[s]
          \/ \A t \in Tables : Rows(index'[t], readTs[s]) = Rows(index[t], readTs[s])
<1>1. ASSUME MvccInv, [Next]_vars, NEW s \in Sessions, ~Straggler(s), ~(gcNext # 0 /\ cutoff > readTs[s]),
             NEW t \in Tables
      PROVE  Rows(index'[t], readTs[s]) = Rows(index[t], readTs[s])
  <2>1. TypeOK /\ IndexInv /\ OutcomeInv /\ TxInv /\ StmtInv
    BY <1>1 DEF MvccInv
  <2>2. IndexInv'
    BY <1>1, <2>1, IndexStep
  <2>3. PICK at : at = readTs[s]
    OBVIOUS
  <2>4. at \in 0 .. MaxTs /\ at \in Nat /\ at <= nextTs
    BY <2>1, <2>3, Bounds DEF TypeOK, TxInv
  <2>5. \A u \in Sessions : pc[u] = "stamp" => outcome[tx[u]] > at
    <3>1. \A u \in Sessions : pc[u] = "stamp" => outcome[tx[u]] \in Nat /\ ~(outcome[tx[u]] <= at)
      BY <1>1, <2>1, <2>3, Bounds, SMTT(30) DEF Straggler, TypeOK, TxInv
    <3> QED  BY <2>4, <3>1
  <2>6. \A u \in Sessions : pc[u] = "deleteRows" => stmt[u].ts > at
    <3>1. \A u \in Sessions : pc[u] = "deleteRows" => stmt[u].ts \in Nat /\ ~(stmt[u].ts <= at)
      BY <1>1, <2>1, <2>3 DEF Straggler, TypeOK
    <3> QED  BY <2>4, <3>1
  <2>7. gcNext # 0 => cutoff <= at
    <3>1. cutoff \in Nat
      BY <2>1, Bounds DEF TypeOK
    <3> QED  BY <1>1, <2>3, <2>4, <3>1
  <2>8. Quiet(at)
    BY <2>5, <2>6, <2>7 DEF Quiet
  <2>9. ASSUME NEW r \in RowId PROVE Visible(index'[t][r], at) <=> Visible(index[t][r], at)
    <3>1. PICK g, h : g = index[t][r] /\ h = index'[t][r]
      OBVIOUS
    <3>2. GroupOK(g, nextTs, outcome, nextTx) /\ GroupOK(h, nextTs', outcome', nextTx')
      BY <2>1, <2>2, <3>1 DEF IndexInv
    <3>3. /\ Visible(g, at) <=> Has(g, FALSE, at) /\ ~Has(g, TRUE, at)
          /\ Visible(h, at) <=> Has(h, FALSE, at) /\ ~Has(h, TRUE, at)
      BY <2>4, <3>2, VisibleMeans
    <3>4. SameAt(h, g, at) \/ (h = <<>> /\ Has(g, TRUE, at))
      <4>1. MvccInv /\ [Next]_vars
        BY <1>1
      <4>2. SeenSame(h, g, at)
        BY <2>4, <2>8, <3>1, <4>1, SnapStep
      <4> QED  BY <4>2 DEF SeenSame
    <3>5. CASE SameAt(h, g, at)
      BY <3>1, <3>3, <3>5 DEF SameAt
    <3>6. CASE h = <<>> /\ Has(g, TRUE, at)
      <4>1. ~Has(h, FALSE, at)
        BY <3>6 DEF Has
      <4> QED  BY <3>1, <3>3, <3>6, <4>1
    <3> QED  BY <3>4, <3>5, <3>6
  <2> QED  BY <2>3, <2>9 DEF Rows
<1>2. MvccInv /\ [Next]_vars => [\A s \in Sessions : Stable(s)]_vars
  BY <1>1
<1> QED  BY <1>2, MvccInvariant, PTL DEF Spec, SnapshotStable

===============================================================================
