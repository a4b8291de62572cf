-------------------------- MODULE TableIngestProofs --------------------------
(***************************************************************************)
(* Proofs about TableIngest and TableScan, for any number of sessions,     *)
(* flushers and batches, any batch size and any bound on the failures.     *)
(***************************************************************************)
EXTENDS TableScan, SequenceTheorems, FiniteSetTheorems, TLAPS

(* What the type invariant needs to be inductive.                          *)

\* A thread that is about to lock, install, push, write or recycle a batch
\* has one.
PtrInv == \A t \in Threads :
             pc[t] \in {"lock", "cas", "push", "write", "recycle"} => ptr[t] \in Batches

\* No batch outgrows kBatchSize, so available never wraps below zero.
SizeInv == \A b \in Batches : Len(rows[b]) <= kBatchSize

\* The mapping never reaches past the end of the file.
FileInv == mapped <= Len(file)

TypeInv == TypeOK /\ PtrInv /\ SizeInv /\ FileInv

-----------------------------------------------------------------------------
(* Lemmas about the operators.                                             *)

\* The part of the type invariant about the threads' program counters.
ControlOK ==
    /\ pc \in [Threads -> WriterPC \cup FlusherPC]
    /\ \A w \in Writers : pc[w] \in WriterPC
    /\ \A f \in Flushers : pc[f] \in FlusherPC
    /\ ptr \in [Threads -> Batches \cup {NoBatch}]
    /\ PtrInv

\* A thread that goes to a label of its own kind, with a batch if it needs
\* one there, leaves the control state well typed.
LEMMA GotoType ==
    ASSUME ControlOK, NEW t \in Threads, NEW l, NEW b \in Batches \cup {NoBatch},
           Goto(t, l, b),
           t \in Writers => l \in WriterPC,
           t \in Flushers => l \in FlusherPC,
           l \in {"lock", "cas", "push", "write", "recycle"} => b \in Batches
    PROVE  ControlOK'
<1>1. /\ pc' = [pc EXCEPT ![t] = l]
      /\ ptr' = [ptr EXCEPT ![t] = b]
  BY DEF Goto
<1>2. l \in WriterPC \cup FlusherPC
  BY DEF Threads
<1>3. /\ pc' \in [Threads -> WriterPC \cup FlusherPC]
      /\ ptr' \in [Threads -> Batches \cup {NoBatch}]
  BY <1>1, <1>2 DEF ControlOK
<1>4. ASSUME NEW u \in Threads
      PROVE  /\ pc'[u] = IF u = t THEN l ELSE pc[u]
             /\ ptr'[u] = IF u = t THEN b ELSE ptr[u]
  BY <1>1 DEF ControlOK
<1> QED
  BY <1>3, <1>4 DEF ControlOK, PtrInv, Threads

\* An append of k new rows to a batch of rows.
LEMMA NewRowsType ==
    ASSUME TypeOK, NEW w \in Writers, NEW k \in Nat
    PROVE  NewRows(w, k) \in Seq(Row) /\ Len(NewRows(w, k)) = k
<1>1. NewRows(w, k) \in [1 .. k -> Row]
  BY DEF NewRows, TypeOK, Row, Stamps
<1> QED  BY <1>1

\* Appending k rows to a batch leaves a sequence of rows with k more of them.
LEMMA AppendedRowsType ==
    ASSUME TypeOK, NEW w \in Writers, NEW b \in Batches, NEW k \in Nat
    PROVE  /\ rows[b] \o NewRows(w, k) \in Seq(Row)
           /\ Len(rows[b] \o NewRows(w, k)) = Len(rows[b]) + k
<1>1. rows[b] \in Seq(Row)
  BY DEF TypeOK
<1>2. NewRows(w, k) \in Seq(Row) /\ Len(NewRows(w, k)) = k
  BY NewRowsType
<1> HIDE DEF NewRows
<1> QED  BY <1>1, <1>2

\* insert_rows takes no more rows than are left, nor than the batch has room for.
LEMMA ToInsertBound ==
    ASSUME TypeOK, SizeInv, NEW w \in Writers, NEW b \in Batches
    PROVE  /\ ToInsert(w, b) \in Nat /\ ToInsert(w, b) <= left[w]
           /\ Len(rows[b]) + ToInsert(w, b) <= kBatchSize
<1>1. Len(rows[b]) \in Nat /\ left[w] \in Nat /\ Len(rows[b]) <= kBatchSize
  BY DEF TypeOK, SizeInv
<1> QED  BY <1>1, IngestAssumption DEF ToInsert, Room

\* commit_rows changes a row's stamp and nothing else.
LEMMA StampedType ==
    ASSUME TypeOK, NEW w \in Writers, NEW rid, NEW r \in Row
    PROVE  /\ Stamped(w, rid, r) \in Row
           /\ Stamped(w, rid, r).w = r.w /\ Stamped(w, rid, r).n = r.n
BY DEF Stamped, Row, TypeOK

\* Stamping keeps the rows of a batch rows, and as many.
LEMMA StampedRowsType ==
    ASSUME TypeOK, NEW w \in Writers, NEW b \in Batches
    PROVE  /\ StampedRows(w, b) \in Seq(Row)
           /\ Len(StampedRows(w, b)) = Len(rows[b])
<1>1. rows[b] \in Seq(Row)
  BY DEF TypeOK
<1>2. StampedRows(w, b) \in [1 .. Len(rows[b]) -> Row]
  BY <1>1, StampedType DEF StampedRows
<1> QED  BY <1>1, <1>2

\* What is left of the file after the cut is still a sequence of pages.
LEMMA ExtendedFileType ==
    ASSUME TypeOK, FileInv, NEW b \in Batches
    PROVE  /\ ExtendedFile(b) \in Seq(Seq(Row))
           /\ Len(ExtendedFile(b)) = mapped + 1
<1>1. SubSeq(file, 1, mapped) \in Seq(Seq(Row)) /\ Len(SubSeq(file, 1, mapped)) = mapped
  BY DEF TypeOK, FileInv
<1> QED  BY <1>1 DEF ExtendedFile, TypeOK

-----------------------------------------------------------------------------
(* Type correctness.                                                       *)

\* Every step of every thread keeps the variables within their types.
LEMMA TypeStep ==
    TypeInv /\ [Next]_vars => TypeInv'
<1> SUFFICES ASSUME TypeInv, [Next]_vars PROVE TypeInv'
  OBVIOUS
<1> USE IngestAssumption
<1> USE DEF TypeInv, TypeOK, PtrInv, SizeInv, FileInv, Threads, WriterPC, FlusherPC,
            batchVars, pageVars, threadVars
<1>1. ASSUME NEW w \in Writers, InsertCall(w) PROVE TypeInv'
  BY <1>1, SMTT(30) DEF InsertCall, Goto
<1>2. ASSUME NEW w \in Writers, LoadActive(w) PROVE TypeInv'
  <2>1. CASE active = NoBatch
    <3>1. ControlOK'  BY <1>2, <2>1, GotoType DEF LoadActive, ControlOK
    <3> QED  BY <1>2, <3>1 DEF LoadActive, ControlOK
  <2>2. CASE active # NoBatch
    <3>1. ControlOK'  BY <1>2, <2>2, GotoType DEF LoadActive, ControlOK
    <3> QED  BY <1>2, <3>1 DEF LoadActive, ControlOK
  <2> QED  BY <2>1, <2>2
<1>3. ASSUME NEW w \in Writers, GetFreeBatch(w) PROVE TypeInv'
  BY <1>3, SMTT(30) DEF GetFreeBatch, Goto
<1>4. ASSUME NEW w \in Writers, InstallBatch(w) PROVE TypeInv'
  BY <1>4, SMTT(30) DEF InstallBatch, Goto
<1>5. ASSUME NEW w \in Writers, AppendRows(w) PROVE TypeInv'
  <2> DEFINE b == ptr[w]
             k == ToInsert(w, b)
             full == Len(rows[b]) + k >= kBatchSize
             at == BatchStart(b) + Len(rows[b])
  <2>0. TypeOK /\ SizeInv
    OBVIOUS
  <2>1. b \in Batches
    BY <1>5 DEF AppendRows
  <2>2. k \in Nat /\ k <= left[w] /\ Len(rows[b]) + k <= kBatchSize
    <3> HIDE DEF b, TypeInv, TypeOK, PtrInv, SizeInv, FileInv
    <3> QED  BY <2>0, <2>1, ToInsertBound
  <2>3. BatchStart(b) \in Nat /\ at \in Nat
    BY <2>1 DEF BatchStart
  <2> DEFINE appended == rows[b] \o NewRows(w, k)
  <2>11. appended \in Seq(Row) /\ Len(appended) = Len(rows[b]) + k
    <3> HIDE DEF b, k, TypeInv, TypeOK, PtrInv, SizeInv, FileInv
    <3> QED  BY <2>0, <2>1, <2>2, AppendedRowsType
  <2>4. rows' \in [Batches -> Seq(Row)]
    <3>1. rows[b] \o NewRows(w, k) \in Seq(Row)
      BY <2>11
    <3> HIDE DEF k
    <3> QED  BY <1>5, <3>1 DEF AppendRows, k
  <2>5. \A c \in Batches : Len(rows'[c]) <= kBatchSize
    <3>1. Len(rows[b] \o NewRows(w, k)) = Len(rows[b]) + k
      BY <2>11
    <3>2. rows'[b] = rows[b] \o NewRows(w, k) /\ \A c \in Batches \ {b} : rows'[c] = rows[c]
      BY <1>5, <2>1 DEF AppendRows
    <3> HIDE DEF k
    <3> QED  BY <2>2, <3>1, <3>2
  <2>6. startRid' \in [Batches -> Nat] /\ rowCount' \in Nat
    <3> HIDE DEF k
    <3>1. rowCount' = rowCount + k /\ startRid' = [startRid EXCEPT ![b] = BatchStart(b)]
      BY <1>5 DEF AppendRows, k
    <3> QED  BY <2>1, <2>2, <2>3, <3>1
  <2>7. /\ writeSet' \in [Writers -> SUBSET Nat]
        /\ sent' \in [Writers -> Nat] /\ left' \in [Writers -> Nat]
    <3>1. /\ writeSet' = [writeSet EXCEPT ![w] = @ \cup (at .. at + k - 1)]
          /\ sent' = [sent EXCEPT ![w] = @ + k]
          /\ left' = [left EXCEPT ![w] = @ - k]
      BY <1>5 DEF AppendRows
    <3> HIDE DEF k, at
    <3>2. at .. at + k - 1 \in SUBSET Nat
      BY <2>2, <2>3
    <3>3. writeSet' \in [Writers -> SUBSET Nat]
      BY <3>1, <3>2
    <3>4. sent' \in [Writers -> Nat] /\ left' \in [Writers -> Nat]
      <4>1. sent \in [Writers -> Nat] /\ left \in [Writers -> Nat]
        OBVIOUS
      <4> HIDE DEF TypeInv, TypeOK, PtrInv, SizeInv, FileInv
      <4> QED  BY <2>2, <3>1, <4>1
    <3> QED  BY <3>3, <3>4
  <2>8. active' \in Batches \cup {NoBatch}
    BY <1>5 DEF AppendRows
  <2>9. ControlOK'
    <3>1. CASE full
      BY <1>5, <2>1, <3>1, GotoType DEF AppendRows, ControlOK
    <3>2. CASE ~full
      BY <1>5, <2>1, <3>2, GotoType DEF AppendRows, ControlOK
    <3> QED  BY <3>1, <3>2
  <2>10. UNCHANGED <<free, queue, pageVars, vindex, verdict, failures>>
    BY <1>5 DEF AppendRows
  <2> QED  BY <2>4, <2>5, <2>6, <2>7, <2>8, <2>9, <2>10 DEF ControlOK
<1>6. ASSUME NEW w \in Writers, AppendRetry(w) PROVE TypeInv'
  BY <1>6 DEF AppendRetry, Goto
<1>7. ASSUME NEW w \in Writers, PushFull(w) PROVE TypeInv'
  BY <1>7, SMTT(30) DEF PushFull, Goto
<1>8. ASSUME NEW w \in Writers, CommitCall(w) PROVE TypeInv'
  BY <1>8 DEF CommitCall, Goto, Stamps
<1>9. ASSUME NEW w \in Writers, StampActive(w) PROVE TypeInv'
  <2>1. ASSUME NEW b \in Batches
        PROVE  rows'[b] \in Seq(Row) /\ Len(rows'[b]) <= kBatchSize
    <3>1. CASE b = active
      BY <1>9, <3>1, StampedRowsType DEF StampActive
    <3>2. CASE b # active
      BY <1>9, <3>2 DEF StampActive
    <3> QED  BY <3>1, <3>2
  <2>2. rows' \in [Batches -> Seq(Row)]
    <3>1. rows' = [b \in Batches |-> rows'[b]]
      BY <1>9 DEF StampActive
    <3> QED  BY <3>1, <2>1
  <2> QED  BY <1>9, <2>1, <2>2 DEF StampActive, Goto
<1>10. ASSUME NEW w \in Writers, StampQueue(w) PROVE TypeInv'
  <2>1. ASSUME NEW b \in Batches
        PROVE  rows'[b] \in Seq(Row) /\ Len(rows'[b]) <= kBatchSize
    BY <1>10, StampedRowsType DEF StampQueue
  <2>2. rows' \in [Batches -> Seq(Row)]
    <3>1. rows' = [b \in Batches |-> rows'[b]]
      BY <1>10 DEF StampQueue
    <3> QED  BY <3>1, <2>1
  <2> QED  BY <1>10, <2>1, <2>2 DEF StampQueue, Goto
<1>11. ASSUME NEW w \in Writers, StampIndex(w) PROVE TypeInv'
  <2>1. vindex' \in SUBSET [rid : Nat, row : Row]
    BY <1>11, StampedType DEF StampIndex
  <2> QED  BY <1>11, <2>1 DEF StampIndex, Goto
<1>12. ASSUME NEW f \in Flushers, FlushBegin(f) PROVE TypeInv'
  <2>1. ControlOK'
    <3>1. CASE active = NoBatch  BY <1>12, <3>1, GotoType DEF FlushBegin, ControlOK
    <3>2. CASE active # NoBatch  BY <1>12, <3>2, GotoType DEF FlushBegin, ControlOK
    <3> QED  BY <3>1, <3>2
  <2> QED  BY <1>12, <2>1 DEF FlushBegin, ControlOK
<1>13. ASSUME NEW f \in Flushers, FlushDetach(f) PROVE TypeInv'
  <2> DEFINE detach == active = ptr[f] /\ rows[ptr[f]] # <<>>
  <2>1. ControlOK' /\ active' \in Batches \cup {NoBatch}
    <3>1. CASE detach   BY <1>13, <3>1, GotoType DEF FlushDetach, ControlOK
    <3>2. CASE ~detach  BY <1>13, <3>2, GotoType DEF FlushDetach, ControlOK
    <3> QED  BY <3>1, <3>2
  <2> QED  BY <1>13, <2>1 DEF FlushDetach, ControlOK
<1>14. ASSUME NEW f \in Flushers, FlushPush(f) PROVE TypeInv'
  BY <1>14, SMTT(30) DEF FlushPush, Goto
<1>15. ASSUME NEW f \in Flushers, FlushPop(f) PROVE TypeInv'
  BY <1>15, SMTT(30) DEF FlushPop, Goto
<1>16. ASSUME NEW f \in Flushers, FlushReturn(f) PROVE TypeInv'
  BY <1>16 DEF FlushReturn, Goto
<1>17. ASSUME NEW f \in Flushers, WritePage(f) PROVE TypeInv'
  <2>1. ptr[f] \in Batches
    BY <1>17 DEF WritePage
  <2>2. file' \in Seq(Seq(Row)) /\ mapped' \in Nat /\ mapped' <= Len(file')
    BY <1>17, <2>1, ExtendedFileType, SMTT(30) DEF WritePage
  <2>3. pages' \in Seq([start : Nat, count : Nat, page : Nat])
    BY <1>17, <2>1 DEF WritePage
  <2>4. vindex' \in SUBSET [rid : Nat, row : Row]
    BY <1>17, <2>1 DEF WritePage
  <2> QED  BY <1>17, <2>2, <2>3, <2>4 DEF WritePage, Goto
<1>18. ASSUME NEW f \in Flushers, WriteFail(f) PROVE TypeInv'
  BY <1>18, SMTT(30) DEF WriteFail, Goto
<1>19. ASSUME NEW f \in Flushers, Recycle(f) PROVE TypeInv'
  BY <1>19 DEF Recycle, Goto
<1>20. CASE UNCHANGED vars
  BY <1>20 DEF vars
<1> QED
  BY <1>1, <1>2, <1>3, <1>4, <1>5, <1>6, <1>7, <1>8, <1>9, <1>10, <1>11, <1>12, <1>13, <1>14, <1>15, <1>16, <1>17, <1>18, <1>19, <1>20 DEF Next, InsertStep, CommitStep, FlushStep


\* The variables stay within their types: no counter of the write path goes
\* below zero and no thread touches a batch it does not have.
THEOREM TypeCorrect == Spec => []TypeOK
<1>1. Init => TypeInv
  BY IngestAssumption DEF Init, TypeInv, TypeOK, PtrInv, SizeInv, FileInv, Threads,
     WriterPC, FlusherPC, Stamps
<1>2. TypeInv => TypeOK
  BY DEF TypeInv
<1> QED  BY <1>1, <1>2, TypeStep, PTL DEF Spec

-----------------------------------------------------------------------------
(* The pool.                                                               *)

\* Where a thread stands after a Goto, and that the others stay put.
LEMMA GotoFacts ==
    ASSUME ControlOK, NEW t \in Threads, NEW l, NEW b, Goto(t, l, b)
    PROVE  /\ pc'[t] = l /\ ptr'[t] = b
           /\ \A u \in Threads \ {t} : pc'[u] = pc[u] /\ ptr'[u] = ptr[u]
           /\ \A u \in Threads \ {t} : Owns(u)' = Owns(u)
BY DEF Goto, ControlOK, Owns

\* A step that moves no batch keeps the pool as it is.
LEMMA PoolSame ==
    ASSUME PoolConserved, UNCHANGED <<active, free, queue>>,
           \A t \in Threads : Owns(t)' = Owns(t),
           \A t \in Threads : Owns(t) => ptr'[t] = ptr[t]
    PROVE  PoolConserved'
BY DEF PoolConserved, Queued

\* The active batch passes into the hands of the thread that detached it.
LEMMA PoolDetach ==
    ASSUME PoolConserved, ControlOK, NEW t \in Threads, ~Owns(t), active \in Batches,
           NoBatch \notin Batches, NoBatch \notin free, ~Queued(NoBatch),
           active' = NoBatch, UNCHANGED <<free, queue>>, Goto(t, "push", active)
    PROVE  PoolConserved'
<1>1. Owns(t)' /\ ptr'[t] = active
  BY GotoFacts DEF Owns
<1>2. \A u \in Threads \ {t} : Owns(u)' = Owns(u) /\ ptr'[u] = ptr[u]
  BY GotoFacts
<1>3. \A b : Queued(b)' = Queued(b)
  BY DEF Queued
<1> QED  BY <1>1, <1>2, <1>3 DEF PoolConserved

\* Every step moves at most one batch, from one place to another.
LEMMA PoolStep ==
    TypeInv /\ PoolConserved /\ [Next]_vars => PoolConserved'
<1> SUFFICES ASSUME TypeInv, PoolConserved, [Next]_vars PROVE PoolConserved'
  OBVIOUS
<1>0. ControlOK /\ (\A b \in free : b \in Batches) /\ queue \in Seq(Batches)
      /\ NoBatch \notin Batches /\ Writers \subseteq Threads /\ Flushers \subseteq Threads
      /\ ~Queued(NoBatch)
  BY IngestAssumption DEF TypeInv, TypeOK, ControlOK, Threads, Queued
<1>1. ASSUME NEW w \in Writers, InsertCall(w) PROVE PoolConserved'
  BY <1>0, <1>1, GotoFacts, PoolSame DEF InsertCall, Owns, batchVars
<1>2. ASSUME NEW w \in Writers, LoadActive(w) PROVE PoolConserved'
  BY <1>0, <1>2, GotoFacts, PoolSame DEF LoadActive, Owns, batchVars
<1>3. ASSUME NEW w \in Writers, AppendRetry(w) PROVE PoolConserved'
  BY <1>0, <1>3, GotoFacts, PoolSame DEF AppendRetry, Owns, batchVars
<1>4. ASSUME NEW w \in Writers, CommitCall(w) PROVE PoolConserved'
  BY <1>0, <1>4, GotoFacts, PoolSame DEF CommitCall, Owns, batchVars
<1>5. ASSUME NEW w \in Writers, StampActive(w) PROVE PoolConserved'
  BY <1>0, <1>5, GotoFacts, PoolSame DEF StampActive, Owns, batchVars
<1>6. ASSUME NEW w \in Writers, StampQueue(w) PROVE PoolConserved'
  BY <1>0, <1>6, GotoFacts, PoolSame DEF StampQueue, Owns, batchVars
<1>7. ASSUME NEW w \in Writers, StampIndex(w) PROVE PoolConserved'
  BY <1>0, <1>7, GotoFacts, PoolSame DEF StampIndex, Owns, batchVars
<1>8. ASSUME NEW f \in Flushers, FlushBegin(f) PROVE PoolConserved'
  BY <1>0, <1>8, GotoFacts, PoolSame DEF FlushBegin, Owns, batchVars
<1>9. ASSUME NEW f \in Flushers, FlushReturn(f) PROVE PoolConserved'
  BY <1>0, <1>9, GotoFacts, PoolSame DEF FlushReturn, Owns, batchVars
<1>10. ASSUME NEW f \in Flushers, WritePage(f) PROVE PoolConserved'
  BY <1>0, <1>10, GotoFacts, PoolSame DEF WritePage, Owns, batchVars
<1>11. ASSUME NEW w \in Writers, GetFreeBatch(w) PROVE PoolConserved'
  BY <1>0, <1>11, GotoFacts DEF GetFreeBatch, Owns, PoolConserved, Queued
<1>12. ASSUME NEW w \in Writers, InstallBatch(w) PROVE PoolConserved'
  BY <1>0, <1>12, GotoFacts DEF InstallBatch, Owns, PoolConserved, Queued
<1>13. ASSUME NEW w \in Writers, AppendRows(w) PROVE PoolConserved'
  <2> DEFINE full == Len(rows[ptr[w]]) + ToInsert(w, ptr[w]) >= kBatchSize
  <2>0. ~Owns(w) /\ ptr[w] \in Batches /\ active = ptr[w] /\ UNCHANGED <<free, queue>>
    BY <1>0, <1>13 DEF AppendRows, Owns, ControlOK, PtrInv
  <2>1. CASE full
    <3>1. active' = NoBatch /\ Goto(w, "push", active)
      BY <1>13, <2>0, <2>1 DEF AppendRows
    <3> QED  BY <1>0, <2>0, <3>1, PoolDetach
  <2>2. CASE ~full
    <3>1. active' = active /\ pc'[w] \in {"idle", "load"}
          /\ \A u \in Threads \ {w} : Owns(u)' = Owns(u) /\ ptr'[u] = ptr[u]
      BY <1>0, <1>13, <2>2, GotoFacts DEF AppendRows
    <3> QED  BY <2>0, <3>1, PoolSame DEF Owns
  <2> QED  BY <2>1, <2>2
<1>14. ASSUME NEW w \in Writers, PushFull(w) PROVE PoolConserved'
  BY <1>0, <1>14, GotoFacts, SMTT(30) DEF PushFull, Owns, PoolConserved, Queued
<1>15. ASSUME NEW f \in Flushers, FlushDetach(f) PROVE PoolConserved'
  <2> DEFINE detach == active = ptr[f] /\ rows[ptr[f]] # <<>>
  <2>0. ~Owns(f) /\ ptr[f] \in Batches /\ UNCHANGED <<free, queue>>
    BY <1>0, <1>15 DEF FlushDetach, Owns, ControlOK, PtrInv
  <2>1. CASE detach
    <3>1. active = ptr[f] /\ active' = NoBatch /\ Goto(f, "push", active)
      BY <1>15, <2>1 DEF FlushDetach
    <3> QED  BY <1>0, <2>0, <3>1, PoolDetach
  <2>2. CASE ~detach
    <3>1. active' = active /\ pc'[f] = "pop"
          /\ \A u \in Threads \ {f} : Owns(u)' = Owns(u) /\ ptr'[u] = ptr[u]
      BY <1>0, <1>15, <2>2, GotoFacts DEF FlushDetach
    <3> QED  BY <2>0, <3>1, PoolSame DEF Owns
  <2> QED  BY <2>1, <2>2
<1>16. ASSUME NEW f \in Flushers, FlushPush(f) PROVE PoolConserved'
  BY <1>0, <1>16, GotoFacts DEF FlushPush, Owns, PoolConserved, Queued
<1>17. ASSUME NEW f \in Flushers, FlushPop(f) PROVE PoolConserved'
  <2>1. /\ ~Owns(f) /\ Owns(f)' /\ ptr'[f] = Head(queue) /\ Head(queue) \in Batches
        /\ \A u \in Threads \ {f} : Owns(u)' = Owns(u) /\ ptr'[u] = ptr[u]
        /\ UNCHANGED <<active, free>>
    BY <1>0, <1>17, GotoFacts DEF FlushPop, Owns
  <2>2. /\ Len(queue') = Len(queue) - 1 /\ Len(queue') \in Nat /\ Len(queue) \in Nat
        /\ Head(queue) = queue[1]
        /\ \A i \in 1 .. Len(queue') : queue'[i] = queue[i + 1]
    BY <1>0, <1>17 DEF FlushPop
  <2>3. \A i, j \in 1 .. Len(queue') : queue'[i] = queue'[j] => i = j
    BY <2>2 DEF PoolConserved
  <2>4. \A b : Queued(b)' => Queued(b) /\ b # Head(queue)
    BY <2>2 DEF PoolConserved, Queued
  <2>5. ASSUME NEW b, Queued(b), b # Head(queue) PROVE Queued(b)'
    <3>1. PICK i \in 1 .. Len(queue) : queue[i] = b
      BY <2>5 DEF Queued
    <3>2. i - 1 \in 1 .. Len(queue') /\ queue'[i - 1] = b
      BY <2>2, <2>5, <3>1
    <3> QED  BY <3>2 DEF Queued
  <2>6. Queued(Head(queue))
    BY <1>17, <2>2 DEF Queued, FlushPop
  <2>7. \A b \in Batches : \/ active' = b \/ b \in free' \/ Queued(b)'
                           \/ \E t \in Threads : Owns(t)' /\ ptr'[t] = b
    BY <1>0, <2>1, <2>5 DEF PoolConserved
  <2>8. active' \notin free' /\ ~Queued(active)' /\ \A b \in free' : ~Queued(b)'
    BY <2>1, <2>4 DEF PoolConserved
  <2>9. ASSUME NEW t \in Threads, Owns(t)'
        PROVE  /\ ptr'[t] \in Batches
               /\ ptr'[t] # active' /\ ptr'[t] \notin free' /\ ~Queued(ptr[t])'
               /\ \A u \in Threads : Owns(u)' /\ ptr'[u] = ptr'[t] => u = t
    BY <2>1, <2>4, <2>6, <2>9 DEF PoolConserved
  <2> QED  BY <2>3, <2>7, <2>8, <2>9 DEF PoolConserved
<1>18. ASSUME NEW f \in Flushers, WriteFail(f) PROVE PoolConserved'
  BY <1>0, <1>18, GotoFacts DEF WriteFail, Owns, PoolConserved, Queued
<1>19. ASSUME NEW f \in Flushers, Recycle(f) PROVE PoolConserved'
  BY <1>0, <1>19, GotoFacts DEF Recycle, Owns, PoolConserved, Queued
<1>20. CASE UNCHANGED vars
  BY <1>20, PoolSame DEF vars, batchVars, threadVars, Owns
<1> QED
  BY <1>1, <1>2, <1>3, <1>4, <1>5, <1>6, <1>7, <1>8, <1>9, <1>10, <1>11, <1>12, <1>13, <1>14, <1>15, <1>16, <1>17, <1>18, <1>19, <1>20 DEF Next, InsertStep, CommitStep, FlushStep


\* No interleaving of inserts, flushes and failed writes loses a PendingBatch
\* of the pool or leaves it in two hands.
THEOREM PoolSafe == Spec => []PoolConserved
<1>1. Init => TypeInv
  BY IngestAssumption DEF Init, TypeInv, TypeOK, PtrInv, SizeInv, FileInv, Threads,
     WriterPC, FlusherPC, Stamps
<1>2. Init => PoolConserved
  BY IngestAssumption DEF Init, PoolConserved, Queued, Owns
<1> QED  BY <1>1, <1>2, TypeStep, PoolStep, PTL DEF Spec

-----------------------------------------------------------------------------
(* What the critical section of insert_rows does.                          *)

\* The rows go to the end of the active batch, which takes its start from
\* row_count_ when it was empty; only this batch changes, and the writer
\* leaves with it exactly when it is full.
LEMMA AppendEffect ==
    ASSUME TypeInv, NEW w \in Writers, AppendRows(w)
    PROVE  /\ ptr[w] \in Batches /\ active = ptr[w] /\ pc[w] = "lock"
           /\ ToInsert(w, ptr[w]) \in Nat /\ ToInsert(w, ptr[w]) <= left[w]
           /\ Len(rows[ptr[w]]) \in Nat
           /\ Len(rows[ptr[w]]) + ToInsert(w, ptr[w]) <= kBatchSize
           /\ rows'[ptr[w]] \in Seq(Row)
           /\ Len(rows'[ptr[w]]) = Len(rows[ptr[w]]) + ToInsert(w, ptr[w])
           /\ \A c \in Batches \ {ptr[w]} : rows'[c] = rows[c] /\ startRid'[c] = startRid[c]
           /\ startRid'[ptr[w]] = BatchStart(ptr[w])
           /\ rowCount' = rowCount + ToInsert(w, ptr[w])
           /\ active' \in {ptr[w], NoBatch} /\ UNCHANGED <<free, queue, pages>>
           /\ pc'[w] \in {"idle", "load", "push"}
           /\ pc'[w] = "push" => /\ ptr'[w] = ptr[w]
                                 /\ Len(rows'[ptr[w]]) >= kBatchSize
           /\ \A t \in Threads \ {w} : pc'[t] = pc[t] /\ ptr'[t] = ptr[t]
<1> DEFINE b == ptr[w]
           k == ToInsert(w, b)
           full == Len(rows[b]) + k >= kBatchSize
<1>0. ControlOK /\ w \in Threads /\ kBatchSize \in Nat
  BY IngestAssumption DEF TypeInv, TypeOK, ControlOK, Threads
<1>1. b \in Batches /\ active = b /\ pc[w] = "lock"
  BY <1>0 DEF AppendRows, ControlOK, PtrInv
<1>2. /\ Len(rows[b]) \in Nat /\ rows[b] \in Seq(Row) /\ left[w] \in Nat
      /\ Len(rows[b]) <= kBatchSize
  BY <1>1 DEF TypeInv, TypeOK, SizeInv
<1>3. k \in Nat /\ k <= left[w] /\ Len(rows[b]) + k <= kBatchSize
  BY <1>0, <1>2 DEF ToInsert, Room
<1>4. /\ rows' = [rows EXCEPT ![b] = rows[b] \o NewRows(w, k)]
      /\ startRid' = [startRid EXCEPT ![b] = BatchStart(b)]
      /\ rowCount' = rowCount + k
      /\ active' = IF full THEN NoBatch ELSE active
      /\ UNCHANGED <<free, queue, pages>>
  BY DEF AppendRows, pageVars
<1>5. IF full THEN Goto(w, "push", b)
      ELSE Goto(w, IF left[w] = k THEN "idle" ELSE "load", NoBatch)
  BY DEF AppendRows
<1>6. NewRows(w, k) \in Seq(Row) /\ Len(NewRows(w, k)) = k
  BY <1>3, NewRowsType DEF TypeInv
<1> HIDE DEF k, b
<1>7. rows'[b] \in Seq(Row) /\ Len(rows'[b]) = Len(rows[b]) + k
  <2>1. rows'[b] = rows[b] \o NewRows(w, k)
    BY <1>1, <1>4 DEF TypeInv, TypeOK
  <2>2. /\ rows[b] \o NewRows(w, k) \in Seq(Row)
        /\ Len(rows[b] \o NewRows(w, k)) = Len(rows[b]) + Len(NewRows(w, k))
    BY <1>2, <1>6, ConcatProperties, Zenon
  <2> QED  BY <1>6, <2>1, <2>2, Zenon
<1>8. \A c \in Batches \ {b} : rows'[c] = rows[c] /\ startRid'[c] = startRid[c]
  BY <1>4 DEF TypeInv, TypeOK
<1>9. startRid'[b] = BatchStart(b)
  BY <1>1, <1>4 DEF TypeInv, TypeOK
<1>10. /\ pc'[w] \in {"idle", "load", "push"}
       /\ pc'[w] = "push" => ptr'[w] = b /\ Len(rows'[b]) >= kBatchSize
       /\ \A t \in Threads \ {w} : pc'[t] = pc[t] /\ ptr'[t] = ptr[t]
  <2>1. CASE full   BY <1>0, <1>5, <1>7, <2>1, GotoFacts
  <2>2. CASE ~full  BY <1>0, <1>5, <2>2, GotoFacts
  <2> QED  BY <2>1, <2>2
<1>11. active' \in {b, NoBatch}
  BY <1>1, <1>4
<1> QED
  BY <1>1, <1>2, <1>3, <1>4, <1>7, <1>8, <1>9, <1>10, <1>11 DEF b, k

-----------------------------------------------------------------------------
(* Only batches with rows are queued.                                      *)

\* A batch in the queue, or on its way into or out of it, has rows: the early
\* return of write_batch_to_page for an empty batch is never taken.
FilledInv ==
    /\ \A i \in 1 .. Len(queue) : rows[queue[i]] # <<>>
    /\ \A t \in Threads : pc[t] \in {"push", "write"} => rows[ptr[t]] # <<>>

\* A step that empties no batch keeps FilledInv when what it queues or takes
\* has rows.
LEMMA FilledSame ==
    ASSUME \A b \in Batches : rows[b] # <<>> => rows'[b] # <<>>,
           \A i \in 1 .. Len(queue') : queue'[i] \in Batches /\ rows[queue'[i]] # <<>>,
           \A t \in Threads : pc'[t] \in {"push", "write"} =>
                                  ptr'[t] \in Batches /\ rows[ptr'[t]] # <<>>
    PROVE  FilledInv'
BY DEF FilledInv

\* A batch is detached with rows in it, and cleared only by the thread that
\* wrote it.
LEMMA FilledStep ==
    TypeInv /\ PoolConserved /\ FilledInv /\ [Next]_vars => FilledInv'
<1> SUFFICES ASSUME TypeInv, PoolConserved, FilledInv, [Next]_vars PROVE FilledInv'
  OBVIOUS
<1>0. /\ ControlOK /\ Writers \subseteq Threads /\ Flushers \subseteq Threads
      /\ Writers \cap Flushers = {} /\ NoBatch \notin Batches
      /\ rows \in [Batches -> Seq(Row)] /\ queue \in Seq(Batches)
  BY IngestAssumption DEF TypeInv, TypeOK, ControlOK, Threads
<1>a. \A i \in 1 .. Len(queue) : queue[i] \in Batches /\ rows[queue[i]] # <<>>
  BY <1>0 DEF FilledInv
<1>b. \A t \in Threads : pc[t] \in {"push", "write"} =>
                              ptr[t] \in Batches /\ rows[ptr[t]] # <<>>
  BY <1>0 DEF FilledInv, ControlOK, PtrInv
<1>c. ASSUME NEW b \in Batches, rows[b] # <<>>, queue' = Append(queue, b)
      PROVE  \A i \in 1 .. Len(queue') : queue'[i] \in Batches /\ rows[queue'[i]] # <<>>
  <2>1. Len(queue') = Len(queue) + 1 /\ Len(queue) \in Nat /\ queue'[Len(queue) + 1] = b
        /\ \A i \in 1 .. Len(queue) : queue'[i] = queue[i]
    BY <1>0, <1>c
  <2> QED  BY <1>a, <1>c, <2>1
<1>1. ASSUME NEW w \in Writers, InsertCall(w) PROVE FilledInv'
  <2>1. /\ UNCHANGED <<rows, queue>> /\ pc'[w] \notin {"push", "write"}
        /\ \A t \in Threads \ {w} : pc'[t] = pc[t] /\ ptr'[t] = ptr[t]
    BY <1>0, <1>1, GotoFacts DEF InsertCall, batchVars
  <2> QED  BY <1>a, <1>b, <2>1, FilledSame
<1>2. ASSUME NEW w \in Writers, LoadActive(w) PROVE FilledInv'
  <2>1. /\ UNCHANGED <<rows, queue>> /\ pc'[w] \notin {"push", "write"}
        /\ \A t \in Threads \ {w} : pc'[t] = pc[t] /\ ptr'[t] = ptr[t]
    BY <1>0, <1>2, GotoFacts DEF LoadActive, batchVars
  <2> QED  BY <1>a, <1>b, <2>1, FilledSame
<1>3. ASSUME NEW w \in Writers, GetFreeBatch(w) PROVE FilledInv'
  <2>1. /\ UNCHANGED <<rows, queue>> /\ pc'[w] \notin {"push", "write"}
        /\ \A t \in Threads \ {w} : pc'[t] = pc[t] /\ ptr'[t] = ptr[t]
    BY <1>0, <1>3, GotoFacts DEF GetFreeBatch, batchVars
  <2> QED  BY <1>a, <1>b, <2>1, FilledSame
<1>4. ASSUME NEW w \in Writers, InstallBatch(w) PROVE FilledInv'
  <2>1. /\ UNCHANGED <<rows, queue>> /\ pc'[w] \notin {"push", "write"}
        /\ \A t \in Threads \ {w} : pc'[t] = pc[t] /\ ptr'[t] = ptr[t]
    BY <1>0, <1>4, GotoFacts DEF InstallBatch, batchVars
  <2> QED  BY <1>a, <1>b, <2>1, FilledSame
<1>5. ASSUME NEW w \in Writers, AppendRetry(w) PROVE FilledInv'
  <2>1. /\ UNCHANGED <<rows, queue>> /\ pc'[w] \notin {"push", "write"}
        /\ \A t \in Threads \ {w} : pc'[t] = pc[t] /\ ptr'[t] = ptr[t]
    BY <1>0, <1>5, GotoFacts DEF AppendRetry, batchVars
  <2> QED  BY <1>a, <1>b, <2>1, FilledSame
<1>6. ASSUME NEW w \in Writers, PushFull(w) PROVE FilledInv'
  <2>1. /\ ptr[w] \in Batches /\ rows[ptr[w]] # <<>> /\ rows' = rows
        /\ queue' = Append(queue, ptr[w])
    BY <1>0, <1>b, <1>6 DEF PushFull
  <2>2. /\ pc'[w] \in {"idle", "load", "pop"}
        /\ \A t \in Threads \ {w} : pc'[t] = pc[t] /\ ptr'[t] = ptr[t]
    BY <1>0, <1>6, GotoFacts DEF PushFull
  <2> QED  BY <1>b, <1>c, <2>1, <2>2, FilledSame
<1>7. ASSUME NEW w \in Writers, CommitCall(w) PROVE FilledInv'
  <2>1. /\ UNCHANGED <<rows, queue>> /\ pc'[w] \notin {"push", "write"}
        /\ \A t \in Threads \ {w} : pc'[t] = pc[t] /\ ptr'[t] = ptr[t]
    BY <1>0, <1>7, GotoFacts DEF CommitCall, batchVars
  <2> QED  BY <1>a, <1>b, <2>1, FilledSame
<1>8. ASSUME NEW w \in Writers, StampIndex(w) PROVE FilledInv'
  <2>1. /\ UNCHANGED <<rows, queue>> /\ pc'[w] \notin {"push", "write"}
        /\ \A t \in Threads \ {w} : pc'[t] = pc[t] /\ ptr'[t] = ptr[t]
    BY <1>0, <1>8, GotoFacts DEF StampIndex, batchVars
  <2> QED  BY <1>a, <1>b, <2>1, FilledSame
<1>9. ASSUME NEW f \in Flushers, FlushBegin(f) PROVE FilledInv'
  <2>1. /\ UNCHANGED <<rows, queue>> /\ pc'[f] \notin {"push", "write"}
        /\ \A t \in Threads \ {f} : pc'[t] = pc[t] /\ ptr'[t] = ptr[t]
    BY <1>0, <1>9, GotoFacts DEF FlushBegin, batchVars
  <2> QED  BY <1>a, <1>b, <2>1, FilledSame
<1>10. ASSUME NEW f \in Flushers, FlushDetach(f) PROVE FilledInv'
  <2>1. /\ pc'[f] = "pop" \/ (pc'[f] = "push" /\ ptr'[f] = ptr[f] /\ rows[ptr[f]] # <<>>)
        /\ \A t \in Threads \ {f} : pc'[t] = pc[t] /\ ptr'[t] = ptr[t]
    <3> DEFINE detach == active = ptr[f] /\ rows[ptr[f]] # <<>>
    <3>1. CASE detach   BY <1>0, <1>10, <3>1, GotoFacts DEF FlushDetach
    <3>2. CASE ~detach  BY <1>0, <1>10, <3>2, GotoFacts DEF FlushDetach
    <3> QED  BY <3>1, <3>2
  <2>2. ptr[f] \in Batches /\ UNCHANGED <<rows, queue>>
    BY <1>0, <1>10 DEF FlushDetach, ControlOK, PtrInv
  <2> QED  BY <1>a, <1>b, <2>1, <2>2, FilledSame
<1>11. ASSUME NEW f \in Flushers, FlushPush(f) PROVE FilledInv'
  <2>1. /\ ptr[f] \in Batches /\ rows[ptr[f]] # <<>> /\ rows' = rows
        /\ queue' = Append(queue, ptr[f])
    BY <1>0, <1>b, <1>11 DEF FlushPush
  <2>2. /\ pc'[f] \in {"idle", "load", "pop"}
        /\ \A t \in Threads \ {f} : pc'[t] = pc[t] /\ ptr'[t] = ptr[t]
    BY <1>0, <1>11, GotoFacts DEF FlushPush
  <2> QED  BY <1>b, <1>c, <2>1, <2>2, FilledSame
<1>12. ASSUME NEW f \in Flushers, FlushReturn(f) PROVE FilledInv'
  <2>1. /\ UNCHANGED <<rows, queue>> /\ pc'[f] \notin {"push", "write"}
        /\ \A t \in Threads \ {f} : pc'[t] = pc[t] /\ ptr'[t] = ptr[t]
    BY <1>0, <1>12, GotoFacts DEF FlushReturn, batchVars
  <2> QED  BY <1>a, <1>b, <2>1, FilledSame
<1>13. ASSUME NEW f \in Flushers, WritePage(f) PROVE FilledInv'
  <2>1. /\ UNCHANGED <<rows, queue>> /\ pc'[f] \notin {"push", "write"}
        /\ \A t \in Threads \ {f} : pc'[t] = pc[t] /\ ptr'[t] = ptr[t]
    BY <1>0, <1>13, GotoFacts DEF WritePage, batchVars
  <2> QED  BY <1>a, <1>b, <2>1, FilledSame
<1>14. ASSUME NEW f \in Flushers, WriteFail(f) PROVE FilledInv'
  <2>1. /\ ptr[f] \in Batches /\ rows[ptr[f]] # <<>> /\ rows' = rows
        /\ queue' = Append(queue, ptr[f])
    BY <1>0, <1>b, <1>14 DEF WriteFail
  <2>2. /\ pc'[f] \in {"idle", "load", "pop"}
        /\ \A t \in Threads \ {f} : pc'[t] = pc[t] /\ ptr'[t] = ptr[t]
    BY <1>0, <1>14, GotoFacts DEF WriteFail
  <2> QED  BY <1>b, <1>c, <2>1, <2>2, FilledSame
<1>15. ASSUME NEW f \in Flushers, FlushPop(f) PROVE FilledInv'
  <2>1. /\ Len(queue') = Len(queue) - 1 /\ Len(queue') \in Nat /\ Len(queue) \in Nat
        /\ Head(queue) = queue[1] /\ rows' = rows
        /\ \A i \in 1 .. Len(queue') : queue'[i] = queue[i + 1]
    BY <1>0, <1>15 DEF FlushPop
  <2>2. /\ ptr'[f] = Head(queue)
        /\ \A t \in Threads \ {f} : pc'[t] = pc[t] /\ ptr'[t] = ptr[t]
    BY <1>0, <1>15, GotoFacts DEF FlushPop
  <2>3. \A i \in 1 .. Len(queue') : queue'[i] \in Batches /\ rows[queue'[i]] # <<>>
    BY <1>a, <2>1
  <2>4. ptr'[f] \in Batches /\ rows[ptr'[f]] # <<>>
    BY <1>a, <2>1, <2>2
  <2> QED  BY <1>b, <2>1, <2>2, <2>3, <2>4, FilledSame
<1>16. ASSUME NEW w \in Writers, StampActive(w) PROVE FilledInv'
  <2>1. \A b \in Batches : rows[b] # <<>> => rows'[b] # <<>>
    BY <1>0, <1>16, StampedRowsType DEF StampActive, TypeInv
  <2>2. /\ queue' = queue /\ pc'[w] \notin {"push", "write"}
        /\ \A t \in Threads \ {w} : pc'[t] = pc[t] /\ ptr'[t] = ptr[t]
    BY <1>0, <1>16, GotoFacts DEF StampActive
  <2> QED  BY <1>a, <1>b, <2>1, <2>2, FilledSame
<1>17. ASSUME NEW w \in Writers, StampQueue(w) PROVE FilledInv'
  <2>1. \A b \in Batches : rows[b] # <<>> => rows'[b] # <<>>
    BY <1>0, <1>17, StampedRowsType DEF StampQueue, TypeInv
  <2>2. /\ queue' = queue /\ pc'[w] \notin {"push", "write"}
        /\ \A t \in Threads \ {w} : pc'[t] = pc[t] /\ ptr'[t] = ptr[t]
    BY <1>0, <1>17, GotoFacts DEF StampQueue
  <2> QED  BY <1>a, <1>b, <2>1, <2>2, FilledSame
<1>18. ASSUME NEW w \in Writers, AppendRows(w) PROVE FilledInv'
  <2>1. \A b \in Batches : rows[b] # <<>> => rows'[b] # <<>>
    <3>1. rows[ptr[w]] # <<>> => rows'[ptr[w]] # <<>>
      BY <1>0, <1>18, AppendEffect
    <3> QED  BY <1>18, <3>1, AppendEffect
  <2>2. pc'[w] = "push" => ptr'[w] = ptr[w] /\ ptr[w] \in Batches /\ rows'[ptr[w]] # <<>>
    BY <1>18, AppendEffect, IngestAssumption
  <2>3. /\ queue' = queue /\ pc'[w] # "write"
        /\ \A t \in Threads \ {w} : pc'[t] = pc[t] /\ ptr'[t] = ptr[t]
    BY <1>18, AppendEffect
  <2> QED  BY <1>a, <1>b, <2>1, <2>2, <2>3 DEF FilledInv
<1>19. ASSUME NEW f \in Flushers, Recycle(f) PROVE FilledInv'
  <2>1. /\ Owns(f) /\ ptr[f] \in Batches /\ queue' = queue /\ pc'[f] = "pop"
        /\ \A c \in Batches \ {ptr[f]} : rows'[c] = rows[c]
        /\ \A t \in Threads \ {f} : pc'[t] = pc[t] /\ ptr'[t] = ptr[t]
    BY <1>0, <1>19, GotoFacts DEF Recycle, Owns, ControlOK, PtrInv
  <2>2. \A i \in 1 .. Len(queue) : queue[i] \in Batches /\ queue[i] # ptr[f]
    <3>1. ~Queued(ptr[f])
      BY <1>0, <1>19, <2>1 DEF PoolConserved
    <3> QED  BY <1>a, <3>1 DEF Queued
  <2>3. \A t \in Threads \ {f} : pc[t] \in {"push", "write"} => ptr[t] \in Batches \ {ptr[f]}
    BY <1>0, <1>19, <2>1 DEF PoolConserved, Owns
  <2> QED  BY <1>a, <1>b, <2>1, <2>2, <2>3 DEF FilledInv
<1>20. CASE UNCHANGED vars
  BY <1>20 DEF vars, batchVars, threadVars, FilledInv
<1> QED
  BY <1>1, <1>2, <1>3, <1>4, <1>5, <1>6, <1>7, <1>8, <1>9, <1>10, <1>11, <1>12, <1>13, <1>14, <1>15, <1>16, <1>17, <1>18, <1>19, <1>20 DEF Next, InsertStep, CommitStep, FlushStep

-----------------------------------------------------------------------------
(* Row ids.                                                                *)

Finish(b) == startRid[b] + Len(rows[b])
PageFinish(i) == pages[i].start + pages[i].count

\* A batch of the pool, or taken from it and not yet installed, has no rows.
BlankInv ==
    /\ \A b \in free : rows[b] = <<>>
    /\ \A w \in Writers : pc[w] = "cas" => rows[ptr[w]] = <<>>

\* The rows of the active batch end exactly at row_count_, and every other row
\* lies below them: the next row goes to the next id.  This is why start_rid
\* may be read from a counter that is not locked.
ActiveInv ==
    active \in Batches /\ rows[active] # <<>> =>
        /\ Finish(active) = rowCount
        /\ \A c \in Batches \ {active} : Unwritten(c) => Finish(c) <= startRid[active]
        /\ \A i \in 1 .. Len(pages) : PageFinish(i) <= startRid[active]

\* No row id lies beyond row_count_.
BelowInv ==
    /\ \A b \in Batches : rows[b] # <<>> => Finish(b) <= rowCount
    /\ \A i \in 1 .. Len(pages) : PageFinish(i) <= rowCount

\* RowIdsUnique in terms of the ends of the intervals.
ApartInv ==
    /\ \A b, c \in Batches : b # c /\ Unwritten(b) /\ Unwritten(c) =>
          Finish(b) <= startRid[c] \/ Finish(c) <= startRid[b]
    /\ \A b \in Batches, i \in 1 .. Len(pages) : Unwritten(b) =>
          Finish(b) <= pages[i].start \/ PageFinish(i) <= startRid[b]
    /\ \A i, j \in 1 .. Len(pages) : i # j =>
          PageFinish(i) <= pages[j].start \/ PageFinish(j) <= pages[i].start

RidInv == BlankInv /\ ActiveInv /\ BelowInv /\ ApartInv

\* A step that adds no row, writes no page and recycles nothing keeps RidInv
\* when what it frees, takes or installs is a blank batch.
LEMMA RidSame ==
    ASSUME TypeInv, RidInv, UNCHANGED <<startRid, rowCount, pages>>,
           \A b \in Batches : Len(rows'[b]) = Len(rows[b]) /\ (rows'[b] = <<>> <=> rows[b] = <<>>),
           \A b \in free' : b \in Batches /\ rows[b] = <<>>,
           \A w \in Writers : pc'[w] = "cas" => ptr'[w] \in Batches /\ rows[ptr'[w]] = <<>>,
           active' \in Batches => active' = active \/ rows[active'] = <<>>,
           \A t \in Threads : pc[t] = "recycle" => pc'[t] = "recycle" /\ ptr'[t] = ptr[t]
    PROVE  RidInv'
<1>1. BlankInv'
  BY DEF RidInv, BlankInv
<1>2. \A b \in Batches : (Unwritten(b)' => Unwritten(b)) /\ Finish(b)' = Finish(b)
  BY DEF Unwritten, Finish
<1>3. \A i \in 1 .. Len(pages) : PageFinish(i)' = PageFinish(i)
  BY DEF PageFinish
<1>4. ActiveInv'
  BY <1>2, <1>3 DEF RidInv, ActiveInv
<1>5. BelowInv'
  BY <1>2, <1>3 DEF RidInv, BelowInv
<1>6. ApartInv'
  BY <1>2, <1>3 DEF RidInv, ApartInv
<1> QED  BY <1>1, <1>4, <1>5, <1>6 DEF RidInv

\* The fields of the page index are numbers.
LEMMA PageFields ==
    ASSUME TypeOK, NEW i \in 1 .. Len(pages)
    PROVE  pages[i].start \in Nat /\ pages[i].count \in Nat /\ PageFinish(i) \in Nat
<1>1. pages[i] \in [start : Nat, count : Nat, page : Nat]
  BY ElementOfSeq DEF TypeOK
<1>2. pages[i].start \in Nat /\ pages[i].count \in Nat
  BY <1>1
<1> QED  BY <1>2 DEF PageFinish

\* Two ranges of ids share nothing when one ends before the other begins.
LEMMA RangesApart ==
    ASSUME NEW a \in Nat, NEW m \in Nat, NEW b \in Nat, NEW n \in Nat,
           a + m <= b \/ b + n <= a
    PROVE  (a .. a + m - 1) \cap (b .. b + n - 1) = {}
OBVIOUS

\* The ids a batch and a page claim are apart as soon as their ends are.
LEMMA ApartUnique ==
    ASSUME TypeInv, RidInv PROVE RowIdsUnique
<1>1. \A b \in Batches : startRid[b] \in Nat /\ Len(rows[b]) \in Nat
  BY DEF TypeInv, TypeOK
<1>2. \A i \in 1 .. Len(pages) : pages[i].start \in Nat /\ pages[i].count \in Nat
  BY PageFields DEF TypeInv
<1>3. ASSUME NEW b \in Batches, NEW c \in Batches, b # c, Unwritten(b), Unwritten(c)
      PROVE  RowIds(b) \cap RowIds(c) = {}
  <2>1. Finish(b) <= startRid[c] \/ Finish(c) <= startRid[b]
    BY <1>3 DEF RidInv, ApartInv
  <2>2. /\ startRid[b] \in Nat /\ Len(rows[b]) \in Nat
        /\ startRid[c] \in Nat /\ Len(rows[c]) \in Nat
    BY <1>1
  <2> QED  BY <2>1, <2>2, RangesApart DEF Finish, RowIds
<1>4. ASSUME NEW b \in Batches, NEW i \in 1 .. Len(pages), Unwritten(b)
      PROVE  RowIds(b) \cap PageIds(i) = {}
  <2>1. Finish(b) <= pages[i].start \/ PageFinish(i) <= startRid[b]
    BY <1>4 DEF RidInv, ApartInv
  <2>2. /\ startRid[b] \in Nat /\ Len(rows[b]) \in Nat
        /\ pages[i].start \in Nat /\ pages[i].count \in Nat
    BY <1>1, <1>2
  <2> QED  BY <2>1, <2>2, RangesApart DEF Finish, PageFinish, RowIds, PageIds
<1>5. ASSUME NEW i \in 1 .. Len(pages), NEW j \in 1 .. Len(pages), i # j
      PROVE  PageIds(i) \cap PageIds(j) = {}
  <2>1. PageFinish(i) <= pages[j].start \/ PageFinish(j) <= pages[i].start
    BY <1>5 DEF RidInv, ApartInv
  <2>2. /\ pages[i].start \in Nat /\ pages[i].count \in Nat
        /\ pages[j].start \in Nat /\ pages[j].count \in Nat
    BY <1>2
  <2> QED  BY <2>1, <2>2, RangesApart DEF PageFinish, PageIds
<1> QED  BY <1>3, <1>4, <1>5 DEF RowIdsUnique


\* Rows are added at row_count_ only, and a batch gives up its ids in the step
\* that writes them into the page index.
LEMMA RidStep ==
    TypeInv /\ PoolConserved /\ FilledInv /\ RidInv /\ [Next]_vars => RidInv'
<1> SUFFICES ASSUME TypeInv, PoolConserved, FilledInv, RidInv, [Next]_vars PROVE RidInv'
  OBVIOUS
<1>0. /\ ControlOK /\ Writers \subseteq Threads /\ Flushers \subseteq Threads
      /\ Writers \cap Flushers = {} /\ NoBatch \notin Batches
      /\ rows \in [Batches -> Seq(Row)] /\ free \subseteq Batches
  BY IngestAssumption DEF TypeInv, TypeOK, ControlOK, Threads
<1>a. \A b \in free : b \in Batches /\ rows[b] = <<>>
  BY <1>0 DEF RidInv, BlankInv
<1>b. \A w \in Writers : pc[w] = "cas" => ptr[w] \in Batches /\ rows[ptr[w]] = <<>>
  BY <1>0 DEF RidInv, BlankInv, ControlOK, PtrInv
<1>1. ASSUME NEW w \in Writers, InsertCall(w) PROVE RidInv'
  BY <1>0, <1>a, <1>b, <1>1, GotoFacts, RidSame DEF InsertCall, batchVars, pageVars
<1>2. ASSUME NEW w \in Writers, LoadActive(w) PROVE RidInv'
  BY <1>0, <1>a, <1>b, <1>2, GotoFacts, RidSame DEF LoadActive, batchVars, pageVars
<1>3. ASSUME NEW w \in Writers, GetFreeBatch(w) PROVE RidInv'
  BY <1>0, <1>a, <1>b, <1>3, GotoFacts, RidSame DEF GetFreeBatch, batchVars, pageVars
<1>4. ASSUME NEW w \in Writers, InstallBatch(w) PROVE RidInv'
  BY <1>0, <1>a, <1>b, <1>4, GotoFacts, RidSame DEF InstallBatch, batchVars, pageVars
<1>5. ASSUME NEW w \in Writers, AppendRetry(w) PROVE RidInv'
  BY <1>0, <1>a, <1>b, <1>5, GotoFacts, RidSame DEF AppendRetry, batchVars, pageVars
<1>6. ASSUME NEW w \in Writers, PushFull(w) PROVE RidInv'
  BY <1>0, <1>a, <1>b, <1>6, GotoFacts, RidSame, SMTT(30) DEF PushFull, batchVars, pageVars
<1>7. ASSUME NEW w \in Writers, CommitCall(w) PROVE RidInv'
  BY <1>0, <1>a, <1>b, <1>7, GotoFacts, RidSame DEF CommitCall, batchVars, pageVars
<1>8. ASSUME NEW w \in Writers, StampIndex(w) PROVE RidInv'
  BY <1>0, <1>a, <1>b, <1>8, GotoFacts, RidSame DEF StampIndex, batchVars, pageVars
<1>9. ASSUME NEW f \in Flushers, FlushBegin(f) PROVE RidInv'
  BY <1>0, <1>a, <1>b, <1>9, GotoFacts, RidSame DEF FlushBegin, batchVars, pageVars
<1>10. ASSUME NEW f \in Flushers, FlushDetach(f) PROVE RidInv'
  BY <1>0, <1>a, <1>b, <1>10, GotoFacts, RidSame DEF FlushDetach, batchVars, pageVars
<1>11. ASSUME NEW f \in Flushers, FlushPush(f) PROVE RidInv'
  BY <1>0, <1>a, <1>b, <1>11, GotoFacts, RidSame DEF FlushPush, batchVars, pageVars
<1>12. ASSUME NEW f \in Flushers, FlushPop(f) PROVE RidInv'
  BY <1>0, <1>a, <1>b, <1>12, GotoFacts, RidSame DEF FlushPop, batchVars, pageVars
<1>13. ASSUME NEW f \in Flushers, FlushReturn(f) PROVE RidInv'
  BY <1>0, <1>a, <1>b, <1>13, GotoFacts, RidSame DEF FlushReturn, batchVars, pageVars
<1>14. ASSUME NEW f \in Flushers, WriteFail(f) PROVE RidInv'
  BY <1>0, <1>a, <1>b, <1>14, GotoFacts, RidSame DEF WriteFail, batchVars, pageVars
<1>15. ASSUME NEW w \in Writers, StampActive(w) PROVE RidInv'
  <2>1. \A b \in Batches : Len(rows'[b]) = Len(rows[b]) /\ (rows'[b] = <<>> <=> rows[b] = <<>>)
    BY <1>0, <1>15, StampedRowsType DEF StampActive, TypeInv
  <2> QED  BY <1>0, <1>a, <1>b, <1>15, <2>1, GotoFacts, RidSame DEF StampActive, pageVars
<1>16. ASSUME NEW w \in Writers, StampQueue(w) PROVE RidInv'
  <2>1. \A b \in Batches : Len(rows'[b]) = Len(rows[b]) /\ (rows'[b] = <<>> <=> rows[b] = <<>>)
    BY <1>0, <1>16, StampedRowsType DEF StampQueue, TypeInv
  <2> QED  BY <1>0, <1>a, <1>b, <1>16, <2>1, GotoFacts, RidSame DEF StampQueue, pageVars
<1>17. ASSUME NEW w \in Writers, AppendRows(w) PROVE RidInv'
  <2>b. PICK b \in Batches : b = ptr[w]
    BY <1>17, AppendEffect
  <2>k. PICK k \in Nat : k = ToInsert(w, b)
    BY <1>17, <2>b, AppendEffect
  <2>1. /\ b \in Batches /\ active = b /\ b \notin free
        /\ \A t \in Threads : Owns(t) => ptr[t] # b
    BY <1>17, <2>b, AppendEffect DEF PoolConserved
  <2>2. k \in Nat /\ Len(rows[b]) \in Nat /\ Len(rows'[b]) = Len(rows[b]) + k
    BY <1>17, <2>b, <2>k, AppendEffect
  <2>3. rowCount \in Nat /\ \A c \in Batches : startRid[c] \in Nat /\ Len(rows[c]) \in Nat
    BY DEF TypeInv, TypeOK
  <2>4. \A c \in Batches \ {b} : rows'[c] = rows[c] /\ startRid'[c] = startRid[c]
    BY <1>17, <2>b, <2>k, AppendEffect
  <2>5. /\ startRid'[b] = BatchStart(b) /\ rowCount' = rowCount + k
        /\ UNCHANGED <<free, pages>> /\ active' \in {b, NoBatch}
    BY <1>17, <2>b, <2>k, AppendEffect
  <2>6. /\ pc'[w] \notin {"cas", "recycle"} /\ pc[w] = "lock"
        /\ \A t \in Threads \ {w} : pc'[t] = pc[t] /\ ptr'[t] = ptr[t]
    BY <1>17, <2>b, <2>k, AppendEffect
  <2>7. BatchStart(b) + Len(rows[b]) = rowCount
    <3>1. CASE rows[b] = <<>>  BY <2>3, <3>1 DEF BatchStart
    <3>2. CASE rows[b] # <<>>  BY <2>1, <3>2 DEF BatchStart, RidInv, ActiveInv, Finish
    <3> QED  BY <3>1, <3>2
  <2>8. Finish(b)' = rowCount' /\ \A c \in Batches \ {b} : Finish(c)' = Finish(c)
    <3>1. BatchStart(b) \in Nat
      BY <2>1, <2>3 DEF BatchStart
    <3>2. Finish(b)' = rowCount'
      BY <2>2, <2>3, <2>5, <2>7, <3>1, SMTT(30) DEF Finish
    <3> QED  BY <2>4, <3>2 DEF Finish
  <2>9. BlankInv'
    <3>1. \A c \in free' : rows'[c] = <<>>
      BY <1>a, <2>1, <2>4, <2>5
    <3>2. ASSUME NEW v \in Writers, pc'[v] = "cas" PROVE rows'[ptr'[v]] = <<>>
      <4>1. v # w /\ pc[v] = "cas" /\ ptr'[v] = ptr[v] /\ Owns(v)
        BY <1>0, <2>6, <3>2 DEF Owns
      <4>2. ptr[v] \in Batches \ {b} /\ rows[ptr[v]] = <<>>
        BY <1>0, <1>b, <2>1, <4>1
      <4> QED  BY <2>4, <4>1, <4>2
    <3> QED  BY <3>1, <3>2 DEF BlankInv
  <2>10. BelowInv'
    <3>1. \A c \in Batches \ {b} : rows[c] # <<>> => Finish(c) <= rowCount'
      BY <2>2, <2>3, <2>5 DEF RidInv, BelowInv, Finish
    <3>2. \A c \in Batches : rows'[c] # <<>> => Finish(c)' <= rowCount'
      <4>1. rowCount' \in Nat
        BY <2>2, <2>3, <2>5
      <4> QED  BY <2>4, <2>8, <3>1, <4>1
    <3>3. \A i \in 1 .. Len(pages) : PageFinish(i) <= rowCount'
      <4>1. \A i \in 1 .. Len(pages) : PageFinish(i) \in Nat
        BY PageFields DEF TypeInv
      <4> QED  BY <2>2, <2>3, <2>5, <4>1 DEF RidInv, BelowInv
    <3>4. \A i \in 1 .. Len(pages') : PageFinish(i)' <= rowCount'
      BY <2>5, <3>3 DEF PageFinish
    <3> QED  BY <3>2, <3>4 DEF BelowInv
  <2>11. /\ \A c \in Batches \ {b} : Unwritten(c)' => Unwritten(c) /\ Finish(c)' <= startRid'[b]
         /\ \A i \in 1 .. Len(pages') : PageFinish(i)' <= startRid'[b]
    <3>1. \A c \in Batches \ {b} : Unwritten(c)' => Unwritten(c)
      BY <1>0, <2>4, <2>6 DEF Unwritten
    <3>2. CASE rows[b] = <<>>
      <4>1. startRid'[b] = rowCount
        BY <2>5, <3>2 DEF BatchStart
      <4> QED  BY <2>5, <2>8, <3>1, <4>1 DEF Unwritten, RidInv, BelowInv, PageFinish
    <3>3. CASE rows[b] # <<>>
      <4>1. startRid'[b] = startRid[b]
        BY <2>5, <3>3 DEF BatchStart
      <4> QED  BY <2>1, <2>5, <2>8, <3>1, <3>3, <4>1 DEF RidInv, ActiveInv, PageFinish
    <3> QED  BY <3>2, <3>3
  <2>12. ActiveInv'
    <3>1. CASE active' = NoBatch  BY <1>0, <3>1 DEF ActiveInv
    <3>2. CASE active' = b        BY <2>8, <2>11, <3>2 DEF ActiveInv
    <3> QED  BY <2>5, <3>1, <3>2
  <2>13. ApartInv'
    BY <2>1, <2>4, <2>5, <2>8, <2>11 DEF RidInv, ApartInv, PageFinish
  <2> QED  BY <2>9, <2>10, <2>12, <2>13 DEF RidInv
<1>18. ASSUME NEW f \in Flushers, WritePage(f) PROVE RidInv'
  <2>b. PICK b \in Batches : b = ptr[f]
    BY <1>0, <1>18 DEF WritePage, ControlOK, PtrInv
  <2>n. PICK n \in Nat : n = Len(pages) + 1
    BY DEF TypeInv, TypeOK
  <2>1. /\ pc[f] = "write" /\ b # active
        /\ \A t \in Threads \ {f} : Owns(t) => ptr[t] # b
    BY <1>0, <1>18, <2>b DEF WritePage, Owns, PoolConserved
  <2>2. /\ pc'[f] = "recycle" /\ ptr'[f] = b
        /\ \A t \in Threads \ {f} : pc'[t] = pc[t] /\ ptr'[t] = ptr[t]
        /\ UNCHANGED <<active, free, startRid, rows, rowCount>>
    BY <1>0, <1>18, <2>b, GotoFacts DEF WritePage, batchVars
  <2>3. /\ Len(pages) \in Nat /\ Len(pages') = n
        /\ pages'[n].start = startRid[b] /\ pages'[n].count = Len(rows[b])
        /\ \A i \in 1 .. Len(pages) : pages'[i] = pages[i]
    BY <1>18, <2>b, <2>n DEF WritePage, TypeInv, TypeOK
  <2>4. /\ \A c \in Batches : Finish(c)' = Finish(c)
        /\ \A i \in 1 .. Len(pages) : PageFinish(i)' = PageFinish(i)
        /\ PageFinish(n)' = Finish(b)
    BY <2>2, <2>3 DEF Finish, PageFinish
  <2>5. ~Unwritten(b)' /\ \A c \in Batches : Unwritten(c)' => Unwritten(c)
    BY <1>0, <2>1, <2>2 DEF Unwritten
  <2>6. rows[b] # <<>> => Unwritten(b)
    BY <2>1 DEF Unwritten, Owns
  <2>7. rows[b] # <<>>
    BY <1>0, <2>b, <2>1 DEF FilledInv
  <2>8. BlankInv'
    BY <1>0, <1>a, <1>b, <2>2, <2>1 DEF BlankInv
  <2>9. 1 .. Len(pages') = 1 .. Len(pages) \cup {n}
    BY <2>3, <2>n
  <2>10. ActiveInv'
    BY <2>1, <2>2, <2>3, <2>4, <2>5, <2>6, <2>7, <2>9 DEF RidInv, ActiveInv
  <2>11. BelowInv'
    BY <2>1, <2>2, <2>3, <2>4, <2>7, <2>9 DEF RidInv, BelowInv
  <2>12. ApartInv'
    <3>1. \A c, d \in Batches : c # d /\ Unwritten(c)' /\ Unwritten(d)' =>
             Finish(c)' <= startRid'[d] \/ Finish(d)' <= startRid'[c]
      BY <2>2, <2>4, <2>5 DEF RidInv, ApartInv
    <3>2. \A c \in Batches, i \in 1 .. Len(pages') : Unwritten(c)' =>
             Finish(c)' <= pages'[i].start \/ PageFinish(i)' <= startRid'[c]
      BY <2>2, <2>3, <2>4, <2>5, <2>6, <2>7, <2>9 DEF RidInv, ApartInv
    <3>3. \A i, j \in 1 .. Len(pages') : i # j =>
             PageFinish(i)' <= pages'[j].start \/ PageFinish(j)' <= pages'[i].start
      BY <2>3, <2>4, <2>6, <2>7, <2>9 DEF RidInv, ApartInv
    <3> QED  BY <3>1, <3>2, <3>3 DEF ApartInv
  <2> QED  BY <2>8, <2>10, <2>11, <2>12 DEF RidInv
<1>19. ASSUME NEW f \in Flushers, Recycle(f) PROVE RidInv'
  <2>b. PICK b \in Batches : b = ptr[f]
    BY <1>0, <1>19 DEF Recycle, ControlOK, PtrInv
  <2>1. /\ pc[f] = "recycle" /\ b # active
        /\ \A t \in Threads \ {f} : Owns(t) => ptr[t] # b
    BY <1>0, <1>19, <2>b DEF Recycle, Owns, PoolConserved
  <2>2. /\ pc'[f] = "pop"
        /\ \A t \in Threads \ {f} : pc'[t] = pc[t] /\ ptr'[t] = ptr[t]
        /\ UNCHANGED <<active, startRid, rowCount, pages>> /\ free' = free \cup {b}
        /\ rows'[b] = <<>> /\ \A c \in Batches \ {b} : rows'[c] = rows[c]
    BY <1>0, <1>19, <2>b, GotoFacts DEF Recycle, pageVars
  <2>3. ~Unwritten(b)' /\ \A c \in Batches \ {b} : Unwritten(c)' => Unwritten(c)
    BY <1>0, <2>b, <2>1, <2>2 DEF Unwritten
  <2>4. /\ \A c \in Batches \ {b} : Finish(c)' = Finish(c)
        /\ \A i \in 1 .. Len(pages) : PageFinish(i)' = PageFinish(i)
    BY <2>2 DEF Finish, PageFinish
  <2>5. BlankInv'
    <3>1. \A c \in free' : rows'[c] = <<>>
      BY <1>a, <2>2
    <3>2. ASSUME NEW v \in Writers, pc'[v] = "cas" PROVE rows'[ptr'[v]] = <<>>
      <4>1. v # f /\ pc[v] = "cas" /\ ptr'[v] = ptr[v] /\ Owns(v)
        BY <1>0, <2>2, <3>2 DEF Owns
      <4> QED  BY <1>0, <1>b, <2>1, <2>2, <4>1
    <3> QED  BY <3>1, <3>2 DEF BlankInv
  <2>6. ActiveInv'
    BY <2>1, <2>2, <2>3, <2>4 DEF RidInv, ActiveInv
  <2>7. BelowInv'
    BY <2>1, <2>2, <2>4 DEF RidInv, BelowInv
  <2>8. ApartInv'
    BY <2>1, <2>2, <2>3, <2>4 DEF RidInv, ApartInv
  <2> QED  BY <2>5, <2>6, <2>7, <2>8 DEF RidInv
<1>20. CASE UNCHANGED vars
  BY <1>0, <1>a, <1>b, <1>20, RidSame DEF vars, batchVars, pageVars, threadVars
<1> QED
  BY <1>1, <1>2, <1>3, <1>4, <1>5, <1>6, <1>7, <1>8, <1>9, <1>10, <1>11, <1>12, <1>13, <1>14, <1>15, <1>16, <1>17, <1>18, <1>19, <1>20 DEF Next, InsertStep, CommitStep, FlushStep

\* Whatever the number of sessions and flushers, and with failed writes, two
\* rows of a table never get the same row id.
THEOREM RowIdsSafe == Spec => []RowIdsUnique
<1>1. Init => TypeInv
  BY IngestAssumption DEF Init, TypeInv, TypeOK, PtrInv, SizeInv, FileInv, Threads,
     WriterPC, FlusherPC, Stamps
<1>2. Init => PoolConserved
  BY IngestAssumption DEF Init, PoolConserved, Queued, Owns
<1>3. Init => FilledInv
  BY DEF Init, FilledInv
<1>4. Init => RidInv
  BY IngestAssumption DEF Init, RidInv, BlankInv, ActiveInv, BelowInv, ApartInv, Unwritten, Threads
<1>5. TypeInv /\ RidInv => RowIdsUnique
  BY ApartUnique
<1> QED  BY <1>1, <1>2, <1>3, <1>4, <1>5, TypeStep, PoolStep, FilledStep, RidStep, PTL DEF Spec

-----------------------------------------------------------------------------
(* What becomes of a row and of its id between insert_rows and the page.   *)

\* Where a session is once commit_rows has begun to stamp.
StampPC == {"stampQueue", "stampIndex", "done"}

\* The batches that wait to be recycled are the same before and after.
SameRecycling ==
    \A t \in Threads : pc[t] = "recycle" \/ pc'[t] = "recycle" =>
                           pc'[t] = pc[t] /\ ptr'[t] = ptr[t]

SameStamping == \A w \in Writers : pc[w] \in StampPC => pc'[w] \in StampPC

\* A step that only moves batches about or takes a thread on.
Quiet ==
    /\ UNCHANGED <<startRid, rows, rowCount, file, mapped, pages, vindex,
                   sent, writeSet, verdict, failures>>
    /\ SameRecycling /\ SameStamping

\* The control state of a TypeInv state, and what is assumed of the threads.
LEMMA Control ==
    ASSUME TypeInv
    PROVE  /\ ControlOK /\ Writers \subseteq Threads /\ Flushers \subseteq Threads
           /\ Writers \cap Flushers = {} /\ NoBatch \notin Batches
BY IngestAssumption DEF TypeInv, TypeOK, ControlOK, Threads

\* Only these actions touch rows, ids, pages, the index or the recycling.
LEMMA StepKinds ==
    ASSUME TypeInv, [Next]_vars
    PROVE  \/ Quiet
           \/ \E w \in Writers : AppendRows(w) \/ CommitCall(w) \/ CommitStep(w)
           \/ \E f \in Flushers : WritePage(f) \/ WriteFail(f) \/ Recycle(f)
<1>0. /\ ControlOK /\ Writers \subseteq Threads /\ Flushers \subseteq Threads
      /\ Writers \cap Flushers = {}
  BY Control
<1> USE DEF Quiet, SameRecycling, SameStamping, StampPC, batchVars, pageVars
<1>1. ASSUME NEW w \in Writers, InsertCall(w) PROVE Quiet
  BY <1>0, <1>1, GotoFacts DEF InsertCall
<1>2. ASSUME NEW w \in Writers, LoadActive(w) PROVE Quiet
  BY <1>0, <1>2, GotoFacts DEF LoadActive
<1>3. ASSUME NEW w \in Writers, GetFreeBatch(w) PROVE Quiet
  BY <1>0, <1>3, GotoFacts DEF GetFreeBatch
<1>4. ASSUME NEW w \in Writers, InstallBatch(w) PROVE Quiet
  BY <1>0, <1>4, GotoFacts DEF InstallBatch
<1>5. ASSUME NEW w \in Writers, AppendRetry(w) PROVE Quiet
  BY <1>0, <1>5, GotoFacts DEF AppendRetry
<1>6. ASSUME NEW w \in Writers, PushFull(w) PROVE Quiet
  BY <1>0, <1>6, GotoFacts DEF PushFull
<1>7. ASSUME NEW f \in Flushers, FlushBegin(f) PROVE Quiet
  BY <1>0, <1>7, GotoFacts DEF FlushBegin
<1>8. ASSUME NEW f \in Flushers, FlushDetach(f) PROVE Quiet
  BY <1>0, <1>8, GotoFacts DEF FlushDetach
<1>9. ASSUME NEW f \in Flushers, FlushPush(f) PROVE Quiet
  BY <1>0, <1>9, GotoFacts DEF FlushPush
<1>10. ASSUME NEW f \in Flushers, FlushPop(f) PROVE Quiet
  BY <1>0, <1>10, GotoFacts DEF FlushPop
<1>11. ASSUME NEW f \in Flushers, FlushReturn(f) PROVE Quiet
  BY <1>0, <1>11, GotoFacts DEF FlushReturn
<1>12. CASE UNCHANGED vars
  BY <1>12 DEF vars, threadVars
<1> QED
  BY <1>1, <1>2, <1>3, <1>4, <1>5, <1>6, <1>7, <1>8, <1>9, <1>10, <1>11, <1>12
  DEF Next, InsertStep, FlushStep

-----------------------------------------------------------------------------
(* Stamps.                                                                 *)

\* What NoForeignStamp says of one row, of sessions at p with verdicts v.
StampOK(r, p, v) ==
    IF r.w \in AutoWriters THEN r.ts = "committed"
    ELSE \/ r.ts = "open"
         \/ p[r.w] \in StampPC /\ r.ts = v[r.w]

\* NoForeignStamp speaks of the rows one by one.
LEMMA StampRows ==
    NoForeignStamp <=> /\ \A b \in Batches : \A i \in 1 .. Len(rows[b]) : StampOK(rows[b][i], pc, verdict)
                       /\ \A e \in vindex : StampOK(e.row, pc, verdict)
BY DEF NoForeignStamp, StampOK, StampPC

\* A row keeps its good stamp while its session stamps on with its verdict.
LEMMA StampStays ==
    ASSUME NEW r \in Row, StampOK(r, pc, verdict), SameStamping,
           \A w \in Writers : pc[w] \in StampPC => verdict'[w] = verdict[w]
    PROVE  StampOK(r, pc', verdict')
<1>1. r.w \in Writers
  BY DEF Row
<1> QED  BY <1>1 DEF StampOK, SameStamping

\* commit_rows of session w gives w's own open rows w's verdict.
LEMMA StampedOK ==
    ASSUME TypeInv, NEW w \in Writers, NEW rid, NEW r \in Row, StampOK(r, pc, verdict), SameStamping,
           pc'[w] \in StampPC, verdict' = verdict, NEW s, s = Stamped(w, rid, r)
    PROVE  StampOK(s, pc', verdict')
<1>1. StampOK(r, pc', verdict')
  BY StampStays
<1>2. CASE rid \in writeSet[w] /\ r.w = w /\ r.ts = "open"
  <2>1. s.w = w /\ s.ts = verdict[w] /\ w \notin AutoWriters
    BY <1>2 DEF Stamped, Row, StampOK
  <2> QED  BY <2>1 DEF StampOK
<1>3. CASE ~(rid \in writeSet[w] /\ r.w = w /\ r.ts = "open")
  BY <1>1, <1>3 DEF Stamped
<1> QED  BY <1>2, <1>3

\* New rows are open, or committed when the session has no transaction.
LEMMA NewRowOK ==
    ASSUME NEW w \in Writers, NEW k \in Nat, NEW i \in 1 .. k, NEW r, r = NewRows(w, k)[i]
    PROVE  StampOK(r, pc', verdict')
BY DEF NewRows, StampOK

\* What AppendRows does to the rows of the batch, one by one.
LEMMA AppendedRow ==
    ASSUME TypeInv, NEW w \in Writers, AppendRows(w)
    PROVE  /\ \A i \in 1 .. Len(rows[ptr[w]]) : rows'[ptr[w]][i] = rows[ptr[w]][i]
           /\ \A i \in 1 .. ToInsert(w, ptr[w]) :
                 rows'[ptr[w]][Len(rows[ptr[w]]) + i] = NewRows(w, ToInsert(w, ptr[w]))[i]
<1>b. PICK b \in Batches : b = ptr[w]
  BY AppendEffect
<1>k. PICK k \in Nat : k = ToInsert(w, b)
  BY <1>b, AppendEffect
<1>1. rows'[b] = rows[b] \o NewRows(w, k)
  BY <1>b, <1>k DEF AppendRows, TypeInv, TypeOK
<1>2. NewRows(w, k) \in Seq(Row) /\ Len(NewRows(w, k)) = k /\ rows[b] \in Seq(Row)
  BY NewRowsType DEF TypeInv, TypeOK
<1> DEFINE new == NewRows(w, k)
<1> HIDE DEF new
<1>3. /\ \A i \in 1 .. Len(rows[b]) : (rows[b] \o new)[i] = rows[b][i]
      /\ \A i \in 1 .. k : (rows[b] \o new)[Len(rows[b]) + i] = new[i]
  BY <1>2 DEF new
<1> QED  BY <1>b, <1>k, <1>1, <1>3 DEF new

\* No step gives a row another session's verdict.
LEMMA StampStep ==
    TypeInv /\ NoForeignStamp /\ [Next]_vars => NoForeignStamp'
<1> SUFFICES ASSUME TypeInv, NoForeignStamp, [Next]_vars PROVE NoForeignStamp'
  OBVIOUS
<1>0. /\ ControlOK /\ Writers \subseteq Threads /\ Flushers \subseteq Threads
      /\ Writers \cap Flushers = {}
  BY Control
<1>1. /\ \A b \in Batches : \A i \in 1 .. Len(rows[b]) :
            rows[b][i] \in Row /\ StampOK(rows[b][i], pc, verdict)
      /\ \A e \in vindex : e.row \in Row /\ StampOK(e.row, pc, verdict)
  BY StampRows, ElementOfSeq DEF TypeInv, TypeOK
<1>2. ASSUME SameStamping, UNCHANGED verdict
      PROVE  \A r \in Row : StampOK(r, pc, verdict) => StampOK(r, pc', verdict')
  BY <1>2, StampStays
<1>3. ASSUME \A b \in Batches : \A i \in 1 .. Len(rows'[b]) : StampOK(rows'[b][i], pc', verdict'),
             \A e \in vindex' : StampOK(e.row, pc', verdict')
      PROVE  NoForeignStamp'
  BY <1>3 DEF NoForeignStamp, StampOK, StampPC
<1>4. CASE Quiet
  BY <1>1, <1>2, <1>3, <1>4 DEF Quiet
<1>5. ASSUME NEW w \in Writers, AppendRows(w) PROVE NoForeignStamp'
  <2>b. PICK b \in Batches : b = ptr[w]
    BY <1>5, AppendEffect
  <2>k. PICK k \in Nat : k = ToInsert(w, b)
    BY <1>5, <2>b, AppendEffect
  <2>1. SameStamping /\ UNCHANGED <<verdict, vindex>>
    BY <1>0, <1>5, AppendEffect DEF SameStamping, StampPC, AppendRows
  <2>2. \A c \in Batches \ {b} : rows'[c] = rows[c]
    BY <1>5, <2>b, AppendEffect
  <2>3. ASSUME NEW i \in 1 .. Len(rows'[b]) PROVE StampOK(rows'[b][i], pc', verdict')
    <3>1. Len(rows[b]) \in Nat /\ Len(rows'[b]) = Len(rows[b]) + k
      BY <1>5, <2>b, <2>k, AppendEffect
    <3>2. CASE i <= Len(rows[b])
      <4>1. i \in 1 .. Len(rows[b]) /\ rows'[b][i] = rows[b][i]
        BY <1>5, <2>b, <2>3, <3>1, <3>2, AppendedRow
      <4> QED  BY <1>1, <1>2, <2>1, <4>1
    <3>3. CASE i > Len(rows[b])
      <4>0. i - Len(rows[b]) \in 1 .. k /\ i = Len(rows[b]) + (i - Len(rows[b]))
        BY <3>1, <3>3
      <4>1. PICK j \in 1 .. k : i = Len(rows[b]) + j
        BY <4>0
      <4>2. rows'[b][i] = NewRows(w, k)[j]
        BY <1>5, <2>b, <2>k, <4>1, AppendedRow
      <4> QED  BY <4>2, NewRowOK
    <3>4. i \in Nat
      BY <3>1
    <3> QED  BY <3>1, <3>2, <3>3, <3>4
  <2> QED  BY <1>1, <1>2, <1>3, <2>1, <2>2, <2>3
<1>6. ASSUME NEW w \in Writers, CommitCall(w) PROVE NoForeignStamp'
  <2>1. SameStamping /\ UNCHANGED <<rows, vindex>>
    BY <1>0, <1>6, GotoFacts DEF SameStamping, StampPC, CommitCall, batchVars
  <2>2. \A v \in Writers : pc[v] \in StampPC => verdict'[v] = verdict[v]
    BY <1>6 DEF CommitCall, StampPC, TypeInv, TypeOK
  <2> QED  BY <1>1, <1>3, <2>1, <2>2, StampStays
<1>7. ASSUME NEW w \in Writers, StampActive(w) PROVE NoForeignStamp'
  <2>1. SameStamping /\ pc'[w] \in StampPC /\ UNCHANGED <<vindex, verdict>>
    BY <1>0, <1>7, GotoFacts DEF SameStamping, StampPC, StampActive
  <2>2. ASSUME NEW b \in Batches, NEW i \in 1 .. Len(rows'[b]) PROVE StampOK(rows'[b][i], pc', verdict')
    <3>1. CASE b = active
      <4>1. rows'[b] = StampedRows(w, b)
        BY <1>7, <3>1, Control DEF StampActive, TypeInv, TypeOK
      <4>2. i \in 1 .. Len(rows[b]) /\ rows'[b][i] = Stamped(w, startRid[b] + i - 1, rows[b][i])
        BY <2>2, <4>1, StampedRowsType DEF TypeInv, StampedRows
      <4> QED  BY <1>1, <2>1, <4>2, StampedOK
    <3>2. CASE b # active
      <4>1. rows'[b] = rows[b]
        BY <1>7, <3>2 DEF StampActive, TypeInv, TypeOK
      <4> QED  BY <1>1, <1>2, <2>1, <2>2, <4>1
    <3> QED  BY <3>1, <3>2
  <2> QED  BY <1>1, <1>2, <1>3, <2>1, <2>2
<1>8. ASSUME NEW w \in Writers, StampQueue(w) PROVE NoForeignStamp'
  <2>1. SameStamping /\ pc'[w] \in StampPC /\ UNCHANGED <<vindex, verdict>>
    BY <1>0, <1>8, GotoFacts DEF SameStamping, StampPC, StampQueue
  <2>2. ASSUME NEW b \in Batches, NEW i \in 1 .. Len(rows'[b]) PROVE StampOK(rows'[b][i], pc', verdict')
    <3>1. CASE rows'[b] = StampedRows(w, b)
      <4>1. i \in 1 .. Len(rows[b]) /\ rows'[b][i] = Stamped(w, startRid[b] + i - 1, rows[b][i])
        BY <2>2, <3>1, StampedRowsType DEF TypeInv, StampedRows
      <4> QED  BY <1>1, <2>1, <4>1, StampedOK
    <3>2. CASE rows'[b] = rows[b]
      BY <1>1, <1>2, <2>1, <2>2, <3>2
    <3> QED  BY <1>8, <3>1, <3>2 DEF StampQueue
  <2> QED  BY <1>1, <1>2, <1>3, <2>1, <2>2
<1>9. ASSUME NEW w \in Writers, StampIndex(w) PROVE NoForeignStamp'
  <2>1. SameStamping /\ pc'[w] \in StampPC /\ UNCHANGED <<rows, verdict>>
    BY <1>0, <1>9, GotoFacts DEF SameStamping, StampPC, StampIndex, batchVars
  <2>2. ASSUME NEW e \in vindex' PROVE StampOK(e.row, pc', verdict')
    <3>1. PICK d \in vindex : e = [rid |-> d.rid, row |-> Stamped(w, d.rid, d.row)]
      BY <1>9 DEF StampIndex
    <3>2. e.row = Stamped(w, d.rid, d.row)
      BY <3>1
    <3> QED  BY <1>1, <2>1, <3>2, StampedOK
  <2> QED  BY <1>1, <1>2, <1>3, <2>1, <2>2
<1>10. ASSUME NEW f \in Flushers, WritePage(f) PROVE NoForeignStamp'
  <2>b. PICK b \in Batches : b = ptr[f]
    BY <1>0, <1>10 DEF WritePage, ControlOK, PtrInv
  <2>1. SameStamping /\ UNCHANGED <<rows, verdict>>
    BY <1>0, <1>10, GotoFacts DEF SameStamping, StampPC, WritePage, batchVars
  <2>2. ASSUME NEW e \in vindex' PROVE e.row \in Row /\ StampOK(e.row, pc, verdict)
    <3>1. CASE e \in vindex
      BY <1>1, <3>1
    <3>2. CASE \E i \in 1 .. Len(rows[b]) : e = [rid |-> startRid[b] + i - 1, row |-> rows[b][i]]
      BY <1>1, <3>2
    <3> QED  BY <1>10, <2>b, <3>1, <3>2 DEF WritePage
  <2> QED  BY <1>1, <1>2, <1>3, <2>1, <2>2
<1>11. ASSUME NEW f \in Flushers, WriteFail(f) PROVE NoForeignStamp'
  <2>1. SameStamping /\ UNCHANGED <<rows, vindex, verdict>>
    BY <1>0, <1>11, GotoFacts DEF SameStamping, StampPC, WriteFail, batchVars
  <2> QED  BY <1>1, <1>2, <1>3, <2>1
<1>12. ASSUME NEW f \in Flushers, Recycle(f) PROVE NoForeignStamp'
  <2>1. SameStamping /\ UNCHANGED <<vindex, verdict>>
    BY <1>0, <1>12, GotoFacts DEF SameStamping, StampPC, Recycle
  <2>2. \A b \in Batches : rows'[b] = <<>> \/ rows'[b] = rows[b]
    BY <1>12 DEF Recycle, TypeInv, TypeOK
  <2>3. \A b \in Batches : \A i \in 1 .. Len(rows'[b]) : StampOK(rows'[b][i], pc', verdict')
    BY <1>1, <1>2, <2>1, <2>2
  <2> QED  BY <1>1, <1>2, <1>3, <2>1, <2>3
<1> QED
  BY <1>4, <1>5, <1>6, <1>7, <1>8, <1>9, <1>10, <1>11, <1>12, StepKinds DEF CommitStep

\* Whoever commits or rolls back at the same time, in whatever order the
\* batches, the queue and the index are stamped, no row carries another
\* session's verdict and none a verdict before its own commit_rows.
THEOREM StampsSafe == Spec => []NoForeignStamp
<1>1. Init => TypeInv
  BY IngestAssumption DEF Init, TypeInv, TypeOK, PtrInv, SizeInv, FileInv, Threads,
     WriterPC, FlusherPC, Stamps
<1>2. Init => NoForeignStamp
  BY DEF Init, NoForeignStamp
<1> QED  BY <1>1, <1>2, TypeStep, StampStep, PTL DEF Spec

-----------------------------------------------------------------------------
(* Where rows live.                                                        *)

\* Every batch that is some row's only home keeps its ids and its rows, but
\* for their stamps.
KeepsRows ==
    \A b \in Batches : Unwritten(b) =>
        /\ Unwritten(b)' /\ startRid'[b] = startRid[b] /\ Len(rows'[b]) = Len(rows[b])
        /\ \A i \in 1 .. Len(rows[b]) : /\ rows'[b][i].w = rows[b][i].w
                                        /\ rows'[b][i].n = rows[b][i].n

\* Apart from an append and a page write no step moves a row.
Unmoved ==
    /\ KeepsRows
    /\ UNCHANGED <<rowCount, pages, file, sent, writeSet>>
    /\ failures' = 0 => failures = 0 /\ mapped' = mapped

\* Stamping the rows of a batch keeps them where and whose they are.
LEMMA StampedKeep ==
    ASSUME TypeInv, NEW w \in Writers, UNCHANGED startRid, SameRecycling,
           \A b \in Batches : rows'[b] = rows[b] \/ rows'[b] = StampedRows(w, b)
    PROVE  KeepsRows
<1>1. ASSUME NEW b \in Batches, rows'[b] = StampedRows(w, b)
      PROVE  /\ Len(rows'[b]) = Len(rows[b])
             /\ \A i \in 1 .. Len(rows[b]) : /\ rows'[b][i].w = rows[b][i].w
                                             /\ rows'[b][i].n = rows[b][i].n
  <2>1. Len(rows'[b]) = Len(rows[b])
    BY <1>1, StampedRowsType DEF TypeInv
  <2>2. ASSUME NEW i \in 1 .. Len(rows[b])
        PROVE  rows'[b][i].w = rows[b][i].w /\ rows'[b][i].n = rows[b][i].n
    <3>1. rows[b][i] \in Row
      BY ElementOfSeq DEF TypeInv, TypeOK
    <3>2. rows'[b][i] = Stamped(w, startRid[b] + i - 1, rows[b][i])
      BY <1>1 DEF StampedRows
    <3> QED  BY <3>1, <3>2, StampedType DEF TypeInv
  <2> QED  BY <2>1, <2>2
<1>2. \A b \in Batches : rows[b] \in Seq(Row)
  BY DEF TypeInv, TypeOK
<1>3. \A b \in Batches : rows[b] # <<>> => rows'[b] # <<>>
  BY <1>2, StampedRowsType DEF TypeInv
<1> QED  BY <1>1, <1>3 DEF KeepsRows, Unwritten, SameRecycling

\* Which steps move rows.
LEMMA MoveKinds ==
    ASSUME TypeInv, [Next]_vars
    PROVE  \/ Unmoved
           \/ \E w \in Writers : AppendRows(w)
           \/ \E f \in Flushers : WritePage(f)
<1>0. /\ ControlOK /\ Writers \subseteq Threads /\ Flushers \subseteq Threads
      /\ Writers \cap Flushers = {}
  BY Control
<1>1. CASE Quiet
  BY <1>1 DEF Quiet, Unmoved, KeepsRows, Unwritten, SameRecycling
<1>2. ASSUME NEW w \in Writers, CommitCall(w) PROVE Unmoved
  <2>1. SameRecycling
    BY <1>0, <1>2, GotoFacts DEF CommitCall, SameRecycling
  <2> QED  BY <1>2, <2>1 DEF CommitCall, batchVars, pageVars, Unmoved, KeepsRows, Unwritten, SameRecycling
<1>3. ASSUME NEW w \in Writers, StampActive(w) PROVE Unmoved
  <2>1. SameRecycling
    BY <1>0, <1>3, GotoFacts DEF StampActive, SameRecycling
  <2>2. \A b \in Batches : rows'[b] = rows[b] \/ rows'[b] = StampedRows(w, b)
    BY <1>3 DEF StampActive, TypeInv, TypeOK
  <2>3. KeepsRows
    BY <1>3, <2>1, <2>2, StampedKeep DEF StampActive
  <2> QED  BY <1>3, <2>3 DEF StampActive, pageVars, Unmoved
<1>4. ASSUME NEW w \in Writers, StampQueue(w) PROVE Unmoved
  <2>1. SameRecycling
    BY <1>0, <1>4, GotoFacts DEF StampQueue, SameRecycling
  <2>2. \A b \in Batches : rows'[b] = rows[b] \/ rows'[b] = StampedRows(w, b)
    BY <1>4 DEF StampQueue
  <2>3. KeepsRows
    BY <1>4, <2>1, <2>2, StampedKeep DEF StampQueue
  <2> QED  BY <1>4, <2>3 DEF StampQueue, pageVars, Unmoved
<1>5. ASSUME NEW w \in Writers, StampIndex(w) PROVE Unmoved
  <2>1. SameRecycling
    BY <1>0, <1>5, GotoFacts DEF StampIndex, SameRecycling
  <2> QED  BY <1>5, <2>1 DEF StampIndex, batchVars, pageVars, Unmoved, KeepsRows, Unwritten, SameRecycling
<1>6. ASSUME NEW f \in Flushers, WriteFail(f) PROVE Unmoved
  <2>1. SameRecycling
    BY <1>0, <1>6, GotoFacts DEF WriteFail, SameRecycling
  <2>2. KeepsRows
    BY <1>6, <2>1 DEF WriteFail, KeepsRows, Unwritten, SameRecycling
  <2>3. failures' # 0
    BY <1>6 DEF WriteFail, TypeInv, TypeOK
  <2> QED  BY <1>6, <2>2, <2>3 DEF WriteFail, Unmoved
<1>7. ASSUME NEW f \in Flushers, Recycle(f) PROVE Unmoved
  <2>1. /\ pc[f] = "recycle" /\ pc'[f] = "pop"
        /\ \A t \in Threads \ {f} : pc'[t] = pc[t] /\ ptr'[t] = ptr[t]
        /\ \A c \in Batches : c # ptr[f] => rows'[c] = rows[c]
    BY <1>0, <1>7, GotoFacts DEF Recycle, TypeInv, TypeOK
  <2>2. KeepsRows
    BY <1>0, <1>7, <2>1 DEF Recycle, KeepsRows, Unwritten
  <2> QED  BY <1>7, <2>2 DEF Recycle, pageVars, Unmoved
<1> QED
  BY <1>1, <1>2, <1>3, <1>4, <1>5, <1>6, <1>7, StepKinds DEF CommitStep

\* The rows of an append go to the ids from row_count_ on.
LEMMA AppendAt ==
    ASSUME TypeInv, RidInv, NEW w \in Writers, AppendRows(w)
    PROVE  BatchStart(ptr[w]) \in Nat /\ BatchStart(ptr[w]) + Len(rows[ptr[w]]) = rowCount
<1>b. PICK b \in Batches : b = ptr[w] /\ active = b
  BY AppendEffect
<1>1. rowCount \in Nat /\ startRid[b] \in Nat /\ Len(rows[b]) \in Nat
  BY DEF TypeInv, TypeOK
<1>2. CASE rows[b] = <<>>
  BY <1>b, <1>1, <1>2 DEF BatchStart
<1>3. CASE rows[b] # <<>>
  BY <1>b, <1>1, <1>3 DEF BatchStart, RidInv, ActiveInv, Finish
<1> QED  BY <1>2, <1>3

\* An append leaves the homes of all earlier rows, and the batch it goes to
\* becomes the only home of the new ones.
LEMMA AppendHomes ==
    ASSUME TypeInv, PoolConserved, NEW w \in Writers, AppendRows(w),
           NEW b \in Batches, b = ptr[w]
    PROVE  /\ \A c \in Batches \ {b} : Unwritten(c) => Unwritten(c)'
           /\ rows'[b] # <<>> => Unwritten(b)'
<1>b. active = b
  BY AppendEffect
<1>1. /\ \A c \in Batches \ {b} : rows'[c] = rows[c]
      /\ pc[w] = "lock" /\ pc'[w] # "recycle"
      /\ \A t \in Threads \ {w} : pc'[t] = pc[t] /\ ptr'[t] = ptr[t]
  BY <1>b, AppendEffect
<1>2. \A t \in Threads : pc[t] = "recycle" => ptr[t] # b
  BY <1>b DEF PoolConserved, Owns
<1> QED  BY <1>b, <1>1, <1>2 DEF Unwritten

\* A page write moves the rows of one batch onto a new last page.
LEMMA WriteEffect ==
    ASSUME TypeInv, PoolConserved, NEW f \in Flushers, WritePage(f)
    PROVE  /\ ptr[f] \in Batches
           /\ UNCHANGED <<startRid, rows, rowCount, sent, writeSet, failures>>
           /\ mapped' = mapped + 1 /\ file' = ExtendedFile(ptr[f])
           /\ Len(pages) \in Nat /\ Len(pages') = Len(pages) + 1
           /\ \A i \in 1 .. Len(pages) : pages'[i] = pages[i]
           /\ pages'[Len(pages) + 1] = [start |-> startRid[ptr[f]], count |-> Len(rows[ptr[f]]),
                                        page |-> mapped + 1]
           /\ \A c \in Batches \ {ptr[f]} : Unwritten(c) => Unwritten(c)'
<1>0. /\ ControlOK /\ f \in Threads
  BY Control
<1>b. PICK b \in Batches : b = ptr[f]
  BY <1>0 DEF WritePage, ControlOK, PtrInv
<1>1. /\ pc'[f] = "recycle" /\ ptr'[f] = b
      /\ \A t \in Threads \ {f} : pc'[t] = pc[t] /\ ptr'[t] = ptr[t]
  BY <1>0, <1>b, GotoFacts DEF WritePage
<1>2. \A c \in Batches \ {b} : Unwritten(c) => Unwritten(c)'
  BY <1>0, <1>1 DEF WritePage, batchVars, Unwritten
<1>3. pages' = Append(pages, [start |-> startRid[b], count |-> Len(rows[b]), page |-> mapped + 1])
  BY <1>b DEF WritePage
<1>4. /\ Len(pages) \in Nat /\ Len(pages') = Len(pages) + 1
      /\ \A i \in 1 .. Len(pages) : pages'[i] = pages[i]
      /\ pages'[Len(pages) + 1] = [start |-> startRid[b], count |-> Len(rows[b]), page |-> mapped + 1]
  BY <1>3 DEF TypeInv, TypeOK
<1> QED  BY <1>b, <1>2, <1>4 DEF WritePage, batchVars

-----------------------------------------------------------------------------
(* No id is skipped.                                                       *)

\* Every id below row_count_ belongs to a page or to a batch on its way to one.
CoverInv ==
    \A x \in 0 .. rowCount - 1 :
        \/ \E i \in 1 .. Len(pages) : x \in PageIds(i)
        \/ \E b \in Batches : Unwritten(b) /\ x \in RowIds(b)

\* A batch gives up its ids only to a page, and new ids are taken in order.
LEMMA CoverStep ==
    TypeInv /\ PoolConserved /\ RidInv /\ CoverInv /\ [Next]_vars => CoverInv'
<1> SUFFICES ASSUME TypeInv, PoolConserved, RidInv, CoverInv, [Next]_vars PROVE CoverInv'
  OBVIOUS
<1>1. CASE Unmoved
  <2>1. \A i \in 1 .. Len(pages) : PageIds(i)' = PageIds(i)
    BY <1>1 DEF Unmoved, PageIds
  <2>2. \A b \in Batches : Unwritten(b) => Unwritten(b)' /\ RowIds(b)' = RowIds(b)
    BY <1>1 DEF Unmoved, KeepsRows, RowIds
  <2> QED  BY <1>1, <2>1, <2>2 DEF Unmoved, CoverInv
<1>2. ASSUME NEW w \in Writers, AppendRows(w) PROVE CoverInv'
  <2>b. PICK b \in Batches : b = ptr[w]
    BY <1>2, AppendEffect
  <2>k. PICK k \in Nat : k = ToInsert(w, b)
    BY <1>2, <2>b, AppendEffect
  <2>1. /\ UNCHANGED pages /\ rowCount' = rowCount + k /\ rowCount \in Nat
        /\ \A c \in Batches \ {b} : rows'[c] = rows[c] /\ startRid'[c] = startRid[c]
        /\ Len(rows[b]) \in Nat /\ Len(rows'[b]) = Len(rows[b]) + k
        /\ startRid'[b] = BatchStart(b)
    BY <1>2, <2>b, <2>k, AppendEffect DEF TypeInv, TypeOK
  <2>2. BatchStart(b) \in Nat /\ BatchStart(b) + Len(rows[b]) = rowCount
    BY <1>2, <2>b, AppendAt
  <2>3. /\ \A c \in Batches \ {b} : Unwritten(c) => Unwritten(c)'
        /\ rows'[b] # <<>> => Unwritten(b)'
    BY <1>2, <2>b, AppendHomes
  <2>4. \A x \in BatchStart(b) .. rowCount' - 1 : Unwritten(b)' /\ x \in RowIds(b)'
    <3>1. RowIds(b)' = BatchStart(b) .. rowCount' - 1
      BY <2>1, <2>2, SMTT(30) DEF RowIds
    <3>2. Len(rows'[b]) # 0 => rows'[b] # <<>>
      OBVIOUS
    <3>3. (\E x \in BatchStart(b) .. rowCount' - 1 : TRUE) => Len(rows'[b]) # 0
      BY <2>1, <2>2
    <3> QED  BY <2>3, <3>1, <3>2, <3>3
  <2>5. ASSUME NEW x \in 0 .. rowCount' - 1
        PROVE  \/ \E i \in 1 .. Len(pages') : x \in PageIds(i)'
               \/ \E c \in Batches : Unwritten(c)' /\ x \in RowIds(c)'
    <3>1. CASE x >= BatchStart(b)
      BY <2>1, <2>2, <2>4, <3>1
    <3>2. CASE x < BatchStart(b)
      <4>1. x \in 0 .. rowCount - 1
        BY <2>1, <2>2, <3>2, SMTT(30)
      <4>2. CASE \E i \in 1 .. Len(pages) : x \in PageIds(i)
        BY <2>1, <4>2 DEF PageIds
      <4>3. ASSUME NEW c \in Batches, Unwritten(c), x \in RowIds(c)
            PROVE  c # b /\ Unwritten(c)' /\ x \in RowIds(c)'
        <5>1. c # b
          BY <2>1, <3>2, <4>3 DEF Unwritten, BatchStart, RowIds, TypeInv, TypeOK
        <5> QED  BY <2>1, <2>3, <4>3, <5>1 DEF RowIds
      <4> QED  BY <4>1, <4>2, <4>3 DEF CoverInv
    <3> QED  BY <2>1, <2>2, <3>1, <3>2
  <2> QED  BY <2>5 DEF CoverInv
<1>3. ASSUME NEW f \in Flushers, WritePage(f) PROVE CoverInv'
  <2>b. PICK b \in Batches : b = ptr[f]
    BY <1>3, WriteEffect
  <2>0. Len(pages) + 1 \in Nat /\ Len(pages) + 1 \in 1 .. Len(pages')
    <3>1. Len(pages) \in Nat /\ Len(pages') = Len(pages) + 1
      BY <1>3, WriteEffect
    <3> QED  BY <3>1
  <2>n. PICK n \in Nat : n = Len(pages) + 1 /\ n \in 1 .. Len(pages')
    BY <2>0
  <2>1. /\ UNCHANGED <<startRid, rows, rowCount>> /\ 1 .. Len(pages) \subseteq 1 .. Len(pages')
        /\ \A i \in 1 .. Len(pages) : pages'[i] = pages[i]
        /\ pages'[n] = [start |-> startRid[b], count |-> Len(rows[b]), page |-> mapped + 1]
        /\ \A c \in Batches \ {b} : Unwritten(c) => Unwritten(c)'
    BY <1>3, <2>b, <2>n, WriteEffect
  <2>2. \A i \in 1 .. Len(pages) : PageIds(i)' = PageIds(i)
    BY <2>1 DEF PageIds
  <2>3. PageIds(n)' = RowIds(b) /\ \A c \in Batches : RowIds(c)' = RowIds(c)
    BY <2>1 DEF PageIds, RowIds
  <2> QED  BY <2>n, <2>1, <2>2, <2>3 DEF CoverInv
<1> QED  BY <1>1, <1>2, <1>3, MoveKinds

\* CoverInv and BelowInv together are RowIdsDense.
LEMMA CoverDense ==
    ASSUME TypeInv, RidInv, CoverInv PROVE RowIdsDense
<1> DEFINE ids == {PageIds(i) : i \in 1 .. Len(pages)}
                  \cup {RowIds(b) : b \in {c \in Batches : Unwritten(c)}}
<1>1. 0 .. rowCount - 1 \subseteq UNION ids
  BY DEF CoverInv
<1>2. \A i \in 1 .. Len(pages) : PageIds(i) \subseteq 0 .. rowCount - 1
  <2>1. ASSUME NEW i \in 1 .. Len(pages) PROVE PageIds(i) \subseteq 0 .. rowCount - 1
    <3>1. pages[i].start \in Nat /\ pages[i].count \in Nat /\ rowCount \in Nat
      BY PageFields DEF TypeInv, TypeOK
    <3>2. pages[i].start + pages[i].count <= rowCount
      BY DEF RidInv, BelowInv, PageFinish
    <3> QED  BY <3>1, <3>2 DEF PageIds
  <2> QED  BY <2>1
<1>3. \A b \in Batches : Unwritten(b) => RowIds(b) \subseteq 0 .. rowCount - 1
  <2>1. ASSUME NEW b \in Batches, Unwritten(b) PROVE RowIds(b) \subseteq 0 .. rowCount - 1
    <3>1. startRid[b] \in Nat /\ Len(rows[b]) \in Nat /\ rowCount \in Nat
      BY DEF TypeInv, TypeOK
    <3>2. startRid[b] + Len(rows[b]) <= rowCount
      BY <2>1 DEF RidInv, BelowInv, Finish, Unwritten
    <3> QED  BY <3>1, <3>2 DEF RowIds
  <2> QED  BY <2>1
<1> QED  BY <1>1, <1>2, <1>3 DEF RowIdsDense

\* The invariants of TableIngestProofs, together.
BaseInv == TypeInv /\ PoolConserved /\ FilledInv /\ RidInv

\* They hold of every new table.
LEMMA BaseInit == Init => BaseInv
<1>1. Init => TypeInv
  BY IngestAssumption DEF Init, TypeInv, TypeOK, PtrInv, SizeInv, FileInv, Threads,
     WriterPC, FlusherPC, Stamps
<1>2. Init => PoolConserved
  BY IngestAssumption DEF Init, PoolConserved, Queued, Owns
<1>3. Init => FilledInv
  BY DEF Init, FilledInv
<1>4. Init => RidInv
  BY IngestAssumption DEF Init, RidInv, BlankInv, ActiveInv, BelowInv, ApartInv, Unwritten, Threads
<1> QED  BY <1>1, <1>2, <1>3, <1>4 DEF BaseInv

\* ... and every step keeps them.
LEMMA BaseStep == BaseInv /\ [Next]_vars => BaseInv'
BY TypeStep, PoolStep, FilledStep, RidStep DEF BaseInv

\* Whatever is in flight, the ids below row_count_ are exactly those of the
\* pages and of the batches on their way to one: insert_rows skips none.
THEOREM RowIdsComplete == Spec => []RowIdsDense
<1>1. Init => CoverInv
  BY DEF Init, CoverInv
<1>2. BaseInv /\ CoverInv /\ [Next]_vars => CoverInv'
  BY CoverStep DEF BaseInv
<1>3. BaseInv /\ CoverInv => RowIdsDense
  BY CoverDense DEF BaseInv
<1> QED  BY BaseInit, BaseStep, <1>1, <1>2, <1>3, PTL DEF Spec

-----------------------------------------------------------------------------
(* A row id leads to its row.                                              *)

\* Until a resize fails, the mapped size, the file and the page index agree.
FileIndexed ==
    failures = 0 =>
        /\ mapped = Len(pages) /\ Len(file) = Len(pages)
        /\ \A i \in 1 .. Len(pages) : pages[i].page = i /\ Len(file[i]) = pages[i].count

\* A session has as many ids as rows, all of them below row_count_.
SentInv ==
    \A w \in Writers : /\ IsFiniteSet(writeSet[w]) /\ Cardinality(writeSet[w]) = sent[w]
                       /\ \A x \in writeSet[w] : x < rowCount

KeepInv == FileIndexed /\ SentInv /\ ReturnedIdKeepsRow

\* Ids that lie beyond rid do not count for it.
LEMMA RankSame ==
    ASSUME NEW S \in SUBSET Nat, NEW T \in SUBSET Nat, NEW rid \in Nat, \A x \in T : x > rid
    PROVE  {x \in S \cup T : x <= rid} = {x \in S : x <= rid}
<1>1. ASSUME NEW x \in S \cup T, x <= rid PROVE x \in S
  <2>1. CASE x \in T
    BY <1>1, <2>1
  <2> QED  BY <2>1
<1> QED  BY <1>1

\* Cardinalities of sets without a common element add up.
LEMMA DisjointUnion ==
    ASSUME NEW S, IsFiniteSet(S), NEW T, IsFiniteSet(T), S \cap T = {}
    PROVE  /\ IsFiniteSet(S \cup T)
           /\ Cardinality(S \cup T) = Cardinality(S) + Cardinality(T)
<1>1. Cardinality(S) \in Nat /\ Cardinality(T) \in Nat
  BY FS_CardinalityType
<1>2. Cardinality(S \cap T) = 0
  BY FS_EmptySet
<1>3. /\ IsFiniteSet(S \cup T)
      /\ Cardinality(S \cup T) = Cardinality(S) + Cardinality(T) - Cardinality(S \cap T)
  BY FS_Union, Zenon
<1> QED  BY <1>1, <1>2, <1>3

\* The j-th id from m on is number Cardinality(S) + j, when S lies below m.
LEMMA RankNew ==
    ASSUME NEW S \in SUBSET Nat, IsFiniteSet(S), NEW m \in Nat, \A x \in S : x < m,
           NEW k \in Nat, NEW j \in 1 .. k
    PROVE  Cardinality({x \in S \cup (m .. m + k - 1) : x <= m + j - 1}) = Cardinality(S) + j
<1>1. {x \in S \cup (m .. m + k - 1) : x <= m + j - 1} = S \cup (m .. m + j - 1)
  <2>1. ASSUME NEW x \in S \cup (m .. m + k - 1), x <= m + j - 1
        PROVE  x \in S \cup (m .. m + j - 1)
    BY <2>1
  <2>2. ASSUME NEW x \in S \cup (m .. m + j - 1)
        PROVE  x \in S \cup (m .. m + k - 1) /\ x <= m + j - 1
    <3>1. CASE x \in S
      BY <3>1
    <3>2. CASE x \in m .. m + j - 1
      BY <3>2
    <3> QED  BY <3>1, <3>2
  <2> QED  BY <2>1, <2>2
<1>2. IsFiniteSet(m .. m + j - 1) /\ Cardinality(m .. m + j - 1) = j
  <2>1. m \in Int /\ m + j - 1 \in Int /\ ~(m > m + j - 1) /\ (m + j - 1) - m + 1 = j
    OBVIOUS
  <2> QED  BY <2>1, FS_Interval
<1>3. S \cap (m .. m + j - 1) = {}
  OBVIOUS
<1>4. Cardinality(S \cup (m .. m + j - 1)) = Cardinality(S) + j
  BY <1>2, <1>3, DisjointUnion
<1>5. Cardinality(S) \in Nat
  BY FS_CardinalityType
<1> QED  BY <1>1, <1>4, <1>5

\* The set of ids a session has after an append of k rows.
LEMMA SentStep ==
    ASSUME NEW S \in SUBSET Nat, IsFiniteSet(S), NEW m \in Nat, \A x \in S : x < m, NEW k \in Nat
    PROVE  /\ IsFiniteSet(S \cup (m .. m + k - 1))
           /\ Cardinality(S \cup (m .. m + k - 1)) = Cardinality(S) + k
           /\ \A x \in S \cup (m .. m + k - 1) : x < m + k
<1>1. IsFiniteSet(m .. m + k - 1) /\ Cardinality(m .. m + k - 1) = k
  <2>1. m \in Int /\ m + k - 1 \in Int /\ (m > m + k - 1 => k = 0) /\ (m + k - 1) - m + 1 = k
    OBVIOUS
  <2> QED  BY <2>1, FS_Interval
<1>2. S \cap (m .. m + k - 1) = {}
  OBVIOUS
<1>3. /\ IsFiniteSet(S \cup (m .. m + k - 1))
      /\ Cardinality(S \cup (m .. m + k - 1)) = Cardinality(S) + k
  BY <1>1, <1>2, DisjointUnion
<1>4. Cardinality(S) \in Nat
  BY FS_CardinalityType
<1> QED  BY <1>3, <1>4

\* What an append records for the session, and what it leaves alone.
LEMMA AppendRecords ==
    ASSUME TypeInv, RidInv, NEW w \in Writers, AppendRows(w),
           NEW k \in Nat, k = ToInsert(w, ptr[w])
    PROVE  /\ writeSet'[w] = writeSet[w] \cup (rowCount .. rowCount + k - 1)
           /\ sent'[w] = sent[w] + k
           /\ \A v \in Writers \ {w} : writeSet'[v] = writeSet[v] /\ sent'[v] = sent[v]
           /\ UNCHANGED <<file, mapped, pages, failures>>
<1>1. BatchStart(ptr[w]) + Len(rows[ptr[w]]) = rowCount
  BY AppendAt
<1>2. /\ writeSet' = [writeSet EXCEPT ![w] = @ \cup (rowCount .. rowCount + k - 1)]
      /\ sent' = [sent EXCEPT ![w] = @ + k]
      /\ UNCHANGED <<file, mapped, pages, failures>>
  BY <1>1 DEF AppendRows, pageVars
<1> QED  BY <1>2 DEF TypeInv, TypeOK

\* Every session's count of ids stays right.
LEMMA SentInvStep ==
    ASSUME TypeInv, PoolConserved, RidInv, SentInv, [Next]_vars PROVE SentInv'
<1>0. rowCount \in Nat /\ \A v \in Writers : writeSet[v] \in SUBSET Nat /\ sent[v] \in Nat
  BY DEF TypeInv, TypeOK
<1>1. CASE Unmoved
  BY <1>1 DEF Unmoved, SentInv
<1>2. ASSUME NEW w \in Writers, AppendRows(w) PROVE SentInv'
  <2>k. PICK k \in Nat : k = ToInsert(w, ptr[w])
    BY <1>2, AppendEffect
  <2>1. /\ writeSet'[w] = writeSet[w] \cup (rowCount .. rowCount + k - 1)
        /\ sent'[w] = sent[w] + k /\ rowCount' = rowCount + k
        /\ \A v \in Writers \ {w} : writeSet'[v] = writeSet[v] /\ sent'[v] = sent[v]
    BY <1>2, <2>k, AppendRecords, AppendEffect
  <2>2. /\ IsFiniteSet(writeSet'[w]) /\ Cardinality(writeSet'[w]) = sent'[w]
        /\ \A x \in writeSet'[w] : x < rowCount'
    BY <1>0, <2>1, SentStep DEF SentInv
  <2>3. \A v \in Writers \ {w} : \A x \in writeSet'[v] : x < rowCount'
    BY <1>0, <2>1 DEF SentInv
  <2> QED  BY <2>1, <2>2, <2>3 DEF SentInv
<1>3. ASSUME NEW f \in Flushers, WritePage(f) PROVE SentInv'
  BY <1>3, WriteEffect DEF SentInv
<1> QED  BY <1>1, <1>2, <1>3, MoveKinds

\* The page index follows the file, as long as no resize fails.
LEMMA FileIndexedStep ==
    ASSUME TypeInv, PoolConserved, RidInv, FileIndexed, [Next]_vars PROVE FileIndexed'
<1>1. CASE Unmoved
  BY <1>1 DEF Unmoved, FileIndexed
<1>2. ASSUME NEW w \in Writers, AppendRows(w) PROVE FileIndexed'
  BY <1>2, AppendRecords, AppendEffect DEF FileIndexed
<1>3. ASSUME NEW f \in Flushers, WritePage(f) PROVE FileIndexed'
  <2> SUFFICES ASSUME failures' = 0
               PROVE  /\ mapped' = Len(pages') /\ Len(file') = Len(pages')
                      /\ \A i \in 1 .. Len(pages') :
                            pages'[i].page = i /\ Len(file'[i]) = pages'[i].count
    BY DEF FileIndexed
  <2>b. PICK b \in Batches : b = ptr[f]
    BY <1>3, WriteEffect
  <2>1. /\ mapped' = mapped + 1 /\ file' = Append(SubSeq(file, 1, mapped), rows[b])
        /\ failures = 0
        /\ Len(pages) \in Nat /\ Len(pages') = Len(pages) + 1
        /\ \A i \in 1 .. Len(pages) : pages'[i] = pages[i]
        /\ pages'[Len(pages) + 1] = [start |-> startRid[b], count |-> Len(rows[b]),
                                     page |-> mapped + 1]
    BY <1>3, <2>b, WriteEffect DEF ExtendedFile
  <2>2. file \in Seq(Seq(Row)) /\ rows[b] \in Seq(Row) /\ mapped = Len(pages) /\ Len(file) = mapped
    BY <2>1 DEF FileIndexed, TypeInv, TypeOK
  <2>3. /\ Len(file') = mapped + 1 /\ file'[mapped + 1] = rows[b]
        /\ \A i \in 1 .. mapped : file'[i] = file[i]
    BY <2>1, <2>2
  <2>4. 1 .. Len(pages') = 1 .. Len(pages) \cup {Len(pages) + 1}
    BY <2>1
  <2> QED  BY <2>1, <2>2, <2>3, <2>4 DEF FileIndexed
<1> QED  BY <1>1, <1>2, <1>3, MoveKinds

\* An id of a batch is the id of one of its rows.
LEMMA RowIndex ==
    ASSUME TypeInv, NEW b \in Batches, NEW rid \in RowIds(b)
    PROVE  rid - startRid[b] + 1 \in 1 .. Len(rows[b])
<1>1. startRid[b] \in Nat /\ Len(rows[b]) \in Nat
  BY DEF TypeInv, TypeOK
<1> QED  BY <1>1 DEF RowIds

\* While no row is moved, every id that was returned leads to the same row.
LEMMA HomeUnmoved ==
    ASSUME TypeInv, Unmoved, NEW w \in Writers, NEW rid,
           InBatch(rid, w) \/ OnPage(rid, w)
    PROVE  InBatch(rid, w)' \/ OnPage(rid, w)'
<1>1. writeSet' = writeSet /\ pages' = pages /\ file' = file
  BY DEF Unmoved
<1>2. CASE OnPage(rid, w)
  BY <1>1, <1>2 DEF OnPage, IsRow, PageIds
<1>3. CASE InBatch(rid, w)
  <2>1. PICK b \in Batches : /\ Unwritten(b) /\ rid \in RowIds(b)
                             /\ IsRow(rows[b][rid - startRid[b] + 1], w, rid)
    BY <1>3 DEF InBatch
  <2>2. /\ Unwritten(b)' /\ startRid'[b] = startRid[b] /\ Len(rows'[b]) = Len(rows[b])
        /\ \A i \in 1 .. Len(rows[b]) : /\ rows'[b][i].w = rows[b][i].w
                                        /\ rows'[b][i].n = rows[b][i].n
    BY <2>1 DEF Unmoved, KeepsRows
  <2>3. rid - startRid[b] + 1 \in 1 .. Len(rows[b])
    BY <2>1, RowIndex
  <2>4. rid \in RowIds(b)'
    BY <2>1, <2>2 DEF RowIds
  <2>5. IsRow(rows[b][rid - startRid[b] + 1], w, rid)'
    BY <1>1, <2>1, <2>2, <2>3 DEF IsRow
  <2> QED  BY <2>2, <2>4, <2>5 DEF InBatch
<1> QED  BY <1>2, <1>3

\* An append moves no earlier row: their ids lie below the new ones, so they
\* keep their number among the session's ids, and the batch only grows.
LEMMA HomeAppendOld ==
    ASSUME TypeInv, PoolConserved, RidInv, SentInv, NEW w \in Writers, AppendRows(w),
           NEW v \in Writers, NEW rid \in writeSet[v],
           InBatch(rid, v) \/ OnPage(rid, v)
    PROVE  InBatch(rid, v)' \/ OnPage(rid, v)'
<1>b. PICK b \in Batches : b = ptr[w]
  BY AppendEffect
<1>k. PICK k \in Nat : k = ToInsert(w, b)
  BY <1>b, AppendEffect
<1>0. rid \in Nat /\ rid < rowCount /\ rowCount \in Nat /\ writeSet[v] \in SUBSET Nat
  BY DEF SentInv, TypeInv, TypeOK
<1>1. {x \in writeSet'[v] : x <= rid} = {x \in writeSet[v] : x <= rid}
  <2>1. CASE v = w
    <3>1. writeSet'[v] = writeSet[v] \cup (rowCount .. rowCount + k - 1)
      BY <1>b, <1>k, <2>1, AppendRecords
    <3>2. rowCount .. rowCount + k - 1 \in SUBSET Nat
          /\ \A x \in rowCount .. rowCount + k - 1 : x > rid
      BY <1>0
    <3> QED  BY <1>0, <3>1, <3>2, RankSame
  <2>2. CASE v # w
    BY <1>b, <1>k, <2>2, AppendRecords
  <2> QED  BY <2>1, <2>2
<1>2. /\ file' = file /\ pages' = pages
      /\ \A c \in Batches \ {b} : rows'[c] = rows[c] /\ startRid'[c] = startRid[c]
      /\ Len(rows[b]) \in Nat /\ Len(rows'[b]) = Len(rows[b]) + k
      /\ startRid'[b] = BatchStart(b)
      /\ \A i \in 1 .. Len(rows[b]) : rows'[b][i] = rows[b][i]
  BY <1>b, <1>k, AppendEffect, AppendRecords, AppendedRow
<1>3. /\ \A c \in Batches \ {b} : Unwritten(c) => Unwritten(c)'
      /\ rows'[b] # <<>> => Unwritten(b)'
  BY <1>b, AppendHomes
<1>4. CASE OnPage(rid, v)
  BY <1>1, <1>2, <1>4 DEF OnPage, IsRow, PageIds
<1>5. CASE InBatch(rid, v)
  <2>1. PICK c \in Batches : /\ Unwritten(c) /\ rid \in RowIds(c)
                             /\ IsRow(rows[c][rid - startRid[c] + 1], v, rid)
    BY <1>5 DEF InBatch
  <2>2. rid - startRid[c] + 1 \in 1 .. Len(rows[c])
    BY <2>1, RowIndex
  <2>3. /\ Unwritten(c)' /\ startRid'[c] = startRid[c] /\ Len(rows'[c]) >= Len(rows[c])
        /\ \A i \in 1 .. Len(rows[c]) : rows'[c][i] = rows[c][i]
    <3>1. CASE c # b
      <4>1. Len(rows[c]) \in Nat
        BY DEF TypeInv, TypeOK
      <4> QED  BY <1>2, <1>3, <2>1, <3>1, <4>1
    <3>2. CASE c = b
      <4>1. rows[c] # <<>> /\ Len(rows[c]) \in Nat /\ Len(rows[c]) # 0
        BY <1>2, <2>1, <2>2, <3>2 DEF Unwritten
      <4>2. Len(rows'[c]) # 0 /\ Len(rows'[c]) >= Len(rows[c])
        BY <1>2, <3>2, <4>1
      <4> QED  BY <1>2, <1>3, <3>2, <4>1, <4>2 DEF BatchStart
    <3> QED  BY <3>1, <3>2
  <2>4. rid \in RowIds(c)'
    <3>1. startRid[c] \in Nat /\ Len(rows[c]) \in Nat /\ Len(rows'[c]) \in Nat
      <4>1. CASE c = b
        BY <1>2, <4>1 DEF TypeInv, TypeOK
      <4>2. CASE c # b
        BY <1>2, <4>2, SMTT(30) DEF TypeInv, TypeOK
      <4> QED  BY <4>1, <4>2
    <3> QED  BY <2>1, <2>3, <3>1 DEF RowIds
  <2>5. IsRow(rows[c][rid - startRid[c] + 1], v, rid)'
    BY <1>1, <2>1, <2>2, <2>3 DEF IsRow
  <2> QED  BY <2>3, <2>4, <2>5 DEF InBatch
<1> QED  BY <1>4, <1>5

\* The ids that an append returns lead to the rows it was given, in order.
LEMMA HomeAppendNew ==
    ASSUME TypeInv, PoolConserved, RidInv, SentInv, NEW w \in Writers, AppendRows(w),
           NEW rid \in rowCount .. rowCount + ToInsert(w, ptr[w]) - 1
    PROVE  InBatch(rid, w)'
<1>b. PICK b \in Batches : b = ptr[w]
  BY AppendEffect
<1>k. PICK k \in Nat : k = ToInsert(w, b)
  BY <1>b, AppendEffect
<1>0. rowCount \in Nat /\ sent[w] \in Nat /\ writeSet[w] \in SUBSET Nat
  BY DEF TypeInv, TypeOK
<1>1. rid \in Nat /\ rid - rowCount + 1 \in 1 .. k /\ rid = rowCount + (rid - rowCount + 1) - 1
  BY <1>b, <1>k, <1>0
<1>j. PICK j \in 1 .. k : j = rid - rowCount + 1 /\ rid = rowCount + j - 1
  BY <1>1
<1>2. /\ Len(rows[b]) \in Nat /\ Len(rows'[b]) = Len(rows[b]) + k
      /\ startRid'[b] = BatchStart(b)
      /\ rows'[b][Len(rows[b]) + j] = NewRows(w, k)[j]
  BY <1>b, <1>k, AppendEffect, AppendedRow
<1>3. BatchStart(b) \in Nat /\ BatchStart(b) + Len(rows[b]) = rowCount
  BY <1>b, AppendAt
<1>4. rid - startRid'[b] + 1 = Len(rows[b]) + j
  <2>1. j \in Nat
    OBVIOUS
  <2>2. \A s, l, m, i \in Nat : s + l = m => (m + i - 1) - s + 1 = l + i
    OBVIOUS
  <2>3. startRid'[b] = BatchStart(b) /\ Len(rows[b]) \in Nat
    BY <1>2
  <2>4. (rowCount + j - 1) - BatchStart(b) + 1 = Len(rows[b]) + j
    BY <1>0, <1>3, <2>1, <2>2, <2>3
  <2> QED  BY <1>j, <2>3, <2>4, Zenon
<1>5. rid \in RowIds(b)'
  <2>1. \A s, l, m, i, n \in Nat :
          s + l = m /\ i \in 1 .. n => (m + i - 1) \in s .. s + (l + n) - 1
    OBVIOUS
  <2>2. rowCount + j - 1 \in BatchStart(b) .. BatchStart(b) + (Len(rows[b]) + k) - 1
    <3>1. j \in Nat /\ Len(rows[b]) \in Nat
      BY <1>2
    <3> QED  BY <1>0, <1>3, <2>1, <3>1
  <2>3. rid \in startRid'[b] .. startRid'[b] + Len(rows'[b]) - 1
    <3>1. /\ rid = rowCount + j - 1 /\ startRid'[b] = BatchStart(b)
          /\ Len(rows'[b]) = Len(rows[b]) + k
      BY <1>j, <1>2
    <3> QED  BY <2>2, <3>1, Zenon
  <2> QED  BY <2>3 DEF RowIds
<1>6. Unwritten(b)'
  <2>1. Len(rows'[b]) # 0
    BY <1>j, <1>2
  <2> QED  BY <1>b, <2>1, AppendHomes
<1>7. NewRows(w, k)[j].w = w /\ NewRows(w, k)[j].n = sent[w] + j
  BY DEF NewRows
<1>8. Cardinality({x \in writeSet'[w] : x <= rid}) = sent[w] + j
  <2>1. writeSet'[w] = writeSet[w] \cup (rowCount .. rowCount + k - 1)
    BY <1>b, <1>k, AppendRecords
  <2>2. /\ IsFiniteSet(writeSet[w]) /\ Cardinality(writeSet[w]) = sent[w]
        /\ \A x \in writeSet[w] : x < rowCount
    BY DEF SentInv
  <2>3. Cardinality({x \in writeSet[w] \cup (rowCount .. rowCount + k - 1) : x <= rowCount + j - 1})
           = Cardinality(writeSet[w]) + j
    BY <1>0, <2>2, RankNew
  <2> QED  BY <1>j, <2>1, <2>2, <2>3
<1>9. IsRow(rows[b][rid - startRid[b] + 1], w, rid)'
  BY <1>2, <1>4, <1>7, <1>8 DEF IsRow
<1> QED  BY <1>5, <1>6, <1>9 DEF InBatch

\* A page write takes the rows of a batch to the page their ids now lead to.
LEMMA HomeWrite ==
    ASSUME TypeInv, PoolConserved, FileIndexed, failures = 0, NEW f \in Flushers, WritePage(f),
           NEW w \in Writers, NEW rid, InBatch(rid, w) \/ OnPage(rid, w)
    PROVE  InBatch(rid, w)' \/ OnPage(rid, w)'
<1>b. PICK b \in Batches : b = ptr[f]
  BY WriteEffect
<1>1. /\ UNCHANGED <<startRid, rows, writeSet>>
      /\ file' = Append(SubSeq(file, 1, mapped), rows[b])
      /\ Len(pages) \in Nat /\ Len(pages') = Len(pages) + 1
      /\ \A i \in 1 .. Len(pages) : pages'[i] = pages[i]
      /\ pages'[Len(pages) + 1] = [start |-> startRid[b], count |-> Len(rows[b]),
                                   page |-> mapped + 1]
      /\ \A c \in Batches \ {b} : Unwritten(c) => Unwritten(c)'
  BY <1>b, WriteEffect DEF ExtendedFile
<1>2. file \in Seq(Seq(Row)) /\ rows[b] \in Seq(Row) /\ mapped = Len(pages) /\ Len(file) = mapped
  BY <1>1 DEF FileIndexed, TypeInv, TypeOK
<1>3. /\ Len(file') = mapped + 1 /\ file'[mapped + 1] = rows[b]
      /\ \A i \in 1 .. mapped : file'[i] = file[i]
  BY <1>1, <1>2
<1>4. CASE OnPage(rid, w)
  <2>1. PICK i \in 1 .. Len(pages) :
           /\ rid \in PageIds(i)
           /\ rid - pages[i].start < Len(file[pages[i].page])
           /\ IsRow(file[pages[i].page][rid - pages[i].start + 1], w, rid)
    BY <1>4 DEF OnPage
  <2>2. pages'[i] = pages[i] /\ pages[i].page = i /\ file'[i] = file[i] /\ i \in 1 .. Len(pages')
        /\ i <= Len(file')
    BY <1>1, <1>2, <1>3, <2>1 DEF FileIndexed
  <2>3. rid \in PageIds(i)'
    BY <2>1, <2>2 DEF PageIds
  <2>4. IsRow(file[pages[i].page][rid - pages[i].start + 1], w, rid)'
    BY <1>1, <2>1, <2>2 DEF IsRow
  <2> QED  BY <2>1, <2>2, <2>3, <2>4 DEF OnPage
<1>5. ASSUME NEW c \in Batches, Unwritten(c), rid \in RowIds(c),
             IsRow(rows[c][rid - startRid[c] + 1], w, rid)
      PROVE  InBatch(rid, w)' \/ OnPage(rid, w)'
  <2>1. CASE c # b
    <3>1. Unwritten(c)' /\ rid \in RowIds(c)' /\ IsRow(rows[c][rid - startRid[c] + 1], w, rid)'
      BY <1>1, <1>5, <2>1 DEF RowIds, IsRow
    <3> QED  BY <3>1 DEF InBatch
  <2>2. CASE c = b
    <3>n. PICK n \in Nat : n = Len(pages) + 1
      BY <1>1
    <3>1. n \in 1 .. Len(pages') /\ n <= Len(file') /\ file'[n] = rows[b]
      BY <1>1, <1>2, <1>3, <3>n
    <3>2. pages'[n].start = startRid[b] /\ pages'[n].count = Len(rows[b]) /\ pages'[n].page = n
      BY <1>1, <1>2, <3>n
    <3>3. rid \in PageIds(n)'
      BY <1>5, <2>2, <3>2 DEF RowIds, PageIds
    <3>4. rid - startRid[b] + 1 \in 1 .. Len(rows[b]) /\ startRid[b] \in Nat
      BY <1>5, <2>2, RowIndex DEF TypeInv, TypeOK
    <3>5. rid - startRid[b] < Len(rows[b])
      BY <1>2, <1>5, <2>2, <3>4 DEF RowIds
    <3>6. IsRow(rows[b][rid - startRid[b] + 1], w, rid)'
      BY <1>1, <1>5, <2>2 DEF IsRow
    <3>7. IsRow(file[pages[n].page][rid - pages[n].start + 1], w, rid)'
      BY <1>1, <3>1, <3>2, <3>6
    <3> QED  BY <3>1, <3>2, <3>3, <3>5, <3>7 DEF OnPage
  <2> QED  BY <2>1, <2>2
<1> QED  BY <1>4, <1>5 DEF InBatch

\* No step takes a row away from its id.
LEMMA KeepStep ==
    BaseInv /\ KeepInv /\ [Next]_vars => KeepInv'
<1> SUFFICES ASSUME BaseInv, KeepInv, [Next]_vars PROVE KeepInv'
  OBVIOUS
<1>0. /\ TypeInv /\ PoolConserved /\ RidInv
      /\ FileIndexed /\ SentInv /\ ReturnedIdKeepsRow
  BY DEF BaseInv, KeepInv
<1>1. FileIndexed' /\ SentInv'
  BY <1>0, FileIndexedStep, SentInvStep
<1>2. ASSUME failures' = 0, NEW v \in Writers, NEW rid \in writeSet'[v]
      PROVE  InBatch(rid, v)' \/ OnPage(rid, v)'
  <2>1. CASE Unmoved
    <3>1. failures = 0 /\ rid \in writeSet[v]
      BY <1>2, <2>1 DEF Unmoved
    <3> QED  BY <1>0, <2>1, <3>1, HomeUnmoved DEF ReturnedIdKeepsRow
  <2>2. ASSUME NEW w \in Writers, AppendRows(w)
        PROVE  InBatch(rid, v)' \/ OnPage(rid, v)'
    <3>1. failures = 0 /\ ToInsert(w, ptr[w]) \in Nat
      BY <1>0, <1>2, <2>2, AppendEffect, AppendRecords
    <3>2. CASE rid \in writeSet[v]
      BY <1>0, <2>2, <3>1, <3>2, HomeAppendOld DEF ReturnedIdKeepsRow
    <3>3. CASE rid \notin writeSet[v]
      <4>1. v = w /\ rid \in rowCount .. rowCount + ToInsert(w, ptr[w]) - 1
        BY <1>0, <1>2, <2>2, <3>1, <3>3, AppendRecords
      <4> QED  BY <1>0, <2>2, <4>1, HomeAppendNew
    <3> QED  BY <3>2, <3>3
  <2>3. ASSUME NEW f \in Flushers, WritePage(f)
        PROVE  InBatch(rid, v)' \/ OnPage(rid, v)'
    <3>1. failures = 0 /\ rid \in writeSet[v]
      BY <1>0, <1>2, <2>3, WriteEffect
    <3> QED  BY <1>0, <2>3, <3>1, HomeWrite DEF ReturnedIdKeepsRow
  <2> QED  BY <1>0, <2>1, <2>2, <2>3, MoveKinds
<1>3. ReturnedIdKeepsRow'
  BY <1>2 DEF ReturnedIdKeepsRow
<1> QED  BY <1>1, <1>3 DEF KeepInv

\* Until a resize fails, every id that insert_rows has returned leads to the
\* row inserted under it, in a batch or through the page index in the file,
\* for any number of sessions and flushers and any batch size.
THEOREM IdsKeepRows == Spec => []ReturnedIdKeepsRow
<1>1. Init => KeepInv
  BY FS_EmptySet DEF Init, KeepInv, FileIndexed, SentInv, ReturnedIdKeepsRow
<1>2. BaseInv /\ KeepInv /\ [Next]_vars => KeepInv'
  BY KeepStep
<1>3. KeepInv => ReturnedIdKeepsRow
  BY DEF KeepInv
<1> QED  BY BaseInit, BaseStep, <1>1, <1>2, <1>3, PTL DEF Spec

-----------------------------------------------------------------------------
(* What a scan sees.                                                       *)

\* Batch b keeps the ids of its rows.
SameIds(b) == startRid'[b] = startRid[b] /\ Len(rows'[b]) = Len(rows[b])

\* No id that is already handed out gets into the active batch: a batch is
\* installed blank, and rows are appended at row_count_.
LEMMA ActiveIds ==
    ASSUME BaseInv, [Next]_vars, active' \in Batches, NEW rid \in Nat, rid < rowCount,
           rid \in RowIds(active)'
    PROVE  active' = active /\ rid \in RowIds(active)
<1>0. /\ ControlOK /\ Writers \subseteq Threads /\ Flushers \subseteq Threads
      /\ Writers \cap Flushers = {} /\ NoBatch \notin Batches /\ TypeInv /\ PoolConserved /\ RidInv
  BY Control DEF BaseInv
<1>b. PICK b \in Batches : b = active'
  OBVIOUS
<1>r. rid \in startRid'[b] .. startRid'[b] + Len(rows'[b]) - 1
  BY <1>b DEF RowIds
<1>1. ASSUME active' = active, SameIds(b)
      PROVE  active' = active /\ rid \in RowIds(active)
  BY <1>b, <1>r, <1>1 DEF SameIds, RowIds
<1>2. ASSUME NEW w \in Writers, AppendRows(w)
      PROVE  active' = active /\ rid \in RowIds(active)
  <2>1. b = ptr[w] /\ active = b
    BY <1>0, <1>2, <1>b, AppendEffect
  <2>2. /\ Len(rows[b]) \in Nat /\ startRid[b] \in Nat /\ rowCount \in Nat
        /\ startRid'[b] = BatchStart(b)
    BY <1>0, <1>2, <2>1, AppendEffect DEF TypeInv, TypeOK
  <2>3. BatchStart(b) \in Nat /\ BatchStart(b) + Len(rows[b]) = rowCount
    BY <1>0, <1>2, <2>1, AppendAt
  <2>4. BatchStart(b) <= rid
    <3>1. \A s, n \in Int : rid \in s .. n => s <= rid
      OBVIOUS
    <3>2. Len(rows'[b]) \in Nat
      BY <1>0, <1>2, <2>1, <2>2, AppendEffect
    <3> QED  BY <1>r, <2>2, <2>3, <3>1, <3>2
  <2>5. BatchStart(b) = startRid[b]
    BY <2>2, <2>3, <2>4 DEF BatchStart
  <2> QED  BY <1>b, <2>1, <2>2, <2>3, <2>4, <2>5 DEF RowIds
<1>3. ASSUME NEW w \in Writers, InstallBatch(w)
      PROVE  active' = active /\ rid \in RowIds(active)
  <2>1. CASE active' = active
    BY <1>1, <1>3, <2>1 DEF InstallBatch, SameIds
  <2>2. CASE active' # active
    <3>1. b = ptr[w] /\ rows'[b] = <<>> /\ startRid[b] \in Nat /\ startRid' = startRid
      BY <1>0, <1>b, <1>3, <2>2 DEF InstallBatch, RidInv, BlankInv, TypeInv, TypeOK
    <3>2. Len(rows'[b]) = 0
      BY <3>1
    <3> QED  BY <1>r, <3>1, <3>2
  <2> QED  BY <2>1, <2>2
<1>4. ASSUME NEW f \in Flushers, Recycle(f)
      PROVE  active' = active /\ rid \in RowIds(active)
  <2>1. active' = active /\ startRid' = startRid /\ ptr[f] # b
    BY <1>0, <1>b, <1>4 DEF Recycle, PoolConserved, Owns
  <2>2. rows'[b] = rows[b]
    BY <1>0, <1>4, <2>1 DEF Recycle, TypeInv, TypeOK
  <2> QED  BY <1>1, <2>1, <2>2 DEF SameIds
<1>5. ASSUME NEW w \in Writers, StampActive(w)
      PROVE  active' = active /\ rid \in RowIds(active)
  <2>1. active' = active /\ startRid' = startRid /\ rows'[b] = StampedRows(w, b)
    BY <1>0, <1>b, <1>5 DEF StampActive, TypeInv, TypeOK
  <2>2. Len(rows'[b]) = Len(rows[b])
    BY <1>0, <2>1, StampedRowsType DEF TypeInv
  <2> QED  BY <1>1, <2>1, <2>2 DEF SameIds
<1>6. ASSUME NEW w \in Writers, StampQueue(w)
      PROVE  active' = active /\ rid \in RowIds(active)
  <2>1. /\ active' = active /\ startRid' = startRid
        /\ rows'[b] = rows[b] \/ rows'[b] = StampedRows(w, b)
    BY <1>6 DEF StampQueue
  <2>2. Len(rows'[b]) = Len(rows[b])
    BY <1>0, <2>1, StampedRowsType DEF TypeInv
  <2> QED  BY <1>1, <2>1, <2>2 DEF SameIds
<1>7. CASE active' = active /\ UNCHANGED <<startRid, rows>>
  BY <1>1, <1>7 DEF SameIds
<1>8. ASSUME NEW f \in Flushers, FlushDetach(f)
      PROVE  active' = active /\ rid \in RowIds(active)
  <2>1. active' = active
    BY <1>0, <1>8 DEF FlushDetach
  <2> QED  BY <1>7, <1>8, <2>1 DEF FlushDetach
<1>9. ASSUME NEW w \in Writers, InsertCall(w) \/ LoadActive(w) \/ GetFreeBatch(w) \/ AppendRetry(w)
                                \/ PushFull(w) \/ CommitCall(w) \/ StampIndex(w)
      PROVE  active' = active /\ UNCHANGED <<startRid, rows>>
  BY <1>9 DEF InsertCall, LoadActive, GetFreeBatch, AppendRetry, PushFull, CommitCall, StampIndex, batchVars
<1>10. ASSUME NEW f \in Flushers, FlushBegin(f) \/ FlushPush(f) \/ FlushPop(f) \/ FlushReturn(f)
                                  \/ WritePage(f) \/ WriteFail(f)
       PROVE  active' = active /\ UNCHANGED <<startRid, rows>>
  BY <1>10 DEF FlushBegin, FlushPush, FlushPop, FlushReturn, WritePage, WriteFail, batchVars
<1>11. CASE UNCHANGED vars
  BY <1>7, <1>11 DEF vars, batchVars
<1> QED
  BY <1>2, <1>3, <1>4, <1>5, <1>6, <1>7, <1>8, <1>9, <1>10, <1>11
  DEF Next, InsertStep, CommitStep, FlushStep

\* Only its own first two steps bring a flusher to the lock or away from it.
LEMMA FlusherMove ==
    ASSUME TypeInv, [Next]_vars, NEW f \in Flushers
    PROVE  \/ pc'[f] = pc[f] /\ ptr'[f] = ptr[f]
           \/ FlushBegin(f) \/ FlushDetach(f)
           \/ pc[f] \notin {"idle", "lock"} /\ pc'[f] # "lock"
<1>0. /\ ControlOK /\ Writers \subseteq Threads /\ Flushers \subseteq Threads
      /\ Writers \cap Flushers = {}
  BY Control
<1>1. ASSUME NEW t \in Threads, t # f, NEW l, NEW b, Goto(t, l, b)
      PROVE  pc'[f] = pc[f] /\ ptr'[f] = ptr[f]
  BY <1>0, <1>1, GotoFacts
<1>2. ASSUME NEW w \in Writers, InsertCall(w) \/ InsertStep(w) \/ CommitCall(w) \/ CommitStep(w)
      PROVE  \E l, b : Goto(w, l, b)
  BY <1>2 DEF InsertCall, InsertStep, LoadActive, GetFreeBatch, InstallBatch, AppendRows, AppendRetry,
     PushFull, CommitCall, CommitStep, StampActive, StampQueue, StampIndex
<1>3. ASSUME NEW g \in Flushers, FlushStep(g) \/ WriteFail(g)
      PROVE  \E l, b : Goto(g, l, b)
  BY <1>3 DEF FlushStep, FlushBegin, FlushDetach, FlushPush, FlushPop, FlushReturn, WritePage, Recycle,
     WriteFail
<1>4. ASSUME FlushPush(f) \/ FlushPop(f) \/ FlushReturn(f) \/ WritePage(f) \/ Recycle(f) \/ WriteFail(f)
      PROVE  pc[f] \notin {"idle", "lock"} /\ pc'[f] # "lock"
  BY <1>0, <1>4, GotoFacts DEF FlushPush, FlushPop, FlushReturn, WritePage, Recycle, WriteFail
<1>5. CASE UNCHANGED vars
  BY <1>5 DEF vars, threadVars
<1>6. ASSUME NEW w \in Writers, InsertCall(w) \/ InsertStep(w) \/ CommitCall(w) \/ CommitStep(w)
      PROVE  pc'[f] = pc[f] /\ ptr'[f] = ptr[f]
  BY <1>0, <1>1, <1>2, <1>6
<1>7. ASSUME NEW g \in Flushers, g # f, FlushStep(g) \/ WriteFail(g)
      PROVE  pc'[f] = pc[f] /\ ptr'[f] = ptr[f]
  BY <1>0, <1>1, <1>3, <1>7
<1> QED  BY <1>4, <1>5, <1>6, <1>7 DEF Next, FlushStep

\* No step lowers row_count_.
LEMMA CountGrows ==
    ASSUME TypeInv, PoolConserved, [Next]_vars
    PROVE  rowCount \in Nat /\ rowCount' \in Nat /\ rowCount <= rowCount'
<1>0. rowCount \in Nat
  BY DEF TypeInv, TypeOK
<1>1. CASE Unmoved
  BY <1>0, <1>1 DEF Unmoved
<1>2. ASSUME NEW w \in Writers, AppendRows(w) PROVE rowCount' \in Nat /\ rowCount <= rowCount'
  BY <1>0, <1>2, AppendEffect
<1>3. ASSUME NEW f \in Flushers, WritePage(f) PROVE rowCount' \in Nat /\ rowCount <= rowCount'
  <2>1. rowCount' = rowCount
    BY <1>3 DEF WritePage, batchVars
  <2> QED  BY <1>0, <2>1
<1> QED  BY <1>0, <1>1, <1>2, <1>3, MoveKinds

\* The rows a flush owes have ids, and none of them is in the active batch
\* once the flush has passed its lock: before that it holds on to the batch.
OwedInv ==
    /\ owed \in [Flushers -> SUBSET Nat]
    /\ \A f \in Flushers : \A rid \in owed[f] :
          /\ rid < rowCount
          /\ active \in Batches /\ rid \in RowIds(active) => pc[f] = "lock" /\ ptr[f] = active

ScanInv == BaseInv /\ CoverInv /\ SentInv /\ OwedInv

\* Every step keeps it.
LEMMA OwedStep ==
    BaseInv /\ SentInv /\ OwedInv /\ ScanNext => OwedInv'
<1> SUFFICES ASSUME BaseInv, SentInv, OwedInv, ScanNext PROVE OwedInv'
  OBVIOUS
<1>0. /\ ControlOK /\ Writers \subseteq Threads /\ Flushers \subseteq Threads
      /\ Writers \cap Flushers = {} /\ NoBatch \notin Batches /\ TypeInv /\ PoolConserved /\ RidInv
      /\ [Next]_vars
  BY Control DEF BaseInv, ScanNext
<1>1. Acknowledged \subseteq Nat /\ \A rid \in Acknowledged : rid < rowCount
  BY <1>0 DEF Acknowledged, SentInv, TypeInv, TypeOK
<1>2. owed' = [f \in Flushers |-> CASE pc'[f] = "idle" -> {}
                                    [] pc[f] = "idle" /\ pc'[f] # "idle" -> Acknowledged
                                    [] OTHER -> owed[f]]
  BY DEF ScanNext
<1>3. ASSUME NEW f \in Flushers
      PROVE  \/ owed'[f] = {}
             \/ pc[f] = "idle" /\ pc'[f] # "idle" /\ owed'[f] = Acknowledged
             \/ pc[f] # "idle" /\ owed'[f] = owed[f]
  BY <1>2
<1>4. owed' \in [Flushers -> SUBSET Nat]
  <2>1. \A f \in Flushers : owed'[f] \in SUBSET Nat
    BY <1>1, <1>3 DEF OwedInv
  <2>2. owed' = [f \in Flushers |-> owed'[f]]
    BY <1>2
  <2> QED  BY <2>1, <2>2
<1>5. ASSUME NEW f \in Flushers, NEW rid \in owed'[f]
      PROVE  /\ rid \in Nat /\ rid < rowCount
             /\ rid \in owed[f] \/ (pc[f] = "idle" /\ pc'[f] # "idle")
  BY <1>1, <1>3, <1>5 DEF OwedInv
<1>6. ASSUME NEW f \in Flushers, NEW rid \in owed'[f], active' \in Batches, rid \in RowIds(active)'
      PROVE  pc'[f] = "lock" /\ ptr'[f] = active'
  <2>1. active' = active /\ rid \in RowIds(active) /\ active \in Batches
    BY <1>0, <1>5, <1>6, ActiveIds
  <2>2. ASSUME FlushBegin(f) PROVE pc'[f] = "lock" /\ ptr'[f] = active'
    BY <1>0, <2>1, <2>2, GotoFacts DEF FlushBegin
  <2>3. ASSUME pc[f] # "idle" PROVE pc[f] = "lock" /\ ptr[f] = active
    BY <1>5, <1>6, <2>1, <2>3 DEF OwedInv
  <2>4. ASSUME FlushDetach(f) PROVE FALSE
    <3>1. pc[f] = "lock" /\ ptr[f] = active
      BY <2>3, <2>4 DEF FlushDetach
    <3>2. rows[active] = <<>>
      BY <1>0, <2>1, <2>4, <3>1 DEF FlushDetach
    <3>3. Len(rows[active]) = 0 /\ startRid[active] \in Nat
      BY <1>0, <2>1, <3>2 DEF TypeInv, TypeOK
    <3> QED  BY <2>1, <3>3 DEF RowIds
  <2>5. CASE pc'[f] = pc[f] /\ ptr'[f] = ptr[f]
    <3>1. pc[f] # "idle"
      BY <1>5, <1>3, <1>6, <2>5 DEF OwedInv
    <3> QED  BY <2>1, <2>3, <2>5, <3>1
  <2>6. CASE pc[f] \notin {"idle", "lock"} /\ pc'[f] # "lock"
    BY <2>3, <2>6
  <2> QED  BY <1>0, <2>2, <2>4, <2>5, <2>6, FlusherMove
<1>7. rowCount \in Nat /\ rowCount' \in Nat /\ rowCount <= rowCount'
  BY <1>0, CountGrows
<1>8. ASSUME NEW f \in Flushers, NEW rid \in owed'[f] PROVE rid < rowCount'
  BY <1>5, <1>7, <1>8
<1> QED  BY <1>4, <1>6, <1>8 DEF OwedInv

\* When a flush returns, a row it owes is on a page, or in a batch that some
\* other thread owns: the queue is empty, the batches of the pool are blank,
\* and the active one holds none of them.
LEMMA ReturnCovers ==
    ASSUME ScanInv, NEW f \in Flushers, FlushReturn(f), NEW rid \in owed[f]
    PROVE  \/ OnSomePage(rid)
           \/ \E t \in Threads \ {f} : Owns(t) /\ rid \in RowIds(ptr[t])
<1>0. /\ TypeInv /\ PoolConserved /\ RidInv /\ CoverInv /\ OwedInv /\ f \in Threads
  BY Control DEF ScanInv, BaseInv
<1>1. /\ rid \in Nat /\ rid < rowCount /\ rowCount \in Nat /\ pc[f] = "pop" /\ queue = <<>>
      /\ ~(active \in Batches /\ rid \in RowIds(active))
  BY <1>0 DEF OwedInv, FlushReturn, TypeInv, TypeOK
<1>2. rid \in 0 .. rowCount - 1
  BY <1>1
<1>3. CASE \E i \in 1 .. Len(pages) : rid \in PageIds(i)
  BY <1>3 DEF OnSomePage
<1>4. ASSUME NEW b \in Batches, Unwritten(b), rid \in RowIds(b)
      PROVE  \E t \in Threads \ {f} : Owns(t) /\ rid \in RowIds(ptr[t])
  <2>1. active # b
    BY <1>1, <1>4
  <2>2. b \notin free
    BY <1>0, <1>4 DEF RidInv, BlankInv, Unwritten
  <2>3. ~Queued(b)
    BY <1>1 DEF Queued
  <2>4. PICK t \in Threads : Owns(t) /\ ptr[t] = b
    BY <1>0, <2>1, <2>2, <2>3 DEF PoolConserved
  <2>5. t # f
    BY <1>1, <2>4 DEF Owns
  <2> QED  BY <1>4, <2>4, <2>5
<1> QED  BY <1>0, <1>2, <1>3, <1>4 DEF CoverInv

\* Whatever the other threads do meanwhile, a flush_pending that returns kOk
\* leaves no row whose insert had returned before the call behind: it is on a
\* page, or another thread has the batch in its hands.
THEOREM ScanSeesRows == ScanSpec => FlushCovers
<1>1. ScanInit => ScanInv
  <2>1. Init => CoverInv /\ SentInv
    BY FS_EmptySet DEF Init, CoverInv, SentInv
  <2>2. ScanInit => OwedInv
    BY DEF ScanInit, OwedInv
  <2> QED  BY <2>1, <2>2, BaseInit DEF ScanInit, ScanInv
<1>2. ScanInv /\ [ScanNext]_scanVars => ScanInv'
  <2> SUFFICES ASSUME ScanInv, [ScanNext]_scanVars PROVE ScanInv'
    OBVIOUS
  <2>1. [Next]_vars
    BY DEF ScanNext, scanVars
  <2>2. BaseInv' /\ CoverInv' /\ SentInv'
    BY <2>1, BaseStep, CoverStep, SentInvStep DEF ScanInv, BaseInv
  <2>3. CASE ScanNext
    BY <2>2, <2>3, OwedStep DEF ScanInv
  <2>4. CASE UNCHANGED scanVars
    <3>1. OwedInv'
      BY <2>4 DEF ScanInv, OwedInv, RowIds, scanVars, vars, batchVars, threadVars
    <3> QED  BY <2>2, <3>1 DEF ScanInv
  <2> QED  BY <2>3, <2>4
<1>3. ScanInv /\ [ScanNext]_scanVars =>
        [\A f \in Flushers : FlushReturn(f) =>
            \A rid \in owed[f] :
                \/ OnSomePage(rid)
                \/ \E t \in Threads \ {f} : Owns(t) /\ rid \in RowIds(ptr[t])]_scanVars
  BY ReturnCovers
<1> QED  BY <1>1, <1>2, <1>3, PTL DEF ScanSpec, FlushCovers

=============================================================================
