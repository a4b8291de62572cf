----------------------------- MODULE TableIngest -----------------------------
(***************************************************************************)
(* The write path of storage/table.cpp: rows go from insert_rows into the  *)
(* active PendingBatch, from there through the flush queue to a page of    *)
(* the table's file, and commit_rows looks for them in all three places.   *)
(*                                                                         *)
(* A thread is a session (Writers: INSERT, then COMMIT or ROLLBACK) or one *)
(* of the callers of flush_pending (Flushers: the flush handler, the GC,   *)
(* the checkpointer, a SELECT).  The steps of a thread are cut where it    *)
(* gives up or takes a lock, so everything another thread can observe in   *)
(* between is a state of the model.                                        *)
(*                                                                         *)
(* rw_mtx is shared by a writer inside its insert loop and by a flusher    *)
(* between loading active_batch_ and locking it (SharedHeld); a step that  *)
(* takes it exclusively is a single action guarded by ~SharedHeld.         *)
(***************************************************************************)
EXTENDS Integers, Sequences, FiniteSets

CONSTANTS Writers,       \* sessions that insert
          AutoWriters,   \* those of them that run without a transaction
          Flushers,      \* threads that call flush_pending
          Batches,       \* the kMaxBatches PendingBatch objects
          NoBatch,       \* nullptr
          kBatchSize,    \* rows per batch, and per page
          MaxCallRows,   \* bound: rows of one insert_rows call
          MaxRows,       \* bound: rows one session inserts
          MaxFailures    \* bound: failed MmapFile::resize calls

ASSUME IngestAssumption ==
    /\ AutoWriters \subseteq Writers
    /\ Writers \cap Flushers = {}
    /\ NoBatch \notin Batches
    /\ kBatchSize \in Nat \ {0}
    /\ MaxCallRows \in Nat /\ MaxRows \in Nat /\ MaxFailures \in Nat

Threads == Writers \cup Flushers

VARIABLES
    active,     \* active_batch_
    free,       \* free_batches_ (the order of the pool is irrelevant)
    queue,      \* flush_queue_
    startRid,   \* PendingBatch::start_rid
    rows,       \* PendingBatch::col_data and row_ts, one record per row
    rowCount,   \* row_count_
    file,       \* contents of the .raw file, page by page
    mapped,     \* MmapFile::size_, in pages
    pages,      \* pages_, the RowRange index
    vindex,     \* version_index_: set of (row id, ts) entries
    pc,         \* where each thread is
    ptr,        \* the PendingBatch* a thread holds in a local
    left,       \* rows_left of the running insert_rows
    sent,       \* number of rows each session has inserted
    writeSet,   \* row ids returned to it (Transaction::write_set)
    verdict,    \* the stamp commit_rows writes: committed or aborted
    failures    \* resize calls that have failed

batchVars  == <<active, free, queue, startRid, rows, rowCount>>
pageVars   == <<file, mapped, pages>>
threadVars == <<pc, ptr, left, sent, writeSet, verdict>>
vars == <<batchVars, pageVars, vindex, threadVars, failures>>

Stamps == {"open", "committed", "aborted"}

\* One row of a batch: its data (the n-th row of session w) and its row_ts,
\* which is "open" while it holds tx_id | kTxIdFlag.
Row == [w : Writers, n : Nat, ts : Stamps]

WriterPC  == {"idle", "load", "get", "cas", "lock", "push",
              "stampActive", "stampQueue", "stampIndex", "done"}
FlusherPC == {"idle", "lock", "push", "pop", "write", "recycle"}

\* A thread that owns the batch its local points to (a unique_ptr, not a
\* borrowed pointer).
Owns(t) == pc[t] \in {"cas", "push", "write", "recycle"}

SharedHeld == \E t \in Threads :
                 \/ pc[t] = "lock"
                 \/ t \in Writers /\ pc[t] \in {"load", "cas", "push"}

\* A writer keeps the batch's mutex while it pushes the batch it filled.
MutexFree(b) == \A w \in Writers : pc[w] = "push" => ptr[w] # b

RowIds(b) == startRid[b] .. startRid[b] + Len(rows[b]) - 1

Init ==
    /\ active = NoBatch
    /\ free = Batches
    /\ queue = <<>>
    /\ startRid = [b \in Batches |-> 0]
    /\ rows = [b \in Batches |-> <<>>]
    /\ rowCount = 0
    /\ file = <<>> /\ mapped = 0 /\ pages = <<>>
    /\ vindex = {}
    /\ pc = [t \in Threads |-> "idle"]
    /\ ptr = [t \in Threads |-> NoBatch]
    /\ left = [w \in Writers |-> 0]
    /\ sent = [w \in Writers |-> 0]
    /\ writeSet = [w \in Writers |-> {}]
    /\ verdict = [w \in Writers |-> "committed"]
    /\ failures = 0

-----------------------------------------------------------------------------
(* insert_rows; insert_row is the call with one row.                       *)

Goto(t, label, b) ==
    /\ pc' = [pc EXCEPT ![t] = label]
    /\ ptr' = [ptr EXCEPT ![t] = b]

InsertCall(w) ==
    /\ pc[w] = "idle"
    /\ \E n \in 1 .. MaxCallRows :
          /\ sent[w] + n <= MaxRows
          /\ left' = [left EXCEPT ![w] = n]
    /\ Goto(w, "load", NoBatch)
    /\ UNCHANGED <<batchVars, pageVars, vindex, sent, writeSet, verdict, failures>>

\* active_batch_.load(): with no active batch, rw_mtx is released before the
\* wait for a free one.
LoadActive(w) ==
    /\ pc[w] = "load"
    /\ IF active = NoBatch THEN Goto(w, "get", NoBatch) ELSE Goto(w, "lock", active)
    /\ UNCHANGED <<batchVars, pageVars, vindex, left, sent, writeSet, verdict, failures>>

\* get_free_batch waits on pool_cv_ until the pool is not empty.
GetFreeBatch(w) ==
    /\ pc[w] = "get"
    /\ \E b \in free :
          /\ free' = free \ {b}
          /\ Goto(w, "cas", b)
    /\ UNCHANGED <<active, queue, startRid, rows, rowCount, pageVars, vindex,
                   left, sent, writeSet, verdict, failures>>

\* Mutant: a plain store instead of the compare-exchange.
InstallBatchStore(w) ==
    /\ pc[w] = "cas"
    /\ active' = ptr[w]
    /\ Goto(w, "load", NoBatch)
    /\ UNCHANGED <<free, queue, startRid, rows, rowCount, pageVars, vindex,
                   left, sent, writeSet, verdict, failures>>

\* Another writer may have installed a batch meanwhile: ours goes back.
InstallBatch(w) ==
    /\ pc[w] = "cas"
    /\ IF active = NoBatch
       THEN active' = ptr[w] /\ UNCHANGED free
       ELSE free' = free \cup {ptr[w]} /\ UNCHANGED active
    /\ Goto(w, "load", NoBatch)
    /\ UNCHANGED <<queue, startRid, rows, rowCount, pageVars, vindex,
                   left, sent, writeSet, verdict, failures>>

NewRows(w, k) ==
    [i \in 1 .. k |-> [w |-> w, n |-> sent[w] + i,
                       ts |-> IF w \in AutoWriters THEN "committed" ELSE "open"]]

Room(b) == kBatchSize - Len(rows[b])

\* Mutant: the std::min with rows_left is missing.
ToInsertAll(w, b) == Room(b)

ToInsert(w, b) == IF left[w] <= Room(b) THEN left[w] ELSE Room(b)

\* Mutant: a batch keeps the start_rid of its previous use.
BatchStartStale(b) == startRid[b]

\* An empty batch starts at the current row_count_.
BatchStart(b) == IF rows[b] = <<>> THEN rowCount ELSE startRid[b]

\* The critical section under the batch's mutex.  The branch to_insert == 0 is
\* dead: a batch that fills up is detached in the same critical section.
AppendRows(w) ==
    /\ pc[w] = "lock"
    /\ MutexFree(ptr[w])
    /\ active = ptr[w]
    /\ LET b  == ptr[w]
           k  == ToInsert(w, b)
           s0 == BatchStart(b)
           at == s0 + Len(rows[b])
           full == Len(rows[b]) + k >= kBatchSize
       IN /\ startRid' = [startRid EXCEPT ![b] = s0]
          /\ rows' = [rows EXCEPT ![b] = @ \o NewRows(w, k)]
          /\ rowCount' = rowCount + k
          /\ writeSet' = [writeSet EXCEPT ![w] = @ \cup (at .. at + k - 1)]
          /\ sent' = [sent EXCEPT ![w] = @ + k]
          /\ left' = [left EXCEPT ![w] = @ - k]
          /\ active' = IF full THEN NoBatch ELSE active
          /\ IF full THEN Goto(w, "push", b)
             ELSE Goto(w, IF left[w] = k THEN "idle" ELSE "load", NoBatch)
    /\ UNCHANGED <<free, queue, pageVars, vindex, verdict, failures>>

\* The batch was detached between the load and the lock: start over.
AppendRetry(w) ==
    /\ pc[w] = "lock"
    /\ MutexFree(ptr[w])
    /\ active # ptr[w]
    /\ Goto(w, "load", NoBatch)
    /\ UNCHANGED <<batchVars, pageVars, vindex, left, sent, writeSet, verdict, failures>>

\* push_flush_queue of the batch this writer filled.
PushFull(w) ==
    /\ pc[w] = "push"
    /\ queue' = Append(queue, ptr[w])
    /\ Goto(w, IF left[w] = 0 THEN "idle" ELSE "load", NoBatch)
    /\ UNCHANGED <<active, free, startRid, rows, rowCount, pageVars, vindex,
                   left, sent, writeSet, verdict, failures>>

-----------------------------------------------------------------------------
(* commit_rows, called by TransactionManager::commit and ::rollback.       *)

\* Mutant: every row of the batch is stamped, whatever its mark.
StampedAny(w, rid, r) == [r EXCEPT !.ts = verdict[w]]

\* A row of session w whose row_ts is still tx_id | kTxIdFlag takes the stamp.
Stamped(w, rid, r) ==
    IF rid \in writeSet[w] /\ r.w = w /\ r.ts = "open"
    THEN [r EXCEPT !.ts = verdict[w]] ELSE r

StampedRows(w, b) ==
    [i \in 1 .. Len(rows[b]) |-> Stamped(w, startRid[b] + i - 1, rows[b][i])]

CommitCall(w) ==
    /\ pc[w] = "idle"
    /\ w \notin AutoWriters
    /\ writeSet[w] # {}
    /\ \E v \in {"committed", "aborted"} : verdict' = [verdict EXCEPT ![w] = v]
    /\ Goto(w, "stampActive", NoBatch)
    /\ UNCHANGED <<batchVars, pageVars, vindex, left, sent, writeSet, failures>>

\* First the active batch, under rw_mtx shared and the batch's mutex.
StampActive(w) ==
    /\ pc[w] = "stampActive"
    /\ MutexFree(active)
    /\ rows' = IF active = NoBatch THEN rows
               ELSE [rows EXCEPT ![active] = StampedRows(w, active)]
    /\ Goto(w, "stampQueue", NoBatch)
    /\ UNCHANGED <<active, free, queue, startRid, rowCount, pageVars, vindex,
                   left, sent, writeSet, verdict, failures>>

\* Next every batch of the flush queue, under pool_mtx_.
StampQueue(w) ==
    /\ pc[w] = "stampQueue"
    /\ rows' = [b \in Batches |-> IF \E i \in 1 .. Len(queue) : queue[i] = b
                                  THEN StampedRows(w, b) ELSE rows[b]]
    /\ Goto(w, "stampIndex", NoBatch)
    /\ UNCHANGED <<active, free, queue, startRid, rowCount, pageVars, vindex,
                   left, sent, writeSet, verdict, failures>>

\* Last the version index, under rw_mtx exclusive.
StampIndex(w) ==
    /\ pc[w] = "stampIndex"
    /\ ~SharedHeld
    /\ vindex' = {[rid |-> e.rid, row |-> Stamped(w, e.rid, e.row)] : e \in vindex}
    /\ Goto(w, "done", NoBatch)
    /\ UNCHANGED <<batchVars, pageVars, left, sent, writeSet, verdict, failures>>

-----------------------------------------------------------------------------
(* flush_pending.                                                          *)

FlushBegin(f) ==
    /\ pc[f] = "idle"
    /\ IF active = NoBatch THEN Goto(f, "pop", NoBatch) ELSE Goto(f, "lock", active)
    /\ UNCHANGED <<batchVars, pageVars, vindex, left, sent, writeSet, verdict, failures>>

\* Mutant: only a full batch is detached.
FlushDetachFull(f) ==
    /\ pc[f] = "lock"
    /\ MutexFree(ptr[f])
    /\ IF active = ptr[f] /\ Len(rows[ptr[f]]) = kBatchSize
       THEN active' = NoBatch /\ Goto(f, "push", ptr[f])
       ELSE UNCHANGED active /\ Goto(f, "pop", NoBatch)
    /\ UNCHANGED <<free, queue, startRid, rows, rowCount, pageVars, vindex,
                   left, sent, writeSet, verdict, failures>>

\* Under the batch's mutex: detach it if it is still active and not empty.
FlushDetach(f) ==
    /\ pc[f] = "lock"
    /\ MutexFree(ptr[f])
    /\ IF active = ptr[f] /\ rows[ptr[f]] # <<>>
       THEN active' = NoBatch /\ Goto(f, "push", ptr[f])
       ELSE UNCHANGED active /\ Goto(f, "pop", NoBatch)
    /\ UNCHANGED <<free, queue, startRid, rows, rowCount, pageVars, vindex,
                   left, sent, writeSet, verdict, failures>>

\* No lock is held any more when the detached batch is queued.
FlushPush(f) ==
    /\ pc[f] = "push"
    /\ queue' = Append(queue, ptr[f])
    /\ Goto(f, "pop", NoBatch)
    /\ UNCHANGED <<active, free, startRid, rows, rowCount, pageVars, vindex,
                   left, sent, writeSet, verdict, failures>>

\* Mutant: a batch that is not full is recycled unwritten.
FlushPopDrop(f) ==
    /\ pc[f] = "pop"
    /\ queue # <<>>
    /\ queue' = Tail(queue)
    /\ Goto(f, IF Room(Head(queue)) = 0 THEN "write" ELSE "recycle", Head(queue))
    /\ UNCHANGED <<active, free, startRid, rows, rowCount, pageVars, vindex,
                   left, sent, writeSet, verdict, failures>>

\* pop_flush_queue; with an empty queue flush_pending returns kOk.
FlushPop(f) ==
    /\ pc[f] = "pop"
    /\ queue # <<>>
    /\ queue' = Tail(queue)
    /\ Goto(f, "write", Head(queue))
    /\ UNCHANGED <<active, free, startRid, rows, rowCount, pageVars, vindex,
                   left, sent, writeSet, verdict, failures>>

FlushReturn(f) ==
    /\ pc[f] = "pop"
    /\ queue = <<>>
    /\ Goto(f, "idle", NoBatch)
    /\ UNCHANGED <<batchVars, pageVars, vindex, left, sent, writeSet, verdict, failures>>

\* Mutant: the new page replaces the last one.
ExtendedFileOverwrite(b) == Append(SubSeq(file, 1, mapped - 1), rows[b])

\* page_id is MmapFile::size_, and the file is resized to end with the new
\* page: what lies beyond the mapped size is cut off.
ExtendedFile(b) == Append(SubSeq(file, 1, mapped), rows[b])

\* write_batch_to_page, under rw_mtx exclusive.
WritePage(f) ==
    /\ pc[f] = "write"
    /\ ~SharedHeld
    /\ LET b == ptr[f]
       IN /\ file' = ExtendedFile(b)
          /\ mapped' = mapped + 1
          /\ pages' = Append(pages, [start |-> startRid[b], count |-> Len(rows[b]),
                                     page |-> mapped + 1])
          /\ vindex' = vindex \cup
                {[rid |-> startRid[b] + i - 1, row |-> rows[b][i]] : i \in 1 .. Len(rows[b])}
    /\ Goto(f, "recycle", ptr[f])
    /\ UNCHANGED <<batchVars, left, sent, writeSet, verdict, failures>>

\* MmapFile::resize fails: do_munmap has already cleared size_, so the test
\* that guards the restoring mmap never holds and the file stays unmapped.
\* The batch goes to the back of the queue and the error is returned.
WriteFail(f) ==
    /\ pc[f] = "write"
    /\ ~SharedHeld
    /\ failures < MaxFailures
    /\ failures' = failures + 1
    /\ mapped' = 0
    /\ queue' = Append(queue, ptr[f])
    /\ Goto(f, "idle", NoBatch)
    /\ UNCHANGED <<active, free, startRid, rows, rowCount, file, pages, vindex,
                   left, sent, writeSet, verdict>>

\* Mutant: the batch never returns to the pool.
RecycleLeak(f) ==
    /\ pc[f] = "recycle"
    /\ rows' = [rows EXCEPT ![ptr[f]] = <<>>]
    /\ Goto(f, "pop", NoBatch)
    /\ UNCHANGED <<active, free, queue, startRid, rowCount, pageVars, vindex,
                   left, sent, writeSet, verdict, failures>>

\* return_free_batch.
Recycle(f) ==
    /\ pc[f] = "recycle"
    /\ rows' = [rows EXCEPT ![ptr[f]] = <<>>]
    /\ free' = free \cup {ptr[f]}
    /\ Goto(f, "pop", NoBatch)
    /\ UNCHANGED <<active, queue, startRid, rowCount, pageVars, vindex,
                   left, sent, writeSet, verdict, failures>>

-----------------------------------------------------------------------------
InsertStep(w) ==
    \/ LoadActive(w) \/ GetFreeBatch(w) \/ InstallBatch(w)
    \/ AppendRows(w) \/ AppendRetry(w) \/ PushFull(w)

CommitStep(w) == StampActive(w) \/ StampQueue(w) \/ StampIndex(w)

FlushStep(f) ==
    \/ FlushBegin(f) \/ FlushDetach(f) \/ FlushPush(f) \/ FlushPop(f)
    \/ FlushReturn(f) \/ WritePage(f) \/ Recycle(f)

Next ==
    \/ \E w \in Writers : InsertCall(w) \/ InsertStep(w) \/ CommitCall(w) \/ CommitStep(w)
    \/ \E f \in Flushers : FlushStep(f) \/ WriteFail(f)

Spec == Init /\ [][Next]_vars

\* Sessions call insert and commit when they like; a call that was made goes
\* on, and the background threads call flush_pending for ever.  They sleep
\* between two calls, so rw_mtx is free again and again and a page write that
\* waits for it is granted it: strong fairness for WritePage.
Fairness ==
    /\ \A w \in Writers : WF_vars(InsertStep(w)) /\ SF_vars(CommitStep(w))
    /\ \A f \in Flushers : WF_vars(FlushStep(f)) /\ SF_vars(WritePage(f))

FairSpec == Spec /\ Fairness

-----------------------------------------------------------------------------
(* Properties.                                                             *)

\* The types of the variables: batches, pages, index and the locals of the
\* threads (Table, PendingBatch, insert_rows, flush_pending).
TypeOK ==
    /\ active \in Batches \cup {NoBatch}
    /\ free \in SUBSET Batches
    /\ queue \in Seq(Batches)
    /\ startRid \in [Batches -> Nat]
    /\ rows \in [Batches -> Seq(Row)]
    /\ rowCount \in Nat
    /\ file \in Seq(Seq(Row)) /\ mapped \in Nat
    /\ pages \in Seq([start : Nat, count : Nat, page : Nat])
    /\ vindex \in SUBSET [rid : Nat, row : Row]
    /\ pc \in [Threads -> WriterPC \cup FlusherPC]
    /\ \A w \in Writers : pc[w] \in WriterPC
    /\ \A f \in Flushers : pc[f] \in FlusherPC
    /\ ptr \in [Threads -> Batches \cup {NoBatch}]
    /\ left \in [Writers -> Nat]
    /\ sent \in [Writers -> Nat]
    /\ writeSet \in [Writers -> SUBSET Nat]
    /\ verdict \in [Writers -> Stamps]
    /\ failures \in Nat

Queued(b) == \E i \in 1 .. Len(queue) : queue[i] = b

\* The pool neither loses nor shares a PendingBatch, whatever the order of the
\* compare-exchanges on active_batch_, the pushes and the pops: every batch is
\* in exactly one of active_batch_, the free list, the flush queue (once) and
\* the hands of one thread.
PoolConserved ==
    /\ \A b \in Batches :
          \/ active = b \/ b \in free \/ Queued(b)
          \/ \E t \in Threads : Owns(t) /\ ptr[t] = b
    /\ active \notin free /\ ~Queued(active)
    /\ \A b \in free : ~Queued(b)
    /\ \A i, j \in 1 .. Len(queue) : queue[i] = queue[j] => i = j
    /\ \A t \in Threads : Owns(t) =>
          /\ ptr[t] \in Batches
          /\ ptr[t] # active /\ ptr[t] \notin free /\ ~Queued(ptr[t])
          /\ \A u \in Threads : Owns(u) /\ ptr[u] = ptr[t] => u = t

\* A batch that is written but not yet recycled holds copies of its page's
\* rows; every other batch with rows is their only home.
Unwritten(b) == /\ rows[b] # <<>>
                /\ \A t \in Threads : pc[t] = "recycle" => ptr[t] # b

PageIds(i) == pages[i].start .. pages[i].start + pages[i].count - 1

\* insert_rows hands out every row id once, from a counter that two batches
\* read at different times: no id is claimed by two batches, by a batch and a
\* page or by two pages.
RowIdsUnique ==
    /\ \A b, c \in Batches :
          b # c /\ Unwritten(b) /\ Unwritten(c) => RowIds(b) \cap RowIds(c) = {}
    /\ \A b \in Batches, i \in 1 .. Len(pages) :
          Unwritten(b) => RowIds(b) \cap PageIds(i) = {}
    /\ \A i, j \in 1 .. Len(pages) : i # j => PageIds(i) \cap PageIds(j) = {}

\* ... and none is skipped: the ids below row_count_ are exactly those of the
\* pages and of the batches on their way to one.
RowIdsDense ==
    0 .. rowCount - 1 = UNION ({PageIds(i) : i \in 1 .. Len(pages)}
                               \cup {RowIds(b) : b \in {c \in Batches : Unwritten(c)}})

\* Row ids are handed to a session in increasing order: the one with k ids up
\* to it was returned for the session's k-th row.
IsRow(r, w, rid) == r.w = w /\ r.n = Cardinality({x \in writeSet[w] : x <= rid})

\* The page index leads row id rid to that row of the file.
OnPage(rid, w) ==
    \E i \in 1 .. Len(pages) :
        /\ rid \in PageIds(i)
        /\ pages[i].page <= Len(file)
        /\ rid - pages[i].start < Len(file[pages[i].page])
        /\ IsRow(file[pages[i].page][rid - pages[i].start + 1], w, rid)

InBatch(rid, w) ==
    \E b \in Batches : /\ Unwritten(b) /\ rid \in RowIds(b)
                       /\ IsRow(rows[b][rid - startRid[b] + 1], w, rid)

\* A row id that insert_rows returned keeps leading to the row that was
\* inserted under it, from the batch to its page, for as long as the table
\* lives.  One failed resize ends that: MmapFile forgets the size of the file
\* and the next page is written over the first (see WriteFail).
ReturnedIdKeepsRow ==
    failures = 0 =>
        \A w \in Writers : \A rid \in writeSet[w] : InBatch(rid, w) \/ OnPage(rid, w)

\* Once commit_rows has returned, no row of the transaction is left with the
\* transaction's mark: COMMIT makes all of them visible, ROLLBACK none.
CommitStampsEveryRow ==
    \A w \in Writers : pc[w] = "done" =>
        /\ \A b \in Batches : Unwritten(b) =>
              \A i \in 1 .. Len(rows[b]) : rows[b][i].w = w => rows[b][i].ts = verdict[w]
        /\ \A e \in vindex : e.row.w = w => e.row.ts = verdict[w]

\* commit_rows is the only way out of "open", and only for its own rows: a row
\* of a session still inserting never carries a verdict, a row of a finished
\* one never the opposite verdict, and a row inserted without a transaction
\* stays committed whoever rolls back around it.
NoForeignStamp ==
    LET ok(r) == IF r.w \in AutoWriters THEN r.ts = "committed"
                 ELSE \/ r.ts = "open"
                      \/ /\ pc[r.w] \in {"stampQueue", "stampIndex", "done"}
                         /\ r.ts = verdict[r.w]
    IN /\ \A b \in Batches : \A i \in 1 .. Len(rows[b]) : ok(rows[b][i])
       /\ \A e \in vindex : ok(e.row)

\* A blocked insert returns: a writer that waits for a free batch gets one
\* because the background flushes return theirs.
InsertReturns == \A w \in Writers : (pc[w] = "load") ~> (pc[w] = "idle")

\* Every row that was inserted reaches a page.
RowsReachPages ==
    \A b \in Batches : (rows[b] # <<>>) ~> (rows[b] = <<>>)

=============================================================================
