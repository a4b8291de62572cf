---------------------------- MODULE IndexedTable ----------------------------
(***************************************************************************)
(* A table, its index and the statements that write them: INSERT, UPDATE,  *)
(* DELETE, CREATE INDEX and VACUUM (Executor, Database, Table::vacuum).    *)
(*                                                                         *)
(* A statement runs in several steps and holds no lock from one to the     *)
(* next; VACUUM holds tables_mtx_, which no other statement takes.  The    *)
(* B-tree is what IndexMap promises, a set of pairs of a key and a row id, *)
(* unless an insertion fails.  A batch is written to its page by           *)
(* flush_pending in one step (TableIngest has the steps); a row has an     *)
(* identity that UPDATE keeps, so that the properties can follow it.       *)
(***************************************************************************)
EXTENDS Integers, SequencesExt, TLC

CONSTANTS
    Sessions, None,
    Keys,               \* values of the indexed column
    kBatchSize,         \* rows in a page
    Loaded,             \* rows in the table at the start
    MaxRows,            \* bound: rows inserted, by INSERT
    MaxWrites,          \* bound: UPDATE and DELETE statements
    MaxVacuums,         \* bound: VACUUM statements
    MaxFailures         \* bound: log appends, index insertions and pages that fail

Ids == 1 .. MaxRows

VARIABLES
    rowCount,       \* row_count_
    pending,        \* active_batch_ behind the batches of flush_queue_
    pages,          \* pages_ and the file
    vindex,         \* version_index_: [rid, ts, by, dead]
    clock,          \* TimestampAllocator
    indexed,        \* indexes_ is not empty
    idx,            \* the pairs in the index
    pc, local,      \* where each session is, and its local variables
    inserts, writes, vacuums, failures, created,    \* against the bounds
    expect,         \* ghost: the key of each row the statements so far leave, or None
    lost,           \* ghost: the rows an UPDATE deleted before it failed
    flaws           \* ghost: the races and failures there have been, below

(***************************************************************************)
(* flaws, each one a thing after which some property no longer holds:      *)
(*   "vacuum"       a statement or an open transaction overlapped a VACUUM *)
(*   "unwritten"    VACUUM's page write failed and its status was ignored  *)
(*   "clash"        delete_rows hit a row that another statement had       *)
(*                  deleted since the scan                                 *)
(*   "stray"        start_rid + i was not the row id insert_batch gave     *)
(*   "unindexed"    a row was inserted with has_indexes false while there  *)
(*                  was an index or one was being built                    *)
(*   "indexFailed"  BTree::insert failed                                   *)
(***************************************************************************)

table == <<rowCount, pending, pages, vindex, clock>>
index == <<indexed, idx>>
bounds == <<inserts, writes, vacuums, failures, created>>
ghosts == <<expect, lost, flaws>>
vars == <<table, index, pc, local, bounds, ghosts>>

\* A stamp is a timestamp, or belongs to a transaction that has not committed.
Stamp(ts, by) == [ts |-> ts, by |-> by]

Start == [kind |-> "none", txn |-> FALSE, rows |-> <<>>, rids |-> <<>>, start |-> 0, has |-> FALSE]

Entries(batch) ==
    {[rid |-> batch.start + i - 1, ts |-> batch.rows[i].ts, by |-> batch.rows[i].by, dead |-> FALSE] :
        i \in DOMAIN batch.rows}

\* A table some INSERTs have filled and a checkpoint has flushed.
LoadedPages(keys) ==
    [p \in 1 .. (Loaded + kBatchSize - 1) \div kBatchSize |->
        LET from == (p - 1) * kBatchSize
            n == IF Loaded - from < kBatchSize THEN Loaded - from ELSE kBatchSize
        IN [start |-> from,
            rows |-> [i \in 1 .. n |-> [id |-> from + i, key |-> keys[from + i]] @@ Stamp(from + i, None)]]]

Init ==
    /\ \E keys \in [1 .. Loaded -> Keys] :
          /\ pages = LoadedPages(keys)
          /\ expect = [i \in Ids |-> IF i <= Loaded THEN keys[i] ELSE None]
    /\ vindex = UNION {Entries(b) : b \in ToSet(pages)}
    /\ rowCount = Loaded /\ clock = Loaded /\ inserts = Loaded
    /\ pending = <<>>
    /\ indexed = FALSE /\ idx = {}
    /\ pc = [s \in Sessions |-> "idle"]
    /\ local = [s \in Sessions |-> Start]
    /\ writes = 0 /\ vacuums = 0 /\ failures = 0 /\ created = FALSE
    /\ lost = {} /\ flaws = {}

-----------------------------------------------------------------------------
(* The table.                                                              *)

\* The row behind a version is the last committed one, if that is no tombstone.
VisibleIn(vx, rid) ==
    \E e \in vx : /\ e.rid = rid /\ e.by = None /\ ~e.dead
                  /\ ~\E f \in vx : f.rid = rid /\ f.by = None /\ f.ts > e.ts

\* flush_pending: pages_ and version_index_ as they are after it.
FlushedPages == pages \o pending
FlushedIndex == vindex \cup UNION {Entries(b) : b \in ToSet(pending)}
FlushPending == pages' = FlushedPages /\ vindex' = FlushedIndex /\ pending' = <<>>

\* read_table_columns: a row's place in the scan is taken for its row id.
ScanOf(pgs) == FlattenSeq([i \in DOMAIN pgs |-> pgs[i].rows])

\* Row ids in the scan that are visible and match.
Matching(scan, vx, k) ==
    SelectSeq([i \in DOMAIN scan |-> i - 1], LAMBDA rid : scan[rid + 1].key = k /\ VisibleIn(vx, rid))

\* One row of insert_rows: into the active batch, or a new one.
PutRow(t, row) ==
    IF t.pend # <<>> /\ Len(Last(t.pend).rows) < kBatchSize
    THEN LET n == Len(t.pend)
         IN [pend |-> [t.pend EXCEPT ![n].rows = Append(@, row)], count |-> t.count + 1,
             rids |-> Append(t.rids, t.pend[n].start + Len(t.pend[n].rows))]
    ELSE [pend |-> Append(t.pend, [start |-> t.count, rows |-> <<row>>]), count |-> t.count + 1,
          rids |-> Append(t.rids, t.count)]

\* Table::read_rows: the last page that starts at or before the row.
ReadRow(pgs, rid) ==
    LET n == Len(pgs)
        cut[lo \in 0 .. n, hi \in 0 .. n] ==
            IF lo >= hi THEN lo
            ELSE LET mid == lo + (hi - lo) \div 2
                 IN IF rid < pgs[mid + 1].start THEN cut[lo, mid] ELSE cut[mid + 1, hi]
        p == cut[0, n]
    IN IF p # 0 /\ rid < pgs[p].start + Len(pgs[p].rows)
       THEN pgs[p].rows[rid - pgs[p].start + 1] ELSE [id |-> 0, key |-> None]

-----------------------------------------------------------------------------
(* Statements begin and end.                                               *)

Vacuuming == \E s \in Sessions : local[s].kind = "vacuum"
Building == \E s \in Sessions : pc[s] = "build"

\* A statement that runs beside a VACUUM, or a transaction open across it.
Beside(s, kind) ==
    IF kind = "vacuum" THEN \E q \in Sessions \ {s} : pc[q] # "idle"
    ELSE Vacuuming

Goto(s, step) == pc' = [pc EXCEPT ![s] = step]

Flawed(flaw, when) == flaws' = flaws \cup (IF when THEN {flaw} ELSE {})

Begin(s, kind, step, l) ==
    /\ pc[s] = "idle"
    /\ pc' = [pc EXCEPT ![s] = step]
    /\ local' = [local EXCEPT ![s] = [l EXCEPT !.kind = kind]]
    /\ Flawed("vacuum", Beside(s, kind))

\* A transaction stays open behind its INSERT.
End(s) ==
    /\ Goto(s, IF local[s].txn THEN "open" ELSE "idle")
    /\ local' = IF local[s].txn THEN local ELSE [local EXCEPT ![s] = Start]

Fails == failures < MaxFailures /\ failures' = failures + 1

-----------------------------------------------------------------------------
(* INSERT, and the second half of UPDATE.                                  *)

\* execute_insert reads row_count and has_indexes before anything else.
Arriving(l) == [l EXCEPT !.start = rowCount, !.has = indexed]

Insert(s, k, txn) ==
    /\ inserts < MaxRows /\ inserts' = inserts + 1
    /\ Begin(s, "insert", "put",
             Arriving([Start EXCEPT !.txn = txn, !.rows = <<[id |-> inserts + 1, key |-> k]>>]))
    /\ UNCHANGED <<table, index, writes, vacuums, failures, created, expect, lost>>

\* The rows go into the table: Database::insert_batch.
Put(s) ==
    LET new == local[s].rows
        by == IF local[s].txn THEN s ELSE None
        row(i) == new[i] @@ Stamp(IF local[s].txn THEN 0 ELSE clock + i, by)
        t == FoldLeft(PutRow, [pend |-> pending, count |-> rowCount, rids |-> <<>>],
                      [i \in DOMAIN new |-> row(i)])
        told == [i \in DOMAIN new |-> local[s].start + i - 1]
    IN /\ pc[s] = "put"
       /\ pending' = t.pend /\ rowCount' = t.count
       /\ clock' = IF local[s].txn THEN clock ELSE clock + Len(new)
       /\ expect' = [i \in Ids |-> IF ~local[s].txn /\ \E r \in ToSet(new) : r.id = i
                                   THEN (CHOOSE r \in ToSet(new) : r.id = i).key ELSE expect[i]]
       /\ flaws' = flaws \cup (IF local[s].has /\ t.rids # told THEN {"stray"} ELSE {})
                         \cup (IF ~local[s].has /\ (indexed \/ Building) THEN {"unindexed"} ELSE {})
       /\ IF local[s].has THEN Goto(s, "index") /\ UNCHANGED local ELSE End(s)
       /\ UNCHANGED <<pages, vindex, index, bounds, lost>>

\* The log append fails: an UPDATE's rows are gone by now.
PutFails(s) ==
    /\ pc[s] = "put" /\ Fails
    /\ lost' = IF local[s].kind = "update" THEN lost \cup {r.id : r \in ToSet(local[s].rows)} ELSE lost
    /\ Goto(s, "idle") /\ local' = [local EXCEPT ![s] = Start]
    /\ UNCHANGED <<table, index, inserts, writes, vacuums, created, expect, flaws>>

Pairs(rows, start) == {<<rows[i].key, start + i - 1>> : i \in DOMAIN rows}

\* The index gets start_rid + i, not the row ids insert_batch returned.
IndexRows(s) ==
    /\ pc[s] = "index"
    /\ idx' = IF indexed THEN idx \cup Pairs(local[s].rows, local[s].start) ELSE idx
    /\ End(s)
    /\ UNCHANGED <<table, indexed, bounds, ghosts>>

\* BTree::insert fails for some row: the statement fails, its rows stay.
IndexRowsFails(s) ==
    /\ pc[s] = "index" /\ indexed /\ Fails
    /\ \E n \in 0 .. Len(local[s].rows) - 1 :
          idx' = idx \cup Pairs(SubSeq(local[s].rows, 1, n), local[s].start)
    /\ flaws' = flaws \cup {"indexFailed"}
    /\ End(s)
    /\ UNCHANGED <<table, indexed, inserts, writes, vacuums, created, expect, lost>>

\* COMMIT: the rows get the timestamp wherever they are.
Commit(s) ==
    LET settle(e) == IF e.by = s THEN [e EXCEPT !.ts = clock + 1, !.by = None] ELSE e
    IN /\ pc[s] = "open"
       /\ clock' = clock + 1
       /\ pending' = [i \in DOMAIN pending |->
                         [pending[i] EXCEPT !.rows = [j \in DOMAIN @ |-> settle(@[j])]]]
       /\ pages' = [i \in DOMAIN pages |->
                         [pages[i] EXCEPT !.rows = [j \in DOMAIN @ |-> settle(@[j])]]]
       /\ vindex' = {settle(e) : e \in vindex}
       /\ expect' = [i \in Ids |-> IF i = local[s].rows[1].id THEN local[s].rows[1].key ELSE expect[i]]
       /\ Goto(s, "idle") /\ local' = [local EXCEPT ![s] = Start]
       /\ UNCHANGED <<rowCount, index, bounds, lost, flaws>>

-----------------------------------------------------------------------------
(* DELETE and UPDATE.                                                      *)

\* flush_pending, the scan and the targets; k is the key in WHERE.
Target(s, kind, k, to) ==
    LET scan == ScanOf(FlushedPages)
        rids == Matching(scan, FlushedIndex, k)
        row(rid) == [id |-> scan[rid + 1].id, key |-> to]
    IN /\ writes < MaxWrites /\ writes' = writes + 1
       /\ pc[s] = "idle" /\ rids # <<>>
       /\ FlushPending
       /\ Begin(s, kind, "delete", [Start EXCEPT !.rids = rids, !.rows = [i \in DOMAIN rids |-> row(rids[i])]])
       /\ UNCHANGED <<rowCount, clock, index, inserts, vacuums, failures, created, expect, lost>>

\* An UPDATE that leaves the key as it is behaves like one of another column;
\* Next has only those that change it.
Delete(s, k) == Target(s, "delete", k, k)
Update(s, k, to) == Target(s, "update", k, to)

\* Database::delete_rows; nothing asks whether the rows are still there.
DeleteRows(s) ==
    LET rids == ToSet(local[s].rids)
    IN /\ pc[s] = "delete"
       /\ clock' = clock + 1
       /\ vindex' = vindex \cup {[rid |-> r, ts |-> clock + 1, by |-> None, dead |-> TRUE] : r \in rids}
       /\ Flawed("clash", \E r \in rids : ~VisibleIn(vindex, r))
       /\ IF local[s].kind = "update" THEN Goto(s, "again") /\ UNCHANGED <<local, expect>>
          ELSE /\ End(s)
               /\ expect' = [i \in Ids |-> IF \E r \in ToSet(local[s].rows) : r.id = i THEN None ELSE expect[i]]
       /\ UNCHANGED <<rowCount, pending, pages, index, bounds, lost>>

DeleteRowsFails(s) ==
    /\ pc[s] = "delete" /\ Fails
    /\ End(s)
    /\ UNCHANGED <<table, index, inserts, writes, vacuums, created, ghosts>>

\* UPDATE calls execute_insert.
Again(s) ==
    /\ pc[s] = "again"
    /\ Goto(s, "put") /\ local' = [local EXCEPT ![s] = Arriving(@)]
    /\ UNCHANGED <<table, index, bounds, ghosts>>

\* flush_pending by a SELECT, a statement without targets or a checkpoint.
Flush ==
    /\ pending # <<>>
    /\ FlushPending
    /\ UNCHANGED <<rowCount, clock, index, pc, local, bounds, ghosts>>

-----------------------------------------------------------------------------
(* CREATE INDEX.                                                           *)

\* BTree::create, flush_pending and the scan; one index is created.
CreateIndex(s) ==
    /\ ~created /\ created' = TRUE
    /\ FlushPending
    /\ Begin(s, "create", "build", [Start EXCEPT !.rows = ScanOf(FlushedPages)])
    /\ UNCHANGED <<rowCount, clock, index, inserts, writes, vacuums, failures, expect, lost>>

\* The pairs a build makes of a scan: row_count is read again, and positions
\* behind the end of the scan give any key.
Built(scan) ==
    {Pairs(scan, 0) \cup {<<junk[r], r>> : r \in DOMAIN junk} :
        junk \in [Len(scan) .. rowCount - 1 -> Keys]}
AddIndex(scan) ==
    /\ indexed' = TRUE
    /\ idx' \in Built(SubSeq(scan, 1, IF rowCount < Len(scan) THEN rowCount ELSE Len(scan)))

Build(s) ==
    /\ pc[s] = "build"
    /\ AddIndex(local[s].rows)
    /\ End(s)
    /\ UNCHANGED <<table, bounds, ghosts>>

BuildFails(s) ==
    /\ pc[s] = "build" /\ rowCount > 0 /\ Fails
    /\ End(s)
    /\ UNCHANGED <<table, index, inserts, writes, vacuums, created, ghosts>>

-----------------------------------------------------------------------------
(* VACUUM.                                                                 *)

\* Mutant: the index is left as it is.
VacuumKeepIndex(s) ==
    /\ vacuums < MaxVacuums /\ vacuums' = vacuums + 1
    /\ ~Vacuuming
    /\ FlushPending
    /\ Begin(s, "vacuum", "collect", Start)
    /\ UNCHANGED <<rowCount, clock, index, inserts, writes, failures, created, expect, lost>>

\* The indexes are closed and removed, then flush_pending.
Vacuum(s) ==
    /\ vacuums < MaxVacuums /\ vacuums' = vacuums + 1
    /\ ~Vacuuming
    /\ FlushPending
    /\ indexed' = FALSE /\ idx' = {}
    /\ Begin(s, "vacuum", "collect", [Start EXCEPT !.has = indexed])
    /\ UNCHANGED <<rowCount, clock, inserts, writes, failures, created, expect, lost>>

\* Mutant: rows with a tombstone are kept.
CollectDead(s) ==
    LET rids == [i \in 1 .. rowCount |-> i - 1]
    IN /\ pc[s] = "collect"
       /\ clock' = IF rowCount = 0 THEN clock ELSE clock + 1
       /\ local' = [local EXCEPT ![s].rows = [i \in DOMAIN rids |-> ReadRow(pages \o pending, rids[i])]]
       /\ Goto(s, IF rids = <<>> THEN "rebuild" ELSE "reset")
       /\ UNCHANGED <<rowCount, pages, vindex, pending, index, bounds, ghosts>>

\* The rows that are alive, in the order of their row ids, are read.
Collect(s) ==
    LET rids == SelectSeq([i \in 1 .. rowCount |-> i - 1], LAMBDA r : VisibleIn(vindex, r))
        pgs == pages \o pending
    IN /\ pc[s] = "collect"
       /\ clock' = IF rowCount = 0 THEN clock ELSE clock + 1
       /\ local' = [local EXCEPT ![s].rows = [i \in DOMAIN rids |-> ReadRow(pgs, rids[i])]]
       /\ IF rids = <<>> /\ rowCount # 0
          THEN rowCount' = 0 /\ pages' = <<>> /\ vindex' = {}
          ELSE UNCHANGED <<rowCount, pages, vindex>>
       /\ Goto(s, IF rids = <<>> THEN "rebuild" ELSE "reset")
       /\ UNCHANGED <<pending, index, bounds, ghosts>>

\* Mutant: the file keeps its pages.
ResetNoResize(s) ==
    /\ pc[s] = "reset"
    /\ rowCount' = 0 /\ vindex' = {}
    /\ Goto(s, "rewrite")
    /\ UNCHANGED <<pages, pending, clock, index, local, bounds, ghosts>>

Reset(s) ==
    /\ pc[s] = "reset"
    /\ rowCount' = 0 /\ pages' = <<>> /\ vindex' = {}
    /\ Goto(s, "rewrite")
    /\ UNCHANGED <<pending, clock, index, local, bounds, ghosts>>

\* The next batch VACUUM writes, and where it is afterwards.
NextBatch(s) ==
    LET n == Len(local[s].rows)
        to == IF local[s].start + kBatchSize < n THEN local[s].start + kBatchSize ELSE n
    IN [start |-> local[s].start,
        rows |-> [i \in 1 .. to - local[s].start |->
                     local[s].rows[local[s].start + i] @@ Stamp(clock + 1, None)]]
Written(s) ==
    LET to == local[s].start + Len(NextBatch(s).rows)
    IN /\ clock' = clock + 1
       /\ rowCount' = to
       /\ local' = [local EXCEPT ![s].start = to]
       /\ Goto(s, IF to = Len(local[s].rows) THEN "rebuild" ELSE "rewrite")

Rewrite(s) ==
    /\ pc[s] = "rewrite"
    /\ pages' = Append(pages, NextBatch(s))
    /\ vindex' = vindex \cup Entries(NextBatch(s))
    /\ Written(s)
    /\ UNCHANGED <<pending, index, bounds, ghosts>>

\* The status of write_batch_to_page is not looked at.  (What a failed resize
\* does to the file is TableIngest's subject; nothing is claimed from here on.)
RewriteFails(s) ==
    /\ pc[s] = "rewrite" /\ Fails
    /\ flaws' = flaws \cup {"unwritten"}
    /\ Written(s)
    /\ UNCHANGED <<pending, pages, vindex, index, inserts, writes, vacuums, created, expect, lost>>

\* The saved indexes are built from a scan.
Rebuild(s) ==
    /\ pc[s] = "rebuild"
    /\ IF local[s].has THEN AddIndex(ScanOf(pages)) ELSE UNCHANGED index
    /\ End(s)
    /\ UNCHANGED <<table, bounds, ghosts>>

\* BTree::create or BTree::insert fails: the index is gone.
RebuildFails(s) ==
    /\ pc[s] = "rebuild" /\ local[s].has /\ Fails
    /\ End(s)
    /\ UNCHANGED <<table, index, inserts, writes, vacuums, created, ghosts>>

-----------------------------------------------------------------------------
Next ==
    \/ \E s \in Sessions, k \in Keys :
          \/ \E txn \in BOOLEAN : Insert(s, k, txn)
          \/ Delete(s, k)
          \/ \E to \in Keys \ {k} : Update(s, k, to)
    \/ \E s \in Sessions :
          \/ Put(s) \/ PutFails(s) \/ IndexRows(s) \/ IndexRowsFails(s) \/ Commit(s)
          \/ DeleteRows(s) \/ DeleteRowsFails(s) \/ Again(s)
          \/ CreateIndex(s) \/ Build(s) \/ BuildFails(s)
          \/ Vacuum(s) \/ Collect(s) \/ Reset(s) \/ Rewrite(s) \/ RewriteFails(s)
          \/ Rebuild(s) \/ RebuildFails(s)
    \/ Flush

Spec == Init /\ [][Next]_vars

-----------------------------------------------------------------------------
(* Properties.                                                             *)

Sound(set) == flaws \cap set = {}

\* The place of a row in a scan is its row id, and row_count counts the rows:
\* UPDATE, DELETE, CREATE INDEX and VACUUM rest on it; and no batch or page
\* holds more than kBatchSize rows.  Exceptions: a statement beside a VACUUM,
\* and a page VACUUM could not write.
PositionIsRid ==
    Sound({"vacuum", "unwritten"}) =>
        LET all == FlushedPages
        IN /\ \A i \in DOMAIN all : /\ all[i].start = Len(ScanOf(SubSeq(all, 1, i - 1)))
                                   /\ Len(all[i].rows) \in 1 .. kBatchSize
           /\ (\A s \in Sessions : pc[s] # "rewrite") => rowCount = Len(ScanOf(all))

\* The rows a statement has taken out of the table and not put back.
InTransit ==
    UNION {CASE pc[s] \in {"again", "put"} /\ local[s].kind = "update" -> {r.id : r \in ToSet(local[s].rows)}
             [] pc[s] = "rewrite" -> {local[s].rows[i].id : i \in local[s].start + 1 .. Len(local[s].rows)}
             [] OTHER -> {} : s \in Sessions}

\* Every row that was inserted and not deleted is there once, with the key of
\* its last UPDATE, and no other row is; a row can be missing while UPDATE or
\* VACUUM has it, and is gone when the second half of an UPDATE fails.
\* Exceptions: those of PositionIsRid, and two UPDATEs or DELETEs that chose
\* the same row, after which both UPDATEs' versions stay.
RowsKept ==
    Sound({"vacuum", "unwritten", "clash"}) =>
        LET scan == ScanOf(FlushedPages)
            vx == FlushedIndex
            there == {r \in DOMAIN scan : VisibleIn(vx, r - 1)}
            copies(i) == {r \in there : scan[r].id = i}
        IN \A i \in Ids :
              IF expect[i] = None \/ i \in InTransit \cup lost THEN copies(i) = {}
              ELSE \E r \in DOMAIN scan : copies(i) = {r} /\ scan[r].key = expect[i]

\* When no statement is running, a lookup by the index and a scan with the
\* same key give the same rows.  Exceptions: those of PositionIsRid, an INSERT
\* whose start_rid was taken by another one, an INSERT that looked for indexes
\* before CREATE INDEX added one, and a failed BTree::insert.
IndexAgrees ==
    (indexed /\ \A s \in Sessions : pc[s] \in {"idle", "open"})
    /\ Sound({"vacuum", "unwritten", "stray", "unindexed", "indexFailed"}) =>
        LET scan == ScanOf(FlushedPages)
            vx == FlushedIndex
        IN \A k \in Keys :
              ToSet(Matching(scan, vx, k)) = {p[2] : p \in {q \in idx : q[1] = k /\ VisibleIn(vx, q[2])}}
=============================================================================
