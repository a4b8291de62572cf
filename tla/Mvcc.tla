-------------------------------- MODULE Mvcc --------------------------------
(***************************************************************************)
(* Transactions, the version index and its garbage collector: sessions     *)
(* (query/connection.hpp) run statements against tables, commit and roll   *)
(* back through TransactionManager while the GC thread prunes the index.   *)
(*                                                                         *)
(* A row id has one data entry in the version index and any number of      *)
(* tombstones.  The raw 64-bit ts of an entry is a commit timestamp, or    *)
(* tx_id | kTxIdFlag while its transaction runs, or all ones once that     *)
(* was rolled back.                                                        *)
(*                                                                         *)
(* Every reader of a table calls flush_pending first, so a row in a batch  *)
(* is treated here as indexed; what can happen to it on the way to its     *)
(* page is the subject of TableIngest.                                     *)
(***************************************************************************)
EXTENDS Integers, Sequences, FiniteSets, FiniteSetsExt

CONSTANTS Sessions,
          NumTables,
          kTxIdFlag,     \* 2^63 in the code: above every timestamp and tx id
          MaxRows,       \* bound: rows of a table
          MaxVersions,   \* bound: index entries of a row
          MaxTs,         \* bound: timestamps
          MaxTx,         \* bound: transactions
          MaxFailures    \* bound: failed WAL appends

ASSUME MvccAssumption ==
    /\ NumTables \in Nat \ {0} /\ MaxRows \in Nat /\ MaxVersions \in Nat
    /\ MaxTs \in Nat /\ MaxTx \in Nat /\ MaxFailures \in Nat
    /\ kTxIdFlag \in Nat /\ kTxIdFlag > MaxTs + 1 /\ kTxIdFlag > MaxTx + 1

Tables == 1 .. NumTables
RowId  == 0 .. MaxRows - 1

VARIABLES
    nextTs,     \* TimestampAllocator::next_ts_, the last one handed out
    nextTx,     \* TransactionManager::next_tx_id_
    index,      \* VersionIndex::entries_: per table and row id, in array order
    dirty,      \* VersionIndex::dirty_
    rowCount,   \* row_count_
    tx,         \* Connection::txn_: the session's tx id, 0 without one
    readTs,     \* Transaction::read_ts
    writeSet,   \* Transaction::write_set: a bag of row ids per table
    pc,         \* where the session's statement is
    stmt,       \* its locals: table, target_rows, ts, UPDATE or DELETE
    todo,       \* tables commit or rollback has still to stamp
    outcome,    \* ghost: the ts a transaction's rows are to carry, 0 if undecided
    gcNext,     \* the table prune_tables is at, 0 between two runs
    cutoff,     \* its cutoff_ts
    failures    \* WAL appends that have failed

txVars  == <<nextTx, tx, readTs, writeSet, todo, outcome>>
gcVars  == <<gcNext, cutoff>>
stmtVars == <<pc, stmt>>
tblVars == <<index, dirty, rowCount>>
vars == <<nextTs, tblVars, txVars, stmtVars, gcVars, failures>>

NoStmt == [table |-> 1, rows |-> {}, ts |-> 0, update |-> FALSE]
NoRows == [t \in Tables |-> [r \in RowId |-> 0]]

Flagged(x) == kTxIdFlag + x

\* Mutant: the rows of a rolled-back transaction get timestamp 0.
AbortedTsZero == 0

\* static_cast<Timestamp>(-1).
AbortedTs == 2 * kTxIdFlag - 1

-----------------------------------------------------------------------------
(* VersionIndex.  An entry is [ts, tomb, by]: by is a ghost, the tx id that *)
(* wrote it, 0 for a statement outside a transaction.                       *)

\* The entries that come no later than the i-th: descending ts, and equals in
\* the order they have.  std::sort may turn equals round; they differ in who
\* wrote them, if at all.
NoLater(g, i) == {j \in DOMAIN g : g[j].ts > g[i].ts \/ (g[j].ts = g[i].ts /\ j <= i)}

SortedGroup(g) ==
    [k \in DOMAIN g |-> g[CHOOSE i \in DOMAIN g : Cardinality(NoLater(g, i)) = k]]

\* ensure_sorted
Sorted(t) == IF dirty[t] THEN [r \in RowId |-> SortedGroup(index[t][r])] ELSE index[t]

\* search: among the unflagged entries with ts <= max_ts the greatest ts, the
\* last of equals; what it finds may be a tombstone.
Committed(g, maxTs) == {i \in DOMAIN g : g[i].ts < kTxIdFlag /\ g[i].ts <= maxTs}

Best(g, maxTs) ==
    CHOOSE i \in Committed(g, maxTs) :
        \A j \in Committed(g, maxTs) : \/ g[j].ts < g[i].ts
                                       \/ g[j].ts = g[i].ts /\ j <= i

\* search_version_index(r, max_ts) finds a page: the row is in the snapshot.
Visible(g, maxTs) == Committed(g, maxTs) # {} /\ ~g[Best(g, maxTs)].tomb

Rows(ix, maxTs) == {r \in RowId : Visible(ix[r], maxTs)}

\* Mutant: a row id is stamped once, however often it is in row_ids.
StampGroupOnce(g, count, x, ts) ==
    [i \in DOMAIN g |->
        IF g[i].ts = Flagged(x) /\ count > 0 /\ \A j \in 1 .. i - 1 : g[j].ts # Flagged(x)
        THEN [g[i] EXCEPT !.ts = ts] ELSE g[i]]

\* commit_rows: each occurrence of the row id in row_ids stamps the first
\* entry that still carries the mark of the transaction.
StampGroup(g, count, x, ts) ==
    [i \in DOMAIN g |->
        IF g[i].ts = Flagged(x) /\ Cardinality({j \in 1 .. i : g[j].ts = Flagged(x)}) <= count
        THEN [g[i] EXCEPT !.ts = ts] ELSE g[i]]

\* The entries that are not newer than the cutoff; the first is the keeper.
NotNewer(g, cut) == {i \in DOMAIN g : g[i].ts <= cut}

\* Mutant: a tombstone at the keeper's place drops itself and what precedes it.
PrunedTombOnly(g, cut) ==
    LET k == Min(NotNewer(g, cut))
    IN IF NotNewer(g, cut) = {} THEN g
       ELSE IF g[k].tomb THEN SubSeq(g, k + 1, Len(g))
       ELSE SubSeq(g, 1, k)

\* Mutant: keep_count leaves the keeper out.
PrunedKeeperLost(g, cut) ==
    LET k == Min(NotNewer(g, cut))
    IN IF NotNewer(g, cut) = {} THEN g
       ELSE IF g[k].tomb THEN <<>>
       ELSE SubSeq(g, 1, k - 1)

\* prune, per row id: a tombstone as the keeper means that the row is gone with
\* all its entries.
Pruned(g, cut) ==
    LET k == Min(NotNewer(g, cut))
    IN IF NotNewer(g, cut) = {} THEN g
       ELSE IF g[k].tomb THEN <<>>
       ELSE SubSeq(g, 1, k)

-----------------------------------------------------------------------------
Init ==
    /\ nextTs = 0 /\ nextTx = 1
    /\ index = [t \in Tables |-> [r \in RowId |-> <<>>]]
    /\ dirty = [t \in Tables |-> FALSE]
    /\ rowCount = [t \in Tables |-> 0]
    /\ tx = [s \in Sessions |-> 0]
    /\ readTs = [s \in Sessions |-> 0]
    /\ writeSet = [s \in Sessions |-> NoRows]
    /\ pc = [s \in Sessions |-> "idle"]
    /\ stmt = [s \in Sessions |-> NoStmt]
    /\ todo = [s \in Sessions |-> {}]
    /\ outcome = [x \in 1 .. MaxTx |-> 0]
    /\ gcNext = 0 /\ cutoff = 0
    /\ failures = 0

Fails == failures < MaxFailures /\ failures' = failures + 1

\* allocate_ts, n times.
Allocate(n) == nextTs + n <= MaxTs /\ nextTs' = nextTs + n

\* BEGIN; when its WAL record cannot be written the session stays without a
\* transaction although Connection::begin returns kOk.
Begin(s) ==
    /\ pc[s] = "idle" /\ tx[s] = 0
    /\ nextTx <= MaxTx
    /\ nextTx' = nextTx + 1
    /\ \/ /\ tx' = [tx EXCEPT ![s] = nextTx]
          /\ readTs' = [readTs EXCEPT ![s] = nextTs]
          /\ UNCHANGED failures
       \/ Fails /\ UNCHANGED <<tx, readTs>>
    /\ UNCHANGED <<nextTs, tblVars, writeSet, todo, outcome, stmtVars, gcVars>>

\* Database::insert_batch of n rows into table t.
InsertRows(s, t, n) ==
    LET first == rowCount[t]
        new == first .. first + n - 1
        ts(r) == IF tx[s] # 0 THEN Flagged(tx[s]) ELSE nextTs + 1 + r - first
    IN /\ first + n <= MaxRows
       /\ rowCount' = [rowCount EXCEPT ![t] = @ + n]
       /\ index' = [index EXCEPT ![t] = [r \in RowId |->
             IF r \in new THEN <<[ts |-> ts(r), tomb |-> FALSE, by |-> tx[s]]>> ELSE @[r]]]
       /\ dirty' = [dirty EXCEPT ![t] = TRUE]
       /\ IF tx[s] # 0
          THEN /\ writeSet' = [writeSet EXCEPT ![s][t] =
                                  [r \in RowId |-> @[r] + IF r \in new THEN 1 ELSE 0]]
               /\ UNCHANGED nextTs
          ELSE Allocate(n) /\ UNCHANGED writeSet

Insert(s, t) ==
    /\ pc[s] = "idle"
    /\ InsertRows(s, t, 1)
    /\ UNCHANGED <<nextTx, tx, readTs, todo, outcome, stmtVars, gcVars, failures>>

\* The scan of a DELETE or an UPDATE: any visible rows may satisfy the WHERE.
\* Outside a transaction next_ts() allocates the timestamp it reads at.
Scan(s, t, update) ==
    /\ pc[s] = "idle"
    /\ IF tx[s] # 0 THEN UNCHANGED nextTs ELSE Allocate(1)
    /\ index' = [index EXCEPT ![t] = Sorted(t)]
    /\ dirty' = [dirty EXCEPT ![t] = FALSE]
    /\ \E rows \in SUBSET Rows(index[t], IF tx[s] # 0 THEN readTs[s] ELSE nextTs + 1) :
          /\ rows # {}
          /\ stmt' = [stmt EXCEPT ![s] = [table |-> t, rows |-> rows, ts |-> 0, update |-> update]]
    /\ pc' = [pc EXCEPT ![s] = "deleteTs"]
    /\ UNCHANGED <<rowCount, txVars, gcVars, failures>>

DeleteScan(s, t) == Scan(s, t, FALSE)

UpdateScan(s, t) == Scan(s, t, TRUE)

\* delete_rows takes the tombstones' ts before it locks the table.
DeleteTs(s) ==
    /\ pc[s] = "deleteTs"
    /\ stmt' = [stmt EXCEPT ![s].ts = IF tx[s] # 0 THEN Flagged(tx[s]) ELSE nextTs + 1]
    /\ IF tx[s] # 0 THEN UNCHANGED nextTs ELSE Allocate(1)
    /\ pc' = [pc EXCEPT ![s] = "deleteRows"]
    /\ UNCHANGED <<tblVars, txVars, gcVars, failures>>

DeleteRows(s) ==
    /\ pc[s] = "deleteRows"
    /\ LET t == stmt[s].table
           tomb == [ts |-> stmt[s].ts, tomb |-> TRUE, by |-> tx[s]]
       IN /\ \A r \in stmt[s].rows : Len(index[t][r]) < MaxVersions
          /\ index' = [index EXCEPT ![t] = [r \in RowId |->
                IF r \in stmt[s].rows THEN Append(@[r], tomb) ELSE @[r]]]
          /\ dirty' = [dirty EXCEPT ![t] = TRUE]
          /\ writeSet' = IF tx[s] = 0 THEN writeSet
                         ELSE [writeSet EXCEPT ![s][t] =
                                 [r \in RowId |-> @[r] + IF r \in stmt[s].rows THEN 1 ELSE 0]]
    /\ pc' = [pc EXCEPT ![s] = IF stmt[s].update THEN "reinsert" ELSE "idle"]
    /\ stmt' = [stmt EXCEPT ![s] = IF stmt[s].update THEN @ ELSE NoStmt]
    /\ UNCHANGED <<nextTs, rowCount, nextTx, tx, readTs, todo, outcome, gcVars, failures>>

\* An UPDATE inserts the new versions as new rows.
Reinsert(s) ==
    /\ pc[s] = "reinsert"
    /\ InsertRows(s, stmt[s].table, Cardinality(stmt[s].rows))
    /\ pc' = [pc EXCEPT ![s] = "idle"]
    /\ stmt' = [stmt EXCEPT ![s] = NoStmt]
    /\ UNCHANGED <<nextTx, tx, readTs, todo, outcome, gcVars, failures>>

\* A WAL append fails: delete_rows or insert_batch returns the error, and what
\* an UPDATE has deleted stays deleted.
MutateFail(s) ==
    /\ pc[s] \in {"deleteTs", "reinsert"}
    /\ Fails
    /\ pc' = [pc EXCEPT ![s] = "idle"]
    /\ stmt' = [stmt EXCEPT ![s] = NoStmt]
    /\ UNCHANGED <<nextTs, tblVars, txVars, gcVars>>

Touched(s) == {t \in Tables : \E r \in RowId : writeSet[s][t][r] > 0}

\* commit allocates commit_ts, logs it, and only then stamps the rows.
Commit(s) ==
    /\ pc[s] = "idle" /\ tx[s] # 0
    /\ Allocate(1)
    /\ outcome' = [outcome EXCEPT ![tx[s]] = nextTs + 1]
    /\ todo' = [todo EXCEPT ![s] = Touched(s)]
    /\ pc' = [pc EXCEPT ![s] = "stamp"]
    /\ UNCHANGED <<tblVars, nextTx, tx, readTs, writeSet, stmt, gcVars, failures>>

Rollback(s) ==
    /\ pc[s] = "idle" /\ tx[s] # 0
    /\ outcome' = [outcome EXCEPT ![tx[s]] = AbortedTs]
    /\ todo' = [todo EXCEPT ![s] = Touched(s)]
    /\ pc' = [pc EXCEPT ![s] = "stamp"]
    /\ UNCHANGED <<nextTs, tblVars, nextTx, tx, readTs, writeSet, stmt, gcVars, failures>>

ForgetTxn(s) ==
    /\ tx' = [tx EXCEPT ![s] = 0]
    /\ readTs' = [readTs EXCEPT ![s] = 0]
    /\ writeSet' = [writeSet EXCEPT ![s] = NoRows]

\* The WAL append of COMMIT or ROLLBACK fails: the session drops the
\* transaction with its rows still marked, a COMMIT after taking its timestamp.
EndFail(s) ==
    /\ pc[s] = "idle" /\ tx[s] # 0
    /\ Fails
    /\ Allocate(1) \/ UNCHANGED nextTs
    /\ ForgetTxn(s)
    /\ UNCHANGED <<tblVars, nextTx, stmtVars, todo, outcome, gcVars>>

\* Table::commit_rows for one entry of the write set, in no particular order.
StampTable(s, t) ==
    /\ pc[s] = "stamp" /\ t \in todo[s]
    /\ index' = [index EXCEPT ![t] = [r \in RowId |->
          StampGroup(Sorted(t)[r], writeSet[s][t][r], tx[s], outcome[tx[s]])]]
    /\ dirty' = [dirty EXCEPT ![t] = FALSE]
    /\ todo' = [todo EXCEPT ![s] = @ \ {t}]
    /\ UNCHANGED <<nextTs, rowCount, nextTx, tx, readTs, writeSet, outcome, stmtVars, gcVars, failures>>

EndTxn(s) ==
    /\ pc[s] = "stamp" /\ todo[s] = {}
    /\ ForgetTxn(s)
    /\ pc' = [pc EXCEPT ![s] = "idle"]
    /\ UNCHANGED <<nextTs, tblVars, nextTx, todo, outcome, stmt, gcVars, failures>>

-----------------------------------------------------------------------------
(* GarbageCollector.                                                       *)

\* compute_cutoff: nothing ever sets the watermark, so min_active_read_ts is 0
\* and the cutoff is the last timestamp handed out before.
GcBegin ==
    /\ gcNext = 0
    /\ Allocate(1)
    /\ IF nextTs = 0 THEN UNCHANGED gcVars ELSE cutoff' = nextTs /\ gcNext' = 1
    /\ UNCHANGED <<tblVars, txVars, stmtVars, failures>>

\* Mutant: the loop over the tables never ends.
GcPrunePast ==
    /\ gcNext \in Tables
    /\ index' = [index EXCEPT ![gcNext] = [r \in RowId |-> Pruned(Sorted(gcNext)[r], cutoff)]]
    /\ dirty' = [dirty EXCEPT ![gcNext] = FALSE]
    /\ gcNext' = gcNext + 1
    /\ UNCHANGED <<nextTs, rowCount, cutoff, txVars, stmtVars, failures>>

\* prune_tables, one table: an empty index is skipped; once enough bytes have
\* been freed the budget ends the run early.
GcPrune ==
    /\ gcNext \in Tables
    /\ LET t == gcNext
           after == [r \in RowId |-> Pruned(Sorted(t)[r], cutoff)]
           last == gcNext = NumTables
       IN /\ index' = [index EXCEPT ![t] = after]
          /\ dirty' = [dirty EXCEPT ![t] = FALSE]
          /\ \/ gcNext' = IF last THEN 0 ELSE gcNext + 1
             \/ ~last /\ after # Sorted(t) /\ gcNext' = 0
          /\ cutoff' = IF gcNext' = 0 THEN 0 ELSE cutoff
    /\ UNCHANGED <<nextTs, rowCount, txVars, stmtVars, failures>>

-----------------------------------------------------------------------------
Next ==
    \/ \E s \in Sessions :
          \/ Begin(s) \/ Commit(s) \/ Rollback(s) \/ EndFail(s) \/ EndTxn(s)
          \/ \E t \in Tables : Insert(s, t) \/ DeleteScan(s, t) \/ UpdateScan(s, t)
                                \/ StampTable(s, t)
          \/ DeleteTs(s) \/ DeleteRows(s) \/ Reinsert(s) \/ MutateFail(s)
    \/ GcBegin \/ GcPrune

Spec == Init /\ [][Next]_vars

-----------------------------------------------------------------------------
(* Properties.                                                             *)

Entry == [ts : Nat, tomb : BOOLEAN, by : Nat]

\* The types of the variables: index entries, write sets, snapshots and the GC's
\* cutoff (VersionIndex, Transaction, GarbageCollector).
TypeOK ==
    /\ nextTs \in 0 .. MaxTs /\ nextTx \in 1 .. MaxTx + 1
    /\ index \in [Tables -> [RowId -> Seq(Entry)]]
    /\ dirty \in [Tables -> BOOLEAN]
    /\ rowCount \in [Tables -> 0 .. MaxRows]
    /\ tx \in [Sessions -> 0 .. MaxTx]
    /\ readTs \in [Sessions -> 0 .. MaxTs]
    /\ writeSet \in [Sessions -> [Tables -> [RowId -> Nat]]]
    /\ pc \in [Sessions -> {"idle", "deleteTs", "deleteRows", "reinsert", "stamp"}]
    /\ stmt \in [Sessions -> [table : Nat, rows : SUBSET RowId, ts : Nat, update : BOOLEAN]]
    /\ todo \in [Sessions -> SUBSET Tables]
    /\ outcome \in [1 .. MaxTx -> Nat]
    /\ gcNext \in 0 .. NumTables /\ cutoff \in 0 .. MaxTs
    /\ failures \in 0 .. MaxFailures

\* What search returns to any reader, at any timestamp handed out so far, was
\* written outside a transaction or by one that has decided to commit: no row
\* appears or disappears through the work of one that runs, was rolled back or
\* died on a WAL error.
NoDirtyRead ==
    \A t \in Tables : \A r \in RowId : \A at \in 0 .. nextTs :
        Committed(index[t][r], at) # {} =>
            LET x == index[t][r][Best(index[t][r], at)].by
            IN x # 0 => outcome[x] \in 1 .. at

\* When COMMIT or ROLLBACK has returned, every entry of the transaction that is
\* still in the index carries its outcome, the second tombstone of a row it
\* deleted twice included.
TxnSettled ==
    \A x \in 1 .. MaxTx : outcome[x] # 0 /\ (\A s \in Sessions : tx[s] # x) =>
        \A t \in Tables : \A r \in RowId : \A i \in DOMAIN index[t][r] :
            index[t][r][i].by = x => index[t][r][i].ts = outcome[x]

\* A write whose timestamp the snapshot of s covers is still on its way.
Straggler(s) ==
    \E u \in Sessions :
        \/ pc[u] = "stamp" /\ outcome[tx[u]] <= readTs[s]
        \/ pc[u] = "deleteRows" /\ stmt[u].ts <= readTs[s]

\* The rows a transaction sees stay the same from its BEGIN to its end, except
\* for stragglers and for a GC run with a later cutoff: no insert, delete,
\* update, commit or rollback that starts after BEGIN shows through, and
\* pruning at an older cutoff takes away nothing the snapshot can see.
SnapshotStable ==
    [][\A s \in Sessions : tx[s] # 0 /\ tx'[s] = tx[s] =>
          \/ Straggler(s)
          \/ gcNext # 0 /\ cutoff > readTs[s]
          \/ \A t \in Tables : Rows(index'[t], readTs[s]) = Rows(index[t], readTs[s])]_vars

\* A row that was deleted for good - its latest committed entry is a tombstone,
\* or the GC has dropped it - never comes back, whatever is committed, rolled
\* back or pruned afterwards.
Deleted(ix, n) == {r \in 0 .. n - 1 : ~Visible(ix[r], MaxTs)
                                       /\ \A i \in DOMAIN ix[r] : ~ix[r][i].tomb => ix[r][i].ts <= MaxTs}

NoResurrection ==
    [][\A t \in Tables : Deleted(index[t], rowCount[t]) \subseteq Deleted(index'[t], rowCount'[t])]_vars

=============================================================================
