------------------------------- MODULE Recovery -------------------------------
(***************************************************************************)
(* What survives a crash, a shutdown and a restart: Database::open,        *)
(* Database::close and Database::checkpoint over the four files of a       *)
(* database with one table - the pages (.raw), the saved version index     *)
(* (.vindex), the log and checkpoint.meta - under sessions that insert in  *)
(* transactions and outside of them.                                       *)
(*                                                                         *)
(* A process crash leaves the mapped pages as they are, any prefix of the  *)
(* log's buffer in the file, and a file that was being rewritten empty.    *)
(* The log is one segment (rotation, removal and torn records are module   *)
(* Wal's), a flush writes one page (how batches travel is TableIngest's),  *)
(* and rows are inserted one by one.                                       *)
(***************************************************************************)
EXTENDS Integers, Sequences, FiniteSets

CONSTANTS Sessions,
          TsSpan,        \* timestamps are computed modulo TsSpan (2^64)
          kTxIdFlag,     \* the flag bit, TsSpan \div 2
          MaxRecords,    \* bound: records ever appended
          MaxTx,         \* bound: transactions of one process
          MaxRestarts,   \* bound: crashes and shutdowns
          MaxCkpts       \* bound: checkpoints

ASSUME RecoveryAssumption ==
    /\ kTxIdFlag \in Nat /\ TsSpan = 2 * kTxIdFlag
    /\ MaxRecords \in Nat /\ MaxTx \in Nat /\ MaxRestarts \in Nat /\ MaxCkpts \in Nat
    /\ MaxTx < kTxIdFlag /\ MaxRecords + MaxRestarts < kTxIdFlag

VARIABLES
    file,       \* .raw: the rows in file order, each with its page's number
    vfile,      \* .vindex: whether it can be read, and its entries
    log,        \* the records in the log's file
    meta,       \* checkpoint.meta, 0 when it is missing or empty
    state,      \* "open", "closing" or "down"
    index,      \* version_index_: row id -> ts
    pending,    \* the rows of the active batch and the flush queue
    clock,      \* TimestampAllocator::next_ts_
    buf,        \* log records in the stream's buffer
    nextLsn,    \* next_lsn_
    nextTx,     \* next_tx_id_
    pc,         \* where each session is: "out", "in", "commit"
    tx,         \* its tx id
    cts,        \* its commit_ts
    ws,         \* its write_set: row ids
    ckpt,       \* where the checkpoint is
    ckptLsn,    \* its checkpoint_lsn
    ckpts,      \* checkpoints begun so far
    restarts,   \* crashes and shutdowns so far; numbers the processes
    written,    \* ghost: records ever appended, which numbers and times them
    acked,      \* ghost: rows whose COMMIT or INSERT has returned, and when
    wonTx,      \* ghost: the transactions with a commit record
    atRisk,     \* ghost: rows the next crash may cost, as the design stands
    excused,    \* ghost: rows of which nothing is claimed any more
    spans,      \* ghost: sessions that were running when a checkpoint began
    broken,     \* ghost: the clock was restored from a flagged timestamp
    rebuilt,    \* ghost: the index was once rebuilt from the pages
    replayed    \* ghost: row ids this process got from the log

diskVars == <<file, vfile, log, meta>>
memVars  == <<index, pending, clock, buf, nextLsn>>
sessVars == <<nextTx, pc, tx, cts, ws>>
ckptVars == <<ckpt, ckptLsn>>
pastVars == <<excused, broken, rebuilt, replayed>>
vars == <<diskVars, state, memVars, sessVars, ckptVars, ckpts, restarts, written,
          acked, wonTx, atRisk, spans, pastVars>>

NoFile == [st |-> "none", entries |-> <<>>]

SessionsGone ==
    /\ pc' = [s \in Sessions |-> "out"] /\ tx' = [s \in Sessions |-> 0]
    /\ cts' = [s \in Sessions |-> 0] /\ ws' = [s \in Sessions |-> {}]
    /\ nextTx' = 1 /\ spans' = {}
    /\ ckpt' = "idle" /\ ckptLsn' = 0

Init ==
    /\ file = <<>> /\ vfile = NoFile /\ log = <<>> /\ meta = 0
    /\ state = "open"
    /\ index = <<>> /\ pending = <<>> /\ clock = 0 /\ buf = <<>> /\ nextLsn = 1
    /\ nextTx = 1
    /\ pc = [s \in Sessions |-> "out"] /\ tx = [s \in Sessions |-> 0]
    /\ cts = [s \in Sessions |-> 0] /\ ws = [s \in Sessions |-> {}]
    /\ ckpt = "idle" /\ ckptLsn = 0
    /\ ckpts = 0 /\ restarts = 0 /\ written = 0
    /\ acked = {} /\ wonTx = {} /\ atRisk = {} /\ spans = {}
    /\ excused = {} /\ broken = FALSE /\ rebuilt = FALSE /\ replayed = {}

-----------------------------------------------------------------------------
(* Timestamps, the index and the log.                                      *)

\* Mutant: the counter is wider than the field it is stored in.
TickWide(c) == c + 1

\* allocate_ts
Tick(c) == (c + 1) % TsSpan

Mark(x) == kTxIdFlag + x              \* tx_id | kTxIdFlag
Committed(ts) == ts < kTxIdFlag
AbortedTs == TsSpan - 1

\* Rows that are committed with a flagged timestamp look uncommitted forever.
Buried(rows, ts) == IF Committed(ts) THEN {} ELSE rows

RowCount == Len(file) + Len(pending)

\* The greatest of a set of naturals; 0 if it is empty.
Greatest(S) == CHOOSE m \in S \cup {0} : \A n \in S : n <= m

\* commit_rows: entries that carry the transaction's mark get ts.
Stamp(rids, x, ts) ==
    /\ index' = [i \in DOMAIN index |->
                    IF i \in rids /\ index[i] = Mark(x) THEN ts ELSE index[i]]
    /\ pending' = [j \in DOMAIN pending |->
                    IF Len(file) + j \in rids /\ pending[j].ts = Mark(x)
                    THEN [pending[j] EXCEPT !.ts = ts] ELSE pending[j]]

\* append_record
Rec(x, type, ts) == [lsn |-> nextLsn, n |-> written + 1, tx |-> x,
                     proc |-> restarts, type |-> type, ts |-> ts]

AppendRecord(x, type, ts) ==
    /\ state = "open" /\ written < MaxRecords
    /\ buf' = Append(buf, Rec(x, type, ts))
    /\ nextLsn' = nextLsn + 1
    /\ written' = written + 1

RowOf(rec) == [n |-> rec.n, tx |-> rec.tx, proc |-> rec.proc]

-----------------------------------------------------------------------------
(* Sessions.                                                               *)

Begin(s) ==
    /\ pc[s] = "out" /\ nextTx <= MaxTx
    /\ AppendRecord(nextTx, "begin", 0)
    /\ nextTx' = nextTx + 1
    /\ tx' = [tx EXCEPT ![s] = nextTx]
    /\ pc' = [pc EXCEPT ![s] = "in"]
    /\ UNCHANGED <<diskVars, state, index, pending, clock, cts, ws, ckptVars,
                   restarts, acked, wonTx, atRisk, spans, ckpts, pastVars>>

\* Database::insert and insert_batch: the record, then the row in the active
\* batch.  Outside a transaction the row is committed by its own timestamp.
Insert(s) ==
    LET row == RowOf(Rec(tx[s], "insert", 0))
        alone == pc[s] = "out"
    IN /\ pc[s] \in {"out", "in"}
       /\ AppendRecord(tx[s], "insert", 0)
       /\ clock' = IF alone THEN Tick(clock) ELSE clock
       /\ pending' = Append(pending, [row |-> row,
                                      ts |-> IF alone THEN Tick(clock) ELSE Mark(tx[s])])
       /\ ws' = IF alone THEN ws ELSE [ws EXCEPT ![s] = @ \cup {RowCount + 1}]
       /\ acked' = IF alone THEN acked \cup {[row |-> row, done |-> row.n]} ELSE acked
       /\ excused' = IF alone THEN excused \cup Buried({row}, Tick(clock)) ELSE excused
       /\ atRisk' = IF alone \/ s \in spans \/ nextLsn <= meta
                    THEN atRisk \cup {row} ELSE atRisk
       /\ UNCHANGED <<diskVars, state, index, nextTx, pc, tx, cts, ckptVars,
                      restarts, wonTx, spans, ckpts, broken, rebuilt, replayed>>

\* Mutant: rw_mtx is not held while the index is written.
IndexFreeAlways == TRUE

\* save_vindex holds rw_mtx shared while it writes: flushing and stamping wait.
IndexFree == ckpt # "writing"

\* Mutant: the rows are stamped before the log is flushed.
LogCommitStamping(s) ==
    /\ pc[s] = "in" /\ IndexFree
    /\ clock' = Tick(clock)
    /\ AppendRecord(tx[s], "commit", Tick(clock))
    /\ Stamp(ws[s], tx[s], Tick(clock))
    /\ cts' = [cts EXCEPT ![s] = Tick(clock)]
    /\ wonTx' = wonTx \cup {<<restarts, tx[s]>>}
    /\ pc' = [pc EXCEPT ![s] = "commit"]
    /\ UNCHANGED <<diskVars, state, nextTx, tx, ws, ckptVars,
                   restarts, acked, atRisk, spans, ckpts, pastVars>>

\* TransactionManager::commit up to the log's buffer.
LogCommit(s) ==
    /\ pc[s] = "in"
    /\ clock' = Tick(clock)
    /\ AppendRecord(tx[s], "commit", Tick(clock))
    /\ cts' = [cts EXCEPT ![s] = Tick(clock)]
    /\ wonTx' = wonTx \cup {<<restarts, tx[s]>>}
    /\ pc' = [pc EXCEPT ![s] = "commit"]
    /\ UNCHANGED <<diskVars, state, index, pending, nextTx, tx, ws, ckptVars,
                   restarts, acked, atRisk, spans, ckpts, pastVars>>

Leave(s) ==
    /\ pc' = [pc EXCEPT ![s] = "out"] /\ tx' = [tx EXCEPT ![s] = 0]
    /\ cts' = [cts EXCEPT ![s] = 0] /\ ws' = [ws EXCEPT ![s] = {}]
    /\ spans' = spans \ {s}

RowAt(i) == IF i <= Len(file) THEN file[i].row ELSE pending[i - Len(file)].row

\* The rest of commit: flush of the log, stamping, return.
FinishCommit(s) ==
    /\ state = "open" /\ pc[s] = "commit" /\ IndexFree
    /\ log' = log \o buf /\ buf' = <<>>
    /\ Stamp(ws[s], tx[s], cts[s])
    /\ acked' = acked \cup {[row |-> RowAt(i), done |-> written] : i \in ws[s]}
    /\ excused' = excused \cup Buried({RowAt(i) : i \in ws[s]}, cts[s])
    /\ Leave(s)
    /\ UNCHANGED <<file, vfile, meta, state, clock, nextLsn, nextTx, ckptVars,
                   restarts, written, wonTx, atRisk, ckpts, broken, rebuilt, replayed>>

Rollback(s) ==
    /\ pc[s] = "in" /\ IndexFree
    /\ AppendRecord(tx[s], "rollback", 0)
    /\ Stamp(ws[s], tx[s], AbortedTs)
    /\ Leave(s)
    /\ UNCHANGED <<diskVars, state, clock, nextTx, ckptVars,
                   restarts, acked, wonTx, atRisk, ckpts, pastVars>>

-----------------------------------------------------------------------------
(* Flushing and checkpoints.                                               *)

PageCount == Greatest({file[i].page : i \in DOMAIN file})

\* flush_pending, write_batch_to_page
FlushPending ==
    /\ file' = file \o [j \in DOMAIN pending |->
                           [row |-> pending[j].row, page |-> PageCount + 1]]
    /\ index' = [i \in DOMAIN index \cup (Len(file) + 1 .. RowCount) |->
                    IF i \in DOMAIN index THEN index[i] ELSE pending[i - Len(file)].ts]
    /\ pending' = <<>>

\* The FlushHandler, the GC or a statement.
Flush ==
    /\ state = "open" /\ IndexFree /\ pending # <<>>
    /\ FlushPending
    /\ UNCHANGED <<vfile, log, meta, state, clock, buf, nextLsn, sessVars, ckptVars,
                   restarts, written, acked, wonTx, atRisk, spans, ckpts, pastVars>>

Running == {s \in Sessions : pc[s] # "out"}

CkptBegin ==
    /\ state = "open" /\ ckpt = "idle" /\ ckpts < MaxCkpts
    /\ ckpts' = ckpts + 1
    /\ ckptLsn' = nextLsn
    /\ ckpt' = "begun"
    /\ spans' = spans \cup Running
    /\ atRisk' = atRisk \cup {RowAt(i) : i \in UNION {ws[s] : s \in Running}}
    /\ UNCHANGED <<diskVars, state, memVars, sessVars, restarts, written,
                   acked, wonTx, pastVars>>

\* Mutant: the index is saved without flushing first.
CkptSaveUnflushed ==
    /\ state = "open" /\ ckpt = "begun"
    /\ vfile' = [st |-> "torn", entries |-> <<>>]
    /\ ckpt' = "writing"
    /\ UNCHANGED <<file, log, meta, state, memVars, sessVars, ckptLsn,
                   restarts, written, acked, wonTx, atRisk, spans, ckpts, pastVars>>

\* flush_pending, sync and the first half of save_vindex, which truncates the
\* file before it writes.
CkptSave ==
    /\ state = "open" /\ ckpt = "begun"
    /\ FlushPending
    /\ vfile' = [st |-> "torn", entries |-> <<>>]
    /\ ckpt' = "writing"
    /\ UNCHANGED <<log, meta, state, clock, buf, nextLsn, sessVars, ckptLsn,
                   restarts, written, acked, wonTx, atRisk, spans, ckpts, pastVars>>

\* What is saved as committed is out of danger.
SaveIndex ==
    /\ vfile' = [st |-> "ok", entries |-> index]
    /\ atRisk' = atRisk \ {file[i].row : i \in {j \in DOMAIN index : Committed(index[j])}}

CkptWrite ==
    /\ state = "open" /\ ckpt = "writing"
    /\ SaveIndex
    /\ ckpt' = "saved"
    /\ UNCHANGED <<file, log, meta, state, memVars, sessVars, ckptLsn,
                   restarts, written, acked, wonTx, spans, ckpts, pastVars>>

\* write_file truncates checkpoint.meta ...
CkptMetaOpen ==
    /\ state = "open" /\ ckpt = "saved"
    /\ meta' = 0
    /\ ckpt' = "meta"
    /\ UNCHANGED <<file, vfile, log, state, memVars, sessVars, ckptLsn,
                   restarts, written, acked, wonTx, atRisk, spans, ckpts, pastVars>>

\* ... and writes it.  The log's only segment is never removed.
CkptMeta ==
    /\ state = "open" /\ ckpt = "meta"
    /\ meta' = ckptLsn
    /\ ckpt' = "idle" /\ ckptLsn' = 0
    /\ UNCHANGED <<file, vfile, log, state, memVars, sessVars,
                   restarts, written, acked, wonTx, atRisk, spans, ckpts, pastVars>>

-----------------------------------------------------------------------------
(* Shutdown and crash.                                                     *)

MemoryGone ==
    /\ index' = <<>> /\ pending' = <<>> /\ buf' = <<>> /\ clock' = 0 /\ nextLsn' = 1
    /\ replayed' = {}

\* Database::close: tables flushed, threads joined, log closed, and the index
\* being rewritten.  Running transactions end with the process; that no
\* session is inside COMMIT is up to the caller.
CloseBegin ==
    /\ state = "open" /\ ckpt = "idle" /\ restarts < MaxRestarts
    /\ \A s \in Sessions : pc[s] # "commit"
    /\ state' = "closing"
    /\ FlushPending
    /\ log' = log \o buf /\ buf' = <<>>
    /\ vfile' = [st |-> "torn", entries |-> <<>>]
    /\ SessionsGone
    /\ UNCHANGED <<meta, clock, nextLsn, restarts, written, acked, wonTx, atRisk, ckpts, pastVars>>

CloseEnd ==
    /\ state = "closing"
    /\ SaveIndex
    /\ state' = "down" /\ restarts' = restarts + 1
    /\ MemoryGone
    /\ UNCHANGED <<file, log, meta, sessVars, ckptVars, written, acked, wonTx, spans,
                   ckpts, excused, broken, rebuilt>>

Crash ==
    /\ state \in {"open", "closing"} /\ restarts < MaxRestarts
    /\ state' = "down" /\ restarts' = restarts + 1
    /\ \E k \in 0 .. Len(buf) : log' = log \o SubSeq(buf, 1, k)
    /\ excused' = excused \cup atRisk
    /\ atRisk' = {}
    /\ MemoryGone
    /\ SessionsGone
    /\ UNCHANGED <<file, vfile, meta, written, acked, wonTx, ckpts, broken, rebuilt>>

-----------------------------------------------------------------------------
(* Database::open.                                                         *)

\* rebuild_vindex_from_pages: every row of every page, one new timestamp per
\* page, allocated from 1 on.
Rebuilt == [i \in DOMAIN file |-> file[i].page % TsSpan]

\* Mutant: the next timestamp repeats the greatest one.
RestoredClockSame(entries, c) ==
    LET max == Greatest({entries[i] : i \in DOMAIN entries})
    IN IF max > 0 THEN max - 1 ELSE c

\* version_index_max_ts and set_next(max_ts + 1); c is what rebuilding has
\* left in the clock.
RestoredClock(entries, c) ==
    LET max == Greatest({entries[i] : i \in DOMAIN entries})
    IN IF max > 0 THEN ((max + 1) - 1) % TsSpan ELSE c

\* What WalReader delivers of recs up to the recovery target: records at or
\* below checkpoint_lsn are skipped before the time is looked at.
Delivered(recs, target) ==
    {i \in DOMAIN recs :
        /\ recs[i].lsn > meta
        /\ \A j \in 1 .. i : recs[j].lsn > meta => recs[j].n <= target}

\* Mutant: a rollback record counts as the end of the transaction, too.
CommittedTxnsEnded(target) ==
    LET ends == {i \in Delivered(log, target) : log[i].type \in {"commit", "rollback"}}
    IN [x \in {log[i].tx : i \in ends} |->
           log[Greatest({i \in ends : log[i].tx = x})].ts]

\* Pass 1: committed_txns, by tx id; a later record overwrites an earlier one.
CommittedTxns(target) ==
    LET commits == {i \in Delivered(log, target) : log[i].type = "commit"}
    IN [x \in {log[i].tx : i \in commits} |->
           log[Greatest({i \in commits : log[i].tx = x})].ts]

\* Pass 2 opens the reader a second time, which lists every segment twice.
\* table.lsn() is 0 in a new process: nothing is skipped for it.  A replayed
\* row is inserted under its tx id and stamped at once.
Replay(target) ==
    LET won == CommittedTxns(target)
        recs == log \o log
        hits == {i \in Delivered(recs, target) :
                    recs[i].type = "insert" /\ recs[i].tx \in DOMAIN won}
        nth(k) == recs[CHOOSE i \in hits : Cardinality({j \in hits : j <= i}) = k]
    IN [k \in 1 .. Cardinality(hits) |-> [row |-> RowOf(nth(k)), ts |-> won[nth(k).tx]]]

\* load_vindex fails for a missing or short file.
Loadable == vfile.st = "ok"

\* WalWriter::open: the scan for the last record's LSN.
ScannedLsn == 1 + Greatest({log[i].lsn : i \in DOMAIN log})

\* recover() takes the rows as they are in the file.  target stands for
\* recovery_target_time_ms; no record is later than written, which means no
\* target.  Sessions start when open has returned.
Open(target) ==
    LET entries == IF Loadable THEN vfile.entries ELSE Rebuilt
    IN /\ state = "down"
       /\ state' = "open"
       /\ index' = entries
       /\ clock' = RestoredClock(entries, IF Loadable THEN 0 ELSE PageCount % TsSpan)
       /\ pending' = Replay(target)
       /\ nextLsn' = ScannedLsn
       /\ rebuilt' = (rebuilt \/ ~Loadable)
       /\ broken' = (broken \/ ~Committed(clock'))
       /\ replayed' = {Len(file) + k : k \in DOMAIN pending'}
       /\ excused' = excused \cup {a.row : a \in {b \in acked : b.done > target}}
                             \cup UNION {Buried({p.row}, p.ts) : p \in {pending'[k] : k \in DOMAIN pending'}}
       /\ UNCHANGED <<diskVars, buf, sessVars, ckptVars, restarts, written, acked,
                      wonTx, atRisk, spans, ckpts>>

\* Bound: only the last process may be given a recovery target.
Targets == IF restarts = MaxRestarts THEN 0 .. written ELSE {written}

-----------------------------------------------------------------------------
Next ==
    \/ \E s \in Sessions :
          Begin(s) \/ Insert(s) \/ LogCommit(s) \/ FinishCommit(s) \/ Rollback(s)
    \/ Flush
    \/ CkptBegin \/ CkptSave \/ CkptWrite \/ CkptMetaOpen \/ CkptMeta
    \/ CloseBegin \/ CloseEnd \/ Crash
    \/ \E target \in Targets : Open(target)

Spec == Init /\ [][Next]_vars

-----------------------------------------------------------------------------
(* Properties.                                                             *)

Row == [n : Nat, tx : Nat, proc : Nat]
Ts == 0 .. TsSpan - 1
Record == [lsn : Nat, n : Nat, tx : Nat, proc : Nat,
           type : {"begin", "insert", "commit", "rollback"}, ts : Ts]

\* The types of the variables; in particular every timestamp fits the field it
\* is stored in, and neither index knows a row the file does not have
\* (allocate_ts, save_vindex).
TypeOK ==
    /\ file \in Seq([row : Row, page : Nat])
    /\ vfile.st \in {"none", "torn", "ok"}
    /\ DOMAIN vfile.entries \subseteq DOMAIN file
    /\ log \in Seq(Record) /\ buf \in Seq(Record) /\ meta \in Nat
    /\ state \in {"open", "closing", "down"}
    /\ DOMAIN index \subseteq DOMAIN file /\ \A i \in DOMAIN index : index[i] \in Ts
    /\ pending \in Seq([row : Row, ts : Ts])
    /\ clock \in Ts /\ nextLsn \in Nat \ {0} /\ nextTx \in 1 .. MaxTx + 1
    /\ pc \in [Sessions -> {"out", "in", "commit"}]
    /\ tx \in [Sessions -> 0 .. MaxTx] /\ cts \in [Sessions -> Ts]
    /\ ws \in [Sessions -> SUBSET (1 .. RowCount)]
    /\ ckpt \in {"idle", "begun", "writing", "saved", "meta"} /\ ckptLsn \in Nat
    /\ ckpts \in 0 .. MaxCkpts /\ restarts \in 0 .. MaxRestarts /\ written \in 0 .. MaxRecords
    /\ acked \in SUBSET [row : Row, done : Nat]
    /\ wonTx \in SUBSET (Nat \X Nat)
    /\ atRisk \in SUBSET Row /\ excused \in SUBSET Row
    /\ spans \in SUBSET Sessions /\ broken \in BOOLEAN /\ rebuilt \in BOOLEAN
    /\ replayed \in SUBSET (1 .. RowCount)

CommittedAt(i) ==
    IF i <= Len(file) THEN i \in DOMAIN index /\ Committed(index[i])
    ELSE Committed(pending[i - Len(file)].ts)

\* The row ids under which a row is committed in the running process.
Copies(row) == {i \in 1 .. RowCount : RowAt(i) = row /\ CommittedAt(i)}

\* A row whose COMMIT or INSERT was acknowledged is in the database, through
\* any number of shutdowns and crashes.  A crash may cost only what atRisk
\* names: rows inserted outside a transaction, which are never replayed, rows
\* of a transaction that was running when a checkpoint began, and rows logged
\* while LSNs are at or below checkpoint.meta, as long as no index is saved
\* with them.  Nothing is claimed of rows committed with a flagged timestamp
\* or behind a recovery target.  The row need not be there once only: each open
\* may add two copies, for it lists the log's segments twice and table.lsn() is
\* 0 in a new process; but no more than two.
AckedPresent ==
    state \in {"open", "closing"} =>
        \A a \in acked : /\ a.row \in excused \/ Copies(a.row) # {}
                        /\ Cardinality(Copies(a.row)) <= 1 + 2 * restarts

\* No row of a transaction that never committed is visible, unless the index
\* was rebuilt from the pages or another process gave the transaction's id to
\* one that did commit.
VisibleCommitted ==
    ~rebuilt => \A i \in 1 .. RowCount :
        LET row == RowAt(i)
        IN row.tx # 0 /\ CommittedAt(i)
              => \E w \in wonTx : w = <<row.proc, row.tx>> \/ (w[2] = row.tx /\ w[1] # row.proc)

\* New snapshots are not older than what the index holds: the clock has been
\* restored past every committed timestamp, but for those replayed from the
\* log by this very process.
ClockAhead ==
    state \in {"open", "closing"} /\ ~broken =>
        \A i \in DOMAIN index : Committed(index[i]) => index[i] <= clock \/ i \in replayed

-----------------------------------------------------------------------------
\* What a statement of the running process can see.
Visible == {RowAt(i) : i \in {j \in 1 .. RowCount : CommittedAt(j)}}

Durable == INSTANCE DurableRows WITH
               up       <- state # "down",
               seen     <- Visible,
               promised <- {a.row : a \in acked},
               waived   <- excused

\* The database keeps the promise of DurableRows: while a process runs, no row
\* that is visible vanishes, none becomes visible but by the answer to its own
\* INSERT or COMMIT, and a COMMIT shows its rows all at once; a shutdown costs
\* no row, and an open brings back all that is promised and not excused.
RefinesDurableRows == Durable!Spec

=============================================================================
