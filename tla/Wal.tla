--------------------------------- MODULE Wal ---------------------------------
(***************************************************************************)
(* The write-ahead log (recovery/wal.cpp) under its users: sessions that   *)
(* log BEGIN, INSERT, COMMIT and ROLLBACK (db/transaction.cpp and          *)
(* db/database.cpp), the checkpoint that cuts old segments off, and the    *)
(* crashes, restarts and clean shutdowns in between.                       *)
(*                                                                         *)
(* A segment file is named after the LSN it starts with, so the directory  *)
(* is a function from start LSNs to what the file holds.  The records of   *)
(* an ofstream that have not reached the file are in buf: a crash keeps    *)
(* any part of it, and may cut the next record in two.                     *)
(***************************************************************************)
EXTENDS Integers, Sequences, FiniteSets

CONSTANTS Sessions,
          kMaxSegmentSize,   \* records of a segment (64 MB in the code)
          MaxRecords,        \* bound: records ever appended
          MaxTx,             \* bound: transactions of one process
          MaxRestarts        \* bound: crashes and shutdowns

ASSUME WalAssumption ==
    /\ kMaxSegmentSize \in Nat \ {0}
    /\ MaxRecords \in Nat /\ MaxTx \in Nat /\ MaxRestarts \in Nat

VARIABLES
    log,        \* the wal/ directory: start LSN -> records in that file
    cur,        \* current_segment_start_lsn_
    buf,        \* records in the buffer of file_
    nextLsn,    \* next_lsn_
    segSize,    \* current_segment_size_, in records
    state,      \* "open", or how the process ended: "crashed", "closed"
    nextTx,     \* next_tx_id_
    pc,         \* where each session is
    tx,         \* its tx id
    start,      \* Transaction::start_lsn
    active,     \* active_txns_, as the set of sessions with an entry
    ckpt,       \* where the checkpoint is
    ckptLsn,    \* its checkpoint_lsn
    safe,       \* its safe_lsn
    meta,       \* checkpoint.meta
    mine,       \* ghost: the inserts and the commit of its transaction
    written,    \* ghost: records ever appended, which numbers them
    acked,      \* ghost: inserts and commits whose COMMIT has returned
    reused,     \* ghost: open() chose an LSN below one in a file, its name or the meta
    restarts    \* crashes and shutdowns so far

walVars  == <<log, cur, buf, nextLsn, segSize>>
sessVars == <<nextTx, pc, tx, start, active, mine>>
ckptVars == <<ckpt, ckptLsn, safe, meta>>
vars == <<walVars, sessVars, ckptVars, state, written, acked, reused, restarts>>

RecordType == {"begin", "insert", "commit", "rollback", "tornHeader", "tornPayload"}
Torn == {"tornHeader", "tornPayload"}

\* id is a ghost: the number of the record among all that were appended.
Record == [lsn : Nat, tx : Nat, type : RecordType, id : Nat]

Idle == [s \in Sessions |-> "out"]
Zero == [s \in Sessions |-> 0]
None == [s \in Sessions |-> {}]

Init ==
    /\ log = [g \in {1} |-> <<>>] /\ cur = 1
    /\ buf = <<>> /\ nextLsn = 1 /\ segSize = 0
    /\ state = "open"
    /\ nextTx = 1 /\ pc = Idle /\ tx = Zero /\ start = Zero /\ active = {} /\ mine = None
    /\ ckpt = "idle" /\ ckptLsn = 0 /\ safe = 0 /\ meta = 0
    /\ written = 0 /\ acked = {} /\ reused = FALSE /\ restarts = 0

-----------------------------------------------------------------------------
(* WalWriter.                                                              *)

\* What file_.flush() does.  A segment that was unlinked while it was open
\* takes the records with it.
Flushed == IF cur \in DOMAIN log THEN [log EXCEPT ![cur] = @ \o buf] ELSE log

\* Opening in append mode creates the file or goes on at its end.
WithFile(dir, g) == [h \in DOMAIN dir \cup {g} |-> IF h \in DOMAIN dir THEN dir[h] ELSE <<>>]

\* append_record, with rotate_if_needed in front of it.
NewRecord(x, type) == [lsn |-> nextLsn, tx |-> x, type |-> type, id |-> written + 1]

AppendRecord(x, type) ==
    LET r == NewRecord(x, type)
    IN /\ state = "open" /\ written < MaxRecords
       /\ written' = written + 1
       /\ nextLsn' = nextLsn + 1
       /\ IF segSize >= kMaxSegmentSize
          THEN /\ log' = WithFile(Flushed, nextLsn) /\ cur' = nextLsn
               /\ buf' = <<r>> /\ segSize' = 1
          ELSE /\ buf' = Append(buf, r) /\ segSize' = segSize + 1
               /\ UNCHANGED <<log, cur>>

\* Mutant: the test against safe_lsn is off by one.
RemovableLate(g, upTo) == \E h \in DOMAIN log : h > g /\ h <= upTo + 1

\* remove_segments_before deletes a segment when the next one starts at or
\* before safe_lsn; the last one has no next.
Removable(g, upTo) == \E h \in DOMAIN log : h > g /\ h <= upTo

-----------------------------------------------------------------------------
(* Sessions.                                                               *)

\* TransactionManager::begin logs the record first and enters the transaction
\* into active_txns_ afterwards.
Begin(s) ==
    /\ pc[s] = "out" /\ nextTx <= MaxTx
    /\ AppendRecord(nextTx, "begin")
    /\ nextTx' = nextTx + 1
    /\ tx' = [tx EXCEPT ![s] = nextTx]
    /\ start' = [start EXCEPT ![s] = nextLsn]
    /\ pc' = [pc EXCEPT ![s] = "begun"]
    /\ UNCHANGED <<active, mine, ckptVars, state, acked, reused, restarts>>

Register(s) ==
    /\ pc[s] = "begun"
    /\ active' = active \cup {s}
    /\ pc' = [pc EXCEPT ![s] = "in"]
    /\ UNCHANGED <<walVars, nextTx, tx, start, mine, ckptVars, state, written, acked, reused, restarts>>

\* append_insert, append_insert_batch and append_delete; outside a
\* transaction with kInvalidTxId.
Insert(s) ==
    /\ pc[s] \in {"out", "in"}
    /\ AppendRecord(tx[s], "insert")
    /\ mine' = IF pc[s] = "out" THEN mine
               ELSE [mine EXCEPT ![s] = @ \cup {NewRecord(tx[s], "insert")}]
    /\ UNCHANGED <<nextTx, pc, tx, start, active, ckptVars, state, acked, reused, restarts>>

AppendCommit(s) ==
    /\ pc[s] = "in"
    /\ AppendRecord(tx[s], "commit")
    /\ mine' = [mine EXCEPT ![s] = @ \cup {NewRecord(tx[s], "commit")}]
    /\ pc' = [pc EXCEPT ![s] = "flush"]
    /\ UNCHANGED <<nextTx, tx, start, active, ckptVars, state, acked, reused, restarts>>

Finish(s) ==
    /\ active' = active \ {s}
    /\ tx' = [tx EXCEPT ![s] = 0]
    /\ start' = [start EXCEPT ![s] = 0]
    /\ mine' = [mine EXCEPT ![s] = {}]
    /\ pc' = [pc EXCEPT ![s] = "out"]

\* Mutant: COMMIT returns without flushing the log.
CommitFlushNone(s) ==
    /\ pc[s] = "flush"
    /\ acked' = acked \cup mine[s]
    /\ Finish(s)
    /\ UNCHANGED <<walVars, nextTx, ckptVars, state, written, reused, restarts>>

\* The synchronous flush; the rows are stamped (module Mvcc) and the
\* transaction leaves active_txns_ before COMMIT returns.
CommitFlush(s) ==
    /\ pc[s] = "flush"
    /\ log' = Flushed /\ buf' = <<>>
    /\ acked' = acked \cup mine[s]
    /\ Finish(s)
    /\ UNCHANGED <<cur, nextLsn, segSize, nextTx, ckptVars, state, written, reused, restarts>>

Rollback(s) ==
    /\ pc[s] = "in"
    /\ AppendRecord(tx[s], "rollback")
    /\ Finish(s)
    /\ UNCHANGED <<nextTx, ckptVars, state, acked, reused, restarts>>

-----------------------------------------------------------------------------
(* Database::checkpoint; checkpoint_exec_mtx_ admits one at a time.        *)

CkptBegin ==
    /\ state = "open" /\ ckpt = "idle"
    /\ ckptLsn' = nextLsn
    /\ ckpt' = "flushed"
    /\ UNCHANGED <<walVars, sessVars, safe, meta, state, written, acked, reused, restarts>>

\* flush_pending, sync and save_vindex of every table come before; when one
\* fails the checkpoint returns and the log keeps its segments.
CkptMeta ==
    /\ ckpt = "flushed"
    /\ \/ meta' = ckptLsn /\ ckpt' = "saved" /\ UNCHANGED ckptLsn
       \/ ckpt' = "idle" /\ ckptLsn' = 0 /\ UNCHANGED meta
    /\ UNCHANGED <<walVars, sessVars, safe, state, written, acked, reused, restarts>>

\* Mutant: running transactions are not asked.
SafeLsnAlone == ckptLsn

\* The smaller of checkpoint_lsn and oldest_active_lsn().
SafeLsn ==
    LET lsns == {ckptLsn} \cup {start[s] : s \in active}
    IN CHOOSE m \in lsns : \A n \in lsns : m <= n

CkptOldest ==
    /\ ckpt = "saved"
    /\ safe' = SafeLsn
    /\ ckpt' = "remove"
    /\ UNCHANGED <<walVars, sessVars, ckptLsn, meta, state, written, acked, reused, restarts>>

CkptRemove ==
    /\ ckpt = "remove"
    /\ log' = [g \in {h \in DOMAIN log : ~Removable(h, safe)} |-> log[g]]
    /\ ckpt' = "idle" /\ ckptLsn' = 0 /\ safe' = 0
    /\ UNCHANGED <<cur, buf, nextLsn, segSize, sessVars, meta, state, written, acked, reused, restarts>>

-----------------------------------------------------------------------------
(* Crash, shutdown and restart.                                            *)

Stop(how) ==
    /\ state = "open" /\ restarts < MaxRestarts
    /\ state' = how
    /\ restarts' = restarts + 1
    /\ buf' = <<>> /\ segSize' = 0
    /\ nextTx' = 1 /\ pc' = Idle /\ tx' = Zero /\ start' = Zero /\ active' = {} /\ mine' = None
    /\ ckpt' = "idle" /\ ckptLsn' = 0 /\ safe' = 0

\* Some records of the buffer have reached the file, the next one in part.
Crash ==
    /\ Stop("crashed")
    /\ \E n \in 0 .. Len(buf) :
          LET kept == SubSeq(buf, 1, n)
          IN \E tail \in {<<>>} \cup (IF n = Len(buf) THEN {}
                                      ELSE {<<[buf[n + 1] EXCEPT !.type = k]>> : k \in Torn}) :
                log' = IF cur \in DOMAIN log THEN [log EXCEPT ![cur] = @ \o kept \o tail] ELSE log
    /\ UNCHANGED <<cur, nextLsn, meta, written, acked, reused>>

\* Database::close joins the checkpointer before it closes the log.
Close ==
    /\ Stop("closed")
    /\ ckpt = "idle"
    /\ log' = Flushed
    /\ UNCHANGED <<cur, nextLsn, meta, written, acked, reused>>

\* Mutant: the scan forgets to add one to the last LSN.
ScannedLsnLast(recs, from) ==
    LET lsns == {recs[i].lsn : i \in 1 .. Len(recs)} \cup {from - 1}
    IN CHOOSE m \in lsns : \A n \in lsns : n <= m

\* The scan of the last segment: headers up to the first torn record, whose
\* own header counts when it is whole.  Behind it the reads are out of step.
ScannedLsn(recs, from) ==
    LET seen == {i \in 1 .. Len(recs) :
                    /\ recs[i].type # "tornHeader"
                    /\ \A j \in 1 .. i - 1 : recs[j].type \notin Torn}
        lsns == {recs[i].lsn + 1 : i \in seen} \cup {from}
    IN CHOOSE m \in lsns : \A n \in lsns : n <= m

LastSegment == CHOOSE g \in DOMAIN log : \A h \in DOMAIN log : h <= g

\* WalWriter::open.  next_lsn_ is 1 in a new process; a Database object that
\* was closed and is opened again keeps its value.
Open ==
    /\ state # "open"
    /\ state' = "open"
    /\ IF DOMAIN log = {} THEN cur' = 1 /\ nextLsn' = 1
       ELSE /\ cur' = LastSegment
            /\ \E from \in {1} \cup (IF state = "closed" THEN {nextLsn} ELSE {}) :
                  nextLsn' = ScannedLsn(log[LastSegment], from)
    /\ log' = WithFile(log, cur')
    /\ segSize' = Len(log'[cur'])
    /\ reused' = (\/ reused \/ nextLsn' < meta \/ nextLsn' < cur'
                  \/ \E g \in DOMAIN log : \E i \in 1 .. Len(log[g]) :
                        log[g][i].type \notin Torn /\ log[g][i].lsn >= nextLsn')
    /\ UNCHANGED <<buf, sessVars, ckptVars, written, acked, restarts>>

-----------------------------------------------------------------------------
Next ==
    \/ \E s \in Sessions :
          \/ Begin(s) \/ Register(s) \/ Insert(s)
          \/ AppendCommit(s) \/ CommitFlush(s) \/ Rollback(s)
    \/ CkptBegin \/ CkptMeta \/ CkptOldest \/ CkptRemove
    \/ Crash \/ Close \/ Open

Spec == Init /\ [][Next]_vars

-----------------------------------------------------------------------------
(* Properties.                                                             *)

\* The types of the variables: segments, buffer, LSNs and sessions (WalWriter,
\* TransactionManager).
TypeOK ==
    /\ DOMAIN log \subseteq Nat /\ \A g \in DOMAIN log : log[g] \in Seq(Record)
    /\ cur \in Nat /\ buf \in Seq(Record)
    /\ nextLsn \in Nat \ {0} /\ segSize \in Nat
    /\ state \in {"open", "crashed", "closed"}
    /\ nextTx \in Nat
    /\ pc \in [Sessions -> {"out", "begun", "in", "flush"}]
    /\ tx \in [Sessions -> Nat] /\ start \in [Sessions -> Nat]
    /\ mine \in [Sessions -> SUBSET Record]
    /\ active \in SUBSET Sessions
    /\ ckpt \in {"idle", "flushed", "saved", "remove"}
    /\ ckptLsn \in Nat /\ safe \in Nat /\ meta \in Nat
    /\ written \in Nat /\ acked \in SUBSET Record
    /\ reused \in BOOLEAN /\ restarts \in Nat

Held(r) == \E g \in DOMAIN log : \E i \in 1 .. Len(log[g]) : log[g][i] = r

\* What COMMIT acknowledged is in the files of the log: it was flushed, no
\* crash takes it away, and a checkpoint removes its segment only when
\* checkpoint.meta says that recovery starts after it.  (Once open() has
\* handed out an LSN twice, segment names are no longer a guide.)
CommitDurable == ~reused => \A r \in acked : Held(r) \/ r.lsn < meta

\* The log keeps every insert of a transaction that is running, however a
\* checkpoint and the transaction's entry into active_txns_ interleave.
ActiveKept ==
    ~reused => \A s \in Sessions : \A r \in mine[s] :
        Held(r) \/ \E i \in 1 .. Len(buf) : buf[i] = r

=============================================================================
