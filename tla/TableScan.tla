------------------------------ MODULE TableScan ------------------------------
(***************************************************************************)
(* A statement that scans the table (SELECT, UPDATE, DELETE, CREATE INDEX) *)
(* first calls flush_pending and then reads pages only.  This module adds  *)
(* to TableIngest what a scan owes its caller: every row acknowledged when *)
(* the scan was called must be on a page when its flush_pending returns.   *)
(***************************************************************************)
EXTENDS TableIngest

VARIABLE owed    \* history: row ids acknowledged when a flush was called

scanVars == <<vars, owed>>

\* The rows of the inserts that had returned.  A session inside a call is
\* left out, even when some rows of earlier calls are acknowledged.
Acknowledged ==
    UNION {writeSet[w] : w \in {v \in Writers : pc[v] \notin
                                   {"load", "get", "cas", "lock", "push"}}}

ScanInit == Init /\ owed = [f \in Flushers |-> {}]

ScanNext ==
    /\ Next
    /\ owed' = [f \in Flushers |-> CASE pc'[f] = "idle" -> {}
                                     [] pc[f] = "idle" /\ pc'[f] # "idle" -> Acknowledged
                                     [] OTHER -> owed[f]]

ScanSpec == ScanInit /\ [][ScanNext]_scanVars

FairScanSpec == ScanSpec /\ Fairness

OnSomePage(rid) == \E i \in 1 .. Len(pages) : rid \in PageIds(i)

\* When flush_pending returns kOk, every row whose insert had returned before
\* the call is on a page, and the scan that follows sees it - unless another
\* thread has the row's batch in its hands at that moment.
FlushCovers ==
    [][\A f \in Flushers : FlushReturn(f) =>
          \A rid \in owed[f] :
              \/ OnSomePage(rid)
              \/ \E t \in Threads \ {f} : Owns(t) /\ rid \in RowIds(ptr[t])]_scanVars

=============================================================================
