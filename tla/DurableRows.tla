----------------------------- MODULE DurableRows -----------------------------
(***************************************************************************)
(* What a database promises the callers of INSERT and COMMIT, whatever its *)
(* files and its log look like: a set of rows that are seen while it runs, *)
(* to which a call that returns adds its rows, all of them at once, from   *)
(* which nothing is taken, and which is there again after a restart.  What *)
(* the promise does not cover is waived, when the call returns or when a   *)
(* process ends by a crash or starts; a shutdown waives nothing.           *)
(***************************************************************************)
VARIABLES up,         \* a process runs
          seen,       \* the rows a statement can see
          promised,   \* the rows of the calls that have returned
          waived      \* rows of which nothing is promised any more

vars == <<up, seen, promised, waived>>

Init == up = TRUE /\ seen = {} /\ promised = {} /\ waived = {}

\* A call returns.  Its rows are seen from then on; or, when they can never be
\* seen, no part of the call is.
Answer ==
    /\ up /\ UNCHANGED up
    /\ promised \subseteq promised'
    /\ LET new == promised' \ promised
       IN \/ seen' = seen \cup new /\ UNCHANGED waived
          \/ UNCHANGED seen /\ waived' = waived \cup new

Shutdown ==
    /\ up /\ up' = FALSE
    /\ seen' = {} /\ UNCHANGED <<promised, waived>>

Crash ==
    /\ up /\ up' = FALSE
    /\ seen' = {} /\ UNCHANGED promised
    /\ waived \subseteq waived'

\* More may be seen than was promised: a call that was cut short may have come
\* far enough.
Start ==
    /\ ~up /\ up' = TRUE
    /\ UNCHANGED promised
    /\ waived \subseteq waived'
    /\ promised \ waived' \subseteq seen'

Next == Answer \/ Shutdown \/ Crash \/ Start

Spec == Init /\ [][Next]_vars
=============================================================================
