------------------------------ MODULE IndexMap ------------------------------
(***************************************************************************)
(* What an index promises the statements that use it: a set of pairs of a  *)
(* key and a row id to which an insertion adds its pair and from which     *)
(* nothing is taken.  An insertion that is cut short may damage the index: *)
(* pairs may be missing from then on, and may come back, but no pair is    *)
(* in it that nobody inserted.                                             *)
(***************************************************************************)
CONSTANTS Keys, RowIds

VARIABLES pairs,        \* what the index holds
          asked,        \* the pairs of all insertions that have ended
          intact        \* none of them was cut short

vars == <<pairs, asked, intact>>

Init == pairs = {} /\ asked = {} /\ intact = TRUE

Insert(k, r) ==
    /\ asked' = asked \cup {<<k, r>>}
    /\ pairs' = pairs \cup {<<k, r>>}
    /\ UNCHANGED intact

\* The insertion ends before it changed anything.
Refuse(k, r) ==
    /\ asked' = asked \cup {<<k, r>>}
    /\ UNCHANGED <<pairs, intact>>

Damage ==
    /\ intact' = FALSE
    /\ \/ UNCHANGED asked
       \/ \E k \in Keys, r \in RowIds : asked' = asked \cup {<<k, r>>}
    /\ pairs' \subseteq asked'

Next == Damage \/ \E k \in Keys, r \in RowIds : Insert(k, r) \/ Refuse(k, r)

Spec == Init /\ [][Next]_vars
=============================================================================
