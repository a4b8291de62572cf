------------------------- MODULE FlushHandlerProofs -------------------------
(***************************************************************************)
(* Proofs about module FlushHandler, for any number of writers and tables: *)
(* its types, and that no queued batch is forgotten.                       *)
(***************************************************************************)
EXTENDS FlushHandler, TLAPS

\* do_flush starts with the first table: between two flushes the place it
\* is at is 1.  A flush that starts in the middle would pass over a table
\* whose writer has given up its signal to it.
StartsFirst == loop # "flush" => at = 1

FlushInv == TypeOK /\ StartsFirst /\ WorkNotForgotten

-----------------------------------------------------------------------------
\* notify_one takes at most one sleeper away from cv_.
LEMMA NotifyOneType ==
    ASSUME asleep \in SUBSET {"loop", "close"}, NotifyOne
    PROVE  asleep' \in SUBSET {"loop", "close"}
BY DEF NotifyOne

\* Every step of the flush thread, its callers and its writers keeps the types.
LEMMA TypeStep ==
    ASSUME TypeOK, StartsFirst, [Next]_vars
    PROVE  TypeOK' /\ StartsFirst'
<1> USE FlushHandlerAssumption DEF TypeOK, StartsFirst, Tables
<1>1. ASSUME NEW w \in Writers, Push(w)
      PROVE  TypeOK' /\ StartsFirst'
    BY <1>1 DEF Push
<1>2. ASSUME NEW w \in Writers, SignalSet(w)
      PROVE  TypeOK' /\ StartsFirst'
    BY <1>2 DEF SignalSet
<1>3. ASSUME NEW w \in Writers, SignalNotify(w)
      PROVE  TypeOK' /\ StartsFirst'
    BY <1>3, NotifyOneType DEF SignalNotify
<1>4. CASE LoopTest
    BY <1>4 DEF LoopTest, Proceed
<1>5. CASE LoopDoze
    BY <1>5 DEF LoopDoze
<1>6. CASE LoopNotified
    BY <1>6 DEF LoopNotified
<1>7. CASE LoopTimeout
    BY <1>7 DEF LoopTimeout, Proceed
<1>8. CASE FlushTable
    BY <1>8 DEF FlushTable
<1>9. CASE Bump
    BY <1>9 DEF Bump
<1>10. CASE NotifyAll
    BY <1>10 DEF NotifyAll
<1>11. CASE FlushAll
    BY <1>11 DEF FlushAll
<1>12. CASE FlushAllNotify
    BY <1>12, NotifyOneType DEF FlushAllNotify
<1>13. CASE FlushAllTest
    BY <1>13 DEF FlushAllTest
<1>14. CASE FlushAllNotified
    BY <1>14 DEF FlushAllNotified
<1>15. CASE Shutdown
    BY <1>15 DEF Shutdown
<1>16. CASE ShutdownNotify
    BY <1>16, NotifyOneType DEF ShutdownNotify
<1>17. CASE Join
    BY <1>17 DEF Join
<1>18. CASE UNCHANGED vars
    BY <1>18 DEF vars
<1>19. QED
    BY <1>1, <1>2, <1>3, <1>4, <1>5, <1>6, <1>7, <1>8, <1>9, <1>10, <1>11,
       <1>12, <1>13, <1>14, <1>15, <1>16, <1>17, <1>18
    DEF Next, LoopStep, CloseStep

\* No step forgets a queued batch: the writer hands it to flush_requested_,
\* flush_loop takes the flag and starts at the first table, and the flush
\* goes on to every table it has not visited.
LEMMA WorkStep ==
    ASSUME TypeOK, StartsFirst, WorkNotForgotten, [Next]_vars
    PROVE  WorkNotForgotten'
<1> USE FlushHandlerAssumption DEF TypeOK, WorkNotForgotten, Tables
<1> DEFINE Kept == /\ UNCHANGED <<queued, requested, shutdown, pc>>
                   /\ loop = "flush" => UNCHANGED <<loop, at>>
<1>0. Kept => WorkNotForgotten'
    OBVIOUS
<1> HIDE DEF Kept
<1>1. ASSUME NEW w \in Writers, Push(w)
      PROVE  WorkNotForgotten'
    <2>1. pc'[w] = "set"
        BY <1>1 DEF Push
    <2>2. QED
        BY <2>1
<1>2. ASSUME NEW w \in Writers, SignalSet(w)
      PROVE  WorkNotForgotten'
    BY <1>2 DEF SignalSet
<1>3. ASSUME NEW w \in Writers, SignalNotify(w)
      PROVE  WorkNotForgotten'
    <2>1. \A v \in Writers : pc[v] = "set" => pc'[v] = "set"
        BY <1>3 DEF SignalNotify
    <2>2. UNCHANGED <<queued, requested, shutdown, loop, at>>
        BY <1>3 DEF SignalNotify
    <2>3. QED
        BY <2>1, <2>2
<1>4. ASSUME Proceed, loop # "flush", UNCHANGED <<queued, shutdown, at, pc>>
      PROVE  WorkNotForgotten'
    BY <1>4 DEF Proceed, StartsFirst
<1>5. CASE LoopTest
    <2>1. CASE requested \/ shutdown
        BY <1>4, <1>5, <2>1 DEF LoopTest
    <2>2. CASE ~(requested \/ shutdown)
        BY <1>0, <1>5, <2>2 DEF LoopTest, Kept
    <2>3. QED
        BY <2>1, <2>2
<1>6. CASE LoopTimeout
    BY <1>4, <1>6 DEF LoopTimeout
<1>7. CASE FlushTable
    <2>1. ASSUME NEW t \in queued', loop = "flush", at <= t
          PROVE  loop' = "flush" /\ at' <= t
        BY <1>7, <2>1 DEF FlushTable
    <2>2. queued' \subseteq queued /\ UNCHANGED <<requested, shutdown, pc>>
        BY <1>7 DEF FlushTable
    <2>3. QED
        BY <2>1, <2>2
<1>8. CASE FlushAll
    BY <1>8 DEF FlushAll
<1>9. CASE Shutdown
    BY <1>9 DEF Shutdown
<1>10. CASE LoopDoze \/ LoopNotified \/ Bump \/ NotifyAll
    BY <1>0, <1>10 DEF LoopDoze, LoopNotified, Bump, NotifyAll, Kept
<1>11. CASE FlushAllNotify \/ FlushAllTest \/ FlushAllNotified \/ ShutdownNotify \/ Join
    BY <1>0, <1>11 DEF FlushAllNotify, FlushAllTest, FlushAllNotified, ShutdownNotify, Join, Kept
<1>12. CASE UNCHANGED vars
    BY <1>0, <1>12 DEF vars, Kept
<1>13. QED
    BY <1>1, <1>2, <1>3, <1>5, <1>6, <1>7, <1>8, <1>9, <1>10, <1>11, <1>12
    DEF Next, LoopStep, CloseStep

\* The state in which the FlushHandler is constructed.
LEMMA InitFlush == Init => FlushInv
<1> SUFFICES ASSUME Init PROVE FlushInv
    OBVIOUS
<1>1. requested \in BOOLEAN /\ shutdown \in BOOLEAN /\ bumped \in BOOLEAN
    BY Zenon DEF Init
<1>2. queued = {} /\ asleep = {} /\ loop = "test" /\ at = 1 /\ close = "running"
    BY DEF Init
<1>3. at \in Tables
    BY <1>2, FlushHandlerAssumption DEF Tables
<1>4. pc \in [Writers -> {"idle", "set", "notify"}]
    BY DEF Init
<1>5. TypeOK
    BY <1>1, <1>2, <1>3, <1>4 DEF TypeOK
<1>6. QED
    BY <1>2, <1>5 DEF FlushInv, StartsFirst, WorkNotForgotten

-----------------------------------------------------------------------------
\* In every state the queue, the flags, the sleepers in cv_ and the places of
\* flush_loop, close and the writers are what TypeOK says.
THEOREM FlushTypeCorrect == Spec => []TypeOK
<1>1. Init => TypeOK /\ StartsFirst
    BY InitFlush DEF FlushInv
<1>2. TypeOK /\ StartsFirst /\ [Next]_vars => (TypeOK /\ StartsFirst)'
    BY TypeStep
<1>3. QED
    BY <1>1, <1>2, PTL DEF Spec

\* No batch that push_flush_queue has queued is left behind by a signal that
\* was lost: the flag, the signalling writer or the running flush stands for
\* it, whatever the number of writers and tables.
THEOREM WorkRemembered == Spec => []WorkNotForgotten
<1>1. Init => FlushInv
    BY InitFlush
<1>2. FlushInv /\ [Next]_vars => FlushInv'
    BY TypeStep, WorkStep DEF FlushInv
<1>3. FlushInv => WorkNotForgotten
    BY DEF FlushInv
<1>4. QED
    BY <1>1, <1>2, <1>3, PTL DEF Spec

=============================================================================
