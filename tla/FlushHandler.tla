---------------------------- MODULE FlushHandler ----------------------------
(***************************************************************************)
(* buffer/flush_handler.cpp: the background thread that flushes every      *)
(* table when a full batch was queued, and Database::close, which asks it  *)
(* for a last flush, waits for that and joins it.                          *)
(*                                                                         *)
(* One condition variable serves both sides, and signal() sets its flag    *)
(* without the mutex, so a notification may come while the thread is       *)
(* between its test and its sleep, or go to the wrong sleeper.             *)
(***************************************************************************)
EXTENDS Naturals, FiniteSets

CONSTANTS Writers,      \* threads that queue batches (inserts, GC, checkpointer)
          NumTables

ASSUME FlushHandlerAssumption == NumTables \in Nat \ {0}

Tables == 1 .. NumTables

VARIABLES
    queued,      \* tables with a batch in their flush queue
    requested,   \* flush_requested_
    shutdown,    \* shutdown_
    bumped,      \* flush_gen_ > my_gen, as the caller of flush_all sees it
    asleep,      \* who is blocked in cv_: "loop", "close"
    loop,        \* where flush_loop is
    at,          \* the table do_flush is at
    close,       \* where Database::close is
    pc           \* where push_flush_queue of each writer is

vars == <<queued, requested, shutdown, bumped, asleep, loop, at, close, pc>>

Init ==
    /\ queued = {} /\ requested = FALSE /\ shutdown = FALSE /\ bumped = FALSE
    /\ asleep = {} /\ loop = "test" /\ at = 1
    /\ close = "running"
    /\ pc = [w \in Writers |-> "idle"]

\* The mutex is held from a failed test to the sleep that follows.
MutexFree == loop # "dozing"

NotifyOne == IF asleep = {} THEN UNCHANGED asleep
             ELSE \E p \in asleep : asleep' = asleep \ {p}

-----------------------------------------------------------------------------
(* push_flush_queue and signal().                                          *)

Push(w) ==
    /\ pc[w] = "idle" /\ ~shutdown
    /\ \E t \in Tables : queued' = queued \cup {t}
    /\ pc' = [pc EXCEPT ![w] = "set"]
    /\ UNCHANGED <<requested, shutdown, bumped, asleep, loop, at, close>>

SignalSet(w) ==
    /\ pc[w] = "set"
    /\ requested' = TRUE
    /\ pc' = [pc EXCEPT ![w] = "notify"]
    /\ UNCHANGED <<queued, shutdown, bumped, asleep, loop, at, close>>

SignalNotify(w) ==
    /\ pc[w] = "notify"
    /\ NotifyOne
    /\ pc' = [pc EXCEPT ![w] = "idle"]
    /\ UNCHANGED <<queued, requested, shutdown, bumped, loop, at, close>>

-----------------------------------------------------------------------------
(* flush_loop.                                                             *)

\* What follows the wait: leave on shutdown_, else take the flag.
Proceed ==
    /\ loop' = IF shutdown THEN "exit" ELSE IF requested THEN "flush" ELSE "test"
    /\ requested' = (requested /\ shutdown)

LoopTest ==
    /\ loop = "test"
    /\ IF requested \/ shutdown THEN Proceed
       ELSE loop' = "dozing" /\ UNCHANGED requested
    /\ UNCHANGED <<queued, shutdown, bumped, asleep, at, close, pc>>

LoopDoze ==
    /\ loop = "dozing"
    /\ loop' = "asleep" /\ asleep' = asleep \cup {"loop"}
    /\ UNCHANGED <<queued, requested, shutdown, bumped, at, close, pc>>

LoopNotified ==
    /\ loop = "asleep" /\ "loop" \notin asleep
    /\ loop' = "test"
    /\ UNCHANGED <<queued, requested, shutdown, bumped, asleep, at, close, pc>>

\* Mutant: wait instead of wait_for.
LoopTimeoutNever == FALSE /\ UNCHANGED vars

\* kSyncIntervalMs have passed; the flag is looked at all the same.
LoopTimeout ==
    /\ loop = "asleep" /\ "loop" \in asleep
    /\ asleep' = asleep \ {"loop"}
    /\ Proceed
    /\ UNCHANGED <<queued, shutdown, bumped, at, close, pc>>

\* Mutant: the loop runs one past the last table.
FlushTablePast ==
    /\ loop = "flush"
    /\ queued' = queued \ {at}
    /\ at' = IF at > NumTables THEN 1 ELSE at + 1
    /\ loop' = IF at > NumTables THEN "bump" ELSE "flush"
    /\ UNCHANGED <<requested, shutdown, bumped, asleep, close, pc>>

\* do_flush: flush_pending and sync, table by table.
FlushTable ==
    /\ loop = "flush"
    /\ queued' = queued \ {at}
    /\ at' = IF at = NumTables THEN 1 ELSE at + 1
    /\ loop' = IF at = NumTables THEN "bump" ELSE "flush"
    /\ UNCHANGED <<requested, shutdown, bumped, asleep, close, pc>>

\* Mutant: the flag is cleared when the flush is over, not before it starts.
BumpClears ==
    /\ loop = "bump"
    /\ bumped' = (close \in {"notify", "test", "asleep"})
    /\ requested' = FALSE
    /\ loop' = "notifyAll"
    /\ UNCHANGED <<queued, shutdown, asleep, at, close, pc>>

\* Only a caller that has taken my_gen compares with it.
Bump ==
    /\ loop = "bump"
    /\ bumped' = (close \in {"notify", "test", "asleep"})
    /\ loop' = "notifyAll"
    /\ UNCHANGED <<queued, requested, shutdown, asleep, at, close, pc>>

\* Mutant: the caller of flush_all is not notified.
NotifyAllNone ==
    /\ loop = "notifyAll"
    /\ loop' = "test"
    /\ UNCHANGED <<queued, requested, shutdown, bumped, asleep, at, close, pc>>

NotifyAll ==
    /\ loop = "notifyAll"
    /\ asleep' = {}
    /\ loop' = "test"
    /\ UNCHANGED <<queued, requested, shutdown, bumped, at, close, pc>>

-----------------------------------------------------------------------------
(* Database::close: flush_all, later the destructor.                       *)

\* flush_all: my_gen and the flag under the mutex, the notification without.
FlushAll ==
    /\ close = "running" /\ MutexFree
    /\ bumped' = FALSE /\ requested' = TRUE
    /\ close' = "notify"
    /\ UNCHANGED <<queued, shutdown, asleep, loop, at, pc>>

FlushAllNotify ==
    /\ close = "notify"
    /\ NotifyOne
    /\ close' = "test"
    /\ UNCHANGED <<queued, requested, shutdown, bumped, loop, at, pc>>

FlushAllTest ==
    /\ close = "test" /\ MutexFree
    /\ IF bumped \/ shutdown THEN close' = "returned" /\ UNCHANGED asleep
       ELSE close' = "asleep" /\ asleep' = asleep \cup {"close"}
    /\ UNCHANGED <<queued, requested, shutdown, bumped, loop, at, pc>>

FlushAllNotified ==
    /\ close = "asleep" /\ "close" \notin asleep
    /\ close' = "test"
    /\ UNCHANGED <<queued, requested, shutdown, bumped, asleep, loop, at, pc>>

\* ~FlushHandler; the threads that signal have been joined before.
Shutdown ==
    /\ close = "returned" /\ MutexFree
    /\ \A w \in Writers : pc[w] = "idle"
    /\ shutdown' = TRUE
    /\ close' = "notifyLoop"
    /\ UNCHANGED <<queued, requested, bumped, asleep, loop, at, pc>>

ShutdownNotify ==
    /\ close = "notifyLoop"
    /\ NotifyOne
    /\ close' = "join"
    /\ UNCHANGED <<queued, requested, shutdown, bumped, loop, at, pc>>

Join ==
    /\ close = "join" /\ loop = "exit"
    /\ close' = "joined"
    /\ UNCHANGED <<queued, requested, shutdown, bumped, asleep, loop, at, pc>>

-----------------------------------------------------------------------------
LoopStep ==
    \/ LoopTest \/ LoopDoze \/ LoopNotified \/ LoopTimeout
    \/ FlushTable \/ Bump \/ NotifyAll

CloseStep ==
    \/ FlushAllNotify \/ FlushAllTest \/ FlushAllNotified
    \/ Shutdown \/ ShutdownNotify \/ Join

Next ==
    \/ \E w \in Writers : Push(w) \/ SignalSet(w) \/ SignalNotify(w)
    \/ LoopStep \/ FlushAll \/ CloseStep

\* Every thread that can run does; the timeout makes the sleeping loop one of
\* them.  close() need not be called, and writers push when they like.  The
\* mutex is free again and again, and Shutdown waits for threads that come to
\* rest: strong fairness for close.
Fairness ==
    /\ WF_vars(LoopStep)
    /\ SF_vars(CloseStep)
    /\ \A w \in Writers : WF_vars(SignalSet(w) \/ SignalNotify(w))

Spec == Init /\ [][Next]_vars /\ Fairness

-----------------------------------------------------------------------------
(* Properties.                                                             *)

\* The types of the variables of the flush thread, its callers and the condition
\* variable (FlushHandler's fields and the places where its threads wait).
TypeOK ==
    /\ queued \in SUBSET Tables
    /\ requested \in BOOLEAN /\ shutdown \in BOOLEAN /\ bumped \in BOOLEAN
    /\ asleep \in SUBSET {"loop", "close"}
    /\ loop \in {"test", "dozing", "asleep", "flush", "bump", "notifyAll", "exit"}
    /\ at \in Tables
    /\ close \in {"running", "notify", "test", "asleep", "returned", "notifyLoop", "join", "joined"}
    /\ pc \in [Writers -> {"idle", "set", "notify"}]

\* A queued batch is flushed although the notification may be lost between
\* the test and the sleep or wake close() instead of the loop.
QueuedFlushed == \A t \in Tables : (t \in queued) ~> (t \notin queued \/ shutdown)

\* flush_all returns: whoever consumed which notification, the caller that
\* sleeps on the generation counter is woken once it has grown.
FlushAllReturns == (close = "notify") ~> (close = "returned")

\* Nothing is left in the queue unless somebody is about to do something: a
\* push is followed by its signal, a set flag by a flush, a flush by the
\* tables it has still to visit.
WorkNotForgotten ==
    \A t \in queued :
        \/ requested \/ shutdown
        \/ \E w \in Writers : pc[w] = "set"
        \/ loop = "flush" /\ at <= t

=============================================================================
