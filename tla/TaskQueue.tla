----------------------------- MODULE TaskQueue -----------------------------
(***************************************************************************)
(* What a task pool promises its users, with nothing of how it keeps it:   *)
(* tasks are numbered in the order they are accepted, are started in that  *)
(* order, each exactly once, and closing returns only after every accepted *)
(* task is over.  Discarding (the destructor) finishes what was started    *)
(* and drops the rest.                                                     *)
(***************************************************************************)
EXTENDS Naturals

CONSTANT MaxTasks   \* bound on the tasks accepted in one behaviour

VARIABLES
    phase,      \* "closed", "open", "draining" or "discarded"
    accepted,   \* how many tasks have been accepted
    started,    \* how many of them were handed to a worker: 1 .. started
    running     \* the started ones that are not over

vars == <<phase, accepted, started, running>>

Init ==
    /\ phase = "closed"
    /\ accepted = 0
    /\ started = 0
    /\ running = {}

Open ==
    /\ phase = "closed"
    /\ phase' = "open"
    /\ UNCHANGED <<accepted, started, running>>

Accept ==
    /\ phase = "open"
    /\ accepted < MaxTasks
    /\ accepted' = accepted + 1
    /\ UNCHANGED <<phase, started, running>>

Start ==
    /\ phase \in {"open", "draining"}
    /\ started < accepted
    /\ started' = started + 1
    /\ running' = running \cup {started'}
    /\ UNCHANGED <<phase, accepted>>

Finish(t) ==
    /\ t \in running
    /\ running' = running \ {t}
    /\ UNCHANGED <<phase, accepted, started>>

Drain ==
    /\ phase = "open"
    /\ phase' = "draining"
    /\ UNCHANGED <<accepted, started, running>>

Close ==
    /\ phase = "draining"
    /\ started = accepted
    /\ running = {}
    /\ phase' = "closed"
    /\ UNCHANGED <<accepted, started, running>>

Discard ==
    /\ phase = "open"
    /\ phase' = "discarded"
    /\ UNCHANGED <<accepted, started, running>>

Next ==
    \/ Open \/ Accept \/ Start \/ Drain \/ Close \/ Discard
    \/ \E t \in 1 .. MaxTasks : Finish(t)

(***************************************************************************)
(* The promise has a live part: accepted tasks are started while the pool  *)
(* is not discarded, started tasks end, a draining pool closes.            *)
(***************************************************************************)
Fairness ==
    /\ WF_vars(Start)
    /\ WF_vars(Close)
    /\ \A t \in 1 .. MaxTasks : WF_vars(Finish(t))

Spec == Init /\ [][Next]_vars /\ Fairness
=============================================================================
