----------------------------- MODULE ThreadPool -----------------------------
(***************************************************************************)
(* thread_pool_wrap (com_thread_pool.hpp): a task queue under one mutex,   *)
(* one condition variable, worker threads, and two atomic counters kept    *)
(* outside the mutex.  A critical section is one step; what the code does  *)
(* before taking the mutex or after releasing it is a step of its own, so  *)
(* that other threads come between.                                        *)
(*                                                                         *)
(* The pool is created, stopped and destroyed by one thread, the Owner     *)
(* (dispatcher::start and stop are called by the application's main        *)
(* thread).  Callers are the other threads that schedule; a task may       *)
(* schedule too, as a channel that re-posts itself does.                   *)
(***************************************************************************)
EXTENDS Integers, Sequences, FiniteSets

CONSTANTS
    Workers,        \* the threads of the pool
    Callers,        \* threads outside it that schedule tasks
    Owner,          \* the thread that inits, stops and destroys the pool
    MaxTasks,       \* bound on the tasks accepted in one behaviour
    MaxRounds,      \* bound on the times the pool is started
    CounterMod      \* 2^w for the w bits of the counters (size_t)

ASSUME WorkersAssumption == IsFiniteSet(Workers)
ASSUME CallersAssumption == IsFiniteSet(Callers)
ASSUME OwnerAssumption == Owner \notin Workers \cup Callers
ASSUME DisjointAssumption == Workers \cap Callers = {}
ASSUME BoundsAssumption == MaxTasks \in Nat /\ MaxRounds \in Nat
ASSUME CounterAssumption == CounterMod \in Nat \ {0}

VARIABLES
    state,          \* m_state
    tasks,          \* the queue: task numbers, and Marker for safe_stop's task
    ntasks,         \* m_ntasks
    working,        \* m_working
    waiting,        \* the workers blocked in cv.wait
    pc,             \* where each worker is
    held,           \* the task a worker took last
    sub,            \* what a thread that has pushed a task still has to do
    owner,          \* where the owner is
    markerDone,     \* the future of safe_stop's task is ready
    accepted,       \* tasks accepted so far: numbered 1 .. accepted
    rounds          \* times the pool was started

vars == <<state, tasks, ntasks, working, waiting, pc, held, sub, owner,
          markerDone, accepted, rounds>>

\* Groups an action leaves alone
queueVars == <<state, tasks, accepted>>
countVars == <<ntasks, working>>
threadVars == <<waiting, pc, held>>
ownerVars == <<owner, markerDone, rounds>>

Marker == 0
Submitters == Callers \cup Workers \cup {Owner}

TypeOK ==
    /\ state \in {"none", "stop", "start"}
    /\ tasks \in Seq(Nat)
    /\ ntasks \in 0 .. CounterMod - 1
    /\ working \in 0 .. CounterMod - 1
    /\ waiting \in SUBSET Workers
    /\ pc \in [Workers -> {"off", "born", "loop", "fetch", "wait", "taken", "run", "exited"}]
    /\ held \in [Workers -> Nat]
    /\ sub \in [Submitters -> {"idle", "count", "notify"}]
    /\ owner \in {"idle", "spawn", "open", "await", "destroy", "discard", "wake", "join",
                  "wakeDead", "joinDead", "dead"}
    /\ markerDone \in BOOLEAN
    /\ accepted \in Nat
    /\ rounds \in Nat

Init ==
    /\ state = "none"
    /\ tasks = <<>>
    /\ ntasks = 0
    /\ working = 0
    /\ waiting = {}
    /\ pc = [w \in Workers |-> "off"]
    /\ held = [w \in Workers |-> Marker]
    /\ sub = [s \in Submitters |-> "idle"]
    /\ owner = "idle"
    /\ markerDone = FALSE
    /\ accepted = 0
    /\ rounds = 0

Up(counter) == (counter + 1) % CounterMod
Down(counter) == (counter + CounterMod - 1) % CounterMod

-----------------------------------------------------------------------------
(* schedule: the push, then the counter, then the notification *)

\* A caller is any thread outside the pool, which must exist while it calls, or a
\* worker whose task schedules.
MaySchedule(s) ==
    \/ s \in Callers /\ owner # "discard"
    \/ s \in Workers /\ pc[s] = "run" /\ held[s] # Marker

Submit(s) ==
    /\ sub[s] = "idle"
    /\ MaySchedule(s)
    /\ state = "start"
    /\ accepted < MaxTasks
    /\ accepted' = accepted + 1
    /\ tasks' = Append(tasks, accepted')
    /\ sub' = [sub EXCEPT ![s] = "count"]
    /\ UNCHANGED <<state, countVars, threadVars, ownerVars>>

Count(s) ==
    /\ sub[s] = "count"
    /\ ntasks' = Up(ntasks)
    /\ sub' = [sub EXCEPT ![s] = "notify"]
    /\ UNCHANGED <<working, queueVars, threadVars, ownerVars>>

\* A worker that leaves the wait set goes on to take the mutex again.
Awaken(woken) ==
    /\ waiting' = waiting \ woken
    /\ pc' = [w \in Workers |-> IF w \in woken THEN "fetch" ELSE pc[w]]

\* mutant: the notification is not sent
Mut_NoNotify(s) ==
    /\ sub[s] = "notify"
    /\ sub' = [sub EXCEPT ![s] = "idle"]
    /\ UNCHANGED <<queueVars, countVars, threadVars, ownerVars>>

\* cv.notify_one wakes some waiting thread, or nobody when there is none.
Notify(s) ==
    /\ sub[s] = "notify"
    /\ sub' = [sub EXCEPT ![s] = "idle"]
    /\ \/ \E w \in waiting : Awaken({w})
       \/ waiting = {} /\ UNCHANGED <<waiting, pc>>
    /\ UNCHANGED <<held, queueVars, countVars, ownerVars>>

-----------------------------------------------------------------------------
(* _run and get_task *)

\* The ++m_working before the loop.
Begin(w) ==
    /\ pc[w] = "born"
    /\ working' = Up(working)
    /\ pc' = [pc EXCEPT ![w] = "loop"]
    /\ UNCHANGED <<ntasks, waiting, held, sub, queueVars, ownerVars>>

\* The --m_working at the head of the loop.
Loop(w) ==
    /\ pc[w] = "loop"
    /\ working' = Down(working)
    /\ pc' = [pc EXCEPT ![w] = "fetch"]
    /\ UNCHANGED <<ntasks, waiting, held, sub, queueVars, ownerVars>>

\* get_task returns an invalid task.
Exit(w) ==
    /\ pc[w] = "fetch"
    /\ state = "none"
    /\ pc' = [pc EXCEPT ![w] = "exited"]
    /\ UNCHANGED <<waiting, held, sub, queueVars, countVars, ownerVars>>

\* cv.wait: the mutex is released and the worker joins the wait set in one step.
Wait(w) ==
    /\ pc[w] = "fetch"
    /\ state # "none"
    /\ tasks = <<>>
    /\ waiting' = waiting \cup {w}
    /\ pc' = [pc EXCEPT ![w] = "wait"]
    /\ UNCHANGED <<held, sub, queueVars, countVars, ownerVars>>

\* cv.wait may return without a notification.
SpuriousWakeup(w) ==
    /\ w \in waiting
    /\ Awaken({w})
    /\ UNCHANGED <<held, sub, queueVars, countVars, ownerVars>>

\* mutant: a worker that takes a task is not counted as working
Mut_TakeUncounted(w) ==
    /\ pc[w] = "fetch"
    /\ state # "none"
    /\ tasks # <<>>
    /\ held' = [held EXCEPT ![w] = Head(tasks)]
    /\ tasks' = Tail(tasks)
    /\ pc' = [pc EXCEPT ![w] = "taken"]
    /\ UNCHANGED <<state, waiting, sub, accepted, countVars, ownerVars>>

Take(w) ==
    /\ pc[w] = "fetch"
    /\ state # "none"
    /\ tasks # <<>>
    /\ working' = Up(working)
    /\ held' = [held EXCEPT ![w] = Head(tasks)]
    /\ tasks' = Tail(tasks)
    /\ pc' = [pc EXCEPT ![w] = "taken"]
    /\ UNCHANGED <<state, ntasks, waiting, sub, accepted, ownerVars>>

\* The --m_ntasks after the mutex is released.
Uncount(w) ==
    /\ pc[w] = "taken"
    /\ ntasks' = Down(ntasks)
    /\ pc' = [pc EXCEPT ![w] = "run"]
    /\ UNCHANGED <<working, waiting, held, sub, queueVars, ownerVars>>

\* The task returns, every schedule it made with it.
Finish(w) ==
    /\ pc[w] = "run"
    /\ sub[w] = "idle"
    /\ markerDone' = (markerDone \/ held[w] = Marker)
    /\ held' = [held EXCEPT ![w] = Marker]
    /\ pc' = [pc EXCEPT ![w] = "loop"]
    /\ UNCHANGED <<waiting, sub, owner, rounds, queueVars, countVars>>

-----------------------------------------------------------------------------
(* init, safe_stop and the destructor *)

\* thread_pool<0>::init, or a constructor: the state that lets workers wait.
BeginInit ==
    /\ owner = "idle"
    /\ rounds < MaxRounds
    /\ state = "none"
    /\ state' = "stop"
    /\ owner' = "spawn"
    /\ rounds' = rounds + 1
    /\ UNCHANGED <<tasks, sub, markerDone, accepted, countVars, threadVars>>

Spawn(w) ==
    /\ owner = "spawn"
    /\ pc[w] = "off"
    /\ pc' = [pc EXCEPT ![w] = "born"]
    /\ UNCHANGED <<waiting, held, sub, queueVars, countVars, ownerVars>>

\* The end of _init: from here schedule accepts.
EndInit ==
    /\ owner = "spawn"
    /\ \A w \in Workers : pc[w] # "off"
    /\ state' = "start"
    /\ owner' = "open"
    /\ UNCHANGED <<tasks, sub, markerDone, accepted, rounds, countVars, threadVars>>

\* safe_stop finds the queue empty.
StopEmpty ==
    /\ owner = "open"
    /\ state = "start"
    /\ tasks = <<>>
    /\ state' = "stop"
    /\ owner' = "destroy"
    /\ UNCHANGED <<tasks, sub, markerDone, accepted, rounds, countVars, threadVars>>

\* mutant: safe_stop's own task is not counted
Mut_StopUncounted ==
    /\ owner = "open"
    /\ state = "start"
    /\ tasks # <<>>
    /\ state' = "stop"
    /\ tasks' = Append(tasks, Marker)
    /\ markerDone' = FALSE
    /\ sub' = [sub EXCEPT ![Owner] = "notify"]
    /\ owner' = "await"
    /\ UNCHANGED <<accepted, rounds, countVars, threadVars>>

\* safe_stop queues a task of its own behind the others and waits for it.
StopQueued ==
    /\ owner = "open"
    /\ state = "start"
    /\ tasks # <<>>
    /\ state' = "stop"
    /\ tasks' = Append(tasks, Marker)
    /\ markerDone' = FALSE
    /\ sub' = [sub EXCEPT ![Owner] = "count"]
    /\ owner' = "await"
    /\ UNCHANGED <<accepted, rounds, countVars, threadVars>>

\* mutant: safe_stop does not wait for its task's future
Mut_NoAwait ==
    /\ owner = "await"
    /\ sub[Owner] = "idle"
    /\ owner' = "destroy"
    /\ UNCHANGED <<sub, markerDone, rounds, queueVars, countVars, threadVars>>

\* get_future().get() returns.
Await ==
    /\ owner = "await"
    /\ sub[Owner] = "idle"
    /\ markerDone
    /\ owner' = "destroy"
    /\ UNCHANGED <<sub, markerDone, rounds, queueVars, countVars, threadVars>>

\* ~thread_pool on a pool that was not stopped: no thread is inside schedule then.
Destruct ==
    /\ owner = "open"
    /\ \A c \in Callers : sub[c] = "idle"
    /\ owner' = "discard"
    /\ UNCHANGED <<sub, markerDone, rounds, queueVars, countVars, threadVars>>

\* _destory, its critical section
Destroy ==
    /\ owner \in {"destroy", "discard"}
    /\ state # "none"
    /\ state' = "none"
    /\ owner' = IF owner = "destroy" THEN "wake" ELSE "wakeDead"
    /\ UNCHANGED <<tasks, sub, markerDone, accepted, rounds, countVars, threadVars>>

\* mutant: _destory wakes one worker
Mut_WakeOne ==
    /\ owner \in {"wake", "wakeDead"}
    /\ \/ \E w \in waiting : Awaken({w})
       \/ waiting = {} /\ UNCHANGED <<waiting, pc>>
    /\ owner' = IF owner = "wake" THEN "join" ELSE "joinDead"
    /\ UNCHANGED <<held, sub, markerDone, rounds, queueVars, countVars>>

\* _destory's notify_all
WakeAll ==
    /\ owner \in {"wake", "wakeDead"}
    /\ Awaken(waiting)
    /\ owner' = IF owner = "wake" THEN "join" ELSE "joinDead"
    /\ UNCHANGED <<held, sub, markerDone, rounds, queueVars, countVars>>

\* _destory's joins: a stopped pool may be started again, a destroyed one is gone.
Join ==
    /\ owner \in {"join", "joinDead"}
    /\ \A w \in Workers : pc[w] = "exited"
    /\ pc' = [w \in Workers |-> "off"]
    /\ owner' = IF owner = "join" THEN "idle" ELSE "dead"
    /\ UNCHANGED <<waiting, held, sub, markerDone, rounds, queueVars, countVars>>

-----------------------------------------------------------------------------
WorkerStep(w) ==
    \/ Begin(w) \/ Loop(w) \/ Exit(w) \/ Wait(w) \/ Take(w) \/ Uncount(w) \/ Finish(w)

SubmitterStep(s) == Count(s) \/ Notify(s)

\* What the owner does without being asked to, once it began.
OwnerStep ==
    \/ \E w \in Workers : Spawn(w)
    \/ EndInit \/ Await \/ Destroy \/ WakeAll \/ Join

Next ==
    \/ \E s \in Callers \cup Workers : Submit(s)
    \/ \E s \in Submitters : SubmitterStep(s)
    \/ \E w \in Workers : WorkerStep(w) \/ SpuriousWakeup(w)
    \/ BeginInit \/ StopEmpty \/ StopQueued \/ Destruct \/ OwnerStep

(***************************************************************************)
(* Every thread the scheduler runs makes its next step, a task returns, a  *)
(* thread contending for the mutex gets it.  Nothing obliges a thread to   *)
(* schedule, to init or to stop, and no wake-up is spurious by obligation. *)
(***************************************************************************)
Fairness ==
    /\ \A w \in Workers : WF_vars(WorkerStep(w))
    /\ \A s \in Submitters : WF_vars(SubmitterStep(s))
    /\ WF_vars(OwnerStep)

SafeSpec == Init /\ [][Next]_vars
Spec == SafeSpec /\ Fairness

-----------------------------------------------------------------------------
(* Properties *)

Awake == {w \in Workers : pc[w] \in {"born", "loop", "fetch"}}
Notifying == {s \in Submitters : sub[s] \in {"count", "notify"}}

(***************************************************************************)
(* No wake-up is lost, and none is spent on the wrong thread: while a      *)
(* worker sleeps in cv.wait, each queued task has a worker on its way to   *)
(* get_task or a notification still to come.  schedule sends it after the  *)
(* mutex is released, which would break this if the push came later.       *)
(***************************************************************************)
WorkConserving ==
    (state # "none" /\ waiting # {}) => Len(tasks) <= Cardinality(Awake) + Cardinality(Notifying)

Uncounted == {s \in Submitters : sub[s] = "count"}
Undiscounted == {w \in Workers : pc[w] = "taken"}
Busy == {w \in Workers : pc[w] \in {"loop", "taken", "run"}}

(***************************************************************************)
(* The counter of queued tasks differs from the queue by exactly the       *)
(* threads between the queue and the counter, so the drift never           *)
(* accumulates, across safe_stop's own task and restarts.                  *)
(***************************************************************************)
CounterExact ==
    ntasks = (Len(tasks) + Cardinality(Undiscounted) - Cardinality(Uncounted)) % CounterMod

(***************************************************************************)
(* The pool implements the abstract task queue: accepted tasks start in    *)
(* order and once, and safe_stop returns only when all of them are over,   *)
(* also those that running tasks scheduled before the stop.                *)
(***************************************************************************)
Queued == {i \in DOMAIN tasks : tasks[i] # Marker}
Running == {held[w] : w \in {x \in Workers : pc[x] \in {"taken", "run"}}} \ {Marker}

Phase ==
    CASE owner \in {"idle", "spawn"} -> "closed"
      [] owner = "open" -> "open"
      [] owner \in {"await", "destroy", "wake", "join"} -> "draining"
      [] OTHER -> IF state = "none" THEN "discarded" ELSE "open"

Abstract == INSTANCE TaskQueue WITH
    phase <- Phase, accepted <- accepted, running <- Running,
    started <- accepted - Cardinality(Queued)

Implements == Abstract!Spec

(***************************************************************************)
(* safe_stop returns, and so does the destructor: no worker sleeps through *)
(* notify_all and the marker task is reached.                              *)
(***************************************************************************)
StopReturns ==
    /\ (owner \in {"await", "destroy"}) ~> (owner = "idle")
    /\ (owner = "discard") ~> (owner = "dead")
=============================================================================
