---------------------------- MODULE PoolObserver ----------------------------
(***************************************************************************)
(* The thread pool and a thread that watches it, as thread_listen of the   *)
(* pool's test does: it reads work_size() and then task_size(), two loads  *)
(* of two atomic counters, outside the mutex and with everything else      *)
(* going on in between.  It may poll as often as it likes.                 *)
(***************************************************************************)
EXTENDS ThreadPool

VARIABLES
    polling,    \* it has read work_size(), and not yet task_size()
    seen,       \* what work_size() said
    first       \* history: the tasks started until then are 1 .. first

watch == <<polling, seen, first>>
observed == <<vars, watch>>

WatchOK == polling \in BOOLEAN /\ seen \in 0 .. CounterMod - 1 /\ first \in Nat

ObservedInit == Init /\ polling = FALSE /\ seen = 0 /\ first = 0

ReadWorkSize ==
    /\ ~polling
    /\ polling' = TRUE
    /\ seen' = working
    /\ first' = accepted - Cardinality(Queued)
    /\ UNCHANGED vars

ReadTaskSize ==
    /\ polling
    /\ polling' = FALSE /\ seen' = 0 /\ first' = 0
    /\ UNCHANGED vars

ObservedNext ==
    \/ Next /\ UNCHANGED watch
    \/ ReadWorkSize
    \/ ReadTaskSize

ObservedSafeSpec == ObservedInit /\ [][ObservedNext]_observed
ObservedSpec == ObservedSafeSpec /\ Fairness

(***************************************************************************)
(* What work_size() = n followed by task_size() = 0 tells an observer, for *)
(* which the pool's test polls them: with no thread inside schedule at the *)
(* second read, every task ever accepted has been started, and of those    *)
(* started before the first read at most n are not over - with n = 0, all  *)
(* are.  Tasks taken between the two reads may still be running, which the *)
(* observer cannot see.  m_ntasks is changed outside the mutex, and wraps  *)
(* below zero when a worker takes a task before its submitter counted it.  *)
(***************************************************************************)
OldRunning == {i \in Running : i <= first}

QuietMeansDone ==
    [][(polling /\ ~polling' /\ ntasks = 0 /\ Uncounted = {})
          => tasks = <<>> /\ Cardinality(OldRunning) <= seen]_observed
=============================================================================
