-------------------------- MODULE ThreadPoolProofs --------------------------
(***************************************************************************)
(* The thread pool's type invariant, WorkConserving and its two counters,  *)
(* for any number of workers and callers and any width of the counters;    *)
(* that it is a task queue; and what an observer of its counters learns.   *)
(***************************************************************************)
EXTENDS PoolObserver, SequenceTheorems, FiniteSetTheorems, TLAPS

(***************************************************************************)
(* Every action of the pool keeps every variable in its type.              *)
(***************************************************************************)
LEMMA TypeInit == Init => TypeOK
<1>1. 0 \in 0 .. CounterMod - 1
  BY CounterAssumption
<1>2. <<>> \in Seq(Nat) /\ 0 \in Nat
  OBVIOUS
<1> QED BY <1>1, <1>2 DEF Init, TypeOK, Marker

(***************************************************************************)
(* Every step of the pool keeps every variable in its type.                *)
(***************************************************************************)
LEMMA TypeStep == TypeOK /\ [Next]_vars => TypeOK'
<1> SUFFICES ASSUME TypeOK, [Next]_vars PROVE TypeOK'
  OBVIOUS
<1> USE CounterAssumption DEF TypeOK, queueVars, countVars, threadVars, ownerVars
<1>0. Owner \in Submitters /\ Workers \cup Callers \subseteq Submitters
  BY DEF Submitters
<1>a. \A n \in 0 .. CounterMod - 1 : Up(n) \in 0 .. CounterMod - 1 /\ Down(n) \in 0 .. CounterMod - 1
  BY DEF Up, Down
<1>b. ASSUME NEW woken, woken \subseteq Workers, Awaken(woken)
      PROVE  /\ waiting' \in SUBSET Workers
             /\ pc' \in [Workers -> {"off", "born", "loop", "fetch", "wait", "taken",
                                     "run", "exited"}]
  BY <1>b DEF Awaken
<1>1. ASSUME NEW s \in Callers \cup Workers, Submit(s) PROVE TypeOK'
  BY <1>0, <1>1 DEF Submit
<1>2. ASSUME NEW s \in Submitters, Count(s) PROVE TypeOK'
  BY <1>2, <1>a DEF Count
<1>3. ASSUME NEW s \in Submitters, Notify(s) PROVE TypeOK'
  <2>1. CASE waiting = {} /\ UNCHANGED <<waiting, pc>>
    BY <1>3, <2>1 DEF Notify
  <2>2. CASE \E w \in waiting : Awaken({w})
    BY <1>3, <2>2, <1>b DEF Notify
  <2> QED BY <1>3, <2>1, <2>2 DEF Notify
<1>4. ASSUME NEW w \in Workers, WorkerStep(w) \/ SpuriousWakeup(w) PROVE TypeOK'
  <2>1. CASE Begin(w)
    BY <2>1, <1>a DEF Begin
  <2>2. CASE Loop(w)
    BY <2>2, <1>a DEF Loop
  <2>3. CASE Exit(w)
    BY <2>3 DEF Exit
  <2>4. CASE Wait(w)
    BY <2>4 DEF Wait
  <2>5. CASE Take(w)
    <3>1. tasks' \in Seq(Nat) /\ Head(tasks) \in Nat
      BY <2>5 DEF Take
    <3> QED BY <2>5, <3>1, <1>a DEF Take
  <2>6. CASE Uncount(w)
    BY <2>6, <1>a DEF Uncount
  <2>7. CASE Finish(w)
    BY <2>7 DEF Finish, Marker
  <2>8. CASE SpuriousWakeup(w)
    BY <2>8, <1>b DEF SpuriousWakeup
  <2> QED BY <1>4, <2>1, <2>2, <2>3, <2>4, <2>5, <2>6, <2>7, <2>8 DEF WorkerStep
<1>5. CASE BeginInit
  BY <1>5 DEF BeginInit
<1>6. CASE StopEmpty
  BY <1>6 DEF StopEmpty
<1>7. CASE StopQueued
  <2>1. tasks' \in Seq(Nat)
    BY <1>7 DEF StopQueued, Marker
  <2>2. sub' \in [Submitters -> {"idle", "count", "notify"}]
    BY <1>7, <1>0 DEF StopQueued
  <2> QED BY <1>7, <2>1, <2>2 DEF StopQueued
<1>8. CASE Destruct
  BY <1>8 DEF Destruct
<1>9. CASE OwnerStep
  <2>1. ASSUME NEW w \in Workers, Spawn(w) PROVE TypeOK'
    BY <2>1 DEF Spawn
  <2>2. CASE EndInit
    BY <2>2 DEF EndInit
  <2>3. CASE Await
    BY <2>3 DEF Await
  <2>4. CASE Destroy
    BY <2>4 DEF Destroy
  <2>5. CASE WakeAll
    BY <2>5, <1>b DEF WakeAll
  <2>6. CASE Join
    BY <2>6 DEF Join
  <2> QED BY <1>9, <2>1, <2>2, <2>3, <2>4, <2>5, <2>6 DEF OwnerStep
<1>10. CASE UNCHANGED vars
  BY <1>10 DEF vars
<1> QED BY <1>1, <1>2, <1>3, <1>4, <1>5, <1>6, <1>7, <1>8, <1>9, <1>10
        DEF Next, SubmitterStep

(***************************************************************************)
(* The type invariant of the thread pool.                                  *)
(***************************************************************************)
THEOREM TypeCorrect == SafeSpec => []TypeOK
BY TypeInit, TypeStep, PTL DEF SafeSpec

-----------------------------------------------------------------------------
(***************************************************************************)
(* WorkConserving is not inductive alone: it needs to know who sleeps,     *)
(* that the pool has no sleeper and a live state when it starts, and that  *)
(* the owner's own notification is not yet owed when safe_stop queues its  *)
(* task.                                                                   *)
(***************************************************************************)
Sleepers == waiting = {w \in Workers : pc[w] = "wait"}

OwnerShape ==
    /\ owner = "idle" => \A w \in Workers : pc[w] = "off"
    /\ owner = "spawn" => state = "stop"
    /\ owner # "await" => sub[Owner] = "idle"

IInv == TypeOK /\ Sleepers /\ OwnerShape /\ WorkConserving

(***************************************************************************)
(* The two sets of threads that WorkConserving counts are finite, so a     *)
(* member more or less is one more or less.                                *)
(***************************************************************************)
LEMMA FiniteThreads ==
    IsFiniteSet(Submitters) /\ IsFiniteSet(Awake) /\ IsFiniteSet(Notifying)
<1>1. IsFiniteSet(Submitters)
  <2>1. IsFiniteSet({Owner})
    BY FS_Singleton
  <2> QED BY <2>1, WorkersAssumption, CallersAssumption, FS_Union DEF Submitters
<1>2. Awake \subseteq Workers /\ Notifying \subseteq Submitters
  BY DEF Awake, Notifying
<1> QED BY <1>1, <1>2, WorkersAssumption, FS_Subset

(***************************************************************************)
(* A finite set with a new member has one member more.                     *)
(***************************************************************************)
LEMMA OneMore ==
    ASSUME NEW S, NEW T, NEW x, IsFiniteSet(S), x \notin S, T = S \cup {x}
    PROVE  /\ Cardinality(S) \in Nat /\ Cardinality(T) \in Nat
           /\ Cardinality(T) = Cardinality(S) + 1
BY FS_AddElement, FS_CardinalityType

(***************************************************************************)
(* A subset of a finite set has no more members than the set.              *)
(***************************************************************************)
LEMMA NoFewer ==
    ASSUME NEW S, NEW T, IsFiniteSet(T), S \subseteq T
    PROVE  /\ Cardinality(S) \in Nat /\ Cardinality(T) \in Nat
           /\ Cardinality(S) <= Cardinality(T)
BY FS_Subset, FS_CardinalityType

(***************************************************************************)
(* A pool that was not started has no sleeper and no task.                 *)
(***************************************************************************)
LEMMA InvInit == Init => IInv
<1> SUFFICES ASSUME Init PROVE IInv
  OBVIOUS
<1>1. Sleepers /\ OwnerShape
  BY DEF Init, Sleepers, OwnerShape, Submitters
<1>2. WorkConserving
  BY DEF Init, WorkConserving
<1> QED BY <1>1, <1>2, TypeInit DEF IInv

(***************************************************************************)
(* Who sleeps and what the owner is doing, step by step.                   *)
(***************************************************************************)
LEMMA ShapeStep ==
    TypeOK /\ Sleepers /\ OwnerShape /\ [Next]_vars => Sleepers' /\ OwnerShape'
<1> SUFFICES ASSUME TypeOK, Sleepers, OwnerShape, [Next]_vars
             PROVE  Sleepers' /\ OwnerShape'
  OBVIOUS
<1> USE OwnerAssumption
    DEF TypeOK, Sleepers, OwnerShape, Submitters, queueVars, countVars, threadVars, ownerVars
<1>1. ASSUME NEW s \in Callers \cup Workers, Submit(s) PROVE Sleepers' /\ OwnerShape'
  BY <1>1 DEF Submit
<1>2. ASSUME NEW s \in Submitters, Count(s) PROVE Sleepers' /\ OwnerShape'
  BY <1>2 DEF Count
<1>3. ASSUME NEW s \in Submitters, Notify(s) PROVE Sleepers' /\ OwnerShape'
  <2>1. CASE waiting = {} /\ UNCHANGED <<waiting, pc>>
    BY <1>3, <2>1 DEF Notify
  <2>2. ASSUME NEW w \in waiting, Awaken({w}) PROVE Sleepers' /\ OwnerShape'
    <3>1. Sleepers'
      BY <2>2 DEF Awaken
    <3>2. OwnerShape'
      BY <1>3, <2>2 DEF Awaken, Notify
    <3> QED BY <3>1, <3>2
  <2> QED BY <1>3, <2>1, <2>2 DEF Notify
<1>4. ASSUME NEW w \in Workers, WorkerStep(w) PROVE Sleepers' /\ OwnerShape'
  BY <1>4 DEF WorkerStep, Begin, Loop, Exit, Wait, Take, Uncount, Finish
<1>5. ASSUME NEW w \in Workers, SpuriousWakeup(w) PROVE Sleepers' /\ OwnerShape'
  BY <1>5 DEF SpuriousWakeup, Awaken
<1>6. CASE BeginInit \/ StopEmpty \/ StopQueued \/ Destruct
  BY <1>6 DEF BeginInit, StopEmpty, StopQueued, Destruct
<1>7. CASE OwnerStep
  <2>1. ASSUME NEW w \in Workers, Spawn(w) PROVE Sleepers' /\ OwnerShape'
    BY <2>1 DEF Spawn
  <2>2. CASE EndInit \/ Await \/ Destroy
    BY <2>2 DEF EndInit, Await, Destroy
  <2>3. CASE WakeAll
    BY <2>3 DEF WakeAll, Awaken
  <2>4. CASE Join
    BY <2>4 DEF Join
  <2> QED BY <1>7, <2>1, <2>2, <2>3, <2>4 DEF OwnerStep
<1>8. CASE UNCHANGED vars
  BY <1>8 DEF vars
<1> QED BY <1>1, <1>2, <1>3, <1>4, <1>5, <1>6, <1>7, <1>8 DEF Next, SubmitterStep

(***************************************************************************)
(* Each action that queues a task owes its notification, each that spends  *)
(* a notification or an awake worker wakes one, takes a task or finds the  *)
(* queue empty.                                                            *)
(***************************************************************************)
LEMMA WorkConservingStep == IInv /\ [Next]_vars => WorkConserving'
<1> SUFFICES ASSUME IInv, [Next]_vars PROVE WorkConserving'
  OBVIOUS
<1> USE DEF IInv, TypeOK, Sleepers, queueVars, countVars, threadVars, ownerVars
<1>0. /\ IsFiniteSet(Awake) /\ IsFiniteSet(Notifying)
      /\ Cardinality(Awake) \in Nat /\ Cardinality(Notifying) \in Nat
      /\ IsFiniteSet(Awake') /\ IsFiniteSet(Notifying')
      /\ Cardinality(Awake') \in Nat /\ Cardinality(Notifying') \in Nat
  <2>1. Awake' \subseteq Workers /\ Notifying' \subseteq Submitters
    BY DEF Awake, Notifying
  <2> QED BY <2>1, FiniteThreads, WorkersAssumption, FS_Subset, FS_CardinalityType
<1>a. \A w \in Workers : pc[w] = "fetch" => w \in Awake
  BY DEF Awake
<1>1. ASSUME NEW s \in Callers \cup Workers, Submit(s) PROVE WorkConserving'
  <2>1. s \notin Notifying /\ Notifying' = Notifying \cup {s}
    BY <1>1 DEF Submit, Notifying, Submitters
  <2>2. Cardinality(Notifying') = Cardinality(Notifying) + 1
    BY <2>1, <1>0, OneMore
  <2>3. Awake' = Awake /\ Len(tasks') = Len(tasks) + 1 /\ Len(tasks) \in Nat
    BY <1>1 DEF Submit, Awake
  <2>4. state' = state /\ waiting' = waiting
    BY <1>1 DEF Submit
  <2> QED BY <1>0, <2>2, <2>3, <2>4, SMTT(30) DEF WorkConserving
<1>2. ASSUME NEW s \in Submitters, Count(s) PROVE WorkConserving'
  <2>1. Notifying' = Notifying /\ Awake' = Awake
    BY <1>2 DEF Count, Notifying, Awake
  <2> QED BY <1>2, <2>1 DEF Count, WorkConserving
<1>3. ASSUME NEW s \in Submitters, Notify(s) PROVE WorkConserving'
  <2>1. CASE waiting = {} /\ UNCHANGED <<waiting, pc>>
    BY <2>1 DEF WorkConserving
  <2>2. ASSUME NEW w \in waiting, Awaken({w}) PROVE WorkConserving'
    <3>1. s \notin Notifying' /\ Notifying = Notifying' \cup {s}
      BY <1>3 DEF Notify, Notifying
    <3>2. w \notin Awake /\ Awake' = Awake \cup {w}
      BY <2>2 DEF Awaken, Awake
    <3>3. /\ Cardinality(Notifying) = Cardinality(Notifying') + 1
          /\ Cardinality(Awake') = Cardinality(Awake) + 1
      BY <3>1, <3>2, <1>0, OneMore
    <3>4. Len(tasks) \in Nat
      OBVIOUS
    <3>5. state' = state /\ tasks' = tasks /\ waiting # {}
      BY <1>3, <2>2 DEF Notify
    <3>6. Cardinality(Awake') + Cardinality(Notifying') = Cardinality(Awake) + Cardinality(Notifying)
      BY <1>0, <3>3
    <3> QED BY <3>4, <3>5, <3>6 DEF WorkConserving
  <2> QED BY <1>3, <2>1, <2>2 DEF Notify
<1>4. ASSUME NEW w \in Workers, Wait(w) \/ Exit(w) PROVE WorkConserving'
  <2>1. CASE Wait(w)
    <3>1. Len(tasks') = 0
      BY <2>1 DEF Wait
    <3> QED BY <3>1, <1>0 DEF WorkConserving
  <2>2. CASE Exit(w)
    BY <2>2 DEF Exit, WorkConserving
  <2> QED BY <1>4, <2>1, <2>2
<1>5. ASSUME NEW w \in Workers, Take(w) PROVE WorkConserving'
  <2>1. w \notin Awake' /\ Awake = Awake' \cup {w} /\ Notifying' = Notifying
    BY <1>5 DEF Take, Awake, Notifying
  <2>2. Cardinality(Awake) = Cardinality(Awake') + 1
    BY <2>1, <1>0, OneMore
  <2>3. Len(tasks') = Len(tasks) - 1 /\ Len(tasks) \in Nat
    BY <1>5 DEF Take
  <2>4. state' = state /\ waiting' = waiting
    BY <1>5 DEF Take
  <2>5. WorkConserving
    OBVIOUS
  <2> QED BY ONLY <1>0, <2>1, <2>2, <2>3, <2>4, <2>5 DEF WorkConserving
<1>6. ASSUME NEW w \in Workers,
             Begin(w) \/ Loop(w) \/ Uncount(w) \/ Finish(w) \/ SpuriousWakeup(w) \/ Spawn(w)
      PROVE  WorkConserving'
  <2>1. Awake \subseteq Awake' /\ Notifying' = Notifying
    BY <1>6 DEF Begin, Loop, Uncount, Finish, SpuriousWakeup, Spawn, Awaken, Awake, Notifying
  <2>2. Cardinality(Awake) <= Cardinality(Awake')
    BY <2>1, <1>0, NoFewer
  <2>3. tasks' = tasks /\ state' = state /\ waiting' \subseteq waiting
    BY <1>6 DEF Begin, Loop, Uncount, Finish, SpuriousWakeup, Spawn, Awaken
  <2>4. Len(tasks) \in Nat
    OBVIOUS
  <2> QED BY <1>0, <2>1, <2>2, <2>3, <2>4 DEF WorkConserving
<1>7. CASE BeginInit
  <2>1. waiting' = {}
    BY <1>7 DEF BeginInit, OwnerShape
  <2> QED BY <2>1 DEF WorkConserving
<1>8. CASE StopQueued
  <2>1. Owner \notin Notifying /\ Notifying' = Notifying \cup {Owner}
    BY <1>8 DEF StopQueued, OwnerShape, Notifying, Submitters
  <2>2. Cardinality(Notifying') = Cardinality(Notifying) + 1
    BY <2>1, <1>0, OneMore
  <2>3. Awake' = Awake /\ Len(tasks') = Len(tasks) + 1 /\ Len(tasks) \in Nat
    BY <1>8 DEF StopQueued, Awake, Marker
  <2> QED BY <1>0, <1>8, <2>2, <2>3, SMTT(30) DEF StopQueued, WorkConserving
<1>9. CASE EndInit \/ StopEmpty \/ Destruct \/ Await
  <2>1. /\ Awake' = Awake /\ Notifying' = Notifying
        /\ tasks' = tasks /\ waiting' = waiting
        /\ state' # "none" => state # "none"
    BY <1>9 DEF EndInit, StopEmpty, Destruct, Await, Awake, Notifying, OwnerShape
  <2> QED BY <2>1 DEF WorkConserving
<1>10. CASE Destroy
  BY <1>10 DEF Destroy, WorkConserving
<1>11. CASE WakeAll
  <2>1. waiting' = {}
    BY <1>11 DEF WakeAll, Awaken
  <2> QED BY <2>1 DEF WorkConserving
<1>12. CASE Join
  <2>1. waiting' = {}
    BY <1>12 DEF Join
  <2> QED BY <2>1 DEF WorkConserving
<1>13. CASE UNCHANGED vars
  BY <1>13 DEF vars, Awake, Notifying, WorkConserving
<1> QED BY <1>1, <1>2, <1>3, <1>4, <1>5, <1>6, <1>7, <1>8, <1>9, <1>10, <1>11, <1>12, <1>13
        DEF Next, SubmitterStep, WorkerStep, OwnerStep

(***************************************************************************)
(* No wake-up of the thread pool is lost, for every number of workers,     *)
(* callers, tasks and restarts.                                            *)
(***************************************************************************)
THEOREM NoLostWakeup == SafeSpec => []WorkConserving
<1>1. IInv /\ [Next]_vars => IInv'
  BY TypeStep, ShapeStep, WorkConservingStep DEF IInv
<1>2. IInv => WorkConserving
  BY DEF IInv
<1> QED BY InvInit, <1>1, <1>2, PTL DEF SafeSpec
-----------------------------------------------------------------------------
(***************************************************************************)
(* The counters. They are kept modulo CounterMod, so the invariant says    *)
(* that they differ from the number they count by a multiple of it.        *)
(***************************************************************************)
Congruent(counter, n) == \E k \in Int : counter = n + k * CounterMod

Drift == Len(tasks) + Cardinality(Undiscounted) - Cardinality(Uncounted)

Counts ==
    /\ Congruent(ntasks, Drift)
    /\ Congruent(working, Cardinality(Busy))

(***************************************************************************)
(* A multiple of m that is smaller than m is zero.                         *)
(***************************************************************************)
LEMMA Multiple ==
    ASSUME NEW m \in Nat \ {0}, NEW k \in Int, NEW d \in Int, d = k * m, d < m, -m < d
    PROVE  d = 0
<1>1. CASE k >= 1
  <2>1. (k - 1) * m >= 0
    BY <1>1
  <2> QED BY <2>1
<1>2. CASE k <= -1
  <2>1. (-1 - k) * m >= 0
    BY <1>2
  <2> QED BY <2>1
<1>3. CASE k = 0
  BY <1>3
<1> QED BY <1>1, <1>2, <1>3

(***************************************************************************)
(* A counter is the remainder of what it counts.                           *)
(***************************************************************************)
LEMMA Remainder ==
    ASSUME NEW c \in 0 .. CounterMod - 1, NEW n \in Int, Congruent(c, n)
    PROVE  c = n % CounterMod
<1> DEFINE q == n \div CounterMod
           r == n % CounterMod
<1>1. PICK k \in Int : c = n + k * CounterMod
  BY DEF Congruent
<1>2. r \in 0 .. CounterMod - 1 /\ n = CounterMod * q + r /\ q \in Int
  BY CounterAssumption
<1> HIDE DEF q, r
<1>3. c - r = (k + q) * CounterMod
  <2>1. c - r = k * CounterMod + q * CounterMod
    BY <1>1, <1>2, CounterAssumption
  <2>2. \A u, v \in Int : u * CounterMod + v * CounterMod = (u + v) * CounterMod
    BY CounterAssumption
  <2> QED BY <2>1, <2>2, <1>2
<1>4. c - r = 0
  <2>1. c - r < CounterMod /\ -CounterMod < c - r /\ c - r \in Int /\ k + q \in Int
    BY <1>2, CounterAssumption
  <2> QED BY <2>1, <1>3, Multiple, CounterAssumption
<1> QED BY <1>2, <1>4 DEF r

(***************************************************************************)
(* The two ways a counter moves: by one, or around its end.                *)
(***************************************************************************)
LEMMA UpDown ==
    ASSUME NEW m \in Nat \ {0}, NEW c \in 0 .. m - 1
    PROVE  /\ (c + 1) % m \in {c + 1, c + 1 - m}
           /\ (c + m - 1) % m \in {c - 1, c - 1 + m}
OBVIOUS

(***************************************************************************)
(* A counter that is raised or lowered follows what it counts.             *)
(***************************************************************************)
LEMMA Follows ==
    ASSUME NEW c \in 0 .. CounterMod - 1, NEW n \in Int, Congruent(c, n)
    PROVE  Congruent(Up(c), n + 1) /\ Congruent(Down(c), n - 1)
<1>1. PICK k \in Int : c = n + k * CounterMod
  BY DEF Congruent
<1>2. /\ Up(c) \in {c + 1, c + 1 - CounterMod}
      /\ Down(c) \in {c - 1, c - 1 + CounterMod}
  BY UpDown, CounterAssumption DEF Up, Down
<1>3. /\ k + 1 \in Int /\ k - 1 \in Int /\ CounterMod \in Int
      /\ (k + 1) * CounterMod = k * CounterMod + CounterMod
      /\ (k - 1) * CounterMod = k * CounterMod - CounterMod
      /\ k * CounterMod \in Int
  BY CounterAssumption
<1>4. \E j \in Int : Up(c) = n + 1 + j * CounterMod
  <2>1. CASE Up(c) = c + 1
    BY <2>1, <1>1, <1>3
  <2>2. CASE Up(c) = c + 1 - CounterMod
    <3>1. Up(c) = n + 1 + (k - 1) * CounterMod
      BY <2>2, <1>1, <1>3
    <3> QED BY <3>1, <1>3
  <2> QED BY <1>2, <2>1, <2>2
<1>5. \E j \in Int : Down(c) = n - 1 + j * CounterMod
  <2>1. CASE Down(c) = c - 1
    BY <2>1, <1>1, <1>3
  <2>2. CASE Down(c) = c - 1 + CounterMod
    <3>1. Down(c) = n - 1 + (k + 1) * CounterMod
      BY <2>2, <1>1, <1>3
    <3> QED BY <3>1, <1>3
  <2> QED BY <1>2, <2>1, <2>2
<1> QED BY <1>4, <1>5 DEF Congruent

(***************************************************************************)
(* The sets the counters lag by, and the one m_working counts, are finite. *)
(***************************************************************************)
LEMMA FiniteCounted ==
    /\ IsFiniteSet(Uncounted) /\ IsFiniteSet(Undiscounted) /\ IsFiniteSet(Busy)
    /\ Cardinality(Uncounted) \in Nat /\ Cardinality(Undiscounted) \in Nat
    /\ Cardinality(Busy) \in Nat
<1>1. Uncounted \subseteq Submitters /\ Undiscounted \subseteq Workers /\ Busy \subseteq Workers
  BY DEF Uncounted, Undiscounted, Busy
<1> QED BY <1>1, FiniteThreads, WorkersAssumption, FS_Subset, FS_CardinalityType

(***************************************************************************)
(* Each action moves a task, a thread and a counter together, or leaves a  *)
(* thread to make up for it.                                               *)
(***************************************************************************)
LEMMA CountsStep == TypeOK /\ Sleepers /\ OwnerShape /\ Counts /\ [Next]_vars => Counts'
<1> SUFFICES ASSUME TypeOK, Sleepers, OwnerShape, Counts, [Next]_vars PROVE Counts'
  OBVIOUS
<1> USE DEF TypeOK, queueVars, countVars, threadVars, ownerVars
<1>a. /\ Len(tasks) \in Nat
      /\ IsFiniteSet(Uncounted) /\ IsFiniteSet(Undiscounted) /\ IsFiniteSet(Busy)
      /\ Cardinality(Uncounted) \in Nat /\ Cardinality(Undiscounted) \in Nat
      /\ Cardinality(Busy) \in Nat
      /\ Drift \in Int
  BY FiniteCounted DEF Drift
<1>b. /\ IsFiniteSet(Uncounted') /\ IsFiniteSet(Undiscounted') /\ IsFiniteSet(Busy')
      /\ Cardinality(Uncounted') \in Nat /\ Cardinality(Undiscounted') \in Nat
      /\ Cardinality(Busy') \in Nat
  <2>1. /\ Uncounted' \subseteq Submitters /\ Undiscounted' \subseteq Workers
        /\ Busy' \subseteq Workers
    BY DEF Uncounted, Undiscounted, Busy
  <2> QED BY <2>1, FiniteThreads, WorkersAssumption, FS_Subset, FS_CardinalityType
<1>c. /\ Congruent(Up(ntasks), Drift + 1) /\ Congruent(Down(ntasks), Drift - 1)
      /\ Congruent(Up(working), Cardinality(Busy) + 1)
      /\ Congruent(Down(working), Cardinality(Busy) - 1)
  BY <1>a, Follows DEF Counts
\* An action that leaves the queue, its counter and both lags alone
<1>d. ASSUME UNCHANGED <<tasks, ntasks>>, Uncounted' = Uncounted, Undiscounted' = Undiscounted
      PROVE  Congruent(ntasks, Drift)'
  BY <1>d DEF Counts, Congruent, Drift
<1>e. ASSUME working' = working, Cardinality(Busy') = Cardinality(Busy)
      PROVE  Congruent(working, Cardinality(Busy))'
  BY <1>e DEF Counts, Congruent
<1>1. ASSUME NEW s \in Callers \cup Workers, Submit(s) PROVE Counts'
  <2>1. s \notin Uncounted /\ Uncounted' = Uncounted \cup {s}
    BY <1>1 DEF Submit, Uncounted, Submitters
  <2>2. Cardinality(Uncounted') = Cardinality(Uncounted) + 1
    BY <2>1, <1>a, OneMore
  <2>3. Undiscounted' = Undiscounted /\ Busy' = Busy
    BY <1>1 DEF Submit, Undiscounted, Busy
  <2>4. Len(tasks') = Len(tasks) + 1
    BY <1>1 DEF Submit
  <2>5. Drift' = Drift
    BY ONLY <2>2, <2>3, <2>4, <1>a DEF Drift
  <2>6. ntasks' = ntasks /\ working' = working
    BY <1>1 DEF Submit
  <2> QED BY <2>3, <2>5, <2>6 DEF Counts, Congruent
<1>2. ASSUME NEW s \in Submitters, Count(s) PROVE Counts'
  <2>1. s \notin Uncounted' /\ Uncounted = Uncounted' \cup {s}
    BY <1>2 DEF Count, Uncounted
  <2>2. Cardinality(Uncounted) = Cardinality(Uncounted') + 1
    BY <2>1, <1>b, OneMore
  <2>3. Undiscounted' = Undiscounted /\ Busy' = Busy
    BY <1>2 DEF Count, Undiscounted, Busy
  <2>4. tasks' = tasks /\ ntasks' = Up(ntasks) /\ working' = working
    BY <1>2 DEF Count
  <2>5. Drift' = Drift + 1
    BY ONLY <2>2, <2>3, <2>4, <1>a, <1>b, SMTT(30) DEF Drift
  <2> QED BY <1>c, <2>3, <2>4, <2>5 DEF Counts, Congruent
<1>3. ASSUME NEW s \in Submitters, Notify(s) PROVE Counts'
  <2>1. Uncounted' = Uncounted
    BY <1>3 DEF Notify, Uncounted
  <2>2. Undiscounted' = Undiscounted /\ Busy' = Busy
    <3>1. CASE waiting = {} /\ UNCHANGED <<waiting, pc>>
      BY <3>1 DEF Undiscounted, Busy
    <3>2. ASSUME NEW w \in waiting, Awaken({w}) PROVE Undiscounted' = Undiscounted /\ Busy' = Busy
      BY <3>2 DEF Awaken, Sleepers, Undiscounted, Busy
    <3> QED BY <1>3, <3>1, <3>2 DEF Notify
  <2>3. UNCHANGED <<tasks, ntasks, working>>
    BY <1>3 DEF Notify
  <2> QED BY <1>d, <1>e, <2>1, <2>2, <2>3 DEF Counts
<1>4. ASSUME NEW w \in Workers, Begin(w) \/ Loop(w) PROVE Counts'
  <2>1. Uncounted' = Uncounted /\ Undiscounted' = Undiscounted /\ UNCHANGED <<tasks, ntasks>>
    BY <1>4 DEF Begin, Loop, Uncounted, Undiscounted
  <2>2. CASE Begin(w)
    <3>1. w \notin Busy /\ Busy' = Busy \cup {w}
      BY <2>2 DEF Begin, Busy
    <3>2. Cardinality(Busy') = Cardinality(Busy) + 1 /\ working' = Up(working)
      BY <3>1, <1>a, <2>2, OneMore DEF Begin
    <3> QED BY <1>c, <1>d, <2>1, <3>2 DEF Counts, Congruent
  <2>3. CASE Loop(w)
    <3>1. w \notin Busy' /\ Busy = Busy' \cup {w}
      BY <2>3 DEF Loop, Busy
    <3>2. Cardinality(Busy) = Cardinality(Busy') + 1
      BY <3>1, <1>b, OneMore
    <3>3. Cardinality(Busy') = Cardinality(Busy) - 1 /\ working' = Down(working)
      BY <3>2, <2>3, <1>a, <1>b DEF Loop
    <3> QED BY <1>c, <1>d, <2>1, <3>3 DEF Counts, Congruent
  <2> QED BY <1>4, <2>2, <2>3
<1>5. ASSUME NEW w \in Workers, Take(w) PROVE Counts'
  <2>1. w \notin Undiscounted /\ Undiscounted' = Undiscounted \cup {w} /\ Uncounted' = Uncounted
    BY <1>5 DEF Take, Undiscounted, Uncounted
  <2>2. w \notin Busy /\ Busy' = Busy \cup {w}
    BY <1>5 DEF Take, Busy
  <2>3. /\ Cardinality(Undiscounted') = Cardinality(Undiscounted) + 1
        /\ Cardinality(Busy') = Cardinality(Busy) + 1
    BY <2>1, <2>2, <1>a, OneMore
  <2>4. Len(tasks') = Len(tasks) - 1
    BY <1>5 DEF Take
  <2>5. Drift' = Drift
    BY ONLY <2>1, <2>3, <2>4, <1>a DEF Drift
  <2>6. ntasks' = ntasks /\ working' = Up(working)
    BY <1>5 DEF Take
  <2> QED BY <1>c, <2>3, <2>5, <2>6 DEF Counts, Congruent
<1>6. ASSUME NEW w \in Workers, Uncount(w) PROVE Counts'
  <2>1. w \notin Undiscounted' /\ Undiscounted = Undiscounted' \cup {w} /\ Uncounted' = Uncounted
    BY <1>6 DEF Uncount, Undiscounted, Uncounted
  <2>2. Cardinality(Undiscounted) = Cardinality(Undiscounted') + 1
    BY <2>1, <1>b, OneMore
  <2>3. tasks' = tasks /\ ntasks' = Down(ntasks) /\ working' = working
    BY <1>6 DEF Uncount
  <2>4. Drift' = Drift - 1
    BY ONLY <2>1, <2>2, <2>3, <1>a, <1>b, SMTT(30) DEF Drift
  <2>5. Busy' = Busy
    BY <1>6 DEF Uncount, Busy
  <2> QED BY <1>c, <1>e, <2>3, <2>4, <2>5 DEF Counts, Congruent
<1>7. ASSUME NEW w \in Workers,
             Exit(w) \/ Wait(w) \/ Finish(w) \/ SpuriousWakeup(w) \/ Spawn(w)
      PROVE  Counts'
  <2>1. /\ Uncounted' = Uncounted /\ Undiscounted' = Undiscounted /\ Busy' = Busy
        /\ UNCHANGED <<tasks, ntasks, working>>
    BY <1>7 DEF Exit, Wait, Finish, SpuriousWakeup, Spawn, Awaken, Sleepers,
                Uncounted, Undiscounted, Busy
  <2> QED BY <1>d, <1>e, <2>1 DEF Counts
<1>8. CASE StopQueued
  <2>1. Owner \notin Uncounted /\ Uncounted' = Uncounted \cup {Owner}
    BY <1>8 DEF StopQueued, OwnerShape, Uncounted, Submitters
  <2>2. Cardinality(Uncounted') = Cardinality(Uncounted) + 1
    BY <2>1, <1>a, OneMore
  <2>3. Undiscounted' = Undiscounted /\ Busy' = Busy
    BY <1>8 DEF StopQueued, Undiscounted, Busy
  <2>4. Len(tasks') = Len(tasks) + 1
    BY <1>8 DEF StopQueued, Marker
  <2>5. Drift' = Drift
    BY ONLY <2>2, <2>3, <2>4, <1>a DEF Drift
  <2>6. ntasks' = ntasks /\ working' = working
    BY <1>8 DEF StopQueued
  <2> QED BY <2>3, <2>5, <2>6 DEF Counts, Congruent
<1>9. CASE BeginInit \/ EndInit \/ StopEmpty \/ Destruct \/ Await \/ Destroy \/ UNCHANGED vars
  <2>1. /\ Uncounted' = Uncounted /\ Undiscounted' = Undiscounted /\ Busy' = Busy
        /\ UNCHANGED <<tasks, ntasks, working>>
    BY <1>9 DEF BeginInit, EndInit, StopEmpty, Destruct, Await, Destroy, vars,
                Uncounted, Undiscounted, Busy
  <2> QED BY <1>d, <1>e, <2>1 DEF Counts
<1>10. CASE WakeAll \/ Join
  <2>1. /\ Uncounted' = Uncounted /\ Undiscounted' = Undiscounted /\ Busy' = Busy
        /\ UNCHANGED <<tasks, ntasks, working>>
    BY <1>10 DEF WakeAll, Join, Awaken, Sleepers, Uncounted, Undiscounted, Busy
  <2> QED BY <1>d, <1>e, <2>1 DEF Counts
<1> QED BY <1>1, <1>2, <1>3, <1>4, <1>5, <1>6, <1>7, <1>8, <1>9, <1>10
        DEF Next, SubmitterStep, WorkerStep, OwnerStep

(***************************************************************************)
(* Nothing is counted, and nothing is there, in a pool that never started. *)
(***************************************************************************)
LEMMA CountsInit == Init => Counts
<1> SUFFICES ASSUME Init PROVE Counts
  OBVIOUS
<1>1. Uncounted = {} /\ Undiscounted = {} /\ Busy = {} /\ Len(tasks) = 0
  BY DEF Init, Uncounted, Undiscounted, Busy
<1>2. Drift = 0 /\ Cardinality(Busy) = 0
  BY <1>1, FS_EmptySet DEF Drift
<1>3. 0 = 0 + 0 * CounterMod
  BY CounterAssumption
<1> QED BY <1>2, <1>3 DEF Init, Counts, Congruent

(***************************************************************************)
(* The counters follow the queue and the workers in every state.           *)
(***************************************************************************)
LEMMA CountsAlways == SafeSpec => [](TypeOK /\ Counts)
<1> DEFINE CInv == TypeOK /\ Sleepers /\ OwnerShape /\ Counts
<1>1. Init => CInv
  BY InvInit, CountsInit DEF IInv
<1>2. CInv /\ [Next]_vars => CInv'
  BY TypeStep, ShapeStep, CountsStep
<1>3. CInv => TypeOK /\ Counts
  OBVIOUS
<1> HIDE DEF CInv
<1> QED BY <1>1, <1>2, <1>3, PTL DEF SafeSpec

(***************************************************************************)
(* m_ntasks is the length of the queue but for the threads between the     *)
(* queue and the counter, for any number of them and any width.            *)
(***************************************************************************)
THEOREM CounterIsExact == SafeSpec => []CounterExact
<1>1. TypeOK /\ Counts => CounterExact
  <2> SUFFICES ASSUME TypeOK, Counts PROVE CounterExact
    OBVIOUS
  <2>1. Drift \in Int /\ ntasks \in 0 .. CounterMod - 1
    BY FiniteCounted DEF TypeOK, Drift
  <2>2. ntasks = Drift % CounterMod
    BY <2>1, Remainder DEF Counts
  <2> QED BY <2>2 DEF CounterExact, Drift
<1> QED BY <1>1, CountsAlways, PTL

-----------------------------------------------------------------------------
(* The pool as a task queue *)

\* The workers that have a task, and the tasks queued before safe_stop's own
Doing == {w \in Workers : pc[w] \in {"taken", "run"}}
MarkerQueued == tasks # <<>> /\ tasks[Len(tasks)] = Marker
Pending == IF MarkerQueued THEN Len(tasks) - 1 ELSE Len(tasks)
Carrier(w) == w \in Doing /\ held[w] = Marker

\* What the owner's place says of the state and of the queue
Phases ==
    /\ state = "start" <=> owner \in {"open", "discard"}
    /\ owner \in {"wake", "join", "wakeDead", "joinDead", "dead"} => state = "none"
    /\ owner \in {"idle", "spawn", "destroy", "wake", "join"} => tasks = <<>>

\* The queue is the last tasks accepted, in order; what the workers have is older.
InOrder ==
    /\ accepted <= MaxTasks
    /\ Pending \in 0 .. accepted
    /\ \A i \in 1 .. Pending : tasks[i] = accepted - Pending + i
    /\ \A w \in Doing : held[w] <= accepted - Pending
    /\ \A v, w \in Doing : held[v] = held[w] /\ held[v] # Marker => v = w

\* safe_stop's task is behind all others, and its future is ready after all others.
MarkerLast ==
    /\ MarkerQueued => owner = "await" /\ ~markerDone /\ \A w \in Workers : ~Carrier(w)
    /\ \A w \in Workers : Carrier(w) => owner = "await" /\ ~markerDone /\ tasks = <<>>
    /\ \A v, w \in Workers : Carrier(v) /\ Carrier(w) => v = w
    /\ (owner = "await" /\ markerDone) => tasks = <<>>

QueueInv == Phases /\ InOrder /\ MarkerLast

(***************************************************************************)
(* A step that touches no task leaves their order.                         *)
(***************************************************************************)
LEMMA OrderKept ==
    ASSUME InOrder, UNCHANGED <<tasks, accepted>>, Doing' = Doing,
           \A w \in Doing : held'[w] = held[w]
    PROVE  InOrder'
<1>1. Pending' = Pending
  BY DEF Pending, MarkerQueued
<1> QED BY <1>1 DEF InOrder

(***************************************************************************)
(* A step of a thread that is not the owner, and touches no task, leaves   *)
(* the queue and what is known of safe_stop's task.                        *)
(***************************************************************************)
LEMMA TasksKept ==
    ASSUME QueueInv, UNCHANGED <<tasks, accepted, state, owner, markerDone>>, Doing' = Doing,
           \A w \in Doing : held'[w] = held[w]
    PROVE  QueueInv'
<1>1. InOrder'
  BY OrderKept DEF QueueInv
<1>2. Phases'
  BY DEF QueueInv, Phases
<1>3. MarkerQueued' = MarkerQueued /\ \A w \in Workers : Carrier(w)' = Carrier(w)
  BY DEF MarkerQueued, Carrier
<1>4. MarkerLast'
  BY <1>3 DEF QueueInv, MarkerLast
<1> QED BY <1>1, <1>2, <1>4 DEF QueueInv

(***************************************************************************)
(* schedule puts the new task behind the others.                           *)
(***************************************************************************)
LEMMA SubmitKeeps ==
    ASSUME TypeOK, QueueInv, NEW s \in Callers \cup Workers, Submit(s)
    PROVE  /\ QueueInv'
           /\ ~MarkerQueued /\ Pending' = Pending + 1 /\ accepted' = accepted + 1
<1>1. /\ state = "start" /\ accepted < MaxTasks /\ accepted' = accepted + 1
      /\ tasks' = Append(tasks, accepted + 1)
      /\ UNCHANGED <<state, owner, markerDone, pc, held>>
  BY DEF Submit, threadVars, ownerVars
<1>2. tasks \in Seq(Nat) /\ accepted \in Nat /\ held \in [Workers -> Nat]
  BY DEF TypeOK
<1>3. ~MarkerQueued /\ owner \in {"open", "discard"}
  BY <1>1 DEF QueueInv, Phases, MarkerLast
<1>4. Len(tasks') = Len(tasks) + 1 /\ tasks'[Len(tasks) + 1] = accepted + 1
      /\ tasks' # <<>> /\ \A i \in 1 .. Len(tasks) : tasks'[i] = tasks[i]
  BY <1>1, <1>2
<1>5. ~MarkerQueued' /\ Pending = Len(tasks) /\ Pending' = Len(tasks) + 1
  BY <1>2, <1>3, <1>4 DEF MarkerQueued, Pending, Marker
<1>6. Doing' = Doing
  BY <1>1 DEF Doing
<1>7. InOrder'
  <2>1. accepted' <= MaxTasks /\ Pending' \in 0 .. accepted'
    BY <1>1, <1>2, <1>5, BoundsAssumption DEF QueueInv, InOrder
  <2>2. \A i \in 1 .. Pending' : tasks'[i] = accepted' - Pending' + i
    <3> SUFFICES ASSUME NEW i \in 1 .. Len(tasks) + 1
                 PROVE  tasks'[i] = (accepted + 1) - (Len(tasks) + 1) + i
      BY <1>1, <1>5
    <3>1. CASE i = Len(tasks) + 1
      BY <3>1, <1>2, <1>4
    <3>2. CASE i # Len(tasks) + 1
      <4>1. i \in 1 .. Len(tasks)
        BY <3>2, <1>2
      <4> QED BY <4>1, <1>2, <1>4, <1>5 DEF QueueInv, InOrder
    <3> QED BY <3>1, <3>2
  <2>3. accepted' - Pending' = accepted - Pending
    BY <1>1, <1>2, <1>5
  <2> QED BY <1>1, <1>6, <2>1, <2>2, <2>3 DEF QueueInv, InOrder
<1>8. Phases'
  BY <1>1, <1>3 DEF QueueInv, Phases
<1>9. MarkerLast'
  BY <1>1, <1>3, <1>5, <1>6 DEF QueueInv, MarkerLast, Carrier
<1> QED BY <1>1, <1>3, <1>5, <1>7, <1>8, <1>9, <1>2 DEF QueueInv

(***************************************************************************)
(* get_task takes the oldest task there is, or safe_stop's own when no     *)
(* other is left.                                                          *)
(***************************************************************************)
LEMMA TakeKeeps ==
    ASSUME TypeOK, QueueInv, NEW w \in Workers, Take(w)
    PROVE  /\ QueueInv'
           /\ IF Head(tasks) = Marker
              THEN Pending = 0 /\ Pending' = 0
              ELSE Pending > 0 /\ Pending' = Pending - 1 /\ Head(tasks) = accepted - Pending + 1
<1>1. /\ pc[w] = "fetch" /\ state # "none" /\ tasks # <<>>
      /\ held' = [held EXCEPT ![w] = Head(tasks)]
      /\ tasks' = Tail(tasks)
      /\ pc' = [pc EXCEPT ![w] = "taken"]
      /\ UNCHANGED <<state, accepted, owner, markerDone>>
  BY DEF Take, ownerVars
<1>2. /\ tasks \in Seq(Nat) /\ Len(tasks) \in Nat /\ Len(tasks) > 0 /\ accepted \in Nat
      /\ held \in [Workers -> Nat] /\ w \in Workers
  <2>1. tasks \in Seq(Nat) /\ tasks # <<>>
    BY <1>1 DEF TypeOK
  <2>2. Len(tasks) \in Nat \ {0}
    BY <2>1, EmptySeq
  <2> QED BY <2>1, <2>2 DEF TypeOK
<1>3. /\ Head(tasks) = tasks[1] /\ Len(tasks') = Len(tasks) - 1
      /\ \A i \in 1 .. Len(tasks) - 1 : tasks'[i] = tasks[i + 1]
      /\ tasks' = <<>> <=> Len(tasks) = 1
  <2>1. /\ Tail(tasks) \in Seq(Nat) /\ Len(Tail(tasks)) = Len(tasks) - 1
        /\ Head(tasks) = tasks[1]
        /\ \A i \in 1 .. Len(tasks) - 1 : Tail(tasks)[i] = tasks[i + 1]
    BY <1>1, <1>2, HeadTailProperties
  <2>2. Tail(tasks) = <<>> <=> Len(Tail(tasks)) = 0
    <3>1. Tail(tasks) # <<>> => Len(Tail(tasks)) \in Nat \ {0}
      BY <2>1, EmptySeq
    <3>2. Len(<<>>) = 0
      BY EmptySeq
    <3> QED BY <3>1, <3>2
  <2>3. tasks' = Tail(tasks) /\ Len(tasks) \in Nat
    BY <1>1, <1>2
  <2>4. tasks' = <<>> <=> Len(tasks) = 1
    <3>1. \A n \in Nat : n - 1 = 0 <=> n = 1
      OBVIOUS
    <3>2. Len(Tail(tasks)) = Len(tasks) - 1
      BY <2>1
    <3> QED BY <2>2, <2>3, <3>1, <3>2, Zenon
  <2> QED BY ONLY <2>1, <2>3, <2>4
<1>4. w \notin Doing /\ Doing' = Doing \cup {w}
      /\ held'[w] = Head(tasks) /\ \A v \in Doing : held'[v] = held[v]
  BY <1>1, <1>2 DEF TypeOK, Doing
<1>5. Phases'
  BY <1>1 DEF QueueInv, Phases
<1>6. CASE Pending = 0
  <2>1. MarkerQueued /\ Len(tasks) = 1 /\ Head(tasks) = Marker
    BY <1>2, <1>3, <1>6 DEF Pending, MarkerQueued
  <2>2. tasks' = <<>> /\ ~MarkerQueued' /\ Pending' = 0
    BY <1>3, <2>1 DEF MarkerQueued, Pending
  <2>3. InOrder'
    BY <1>1, <1>2, <1>4, <1>6, <2>1, <2>2 DEF QueueInv, InOrder, Marker, Doing
  <2>4. owner = "await" /\ ~markerDone /\ \A v \in Workers : ~Carrier(v)
    BY <2>1 DEF QueueInv, MarkerLast
  <2>5. \A v \in Workers : Carrier(v)' => v = w
    BY <1>4, <2>4 DEF Carrier
  <2>6. MarkerLast'
    BY <1>1, <2>2, <2>4, <2>5 DEF MarkerLast
  <2> QED BY <1>5, <1>6, <2>1, <2>2, <2>3, <2>6 DEF QueueInv
<1>7. CASE Pending # 0
  <2>0. Pending \in 1 .. accepted /\ Pending \in {Len(tasks), Len(tasks) - 1}
    <3>1. Pending \in 0 .. accepted
      BY DEF QueueInv, InOrder
    <3>2. Pending \in {Len(tasks), Len(tasks) - 1}
      BY DEF Pending
    <3> QED BY <1>2, <1>7, <3>1, <3>2
  <2>1. Head(tasks) = accepted - Pending + 1 /\ Head(tasks) # Marker
    BY <1>2, <1>3, <2>0 DEF QueueInv, InOrder, Marker
  <2>2. MarkerQueued' = MarkerQueued
    <3>1. CASE Len(tasks) = 1
      BY <3>1, <1>2, <1>3, <2>1 DEF MarkerQueued
    <3>2. CASE Len(tasks) # 1
      <4>1. Len(tasks) - 1 \in 1 .. Len(tasks) - 1 /\ Len(tasks) - 1 + 1 = Len(tasks)
        <5>1. \A n \in Nat : n > 0 /\ n # 1 => n - 1 \in 1 .. n - 1 /\ n - 1 + 1 = n
          OBVIOUS
        <5>2. Len(tasks) \in Nat /\ Len(tasks) > 0
          BY <1>2
        <5> QED BY <3>2, <5>1, <5>2, Zenon
      <4>2. tasks'[Len(tasks')] = tasks[Len(tasks)] /\ tasks' # <<>>
        BY <3>2, <1>3, <4>1
      <4> QED BY <4>2, <1>1 DEF MarkerQueued
    <3> QED BY <3>1, <3>2
  <2>3. Pending' = Pending - 1
    BY <1>2, <1>3, <2>2 DEF Pending
  <2>4. InOrder'
    <3>1. Pending' \in 0 .. accepted' /\ accepted' <= MaxTasks
      BY <1>1, <1>2, <2>0, <2>3 DEF QueueInv, InOrder
    <3>2. \A i \in 1 .. Pending' : tasks'[i] = accepted' - Pending' + i
      <4> SUFFICES ASSUME NEW i \in 1 .. Pending - 1
                   PROVE  tasks'[i] = accepted - (Pending - 1) + i
        BY <1>1, <2>3
      <4>1. i + 1 \in 1 .. Pending /\ i \in 1 .. Len(tasks) - 1
        BY <1>2, <2>0
      <4>2. tasks[i + 1] = accepted - Pending + (i + 1)
        BY <4>1 DEF QueueInv, InOrder
      <4> QED BY <1>2, <1>3, <2>0, <4>1, <4>2
    <3>3. \A v \in Doing : held[v] \in Nat /\ held[v] <= accepted - Pending
      BY <1>2 DEF QueueInv, InOrder, Doing
    <3>4. \A v \in Doing' : held'[v] <= accepted' - Pending'
      BY <1>1, <1>2, <1>4, <2>0, <2>1, <2>3, <3>3
    <3>5. \A u, v \in Doing' : held'[u] = held'[v] /\ held'[u] # Marker => u = v
      <4>1. \A v \in Doing : held'[v] # held'[w]
        BY <1>2, <1>4, <2>0, <2>1, <3>3
      <4>2. \A u, v \in Doing : held[u] = held[v] /\ held[u] # Marker => u = v
        BY DEF QueueInv, InOrder
      <4> QED BY <1>4, <4>1, <4>2
    <3> QED BY <3>1, <3>2, <3>4, <3>5 DEF InOrder
  <2>5. \A v \in Workers : ~Carrier(v)
    BY <1>1 DEF QueueInv, MarkerLast
  <2>6. \A v \in Workers : ~Carrier(v)'
    BY <1>4, <2>1, <2>5 DEF Carrier
  <2>7. MarkerLast'
    BY <1>1, <2>2, <2>6 DEF QueueInv, MarkerLast
  <2> QED BY <1>5, <2>0, <2>1, <2>3, <2>4, <2>7 DEF QueueInv
<1> QED BY <1>6, <1>7

(***************************************************************************)
(* A task that returns was nobody else's, and safe_stop's own is the last. *)
(***************************************************************************)
LEMMA FinishKeeps ==
    ASSUME TypeOK, QueueInv, NEW w \in Workers, Finish(w)
    PROVE  /\ QueueInv'
           /\ w \in Doing /\ Doing' = Doing \ {w} /\ \A v \in Doing' : held'[v] = held[v]
<1>1. /\ pc[w] = "run"
      /\ markerDone' = (markerDone \/ held[w] = Marker)
      /\ held' = [held EXCEPT ![w] = Marker]
      /\ pc' = [pc EXCEPT ![w] = "loop"]
      /\ UNCHANGED <<state, tasks, accepted, owner>>
  BY DEF Finish, queueVars
<1>2. w \in Doing /\ Doing' = Doing \ {w} /\ \A v \in Doing' : held'[v] = held[v]
  BY <1>1 DEF TypeOK, Doing
<1>3. Pending' = Pending /\ MarkerQueued' = MarkerQueued
  BY <1>1 DEF Pending, MarkerQueued
<1>4. InOrder'
  BY <1>1, <1>2, <1>3 DEF QueueInv, InOrder
<1>5. Phases'
  BY <1>1 DEF QueueInv, Phases
<1>6. MarkerLast'
  <2>1. CASE Carrier(w)
    <3>1. \A v \in Workers : ~Carrier(v)'
      BY <1>2, <2>1 DEF QueueInv, MarkerLast, Carrier
    <3>2. tasks = <<>>
      BY <2>1 DEF QueueInv, MarkerLast
    <3> QED BY <1>1, <1>3, <3>1, <3>2 DEF MarkerLast, MarkerQueued
  <2>2. CASE ~Carrier(w)
    <3>1. markerDone' = markerDone
      BY <1>1, <1>2, <2>2 DEF TypeOK, Carrier
    <3>2. \A v \in Workers : Carrier(v)' => Carrier(v)
      BY <1>2 DEF Carrier
    <3> QED BY <1>1, <1>3, <3>1, <3>2 DEF QueueInv, MarkerLast
  <2> QED BY <2>1, <2>2
<1> QED BY <1>2, <1>4, <1>5, <1>6 DEF QueueInv

(***************************************************************************)
(* safe_stop queues its own task behind all that were accepted.            *)
(***************************************************************************)
LEMMA StopKeeps ==
    ASSUME TypeOK, QueueInv, StopQueued
    PROVE  QueueInv' /\ Pending' = Pending /\ Doing' = Doing
<1>1. /\ owner = "open" /\ owner' = "await" /\ state' = "stop" /\ markerDone' = FALSE
      /\ tasks' = Append(tasks, Marker) /\ UNCHANGED <<accepted, pc, held>>
  BY DEF StopQueued, threadVars
<1>2. tasks \in Seq(Nat) /\ Marker \in Nat
  BY DEF TypeOK, Marker
<1>3. /\ Len(tasks') = Len(tasks) + 1 /\ tasks'[Len(tasks) + 1] = Marker
      /\ tasks' # <<>> /\ \A i \in 1 .. Len(tasks) : tasks'[i] = tasks[i]
  BY <1>1, <1>2, AppendProperties
<1>4. Len(tasks) \in Nat /\ Len(tasks) + 1 - 1 = Len(tasks)
  BY <1>2
<1>5. MarkerQueued'
  BY <1>3 DEF MarkerQueued
<1>6. Pending = Len(tasks) /\ Pending' = Len(tasks)
  <2>1. Pending = Len(tasks)
    BY <1>1 DEF QueueInv, MarkerLast, Pending
  <2>2. Pending' = Len(tasks') - 1
    BY <1>5 DEF Pending
  <2> QED BY <1>3, <1>4, <2>1, <2>2
<1>7. Doing' = Doing
  BY <1>1 DEF Doing
<1>8. InOrder'
  BY <1>1, <1>3, <1>6, <1>7 DEF QueueInv, InOrder
<1>9. Phases'
  BY <1>1 DEF Phases
<1>10. MarkerLast'
  BY <1>1, <1>7 DEF QueueInv, MarkerLast, Carrier
<1> QED BY <1>6, <1>7, <1>8, <1>9, <1>10 DEF QueueInv

(***************************************************************************)
(* The owner's other steps touch no task.                                  *)
(***************************************************************************)
LEMMA OwnerKeeps ==
    ASSUME TypeOK, Sleepers, QueueInv, BeginInit \/ StopEmpty \/ Destruct \/ OwnerStep
    PROVE  QueueInv' /\ Doing' = Doing /\ UNCHANGED <<tasks, accepted, held>>
<1> USE DEF queueVars, countVars, threadVars, ownerVars
<1>1. Doing' = Doing /\ UNCHANGED <<tasks, accepted, held, markerDone>>
  <2>1. CASE BeginInit \/ StopEmpty \/ Destruct \/ EndInit \/ Await \/ Destroy
    BY <2>1 DEF BeginInit, StopEmpty, Destruct, EndInit, Await, Destroy, Doing
  <2>2. ASSUME NEW w \in Workers, Spawn(w)
        PROVE  Doing' = Doing /\ UNCHANGED <<tasks, accepted, held, markerDone>>
    BY <2>2 DEF Spawn, TypeOK, Doing
  <2>3. CASE WakeAll
    BY <2>3 DEF WakeAll, Awaken, Sleepers, Doing
  <2>4. CASE Join
    BY <2>4 DEF Join, Doing
  <2> QED BY <2>1, <2>2, <2>3, <2>4 DEF OwnerStep
<1>2. InOrder'
  BY <1>1, OrderKept DEF QueueInv
<1>3. Phases'
  <2>1. CASE BeginInit \/ StopEmpty \/ Destruct
    BY <2>1 DEF BeginInit, StopEmpty, Destruct, QueueInv, Phases
  <2>2. CASE Await
    BY <2>2 DEF Await, QueueInv, Phases, MarkerLast
  <2>3. CASE EndInit \/ Destroy \/ WakeAll \/ Join \/ \E w \in Workers : Spawn(w)
    BY <2>3 DEF EndInit, Destroy, WakeAll, Join, Spawn, QueueInv, Phases
  <2> QED BY <2>1, <2>2, <2>3 DEF OwnerStep
<1>4. MarkerLast'
  <2>1. MarkerQueued' = MarkerQueued /\ \A w \in Workers : Carrier(w)' = Carrier(w)
    BY <1>1 DEF MarkerQueued, Carrier
  <2>2. owner' = "await" => owner = "await"
    BY DEF BeginInit, StopEmpty, Destruct, OwnerStep, Spawn, EndInit, Await, Destroy, WakeAll,
           Join
  <2>3. owner = "await" => owner' = "await" \/ markerDone
    BY DEF BeginInit, StopEmpty, Destruct, OwnerStep, Spawn, EndInit, Await, Destroy, WakeAll,
           Join
  <2> QED BY <1>1, <2>1, <2>2, <2>3 DEF QueueInv, MarkerLast
<1> QED BY <1>1, <1>2, <1>3, <1>4 DEF QueueInv

(***************************************************************************)
(* A worker's other steps touch no task.                                   *)
(***************************************************************************)
LEMMA OthersKeep ==
    ASSUME TypeOK, Sleepers, NEW w \in Workers,
           Begin(w) \/ Loop(w) \/ Exit(w) \/ Wait(w) \/ Uncount(w) \/ SpuriousWakeup(w)
    PROVE  Doing' = Doing /\ UNCHANGED <<tasks, accepted, state, owner, markerDone, held>>
<1> USE DEF queueVars, countVars, threadVars, ownerVars, Doing
<1>1. CASE Begin(w) \/ Loop(w) \/ Exit(w)
  BY <1>1 DEF Begin, Loop, Exit, TypeOK
<1>2. CASE Wait(w) \/ Uncount(w)
  BY <1>2 DEF Wait, Uncount, TypeOK
<1>3. CASE SpuriousWakeup(w)
  BY <1>3 DEF SpuriousWakeup, Awaken, Sleepers
<1> QED BY <1>1, <1>2, <1>3

(***************************************************************************)
(* Every step keeps the queue in order and safe_stop's task behind it.     *)
(***************************************************************************)
LEMMA QueueStep ==
    TypeOK /\ Sleepers /\ QueueInv /\ [Next]_vars => QueueInv'
<1> SUFFICES ASSUME TypeOK, Sleepers, QueueInv, [Next]_vars PROVE QueueInv'
  OBVIOUS
<1> USE DEF queueVars, countVars, threadVars, ownerVars
<1>1. ASSUME NEW s \in Callers \cup Workers, Submit(s) PROVE QueueInv'
  BY <1>1, SubmitKeeps
<1>2. ASSUME NEW s \in Submitters, SubmitterStep(s) PROVE QueueInv'
  <2>1. Doing' = Doing /\ UNCHANGED <<tasks, accepted, state, owner, markerDone, held>>
    BY <1>2 DEF SubmitterStep, Count, Notify, Awaken, Sleepers, Doing
  <2> QED BY <2>1, TasksKept
<1>3. ASSUME NEW w \in Workers, WorkerStep(w) \/ SpuriousWakeup(w) PROVE QueueInv'
  <2>1. CASE Take(w)
    BY <2>1, TakeKeeps
  <2>2. CASE Finish(w)
    BY <2>2, FinishKeeps
  <2>3. CASE Begin(w) \/ Loop(w) \/ Exit(w) \/ Wait(w) \/ Uncount(w) \/ SpuriousWakeup(w)
    <3>1. Doing' = Doing /\ UNCHANGED <<tasks, accepted, state, owner, markerDone, held>>
      BY <2>3, OthersKeep
    <3> QED BY <3>1, TasksKept
  <2> QED BY <1>3, <2>1, <2>2, <2>3 DEF WorkerStep
<1>4. CASE BeginInit \/ StopEmpty \/ Destruct \/ OwnerStep
  BY <1>4, OwnerKeeps
<1>5. CASE StopQueued
  BY <1>5, StopKeeps
<1>6. CASE UNCHANGED vars
  <2>1. Doing' = Doing /\ UNCHANGED <<tasks, accepted, state, owner, markerDone, held>>
    BY <1>6 DEF vars, Doing
  <2> QED BY <2>1, TasksKept
<1> QED BY <1>1, <1>2, <1>3, <1>4, <1>5, <1>6 DEF Next

(***************************************************************************)
(* A pool that never started has no task and no worker.                    *)
(***************************************************************************)
LEMMA QueueInit == Init => QueueInv /\ Running = {} /\ Pending = 0
<1> SUFFICES ASSUME Init PROVE QueueInv /\ Running = {} /\ Pending = 0
  OBVIOUS
<1>1. Doing = {} /\ ~MarkerQueued /\ Pending = 0
  <2>1. Len(tasks) = 0
    BY EmptySeq DEF Init
  <2> QED BY <2>1 DEF Init, Doing, MarkerQueued, Pending
<1>2. InOrder
  BY <1>1, BoundsAssumption DEF Init, InOrder
<1>3. Phases /\ MarkerLast
  BY <1>1 DEF Init, Phases, MarkerLast, Carrier
<1>4. Running = {}
  BY <1>1 DEF Running, Doing
<1> QED BY <1>1, <1>2, <1>3, <1>4 DEF QueueInv

\* What is queued is counted by Pending.
Counted == Cardinality(Queued) = Pending

(***************************************************************************)
(* The queued tasks, without safe_stop's own, are the first Pending.       *)
(***************************************************************************)
LEMMA QueuedCount == TypeOK /\ QueueInv => Counted
<1> SUFFICES ASSUME TypeOK, QueueInv PROVE Cardinality(Queued) = Pending
  BY DEF Counted
<1>1. Len(tasks) \in Nat /\ DOMAIN tasks = 1 .. Len(tasks) /\ accepted \in Nat
  BY DEF TypeOK
<1>2. Pending \in 0 .. accepted /\ \A i \in 1 .. Pending : tasks[i] = accepted - Pending + i
  BY DEF QueueInv, InOrder
<1>3. \A i \in 1 .. Pending : tasks[i] # Marker
  BY <1>1, <1>2 DEF Marker
<1>4. Queued = {i \in 1 .. Len(tasks) : tasks[i] # Marker}
  BY <1>1 DEF Queued
<1>5. ASSUME MarkerQueued PROVE Queued = 1 .. Pending
  <2>1. Pending = Len(tasks) - 1 /\ tasks[Len(tasks)] = Marker
    BY <1>5 DEF Pending, MarkerQueued
  <2>2. \A i \in 1 .. Len(tasks) : i \in 1 .. Pending \/ i = Len(tasks)
    <3>1. \A n \in Nat : \A i \in 1 .. n : i \in 1 .. n - 1 \/ i = n
      OBVIOUS
    <3> QED BY <1>1, <2>1, <3>1, Zenon
  <2>3. 1 .. Pending \subseteq 1 .. Len(tasks)
    BY <1>1, <2>1
  <2> QED BY <1>3, <1>4, <2>1, <2>2, <2>3
<1>6. ASSUME ~MarkerQueued PROVE Queued = 1 .. Pending
  <2>1. Pending = Len(tasks)
    BY <1>6 DEF Pending
  <2> QED BY <1>3, <1>4, <2>1
<1>7. Queued = 1 .. Pending
  BY <1>5, <1>6
<1> QED BY <1>2, <1>7, FS_Interval

(***************************************************************************)
(* What the workers run changes only when one takes a task or ends one.    *)
(***************************************************************************)
LEMMA SameRunning ==
    ASSUME Doing' = Doing, \A w \in Doing : held'[w] = held[w]
    PROVE  Running' = Running
BY DEF Running, Doing

(***************************************************************************)
(* A step that starts no task and ends none leaves the abstract queue, but *)
(* for its phase.                                                          *)
(***************************************************************************)
LEMMA SameQueue ==
    ASSUME UNCHANGED <<tasks, accepted, held>>, Doing' = Doing
    PROVE  Running' = Running /\ UNCHANGED <<Pending, Queued, accepted>>
BY SameRunning DEF Pending, MarkerQueued, Queued

AbstractSame == UNCHANGED <<Phase, accepted, accepted - Cardinality(Queued), Running>>

PoolInv == TypeOK /\ Sleepers /\ OwnerShape /\ QueueInv

LEMMA PoolInit == Init => PoolInv /\ Abstract!Init
<1> SUFFICES ASSUME Init PROVE PoolInv /\ Abstract!Init
  OBVIOUS
<1>1. PoolInv
  BY TypeInit, InvInit, QueueInit DEF IInv, PoolInv
<1>2. Cardinality(Queued) = 0 /\ Running = {}
  BY <1>1, QueueInit, QueuedCount DEF Counted, PoolInv
<1>3. Phase = "closed" /\ accepted = 0
  BY DEF Init, Phase
<1> QED BY <1>1, <1>2, <1>3 DEF Abstract!Init

LEMMA PoolStep == PoolInv /\ [Next]_vars => PoolInv'
BY TypeStep, ShapeStep, QueueStep DEF PoolInv

(***************************************************************************)
(* Every step of the pool is one of the task queue, or none.               *)
(***************************************************************************)
LEMMA StepIsAbstract == PoolInv /\ PoolInv' /\ [Next]_vars => Abstract!Next \/ AbstractSame
<1> SUFFICES ASSUME PoolInv, PoolInv', [Next]_vars
             PROVE  Abstract!Next \/ AbstractSame
  OBVIOUS
<1> USE DEF PoolInv
<1> USE DEF queueVars, countVars, threadVars, ownerVars
<1>0. /\ Counted /\ Counted'
      /\ Pending \in 0 .. accepted /\ Pending' \in 0 .. accepted'
      /\ accepted \in Nat /\ accepted' \in Nat /\ accepted <= MaxTasks
  <2>1. Counted /\ Counted'
    BY QueuedCount, PTL
  <2> QED BY <2>1 DEF TypeOK, QueueInv, InOrder
<1>a. ASSUME Phase' = Phase, accepted' = accepted, Pending' = Pending, Running' = Running
      PROVE  AbstractSame
  BY <1>0, <1>a DEF Counted, AbstractSame
<1>1. ASSUME NEW s \in Callers \cup Workers, Submit(s) PROVE Abstract!Accept
  <2>1. Pending' = Pending + 1 /\ accepted' = accepted + 1 /\ accepted < MaxTasks
    BY <1>1, SubmitKeeps DEF Submit
  <2>2. Phase = "open" /\ Phase' = "open"
    BY <1>1 DEF Submit, QueueInv, Phases, Phase
  <2>3. Running' = Running
    BY <1>1, SameRunning DEF Submit, Doing
  <2>4. accepted' - Cardinality(Queued') = accepted - Cardinality(Queued)
    BY <1>0, <2>1 DEF Counted
  <2> QED BY <2>1, <2>2, <2>3, <2>4 DEF Abstract!Accept
<1>2. ASSUME NEW s \in Submitters, SubmitterStep(s)
      PROVE  AbstractSame
  <2>1. Doing' = Doing /\ UNCHANGED <<tasks, accepted, held, state, owner>>
    BY <1>2 DEF SubmitterStep, Count, Notify, Awaken, Sleepers, Doing
  <2>2. Phase' = Phase
    BY <2>1 DEF Phase
  <2> QED BY <1>a, <2>1, <2>2, SameQueue
<1>3. ASSUME NEW w \in Workers,
             Begin(w) \/ Loop(w) \/ Exit(w) \/ Wait(w) \/ Uncount(w) \/ SpuriousWakeup(w)
      PROVE  AbstractSame
  <2>1. Doing' = Doing /\ UNCHANGED <<tasks, accepted, held, state, owner>>
    BY <1>3, OthersKeep
  <2>2. Phase' = Phase
    BY <2>1 DEF Phase
  <2> QED BY <1>a, <2>1, <2>2, SameQueue
<1>4. ASSUME NEW w \in Workers, Take(w)
      PROVE  Abstract!Start \/ AbstractSame
  <2>1. /\ accepted' = accepted /\ UNCHANGED <<state, owner>> /\ state # "none" /\ tasks # <<>>
        /\ w \notin Doing /\ Doing' = Doing \cup {w}
        /\ held'[w] = Head(tasks) /\ \A v \in Doing : held'[v] = held[v]
    BY <1>4 DEF Take, Doing, TypeOK
  <2>2. Phase' = Phase /\ Phase \in {"open", "draining"}
    BY <2>1 DEF QueueInv, Phases, Phase, TypeOK
  <2>3. Running' = (Running \cup {Head(tasks)}) \ {Marker}
    <3>1. /\ Running = {held[v] : v \in Doing} \ {Marker}
          /\ Running' = {held'[v] : v \in Doing'} \ {Marker}
      BY DEF Running, Doing
    <3>2. {held'[v] : v \in Doing'} = {held[v] : v \in Doing} \cup {Head(tasks)}
      BY <2>1
    <3> QED BY <3>1, <3>2
  <2>4. Marker \notin Running
    BY DEF Running
  <2>5. CASE Head(tasks) = Marker
    <3>1. Pending' = Pending /\ Running' = Running
      BY <1>4, <2>3, <2>4, <2>5, TakeKeeps
    <3> QED BY <1>a, <2>1, <2>2, <3>1
  <2>6. CASE Head(tasks) # Marker
    <3>1. Pending > 0 /\ Pending' = Pending - 1 /\ Head(tasks) = accepted - Pending + 1
      BY <1>4, <2>6, TakeKeeps
    <3>2. Running' = Running \cup {Head(tasks)}
      BY <2>3, <2>4, <2>6
    <3>3. /\ accepted - Cardinality(Queued) < accepted
          /\ accepted' - Cardinality(Queued') = accepted - Cardinality(Queued) + 1
          /\ Head(tasks) = accepted' - Cardinality(Queued')
      BY <1>0, <2>1, <3>1 DEF Counted
    <3> QED BY <2>1, <2>2, <3>2, <3>3 DEF Abstract!Start
  <2> QED BY <2>5, <2>6
<1>5. ASSUME NEW w \in Workers, Finish(w)
      PROVE  Abstract!Next \/ AbstractSame
  <2>1. /\ UNCHANGED <<state, owner, tasks, accepted>>
        /\ w \in Doing /\ Doing' = Doing \ {w} /\ \A v \in Doing' : held'[v] = held[v]
    BY <1>5, FinishKeeps DEF Finish
  <2>2. Phase' = Phase /\ Pending' = Pending
    BY <2>1 DEF Phase, Pending, MarkerQueued
  <2>3. /\ Running = {held[v] : v \in Doing} \ {Marker}
        /\ Running' = {held'[v] : v \in Doing'} \ {Marker}
    BY DEF Running, Doing
  <2>4. \A u, v \in Doing : held[u] = held[v] /\ held[u] # Marker => u = v
    BY DEF QueueInv, InOrder
  <2>5. Running' = Running \ {held[w]}
    BY <2>1, <2>3, <2>4
  <2>6. CASE held[w] = Marker
    BY <1>a, <2>1, <2>2, <2>3, <2>5, <2>6
  <2>7. CASE held[w] # Marker
    <3>1. held[w] \in Running
      BY <2>1, <2>3, <2>7
    <3>2. held[w] \in 1 .. MaxTasks
      <4>1. held[w] \in Nat /\ held[w] <= accepted - Pending
        BY <2>1 DEF TypeOK, QueueInv, InOrder
      <4> QED BY <1>0, <2>7, <4>1, BoundsAssumption DEF Marker
    <3>3. Abstract!Finish(held[w])
      BY <1>0, <2>1, <2>2, <2>5, <3>1 DEF Abstract!Finish, Counted
    <3> QED BY <3>2, <3>3 DEF Abstract!Next
  <2> QED BY <2>6, <2>7
<1>6. CASE StopQueued
  <2>1. Pending' = Pending /\ Running' = Running /\ accepted' = accepted
    BY <1>6, StopKeeps, SameRunning DEF StopQueued
  <2>2. Phase = "open" /\ Phase' = "draining"
    BY <1>6 DEF StopQueued, Phase
  <2>3. Abstract!Drain
    BY <1>0, <2>1, <2>2 DEF Abstract!Drain, Counted
  <2> QED BY <2>3 DEF Abstract!Next
<1>7. CASE BeginInit \/ StopEmpty \/ Destruct \/ OwnerStep
  <2>1. Doing' = Doing /\ UNCHANGED <<tasks, accepted, held>>
    BY <1>7, OwnerKeeps
  <2>2. /\ Pending' = Pending /\ Running' = Running /\ accepted' = accepted
        /\ accepted' - Cardinality(Queued') = accepted - Cardinality(Queued)
    BY <2>1, SameQueue
  <2>3. CASE BeginInit \/ Destruct \/ Await \/ WakeAll \/ \E w \in Workers : Spawn(w)
    <3>1. Phase' = Phase
      BY <2>3 DEF BeginInit, Destruct, Await, WakeAll, Spawn, Phase, QueueInv, Phases
    <3> QED BY <1>a, <2>2, <3>1
  <2>4. CASE EndInit
    <3>1. Phase = "closed" /\ Phase' = "open"
      BY <2>4 DEF EndInit, Phase
    <3> QED BY <2>2, <3>1 DEF Abstract!Next, Abstract!Open
  <2>5. CASE StopEmpty
    <3>1. Phase = "open" /\ Phase' = "draining"
      BY <2>5 DEF StopEmpty, Phase
    <3> QED BY <2>2, <3>1 DEF Abstract!Next, Abstract!Drain
  <2>6. CASE Destroy /\ owner = "destroy"
    <3>1. Phase' = Phase
      BY <2>6 DEF Destroy, Phase
    <3> QED BY <1>a, <2>2, <3>1
  <2>7. CASE Destroy /\ owner # "destroy"
    <3>1. Phase = "open" /\ Phase' = "discarded"
      BY <2>7 DEF Destroy, Phase, QueueInv, Phases
    <3> QED BY <2>2, <3>1 DEF Abstract!Next, Abstract!Discard
  <2>8. CASE Join
    <3>1. Running = {}
      BY <2>8 DEF Join, Running
    <3>2. CASE owner = "join"
      <4>1. Phase = "draining" /\ Phase' = "closed" /\ tasks = <<>>
        BY <2>8, <3>2 DEF Join, Phase, QueueInv, Phases
      <4>2. Queued = {}
        BY <4>1 DEF Queued
      <4>3. accepted - Cardinality(Queued) = accepted
        BY <1>0, <4>2, FS_EmptySet
      <4> QED BY <2>2, <3>1, <4>1, <4>3 DEF Abstract!Next, Abstract!Close
    <3>3. CASE owner = "joinDead"
      <4>1. Phase' = Phase
        BY <2>8, <3>3 DEF Join, Phase
      <4> QED BY <1>a, <2>2, <4>1
    <3> QED BY <2>8, <3>2, <3>3 DEF Join
  <2> QED BY <1>7, <2>3, <2>4, <2>5, <2>6, <2>7, <2>8 DEF OwnerStep
<1>8. CASE UNCHANGED vars
  <2>1. Phase' = Phase /\ Doing' = Doing /\ UNCHANGED <<tasks, accepted, held>>
    BY <1>8 DEF vars, Phase, Doing
  <2> QED BY <1>a, <2>1, SameQueue
<1> QED BY <1>1, <1>2, <1>3, <1>4, <1>5, <1>6, <1>7, <1>8 DEF Next, WorkerStep, Abstract!Next

(***************************************************************************)
(* The thread pool keeps the task queue's promise, for any number of       *)
(* workers, callers, tasks and restarts: tasks start in the order they     *)
(* were accepted and once, and safe_stop returns when all are over.        *)
(***************************************************************************)
THEOREM PoolIsQueue == SafeSpec => Abstract!Init /\ [][Abstract!Next]_(Abstract!vars)
<1>1. PoolInv /\ PoolInv' /\ [Next]_vars => [Abstract!Next]_(Abstract!vars)
  BY StepIsAbstract DEF Abstract!vars, AbstractSame
<1> QED BY PoolInit, PoolStep, <1>1, PTL DEF SafeSpec

-----------------------------------------------------------------------------
(* What an observer of the counters learns *)

\* A step of the pool starts the next task, or none.
StartsNext ==
    LET started == accepted - Cardinality(Queued) IN
    \/ started' = started /\ Running' \subseteq Running
    \/ started' = started + 1 /\ Running' = Running \cup {started'}

LEMMA PoolStartsNext == PoolInv /\ [Next]_vars => StartsNext
<1> SUFFICES ASSUME PoolInv, [Next]_vars PROVE StartsNext
  OBVIOUS
<1>1. PoolInv'
  BY PoolStep
<1>2. Abstract!Next \/ AbstractSame
  BY <1>1, StepIsAbstract
<1>3. CASE AbstractSame
  BY <1>3 DEF AbstractSame, StartsNext
<1>4. CASE Abstract!Next
  <2>1. /\ accepted \in Nat /\ accepted' \in Nat
        /\ Cardinality(Queued) \in Nat /\ Cardinality(Queued') \in Nat
    <3>1. Counted /\ Counted'
      BY <1>1, QueuedCount, PTL DEF PoolInv
    <3> QED BY <1>1, <3>1 DEF PoolInv, TypeOK, QueueInv, InOrder, Counted
  <2>2. CASE Abstract!Start
    BY <2>1, <2>2 DEF Abstract!Start, StartsNext
  <2>3. CASE ~Abstract!Start
    BY <1>4, <2>1, <2>3 DEF Abstract!Next, Abstract!Open, Abstract!Accept, Abstract!Drain,
       Abstract!Close, Abstract!Discard, Abstract!Finish, StartsNext
  <2> QED BY <2>2, <2>3
<1> QED BY <1>2, <1>3, <1>4

(***************************************************************************)
(* No more tasks run than m_working counts.                                *)
(***************************************************************************)
LEMMA RunningCounted ==
    IsFiniteSet(Running) /\ Cardinality(Running) <= Cardinality(Busy)
<1> DEFINE have == {w \in Workers : pc[w] \in {"taken", "run"}}
           all == {held[w] : w \in have}
<1>1. IsFiniteSet(have) /\ Cardinality(have) <= Cardinality(Busy) /\ Cardinality(Busy) \in Nat
  <2>1. have \subseteq Busy
    BY DEF Busy
  <2> QED BY <2>1, FiniteCounted, FS_Subset, FS_CardinalityType
<1>2. IsFiniteSet(all) /\ Cardinality(all) <= Cardinality(have)
  <2>1. [w \in have |-> held[w]] \in Surjection(have, all)
    BY DEF Surjection
  <2> QED BY <1>1, <2>1, FS_Surjection
<1>3. Running \subseteq all
  BY DEF Running
<1> QED BY <1>1, <1>2, <1>3, FS_Subset, FS_CardinalityType

\* m_working is exact where the counter can tell the workers apart.
LEMMA WorkingExact ==
    ASSUME TypeOK, Counts, Cardinality(Workers) < CounterMod
    PROVE  working = Cardinality(Busy)
<1>1. Busy \subseteq Workers
  BY DEF Busy
<1>2. Cardinality(Busy) \in Nat /\ Cardinality(Busy) < CounterMod
  BY <1>1, NoFewer, WorkersAssumption, CounterAssumption
<1>3. PICK k \in Int : working = Cardinality(Busy) + k * CounterMod
  BY DEF Counts, Congruent
<1>4. working - Cardinality(Busy) = k * CounterMod /\ working \in 0 .. CounterMod - 1
  BY <1>2, <1>3, CounterAssumption DEF TypeOK
<1>5. working - Cardinality(Busy) = 0
  <2>1. /\ working - Cardinality(Busy) \in Int /\ working - Cardinality(Busy) < CounterMod
        /\ -CounterMod < working - Cardinality(Busy)
    BY <1>2, <1>4, CounterAssumption
  <2> QED BY <1>4, <2>1, Multiple, CounterAssumption
<1> QED BY <1>2, <1>4, <1>5

LEMMA QueueExact ==
    ASSUME TypeOK, Counts, Len(tasks) + Cardinality(Workers) < CounterMod,
           ntasks = 0, Uncounted = {}
    PROVE  tasks = <<>>
<1>1. Undiscounted \subseteq Workers /\ Len(tasks) \in Nat
  BY DEF Undiscounted, TypeOK
<1>2. /\ Cardinality(Undiscounted) \in Nat /\ Cardinality(Workers) \in Nat
      /\ Cardinality(Undiscounted) <= Cardinality(Workers)
  BY <1>1, NoFewer, WorkersAssumption
<1>3. PICK k \in Int : 0 = Drift + k * CounterMod
  BY DEF Counts, Congruent
<1>4. Drift = Len(tasks) + Cardinality(Undiscounted)
  BY <1>1, <1>2, FS_EmptySet DEF Drift
<1>5. Drift = (-k) * CounterMod /\ -k \in Int /\ Drift \in Nat /\ Drift < CounterMod
  BY <1>1, <1>2, <1>3, <1>4, CounterAssumption
<1>6. Drift = 0
  BY <1>5, Multiple, CounterAssumption
<1> QED BY <1>1, <1>2, <1>4, <1>6 DEF TypeOK

\* What the observer keeps in mind: the old tasks are at most as many as it has seen.
Seen ==
    polling => first <= accepted - Cardinality(Queued) /\ Cardinality(OldRunning) <= seen

Small == Cardinality(Workers) < CounterMod
ObsInv == PoolInv /\ Counts /\ WatchOK /\ Seen

LEMMA StartedTyped == PoolInv => accepted \in Nat /\ accepted - Cardinality(Queued) \in Nat
<1> SUFFICES ASSUME PoolInv PROVE accepted \in Nat /\ accepted - Cardinality(Queued) \in Nat
  OBVIOUS
<1>1. Counted
  BY QueuedCount DEF PoolInv
<1> QED BY <1>1 DEF PoolInv, TypeOK, QueueInv, InOrder, Counted

\* An observation does not come in the way of the pool.
LEMMA ObserverStep ==
    ASSUME Small, ObsInv, [ObservedNext]_observed
    PROVE  ObsInv'
<1>1. [Next]_vars
  BY DEF ObservedNext, ReadWorkSize, ReadTaskSize, observed
<1>2. PoolInv' /\ Counts'
  BY <1>1, PoolStep, CountsStep DEF ObsInv, PoolInv
<1>3. CASE ReadWorkSize
  <2>1. /\ seen' = working /\ first' = accepted - Cardinality(Queued) /\ UNCHANGED vars
        /\ polling'
    BY <1>3 DEF ReadWorkSize
  <2>2. Cardinality(OldRunning') <= working
    <3>1. Running' = Running /\ OldRunning' \subseteq Running
      BY <2>1 DEF vars, Running, OldRunning
    <3>2. IsFiniteSet(Running) /\ Cardinality(Running) <= working /\ working \in Nat
      BY WorkingExact, RunningCounted, FiniteCounted DEF ObsInv, PoolInv, Small
    <3> QED BY <3>1, <3>2, FS_Subset, FS_CardinalityType
  <2>3. UNCHANGED <<accepted, Queued>> /\ accepted - Cardinality(Queued) \in Nat
    BY <2>1, StartedTyped DEF vars, Queued, ObsInv
  <2>4. WatchOK'
    BY <2>1, <2>3 DEF WatchOK, ObsInv, PoolInv, TypeOK
  <2> QED BY <1>2, <2>1, <2>2, <2>3, <2>4 DEF ObsInv, Seen
<1>4. CASE ReadTaskSize
  <2>1. polling' = FALSE /\ seen' = 0 /\ first' = 0
    BY <1>4 DEF ReadTaskSize
  <2>2. WatchOK'
    <3>1. 0 \in 0 .. CounterMod - 1 /\ 0 \in Nat
      BY CounterAssumption
    <3> QED BY <2>1, <3>1, Zenon DEF WatchOK
  <2>3. Seen'
    BY <2>1, Zenon DEF Seen
  <2> QED BY <1>2, <2>2, <2>3, Zenon DEF ObsInv
<1>5. CASE UNCHANGED watch
  <2>1. UNCHANGED <<polling, seen, first>>
    BY <1>5 DEF watch
  <2>2. StartsNext
    BY <1>1, PoolStartsNext DEF ObsInv
  <2>3. ASSUME polling
        PROVE  /\ first <= accepted' - Cardinality(Queued')
               /\ Cardinality(OldRunning') <= seen
    <3> DEFINE started == accepted - Cardinality(Queued)
    <3>1. /\ first <= started /\ Cardinality(OldRunning) <= seen
          /\ first \in Nat /\ seen \in Nat /\ started \in Nat
      BY <2>3, StartedTyped, CounterAssumption DEF ObsInv, Seen, WatchOK
    <3>2. /\ started' \in {started, started + 1}
          /\ Running' \subseteq Running \cup {started + 1}
      BY <2>2 DEF StartsNext
    <3>3. OldRunning' \subseteq OldRunning
      <4>1. OldRunning' = {i \in Running' : i <= first}
        BY <2>1 DEF OldRunning
      <4>2. ~(started + 1 <= first)
        BY <3>1
      <4> QED BY <3>2, <4>1, <4>2 DEF OldRunning
    <3>4. OldRunning \subseteq Running
      BY DEF OldRunning
    <3>5. Cardinality(OldRunning') <= seen
      <4>1. IsFiniteSet(OldRunning)
        BY <3>4, RunningCounted, FS_Subset
      <4>2. /\ Cardinality(OldRunning') <= Cardinality(OldRunning)
            /\ Cardinality(OldRunning') \in Nat /\ Cardinality(OldRunning) \in Nat
        BY <3>3, <4>1, NoFewer
      <4> QED BY <3>1, <4>2
    <3> QED BY <3>1, <3>2, <3>5
  <2> QED BY <1>2, <2>1, <2>3 DEF ObsInv, Seen, WatchOK
<1> QED BY <1>3, <1>4, <1>5 DEF ObservedNext, observed

(***************************************************************************)
(* An observer that reads n working and then no task queued, with no       *)
(* thread inside schedule, knows that all tasks were started and that of   *)
(* those started before it looked at most n are not over; as long as       *)
(* queue and workers together are fewer than the counters tell apart.      *)
(***************************************************************************)
THEOREM QuietIsDone ==
    ObservedSafeSpec /\ [](Len(tasks) + Cardinality(Workers) < CounterMod) => QuietMeansDone
<1> DEFINE Few == Len(tasks) + Cardinality(Workers) < CounterMod
<1>1. ObservedInit => ObsInv
  <2> SUFFICES ASSUME ObservedInit PROVE ObsInv
    OBVIOUS
  <2>1. PoolInv /\ Counts
    BY PoolInit, CountsInit DEF ObservedInit
  <2>2. polling = FALSE /\ seen = 0 /\ first = 0
    BY DEF ObservedInit
  <2>3. WatchOK
    <3>1. 0 \in 0 .. CounterMod - 1 /\ 0 \in Nat
      BY CounterAssumption
    <3> QED BY <2>2, <3>1, Zenon DEF WatchOK
  <2>4. Seen
    BY <2>2, Zenon DEF Seen
  <2> QED BY <2>1, <2>3, <2>4, Zenon DEF ObsInv
<1>2. ObsInv /\ Few /\ [ObservedNext]_observed => ObsInv'
  <2> SUFFICES ASSUME ObsInv, Few, [ObservedNext]_observed PROVE ObsInv'
    OBVIOUS
  <2>1. Len(tasks) \in Nat /\ Cardinality(Workers) \in Nat
    BY WorkersAssumption, FS_CardinalityType DEF ObsInv, PoolInv, TypeOK
  <2>2. Small
    BY <2>1, CounterAssumption DEF Small
  <2> QED BY <2>2, ObserverStep
<1>3. ObsInv /\ Few /\ [ObservedNext]_observed =>
        [(polling /\ ~polling' /\ ntasks = 0 /\ Uncounted = {})
           => tasks = <<>> /\ Cardinality(OldRunning) <= seen]_observed
  <2> SUFFICES ASSUME ObsInv, Few, polling, ntasks = 0, Uncounted = {}
               PROVE  tasks = <<>> /\ Cardinality(OldRunning) <= seen
    OBVIOUS
  <2> QED BY QueueExact DEF ObsInv, PoolInv, Seen
<1> HIDE DEF Few
<1>4. ObservedSafeSpec /\ []Few => QuietMeansDone
  BY <1>1, <1>2, <1>3, PTL DEF ObservedSafeSpec, QuietMeansDone
<1> QED BY <1>4 DEF Few
=============================================================================
