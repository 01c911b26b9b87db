---------------------------- MODULE ChannelProofs ----------------------------
(***************************************************************************)
(* A channel is served by one worker, and has a first node when it is; its *)
(* list is a line; and no node that is posted is lost: up to the first     *)
(* node that is posted while a channel still lists it (overtaken). For any *)
(* number of objects, channels, threads and messages, any nesting of the   *)
(* channels, and whatever channels the handlers attach their objects to.   *)
(*                                                                         *)
(* The argument: a node is in one place at a time. It is in the hands of a *)
(* thread that posts it, in the pool's queue, taken by a worker, or in the *)
(* list of a channel (kind, who). The lists are given by their cells, from *)
(* lo to hi, so that what m_next links is a line without any recursion     *)
(* (cell, lo, hi). Both are quantified over in the invariant: each action  *)
(* says how they change.                                                   *)
(*                                                                         *)
(* A node whose dispatch has ended with nothing more to do is let go: it   *)
(* stays at the end of the worker's path, and at the head of its list, for *)
(* a few steps, while others may already post it again. That place does    *)
(* not count (LettingGo).                                                  *)
(*                                                                         *)
(* The walk along m_next meets a list's cells in order (LinksAreCells, by  *)
(* induction on the steps of the walk), so a channel's list is a sequence, *)
(* and a post, a repost and a pop_front are what RunQueue says of it.      *)
(* Nothing is lost because whatever needs to be come to is in a place that *)
(* is not about to be let go (Kept).                                       *)
(*                                                                         *)
(* What holds whatever has been overtaken is the type of each variable,    *)
(* with what it needs of the workers' paths (Shape).                       *)
(***************************************************************************)
EXTENDS Channel, FiniteSetTheorems, WellFoundedInduction, TLAPS

\* A worker about to let go of the last node of its path
LettingGo(w) == path[w] # <<>> /\ ~more[w] /\ pc[w] \in {"leave", "back", "post"}

\* A worker goes from its task into each channel's first node, and meets none twice.
PathOf(w) ==
    /\ pc[w] = "idle" => path[w] = <<>>
    /\ pc[w] \in {"front", "handle", "leave", "back"} => path[w] # <<>>
    /\ pc[w] = "front" => Last(path[w]) \in Channels
    /\ pc[w] \in {"handle", "leave"} => Last(path[w]) \in Objects
    /\ \A i \in 1 .. Len(path[w]) - 1 :
          path[w][i] \in Channels /\ root[path[w][i]] = path[w][i + 1]
    /\ \A i, j \in 1 .. Len(path[w]) : path[w][i] = path[w][j] => i = j
    /\ path[w] # <<>> /\ path[w][1] \in Channels =>
          /\ parent[path[w][1]] = None
          /\ pc[w] = "back" /\ Len(path[w]) = 1 => more[w]
    /\ pc[w] # "crashed"

Paths == \A w \in Workers : PathOf(w)

\* No two workers are in the same channel.
Apart ==
    \A w, v \in Workers : w # v =>
        \A i \in 1 .. Len(path[w]), j \in 1 .. Len(path[v]) :
            path[w][i] = path[v][j] => path[w][i] \notin Channels

\* A worker that posts in the middle of a channel has served an object that left it.
Posts ==
    /\ \A t \in Threads : pc[t] = "post" <=> post[t] # None
    /\ \A t \in Io : pc[t] \in {"idle", "post"}
    /\ \A w \in Workers : pc[w] = "post" /\ path[w] # <<>> =>
          /\ Len(path[w]) > 1 /\ ~more[w]
          /\ post[w] = Last(path[w]) /\ post[w] \in Objects

\* No node is queued twice; a queued channel is at the top and not being served.
Tasks ==
    /\ \A i, j \in 1 .. Len(tasks) : tasks[i] = tasks[j] => i = j
    /\ \A i \in 1 .. Len(tasks) : tasks[i] \in Channels =>
          /\ parent[tasks[i]] = None
          /\ \A w \in Workers : path[w] # <<>> => path[w][1] # tasks[i]

\* A token stands for a message, unless the object has gone bad.
Counts ==
    \A o \in Objects :
        /\ waiting[o] <= arrived[o]
        /\ held[o] /\ ~bad[o] => waiting[o] > 0

\* The list of channel c: its nodes are cell[c][lo[c]] to cell[c][hi[c] - 1].
Cells(lo, hi, c) == lo[c] .. hi[c] - 1

ListOf(c, cell, lo, hi) ==
    /\ lo[c] \in Nat /\ hi[c] \in Nat /\ lo[c] <= hi[c]
    /\ root[c] = IF lo[c] = hi[c] THEN None ELSE cell[c][lo[c]]
    /\ tail[c] = IF lo[c] = hi[c] THEN None ELSE cell[c][hi[c] - 1]
    /\ \A i \in Cells(lo, hi, c) :
          /\ cell[c][i] \in Nodes
          /\ next[cell[c][i]] = IF i = hi[c] - 1 THEN None ELSE cell[c][i + 1]
          /\ cell[c][i] \in Channels => parent[cell[c][i]] = c

\* A cell for node n after the last of channel c; a bound of c's cells moved up
CellFor(n, c, cell, hi) == [cell EXCEPT ![c][hi[c]] = n]
Up(c, bound) == [bound EXCEPT ![c] = bound[c] + 1]

\* No node is in two lists, or twice in one.
Lists(cell, lo, hi) ==
    /\ cell \in [Channels -> [Nat -> Nodes]]
    /\ lo \in [Channels -> Nat]
    /\ hi \in [Channels -> Nat]
    /\ \A c \in Channels : ListOf(c, cell, lo, hi)
    /\ \A c, d \in Channels : \A i \in Cells(lo, hi, c), j \in Cells(lo, hi, d) :
          cell[c][i] = cell[d][j] => c = d /\ i = j

\* The place of each node; an object in one has its token, a channel has nodes.
Claims(cell, lo, hi, kind, who) ==
    /\ kind \in [Nodes -> {"none", "post", "task", "head", "line"}]
    /\ who \in [Nodes -> Nodes \cup Threads]
    /\ \A t \in Threads : post[t] # None => kind[post[t]] = "post" /\ who[post[t]] = t
    /\ \A i \in 1 .. Len(tasks) : kind[tasks[i]] = "task"
    /\ \A w \in Workers : path[w] # <<>> /\ (Len(path[w]) > 1 \/ ~LettingGo(w)) =>
          kind[path[w][1]] = "head" /\ who[path[w][1]] = w
    /\ \A c \in Channels : \A i \in Cells(lo, hi, c) :
          \/ kind[cell[c][i]] = "line" /\ who[cell[c][i]] = c
          \/ i = lo[c] /\ \E w \in Workers : Len(path[w]) > 1 /\ Serving(w) = c /\ LettingGo(w)
    /\ \A o \in Objects : kind[o] # "none" => held[o]
    /\ \A c \in Channels : kind[c] # "none" => lo[c] < hi[c]

Plain == TypeOK /\ Paths /\ Apart /\ Posts /\ Tasks /\ Counts
Ghost(cell, lo, hi, kind, who) == Lists(cell, lo, hi) /\ Claims(cell, lo, hi, kind, who)

IInv == Plain /\ \E cell, lo, hi, kind, who : Ghost(cell, lo, hi, kind, who)

\* A worker's path leads through channels to the object or channel it is at.
ShapeOf(w) ==
    /\ pc[w] = "idle" => path[w] = <<>>
    /\ pc[w] \in {"front", "handle", "leave", "back"} => path[w] # <<>>
    /\ pc[w] = "front" => Last(path[w]) \in Channels
    /\ pc[w] \in {"handle", "leave"} => Last(path[w]) \in Objects
    /\ \A i \in 1 .. Len(path[w]) - 1 : path[w][i] \in Channels

Shape ==
    /\ TypeOK
    /\ \A w \in Workers : ShapeOf(w)
    /\ \A t \in Threads : pc[t] = "post" => post[t] # None
    /\ \A o \in Objects : waiting[o] <= arrived[o]

Safe == Shape /\ (~overtaken => IInv)

-----------------------------------------------------------------------------
\* The labels of pc, and the kinds of place
Labels == {"idle", "post", "front", "handle", "leave", "back", "crashed"}
Kinds == {"none", "post", "task", "head", "line"}

\* Last and Front of a sequence that is not empty
LEMMA FrontLast ==
    ASSUME NEW S, NEW s \in Seq(S), s # <<>>
    PROVE  /\ Len(s) \in Nat \ {0}
           /\ Last(s) = s[Len(s)] /\ Last(s) \in S
           /\ Front(s) \in Seq(S) /\ Len(Front(s)) = Len(s) - 1
           /\ \A i \in 1 .. Len(s) - 1 : Front(s)[i] = s[i]
           /\ Front(s) = <<>> <=> Len(s) = 1
  <1>1. Len(s) \in Nat \ {0} /\ Last(s) = s[Len(s)] /\ Last(s) \in S
    BY DEF Last
  <1>2. Front(s) = [i \in 1 .. Len(s) - 1 |-> s[i]]
    BY <1>1 DEF Front
  <1>3. Front(s) \in Seq(S) /\ Len(Front(s)) = Len(s) - 1
    BY <1>1, <1>2
  <1>4. \A i \in 1 .. Len(s) - 1 : Front(s)[i] = s[i]
    BY <1>2
  <1> QED BY <1>1, <1>3, <1>4

\* Head and Tail of a sequence that is not empty
LEMMA TailFacts ==
    ASSUME NEW S, NEW s \in Seq(S), s # <<>>
    PROVE  /\ Head(s) \in S /\ Head(s) = s[1] /\ Tail(s) \in Seq(S)
           /\ Len(s) \in Nat \ {0} /\ Len(Tail(s)) = Len(s) - 1
           /\ \A i \in 1 .. Len(s) - 1 : Tail(s)[i] = s[i + 1]
  OBVIOUS

\* Appending an element
LEMMA AppendFacts ==
    ASSUME NEW S, NEW s \in Seq(S), NEW x \in S
    PROVE  /\ Append(s, x) \in Seq(S) /\ Len(s) \in Nat /\ Len(Append(s, x)) = Len(s) + 1
           /\ Append(s, x) # <<>>
           /\ \A i \in 1 .. Len(s) : Append(s, x)[i] = s[i]
           /\ Append(s, x)[Len(s) + 1] = x
           /\ Last(Append(s, x)) = x
  BY DEF Last

\* The elements of a sequence, and their set
LEMMA SeqFacts ==
    ASSUME NEW S, NEW s \in Seq(S)
    PROVE  /\ Len(s) \in Nat /\ (s = <<>> <=> Len(s) = 0)
           /\ \A i \in 1 .. Len(s) : s[i] \in S
           /\ Range(s) = {s[i] : i \in 1 .. Len(s)}
  BY DEF Range

\* The claim of a node on a worker's path that is not about to be let go
LEMMA Claimed ==
    ASSUME Plain, NEW cell, NEW lo, NEW hi, NEW kind, NEW who,
           Ghost(cell, lo, hi, kind, who),
           NEW w \in Workers, NEW i \in 1 .. Len(path[w]), i < Len(path[w]) \/ ~LettingGo(w)
    PROVE  /\ i = 1 => kind[path[w][i]] = "head" /\ who[path[w][i]] = w
           /\ i > 1 => kind[path[w][i]] = "line" /\ who[path[w][i]] = path[w][i - 1]
           /\ kind[path[w][i]] # "none"
  <1>1. path[w] \in Seq(Nodes) /\ path[w] # <<>> /\ Len(path[w]) \in Nat
    BY DEF Plain, TypeOK
  <1>2. CASE i = 1
    BY <1>1, <1>2 DEF Ghost, Claims
  <1>3. CASE i > 1
    <2> DEFINE c == path[w][i - 1]
    <2>1. c \in Channels /\ root[c] = path[w][i] /\ path[w][i] \in Nodes
      BY <1>1, <1>3 DEF Plain, Paths, PathOf
    <2>2. root[c] # None
      BY <2>1, NodesAssumption DEF Nodes
    <2>3. lo[c] \in Nat /\ hi[c] \in Nat /\ lo[c] < hi[c] /\ cell[c][lo[c]] = path[w][i]
      BY <2>1, <2>2 DEF Ghost, Lists, ListOf
    <2>4. ASSUME NEW v \in Workers, Len(path[v]) > 1, Serving(v) = c, LettingGo(v)
          PROVE  FALSE
      <3>1. path[v] \in Seq(Nodes) /\ Len(path[v]) \in Nat
        BY DEF Plain, TypeOK
      <3>2. CASE v = w
        BY <1>1, <1>3, <2>4, <3>1, <3>2 DEF Plain, Paths, PathOf, Serving
      <3>3. CASE v # w
        BY SMTT(30), <1>1, <1>3, <2>1, <2>4, <3>1, <3>3 DEF Plain, Apart, Serving
      <3> QED BY <3>2, <3>3
    <2>5. lo[c] \in Cells(lo, hi, c)
      BY <2>3 DEF Cells
    <2> QED BY <1>3, <2>1, <2>3, <2>4, <2>5 DEF Ghost, Claims
  <1> QED BY <1>1, <1>2, <1>3

-----------------------------------------------------------------------------
\* At first nothing is posted, and no list has a node.
LEMMA InitInv == Init => IInv
  <1> SUFFICES ASSUME Init PROVE IInv
    OBVIOUS
  <1> USE NodesAssumption, ThreadsAssumption, HomeAssumption, BoundAssumption
  <1>1. TypeOK
    <2>1. Home \in [Nodes -> Channels \cup {None}] /\ <<>> \in Seq(Nodes)
      BY DEF Nodes
    <2>2. /\ parent \in [Nodes -> Channels \cup {None}] /\ next \in [Nodes -> Nodes \cup {None}]
          /\ root \in [Channels -> Nodes \cup {None}] /\ tail \in [Channels -> Nodes \cup {None}]
      BY <2>1 DEF Init
    <2>3. /\ owner \in [Objects -> Workers \cup {None}]
          /\ post \in [Threads -> Nodes \cup {None}] /\ path \in [Workers -> Seq(Nodes)]
          /\ pc \in [Threads -> {"idle", "post", "front", "handle", "leave", "back", "crashed"}]
      BY <2>1 DEF Init
    <2>4. 0 \in 0 .. MaxMessages
      OBVIOUS
    <2>5. waiting \in [Objects -> 0 .. MaxMessages] /\ arrived \in [Objects -> 0 .. MaxMessages]
      BY <2>4 DEF Init
    <2>6. /\ held \in [Objects -> BOOLEAN] /\ bad \in [Objects -> BOOLEAN]
          /\ more \in [Workers -> BOOLEAN] /\ overtaken \in BOOLEAN
      BY DEF Init
    <2>7. tasks \in Seq(Nodes)
      BY <2>1 DEF Init
    <2> QED BY <2>2, <2>3, <2>5, <2>6, <2>7 DEF TypeOK
  <1>2. Paths /\ Apart /\ Posts /\ Tasks /\ Counts
    BY DEF Init, Paths, PathOf, Apart, Posts, Tasks, Counts, Threads
  <1>3. CASE Nodes = {}
    <2>1. PICK cell, lo, hi : /\ cell = [c \in Channels |-> [i \in Nat |-> None]]
                              /\ lo = [c \in Channels |-> 0] /\ hi = [c \in Channels |-> 0]
      OBVIOUS
    <2>2. PICK kind, who : kind = [n \in Nodes |-> "none"] /\ who = [n \in Nodes |-> n]
      OBVIOUS
    <2>3. Channels = {} /\ Objects = {}
      BY <1>3 DEF Nodes
    <2>4. Lists(cell, lo, hi)
      BY <2>1, <2>3 DEF Lists
    <2>5. Claims(cell, lo, hi, kind, who)
      BY <2>1, <2>2, <2>3 DEF Claims, Init, Nodes, Threads
    <2> QED BY <1>1, <1>2, <2>4, <2>5 DEF IInv, Plain, Ghost
  <1>4. CASE Nodes # {}
    <2>1. PICK n : n \in Nodes
      BY <1>4
    <2>2. PICK cell, lo, hi : /\ cell = [c \in Channels |-> [i \in Nat |-> n]]
                              /\ lo = [c \in Channels |-> 0] /\ hi = [c \in Channels |-> 0]
      OBVIOUS
    <2>3. PICK kind, who : kind = [m \in Nodes |-> "none"] /\ who = [m \in Nodes |-> m]
      OBVIOUS
    <2>4. Lists(cell, lo, hi)
      BY <2>1, <2>2 DEF Lists, ListOf, Cells, Init
    <2>5. Claims(cell, lo, hi, kind, who)
      BY <2>2, <2>3 DEF Claims, Init, Cells, Nodes, Threads
    <2> QED BY <1>1, <1>2, <2>4, <2>5 DEF IInv, Plain, Ghost
  <1> QED BY <1>3, <1>4

\* ~thread_id_guard changes no place.
LEMMA LeaveStep ==
    ASSUME IInv, NEW w \in Workers, LeaveObject(w)
    PROVE  IInv'
  <1>1. PICK cell, lo, hi, kind, who : Ghost(cell, lo, hi, kind, who)
    BY DEF IInv
  <1>2. TypeOK'
    BY ThreadsAssumption DEF IInv, Plain, TypeOK, LeaveObject, Goto, objectVars, listVars, Threads
  <1>3. pc[w] = "leave" /\ path' = path /\ more' = more /\ w \in Threads
        /\ pc' = [pc EXCEPT ![w] = "back"] /\ pc \in [Threads -> {"idle", "post", "front", "handle", "leave", "back", "crashed"}]
        /\ UNCHANGED <<parent, tasks, post, listVars, objectVars>>
    BY DEF IInv, Plain, TypeOK, LeaveObject, Goto, Threads
  <1>4. Paths'
    <2>1. path[w] \in Seq(Nodes) /\ path[w] # <<>> /\ Last(path[w]) \in Objects /\ PathOf(w)
      BY <1>3 DEF IInv, Plain, Paths, PathOf, TypeOK
    <2>2. Len(path[w]) = 1 => path[w][1] \notin Channels
      <3>1. Last(path[w]) = path[w][Len(path[w])]
        BY <2>1, FrontLast
      <3> QED BY <2>1, <3>1, NodesAssumption
    <2>3. PathOf(w)'
      BY <1>3, <2>1, <2>2 DEF PathOf, listVars
    <2>4. ASSUME NEW v \in Workers, v # w
          PROVE  PathOf(v)'
      BY <1>3, <2>4 DEF IInv, Plain, Paths, PathOf, listVars, Threads
    <2> QED BY <2>3, <2>4 DEF Paths
  <1>4a. Apart' /\ Posts' /\ Tasks' /\ Counts'
    BY <1>3, ThreadsAssumption DEF IInv, Plain, Apart, Posts, Tasks, Counts, listVars, objectVars, Threads
  <1>5. \A v \in Workers : LettingGo(v)' <=> LettingGo(v)
    BY <1>3 DEF LettingGo, Threads
  <1>6. Lists(cell, lo, hi)'
    <2>1. UNCHANGED <<parent, next, root, tail>> /\ Lists(cell, lo, hi)
      BY <1>1, <1>3 DEF Ghost, listVars
    <2> QED BY ONLY <2>1 DEF Lists, ListOf, Cells
  <1>7. Claims(cell, lo, hi, kind, who)'
    BY <1>1, <1>3, <1>5 DEF Ghost, Claims, objectVars, Cells, Serving
  <1> QED BY <1>2, <1>4, <1>4a, <1>6, <1>7 DEF IInv, Plain, Ghost

\* An IO thread that takes an object's token, or finds it taken
LEMMA TokenStep ==
    ASSUME IInv, NEW t \in Io, NEW o \in Objects, pc[t] = "idle", TakeToken(t, o),
           TypeOK', Counts',
           UNCHANGED <<parent, listVars, tasks, path, more>>
    PROVE  IInv'
  <1>1. PICK cell, lo, hi, kind, who : Ghost(cell, lo, hi, kind, who)
    BY DEF IInv
  <1>2. Lists(cell, lo, hi)'
    <2>1. UNCHANGED <<parent, next, root, tail>> /\ Lists(cell, lo, hi)
      BY <1>1 DEF Ghost, listVars
    <2> QED BY ONLY <2>1 DEF Lists, ListOf, Cells
  <1>3. t \in Threads /\ t \notin Workers /\ o \in Nodes /\ o # None
    BY ThreadsAssumption, NodesAssumption DEF Threads, Nodes
  <1>4. CASE held[o]
    <2>1. UNCHANGED <<held, pc, post>>
      BY <1>4 DEF TakeToken
    <2>2. Paths'
      BY <2>1 DEF IInv, Plain, Paths, PathOf, listVars
    <2>5. Apart' /\ Tasks'
      BY <2>1 DEF IInv, Plain, Apart, Tasks
    <2>3. Posts'
      BY <2>1 DEF IInv, Plain, Posts
    <2>4. Claims(cell, lo, hi, kind, who)'
      BY <1>1, <2>1 DEF Ghost, Claims, Cells, Serving, LettingGo
    <2> QED BY <1>2, <2>2, <2>3, <2>4, <2>5 DEF IInv, Plain, Ghost
  <1>5. CASE ~held[o]
    <2>1. /\ held' = [held EXCEPT ![o] = TRUE]
          /\ post' = [post EXCEPT ![t] = o]
          /\ pc' = [pc EXCEPT ![t] = "post"]
          /\ held \in [Objects -> BOOLEAN]
          /\ post \in [Threads -> Nodes \cup {None}]
          /\ pc \in [Threads -> {"idle", "post", "front", "handle", "leave", "back", "crashed"}]
      BY <1>5 DEF TakeToken, Goto, IInv, Plain, TypeOK
    <2>2. kind[o] = "none"
      BY <1>1, <1>5 DEF Ghost, Claims
    <2>3. Paths'
      <3>1. \A v \in Workers : pc'[v] = pc[v]
        BY <1>3, <2>1 DEF Threads
      <3> QED BY <3>1 DEF IInv, Plain, Paths, PathOf, listVars
    <2>3a. Apart' /\ Tasks'
      BY <2>1 DEF IInv, Plain, Apart, Tasks
    <2>4. Posts'
      BY <1>3, <2>1 DEF IInv, Plain, Posts, Threads
    <2>5. PICK k2, w2 : k2 = [kind EXCEPT ![o] = "post"] /\ w2 = [who EXCEPT ![o] = t]
      OBVIOUS
    <2>6. \A w \in Workers : LettingGo(w)' <=> LettingGo(w)
      BY <1>3, <2>1 DEF LettingGo, Threads
    <2>7. Claims(cell, lo, hi, k2, w2)'
      <3> USE <1>1, <1>3, <2>1, <2>2, <2>5 DEF Ghost, Claims
      <3>1. /\ k2 \in [Nodes -> {"none", "post", "task", "head", "line"}]
            /\ w2 \in [Nodes -> Nodes \cup Threads]
        BY DEF Threads
      <3>2. \A u \in Threads : post'[u] # None => k2[post'[u]] = "post" /\ w2[post'[u]] = u
        OBVIOUS
      <3>3. \A i \in 1 .. Len(tasks) : k2[tasks[i]] = "task"
        BY DEF IInv, Plain, TypeOK
      <3>4. \A w \in Workers : path[w] # <<>> /\ (Len(path[w]) > 1 \/ ~LettingGo(w)) =>
               k2[path[w][1]] = "head" /\ w2[path[w][1]] = w
        <4> TAKE w \in Workers
        <4> HAVE path[w] # <<>> /\ (Len(path[w]) > 1 \/ ~LettingGo(w))
        <4>1. kind[path[w][1]] = "head" /\ who[path[w][1]] = w
          OBVIOUS
        <4>2. path[w][1] \in Nodes
          BY DEF IInv, Plain, TypeOK
        <4> QED BY <4>1, <4>2
      <3>5. \A c \in Channels : \A i \in Cells(lo, hi, c) :
              \/ k2[cell[c][i]] = "line" /\ w2[cell[c][i]] = c
              \/ i = lo[c] /\ \E w \in Workers : Len(path[w]) > 1 /\ Serving(w) = c /\ LettingGo(w)
        BY DEF Lists, ListOf
      <3>6. \A n \in Objects : k2[n] # "none" => held'[n]
        BY DEF Nodes
      <3>7. \A c \in Channels : k2[c] # "none" => lo[c] < hi[c]
        BY NodesAssumption DEF Nodes
      <3>8. \A w \in Workers : Serving(w)' = Serving(w)
        BY DEF Serving
      <3> QED BY <2>6, <3>1, <3>2, <3>3, <3>4, <3>5, <3>6, <3>7, <3>8 DEF Cells
    <2> QED BY <1>2, <2>3, <2>3a, <2>4, <2>7 DEF IInv, Plain, Ghost
  <1> QED BY <1>4, <1>5

\* A message comes: its count and the token are one.
LEMMA ReceiveStep ==
    ASSUME IInv, NEW t \in Io, NEW o \in Objects, Receive(t, o)
    PROVE  IInv'
  <1>1. /\ waiting \in [Objects -> 0 .. MaxMessages] /\ arrived \in [Objects -> 0 .. MaxMessages]
        /\ waiting' = [waiting EXCEPT ![o] = waiting[o] + 1]
        /\ arrived' = [arrived EXCEPT ![o] = arrived[o] + 1]
        /\ waiting[o] <= arrived[o] /\ arrived[o] < MaxMessages
    BY DEF IInv, Plain, TypeOK, Counts, Receive
  <1>2. /\ waiting' \in [Objects -> 0 .. MaxMessages] /\ arrived' \in [Objects -> 0 .. MaxMessages]
    BY <1>1, BoundAssumption
  <1>3. TypeOK'
    <2>1. /\ held' \in [Objects -> BOOLEAN]
          /\ pc' \in [Threads -> Labels]
          /\ post' \in [Threads -> Nodes \cup {None}]
      <3>1. t \in Threads /\ o \in Nodes /\ TakeToken(t, o)
        BY DEF Receive, Threads, Nodes
      <3>2. /\ held \in [Objects -> BOOLEAN] /\ pc \in [Threads -> Labels]
            /\ post \in [Threads -> Nodes \cup {None}]
        BY DEF IInv, Plain, TypeOK, Labels
      <3> QED BY ONLY <3>1, <3>2, o \in Objects DEF TakeToken, Goto, Labels
    <2>2. UNCHANGED <<parent, next, root, tail, owner, bad, tasks, path, more, overtaken>>
      BY DEF Receive, listVars
    <2> QED BY <1>2, <2>1, <2>2 DEF IInv, Plain, TypeOK, Labels
  <1>4. Counts'
    BY <1>1 DEF IInv, Plain, TypeOK, Counts, Receive, TakeToken
  <1> QED BY <1>3, <1>4, TokenStep DEF Receive

\* A session is to be closed.
LEMMA GoBadStep ==
    ASSUME IInv, NEW t \in Io, NEW o \in Objects, GoBad(t, o)
    PROVE  IInv'
  <1>1. TypeOK'
    BY DEF IInv, Plain, TypeOK, GoBad, TakeToken, Goto, listVars, Threads, Nodes
  <1>2. Counts'
    BY DEF IInv, Plain, TypeOK, Counts, GoBad, TakeToken
  <1> QED BY <1>1, <1>2, TokenStep DEF GoBad

-----------------------------------------------------------------------------
\* What a thread that posts with care knows of its node
LEMMA PostedNode ==
    ASSUME Plain, NEW t \in Threads, pc[t] = "post"
    PROVE  /\ post[t] \in Nodes /\ post[t] # None
           /\ t \in Workers /\ path[t] # <<>> =>
                 /\ Len(path[t]) > 1 /\ ~more[t] /\ post[t] = Last(path[t])
                 /\ post[t] \in Objects
  BY DEF Plain, TypeOK, Posts

\* The node goes from the poster's hands to the queue.
LEMMA PoolStep ==
    ASSUME IInv, NEW t \in Threads, PostToPool(t)
    PROVE  IInv'
  <1>1. PICK cell, lo, hi, kind, who : Ghost(cell, lo, hi, kind, who)
    BY DEF IInv
  <1> DEFINE n == post[t]
  <1>2. /\ pc[t] = "post" /\ parent[n] = None /\ tasks' = Append(tasks, n)
        /\ pc' = [pc EXCEPT ![t] = IF t \in Workers /\ path[t] # <<>> THEN "back" ELSE "idle"]
        /\ post' = [post EXCEPT ![t] = None]
        /\ UNCHANGED <<parent, path, more, held, waiting, arrived, bad, next, root, tail, owner, overtaken>>
        /\ pc \in [Threads -> Labels] /\ post \in [Threads -> Nodes \cup {None}]
        /\ tasks \in Seq(Nodes)
    BY DEF IInv, Plain, TypeOK, PostToPool, DonePosting, Goto, objectVars, listVars, Labels
  <1>3. /\ n \in Nodes /\ n # None
        /\ t \in Workers /\ path[t] # <<>> =>
              /\ Len(path[t]) > 1 /\ ~more[t] /\ n = Last(path[t])
              /\ n \in Objects
    BY <1>2, PostedNode DEF PostToPool, IInv, Plain
  <1>4. /\ Append(tasks, n) \in Seq(Nodes) /\ Len(tasks) \in Nat
        /\ Len(Append(tasks, n)) = Len(tasks) + 1
        /\ \A i \in 1 .. Len(tasks) : Append(tasks, n)[i] = tasks[i]
        /\ Append(tasks, n)[Len(tasks) + 1] = n
    BY <1>2, <1>3, AppendFacts
  <1>5. kind[n] = "post" /\ who[n] = t
    BY <1>1, <1>3 DEF Ghost, Claims
  <1>6. TypeOK'
    <2>1. pc' \in [Threads -> Labels] /\ post' \in [Threads -> Nodes \cup {None}] /\ tasks' \in Seq(Nodes)
      BY <1>2, <1>4 DEF Labels
    <2> QED BY <1>2, <2>1 DEF IInv, Plain, TypeOK, Labels
  <1>7. Paths'
    <2>1. ASSUME NEW v \in Workers
          PROVE  PathOf(v)'
      <3>1. PathOf(v) /\ v \in Threads
        BY DEF IInv, Plain, Paths, Threads
      <3>2. CASE v = t
        <4>1. pc'[v] = IF path[v] # <<>> THEN "back" ELSE "idle"
          BY <1>2, <3>1, <3>2
        <4> QED BY <1>2, <1>3, <3>1, <3>2, <4>1 DEF PathOf
      <3>3. CASE v # t
        <4>1. pc'[v] = pc[v]
          BY <1>2, <3>1, <3>3
        <4> QED BY <1>2, <3>1, <4>1 DEF PathOf
      <3> QED BY <3>2, <3>3
    <2> QED BY <2>1 DEF Paths
  <1>7a. Apart' /\ Counts'
    BY <1>2 DEF IInv, Plain, Apart, Counts
  <1>8. Posts'
    BY <1>2, ThreadsAssumption DEF IInv, Plain, Posts, Threads, Labels
  <1>9. Tasks'
    <2>1. \A i \in 1 .. Len(tasks) : tasks[i] # n
      BY <1>1, <1>5 DEF Ghost, Claims
    <2>2. \A i \in 1 .. Len(tasks) + 1 :
            (tasks'[i] = n /\ i = Len(tasks) + 1) \/ (i \in 1 .. Len(tasks) /\ tasks'[i] = tasks[i])
      BY <1>2, <1>4
    <2>3. Len(tasks') = Len(tasks) + 1
      BY <1>2, <1>4
    <2>4. \A i, j \in 1 .. Len(tasks') : tasks'[i] = tasks'[j] => i = j
      BY <2>1, <2>2, <2>3 DEF IInv, Plain, Tasks
    <2>5. n \in Channels => \A w \in Workers : path[w] # <<>> => path[w][1] # n
      <3> SUFFICES ASSUME n \in Channels, NEW w \in Workers, path[w] # <<>> PROVE path[w][1] # n
        OBVIOUS
      <3> SUFFICES ASSUME path[w][1] = n PROVE FALSE
        OBVIOUS
      <3>1. path[w] \in Seq(Nodes) /\ n \notin Objects
        BY NodesAssumption DEF IInv, Plain, TypeOK
      <3>2. Len(path[w]) = 1 /\ LettingGo(w)
        <4>1. kind[path[w][1]] # "head"
          BY <1>5
        <4>2. ~(Len(path[w]) > 1) /\ LettingGo(w)
          BY <1>1, <4>1 DEF Ghost, Claims
        <4>3. Len(path[w]) \in Nat /\ Len(path[w]) # 0
          BY <3>1
        <4>4. PICK k : k = Len(path[w])
          OBVIOUS
        <4>5. k \in Nat /\ k # 0 /\ ~(k > 1)
          BY <4>2, <4>3, <4>4
        <4>6. k = 1
          BY ONLY <4>5
        <4> QED BY <4>2, <4>4, <4>6
      <3>3. Last(path[w]) = n
        BY <3>1, <3>2, FrontLast
      <3> QED BY <3>1, <3>2, <3>3 DEF IInv, Plain, Paths, PathOf, Posts, LettingGo
    <2>6. \A i \in 1 .. Len(tasks') : tasks'[i] \in Channels =>
            /\ parent[tasks'[i]] = None
            /\ \A w \in Workers : path[w] # <<>> => path[w][1] # tasks'[i]
      BY <1>2, <2>2, <2>3, <2>5 DEF IInv, Plain, Tasks
    <2> QED BY <1>2, <2>4, <2>6 DEF Tasks
  <1>10. Lists(cell, lo, hi)'
    <2>1. UNCHANGED <<parent, next, root, tail>> /\ Lists(cell, lo, hi)
      BY <1>1, <1>2 DEF Ghost
    <2> QED BY ONLY <2>1 DEF Lists, ListOf, Cells
  <1>11. PICK k2, w2 : k2 = [kind EXCEPT ![n] = "task"] /\ w2 = who
    OBVIOUS
  <1>12. \A w \in Workers : (LettingGo(w)' <=> LettingGo(w)) /\ Serving(w)' = Serving(w)
    BY <1>2, <1>3 DEF LettingGo, Threads, Serving, Labels
  <1>13. Claims(cell, lo, hi, k2, w2)'
    <2> USE <1>1, <1>2, <1>3, <1>5, <1>11 DEF Ghost, Claims
    <2>1. /\ k2 \in [Nodes -> Kinds] /\ w2 \in [Nodes -> Nodes \cup Threads]
      BY DEF Kinds
    <2>2. \A u \in Threads : post'[u] # None => k2[post'[u]] = "post" /\ w2[post'[u]] = u
      OBVIOUS
    <2>3. \A i \in 1 .. Len(tasks') : k2[tasks'[i]] = "task"
      BY <1>4, SeqFacts
    <2>4. \A w \in Workers : path[w] # <<>> /\ (Len(path[w]) > 1 \/ ~LettingGo(w)) =>
             k2[path[w][1]] = "head" /\ w2[path[w][1]] = w
      <3> TAKE w \in Workers
      <3> HAVE path[w] # <<>> /\ (Len(path[w]) > 1 \/ ~LettingGo(w))
      <3>1. kind[path[w][1]] = "head" /\ who[path[w][1]] = w
        OBVIOUS
      <3>2. path[w][1] \in Nodes
        BY DEF IInv, Plain, TypeOK
      <3> QED BY <3>1, <3>2
    <2>5. \A c \in Channels : \A i \in Cells(lo, hi, c) :
            \/ k2[cell[c][i]] = "line" /\ w2[cell[c][i]] = c
            \/ i = lo[c] /\ \E w \in Workers : Len(path[w]) > 1 /\ Serving(w) = c /\ LettingGo(w)
      BY DEF Lists, ListOf
    <2>6. \A o \in Objects : k2[o] # "none" => held'[o]
      BY DEF Nodes
    <2>7. \A c \in Channels : k2[c] # "none" => lo[c] < hi[c]
      BY DEF Nodes
    <2> QED BY <1>12, <2>1, <2>2, <2>3, <2>4, <2>5, <2>6, <2>7 DEF Cells, Kinds
  <1> QED BY <1>6, <1>7, <1>7a, <1>8, <1>9, <1>10, <1>13 DEF IInv, Plain, Ghost

\* A node that is posted and at no channel's root is in no list.
LEMMA PostedUnlisted ==
    ASSUME Plain, NEW t \in Threads, pc[t] = "post", \A d \in Channels : root[d] # post[t],
           NEW cell, NEW lo, NEW hi, NEW kind, NEW who, Ghost(cell, lo, hi, kind, who)
    PROVE  /\ t \in Workers => path[t] = <<>>
           /\ \A c \in Channels : \A i \in Cells(lo, hi, c) : cell[c][i] # post[t]
  <1>1. post[t] \in Nodes /\ post[t] # None
    BY PostedNode
  <1>2. ASSUME t \in Workers, path[t] # <<>>
        PROVE  FALSE
    <2>1. Len(path[t]) > 1 /\ post[t] = Last(path[t]) /\ path[t] \in Seq(Nodes)
      BY <1>2, PostedNode DEF Plain, TypeOK
    <2>2. Len(path[t]) \in Nat /\ Last(path[t]) = path[t][Len(path[t])]
      BY <1>2, <2>1, FrontLast
    <2>3. Len(path[t]) - 1 \in 1 .. Len(path[t]) - 1
      BY <2>1, <2>2
    <2>4. /\ path[t][Len(path[t]) - 1] \in Channels
          /\ root[path[t][Len(path[t]) - 1]] = path[t][Len(path[t]) - 1 + 1]
      BY <1>2, <2>3 DEF Plain, Paths, PathOf
    <2>5. Len(path[t]) - 1 + 1 = Len(path[t])
      BY <2>2
    <2> QED BY <2>1, <2>2, <2>4, <2>5
  <1>3. kind[post[t]] = "post"
    BY <1>1 DEF Ghost, Claims
  <1>4. ASSUME NEW c \in Channels, NEW i \in Cells(lo, hi, c), cell[c][i] = post[t]
        PROVE  FALSE
    <2>1. i = lo[c]
      BY <1>3, <1>4 DEF Ghost, Claims
    <2>2. root[c] = post[t]
      BY <1>4, <2>1 DEF Ghost, Lists, ListOf, Cells
    <2> QED BY <2>2
  <1> QED BY <1>2, <1>4

\* post_node of a node that is in no list gives its channel's list one more cell.
LEMMA JoinLists ==
    ASSUME TypeOK, UNCHANGED parent, NEW n \in Nodes, NEW c \in Channels,
           parent[n] = c, PostNode(c, n),
           NEW cell, NEW lo, NEW hi, Lists(cell, lo, hi),
           \A d \in Channels : \A i \in Cells(lo, hi, d) : cell[d][i] # n,
           NEW cell2, cell2 = CellFor(n, c, cell, hi), NEW hi2, hi2 = Up(c, hi)
    PROVE  /\ Lists(cell2, lo, hi2)'
           /\ root' = IF lo[c] = hi[c] THEN [root EXCEPT ![c] = n] ELSE root
           /\ tail' \in [Channels -> Nodes \cup {None}]
           /\ next' \in [Nodes -> Nodes \cup {None}]
           /\ PostsChannel(c, n) <=> lo[c] = hi[c]
  <1> USE NodesAssumption
  <1>a. cell2 = [cell EXCEPT ![c][hi[c]] = n] /\ hi2 = [hi EXCEPT ![c] = hi[c] + 1]
    BY DEF CellFor, Up
  <1>0. /\ TypeOK /\ Lists(cell, lo, hi) /\ parent' = parent /\ parent[n] = c /\ PostNode(c, n)
        /\ n \in Nodes /\ c \in Channels
        /\ \A d \in Channels : \A i \in Cells(lo, hi, d) : cell[d][i] # n
    OBVIOUS
  <1>1. /\ lo \in [Channels -> Nat] /\ hi \in [Channels -> Nat] /\ cell \in [Channels -> [Nat -> Nodes]]
        /\ \A d \in Channels : ListOf(d, cell, lo, hi)
        /\ \A d \in Channels : lo[d] \in Nat /\ hi[d] \in Nat /\ lo[d] <= hi[d]
    BY DEF Lists, ListOf
  <1>2. n # root[c] /\ (tail[c] = None <=> lo[c] = hi[c])
        /\ (lo[c] # hi[c] => tail[c] = cell[c][hi[c] - 1] /\ hi[c] - 1 \in Cells(lo, hi, c))
    BY <1>1 DEF ListOf, Nodes, Cells
  <1>3. /\ next' = [m \in Nodes |-> IF m = n THEN None ELSE IF m = tail[c] THEN n ELSE next[m]]
        /\ root' = IF tail[c] = None THEN [root EXCEPT ![c] = n] ELSE root
        /\ tail' = [tail EXCEPT ![c] = n]
    BY <1>2 DEF PostNode
  <1>4. /\ cell2 \in [Channels -> [Nat -> Nodes]] /\ hi2 \in [Channels -> Nat]
        /\ cell2[c][hi[c]] = n /\ hi2[c] = hi[c] + 1
        /\ \A d \in Channels : d # c => hi2[d] = hi[d] /\ cell2[d] = cell[d]
        /\ \A i \in Nat : i # hi[c] => cell2[c][i] = cell[c][i]
    BY <1>1, <1>a
  <1>5. /\ \A d \in Channels : \A i \in Cells(lo, hi2, d) :
              \/ d = c /\ i = hi[c] /\ cell2[d][i] = n
              \/ i \in Cells(lo, hi, d) /\ cell2[d][i] = cell[d][i]
        /\ \A d \in Channels : \A i \in Cells(lo, hi, d) : cell2[d][i] = cell[d][i]
    <2>1. hi[c] \in Nat /\ hi2[c] = hi[c] + 1 /\ cell2[c][hi[c]] = n
      BY ONLY <1>1, <1>4, c \in Channels
    <2>2. \A i \in Cells(lo, hi2, c) :
             \/ i = hi[c]
             \/ i \in Cells(lo, hi, c) /\ cell2[c][i] = cell[c][i]
      <3> TAKE i \in Cells(lo, hi2, c)
      <3>1. i \in Nat /\ lo[c] <= i /\ i <= hi[c]
        BY ONLY <1>1, <2>1, c \in Channels, i \in Cells(lo, hi2, c) DEF Cells
      <3>2. CASE i # hi[c]
        <4>1. i \in Cells(lo, hi, c)
          <5>1. lo[c] \in Nat /\ hi[c] \in Nat
            BY <1>1
          <5> QED BY ONLY <3>1, <3>2, <5>1 DEF Cells
        <4>2. cell2[c][i] = cell[c][i]
          BY ONLY <1>4, <3>1, <3>2
        <4> QED BY ONLY <4>1, <4>2
      <3>3. CASE i = hi[c]
        BY ONLY <3>3
      <3> QED BY ONLY <3>2, <3>3
    <2>3. \A i \in Cells(lo, hi, c) : cell2[c][i] = cell[c][i]
      BY ONLY <1>1, <1>4, <2>1, c \in Channels DEF Cells
    <2>4. \A d \in Channels : d # c => Cells(lo, hi2, d) = Cells(lo, hi, d) /\ cell2[d] = cell[d]
      BY ONLY <1>4 DEF Cells
    <2> QED BY ONLY <2>1, <2>2, <2>3, <2>4
  <1>6. \A d, e \in Channels : \A i \in Cells(lo, hi2, d), j \in Cells(lo, hi2, e) :
          cell2[d][i] = cell2[e][j] => d = e /\ i = j
    <2> TAKE d, e \in Channels
    <2> TAKE i \in Cells(lo, hi2, d), j \in Cells(lo, hi2, e)
    <2> HAVE cell2[d][i] = cell2[e][j]
    <2>1. \/ d = c /\ i = hi[c] /\ cell2[d][i] = n
          \/ i \in Cells(lo, hi, d) /\ cell2[d][i] = cell[d][i] /\ cell[d][i] # n
      BY ONLY <1>0, <1>5, d \in Channels, i \in Cells(lo, hi2, d)
    <2>2. \/ e = c /\ j = hi[c] /\ cell2[e][j] = n
          \/ j \in Cells(lo, hi, e) /\ cell2[e][j] = cell[e][j] /\ cell[e][j] # n
      BY ONLY <1>0, <1>5, e \in Channels, j \in Cells(lo, hi2, e)
    <2>3. ASSUME i \in Cells(lo, hi, d), j \in Cells(lo, hi, e), cell[d][i] = cell[e][j]
          PROVE  d = e /\ i = j
      BY ONLY <1>0, <2>3, d \in Channels, e \in Channels DEF Lists
    <2> QED BY ONLY <2>1, <2>2, <2>3, cell2[d][i] = cell2[e][j]
  <1>7. ASSUME NEW d \in Channels
        PROVE  ListOf(d, cell2, lo, hi2)'
    <2>1. lo[d] \in Nat /\ hi2[d] \in Nat /\ lo[d] <= hi2[d]
      BY <1>1, <1>4
    <2>2. root'[d] = IF lo[d] = hi2[d] THEN None ELSE cell2[d][lo[d]]
      BY <1>1, <1>2, <1>3, <1>4 DEF ListOf, TypeOK
    <2>3. tail'[d] = IF lo[d] = hi2[d] THEN None ELSE cell2[d][hi2[d] - 1]
      BY <1>1, <1>2, <1>3, <1>4 DEF ListOf, TypeOK
    <2>4. ASSUME NEW i \in Cells(lo, hi2, d)
          PROVE  /\ cell2[d][i] \in Nodes
                 /\ next'[cell2[d][i]] = IF i = hi2[d] - 1 THEN None ELSE cell2[d][i + 1]
                 /\ cell2[d][i] \in Channels => parent[cell2[d][i]] = d
      <3>1. CASE d = c /\ i = hi[c]
        <4>1. cell2[d][i] = n /\ hi2[d] - 1 = i
          BY ONLY <1>1, <1>4, <3>1, c \in Channels
        <4>2. next'[n] = None
          BY <1>3
        <4>3. n \in Nodes /\ parent[n] = d
          BY <1>0, <3>1
        <4> QED BY ONLY <4>1, <4>2, <4>3
      <3>2. CASE i \in Cells(lo, hi, d) /\ ~(d = c /\ i = hi[c])
        <4>1. /\ cell2[d][i] = cell[d][i] /\ cell[d][i] \in Nodes /\ cell[d][i] # n
              /\ next[cell[d][i]] = IF i = hi[d] - 1 THEN None ELSE cell[d][i + 1]
              /\ cell[d][i] \in Channels => parent[cell[d][i]] = d
              /\ i \in Nat /\ i <= hi[d] - 1
          BY <1>1, <1>5, <3>2 DEF ListOf, Cells
        <4>2. CASE cell[d][i] = tail[c]
          <5>1. tail[c] # None
            BY <4>1, <4>2 DEF Nodes
          <5>2. d = c /\ i = hi[c] - 1
            BY <1>1, <1>2, <3>2, <4>2, <5>1 DEF Lists
          <5>3. next'[cell[d][i]] = n
            BY <1>3, <4>1, <4>2
          <5>4. i # hi2[d] - 1 /\ i + 1 = hi[c] /\ cell2[d][i + 1] = n
            <6>1. hi[c] \in Nat /\ hi2[c] = hi[c] + 1 /\ cell2[c][hi[c]] = n
              BY <1>1, <1>4
            <6> QED BY ONLY <5>2, <6>1
          <5> QED BY <4>1, <5>3, <5>4
        <4>3. CASE cell[d][i] # tail[c]
          <5>1. next'[cell[d][i]] = next[cell[d][i]]
            BY <1>3, <4>1, <4>3
          <5>2. d = c => i # hi[c] - 1
            BY <1>2, <1>1, <4>1, <4>3, <3>2 DEF Cells
          <5>3. (i = hi2[d] - 1 <=> i = hi[d] - 1) \/ d = c
            BY <1>4
          <5>4. i # hi[d] - 1 => cell2[d][i + 1] = cell[d][i + 1]
            <6>1. i \in Nat /\ i <= hi[d] - 1 /\ hi[d] \in Nat
              BY <1>1, <4>1
            <6> QED BY ONLY <1>4, <6>1, d \in Channels
          <5>5. d = c => i # hi2[d] - 1
            BY ONLY <1>1, <1>4, <4>1, c \in Channels
          <5>6. cell2[d][i] = cell[d][i] /\ cell[d][i] \in Nodes
            BY <4>1
          <5>7. next'[cell[d][i]] = IF i = hi2[d] - 1 THEN None ELSE cell2[d][i + 1]
            BY ONLY <4>1, <5>1, <5>2, <5>3, <5>4, <5>5
          <5> QED BY <4>1, <5>6, <5>7
        <4> QED BY <4>2, <4>3
      <3> QED BY <1>5, <3>1, <3>2
    <2> QED BY <2>1, <2>2, <2>3, <2>4 DEF ListOf, Cells
  <1>8. Lists(cell2, lo, hi2)'
    BY <1>1, <1>4, <1>6, <1>7 DEF Lists, Cells
  <1>9. /\ root' = IF lo[c] = hi[c] THEN [root EXCEPT ![c] = n] ELSE root
        /\ tail' \in [Channels -> Nodes \cup {None}]
        /\ next' \in [Nodes -> Nodes \cup {None}]
        /\ PostsChannel(c, n) <=> lo[c] = hi[c]
    BY <1>1, <1>2, <1>3 DEF PostsChannel, TypeOK
  <1> QED BY ONLY <1>8, <1>9

\* The node goes to the end of its channel's list; an empty channel to the poster.
LEMMA ChannelStep ==
    ASSUME IInv, NEW t \in Threads, PostToChannel(t), ~overtaken'
    PROVE  IInv'
  <1> USE NodesAssumption
  <1>0. PICK n, c : n = post[t] /\ c = parent[n]
    OBVIOUS
  <1> USE <1>0
  <1>1. PICK cell, lo, hi, kind, who : Ghost(cell, lo, hi, kind, who)
    BY DEF IInv
  <1>2. /\ pc[t] = "post" /\ c # None /\ ~overtaken /\ \A d \in Channels : root[d] # n
        /\ PostNode(c, n)
        /\ IF PostsChannel(c, n) THEN post' = [post EXCEPT ![t] = c] /\ UNCHANGED pc ELSE DonePosting(t)
        /\ UNCHANGED <<parent, path, more, held, waiting, arrived, bad, owner, tasks>>
        /\ pc \in [Threads -> Labels] /\ post \in [Threads -> Nodes \cup {None}]
    BY DEF IInv, Plain, TypeOK, PostToChannel, objectVars, Labels
  <1>3. /\ n \in Nodes /\ n # None
        /\ t \in Workers => path[t] = <<>>
        /\ \A d \in Channels : \A i \in Cells(lo, hi, d) : cell[d][i] # n
    BY <1>1, <1>2, PostedUnlisted, PostedNode DEF IInv, Plain
  <1>4. c \in Channels /\ c \in Nodes
    BY <1>2, <1>3 DEF IInv, Plain, TypeOK, Nodes
  <1>5. /\ TypeOK /\ Lists(cell, lo, hi) /\ UNCHANGED parent /\ parent[n] = c /\ PostNode(c, n)
        /\ \A d \in Channels : \A i \in Cells(lo, hi, d) : cell[d][i] # n
    BY <1>1, <1>2, <1>3 DEF IInv, Plain, Ghost
  <1>a. PICK cell2, hi2 : cell2 = CellFor(n, c, cell, hi) /\ hi2 = Up(c, hi)
    OBVIOUS
  <1>b. /\ Lists(cell2, lo, hi2)'
        /\ root' = IF lo[c] = hi[c] THEN [root EXCEPT ![c] = n] ELSE root
        /\ tail' \in [Channels -> Nodes \cup {None}]
        /\ next' \in [Nodes -> Nodes \cup {None}]
        /\ PostsChannel(c, n) <=> lo[c] = hi[c]
    BY ONLY <1>3, <1>4, <1>5, <1>a, JoinLists
  <1>6. /\ cell2 = [cell EXCEPT ![c][hi[c]] = n] /\ hi2 = [hi EXCEPT ![c] = hi[c] + 1]
        /\ Lists(cell2, lo, hi2)'
        /\ root' = IF lo[c] = hi[c] THEN [root EXCEPT ![c] = n] ELSE root
        /\ tail' \in [Channels -> Nodes \cup {None}]
        /\ next' \in [Nodes -> Nodes \cup {None}]
        /\ PostsChannel(c, n) <=> lo[c] = hi[c]
    BY <1>a, <1>b DEF CellFor, Up
  <1>7. kind[n] = "post" /\ who[n] = t
    BY <1>1, <1>2, <1>3 DEF Ghost, Claims
  <1>8. IF lo[c] = hi[c]
        THEN post' = [post EXCEPT ![t] = c] /\ pc' = pc
        ELSE post' = [post EXCEPT ![t] = None] /\ pc' = [pc EXCEPT ![t] = "idle"]
    BY <1>2, <1>3, <1>6 DEF DonePosting, Goto
  <1>9. root' \in [Channels -> Nodes \cup {None}] /\ root \in [Channels -> Nodes \cup {None}]
    BY <1>3, <1>6 DEF IInv, Plain, TypeOK
  <1>10. TypeOK'
    <2>1. pc' \in [Threads -> Labels] /\ post' \in [Threads -> Nodes \cup {None}]
      BY <1>2, <1>4, <1>8 DEF Labels
    <2>2. overtaken' \in BOOLEAN
      BY DEF PostToChannel, IInv, Plain, TypeOK
    <2> QED BY <1>2, <1>6, <1>9, <2>1, <2>2 DEF IInv, Plain, TypeOK, Labels
  <1>11. lo[c] = hi[c] => root[c] = None
    BY <1>1, <1>4 DEF Ghost, Lists, ListOf
  <1>12. \A v \in Workers : v # t => pc'[v] = pc[v]
    BY <1>2, <1>8 DEF Threads
  <1>13. \A v \in Workers : \A i \in 1 .. Len(path[v]) - 1 :
           path[v][i] \in Channels /\ root'[path[v][i]] = path[v][i + 1]
    <2> TAKE v \in Workers
    <2> TAKE i \in 1 .. Len(path[v]) - 1
    <2>1. path[v] \in Seq(Nodes) /\ path[v][i + 1] \in Nodes /\ path[v][i + 1] # None
      <3>1. path[v] \in Seq(Nodes)
        BY DEF IInv, Plain, TypeOK
      <3>2. i + 1 \in 1 .. Len(path[v])
        BY <3>1
      <3> QED BY <3>1, <3>2, SeqFacts DEF Nodes
    <2>2. path[v][i] \in Channels /\ root[path[v][i]] = path[v][i + 1]
      BY DEF IInv, Plain, Paths, PathOf
    <2> QED BY <1>6, <1>9, <1>11, <2>1, <2>2
  <1>14. Paths'
    <2>1. ASSUME NEW v \in Workers, v = t
          PROVE  PathOf(v)'
      BY <1>2, <1>3, <1>8, <2>1 DEF PathOf, Threads, Labels
    <2>2. ASSUME NEW v \in Workers, v # t
          PROVE  PathOf(v)'
      BY <1>2, <1>12, <1>13, <2>2 DEF IInv, Plain, Paths, PathOf
    <2> QED BY <2>1, <2>2 DEF Paths
  <1>15. Apart' /\ Tasks' /\ Counts'
    BY <1>2 DEF IInv, Plain, Apart, Tasks, Counts
  <1>16. Posts'
    BY <1>2, <1>3, <1>4, <1>8, ThreadsAssumption DEF IInv, Plain, Posts, Threads, Labels, Nodes
  <1>17. \A w \in Workers : (LettingGo(w)' <=> LettingGo(w)) /\ Serving(w)' = Serving(w)
    BY <1>2, <1>3, <1>12 DEF LettingGo, Serving
  <1>18. PICK k2, w2 :
           /\ k2 = [m \in Nodes |-> IF m = n THEN "line"
                                    ELSE IF m = c /\ lo[c] = hi[c] THEN "post" ELSE kind[m]]
           /\ w2 = [m \in Nodes |-> IF m = n THEN c
                                    ELSE IF m = c /\ lo[c] = hi[c] THEN t ELSE who[m]]
    OBVIOUS
  <1>19. lo[c] = hi[c] => kind[c] = "none"
    BY <1>1, <1>4 DEF Ghost, Claims, Lists
  <1>20. n # c \/ lo[c] # hi[c]
    BY <1>7, <1>19
  <1>21. \A m \in Nodes : kind[m] # "none" /\ m # n => k2[m] = kind[m] /\ w2[m] = who[m]
    BY <1>18, <1>19
  <1>22. Claims(cell2, lo, hi2, k2, w2)'
    <2> USE <1>1, <1>2, <1>3, <1>4, <1>7 DEF Ghost, Claims
    <2>1. /\ k2 \in [Nodes -> Kinds] /\ w2 \in [Nodes -> Nodes \cup Threads]
      BY <1>18 DEF Kinds
    <2>2. \A u \in Threads : post'[u] # None => k2[post'[u]] = "post" /\ w2[post'[u]] = u
      <3> TAKE u \in Threads
      <3> HAVE post'[u] # None
      <3>1. CASE u = t
        BY <1>8, <1>18, <1>20, <3>1
      <3>2. CASE u # t
        <4>1. post'[u] = post[u] /\ post[u] \in Nodes
          BY <1>8, <3>2
        <4> QED BY <1>21, <3>2, <4>1
      <3> QED BY <3>1, <3>2
    <2>3. \A i \in 1 .. Len(tasks) : k2[tasks[i]] = "task"
      <3> TAKE i \in 1 .. Len(tasks)
      <3>1. tasks[i] \in Nodes
        BY SeqFacts DEF IInv, Plain, TypeOK
      <3>2. kind[tasks[i]] = "task"
        OBVIOUS
      <3> QED BY <1>21, <3>1, <3>2
    <2>4. \A w \in Workers : path[w] # <<>> /\ (Len(path[w]) > 1 \/ ~LettingGo(w)) =>
             k2[path[w][1]] = "head" /\ w2[path[w][1]] = w
      <3> TAKE w \in Workers
      <3> HAVE path[w] # <<>> /\ (Len(path[w]) > 1 \/ ~LettingGo(w))
      <3>1. kind[path[w][1]] = "head" /\ who[path[w][1]] = w
        OBVIOUS
      <3>2. path[w][1] \in Nodes
        BY DEF IInv, Plain, TypeOK
      <3> QED BY <1>21, <3>1, <3>2
    <2>5. \A d \in Channels : \A i \in Cells(lo, hi2, d) :
            \/ k2[cell2[d][i]] = "line" /\ w2[cell2[d][i]] = d
            \/ i = lo[d] /\ \E w \in Workers : Len(path[w]) > 1 /\ Serving(w) = d /\ LettingGo(w)
      <3> TAKE d \in Channels
      <3> TAKE i \in Cells(lo, hi2, d)
      <3>0. lo \in [Channels -> Nat] /\ hi \in [Channels -> Nat] /\ cell \in [Channels -> [Nat -> Nodes]]
        BY DEF Lists
      <3>1. CASE d = c /\ i = hi[c]
        <4>1. cell2[d][i] = n
          BY ONLY <1>6, <3>0, <3>1
        <4> QED BY ONLY <1>3, <1>18, <3>1, <4>1
      <3>2. CASE i \in Cells(lo, hi, d) /\ ~(d = c /\ i = hi[c])
        <4>1. cell2[d][i] = cell[d][i] /\ cell[d][i] \in Nodes /\ cell[d][i] # n
          BY <1>6, <3>0, <3>2 DEF Cells
        <4> QED BY <1>21, <3>2, <4>1
      <3>3. (d = c /\ i = hi[c]) \/ i \in Cells(lo, hi, d)
        BY <1>6, <3>0 DEF Cells
      <3> QED BY <3>1, <3>2, <3>3
    <2>6. \A o \in Objects : k2[o] # "none" => held'[o]
      BY <1>18 DEF Nodes
    <2>7. \A d \in Channels : k2[d] # "none" => lo[d] < hi2[d]
      <3> TAKE d \in Channels
      <3> HAVE k2[d] # "none"
      <3>1. /\ lo[d] \in Nat /\ hi[d] \in Nat /\ lo[d] <= hi[d] /\ d \in Nodes
            /\ hi2[d] = IF d = c THEN hi[d] + 1 ELSE hi[d]
        BY <1>6 DEF Lists, ListOf, Nodes
      <3>2. CASE d = c
        BY <3>1, <3>2
      <3>3. CASE d # c
        BY <1>18, <3>1, <3>3
      <3> QED BY <3>2, <3>3
    <2> QED BY <1>17, <2>1, <2>2, <2>3, <2>4, <2>5, <2>6, <2>7 DEF Cells, Kinds
  <1> QED BY <1>6, <1>10, <1>14, <1>15, <1>16, <1>22 DEF IInv, Plain, Ghost

-----------------------------------------------------------------------------
\* A queued node becomes the head of the worker's path.
LEMMA TakeStep ==
    ASSUME IInv, NEW w \in Workers, Take(w)
    PROVE  IInv'
  <1> USE NodesAssumption
  <1>0. PICK n : n = tasks[1]
    OBVIOUS
  <1>1. PICK cell, lo, hi, kind, who : Ghost(cell, lo, hi, kind, who)
    BY DEF IInv
  <1>2. /\ tasks \in Seq(Nodes) /\ n = Head(tasks) /\ n \in Nodes
        /\ tasks' \in Seq(Nodes) /\ Len(tasks) \in Nat \ {0} /\ Len(tasks') = Len(tasks) - 1
        /\ \A i \in 1 .. Len(tasks) - 1 : tasks'[i] = tasks[i + 1]
    <2>1. tasks \in Seq(Nodes) /\ tasks # <<>> /\ tasks' = Tail(tasks)
      BY DEF IInv, Plain, TypeOK, Take
    <2> QED BY <1>0, <2>1, TailFacts
  <1>3. /\ pc[w] = "idle" /\ path[w] = <<>> /\ w \in Threads
        /\ pc' = [pc EXCEPT ![w] = IF n \in Channels THEN "front" ELSE "handle"]
        /\ path' = [path EXCEPT ![w] = <<n>>]
        /\ owner' = IF n \in Objects THEN [owner EXCEPT ![n] = w] ELSE owner
        /\ UNCHANGED <<parent, next, root, tail, waiting, held, bad, arrived, post, more, overtaken>>
        /\ pc \in [Threads -> Labels] /\ path \in [Workers -> Seq(Nodes)]
    <2>1. pc[w] = "idle" /\ path[w] = <<>> /\ w \in Threads
      BY DEF IInv, Plain, Paths, PathOf, Take, Threads
    <2>2. pc \in [Threads -> Labels] /\ path \in [Workers -> Seq(Nodes)]
      BY DEF IInv, Plain, TypeOK, Labels
    <2>3. Append(path[w], n) = <<n>>
      BY <1>2, <2>1
    <2> QED BY <1>2, <2>1, <2>2, <2>3 DEF Take, Enter, Goto, listVars, objectVars
  <1>4. <<n>> \in Seq(Nodes) /\ Len(<<n>>) = 1 /\ <<n>>[1] = n /\ <<n>> # <<>> /\ Last(<<n>>) = n
    BY <1>2 DEF Last
  <1>5. path' \in [Workers -> Seq(Nodes)] /\ pc' \in [Threads -> Labels]
    BY <1>3, <1>4 DEF Labels
  <1>6. TypeOK'
    BY <1>2, <1>3, <1>5 DEF IInv, Plain, TypeOK, Labels
  <1>7. /\ path'[w] = <<n>> /\ ((pc'[w] = "front" /\ n \in Channels) \/ (pc'[w] = "handle" /\ n \in Objects))
        /\ \A v \in Workers : v # w => path'[v] = path[v] /\ pc'[v] = pc[v]
    BY <1>2, <1>3 DEF Nodes, Threads
  <1>8. kind[n] = "task" /\ 1 \in 1 .. Len(tasks)
    BY <1>0, <1>1, <1>2 DEF Ghost, Claims
  <1>9. n \in Channels => parent[n] = None /\ \A v \in Workers : path[v] # <<>> => path[v][1] # n
    BY <1>0, <1>8 DEF IInv, Plain, Tasks
  <1>10. ASSUME n \in Channels, NEW v \in Workers, NEW j \in 1 .. Len(path[v]), path[v][j] = n
         PROVE  FALSE
    <2>1. path[v] \in Seq(Nodes) /\ Len(path[v]) \in Nat /\ path[v] # <<>>
      BY <1>3, <1>10
    <2>2. j > 1
      BY <1>9, <1>10, <2>1
    <2>3. path[v][j - 1] \in Channels /\ root[path[v][j - 1]] = n
      BY <1>10, <2>1, <2>2 DEF IInv, Plain, Paths, PathOf
    <2>4. PICK c \in Channels : root[c] = n
      BY <2>3
    <2>5. lo[c] \in Cells(lo, hi, c) /\ cell[c][lo[c]] = n
      BY <1>1, <1>2, <2>4 DEF Ghost, Lists, ListOf, Cells, Nodes
    <2>6. parent[n] = c
      BY <1>1, <1>10, <2>5 DEF Ghost, Lists, ListOf
    <2> QED BY <1>9, <1>10, <2>6 DEF Nodes
  <1>11. Paths'
    <2>1. PathOf(w)'
      BY <1>3, <1>4, <1>7, <1>9 DEF PathOf
    <2>2. ASSUME NEW v \in Workers, v # w
          PROVE  PathOf(v)'
      BY <1>3, <1>7, <2>2 DEF IInv, Plain, Paths, PathOf
    <2> QED BY <2>1, <2>2 DEF Paths
  <1>12. Apart'
    BY <1>4, <1>7, <1>10 DEF IInv, Plain, Apart
  <1>13. Posts'
    BY <1>3, <1>7, ThreadsAssumption DEF IInv, Plain, Posts, Threads
  <1>14. Counts'
    BY <1>3 DEF IInv, Plain, Counts
  <1>15. \A i \in 1 .. Len(tasks') : i + 1 \in 1 .. Len(tasks) /\ tasks'[i] = tasks[i + 1] /\ tasks[i + 1] # n
    <2> TAKE i \in 1 .. Len(tasks')
    <2>1. i + 1 \in 1 .. Len(tasks) /\ i + 1 # 1 /\ tasks'[i] = tasks[i + 1]
      BY <1>2
    <2>2. tasks[i + 1] # tasks[1]
      BY <1>8, <2>1 DEF IInv, Plain, Tasks
    <2> QED BY <1>0, <2>1, <2>2
  <1>16. Tasks'
    <2>1. \A i, j \in 1 .. Len(tasks') : tasks'[i] = tasks'[j] => i = j
      <3> TAKE i, j \in 1 .. Len(tasks')
      <3> HAVE tasks'[i] = tasks'[j]
      <3>1. i + 1 = j + 1
        BY <1>15 DEF IInv, Plain, Tasks
      <3> QED BY <1>2, <3>1
    <2>2. \A i \in 1 .. Len(tasks') : tasks'[i] \in Channels =>
            /\ parent[tasks'[i]] = None
            /\ \A v \in Workers : path'[v] # <<>> => path'[v][1] # tasks'[i]
      <3> TAKE i \in 1 .. Len(tasks')
      <3> HAVE tasks'[i] \in Channels
      <3>1. /\ parent[tasks'[i]] = None /\ tasks'[i] # n
            /\ \A v \in Workers : path[v] # <<>> => path[v][1] # tasks'[i]
        BY <1>15 DEF IInv, Plain, Tasks
      <3>2. ASSUME NEW v \in Workers, path'[v] # <<>>
            PROVE  path'[v][1] # tasks'[i]
        BY <1>4, <1>7, <3>1, <3>2
      <3> QED BY <3>1, <3>2
    <2> QED BY <1>3, <2>1, <2>2 DEF Tasks
  <1>17. Lists(cell, lo, hi)'
    <2>1. UNCHANGED <<parent, next, root, tail>> /\ Lists(cell, lo, hi)
      BY <1>1, <1>3 DEF Ghost
    <2> QED BY ONLY <2>1 DEF Lists, ListOf, Cells
  <1>18. PICK k2, w2 : k2 = [kind EXCEPT ![n] = "head"] /\ w2 = [who EXCEPT ![n] = w]
    OBVIOUS
  <1>19. /\ ~LettingGo(w) /\ ~LettingGo(w)' /\ path[w] = <<>>
         /\ \A v \in Workers : v # w => (LettingGo(v)' <=> LettingGo(v)) /\ Serving(v)' = Serving(v)
    BY <1>3, <1>7 DEF LettingGo, Serving
  <1>20. Claims(cell, lo, hi, k2, w2)'
    <2> USE <1>1, <1>2, <1>3, <1>7, <1>8, <1>18, <1>19 DEF Ghost, Claims
    <2>1. /\ k2 \in [Nodes -> Kinds] /\ w2 \in [Nodes -> Nodes \cup Threads]
      BY DEF Kinds
    <2>2. \A u \in Threads : post[u] # None => k2[post[u]] = "post" /\ w2[post[u]] = u
      BY DEF IInv, Plain, TypeOK
    <2>3. \A i \in 1 .. Len(tasks') : k2[tasks'[i]] = "task"
      <3> TAKE i \in 1 .. Len(tasks')
      <3>1. i + 1 \in 1 .. Len(tasks) /\ tasks'[i] = tasks[i + 1] /\ tasks'[i] # n
        BY <1>15
      <3>1a. kind[tasks[i + 1]] = "task"
        BY <3>1
      <3>2. tasks'[i] \in Nodes
        BY SeqFacts
      <3> QED BY <3>1, <3>1a, <3>2
    <2>4. \A v \in Workers : path'[v] # <<>> /\ (Len(path'[v]) > 1 \/ ~LettingGo(v)') =>
             k2[path'[v][1]] = "head" /\ w2[path'[v][1]] = v
      <3> TAKE v \in Workers
      <3> HAVE path'[v] # <<>> /\ (Len(path'[v]) > 1 \/ ~LettingGo(v)')
      <3>1. CASE v = w
        BY <1>4, <3>1
      <3>2. CASE v # w
        <4>1. kind[path[v][1]] = "head" /\ who[path[v][1]] = v
          BY <3>2
        <4>2. path[v][1] \in Nodes
          BY <3>2
        <4> QED BY <3>2, <4>1, <4>2
      <3> QED BY <3>1, <3>2
    <2>5. \A c \in Channels : \A i \in Cells(lo, hi, c) :
            \/ k2[cell[c][i]] = "line" /\ w2[cell[c][i]] = c
            \/ i = lo[c] /\ \E v \in Workers : Len(path'[v]) > 1 /\ Serving(v)' = c /\ LettingGo(v)'
      <3> TAKE c \in Channels
      <3> TAKE i \in Cells(lo, hi, c)
      <3>1. cell[c][i] \in Nodes
        BY DEF Lists, ListOf
      <3>2. CASE kind[cell[c][i]] = "line" /\ who[cell[c][i]] = c
        BY <3>1, <3>2
      <3>3. CASE i = lo[c] /\ \E v \in Workers : Len(path[v]) > 1 /\ Serving(v) = c /\ LettingGo(v)
        <4>1. PICK v \in Workers : Len(path[v]) > 1 /\ Serving(v) = c /\ LettingGo(v)
          BY <3>3
        <4>2. v # w
          BY <4>1
        <4> QED BY <3>3, <4>1, <4>2
      <3> QED BY <3>2, <3>3
    <2>6. \A o \in Objects : k2[o] # "none" => held[o]
      BY DEF Nodes
    <2>7. \A c \in Channels : k2[c] # "none" => lo[c] < hi[c]
      BY DEF Nodes
    <2> QED BY <2>1, <2>2, <2>3, <2>4, <2>5, <2>6, <2>7 DEF Cells, Kinds
  <1> QED BY <1>6, <1>11, <1>12, <1>13, <1>14, <1>16, <1>17, <1>20 DEF IInv, Plain, Ghost

\* A channel that is to be dispatched has a first node, and nobody is in it.
LEMMA FrontNode ==
    ASSUME IInv, NEW w \in Workers, pc[w] = "front"
    PROVE  /\ root[Last(path[w])] \in Nodes
           /\ root[Last(path[w])] \notin Range(path[w]) \cup {None}
           /\ \A v \in Workers : \A j \in 1 .. Len(path[v]) :
                 root[Last(path[w])] \in Channels => path[v][j] # root[Last(path[w])]
  <1> USE NodesAssumption
  <1>0. PICK n, c, k : c = Last(path[w]) /\ n = root[c] /\ k = Len(path[w])
    OBVIOUS
  <1>1. PICK cell, lo, hi, kind, who : Ghost(cell, lo, hi, kind, who)
    BY DEF IInv
  <1>1a. /\ path[w] \in Seq(Nodes) /\ path[w] # <<>> /\ c \in Channels /\ ~LettingGo(w)
         /\ path \in [Workers -> Seq(Nodes)] /\ Plain
    BY <1>0 DEF IInv, Plain, Paths, PathOf, TypeOK, LettingGo
  <1>1b. k \in Nat \ {0} /\ k \in 1 .. Len(path[w]) /\ path[w][k] = c
    <2>1. Len(path[w]) \in Nat \ {0} /\ Last(path[w]) = path[w][Len(path[w])]
      BY <1>1a, FrontLast
    <2> QED BY <1>0, <2>1
  <1>1c. lo[c] < hi[c] /\ lo[c] \in Nat /\ hi[c] \in Nat /\ ListOf(c, cell, lo, hi)
    <2>1. kind[path[w][k]] # "none"
      BY <1>1, <1>1a, <1>1b, Claimed
    <2> QED BY <1>1, <1>1a, <1>1b, <2>1 DEF Ghost, Claims, Lists
  <1>2. n \in Nodes /\ n # None /\ c \in Channels /\ path[w][k] = c /\ k \in 1 .. Len(path[w])
    BY <1>0, <1>1a, <1>1b, <1>1c DEF ListOf, Cells
  <1>3. path \in [Workers -> Seq(Nodes)]
    BY <1>1a
  <1>9. lo[c] \in Cells(lo, hi, c) /\ cell[c][lo[c]] = n
    BY <1>0, <1>1, <1>2 DEF Ghost, Lists, ListOf, Cells
  <1>10. n \in Channels => parent[n] = c
    BY <1>1, <1>2, <1>9 DEF Ghost, Lists, ListOf
  <1>11. ASSUME n \in Channels, NEW v \in Workers, NEW j \in 1 .. Len(path[v]), path[v][j] = n
         PROVE  FALSE
    <2>1. path[v] \in Seq(Nodes) /\ Len(path[v]) \in Nat /\ path[v] # <<>>
      BY <1>3, <1>11
    <2>2. CASE j = 1
      <3>1. PathOf(v) /\ path[v][1] = n /\ path[v][1] \in Channels
        BY <1>11, <2>2 DEF IInv, Plain, Paths
      <3>2. parent[n] = None
        BY <2>1, <3>1 DEF PathOf
      <3>3. None \notin Channels
        BY DEF Nodes
      <3> QED BY <1>2, <1>10, <1>11, <3>2, <3>3
    <2>3. CASE j > 1
      <3>1. path[v][j - 1] \in Channels /\ root[path[v][j - 1]] = n /\ j - 1 \in 1 .. Len(path[v])
        BY <1>11, <2>1, <2>3 DEF IInv, Plain, Paths, PathOf
      <3>2. PICK d \in Channels : d = path[v][j - 1] /\ root[d] = n
        BY <3>1
      <3>3. lo[d] \in Cells(lo, hi, d) /\ cell[d][lo[d]] = n
        <4>1. ListOf(d, cell, lo, hi)
          BY <1>1 DEF Ghost, Lists
        <4>2. lo[d] \in Nat /\ hi[d] \in Nat /\ lo[d] <= hi[d] /\ lo[d] # hi[d] /\ cell[d][lo[d]] = n
          BY ONLY <1>2, <3>2, <4>1 DEF ListOf
        <4> QED BY ONLY <4>2 DEF Cells
      <3>4. d = c
        BY <1>1, <1>2, <1>9, <3>3 DEF Ghost, Lists
      <3>5. v = w
        BY <1>2, <3>1, <3>2, <3>4 DEF IInv, Plain, Apart
      <3>6. j - 1 = k
        <4>1. PathOf(w) /\ j - 1 \in 1 .. Len(path[w]) /\ path[w][j - 1] = path[w][k]
          BY <1>2, <3>1, <3>2, <3>4, <3>5 DEF IInv, Plain, Paths
        <4> QED BY <1>2, <4>1 DEF PathOf
      <3> QED BY <1>0, <1>11, <2>1, <3>5, <3>6
    <2> QED BY <2>1, <2>2, <2>3
  <1>12. PathOf(w)
    BY DEF IInv, Plain, Paths
  <1>13. n \notin Channels => \A i \in 1 .. k : path[w][i] # n
    <2> SUFFICES ASSUME n \notin Channels, NEW i \in 1 .. k, path[w][i] = n PROVE FALSE
      OBVIOUS
    <2>1. i = k \/ i \in 1 .. Len(path[w]) - 1
      BY <1>0, <1>2
    <2> QED BY <1>2, <1>12, <2>1 DEF PathOf
  <1>14. \A i \in 1 .. k : path[w][i] # n
    BY <1>0, <1>11, <1>13
  <1>15. Range(path[w]) = {path[w][i] : i \in 1 .. Len(path[w])}
    BY <1>1a, SeqFacts
  <1> QED BY <1>0, <1>2, <1>11, <1>14, <1>15

\* A channel's first node is dispatched from its list.
LEMMA TakeFrontStep ==
    ASSUME IInv, NEW w \in Workers, TakeFront(w)
    PROVE  IInv'
  <1> USE NodesAssumption
  <1>0. PICK n, c, k : c = Last(path[w]) /\ n = root[c] /\ k = Len(path[w])
    OBVIOUS
  <1>1. PICK cell, lo, hi, kind, who : Ghost(cell, lo, hi, kind, who)
    BY DEF IInv
  <1>2. /\ path[w] \in Seq(Nodes) /\ path[w] # <<>> /\ k \in Nat \ {0} /\ k \in 1 .. Len(path[w])
        /\ path[w][k] = c /\ c \in Channels /\ pc[w] = "front" /\ n \in Nodes /\ n # None
    <2>1. path[w] \in Seq(Nodes) /\ path[w] # <<>> /\ c \in Channels /\ pc[w] = "front" /\ n # None
          /\ n \in Nodes
      BY <1>0 DEF IInv, Plain, Paths, PathOf, TypeOK, TakeFront
    <2>2. Len(path[w]) \in Nat \ {0} /\ Last(path[w]) = path[w][Len(path[w])]
      BY <2>1, FrontLast
    <2> QED BY <1>0, <2>1, <2>2
  <1>3. /\ w \in Threads
        /\ pc' = [pc EXCEPT ![w] = IF n \in Channels THEN "front" ELSE "handle"]
        /\ path' = [path EXCEPT ![w] = Append(path[w], n)]
        /\ owner' = IF n \in Objects THEN [owner EXCEPT ![n] = w] ELSE owner
        /\ UNCHANGED <<parent, next, root, tail, waiting, held, bad, arrived, tasks, post, more, overtaken>>
        /\ pc \in [Threads -> Labels] /\ path \in [Workers -> Seq(Nodes)]
    BY <1>0 DEF IInv, Plain, TypeOK, TakeFront, Enter, Goto, listVars, objectVars, Labels, Threads
  <1>4. PICK s : s = Append(path[w], n)
    OBVIOUS
  <1>5. /\ s \in Seq(Nodes) /\ Len(s) = k + 1 /\ s # <<>> /\ Last(s) = n /\ s[k + 1] = n
        /\ \A i \in 1 .. k : s[i] = path[w][i]
    BY <1>0, <1>2, <1>4, AppendFacts
  <1>6. path' \in [Workers -> Seq(Nodes)] /\ pc' \in [Threads -> Labels]
    BY <1>3, <1>4, <1>5 DEF Labels
  <1>7. TypeOK'
    BY <1>2, <1>3, <1>6 DEF IInv, Plain, TypeOK, Labels
  <1>8. /\ path'[w] = s /\ ((pc'[w] = "front" /\ n \in Channels) \/ (pc'[w] = "handle" /\ n \in Objects))
        /\ \A v \in Workers : v # w => path'[v] = path[v] /\ pc'[v] = pc[v]
    BY <1>2, <1>3, <1>4 DEF Nodes, Threads
  <1>9. lo[c] \in Cells(lo, hi, c) /\ cell[c][lo[c]] = n
    BY <1>0, <1>1, <1>2 DEF Ghost, Lists, ListOf, Cells
  <1>10. n \in Channels => parent[n] = c
    BY <1>1, <1>2, <1>9 DEF Ghost, Lists, ListOf
  <1>11. \A v \in Workers : \A j \in 1 .. Len(path[v]) : n \in Channels => path[v][j] # n
    BY <1>0, <1>2, FrontNode
  <1>12. PathOf(w)
    BY DEF IInv, Plain, Paths
  <1>14. \A i \in 1 .. k : path[w][i] # n
    <2>1. n \notin Range(path[w]) /\ Range(path[w]) = {path[w][i] : i \in 1 .. Len(path[w])}
      BY <1>0, <1>2, FrontNode, SeqFacts
    <2> QED BY <1>0, <2>1
  <1>15. PathOf(w)'
    <2>1. \A i \in 1 .. Len(s) - 1 : s[i] \in Channels /\ root[s[i]] = s[i + 1]
      <3> TAKE i \in 1 .. Len(s) - 1
      <3>1. CASE i = k
        BY <1>0, <1>2, <1>5, <3>1
      <3>2. CASE i \in 1 .. k - 1
        BY <1>0, <1>2, <1>5, <1>12, <3>2 DEF PathOf
      <3> QED BY <1>2, <1>5, <3>1, <3>2
    <2>2. \A i, j \in 1 .. Len(s) : s[i] = s[j] => i = j
      <3> TAKE i, j \in 1 .. Len(s)
      <3> HAVE s[i] = s[j]
      <3>1. CASE i \in 1 .. k /\ j \in 1 .. k
        BY <1>0, <1>5, <1>12, <3>1 DEF PathOf
      <3>2. CASE i = k + 1 \/ j = k + 1
        BY <1>2, <1>5, <1>14, <3>2
      <3> QED BY <1>2, <1>5, <3>1, <3>2
    <2>3. s[1] = path[w][1]
      BY <1>2, <1>5
    <2>4. s[1] \in Channels => parent[s[1]] = None
      BY <1>2, <1>12, <2>3 DEF PathOf
    <2>5. /\ pc'[w] \notin {"idle", "leave", "back", "crashed"} /\ (pc'[w] = "front" => n \in Channels)
          /\ (pc'[w] = "handle" => n \in Objects)
      BY <1>8
    <2>6. path'[w] = s /\ root' = root /\ parent' = parent
      BY <1>3, <1>8
    <2> QED BY <1>5, <2>1, <2>2, <2>4, <2>5, <2>6 DEF PathOf
  <1>16. Paths'
    <2>1. ASSUME NEW v \in Workers, v # w
          PROVE  PathOf(v)'
      BY <1>3, <1>8, <2>1 DEF IInv, Plain, Paths, PathOf
    <2> QED BY <1>15, <2>1 DEF Paths
  <1>17. Apart'
    <2>1. \A v \in Workers : v # w => \A i \in 1 .. Len(s), j \in 1 .. Len(path[v]) :
             s[i] = path[v][j] => s[i] \notin Channels
      <3> TAKE v \in Workers
      <3> HAVE v # w
      <3> TAKE i \in 1 .. Len(s), j \in 1 .. Len(path[v])
      <3>1. CASE i = k + 1
        BY <1>5, <1>11, <3>1
      <3>2. CASE i \in 1 .. k
        BY <1>0, <1>5, <3>2 DEF IInv, Plain, Apart
      <3> QED BY <1>2, <1>5, <3>1, <3>2
    <2> QED BY <1>8, <2>1 DEF IInv, Plain, Apart
  <1>18. Posts'
    BY <1>2, <1>3, <1>8, ThreadsAssumption DEF IInv, Plain, Posts, Threads
  <1>19. Counts'
    BY <1>3 DEF IInv, Plain, Counts
  <1>20. Tasks'
    <2>1. path'[w][1] = path[w][1]
      BY <1>2, <1>5, <1>8
    <2> QED BY <1>2, <1>3, <1>8, <2>1 DEF IInv, Plain, Tasks
  <1>21. Lists(cell, lo, hi)'
    <2>1. UNCHANGED <<parent, next, root, tail>> /\ Lists(cell, lo, hi)
      BY <1>1, <1>3 DEF Ghost
    <2> QED BY ONLY <2>1 DEF Lists, ListOf, Cells
  <1>22. /\ ~LettingGo(w) /\ ~LettingGo(w)' /\ Len(path'[w]) > 1
         /\ \A v \in Workers : v # w => (LettingGo(v)' <=> LettingGo(v)) /\ Serving(v)' = Serving(v)
    BY <1>2, <1>3, <1>5, <1>8 DEF LettingGo, Serving
  <1>23. /\ kind \in [Nodes -> {"none", "post", "task", "head", "line"}]
         /\ who \in [Nodes -> Nodes \cup Threads]
         /\ \A o \in Objects : kind[o] # "none" => held'[o]
         /\ \A d \in Channels : kind[d] # "none" => lo[d] < hi[d]
    BY <1>1, <1>3 DEF Ghost, Claims
  <1>24. /\ \A t \in Threads : post'[t] # None => kind[post'[t]] = "post" /\ who[post'[t]] = t
         /\ \A i \in 1 .. Len(tasks') : kind[tasks'[i]] = "task"
    BY <1>1, <1>3 DEF Ghost, Claims
  <1>25. \A v \in Workers : path'[v] # <<>> /\ (Len(path'[v]) > 1 \/ ~LettingGo(v)') =>
             kind[path'[v][1]] = "head" /\ who[path'[v][1]] = v
    <2> TAKE v \in Workers
    <2> HAVE path'[v] # <<>> /\ (Len(path'[v]) > 1 \/ ~LettingGo(v)')
    <2>1. CASE v = w
      <3>1. path'[w][1] = path[w][1] /\ path[w] # <<>>
        BY <1>2, <1>5, <1>8
      <3>2. kind[path[w][1]] = "head" /\ who[path[w][1]] = w
        BY <1>1, <1>22, <3>1 DEF Ghost, Claims
      <3> QED BY <2>1, <3>1, <3>2
    <2>2. CASE v # w
      <3>1. path'[v] = path[v] /\ (LettingGo(v)' <=> LettingGo(v))
        BY <1>8, <1>22, <2>2
      <3> QED BY <1>1, <3>1 DEF Ghost, Claims
    <2> QED BY <2>1, <2>2
  <1>26. \A d \in Channels : \A i \in Cells(lo, hi, d) :
            \/ kind[cell[d][i]] = "line" /\ who[cell[d][i]] = d
            \/ i = lo[d] /\ \E v \in Workers : Len(path'[v]) > 1 /\ Serving(v)' = d /\ LettingGo(v)'
    <2> TAKE d \in Channels
    <2> TAKE i \in Cells(lo, hi, d)
    <2>1. CASE kind[cell[d][i]] = "line" /\ who[cell[d][i]] = d
      BY <2>1
    <2>2. CASE i = lo[d] /\ \E v \in Workers : Len(path[v]) > 1 /\ Serving(v) = d /\ LettingGo(v)
      <3>1. PICK v \in Workers : Len(path[v]) > 1 /\ Serving(v) = d /\ LettingGo(v)
        BY <2>2
      <3>2. v # w
        BY <1>22, <3>1
      <3>3. path'[v] = path[v] /\ Serving(v)' = d /\ LettingGo(v)'
        BY <1>8, <1>22, <3>1, <3>2
      <3> QED BY <2>2, <3>1, <3>3
    <2> QED BY <1>1, <2>1, <2>2 DEF Ghost, Claims
  <1>27. Claims(cell, lo, hi, kind, who)'
    <2>1. \A d \in Channels : Cells(lo, hi, d)' = Cells(lo, hi, d)
      BY DEF Cells
    <2> QED BY <1>23, <1>24, <1>25, <1>26, <2>1 DEF Claims
  <1> QED BY <1>7, <1>16, <1>17, <1>18, <1>19, <1>20, <1>21, <1>27 DEF IInv, Plain, Ghost

\* What Handle and DoClose share: the object at the end of a worker's path is served.
LEMMA ServedStep ==
    ASSUME IInv, NEW w \in Workers, pc[w] = "handle", NEW o, o = Last(path[w]),
           NEW home \in Channels \cup {None}, NEW b \in BOOLEAN,
           parent' = [parent EXCEPT ![o] = home],
           more' = [more EXCEPT ![w] = b], pc' = [pc EXCEPT ![w] = "leave"],
           b => held'[o], \A p \in Objects \ {o} : held'[p] = held[p],
           held'[o] => held[o],
           UNCHANGED <<path, tasks, post, next, root, tail>>,
           TypeOK', Counts'
    PROVE  IInv'
  <1> USE NodesAssumption
  <1>0. PICK k : k = Len(path[w])
    OBVIOUS
  <1>1. PICK cell, lo, hi, kind, who : Ghost(cell, lo, hi, kind, who)
    BY DEF IInv
  <1>2. /\ path[w] \in Seq(Nodes) /\ path[w] # <<>> /\ k \in Nat \ {0} /\ k \in 1 .. Len(path[w])
        /\ path[w][k] = o /\ o \in Objects /\ o \in Nodes /\ o \notin Channels /\ w \in Threads
    <2>1. path[w] \in Seq(Nodes) /\ path[w] # <<>> /\ o \in Objects
      BY DEF IInv, Plain, Paths, PathOf, TypeOK
    <2>2. Len(path[w]) \in Nat \ {0} /\ Last(path[w]) = path[w][Len(path[w])]
      BY <2>1, FrontLast
    <2> QED BY <1>0, <2>1, <2>2 DEF Nodes, Threads
  <1>3. /\ pc \in [Threads -> Labels] /\ more \in [Workers -> BOOLEAN] /\ path \in [Workers -> Seq(Nodes)]
        /\ parent \in [Nodes -> Channels \cup {None}]
    BY DEF IInv, Plain, TypeOK, Labels
  <1>4. /\ pc'[w] = "leave" /\ more'[w] = b
        /\ \A v \in Workers : v # w => pc'[v] = pc[v] /\ more'[v] = more[v]
    BY <1>2, <1>3 DEF Threads
  <1>5. /\ ~LettingGo(w) /\ (LettingGo(w)' <=> ~b)
        /\ \A v \in Workers : Serving(v)' = Serving(v) /\ (v # w => (LettingGo(v)' <=> LettingGo(v)))
    BY <1>2, <1>4 DEF LettingGo, Serving
  <1>6. /\ k = 1 => kind[o] = "head" /\ who[o] = w
        /\ k > 1 => kind[o] = "line" /\ who[o] = Serving(w) /\ Serving(w) = path[w][k - 1]
    <2>1. Plain
      BY DEF IInv
    <2>2. /\ k = 1 => kind[path[w][k]] = "head" /\ who[path[w][k]] = w
          /\ k > 1 => kind[path[w][k]] = "line" /\ who[path[w][k]] = path[w][k - 1]
      BY <1>1, <1>2, <1>5, <2>1, Claimed
    <2> QED BY <1>0, <1>2, <2>2 DEF Serving
  <1>7. kind[o] \in {"head", "line"}
    BY <1>2, <1>6
  <1>8. \A u \in Threads : post[u] # o
    BY <1>1, <1>2, <1>7 DEF Ghost, Claims
  <1>9. \A v \in Workers : v # w /\ path[v] # <<>> /\ (Len(path[v]) > 1 \/ ~LettingGo(v)) => path[v][1] # o
    BY <1>1, <1>2, <1>6 DEF Ghost, Claims
  <1>10. /\ PathOf(w) /\ \A n \in Nodes : n # o => parent'[n] = parent[n]
         /\ parent'[o] = home
    BY <1>2, <1>3 DEF IInv, Plain, Paths
  <1>11. Paths'
    <2>1. PathOf(w)'
      BY <1>2, <1>4, <1>10 DEF PathOf
    <2>2. ASSUME NEW v \in Workers, v # w
          PROVE  PathOf(v)'
      <3>1. PathOf(v) /\ path[v] \in Seq(Nodes)
        BY <1>3 DEF IInv, Plain, Paths
      <3>2. path[v] # <<>> /\ path[v][1] \in Channels => parent'[path[v][1]] = None
        BY <1>2, <1>10, <3>1 DEF PathOf, Nodes
      <3> QED BY <1>4, <2>2, <3>1, <3>2 DEF PathOf
    <2> QED BY <2>1, <2>2 DEF Paths
  <1>12. Apart'
    BY DEF IInv, Plain, Apart
  <1>13. Posts'
    <2>1. \A t \in Threads : pc'[t] = "post" <=> post[t] # None
      BY <1>3, <1>2 DEF IInv, Plain, Posts, Labels
    <2>2. \A t \in Io : pc'[t] \in {"idle", "post"}
      BY <1>3, ThreadsAssumption DEF IInv, Plain, Posts, Threads
    <2>3. ASSUME NEW v \in Workers, pc'[v] = "post", path[v] # <<>>
          PROVE  /\ Len(path[v]) > 1 /\ ~more'[v]
                 /\ post[v] = Last(path[v]) /\ post[v] \in Objects
      <3>1. v # w
        BY <1>4, <2>3
      <3>2. /\ Len(path[v]) > 1 /\ ~more[v]
            /\ post[v] = Last(path[v]) /\ post[v] \in Objects
        BY <1>4, <2>3, <3>1 DEF IInv, Plain, Posts
      <3> QED BY <1>4, <3>1, <3>2
    <2> QED BY <2>1, <2>2, <2>3 DEF Posts
  <1>14. Tasks'
    <2>1. \A i \in 1 .. Len(tasks) : tasks[i] \in Channels => parent'[tasks[i]] = parent[tasks[i]]
      BY <1>2, <1>10 DEF Nodes
    <2> QED BY <2>1 DEF IInv, Plain, Tasks
  <1>16. Lists(cell, lo, hi)'
    <2>1. ASSUME NEW c \in Channels
          PROVE  ListOf(c, cell, lo, hi)'
      <3>1. ListOf(c, cell, lo, hi)
        BY <1>1 DEF Ghost, Lists
      <3>2. ASSUME NEW i \in Cells(lo, hi, c)
            PROVE  cell[c][i] \in Channels => parent'[cell[c][i]] = c
        BY <1>2, <1>10, <3>1 DEF ListOf
      <3> QED BY <3>1, <3>2 DEF ListOf, Cells
    <2> QED BY <1>1, <2>1 DEF Ghost, Lists, Cells
  <1>17. PICK k2 : k2 = [kind EXCEPT ![o] = IF held'[o] THEN kind[o] ELSE "none"]
    OBVIOUS
  <1>18. /\ k2 \in [Nodes -> Kinds] /\ (held'[o] => k2 = kind) /\ (~held'[o] => k2[o] = "none")
         /\ \A n \in Nodes : n # o => k2[n] = kind[n]
    BY <1>1, <1>2, <1>17 DEF Ghost, Claims, Kinds
  <1>19. Claims(cell, lo, hi, k2, who)'
    <2> USE <1>1 DEF Ghost, Claims
    <2>1. \A u \in Threads : post[u] # None => k2[post[u]] = "post" /\ who[post[u]] = u
      BY <1>8, <1>18 DEF IInv, Plain, TypeOK
    <2>2. \A i \in 1 .. Len(tasks) : k2[tasks[i]] = "task"
      <3> TAKE i \in 1 .. Len(tasks)
      <3>1. kind[tasks[i]] = "task" /\ tasks[i] \in Nodes
        BY SeqFacts DEF IInv, Plain, TypeOK
      <3> QED BY <1>7, <1>18, <3>1
    <2>3. \A v \in Workers : path[v] # <<>> /\ (Len(path[v]) > 1 \/ ~LettingGo(v)') =>
             k2[path[v][1]] = "head" /\ who[path[v][1]] = v
      <3> TAKE v \in Workers
      <3> HAVE path[v] # <<>> /\ (Len(path[v]) > 1 \/ ~LettingGo(v)')
      <3>0. path[v] \in Seq(Nodes) /\ path[v][1] \in Nodes
        BY <1>3
      <3>1. CASE v # w
        <4>1. kind[path[v][1]] = "head" /\ who[path[v][1]] = v /\ path[v][1] # o
          BY <1>5, <1>9, <3>1
        <4> QED BY <1>18, <3>0, <4>1
      <3>2. CASE v = w /\ k = 1
        <4>1. b
          BY <1>0, <1>2, <1>5, <3>2
        <4> QED BY <1>2, <1>6, <1>18, <3>2, <4>1
      <3>3. CASE v = w /\ k > 1
        <4>1. kind[path[v][1]] = "head" /\ who[path[v][1]] = v
          BY <1>0, <3>3
        <4> QED BY <1>6, <1>18, <3>0, <3>3, <4>1
      <3> QED BY <1>2, <3>1, <3>2, <3>3
    <2>4. \A c \in Channels : \A i \in Cells(lo, hi, c) :
            \/ k2[cell[c][i]] = "line" /\ who[cell[c][i]] = c
            \/ i = lo[c] /\ \E v \in Workers : Len(path[v]) > 1 /\ Serving(v)' = c /\ LettingGo(v)'
      <3> TAKE c \in Channels
      <3> TAKE i \in Cells(lo, hi, c)
      <3>1. CASE i = lo[c] /\ \E v \in Workers : Len(path[v]) > 1 /\ Serving(v) = c /\ LettingGo(v)
        <4>1. PICK v \in Workers : Len(path[v]) > 1 /\ Serving(v) = c /\ LettingGo(v)
          BY <3>1
        <4> QED BY <1>5, <3>1, <4>1
      <3>2. CASE kind[cell[c][i]] = "line" /\ who[cell[c][i]] = c /\ cell[c][i] # o
        BY <1>18, <3>2 DEF Lists, ListOf
      <3>3. CASE kind[o] = "line" /\ who[o] = c /\ cell[c][i] = o
        <4>1. k > 1 /\ Serving(w) = c /\ c = path[w][k - 1]
          BY <1>2, <1>6, <3>3
        <4>2. root[c] = o
          BY <1>0, <1>2, <1>10, <4>1 DEF PathOf
        <4>3. lo[c] \in Cells(lo, hi, c) /\ cell[c][lo[c]] = o
          BY <1>2, <4>2 DEF Lists, ListOf, Cells
        <4>4. i = lo[c]
          BY <3>3, <4>3 DEF Lists
        <4>5. CASE b
          BY <1>18, <3>3, <4>5
        <4>6. CASE ~b
          <5>1. Len(path[w]) > 1 /\ Serving(w)' = c /\ LettingGo(w)'
            BY <1>0, <1>5, <4>1, <4>6
          <5> QED BY <4>4, <5>1
        <4> QED BY <4>5, <4>6
      <3> QED BY <3>1, <3>2, <3>3
    <2>5. \A p \in Objects : k2[p] # "none" => held'[p]
      BY <1>2, <1>18 DEF Nodes
    <2>6. \A c \in Channels : k2[c] # "none" => lo[c] < hi[c]
      BY <1>2, <1>18 DEF Nodes
    <2> QED BY <1>18, <2>1, <2>2, <2>3, <2>4, <2>5, <2>6 DEF Cells, Kinds
  <1> QED BY <1>11, <1>12, <1>13, <1>14, <1>16, <1>19 DEF IInv, Plain, Ghost

\* A handler runs: the token stays while there are messages.
LEMMA HandleStep ==
    ASSUME IInv, NEW w \in Workers, NEW home \in Channels \cup {None}, Handle(w, home)
    PROVE  IInv'
  <1> USE NodesAssumption
  <1>0. PICK o : o = Last(path[w])
    OBVIOUS
  <1>1. o \in Objects /\ o \in Nodes /\ w \in Threads /\ pc[w] = "handle" /\ ~bad[o]
    BY <1>0 DEF IInv, Plain, Paths, PathOf, Handle, Nodes, Threads
  <1>2. PICK left, b : left = (IF waiting[o] = 0 THEN 0 ELSE waiting[o] - 1) /\ b = (left > 0)
    OBVIOUS
  <1>3. /\ parent' = [parent EXCEPT ![o] = home]
        /\ waiting' = [waiting EXCEPT ![o] = left]
        /\ held' = [held EXCEPT ![o] = (waiting'[o] > 0)]
        /\ more' = [more EXCEPT ![w] = (waiting'[o] > 0)]
        /\ pc' = [pc EXCEPT ![w] = "leave"]
        /\ UNCHANGED <<owner, bad, arrived, tasks, post, path, next, root, tail, overtaken>>
    BY <1>0, <1>2 DEF Handle, Goto, listVars
  <1>4. /\ waiting \in [Objects -> 0 .. MaxMessages] /\ held \in [Objects -> BOOLEAN]
        /\ bad \in [Objects -> BOOLEAN] /\ arrived \in [Objects -> 0 .. MaxMessages]
        /\ more \in [Workers -> BOOLEAN] /\ parent \in [Nodes -> Channels \cup {None}]
        /\ pc \in [Threads -> Labels]
    BY DEF IInv, Plain, TypeOK, Labels
  <1>5. held[o]
    <2>1. PICK cell, lo, hi, kind, who : Ghost(cell, lo, hi, kind, who)
      BY DEF IInv
    <2>2. path[w] \in Seq(Nodes) /\ path[w] # <<>>
      BY <1>1 DEF IInv, Plain, Paths, PathOf, TypeOK
    <2>3. Len(path[w]) \in Nat \ {0} /\ o = path[w][Len(path[w])]
      BY <1>0, <2>2, FrontLast
    <2>4. Plain /\ ~LettingGo(w) /\ Len(path[w]) \in 1 .. Len(path[w])
      BY <1>1, <2>3 DEF IInv, LettingGo
    <2>5. kind[path[w][Len(path[w])]] # "none"
      BY <2>1, <2>4, Claimed
    <2> QED BY <1>1, <2>1, <2>3, <2>5 DEF Ghost, Claims
  <1>6. waiting[o] > 0 /\ waiting[o] <= arrived[o]
    BY <1>1, <1>5 DEF IInv, Plain, Counts
  <1>7. left \in 0 .. MaxMessages /\ waiting'[o] = left /\ left <= arrived[o] /\ b \in BOOLEAN
        /\ b = (waiting'[o] > 0)
    BY <1>1, <1>2, <1>3, <1>4, <1>6, BoundAssumption
  <1>8. /\ held' = [held EXCEPT ![o] = b] /\ more' = [more EXCEPT ![w] = b]
    BY <1>3, <1>7
  <1>9. TypeOK'
    <2>1. /\ waiting' \in [Objects -> 0 .. MaxMessages] /\ held' \in [Objects -> BOOLEAN]
          /\ more' \in [Workers -> BOOLEAN] /\ parent' \in [Nodes -> Channels \cup {None}]
          /\ pc' \in [Threads -> Labels]
      BY <1>1, <1>3, <1>4, <1>7, <1>8 DEF Labels
    <2> QED BY <1>3, <2>1 DEF IInv, Plain, TypeOK, Labels
  <1>10. Counts'
    <2>1. ASSUME NEW p \in Objects
          PROVE  waiting'[p] <= arrived[p] /\ (held'[p] /\ ~bad[p] => waiting'[p] > 0)
      <3>1. CASE p = o
        BY <1>1, <1>4, <1>7, <1>8, <3>1
      <3>2. CASE p # o
        BY <1>3, <1>4, <1>8, <3>2 DEF IInv, Plain, Counts
      <3> QED BY <3>1, <3>2
    <2> QED BY <1>3, <2>1 DEF Counts
  <1>11. /\ b => held'[o]
         /\ \A p \in Objects \ {o} : held'[p] = held[p]
         /\ held'[o] => held[o]
    BY <1>1, <1>4, <1>5, <1>8
  <1> QED BY <1>0, <1>1, <1>3, <1>7, <1>8, <1>9, <1>10, <1>11, ServedStep

\* The three things a handler may do to its object's channel
LEMMA AnyHandleStep ==
    ASSUME IInv, NEW w \in Workers,
           Stay(w) \/ Detach(w) \/ \E c \in Channels : Attach(w, c)
    PROVE  IInv'
  <1>1. \/ Last(path[w]) \in Nodes /\ parent[Last(path[w])] \in Channels \cup {None}
        \/ pc[w] # "handle"
    BY DEF IInv, Plain, TypeOK, Paths, PathOf, Nodes
  <1>2. CASE Stay(w)
    BY <1>1, <1>2, HandleStep DEF Stay, Handle
  <1>3. CASE Detach(w)
    BY <1>3, HandleStep DEF Detach
  <1>4. ASSUME NEW c \in Channels, Attach(w, c)
        PROVE  IInv'
    BY <1>4, HandleStep DEF Attach
  <1> QED BY <1>2, <1>3, <1>4

\* A session that is closed keeps its token, and is let go.
LEMMA DoCloseStep ==
    ASSUME IInv, NEW w \in Workers, DoClose(w)
    PROVE  IInv'
  <1>0. PICK o : o = Last(path[w])
    OBVIOUS
  <1>1. /\ pc[w] = "handle" /\ o \in Nodes /\ w \in Threads
        /\ parent' = [parent EXCEPT ![o] = None]
        /\ more' = [more EXCEPT ![w] = FALSE]
        /\ pc' = [pc EXCEPT ![w] = "leave"]
        /\ UNCHANGED <<owner, tasks, post, path, next, root, tail, waiting, held, bad, arrived, overtaken>>
    BY <1>0 DEF IInv, Plain, Paths, PathOf, DoClose, Goto, listVars, objectVars, Nodes, Threads
  <1>2. TypeOK'
    BY <1>1 DEF IInv, Plain, TypeOK
  <1>3. Counts'
    BY <1>1 DEF IInv, Plain, Counts
  <1>4. None \in Channels \cup {None} /\ FALSE \in BOOLEAN
    OBVIOUS
  <1> QED BY <1>0, <1>1, <1>2, <1>3, <1>4, ServedStep

\* A worker that has served the first node of a channel
LEMMA InChannelFacts ==
    ASSUME Plain, NEW w \in Workers, InChannel(w)
    PROVE  /\ path[w] \in Seq(Nodes) /\ Len(path[w]) \in Nat /\ Len(path[w]) >= 2
           /\ pc[w] = "back" /\ w \in Threads
           /\ Served(w) = path[w][Len(path[w])] /\ Served(w) \in Nodes
           /\ Serving(w) = path[w][Len(path[w]) - 1] /\ Serving(w) \in Channels
           /\ root[Serving(w)] = Served(w)
  <1>1. path[w] \in Seq(Nodes) /\ Len(path[w]) \in Nat /\ pc[w] = "back" /\ w \in Threads
    BY DEF Plain, TypeOK, InChannel, Threads
  <1>2. Len(path[w]) >= 2 /\ path[w] # <<>>
    BY <1>1 DEF InChannel
  <1>3. Served(w) = path[w][Len(path[w])] /\ Serving(w) = path[w][Len(path[w]) - 1]
    BY DEF Served, Serving, Last
  <1>4. PathOf(w) /\ Len(path[w]) - 1 \in 1 .. Len(path[w]) - 1
    BY <1>1, <1>2 DEF Plain, Paths
  <1>5. Serving(w) \in Channels /\ root[Serving(w)] = Served(w)
    BY <1>1, <1>2, <1>3, <1>4 DEF PathOf
  <1>6. Served(w) \in Nodes
    BY <1>1, <1>2, <1>3
  <1> QED BY <1>1, <1>2, <1>3, <1>5, <1>6

\* Only one worker is in a channel.
LEMMA OneServes ==
    ASSUME Plain, NEW w \in Workers, InChannel(w), NEW v \in Workers,
           NEW j \in 1 .. Len(path[v]), path[v][j] = Serving(w)
    PROVE  v = w /\ j = Len(path[w]) - 1
  <1>1. /\ path[w] \in Seq(Nodes) /\ Len(path[w]) \in Nat /\ Len(path[w]) >= 2
        /\ Serving(w) = path[w][Len(path[w]) - 1] /\ Serving(w) \in Channels
    BY InChannelFacts
  <1>2. PICK m : m = Len(path[w]) - 1
    OBVIOUS
  <1>3. m \in 1 .. Len(path[w]) /\ path[w][m] = path[v][j] /\ path[w][m] \in Channels
    BY <1>1, <1>2
  <1>4. v = w
    BY <1>3 DEF Plain, Apart
  <1>5. j = m
    BY <1>3, <1>4 DEF Plain, Paths, PathOf
  <1> QED BY <1>2, <1>4, <1>5

\* An object that left its channel is posted by its worker, and let go by the channel.
LEMMA PostElsewhereStep ==
    ASSUME IInv, NEW w \in Workers, PostElsewhere(w)
    PROVE  IInv'
  <1> USE NodesAssumption
  <1>0. PICK n, c, k : n = Served(w) /\ c = Serving(w) /\ k = Len(path[w])
    OBVIOUS
  <1>1. PICK cell, lo, hi, kind, who : Ghost(cell, lo, hi, kind, who)
    BY DEF IInv
  <1>2. /\ path[w] \in Seq(Nodes) /\ k \in Nat /\ k >= 2
        /\ pc[w] = "back" /\ w \in Threads /\ more[w]
        /\ n = path[w][k] /\ n \in Nodes /\ c = path[w][k - 1] /\ c \in Channels /\ root[c] = n
    <2>1. Plain /\ InChannel(w) /\ more[w]
      BY DEF PostElsewhere, IInv
    <2> QED BY <1>0, <2>1, InChannelFacts
  <1>3. /\ post' = [post EXCEPT ![w] = n]
        /\ more' = [more EXCEPT ![w] = FALSE]
        /\ pc' = [pc EXCEPT ![w] = "post"]
        /\ parent[n] # c
        /\ UNCHANGED <<parent, owner, tasks, path, next, root, tail, waiting, held, bad, arrived, overtaken>>
        /\ pc \in [Threads -> Labels] /\ more \in [Workers -> BOOLEAN]
        /\ post \in [Threads -> Nodes \cup {None}] /\ path \in [Workers -> Seq(Nodes)]
    BY <1>0 DEF PostElsewhere, Goto, listVars, objectVars, IInv, Plain, TypeOK, Labels
  <1>4. lo[c] \in Cells(lo, hi, c) /\ cell[c][lo[c]] = n
    BY SMTT(30), <1>1, <1>2 DEF Ghost, Lists, ListOf, Cells, Nodes
  <1>5. n \in Objects
    BY <1>1, <1>2, <1>3, <1>4 DEF Ghost, Lists, ListOf, Nodes
  <1>6. /\ ~LettingGo(w) /\ LettingGo(w)'
        /\ \A v \in Workers : Serving(v)' = Serving(v) /\ (v # w => (LettingGo(v)' <=> LettingGo(v)))
    <2>1. path[w] # <<>>
      BY <1>0, <1>2
    <2> QED BY <1>2, <1>3, <2>1 DEF LettingGo, Serving, Threads
  <1>7. kind[n] = "line" /\ who[n] = c
    <2>1. Plain /\ k \in 1 .. Len(path[w]) /\ k > 1
      BY <1>0, <1>2 DEF IInv
    <2> QED BY <1>1, <1>2, <1>6, <2>1, Claimed
  <1>8. TypeOK'
    <2>1. /\ pc' \in [Threads -> Labels] /\ more' \in [Workers -> BOOLEAN]
          /\ post' \in [Threads -> Nodes \cup {None}]
      BY <1>2, <1>3 DEF Labels
    <2> QED BY <1>3, <2>1 DEF IInv, Plain, TypeOK, Labels
  <1>9. /\ pc'[w] = "post" /\ post'[w] = n /\ more'[w] = FALSE
        /\ \A t \in Threads : t # w => pc'[t] = pc[t] /\ post'[t] = post[t]
        /\ \A v \in Workers : v # w => more'[v] = more[v]
    BY <1>2, <1>3
  <1>10. Paths'
    <2>1. PathOf(w)'
      BY <1>2, <1>3, <1>9 DEF IInv, Plain, Paths, PathOf
    <2>2. ASSUME NEW v \in Workers, v # w
          PROVE  PathOf(v)'
      BY <1>3, <1>9, <2>2 DEF IInv, Plain, Paths, PathOf, Threads
    <2> QED BY <2>1, <2>2 DEF Paths
  <1>11. Apart' /\ Tasks' /\ Counts'
    BY <1>3 DEF IInv, Plain, Apart, Tasks, Counts
  <1>12. Posts'
    <2>1. \A t \in Threads : pc'[t] = "post" <=> post'[t] # None
      BY <1>2, <1>9 DEF IInv, Plain, Posts, Nodes
    <2>2. \A t \in Io : pc'[t] \in {"idle", "post"}
      BY <1>9, ThreadsAssumption DEF IInv, Plain, Posts, Threads
    <2>3. \A v \in Workers : pc'[v] = "post" /\ path[v] # <<>> =>
            /\ Len(path[v]) > 1 /\ ~more'[v]
            /\ post'[v] = Last(path[v]) /\ post'[v] \in Objects
      <3>1. Len(path[w]) > 1 /\ n = Last(path[w])
        BY <1>0, <1>2 DEF Last
      <3> QED BY <1>5, <1>9, <3>1 DEF IInv, Plain, Posts, Threads
    <2> QED BY <1>3, <2>1, <2>2, <2>3 DEF Posts
  <1>13. Lists(cell, lo, hi)'
    <2>1. UNCHANGED <<parent, next, root, tail>> /\ Lists(cell, lo, hi)
      BY <1>1, <1>3 DEF Ghost
    <2> QED BY ONLY <2>1 DEF Lists, ListOf, Cells
  <1>14. PICK k2, w2 : k2 = [kind EXCEPT ![n] = "post"] /\ w2 = [who EXCEPT ![n] = w]
    OBVIOUS
  <1>15. Claims(cell, lo, hi, k2, w2)'
    <2> USE <1>1, <1>2, <1>7, <1>14 DEF Ghost, Claims
    <2>1. /\ k2 \in [Nodes -> Kinds] /\ w2 \in [Nodes -> Nodes \cup Threads]
      BY DEF Kinds
    <2>2. \A u \in Threads : post'[u] # None => k2[post'[u]] = "post" /\ w2[post'[u]] = u
      <3> TAKE u \in Threads
      <3> HAVE post'[u] # None
      <3>1. CASE u = w
        BY <1>9, <3>1
      <3>2. CASE u # w
        <4>1. post'[u] = post[u] /\ post[u] \in Nodes
          BY <1>3, <1>9, <3>2
        <4> QED BY <3>2, <4>1
      <3> QED BY <3>1, <3>2
    <2>3. \A i \in 1 .. Len(tasks) : k2[tasks[i]] = "task"
      <3> TAKE i \in 1 .. Len(tasks)
      <3>1. kind[tasks[i]] = "task" /\ tasks[i] \in Nodes
        BY SeqFacts DEF IInv, Plain, TypeOK
      <3> QED BY <3>1
    <2>4. \A v \in Workers : path[v] # <<>> /\ (Len(path[v]) > 1 \/ ~LettingGo(v)') =>
             k2[path[v][1]] = "head" /\ w2[path[v][1]] = v
      <3> TAKE v \in Workers
      <3> HAVE path[v] # <<>> /\ (Len(path[v]) > 1 \/ ~LettingGo(v)')
      <3>1. kind[path[v][1]] = "head" /\ who[path[v][1]] = v
        BY <1>6
      <3>2. path[v][1] \in Nodes
        BY <1>3
      <3> QED BY <3>1, <3>2
    <2>5. \A d \in Channels : \A i \in Cells(lo, hi, d) :
            \/ k2[cell[d][i]] = "line" /\ w2[cell[d][i]] = d
            \/ i = lo[d] /\ \E v \in Workers : Len(path[v]) > 1 /\ Serving(v)' = d /\ LettingGo(v)'
      <3> TAKE d \in Channels
      <3> TAKE i \in Cells(lo, hi, d)
      <3>0. cell[d][i] \in Nodes
        BY DEF Lists, ListOf
      <3>1. CASE i = lo[d] /\ \E v \in Workers : Len(path[v]) > 1 /\ Serving(v) = d /\ LettingGo(v)
        <4>1. PICK v \in Workers : Len(path[v]) > 1 /\ Serving(v) = d /\ LettingGo(v)
          BY <3>1
        <4> QED BY <1>6, <3>1, <4>1
      <3>2. CASE kind[cell[d][i]] = "line" /\ who[cell[d][i]] = d /\ cell[d][i] # n
        BY <3>0, <3>2
      <3>3. CASE kind[n] = "line" /\ who[n] = d /\ cell[d][i] = n
        <4>1. d = c /\ i = lo[c]
          BY <1>4, <3>3 DEF Lists
        <4>2. Len(path[w]) > 1 /\ Serving(w)' = d
          BY <1>0, <1>6, <4>1
        <4> QED BY <1>6, <4>1, <4>2
      <3> QED BY <3>1, <3>2, <3>3
    <2>6. \A o \in Objects : k2[o] # "none" => held[o]
      BY DEF Nodes
    <2>7. \A d \in Channels : k2[d] # "none" => lo[d] < hi[d]
      BY <1>5 DEF Nodes
    <2> QED BY <1>3, <2>1, <2>2, <2>3, <2>4, <2>5, <2>6, <2>7 DEF Cells, Kinds
  <1> QED BY <1>8, <1>10, <1>11, <1>12, <1>13, <1>15 DEF IInv, Plain, Ghost

\* The task is posted again, or was let go.
LEMMA ReturnStep ==
    ASSUME IInv, NEW w \in Workers, Return(w)
    PROVE  IInv'
  <1> USE NodesAssumption
  <1>0. PICK n : n = path[w][1]
    OBVIOUS
  <1>1. PICK cell, lo, hi, kind, who : Ghost(cell, lo, hi, kind, who)
    BY DEF IInv
  <1>2. /\ path[w] \in Seq(Nodes) /\ path[w] # <<>> /\ Len(path[w]) = 1 /\ Served(w) = n
        /\ n \in Nodes /\ pc[w] = "back" /\ w \in Threads
    <2>1. path[w] \in Seq(Nodes) /\ Len(path[w]) = 1 /\ pc[w] = "back" /\ w \in Threads
      BY DEF IInv, Plain, TypeOK, Return, Threads
    <2> QED BY <1>0, <2>1 DEF Served, Last
  <1>3. /\ path' = [path EXCEPT ![w] = <<>>]
        /\ pc' = [pc EXCEPT ![w] = IF more[w] THEN "post" ELSE "idle"]
        /\ post' = IF more[w] THEN [post EXCEPT ![w] = n] ELSE post
        /\ UNCHANGED <<parent, owner, tasks, more, next, root, tail, waiting, held, bad, arrived, overtaken>>
        /\ pc \in [Threads -> Labels] /\ more \in [Workers -> BOOLEAN]
        /\ post \in [Threads -> Nodes \cup {None}] /\ path \in [Workers -> Seq(Nodes)]
    BY <1>2 DEF Return, Goto, listVars, objectVars, IInv, Plain, TypeOK, Labels
  <1>4. /\ path'[w] = <<>> /\ pc'[w] = (IF more[w] THEN "post" ELSE "idle")
        /\ \A v \in Workers : v # w => path'[v] = path[v] /\ pc'[v] = pc[v]
    BY <1>2, <1>3 DEF Threads
  <1>5. post[w] = None /\ (more[w] => post'[w] = n) /\ (~more[w] => post'[w] = None)
        /\ \A t \in Threads : t # w => post'[t] = post[t] /\ pc'[t] = pc[t]
    BY <1>2, <1>3 DEF IInv, Plain, Posts
  <1>6. TypeOK'
    <2>1. /\ pc' \in [Threads -> Labels] /\ post' \in [Threads -> Nodes \cup {None}]
          /\ path' \in [Workers -> Seq(Nodes)]
      BY <1>2, <1>3 DEF Labels
    <2> QED BY <1>3, <2>1 DEF IInv, Plain, TypeOK, Labels
  <1>7. /\ ~LettingGo(w)' /\ (LettingGo(w) <=> ~more[w])
        /\ \A v \in Workers : v # w => Serving(v)' = Serving(v) /\ (LettingGo(v)' <=> LettingGo(v))
    BY <1>2, <1>3, <1>4 DEF LettingGo, Serving
  <1>8. more[w] => kind[n] = "head" /\ who[n] = w
    BY <1>0, <1>1, <1>2, <1>7 DEF Ghost, Claims
  <1>9. Paths'
    <2>1. PathOf(w)'
      BY <1>4 DEF PathOf
    <2>2. ASSUME NEW v \in Workers, v # w
          PROVE  PathOf(v)'
      BY <1>3, <1>4, <2>2 DEF IInv, Plain, Paths, PathOf
    <2> QED BY <2>1, <2>2 DEF Paths
  <1>10. Apart'
    BY <1>4 DEF IInv, Plain, Apart
  <1>11. Tasks' /\ Counts'
    BY <1>3, <1>4 DEF IInv, Plain, Tasks, Counts
  <1>12. Posts'
    <2>1. \A t \in Threads : pc'[t] = "post" <=> post'[t] # None
      BY <1>2, <1>4, <1>5 DEF IInv, Plain, Posts, Nodes
    <2>2. \A t \in Io : pc'[t] \in {"idle", "post"}
      BY <1>5, ThreadsAssumption DEF IInv, Plain, Posts, Threads
    <2>3. \A v \in Workers : pc'[v] = "post" /\ path'[v] # <<>> =>
            /\ Len(path'[v]) > 1 /\ ~more[v]
            /\ post'[v] = Last(path'[v]) /\ post'[v] \in Objects
      BY <1>4, <1>5 DEF IInv, Plain, Posts, Threads
    <2> QED BY <1>3, <2>1, <2>2, <2>3 DEF Posts
  <1>13. Lists(cell, lo, hi)'
    <2>1. UNCHANGED <<parent, next, root, tail>> /\ Lists(cell, lo, hi)
      BY <1>1, <1>3 DEF Ghost
    <2> QED BY ONLY <2>1 DEF Lists, ListOf, Cells
  <1>14. PICK k2, w2 : /\ k2 = (IF more[w] THEN [kind EXCEPT ![n] = "post"] ELSE kind)
                       /\ w2 = (IF more[w] THEN [who EXCEPT ![n] = w] ELSE who)
    OBVIOUS
  <1>15. /\ k2 \in [Nodes -> Kinds] /\ w2 \in [Nodes -> Nodes \cup Threads]
         /\ \A m \in Nodes : m # n => k2[m] = kind[m] /\ w2[m] = who[m]
         /\ more[w] => k2[n] = "post" /\ w2[n] = w
         /\ ~more[w] => k2 = kind /\ w2 = who
    BY <1>1, <1>2, <1>14 DEF Ghost, Claims, Kinds
  <1>16. Claims(cell, lo, hi, k2, w2)'
    <2> USE <1>1, <1>2, <1>8, <1>15 DEF Ghost, Claims
    <2>1. \A u \in Threads : post'[u] # None => k2[post'[u]] = "post" /\ w2[post'[u]] = u
      <3> TAKE u \in Threads
      <3> HAVE post'[u] # None
      <3>1. CASE u = w
        BY <1>5, <3>1
      <3>2. CASE u # w
        <4>1. post'[u] = post[u] /\ post[u] \in Nodes
          BY <1>3, <1>5, <3>2
        <4> QED BY <3>2, <4>1
      <3> QED BY <3>1, <3>2
    <2>2. \A i \in 1 .. Len(tasks) : k2[tasks[i]] = "task"
      <3> TAKE i \in 1 .. Len(tasks)
      <3>1. kind[tasks[i]] = "task" /\ tasks[i] \in Nodes
        BY SeqFacts DEF IInv, Plain, TypeOK
      <3> QED BY <3>1
    <2>3. \A v \in Workers : path'[v] # <<>> /\ (Len(path'[v]) > 1 \/ ~LettingGo(v)') =>
             k2[path'[v][1]] = "head" /\ w2[path'[v][1]] = v
      <3> TAKE v \in Workers
      <3> HAVE path'[v] # <<>> /\ (Len(path'[v]) > 1 \/ ~LettingGo(v)')
      <3>0. v # w /\ path'[v] = path[v] /\ path[v][1] \in Nodes
        BY <1>3, <1>4
      <3>1. kind[path[v][1]] = "head" /\ who[path[v][1]] = v
        BY <1>7, <3>0
      <3> QED BY <3>0, <3>1
    <2>4. \A d \in Channels : \A i \in Cells(lo, hi, d) :
            \/ k2[cell[d][i]] = "line" /\ w2[cell[d][i]] = d
            \/ i = lo[d] /\ \E v \in Workers : Len(path'[v]) > 1 /\ Serving(v)' = d /\ LettingGo(v)'
      <3> TAKE d \in Channels
      <3> TAKE i \in Cells(lo, hi, d)
      <3>0. cell[d][i] \in Nodes
        BY DEF Lists, ListOf
      <3>1. CASE i = lo[d] /\ \E v \in Workers : Len(path[v]) > 1 /\ Serving(v) = d /\ LettingGo(v)
        <4>1. PICK v \in Workers : Len(path[v]) > 1 /\ Serving(v) = d /\ LettingGo(v)
          BY <3>1
        <4>2. v # w
          <5>1. PICK m : m = Len(path[v])
            OBVIOUS
          <5>2. m \in Nat /\ m > 1
            BY <1>3, <4>1, <5>1
          <5>3. v = w => m = 1
            BY <1>2, <5>1
          <5> QED BY <5>2, <5>3
        <4> QED BY <1>4, <1>7, <3>1, <4>1, <4>2
      <3>2. CASE kind[cell[d][i]] = "line" /\ who[cell[d][i]] = d
        BY <3>0, <3>2
      <3> QED BY <3>1, <3>2
    <2>5. \A o \in Objects : k2[o] # "none" => held[o]
      BY DEF Nodes
    <2>6. \A d \in Channels : k2[d] # "none" => lo[d] < hi[d]
      BY DEF Nodes
    <2> QED BY <1>3, <2>1, <2>2, <2>3, <2>4, <2>5, <2>6, <1>15 DEF Cells, Kinds
  <1> QED BY <1>6, <1>9, <1>10, <1>11, <1>12, <1>13, <1>16 DEF IInv, Plain, Ghost

\* A worker steps back into a channel whose list it has changed, or out of its task.
LEMMA StepBack ==
    ASSUME Plain, NEW w \in Workers, InChannel(w), StepOut(w),
           \A d \in Channels : d # Serving(w) => root'[d] = root[d],
           \A v \in Workers : v # w => more'[v] = more[v],
           UNCHANGED <<parent, post, tasks>>
    PROVE  /\ path' \in [Workers -> Seq(Nodes)] /\ pc' \in [Threads -> Labels]
           /\ \A v \in Workers : v # w => path'[v] = path[v]
           /\ Len(path[w]) = 2 /\ ~more'[w] => path'[w] = <<>>
           /\ ~(Len(path[w]) = 2 /\ ~more'[w]) =>
                 /\ path'[w] # <<>> /\ Len(path'[w]) = Len(path[w]) - 1
                 /\ \A i \in 1 .. Len(path[w]) - 1 : path'[w][i] = path[w][i]
           /\ \A v \in Workers : v # w \/ ~(Len(path[w]) = 2 /\ ~more'[w]) => pc'[v] = pc[v]
           /\ Paths' /\ Apart' /\ Posts' /\ Tasks'
  <1>0. PICK s, k, c : s = Front(path[w]) /\ k = Len(path[w]) /\ c = Serving(w)
    OBVIOUS
  <1>1. /\ path[w] \in Seq(Nodes) /\ k \in Nat /\ k >= 2 /\ pc[w] = "back" /\ w \in Threads
        /\ c = path[w][k - 1] /\ c \in Channels
    BY <1>0, InChannelFacts
  <1>2. path[w] # <<>>
    BY <1>0, <1>1
  <1>3. /\ s \in Seq(Nodes) /\ Len(s) = k - 1
        /\ \A i \in 1 .. k - 1 : s[i] = path[w][i]
    BY <1>0, <1>1, <1>2, FrontLast
  <1>4. s # <<>>
    BY <1>1, <1>3
  <1>5. path \in [Workers -> Seq(Nodes)] /\ pc \in [Threads -> Labels]
    BY DEF Plain, TypeOK, Labels
  <1> DEFINE last == k = 2 /\ ~more'[w]
  <1>6. /\ path' \in [Workers -> Seq(Nodes)] /\ pc' \in [Threads -> Labels]
        /\ \A v \in Workers : v # w => path'[v] = path[v]
        /\ \A t \in Threads : t # w => pc'[t] = pc[t]
        /\ last => path'[w] = <<>> /\ pc'[w] = "idle"
        /\ ~last => path'[w] = s /\ pc'[w] = "back"
    <2>1. CASE last
      <3>1. path' = [path EXCEPT ![w] = <<>>] /\ pc' = [pc EXCEPT ![w] = "idle"]
        BY <1>0, <2>1 DEF StepOut, Goto
      <3>2. <<>> \in Seq(Nodes) /\ "idle" \in Labels
        BY DEF Labels
      <3> QED BY <1>1, <1>5, <2>1, <3>1, <3>2
    <2>2. CASE ~last
      <3>1. path' = [path EXCEPT ![w] = s] /\ pc' = pc
        BY <1>0, <2>2 DEF StepOut
      <3> QED BY <1>1, <1>3, <1>5, <2>2, <3>1
    <2> QED BY <2>1, <2>2
  <1> HIDE DEF last
  <1>6a. last => PathOf(w)'
    BY <1>6 DEF PathOf
  <1>7. ~last => PathOf(w)'
    <2> SUFFICES ASSUME ~last PROVE PathOf(w)'
      OBVIOUS
    <2>1. PathOf(w)
      BY DEF Plain, Paths
    <2>2. \A i \in 1 .. Len(s) - 1 : s[i] \in Channels /\ root'[s[i]] = s[i + 1]
      <3> TAKE i \in 1 .. Len(s) - 1
      <3>1. /\ i \in 1 .. Len(path[w]) - 1 /\ i \in 1 .. Len(path[w]) /\ i \in 1 .. k - 1
            /\ i + 1 \in 1 .. k - 1 /\ i # k - 1 /\ k - 1 \in 1 .. Len(path[w])
        BY <1>0, <1>1, <1>3
      <3>2. path[w][i] \in Channels /\ root[path[w][i]] = path[w][i + 1] /\ path[w][i] # c
        BY <1>1, <2>1, <3>1 DEF PathOf
      <3> QED BY <1>0, <1>3, <3>1, <3>2
    <2>3. \A i, j \in 1 .. Len(s) : s[i] = s[j] => i = j
      BY SMTT(30), <1>0, <1>1, <1>3, <2>1 DEF PathOf
    <2>4. s[1] \in Channels => parent[s[1]] = None
      BY <1>1, <1>2, <1>3, <2>1 DEF PathOf
    <2>5. Len(s) = 1 => more'[w]
      <3>0. k \in Nat /\ Len(s) = k - 1
        BY <1>1, <1>3
      <3>0a. \A m \in Nat : m - 1 = 1 => m = 2
        OBVIOUS
      <3>1. Len(s) = 1 => k = 2
        BY <3>0, <3>0a
      <3>2. ~last
        OBVIOUS
      <3> QED BY <3>1, <3>2 DEF last
    <2>6. path'[w] = s /\ pc'[w] = "back" /\ parent' = parent
      BY <1>6
    <2> QED BY <1>4, <2>2, <2>3, <2>4, <2>5, <2>6 DEF PathOf
  <1>8. ASSUME NEW v \in Workers, v # w
        PROVE  PathOf(v)'
    <2>1. PathOf(v) /\ path[v] \in Seq(Nodes)
      BY <1>5 DEF Plain, Paths
    <2>2. \A i \in 1 .. Len(path[v]) - 1 :
             path[v][i] \in Channels /\ root'[path[v][i]] = path[v][i + 1]
      <3> TAKE i \in 1 .. Len(path[v]) - 1
      <3>1. i \in 1 .. Len(path[v])
        BY <2>1
      <3>2. path[v][i] # Serving(w)
        BY <1>8, <3>1, OneServes
      <3> QED BY <2>1, <3>2 DEF PathOf
    <2>3. path'[v] = path[v] /\ pc'[v] = pc[v] /\ more'[v] = more[v]
      BY <1>6, <1>8 DEF Threads
    <2> QED BY <2>1, <2>2, <2>3 DEF PathOf
  <1>9. Paths'
    BY <1>6a, <1>7, <1>8 DEF Paths
  <1>10. Apart'
    <2>1. \A i \in 1 .. Len(path'[w]) : i \in 1 .. Len(path[w]) /\ path'[w][i] = path[w][i]
      <3>1. CASE last
        <4>1. 1 .. Len(path'[w]) = {}
          BY <1>6, <3>1
        <4> QED BY <4>1
      <3>2. CASE ~last
        <4>1. path'[w] = s
          BY <1>6, <3>2
        <4> QED BY <1>0, <1>1, <1>3, <4>1
      <3> QED BY <3>1, <3>2
    <2>2. \A v \in Workers : \A i \in 1 .. Len(path'[v]) : i \in 1 .. Len(path[v]) /\ path'[v][i] = path[v][i]
      BY <1>6, <2>1
    <2> QED BY <2>2 DEF Plain, Apart
  <1>11. Posts'
    <2>1. /\ pc[w] # "post" /\ pc'[w] # "post"
          /\ \A t \in Threads : (pc'[t] = "post" <=> pc[t] = "post") /\ (t # w => pc'[t] = pc[t])
      BY <1>1, <1>6
    <2> QED BY <1>6, <2>1, ThreadsAssumption DEF Plain, Posts, Threads
  <1>12. Tasks'
    <2>1. path'[w] # <<>> => path'[w][1] = path[w][1]
      BY <1>1, <1>3, <1>6
    <2> QED BY <1>2, <1>6, <2>1 DEF Plain, Tasks
  <1>13. /\ last => path'[w] = <<>>
         /\ ~last => path'[w] # <<>> /\ Len(path'[w]) = Len(path[w]) - 1
         /\ ~last => \A i \in 1 .. Len(path[w]) - 1 : path'[w][i] = path[w][i]
    BY <1>0, <1>3, <1>4, <1>6
  <1>14. \A v \in Workers : v # w \/ ~last => pc'[v] = pc[v]
    BY <1>1, <1>6 DEF Threads
  <1> QED BY <1>0, <1>6, <1>9, <1>10, <1>11, <1>12, <1>13, <1>14 DEF last

\* post_node of a channel's root gives up the list's first cell for one at its end.
LEMMA RotateLists ==
    ASSUME TypeOK, UNCHANGED parent, NEW n \in Nodes, NEW c \in Channels,
           root[c] = n, parent[n] = c, PostNode(c, n),
           NEW cell, NEW lo, NEW hi, Lists(cell, lo, hi),
           NEW cell2, cell2 = CellFor(n, c, cell, hi), NEW lo2, lo2 = Up(c, lo),
           NEW hi2, hi2 = Up(c, hi)
    PROVE  /\ Lists(cell2, lo2, hi2)'
           /\ lo[c] < hi[c] /\ cell[c][lo[c]] = n /\ lo2[c] < hi2[c]
           /\ \A d \in Channels : d # c => hi2[d] = hi[d] /\ lo2[d] = lo[d] /\ cell2[d] = cell[d]
           /\ \A d \in Channels : \A i \in Cells(lo2, hi2, d) :
                 \/ d = c /\ i = hi[c] /\ cell2[d][i] = n
                 \/ /\ i \in Cells(lo, hi, d) /\ cell2[d][i] = cell[d][i] /\ cell[d][i] # n
                    /\ (d = c => i # lo[c] /\ i # hi[c])
           /\ \A d \in Channels : d # c => root'[d] = root[d]
           /\ root' \in [Channels -> Nodes \cup {None}] /\ tail' \in [Channels -> Nodes \cup {None}]
           /\ next' \in [Nodes -> Nodes \cup {None}]
  <1> USE NodesAssumption
  <1>1. TypeOK /\ Lists(cell, lo, hi)
    OBVIOUS
  <1>2. n \in Nodes /\ c \in Channels /\ root[c] = n
    OBVIOUS
  <1>3. parent[n] = c /\ PostNode(c, n) /\ UNCHANGED parent
    OBVIOUS
  <1>4. /\ lo \in [Channels -> Nat] /\ hi \in [Channels -> Nat] /\ cell \in [Channels -> [Nat -> Nodes]]
        /\ \A d \in Channels : ListOf(d, cell, lo, hi)
        /\ \A d \in Channels : lo[d] \in Nat /\ hi[d] \in Nat /\ lo[d] <= hi[d]
        /\ next \in [Nodes -> Nodes \cup {None}] /\ root \in [Channels -> Nodes \cup {None}]
        /\ tail \in [Channels -> Nodes \cup {None}]
    BY <1>1 DEF Lists, ListOf, TypeOK
  <1>5. /\ lo[c] < hi[c] /\ cell[c][lo[c]] = n /\ tail[c] = cell[c][hi[c] - 1] /\ tail[c] \in Nodes
        /\ lo[c] \in Cells(lo, hi, c) /\ hi[c] - 1 \in Cells(lo, hi, c)
        /\ next[n] = (IF lo[c] = hi[c] - 1 THEN None ELSE cell[c][lo[c] + 1])
    <2>1. /\ ListOf(c, cell, lo, hi) /\ lo[c] \in Nat /\ hi[c] \in Nat /\ lo[c] <= hi[c]
          /\ root[c] # None
      BY <1>2, <1>4 DEF Nodes
    <2>2. lo[c] < hi[c] /\ cell[c][lo[c]] = n /\ tail[c] = cell[c][hi[c] - 1]
      <3>1. root[c] = cell[c][lo[c]] /\ tail[c] = cell[c][hi[c] - 1] /\ lo[c] # hi[c]
        BY ONLY <2>1 DEF ListOf
      <3> QED BY <1>2, <2>1, <3>1
    <2>3. lo[c] \in Cells(lo, hi, c) /\ hi[c] - 1 \in Cells(lo, hi, c)
      BY <2>1, <2>2 DEF Cells
    <2> QED BY <2>1, <2>2, <2>3 DEF ListOf
  <1>6. /\ cell2 = [cell EXCEPT ![c][hi[c]] = n]
        /\ lo2 = [lo EXCEPT ![c] = lo[c] + 1]
        /\ hi2 = [hi EXCEPT ![c] = hi[c] + 1]
    BY DEF CellFor, Up
  <1>7. /\ cell2 \in [Channels -> [Nat -> Nodes]] /\ hi2 \in [Channels -> Nat] /\ lo2 \in [Channels -> Nat]
        /\ cell2[c][hi[c]] = n /\ hi2[c] = hi[c] + 1 /\ lo2[c] = lo[c] + 1
        /\ \A d \in Channels : d # c => hi2[d] = hi[d] /\ lo2[d] = lo[d] /\ cell2[d] = cell[d]
        /\ \A i \in Nat : i # hi[c] => cell2[c][i] = cell[c][i]
    <2>1. lo[c] \in Nat /\ hi[c] \in Nat /\ lo[c] + 1 \in Nat /\ hi[c] + 1 \in Nat
      BY <1>2, <1>4
    <2>2. /\ lo2 \in [Channels -> Nat] /\ hi2 \in [Channels -> Nat]
          /\ hi2[c] = hi[c] + 1 /\ lo2[c] = lo[c] + 1
          /\ \A d \in Channels : d # c => hi2[d] = hi[d] /\ lo2[d] = lo[d]
      BY <1>2, <1>4, <1>6, <2>1
    <2>3. /\ cell2 \in [Channels -> [Nat -> Nodes]] /\ cell2[c][hi[c]] = n
          /\ \A d \in Channels : d # c => cell2[d] = cell[d]
          /\ \A i \in Nat : i # hi[c] => cell2[c][i] = cell[c][i]
      <3>1. cell \in [Channels -> [Nat -> Nodes]] /\ cell2 = [cell EXCEPT ![c][hi[c]] = n]
            /\ c \in Channels /\ n \in Nodes
        BY <1>2, <1>4, <1>6
      <3> QED BY ONLY <2>1, <3>1
    <2> QED BY <2>2, <2>3
  <1>7a. /\ lo[c] \in Nat /\ hi[c] \in Nat /\ lo2[c] = lo[c] + 1 /\ hi2[c] = hi[c] + 1
         /\ lo2[c] \in Nat /\ hi2[c] \in Nat /\ lo2[c] <= hi[c] /\ hi2[c] - 1 = hi[c]
         /\ hi[c] - 1 \in Nat
    <2>1. lo[c] \in Nat /\ hi[c] \in Nat /\ lo2[c] = lo[c] + 1 /\ hi2[c] = hi[c] + 1 /\ lo[c] < hi[c]
      BY <1>2, <1>4, <1>5, <1>7
    <2> QED BY ONLY <2>1
  <1>7b. cell2[c][hi[c]] = n /\ \A i \in Nat : i # hi[c] => cell2[c][i] = cell[c][i]
    BY <1>7
  <1>8. \A d \in Channels : \A i \in Cells(lo2, hi2, d) :
           \/ d = c /\ i = hi[c] /\ cell2[d][i] = n
           \/ /\ i \in Cells(lo, hi, d) /\ cell2[d][i] = cell[d][i] /\ cell[d][i] # n
              /\ (d = c => i # lo[c] /\ i # hi[c])
    <2> TAKE d \in Channels
    <2> TAKE i \in Cells(lo2, hi2, d)
    <2>1. CASE d = c /\ i = hi[c]
      BY <1>7, <2>1
    <2>2. CASE ~(d = c /\ i = hi[c])
      <3>1. i \in Cells(lo, hi, d) /\ cell2[d][i] = cell[d][i] /\ (d = c => i # lo[c] /\ i # hi[c])
        <4>1. CASE d = c
          BY <1>7a, <1>7b, <2>2, <4>1 DEF Cells
        <4>2. CASE d # c
          BY <1>7, <4>2 DEF Cells
        <4> QED BY <4>1, <4>2
      <3>2. cell[d][i] # n
        BY SMTT(30), <1>1, <1>2, <1>5, <3>1 DEF Lists
      <3> QED BY <3>1, <3>2
    <2> QED BY <2>1, <2>2
  <1>9. tail[c] = n <=> lo[c] = hi[c] - 1
    BY <1>1, <1>2, <1>5 DEF Lists
  <1>10. /\ root'[c] = cell2[c][lo2[c]] /\ tail'[c] = n /\ next'[n] = None
         /\ \A d \in Channels : d # c => root'[d] = root[d] /\ tail'[d] = tail[d]
         /\ \A m \in Nodes : m # n /\ m # tail[c] => next'[m] = next[m]
         /\ tail[c] # n => next'[tail[c]] = n
         /\ root' \in [Channels -> Nodes \cup {None}] /\ tail' \in [Channels -> Nodes \cup {None}]
         /\ next' \in [Nodes -> Nodes \cup {None}]
    <2>1. CASE next[n] = None
      <3>1. UNCHANGED <<next, root, tail>>
        BY <1>2, <1>3, <2>1 DEF PostNode, listVars
      <3>2. lo[c] = hi[c] - 1
        <4> SUFFICES ASSUME lo[c] # hi[c] - 1 PROVE FALSE
          OBVIOUS
        <4>1. lo[c] + 1 \in Nat
          BY <1>2, <1>4
        <4> QED BY SMTT(30), <1>2, <1>4, <1>5, <2>1, <4>1 DEF Nodes
      <3>3. lo2[c] = hi[c]
        BY ONLY <1>7a, <3>2
      <3> QED BY <1>2, <1>4, <1>7, <1>9, <2>1, <3>1, <3>2, <3>3
    <2>2. CASE next[n] # None
      <3>1. /\ root' = [root EXCEPT ![c] = next[n]]
            /\ next' = [next EXCEPT ![tail[c]] = n, ![n] = None]
            /\ tail' = [tail EXCEPT ![c] = n]
        BY <1>2, <1>3, <2>2 DEF PostNode
      <3>2. lo[c] # hi[c] - 1 /\ next[n] = cell[c][lo[c] + 1]
        BY <1>5, <2>2
      <3>3. cell2[c][lo2[c]] = next[n]
        <4>1. lo2[c] # hi[c]
          BY <1>7a, <3>2
        <4> QED BY <1>7a, <1>7b, <3>2, <4>1
      <3> QED BY <1>2, <1>4, <1>5, <1>9, <3>1, <3>2, <3>3
    <2> QED BY <2>1, <2>2
  <1>11. Lists(cell2, lo2, hi2)'
    <2>1. \A d, e \in Channels : \A i \in Cells(lo2, hi2, d), j \in Cells(lo2, hi2, e) :
            cell2[d][i] = cell2[e][j] => d = e /\ i = j
      <3> TAKE d, e \in Channels
      <3> TAKE i \in Cells(lo2, hi2, d), j \in Cells(lo2, hi2, e)
      <3> HAVE cell2[d][i] = cell2[e][j]
      <3>1. CASE d = c /\ i = hi[c]
        BY <1>8, <3>1
      <3>2. CASE e = c /\ j = hi[c]
        BY <1>8, <3>2
      <3>3. CASE ~(d = c /\ i = hi[c]) /\ ~(e = c /\ j = hi[c])
        BY <1>1, <1>8, <3>3 DEF Lists
      <3> QED BY <3>1, <3>2, <3>3
    <2>2. ASSUME NEW d \in Channels
          PROVE  ListOf(d, cell2, lo2, hi2)'
      <3>1. lo2[d] \in Nat /\ hi2[d] \in Nat /\ lo2[d] <= hi2[d] /\ (d = c => lo2[d] # hi2[d])
        <4>1. CASE d = c
          BY <1>7a, <4>1
        <4>2. CASE d # c
          BY <1>4, <1>7, <4>2
        <4> QED BY <4>1, <4>2
      <3>2. root'[d] = IF lo2[d] = hi2[d] THEN None ELSE cell2[d][lo2[d]]
        BY <1>4, <1>7, <1>10, <3>1 DEF ListOf
      <3>3. tail'[d] = IF lo2[d] = hi2[d] THEN None ELSE cell2[d][hi2[d] - 1]
        <4>1. CASE d = c
          <5>1. hi2[c] - 1 = hi[c]
            BY <1>7a
          <5> QED BY <1>7, <1>10, <3>1, <4>1, <5>1
        <4>2. CASE d # c
          BY <1>4, <1>7, <1>10, <4>2 DEF ListOf
        <4> QED BY <4>1, <4>2
      <3>4. ASSUME NEW i \in Cells(lo2, hi2, d)
            PROVE  /\ cell2[d][i] \in Nodes
                   /\ next'[cell2[d][i]] = IF i = hi2[d] - 1 THEN None ELSE cell2[d][i + 1]
                   /\ cell2[d][i] \in Channels => parent[cell2[d][i]] = d
        <4>1. CASE d = c /\ i = hi[c]
          <5>1. cell2[d][i] = n /\ i = hi2[d] - 1
            BY <1>7a, <1>7b, <4>1
          <5> QED BY <1>2, <1>3, <1>10, <4>1, <5>1
        <4>2. CASE ~(d = c /\ i = hi[c])
          <5>1. /\ i \in Cells(lo, hi, d) /\ cell2[d][i] = cell[d][i] /\ cell[d][i] # n
                /\ (d = c => i # hi[c]) /\ cell[d][i] \in Nodes
                /\ next[cell[d][i]] = (IF i = hi[d] - 1 THEN None ELSE cell[d][i + 1])
                /\ cell[d][i] \in Channels => parent[cell[d][i]] = d
                /\ i \in Nat /\ i <= hi[d] - 1 /\ i + 1 \in Nat
            BY <1>4, <1>8, <4>2 DEF ListOf, Cells
          <5>2. CASE cell[d][i] = tail[c]
            <6>1. d = c /\ i = hi[c] - 1
              <7>0. PICK y : y = hi[c] - 1
                OBVIOUS
              <7>1. /\ y \in Cells(lo, hi, c) /\ cell[d][i] = cell[c][y] /\ c \in Channels
                    /\ i \in Cells(lo, hi, d)
                BY <1>2, <1>5, <5>1, <5>2, <7>0
              <7>2. d = c /\ i = y
                BY <1>1, <7>1 DEF Lists
              <7> QED BY <7>0, <7>2
            <6>2. tail[c] # n /\ next'[cell[d][i]] = n
              BY <1>10, <5>1, <5>2
            <6>3. i # hi2[d] - 1 /\ i + 1 = hi[c] /\ cell2[d][i + 1] = n
              BY <1>7a, <1>7b, <6>1
            <6> QED BY <5>1, <6>2, <6>3
          <5>3. CASE cell[d][i] # tail[c]
            <6>1. next'[cell[d][i]] = next[cell[d][i]]
              BY <1>10, <5>1, <5>3
            <6>2. d = c => i # hi[c] - 1
              BY <1>5, <5>3
            <6>3. d # c => hi2[d] = hi[d] /\ cell2[d] = cell[d]
              BY <1>7
            <6>4. d = c => i + 1 # hi[c] /\ i # hi2[c] - 1 /\ cell2[d][i + 1] = cell[d][i + 1]
              BY <1>7a, <1>7b, <5>1, <6>2
            <6> QED BY <5>1, <6>1, <6>2, <6>3, <6>4
          <5> QED BY <5>2, <5>3
        <4> QED BY <4>1, <4>2
      <3> QED BY <1>3, <3>1, <3>2, <3>3, <3>4 DEF ListOf, Cells
    <2> QED BY <1>7, <2>1, <2>2 DEF Lists, Cells
  <1>12. lo2[c] < hi2[c]
    BY <1>7a
  <1> QED BY ONLY <1>5, <1>7, <1>8, <1>10, <1>11, <1>12

\* The first cell is given up for one at the end.
LEMMA RequeueStep ==
    ASSUME IInv, NEW w \in Workers, Requeue(w)
    PROVE  IInv'
  <1> USE NodesAssumption
  <1>0. PICK n, c, k : n = Served(w) /\ c = Serving(w) /\ k = Len(path[w])
    OBVIOUS
  <1>1. PICK cell, lo, hi, kind, who : Ghost(cell, lo, hi, kind, who)
    BY DEF IInv
  <1>2. /\ path[w] \in Seq(Nodes) /\ k \in Nat /\ k >= 2
        /\ pc[w] = "back" /\ w \in Threads /\ more[w]
        /\ n = path[w][k] /\ n \in Nodes /\ c = path[w][k - 1] /\ c \in Channels /\ root[c] = n
    <2>1. Plain /\ InChannel(w) /\ more[w]
      BY DEF Requeue, IInv
    <2> QED BY <1>0, <2>1, InChannelFacts
  <1>3. /\ parent[n] = c /\ PostNode(c, n)
        /\ more' = [more EXCEPT ![w] = TRUE]
        /\ path' = [path EXCEPT ![w] = Front(path[w])]
        /\ UNCHANGED <<parent, owner, tasks, pc, post, waiting, held, bad, arrived, overtaken>>
        /\ more \in [Workers -> BOOLEAN]
    <2>1. PostsChannel(c, n) = TRUE
      BY <1>2 DEF PostsChannel
    <2> QED BY <1>0, <2>1 DEF Requeue, objectVars, IInv, Plain, TypeOK
  <1>4. TypeOK /\ Lists(cell, lo, hi)
    BY <1>1 DEF IInv, Plain, Ghost
  <1>5. PICK cell2, lo2, hi2 :
        cell2 = CellFor(n, c, cell, hi) /\ lo2 = Up(c, lo) /\ hi2 = Up(c, hi)
    OBVIOUS
  <1>6. /\ n \in Nodes /\ c \in Channels /\ root[c] = n /\ parent[n] = c /\ PostNode(c, n)
        /\ UNCHANGED parent
    BY <1>2, <1>3
  <1>7. /\ Lists(cell2, lo2, hi2)'
        /\ lo[c] < hi[c] /\ cell[c][lo[c]] = n /\ lo2[c] < hi2[c]
        /\ \A d \in Channels : d # c => hi2[d] = hi[d] /\ lo2[d] = lo[d] /\ cell2[d] = cell[d]
        /\ \A d \in Channels : \A i \in Cells(lo2, hi2, d) :
              \/ d = c /\ i = hi[c] /\ cell2[d][i] = n
              \/ /\ i \in Cells(lo, hi, d) /\ cell2[d][i] = cell[d][i] /\ cell[d][i] # n
                 /\ (d = c => i # lo[c] /\ i # hi[c])
        /\ \A d \in Channels : d # c => root'[d] = root[d]
        /\ root' \in [Channels -> Nodes \cup {None}] /\ tail' \in [Channels -> Nodes \cup {None}]
        /\ next' \in [Nodes -> Nodes \cup {None}]
    BY ONLY <1>4, <1>5, <1>6, RotateLists
  <1>12. /\ path' \in [Workers -> Seq(Nodes)]
         /\ \A v \in Workers : v # w => path'[v] = path[v]
         /\ path'[w] # <<>> /\ Len(path'[w]) = k - 1
         /\ \A i \in 1 .. k - 1 : path'[w][i] = path[w][i]
         /\ Paths' /\ Apart' /\ Posts' /\ Tasks'
    <2>1. Plain /\ InChannel(w)
      BY DEF IInv, Requeue
    <2>2. \A d \in Channels : d # Serving(w) => root'[d] = root[d]
      BY <1>0, <1>7
    <2>3. \A v \in Workers : v # w => more'[v] = more[v]
      BY <1>3
    <2>4. more'[w] /\ StepOut(w)
      BY <1>3 DEF StepOut
    <2> QED BY <1>0, <1>3, <2>1, <2>2, <2>3, <2>4, StepBack
  <1>13. TypeOK'
    <2>1. more' \in [Workers -> BOOLEAN]
      BY <1>3
    <2> QED BY <1>3, <1>7, <1>12, <2>1 DEF IInv, Plain, TypeOK
  <1>14. Counts'
    BY <1>3 DEF IInv, Plain, Counts
  <1>15. /\ ~LettingGo(w) /\ ~LettingGo(w)'
         /\ \A v \in Workers : v # w => Serving(v)' = Serving(v) /\ (LettingGo(v)' <=> LettingGo(v))
    BY <1>2, <1>3, <1>12 DEF LettingGo, Serving
  <1>16. kind[n] = "line" /\ who[n] = c
    <2>1. Plain /\ k \in 1 .. Len(path[w]) /\ k > 1
      BY <1>0, <1>2 DEF IInv
    <2> QED BY <1>1, <1>2, <1>15, <2>1, Claimed
  <1>17. Claims(cell2, lo2, hi2, kind, who)'
    <2> USE <1>1, <1>3 DEF Ghost, Claims
    <2>1. \A v \in Workers : path'[v] # <<>> /\ (Len(path'[v]) > 1 \/ ~LettingGo(v)') =>
             kind[path'[v][1]] = "head" /\ who[path'[v][1]] = v
      <3> TAKE v \in Workers
      <3> HAVE path'[v] # <<>> /\ (Len(path'[v]) > 1 \/ ~LettingGo(v)')
      <3>1. CASE v = w
        <4>1. path'[w][1] = path[w][1] /\ path[w] # <<>>
          <5>1. 1 \in 1 .. k - 1
            BY <1>2
          <5>2. path[w] # <<>>
            BY <1>0, <1>2
          <5> QED BY <1>12, <5>1, <5>2
        <4> QED BY <1>15, <3>1, <4>1
      <3>2. CASE v # w
        BY <1>12, <1>15, <3>2
      <3> QED BY <3>1, <3>2
    <2>2. \A d \in Channels : \A i \in Cells(lo2, hi2, d) :
            \/ kind[cell2[d][i]] = "line" /\ who[cell2[d][i]] = d
            \/ i = lo2[d] /\ \E v \in Workers : Len(path'[v]) > 1 /\ Serving(v)' = d /\ LettingGo(v)'
      <3> TAKE d \in Channels
      <3> TAKE i \in Cells(lo2, hi2, d)
      <3>1. CASE d = c /\ i = hi[c]
        BY <1>7, <1>16, <3>1
      <3>2. CASE d = c /\ i # hi[c]
        <4>1. i \in Cells(lo, hi, d) /\ cell2[d][i] = cell[d][i] /\ i # lo[c]
          BY <1>7, <3>2
        <4> QED BY <3>2, <4>1
      <3>3. CASE d # c
        <4>1. i \in Cells(lo, hi, d) /\ cell2[d][i] = cell[d][i] /\ lo2[d] = lo[d]
          BY <1>7, <3>3
        <4>2. CASE \E v \in Workers : Len(path[v]) > 1 /\ Serving(v) = d /\ LettingGo(v)
          <5>1. PICK v \in Workers : Len(path[v]) > 1 /\ Serving(v) = d /\ LettingGo(v)
            BY <4>2
          <5>2. v # w
            BY <1>15, <5>1
          <5> QED BY <1>12, <1>15, <4>1, <5>1, <5>2
        <4> QED BY <4>1, <4>2
      <3> QED BY <3>1, <3>2, <3>3
    <2>3. \A d \in Channels : kind[d] # "none" => lo2[d] < hi2[d]
      <3>1. lo2[c] < hi2[c]
        BY <1>7
      <3>2. \A d \in Channels : d # c => lo2[d] = lo[d] /\ hi2[d] = hi[d]
        BY <1>7
      <3> QED BY <3>1, <3>2
    <2> QED BY <2>1, <2>2, <2>3 DEF Cells
  <1> QED BY <1>7, <1>12, <1>13, <1>14, <1>17 DEF IInv, Plain, Ghost

\* pop_front gives up the list's first cell.
LEMMA LeaveLists ==
    ASSUME TypeOK, UNCHANGED parent, NEW n \in Nodes, NEW c \in Channels,
           root[c] = n, PopFront(c),
           NEW cell, NEW lo, NEW hi, Lists(cell, lo, hi),
           NEW lo2, lo2 = Up(c, lo)
    PROVE  /\ Lists(cell, lo2, hi)'
           /\ lo[c] < hi[c] /\ cell[c][lo[c]] = n
           /\ lo \in [Channels -> Nat] /\ hi \in [Channels -> Nat] /\ cell \in [Channels -> [Nat -> Nodes]]
           /\ \A d \in Channels : ListOf(d, cell, lo, hi)
           /\ lo2[c] = lo[c] + 1 /\ lo2[c] <= hi[c] /\ \A d \in Channels : d # c => lo2[d] = lo[d]
           /\ \A d \in Channels : \A i \in Cells(lo2, hi, d) :
                 i \in Cells(lo, hi, d) /\ (d = c => i # lo[c])
           /\ (root'[c] = None <=> lo2[c] = hi[c])
           /\ \A d \in Channels : d # c => root'[d] = root[d]
           /\ root' \in [Channels -> Nodes \cup {None}] /\ tail' \in [Channels -> Nodes \cup {None}]
  <1> USE NodesAssumption
  <1>1. TypeOK /\ Lists(cell, lo, hi)
    OBVIOUS
  <1>2. n \in Nodes /\ c \in Channels /\ root[c] = n
    OBVIOUS
  <1>3. /\ root' = [root EXCEPT ![c] = next[n]]
        /\ tail' = (IF root'[c] = None THEN [tail EXCEPT ![c] = None] ELSE tail)
        /\ UNCHANGED <<parent, next>>
    BY DEF PopFront
  <1>4. /\ lo \in [Channels -> Nat] /\ hi \in [Channels -> Nat] /\ cell \in [Channels -> [Nat -> Nodes]]
        /\ \A d \in Channels : ListOf(d, cell, lo, hi)
        /\ \A d \in Channels : lo[d] \in Nat /\ hi[d] \in Nat /\ lo[d] <= hi[d]
        /\ next \in [Nodes -> Nodes \cup {None}] /\ root \in [Channels -> Nodes \cup {None}]
        /\ tail \in [Channels -> Nodes \cup {None}]
    BY <1>1 DEF Lists, ListOf, TypeOK
  <1>5. /\ lo[c] < hi[c] /\ cell[c][lo[c]] = n /\ lo[c] \in Cells(lo, hi, c)
        /\ tail[c] = cell[c][hi[c] - 1]
        /\ next[n] = (IF lo[c] = hi[c] - 1 THEN None ELSE cell[c][lo[c] + 1])
    <2>1. /\ ListOf(c, cell, lo, hi) /\ lo[c] \in Nat /\ hi[c] \in Nat /\ lo[c] <= hi[c]
          /\ root[c] # None
      BY <1>2, <1>4 DEF Nodes
    <2>2. lo[c] < hi[c] /\ cell[c][lo[c]] = n /\ tail[c] = cell[c][hi[c] - 1]
      <3>1. root[c] = cell[c][lo[c]] /\ tail[c] = cell[c][hi[c] - 1] /\ lo[c] # hi[c]
        BY ONLY <2>1 DEF ListOf
      <3> QED BY <1>2, <2>1, <3>1
    <2>3. lo[c] \in Cells(lo, hi, c)
      BY <2>1, <2>2 DEF Cells
    <2> QED BY <2>1, <2>2, <2>3 DEF ListOf
  <1>6. lo2 = [lo EXCEPT ![c] = lo[c] + 1]
    BY DEF Up
  <1>7. /\ lo2 \in [Channels -> Nat] /\ lo2[c] = lo[c] + 1 /\ lo2[c] \in Nat
        /\ lo[c] \in Nat /\ hi[c] \in Nat /\ lo2[c] <= hi[c]
        /\ \A d \in Channels : d # c => lo2[d] = lo[d]
    <2>1. lo[c] \in Nat /\ hi[c] \in Nat /\ lo[c] + 1 \in Nat /\ lo[c] + 1 <= hi[c]
      BY <1>2, <1>4, <1>5
    <2> QED BY <1>2, <1>4, <1>6, <2>1
  <1>8. \A d \in Channels : \A i \in Cells(lo2, hi, d) : i \in Cells(lo, hi, d) /\ (d = c => i # lo[c])
    <2> TAKE d \in Channels
    <2> TAKE i \in Cells(lo2, hi, d)
    <2>1. CASE d = c
      BY <1>7, <2>1 DEF Cells
    <2>2. CASE d # c
      BY <1>7, <2>2 DEF Cells
    <2> QED BY <2>1, <2>2
  <1>9. root'[c] = (IF lo2[c] = hi[c] THEN None ELSE cell[c][lo2[c]])
        /\ (root'[c] = None <=> lo2[c] = hi[c])
        /\ \A d \in Channels : d # c => root'[d] = root[d] /\ tail'[d] = tail[d]
    <2>1. lo2[c] = hi[c] <=> lo[c] = hi[c] - 1
      BY <1>7
    <2>2. root'[c] = next[n] /\ \A d \in Channels : d # c => root'[d] = root[d] /\ tail'[d] = tail[d]
      BY <1>2, <1>3, <1>4
    <2>3. lo2[c] # hi[c] => cell[c][lo2[c]] # None
      <3>1. cell[c][lo2[c]] \in Nodes
        BY <1>2, <1>4, <1>7
      <3> QED BY <3>1
    <2> QED BY <1>5, <1>7, <2>1, <2>2, <2>3
  <1>10. tail'[c] = (IF lo2[c] = hi[c] THEN None ELSE cell[c][hi[c] - 1])
    BY <1>2, <1>3, <1>4, <1>5, <1>9
  <1>11. Lists(cell, lo2, hi)'
    <2>1. ASSUME NEW d \in Channels
          PROVE  ListOf(d, cell, lo2, hi)'
      <3>1. ListOf(d, cell, lo, hi)
        BY <1>4
      <3>2. lo2[d] \in Nat /\ hi[d] \in Nat /\ lo2[d] <= hi[d]
        BY <1>4, <1>7
      <3>3. /\ root'[d] = (IF lo2[d] = hi[d] THEN None ELSE cell[d][lo2[d]])
            /\ tail'[d] = (IF lo2[d] = hi[d] THEN None ELSE cell[d][hi[d] - 1])
        <4>1. CASE d = c
          BY <1>9, <1>10, <4>1
        <4>2. CASE d # c
          BY <1>7, <1>9, <3>1, <4>2 DEF ListOf
        <4> QED BY <4>1, <4>2
      <3>4. \A i \in Cells(lo2, hi, d) :
              /\ cell[d][i] \in Nodes
              /\ next[cell[d][i]] = IF i = hi[d] - 1 THEN None ELSE cell[d][i + 1]
              /\ cell[d][i] \in Channels => parent[cell[d][i]] = d
        BY <1>8, <3>1 DEF ListOf
      <3> QED BY <1>3, <3>2, <3>3, <3>4 DEF ListOf, Cells
    <2>2. \A d, e \in Channels : \A i \in Cells(lo2, hi, d), j \in Cells(lo2, hi, e) :
            cell[d][i] = cell[e][j] => d = e /\ i = j
      BY <1>1, <1>8 DEF Lists
    <2> QED BY <1>4, <1>7, <2>1, <2>2 DEF Lists, Cells
  <1>12. root' \in [Channels -> Nodes \cup {None}] /\ tail' \in [Channels -> Nodes \cup {None}]
    BY <1>2, <1>3, <1>4
  <1> QED BY ONLY <1>4, <1>5, <1>7, <1>8, <1>9, <1>11, <1>12

\* The first cell is given up; an empty channel is let go.
LEMMA DropStep ==
    ASSUME IInv, NEW w \in Workers, Drop(w)
    PROVE  IInv'
  <1> USE NodesAssumption
  <1>0. PICK n, c, k : n = Served(w) /\ c = Serving(w) /\ k = Len(path[w])
    OBVIOUS
  <1>1. PICK cell, lo, hi, kind, who : Ghost(cell, lo, hi, kind, who)
    BY DEF IInv
  <1>2. /\ path[w] \in Seq(Nodes) /\ k \in Nat /\ k >= 2
        /\ pc[w] = "back" /\ w \in Threads /\ ~more[w]
        /\ n = path[w][k] /\ n \in Nodes /\ c = path[w][k - 1] /\ c \in Channels /\ c \in Nodes
        /\ root[c] = n
    <2>1. Plain /\ InChannel(w) /\ ~more[w]
      BY DEF Drop, IInv
    <2> QED BY <1>0, <2>1, InChannelFacts DEF Nodes
  <1>3. /\ root' = [root EXCEPT ![c] = next[n]]
        /\ tail' = (IF root'[c] = None THEN [tail EXCEPT ![c] = None] ELSE tail)
        /\ more' = [more EXCEPT ![w] = (root'[c] # None)]
        /\ StepOut(w)
        /\ UNCHANGED <<parent, next, owner, tasks, post, waiting, held, bad, arrived, overtaken>>
        /\ more \in [Workers -> BOOLEAN]
    BY <1>0, <1>2 DEF Drop, PopFront, objectVars, IInv, Plain, TypeOK
  <1>5. TypeOK /\ Lists(cell, lo, hi) /\ PopFront(c)
    BY <1>0, <1>1 DEF IInv, Plain, Ghost, Drop
  <1>6. PICK lo2 : lo2 = Up(c, lo)
    OBVIOUS
  <1>7. /\ Lists(cell, lo2, hi)'
        /\ lo[c] < hi[c] /\ cell[c][lo[c]] = n
        /\ lo \in [Channels -> Nat] /\ hi \in [Channels -> Nat] /\ cell \in [Channels -> [Nat -> Nodes]]
        /\ \A d \in Channels : ListOf(d, cell, lo, hi)
        /\ lo2[c] = lo[c] + 1 /\ lo2[c] <= hi[c] /\ \A d \in Channels : d # c => lo2[d] = lo[d]
        /\ \A d \in Channels : \A i \in Cells(lo2, hi, d) :
              i \in Cells(lo, hi, d) /\ (d = c => i # lo[c])
        /\ (root'[c] = None <=> lo2[c] = hi[c])
        /\ \A d \in Channels : d # c => root'[d] = root[d]
        /\ root' \in [Channels -> Nodes \cup {None}] /\ tail' \in [Channels -> Nodes \cup {None}]
    BY ONLY <1>2, <1>3, <1>5, <1>6, LeaveLists
  <1>12. /\ path' \in [Workers -> Seq(Nodes)]
         /\ \A v \in Workers : v # w => path'[v] = path[v]
         /\ k = 2 /\ lo2[c] = hi[c] => path'[w] = <<>>
         /\ ~(k = 2 /\ lo2[c] = hi[c]) =>
               /\ path'[w] # <<>> /\ Len(path'[w]) = k - 1 /\ pc'[w] = "back"
               /\ \A i \in 1 .. k - 1 : path'[w][i] = path[w][i]
         /\ \A v \in Workers : v # w => pc'[v] = pc[v]
         /\ pc' \in [Threads -> Labels]
         /\ Paths' /\ Apart' /\ Posts' /\ Tasks'
    <2>1. Plain /\ InChannel(w)
      BY DEF IInv, Drop
    <2>2. \A d \in Channels : d # Serving(w) => root'[d] = root[d]
      BY <1>0, <1>7
    <2>3. \A v \in Workers : v # w => more'[v] = more[v]
      BY <1>3
    <2>4. more'[w] <=> lo2[c] # hi[c]
      BY <1>3, <1>7
    <2> QED BY <1>0, <1>2, <1>3, <2>1, <2>2, <2>3, <2>4, StepBack
  <1>13. TypeOK'
    <2>1. /\ more' \in [Workers -> BOOLEAN] /\ root' \in [Channels -> Nodes \cup {None}]
          /\ tail' \in [Channels -> Nodes \cup {None}]
      BY <1>2, <1>3, <1>7
    <2> QED BY <1>3, <1>12, <2>1 DEF IInv, Plain, TypeOK, Labels
  <1>14. Counts'
    BY <1>3 DEF IInv, Plain, Counts
  <1>15. /\ LettingGo(w)' <=> lo2[c] = hi[c] /\ k # 2
         /\ \A v \in Workers : v # w => Serving(v)' = Serving(v) /\ (LettingGo(v)' <=> LettingGo(v))
    BY <1>2, <1>3, <1>7, <1>12 DEF LettingGo, Serving
  <1>16. /\ k - 1 = 1 => kind[c] = "head" /\ who[c] = w
         /\ k - 1 > 1 => kind[c] = "line" /\ who[c] = path[w][k - 2] /\ Serving(w)' = path[w][k - 2]
    <2>1. Plain /\ k - 1 \in 1 .. Len(path[w]) /\ k - 1 < Len(path[w])
      BY <1>0, <1>2 DEF IInv
    <2>2. /\ k - 1 = 1 => kind[path[w][k - 1]] = "head" /\ who[path[w][k - 1]] = w
          /\ k - 1 > 1 => kind[path[w][k - 1]] = "line" /\ who[path[w][k - 1]] = path[w][(k - 1) - 1]
      BY <1>1, <2>1, Claimed
    <2>3. (k - 1) - 1 = k - 2
      BY <1>2
    <2>4. k - 1 > 1 => Serving(w)' = path[w][k - 2]
      <3> SUFFICES ASSUME k - 1 > 1 PROVE Serving(w)' = path[w][k - 2]
        OBVIOUS
      <3>1. Len(path'[w]) = k - 1 /\ k - 2 \in 1 .. k - 1 /\ (k - 1) - 1 = k - 2
        BY <1>2, <1>12
      <3> QED BY <1>2, <1>12, <3>1 DEF Serving
    <2> QED BY <1>2, <2>2, <2>3, <2>4
  <1>17. kind[c] \in {"head", "line"}
    BY <1>2, <1>16
  <1>18. PICK k2 : k2 = [kind EXCEPT ![c] = IF lo2[c] = hi[c] THEN "none" ELSE kind[c]]
    OBVIOUS
  <1>19. /\ k2 \in [Nodes -> Kinds] /\ (lo2[c] # hi[c] => k2 = kind) /\ (lo2[c] = hi[c] => k2[c] = "none")
         /\ \A m \in Nodes : m # c => k2[m] = kind[m]
    BY <1>1, <1>2, <1>18 DEF Ghost, Claims, Kinds
  <1>20. Claims(cell, lo2, hi, k2, who)'
    <2> USE <1>1, <1>3 DEF Ghost, Claims
    <2>1. \A u \in Threads : post[u] # None => k2[post[u]] = "post" /\ who[post[u]] = u
      <3> TAKE u \in Threads
      <3> HAVE post[u] # None
      <3>1. post[u] \in Nodes
        BY DEF IInv, Plain, TypeOK
      <3>2. kind[post[u]] = "post" /\ who[post[u]] = u
        OBVIOUS
      <3> QED BY <1>17, <1>19, <3>1, <3>2
    <2>2. \A i \in 1 .. Len(tasks) : k2[tasks[i]] = "task"
      <3> TAKE i \in 1 .. Len(tasks)
      <3>1. kind[tasks[i]] = "task" /\ tasks[i] \in Nodes
        BY SeqFacts DEF IInv, Plain, TypeOK
      <3> QED BY <1>17, <1>19, <3>1
    <2>3. \A v \in Workers : path'[v] # <<>> /\ (Len(path'[v]) > 1 \/ ~LettingGo(v)') =>
             k2[path'[v][1]] = "head" /\ who[path'[v][1]] = v
      <3> TAKE v \in Workers
      <3> HAVE path'[v] # <<>> /\ (Len(path'[v]) > 1 \/ ~LettingGo(v)')
      <3>1. CASE v # w
        <4>1. kind[path[v][1]] = "head" /\ who[path[v][1]] = v /\ path'[v] = path[v] /\ path[v] # <<>>
          BY <1>12, <1>15, <3>1
        <4>2. path[v] \in Seq(Nodes) /\ path[v][1] \in Nodes /\ 1 \in 1 .. Len(path[v])
          BY <4>1 DEF IInv, Plain, TypeOK
        <4>3. path[v][1] # c
          <5>1. Plain /\ InChannel(w)
            BY DEF IInv, Drop
          <5> QED BY <1>0, <3>1, <4>2, <5>1, OneServes
        <4> QED BY <1>19, <4>1, <4>2, <4>3
      <3>2. CASE v = w /\ k - 1 = 1
        <4>1. lo2[c] # hi[c]
          BY <1>2, <1>12, <3>2
        <4>2. path'[w][1] = c
          BY <1>2, <1>12, <3>2, <4>1
        <4> QED BY <1>16, <1>19, <3>2, <4>1, <4>2
      <3>3. CASE v = w /\ k - 1 > 1
        <4>1. path'[w][1] = path[w][1] /\ path[w][1] \in Nodes
          <5>1. 1 \in 1 .. k - 1 /\ 1 \in 1 .. k
            BY <1>2
          <5>2. path[w][1] \in Nodes
            BY <1>0, <1>2, <5>1, SeqFacts
          <5> QED BY <1>2, <1>12, <3>3, <5>1, <5>2
        <4>2. kind[path[w][1]] = "head" /\ who[path[w][1]] = w
          <5>1. path[w] # <<>> /\ Len(path[w]) > 1
            BY <1>0, <1>2
          <5> QED BY <5>1
        <4>3. path[w][1] # c
          <5>1. PathOf(w) /\ 1 \in 1 .. Len(path[w]) /\ k - 1 \in 1 .. Len(path[w]) /\ k - 1 # 1
            <6>1. 1 \in 1 .. k /\ k - 1 \in 1 .. k /\ k - 1 # 1
              BY <1>2, <3>3
            <6> QED BY <1>0, <6>1 DEF IInv, Plain, Paths
          <5> QED BY <1>2, <5>1 DEF PathOf
        <4> QED BY <1>19, <3>3, <4>1, <4>2, <4>3
      <3> QED BY <1>2, <3>1, <3>2, <3>3
    <2>4. \A d \in Channels : \A i \in Cells(lo2, hi, d) :
            \/ k2[cell[d][i]] = "line" /\ who[cell[d][i]] = d
            \/ i = lo2[d] /\ \E v \in Workers : Len(path'[v]) > 1 /\ Serving(v)' = d /\ LettingGo(v)'
      <3> TAKE d \in Channels
      <3> TAKE i \in Cells(lo2, hi, d)
      <3>0. i \in Cells(lo, hi, d) /\ cell[d][i] \in Nodes
        BY <1>7 DEF Lists, ListOf
      <3>1. CASE \E v \in Workers : i = lo[d] /\ Len(path[v]) > 1 /\ Serving(v) = d /\ LettingGo(v)
        <4>1. PICK v \in Workers : i = lo[d] /\ Len(path[v]) > 1 /\ Serving(v) = d /\ LettingGo(v)
          BY <3>1
        <4>2. d # c
          BY <1>7, <4>1
        <4>3. v # w
          BY <1>0, <4>1, <4>2
        <4> QED BY <1>7, <1>12, <1>15, <4>1, <4>2, <4>3
      <3>2. CASE kind[cell[d][i]] = "line" /\ who[cell[d][i]] = d /\ cell[d][i] # c
        BY <1>19, <3>0, <3>2
      <3>3. CASE kind[c] = "line" /\ who[c] = d /\ cell[d][i] = c
        <4>1. k - 1 > 1 /\ d = path[w][k - 2] /\ Serving(w)' = d
          BY <1>2, <1>16, <3>3
        <4>2. CASE lo2[c] # hi[c]
          BY <1>19, <3>3, <4>2
        <4>3. CASE lo2[c] = hi[c]
          <5>1. PathOf(w) /\ k - 2 \in 1 .. Len(path[w]) - 1 /\ (k - 2) + 1 = k - 1
            BY <1>0, <1>2, <4>1 DEF IInv, Plain, Paths
          <5>2. root[d] = c
            BY <1>2, <4>1, <5>1 DEF PathOf
          <5>3. d # c
            <6>1. k - 2 \in 1 .. Len(path[w]) /\ k - 1 \in 1 .. Len(path[w]) /\ k - 2 # k - 1
              BY <1>0, <1>2, <4>1
            <6> QED BY <1>2, <4>1, <5>1, <6>1 DEF PathOf
          <5>4. ListOf(d, cell, lo, hi) /\ root[d] # None
            BY <1>2, <1>7, <5>2
          <5>5. lo[d] \in Cells(lo, hi, d) /\ cell[d][lo[d]] = c
            BY <5>2, <5>4 DEF ListOf, Cells
          <5>6. i = lo[d] /\ lo2[d] = lo[d]
            BY <1>7, <3>0, <3>3, <5>3, <5>5 DEF Lists
          <5>7. Len(path'[w]) > 1
            BY <1>2, <1>12, <4>1
          <5> QED BY <1>2, <1>15, <4>1, <4>3, <5>6, <5>7
        <4> QED BY <4>2, <4>3
      <3> QED BY <3>0, <3>1, <3>2, <3>3
    <2>5. \A o \in Objects : k2[o] # "none" => held[o]
      BY <1>2, <1>19 DEF Nodes
    <2>6. \A d \in Channels : k2[d] # "none" => lo2[d] < hi[d]
      <3> TAKE d \in Channels
      <3> HAVE k2[d] # "none"
      <3>1. CASE d = c
        BY <1>7, <1>19, <3>1
      <3>2. CASE d # c
        BY <1>7, <1>19, <3>2 DEF Nodes
      <3> QED BY <3>1, <3>2
    <2> QED BY <1>19, <2>1, <2>2, <2>3, <2>4, <2>5, <2>6 DEF Cells, Kinds
  <1> QED BY <1>7, <1>12, <1>13, <1>14, <1>20 DEF IInv, Plain, Ghost

-----------------------------------------------------------------------------
\* No worker follows a null pointer.
LEMMA NoCrash ==
    ASSUME IInv, NEW w \in Workers
    PROVE  ~Crash(w)
  <1>1. Plain
    BY DEF IInv
  <1>2. ~(pc[w] = "front" /\ root[Last(path[w])] \in Range(path[w]) \cup {None})
    BY FrontNode
  <1>3. ~(InChannel(w) /\ root[Serving(w)] = None)
    BY <1>1, InChannelFacts, NodesAssumption DEF Nodes
  <1> QED BY <1>2, <1>3 DEF Crash

\* Every step that overtakes no node keeps the invariant.
LEMMA StepInv == IInv /\ ~overtaken' /\ [Next]_vars => IInv'
  <1> SUFFICES ASSUME IInv, ~overtaken', [Next]_vars PROVE IInv'
    OBVIOUS
  <1>1. ASSUME NEW t \in Threads, Post(t)
        PROVE  IInv'
    BY <1>1, PoolStep, ChannelStep DEF Post
  <1>2. ASSUME NEW t \in Io, NEW o \in Objects, Receive(t, o) \/ GoBad(t, o)
        PROVE  IInv'
    BY <1>2, ReceiveStep, GoBadStep
  <1>3. ASSUME NEW w \in Workers, WorkerStep(w)
        PROVE  IInv'
    <2>1. CASE Take(w)
      BY <2>1, TakeStep
    <2>2. CASE TakeFront(w)
      BY <2>2, TakeFrontStep
    <2>3. CASE Stay(w) \/ Detach(w) \/ \E c \in Channels : Attach(w, c)
      BY <2>3, AnyHandleStep
    <2>4. CASE DoClose(w)
      BY <2>4, DoCloseStep
    <2>5. CASE LeaveObject(w)
      BY <2>5, LeaveStep
    <2>6. CASE Requeue(w)
      BY <2>6, RequeueStep
    <2>7. CASE PostElsewhere(w)
      BY <2>7, PostElsewhereStep
    <2>8. CASE Drop(w)
      BY <2>8, DropStep
    <2>9. CASE Return(w)
      BY <2>9, ReturnStep
    <2> QED BY <1>3, <2>1, <2>2, <2>3, <2>4, <2>5, <2>6, <2>7, <2>8, <2>9, NoCrash DEF WorkerStep
  <1>4. CASE UNCHANGED vars
    <2>1. PICK cell, lo, hi, kind, who : Ghost(cell, lo, hi, kind, who)
      BY DEF IInv
    <2>2. UNCHANGED <<parent, next, root, tail, owner, waiting, held, bad, arrived, tasks, pc, post, path, more,
                      overtaken>>
      BY <1>4 DEF vars
    <2>3. TypeOK' /\ Apart' /\ Tasks' /\ Counts'
      BY <2>2 DEF IInv, Plain, TypeOK, Apart, Tasks, Counts
    <2>4. Paths' /\ Posts'
      BY <2>2 DEF IInv, Plain, Paths, PathOf, Posts
    <2>5. Lists(cell, lo, hi)'
      <3>1. UNCHANGED <<parent, next, root, tail>> /\ Lists(cell, lo, hi)
        BY <2>1, <2>2 DEF Ghost
      <3> QED BY ONLY <3>1 DEF Lists, ListOf, Cells
    <2>6. Claims(cell, lo, hi, kind, who)'
      BY <2>1, <2>2 DEF Ghost, Claims, Cells, Serving, LettingGo
    <2> QED BY <2>3, <2>4, <2>5, <2>6 DEF IInv, Plain, Ghost
  <1> QED BY <1>1, <1>2, <1>3, <1>4 DEF Next

\* The invariant means that each channel and each handled object has one worker,
LEMMA InvServedByOne == IInv => ServedByOne
  <1> USE NodesAssumption
  <1> SUFFICES ASSUME IInv, NEW w \in Workers, NEW v \in Workers, w # v
               PROVE  /\ Inside(w) \cap Inside(v) = {}
                      /\ pc[w] = "handle" /\ pc[v] = "handle" => Served(w) # Served(v)
    BY DEF ServedByOne
  <1>1. PICK cell, lo, hi, kind, who : Ghost(cell, lo, hi, kind, who)
    BY DEF IInv
  <1>2. path[w] \in Seq(Nodes) /\ path[v] \in Seq(Nodes)
    BY DEF IInv, Plain, TypeOK
  <1>3. Inside(w) \cap Inside(v) = {}
    <2>1. ASSUME NEW u \in Workers
          PROVE  \A n \in Inside(u) : n \in Channels /\ \E i \in 1 .. Len(path[u]) : n = path[u][i]
      <3> TAKE n \in Inside(u)
      <3>1. PICK i \in DOMAIN path[u] : n = path[u][i] /\ (i < Len(path[u]) \/ pc[u] = "front")
        BY DEF Inside
      <3>2. path[u] \in Seq(Nodes) /\ PathOf(u)
        BY DEF IInv, Plain, TypeOK, Paths
      <3>3. i \in 1 .. Len(path[u]) /\ Len(path[u]) \in Nat
        BY <3>2
      <3>4. CASE i \in 1 .. Len(path[u]) - 1
        BY <3>1, <3>2, <3>3, <3>4 DEF PathOf
      <3>5. CASE i = Len(path[u]) /\ pc[u] = "front"
        <4>1. path[u] # <<>> /\ Last(path[u]) \in Channels
          BY <3>2, <3>5 DEF PathOf
        <4>2. Last(path[u]) = path[u][Len(path[u])]
          BY <3>2, <4>1, FrontLast
        <4> QED BY <3>1, <3>3, <3>5, <4>1, <4>2
      <3> QED BY <3>1, <3>3, <3>4, <3>5
    <2> QED BY <2>1 DEF IInv, Plain, Apart
  <1>4. ASSUME NEW u \in Workers, pc[u] = "handle"
        PROVE  \/ kind[Served(u)] = "head" /\ who[Served(u)] = u
               \/ /\ kind[Served(u)] = "line"
                  /\ \E i \in 1 .. Len(path[u]) : path[u][i] \in Channels /\ path[u][i] = who[Served(u)]
    <2>1. PICK k : k = Len(path[u])
      OBVIOUS
    <2>2. PathOf(u) /\ path[u] \in Seq(Nodes) /\ path[u] # <<>> /\ ~LettingGo(u)
      BY <1>4 DEF IInv, Plain, Paths, PathOf, TypeOK, LettingGo
    <2>3. k \in Nat \ {0} /\ Served(u) = path[u][k] /\ k \in 1 .. Len(path[u])
      <3>1. Len(path[u]) \in Nat \ {0} /\ Last(path[u]) = path[u][Len(path[u])]
        BY <2>2, FrontLast
      <3> QED BY <2>1, <3>1 DEF Served
    <2>4. /\ k = 1 => kind[path[u][k]] = "head" /\ who[path[u][k]] = u
          /\ k > 1 => kind[path[u][k]] = "line" /\ who[path[u][k]] = path[u][k - 1]
      <3>1. Plain
        BY DEF IInv
      <3> QED BY <1>1, <2>2, <2>3, <3>1, Claimed
    <2>5. k > 1 => k - 1 \in 1 .. Len(path[u]) /\ path[u][k - 1] \in Channels
      BY <2>1, <2>2, <2>3 DEF PathOf
    <2> QED BY <2>3, <2>4, <2>5
  <1>5. ASSUME pc[w] = "handle", pc[v] = "handle", Served(w) = Served(v)
        PROVE  FALSE
    <2>1. PICK n : n = Served(w)
      OBVIOUS
    <2>2. CASE kind[n] = "head"
      BY <1>4, <1>5, <2>1, <2>2
    <2>3. CASE kind[n] = "line"
      <3>1. PICK i \in 1 .. Len(path[w]) : path[w][i] \in Channels /\ path[w][i] = who[n]
        BY <1>4, <1>5, <2>1, <2>3
      <3>2. PICK j \in 1 .. Len(path[v]) : path[v][j] = who[n]
        BY <1>4, <1>5, <2>1, <2>3
      <3> QED BY <3>1, <3>2 DEF IInv, Plain, Apart
    <2> QED BY <1>4, <1>5, <2>1, <2>2, <2>3
  <1> QED BY <1>3, <1>5

\* ... and that a channel in dispatch has a first node.
LEMMA InvFrontExists == IInv => FrontExists
  <1> SUFFICES ASSUME IInv, NEW w \in Workers
               PROVE  /\ pc[w] = "front" => root[Last(path[w])] \notin Range(path[w]) \cup {None}
                      /\ InChannel(w) /\ ~more[w] => root[Serving(w)] = Served(w)
    BY DEF FrontExists
  <1>1. Plain
    BY DEF IInv
  <1> QED BY <1>1, FrontNode, InChannelFacts

-----------------------------------------------------------------------------
(* Whatever has been overtaken *)

\* What was overtaken is not forgotten.
LEMMA Remembered == [Next]_vars /\ overtaken => overtaken'
  BY DEF Next, vars, Post, PostToPool, PostToChannel, Receive, GoBad, WorkerStep, Take, TakeFront, Stay,
         Detach, Attach, Handle, DoClose, LeaveObject, Requeue, PostElsewhere, Drop, Return, Crash

\* The shape of a path depends on the worker's own variables only.
LEMMA ShapeKept ==
    ASSUME Shape, NEW w, \A v \in Workers : v # w => pc'[v] = pc[v] /\ path'[v] = path[v]
    PROVE  \A v \in Workers : v # w => ShapeOf(v)'
  BY DEF Shape, ShapeOf

\* post_node leaves pointers in the links, wherever the node was.
LEMMA PostTypes ==
    ASSUME TypeOK, NEW c \in Channels, NEW n \in Nodes, PostNode(c, n)
    PROVE  /\ next' \in [Nodes -> Nodes \cup {None}]
           /\ root' \in [Channels -> Nodes \cup {None}]
           /\ tail' \in [Channels -> Nodes \cup {None}]
  <1>1. CASE n = root[c] /\ next[n] = None
    BY <1>1 DEF PostNode, listVars, TypeOK
  <1>2. CASE n = root[c] /\ next[n] # None
    BY <1>2 DEF PostNode, TypeOK
  <1>3. CASE n # root[c]
    BY <1>3 DEF PostNode, TypeOK
  <1> QED BY <1>1, <1>2, <1>3

\* A thread that posts
LEMMA PostShape ==
    ASSUME Shape, NEW t \in Threads, Post(t)
    PROVE  Shape'
  <1> USE NodesAssumption
  <1>1. /\ pc[t] = "post" /\ post[t] \in Nodes /\ pc \in [Threads -> Labels]
        /\ post \in [Threads -> Nodes \cup {None}] /\ parent \in [Nodes -> Channels \cup {None}]
        /\ TypeOK
    BY DEF Shape, TypeOK, Post, PostToPool, PostToChannel, Labels
  <1>2. /\ UNCHANGED <<parent, owner, path, more, waiting, held, bad, arrived>>
        /\ tasks' \in Seq(Nodes) /\ overtaken' \in BOOLEAN
        /\ next' \in [Nodes -> Nodes \cup {None}]
        /\ root' \in [Channels -> Nodes \cup {None}]
        /\ tail' \in [Channels -> Nodes \cup {None}]
        /\ \/ DonePosting(t)
           \/ post' = [post EXCEPT ![t] = parent[post[t]]] /\ pc' = pc /\ parent[post[t]] \in Channels
    <2>1. CASE PostToPool(t)
      <3>1. tasks' \in Seq(Nodes)
        BY <1>1, <2>1, AppendFacts DEF PostToPool, TypeOK
      <3> QED BY <1>1, <2>1, <3>1 DEF PostToPool, TypeOK, listVars, objectVars
    <2>2. CASE PostToChannel(t)
      <3>1. parent[post[t]] \in Channels /\ PostNode(parent[post[t]], post[t])
        BY <1>1, <2>2 DEF PostToChannel
      <3>2. /\ next' \in [Nodes -> Nodes \cup {None}]
            /\ root' \in [Channels -> Nodes \cup {None}]
            /\ tail' \in [Channels -> Nodes \cup {None}]
        BY <1>1, <3>1, PostTypes
      <3>3. overtaken' \in BOOLEAN
        BY <1>1, <2>2 DEF PostToChannel, TypeOK
      <3> QED BY <1>1, <2>2, <3>1, <3>2, <3>3 DEF PostToChannel, TypeOK, objectVars
    <2> QED BY <2>1, <2>2 DEF Post
  <1>3. /\ pc' \in [Threads -> Labels] /\ post' \in [Threads -> Nodes \cup {None}]
        /\ \A u \in Threads : u # t => pc'[u] = pc[u] /\ post'[u] = post[u]
        /\ pc'[t] = "post" => post'[t] # None
        /\ \/ pc'[t] = "post" \/ (pc'[t] = "back" /\ path[t] # <<>>)
           \/ pc'[t] = "idle" /\ (t \in Workers => path[t] = <<>>)
    <2>1. CASE DonePosting(t)
      BY <1>1, <2>1 DEF DonePosting, Goto, Labels
    <2>2. CASE post' = [post EXCEPT ![t] = parent[post[t]]] /\ pc' = pc /\ parent[post[t]] \in Channels
      BY <1>1, <2>2 DEF Nodes
    <2> QED BY <1>2, <2>1, <2>2
  <1>4. TypeOK'
    BY <1>1, <1>2, <1>3 DEF TypeOK, Labels
  <1>5. \A v \in Workers : ShapeOf(v)'
    <2>1. \A v \in Workers : v # t => ShapeOf(v)'
      <3>1. \A v \in Workers : v # t => pc'[v] = pc[v] /\ path'[v] = path[v]
        BY <1>2, <1>3 DEF Threads
      <3> QED BY <3>1, ShapeKept
    <2>2. t \in Workers => ShapeOf(t)'
      BY <1>2, <1>3 DEF Shape, ShapeOf
    <2> QED BY <2>1, <2>2
  <1> QED BY <1>2, <1>3, <1>4, <1>5 DEF Shape

\* An IO thread that has taken a token
LEMMA TokenShape ==
    ASSUME Shape, NEW t \in Io, NEW o \in Objects, Receive(t, o) \/ GoBad(t, o)
    PROVE  Shape'
  <1> USE NodesAssumption, ThreadsAssumption
  <1>1. /\ pc \in [Threads -> Labels] /\ post \in [Threads -> Nodes \cup {None}]
        /\ held \in [Objects -> BOOLEAN] /\ t \in Threads /\ t \notin Workers /\ o \in Nodes /\ o # None
        /\ waiting \in [Objects -> 0 .. MaxMessages] /\ arrived \in [Objects -> 0 .. MaxMessages]
        /\ bad \in [Objects -> BOOLEAN] /\ waiting[o] <= arrived[o] /\ TakeToken(t, o)
    BY DEF Shape, TypeOK, Labels, Threads, Nodes, Receive, GoBad
  <1>2. /\ held' \in [Objects -> BOOLEAN] /\ pc' \in [Threads -> Labels]
        /\ post' \in [Threads -> Nodes \cup {None}]
        /\ \A u \in Threads : u # t => pc'[u] = pc[u] /\ post'[u] = post[u]
        /\ (pc'[t] = pc[t] /\ post'[t] = post[t]) \/ (pc'[t] = "post" /\ post'[t] = o)
    BY <1>1 DEF TakeToken, Goto, Labels
  <1>3. /\ waiting' \in [Objects -> 0 .. MaxMessages] /\ arrived' \in [Objects -> 0 .. MaxMessages]
        /\ bad' \in [Objects -> BOOLEAN]
        /\ \A p \in Objects : waiting'[p] <= arrived'[p]
    <2>1. CASE Receive(t, o)
      <3>1. /\ waiting' = [waiting EXCEPT ![o] = waiting[o] + 1] /\ bad' = bad
            /\ arrived' = [arrived EXCEPT ![o] = arrived[o] + 1] /\ arrived[o] < MaxMessages
        BY <2>1 DEF Receive
      <3>2. waiting[o] + 1 \in 0 .. MaxMessages /\ arrived[o] + 1 \in 0 .. MaxMessages
        BY <1>1, <3>1, BoundAssumption
      <3> QED BY <1>1, <3>1, <3>2 DEF Shape
    <2>2. CASE GoBad(t, o)
      BY <1>1, <2>2 DEF GoBad, Shape
    <2> QED BY <2>1, <2>2
  <1>4. UNCHANGED <<parent, next, root, tail, owner, tasks, path, more, overtaken>>
    BY DEF Receive, GoBad, listVars
  <1>5. TypeOK'
    BY <1>2, <1>3, <1>4 DEF Shape, TypeOK, Labels
  <1>6. \A v \in Workers : v # t => ShapeOf(v)'
    <2>1. \A v \in Workers : v # t => pc'[v] = pc[v] /\ path'[v] = path[v]
      BY <1>2, <1>4 DEF Threads
    <2> QED BY <2>1, ShapeKept
  <1> QED BY <1>1, <1>2, <1>3, <1>5, <1>6 DEF Shape

\* A worker that enters a node
LEMMA EnterShape ==
    ASSUME Shape, NEW w \in Workers, NEW n \in Nodes, Enter(w, n),
           \A i \in 1 .. Len(path[w]) : path[w][i] \in Channels,
           UNCHANGED <<parent, post, more, overtaken, next, root, tail, waiting, held, bad, arrived>>,
           tasks' \in Seq(Nodes)
    PROVE  Shape'
  <1> USE NodesAssumption
  <1>1. /\ path \in [Workers -> Seq(Nodes)] /\ pc \in [Threads -> Labels] /\ path[w] \in Seq(Nodes)
        /\ owner \in [Objects -> Workers \cup {None}] /\ w \in Threads
    BY DEF Shape, TypeOK, Labels, Threads
  <1>2. PICK s : s = Append(path[w], n)
    OBVIOUS
  <1>3. /\ s \in Seq(Nodes) /\ s # <<>> /\ Last(s) = n /\ Len(s) = Len(path[w]) + 1 /\ Len(path[w]) \in Nat
        /\ \A i \in 1 .. Len(path[w]) : s[i] = path[w][i]
    BY <1>1, <1>2, AppendFacts
  <1>4. /\ path' = [path EXCEPT ![w] = s]
        /\ pc' = [pc EXCEPT ![w] = IF n \in Channels THEN "front" ELSE "handle"]
        /\ owner' \in [Objects -> Workers \cup {None}]
    BY <1>1, <1>2 DEF Enter, Goto
  <1>5. /\ path' \in [Workers -> Seq(Nodes)] /\ pc' \in [Threads -> Labels]
        /\ path'[w] = s /\ pc'[w] = (IF n \in Channels THEN "front" ELSE "handle")
        /\ \A v \in Workers : v # w => pc'[v] = pc[v] /\ path'[v] = path[v]
        /\ \A t \in Threads : t # w => pc'[t] = pc[t]
    BY <1>1, <1>3, <1>4 DEF Labels, Threads
  <1>6. TypeOK'
    BY <1>4, <1>5 DEF Shape, TypeOK, Labels
  <1>7. ShapeOf(w)'
    BY <1>3, <1>5 DEF ShapeOf, Nodes
  <1>8. \A v \in Workers : v # w => ShapeOf(v)'
    BY <1>5, ShapeKept
  <1> QED BY <1>5, <1>6, <1>7, <1>8 DEF Shape

\* A worker that changes neither its path nor the pool
LEMMA StayShape ==
    ASSUME Shape, NEW w \in Workers, NEW label,
           pc' = [pc EXCEPT ![w] = label], label \in {"leave", "back", "post"}, path[w] # <<>>,
           label = "leave" => Last(path[w]) \in Objects,
           label = "post" => post'[w] # None, \A t \in Threads \ {w} : post'[t] = post[t],
           UNCHANGED <<path, tasks, next, root, tail, arrived, overtaken>>,
           parent' \in [Nodes -> Channels \cup {None}], owner' \in [Objects -> Workers \cup {None}],
           waiting' \in [Objects -> 0 .. MaxMessages], held' \in [Objects -> BOOLEAN],
           bad' \in [Objects -> BOOLEAN], post' \in [Threads -> Nodes \cup {None}],
           more' \in [Workers -> BOOLEAN], \A o \in Objects : waiting'[o] <= arrived[o]
    PROVE  Shape'
  <1>1. /\ pc \in [Threads -> Labels] /\ w \in Threads /\ label \in Labels
    BY DEF Shape, TypeOK, Labels, Threads
  <1>2. /\ pc' \in [Threads -> Labels] /\ pc'[w] = label
        /\ \A t \in Threads : t # w => pc'[t] = pc[t]
    BY <1>1
  <1>3. TypeOK'
    BY <1>2 DEF Shape, TypeOK, Labels
  <1>4. ShapeOf(w)'
    BY <1>2 DEF Shape, ShapeOf
  <1>5. \A v \in Workers : v # w => ShapeOf(v)'
    <2>1. \A v \in Workers : v # w => pc'[v] = pc[v] /\ path'[v] = path[v]
      BY <1>2 DEF Threads
    <2> QED BY <2>1, ShapeKept
  <1> QED BY <1>2, <1>3, <1>4, <1>5 DEF Shape

\* A worker that leaves a node, or its task
LEMMA ShorterShape ==
    ASSUME Shape, NEW w \in Workers, pc[w] = "back", NEW s, NEW label,
           \/ s = <<>> /\ label \in {"idle", "post"}
           \/ Len(path[w]) > 1 /\ s = Front(path[w]) /\ label = "back",
           path' = [path EXCEPT ![w] = s], pc' = [pc EXCEPT ![w] = label],
           label = "post" => post'[w] # None, \A t \in Threads \ {w} : post'[t] = post[t],
           UNCHANGED <<parent, owner, tasks, overtaken, waiting, held, bad, arrived>>,
           next' \in [Nodes -> Nodes \cup {None}], root' \in [Channels -> Nodes \cup {None}],
           tail' \in [Channels -> Nodes \cup {None}], post' \in [Threads -> Nodes \cup {None}],
           more' \in [Workers -> BOOLEAN]
    PROVE  Shape'
  <1>1. /\ path \in [Workers -> Seq(Nodes)] /\ pc \in [Threads -> Labels] /\ path[w] \in Seq(Nodes)
        /\ w \in Threads /\ path[w] # <<>> /\ label \in Labels
    BY DEF Shape, ShapeOf, TypeOK, Labels, Threads
  <1>2. /\ s \in Seq(Nodes) /\ Len(s) \in Nat /\ (label = "back" => s # <<>>)
        /\ \A i \in 1 .. Len(s) : i \in 1 .. Len(path[w]) - 1 /\ s[i] = path[w][i]
    <2>1. CASE s = <<>> /\ label # "back"
      <3>1. Len(s) = 0 /\ 1 .. Len(s) = {} /\ s \in Seq(Nodes)
        BY <2>1
      <3> QED BY <2>1, <3>1
    <2>2. CASE s = Front(path[w]) /\ Len(path[w]) > 1
      <3>1. /\ Len(path[w]) \in Nat /\ s \in Seq(Nodes) /\ Len(s) = Len(path[w]) - 1
            /\ \A i \in 1 .. Len(path[w]) - 1 : s[i] = path[w][i]
            /\ s = <<>> <=> Len(path[w]) = 1
        BY <1>1, <2>2, FrontLast
      <3> QED BY <2>2, <3>1
    <2> QED BY <2>1, <2>2
  <1>3. /\ path' \in [Workers -> Seq(Nodes)] /\ pc' \in [Threads -> Labels]
        /\ path'[w] = s /\ pc'[w] = label
        /\ \A t \in Threads : t # w => pc'[t] = pc[t]
        /\ \A v \in Workers : v # w => pc'[v] = pc[v] /\ path'[v] = path[v]
    BY <1>1, <1>2 DEF Threads
  <1>4. TypeOK'
    BY <1>3 DEF Shape, TypeOK, Labels
  <1>5. ShapeOf(w)'
    <2>1. \A i \in 1 .. Len(s) - 1 : s[i] \in Channels
      <3> TAKE i \in 1 .. Len(s) - 1
      <3>1. i \in 1 .. Len(s)
        BY <1>2
      <3>2. i \in 1 .. Len(path[w]) - 1 /\ s[i] = path[w][i]
        BY <1>2, <3>1
      <3> QED BY <3>2 DEF Shape, ShapeOf
    <2> QED BY <1>2, <1>3, <2>1 DEF ShapeOf
  <1>6. \A v \in Workers : v # w => ShapeOf(v)'
    BY <1>3, ShapeKept
  <1> QED BY <1>3, <1>4, <1>5, <1>6 DEF Shape

\* A handler runs, or its object is closed.
LEMMA HandledShape ==
    ASSUME Shape, NEW w \in Workers,
           Stay(w) \/ Detach(w) \/ (\E c \in Channels : Attach(w, c)) \/ DoClose(w)
    PROVE  Shape'
  <1>0. PICK o : o = Last(path[w])
    OBVIOUS
  <1>1. /\ pc[w] = "handle" /\ o \in Objects /\ o \in Nodes /\ path[w] # <<>>
        /\ waiting \in [Objects -> 0 .. MaxMessages] /\ arrived \in [Objects -> 0 .. MaxMessages]
        /\ held \in [Objects -> BOOLEAN] /\ bad \in [Objects -> BOOLEAN]
        /\ more \in [Workers -> BOOLEAN] /\ parent \in [Nodes -> Channels \cup {None}]
        /\ post \in [Threads -> Nodes \cup {None}] /\ owner \in [Objects -> Workers \cup {None}]
        /\ \A p \in Objects : waiting[p] <= arrived[p]
    BY <1>0 DEF Stay, Detach, Attach, Handle, DoClose, Shape, ShapeOf, TypeOK, Nodes
  <1>2. CASE DoClose(w)
    <2>1. /\ pc' = [pc EXCEPT ![w] = "leave"] /\ parent' = [parent EXCEPT ![o] = None]
          /\ more' = [more EXCEPT ![w] = FALSE]
          /\ UNCHANGED <<path, tasks, next, root, tail, waiting, held, bad, arrived, owner, post, overtaken>>
      BY <1>0, <1>2 DEF DoClose, Goto, listVars, objectVars
    <2> QED BY <1>0, <1>1, <2>1, StayShape
  <1>3. ASSUME NEW home \in Channels \cup {None}, Handle(w, home)
        PROVE  Shape'
    <2>1. PICK left : left = IF waiting[o] = 0 THEN 0 ELSE waiting[o] - 1
      OBVIOUS
    <2>2. /\ pc' = [pc EXCEPT ![w] = "leave"] /\ parent' = [parent EXCEPT ![o] = home]
          /\ waiting' = [waiting EXCEPT ![o] = left]
          /\ held' = [held EXCEPT ![o] = (waiting'[o] > 0)]
          /\ more' = [more EXCEPT ![w] = (waiting'[o] > 0)]
          /\ UNCHANGED <<path, tasks, next, root, tail, bad, arrived, owner, post, overtaken>>
      BY <1>0, <1>3, <2>1 DEF Handle, Goto, listVars
    <2>3. left \in 0 .. MaxMessages /\ left <= arrived[o]
      BY <1>1, <2>1, BoundAssumption
    <2>4. /\ waiting' \in [Objects -> 0 .. MaxMessages]
          /\ \A p \in Objects : waiting'[p] <= arrived[p]
      BY <1>1, <2>2, <2>3
    <2>5. /\ held' \in [Objects -> BOOLEAN] /\ more' \in [Workers -> BOOLEAN]
          /\ parent' \in [Nodes -> Channels \cup {None}]
      BY <1>1, <2>2
    <2> QED BY <1>0, <1>1, <2>2, <2>4, <2>5, StayShape
  <1>4. parent[Last(path[w])] \in Channels \cup {None}
    BY <1>0, <1>1
  <1> QED BY <1>2, <1>3, <1>4 DEF Stay, Detach, Attach

\* A step of a worker
LEMMA WorkerShape ==
    ASSUME Shape, NEW w \in Workers, WorkerStep(w)
    PROVE  Shape'
  <1> USE NodesAssumption
  <1>1. /\ path[w] \in Seq(Nodes) /\ Len(path[w]) \in Nat /\ tasks \in Seq(Nodes) /\ w \in Threads
        /\ parent \in [Nodes -> Channels \cup {None}] /\ owner \in [Objects -> Workers \cup {None}]
        /\ waiting \in [Objects -> 0 .. MaxMessages] /\ held \in [Objects -> BOOLEAN]
        /\ bad \in [Objects -> BOOLEAN] /\ post \in [Threads -> Nodes \cup {None}]
        /\ more \in [Workers -> BOOLEAN] /\ pc \in [Threads -> Labels]
        /\ next \in [Nodes -> Nodes \cup {None}] /\ root \in [Channels -> Nodes \cup {None}]
        /\ tail \in [Channels -> Nodes \cup {None}]
        /\ (\A o \in Objects : waiting[o] <= arrived[o]) /\ TypeOK
    BY DEF Shape, TypeOK, Threads, Labels
  <1>2. pc[w] \in {"front", "leave", "back"} =>
          /\ path[w] # <<>> /\ Len(path[w]) >= 1 /\ Last(path[w]) = path[w][Len(path[w])]
          /\ Last(path[w]) \in Nodes
          /\ \A i \in 1 .. Len(path[w]) - 1 : path[w][i] \in Channels
    <2> HAVE pc[w] \in {"front", "leave", "back"}
    <2>1. path[w] # <<>> /\ \A i \in 1 .. Len(path[w]) - 1 : path[w][i] \in Channels
      BY DEF Shape, ShapeOf
    <2>2. /\ Len(path[w]) \in Nat \ {0} /\ Last(path[w]) = path[w][Len(path[w])]
          /\ Last(path[w]) \in Nodes
      BY <1>1, <2>1, FrontLast
    <2> QED BY <2>1, <2>2
  <1>3. CASE Take(w)
    <2>1. CASE path[w] = <<>>
      <3>1. /\ tasks # <<>> /\ Enter(w, Head(tasks)) /\ tasks' = Tail(tasks)
            /\ UNCHANGED <<parent, post, more, overtaken, next, root, tail, waiting, held, bad, arrived>>
        BY <1>3 DEF Take, listVars, objectVars
      <3>2. Head(tasks) \in Nodes /\ Tail(tasks) \in Seq(Nodes)
        BY <1>1, <3>1, TailFacts
      <3> QED BY <2>1, <3>1, <3>2, EnterShape
    <2> QED BY <1>3, <2>1 DEF Take, Shape, ShapeOf
  <1>4. CASE TakeFront(w)
    <2>1. /\ pc[w] = "front" /\ root[Last(path[w])] # None /\ Enter(w, root[Last(path[w])])
          /\ UNCHANGED <<parent, post, more, overtaken, tasks, next, root, tail, waiting, held, bad, arrived>>
      BY <1>4 DEF TakeFront, listVars, objectVars
    <2>2. Last(path[w]) \in Channels
      BY <2>1 DEF Shape, ShapeOf
    <2>3. root[Last(path[w])] \in Nodes
      BY <1>1, <2>1, <2>2
    <2>4. \A i \in 1 .. Len(path[w]) : path[w][i] \in Channels
      BY <1>1, <1>2, <2>1, <2>2
    <2> QED BY <1>1, <2>1, <2>3, <2>4, EnterShape
  <1>5. CASE Stay(w) \/ Detach(w) \/ (\E c \in Channels : Attach(w, c)) \/ DoClose(w)
    BY <1>5, HandledShape
  <1>6. CASE LeaveObject(w)
    <2>1. /\ pc[w] = "leave" /\ owner' = [owner EXCEPT ![Last(path[w])] = None]
          /\ pc' = [pc EXCEPT ![w] = "back"]
          /\ UNCHANGED <<parent, tasks, post, path, more, overtaken, next, root, tail, waiting, held, bad,
                         arrived>>
      BY <1>6 DEF LeaveObject, Goto, listVars, objectVars
    <2>2. owner' \in [Objects -> Workers \cup {None}]
      BY <1>1, <2>1
    <2>3. \A t \in Threads \ {w} : post'[t] = post[t]
      BY <2>1
    <2> QED BY <1>1, <1>2, <2>1, <2>2, <2>3, StayShape
  <1>7. CASE Requeue(w)
    <2>1. /\ pc[w] = "back" /\ Len(path[w]) > 1 /\ PostNode(Serving(w), Served(w))
          /\ more' \in [Workers -> BOOLEAN] /\ path' = [path EXCEPT ![w] = Front(path[w])]
          /\ UNCHANGED <<parent, owner, tasks, pc, post, overtaken, waiting, held, bad, arrived>>
      BY <1>1, <1>7 DEF Requeue, InChannel, objectVars, PostsChannel
    <2>2. Serving(w) \in Channels /\ Served(w) \in Nodes
      <3>1. Len(path[w]) - 1 \in 1 .. Len(path[w]) - 1
        BY <1>1, <2>1
      <3> QED BY <1>2, <2>1, <3>1 DEF Serving, Served
    <2>3. /\ next' \in [Nodes -> Nodes \cup {None}] /\ root' \in [Channels -> Nodes \cup {None}]
          /\ tail' \in [Channels -> Nodes \cup {None}]
      BY <1>1, <2>1, <2>2, PostTypes
    <2>4. pc' = [pc EXCEPT ![w] = "back"] /\ \A t \in Threads \ {w} : post'[t] = post[t]
      BY <1>1, <2>1
    <2>5. post' \in [Threads -> Nodes \cup {None}]
      BY <1>1, <2>1
    <2> QED BY <2>1, <2>3, <2>4, <2>5, ShorterShape
  <1>8. CASE PostElsewhere(w)
    <2>1. /\ pc[w] = "back" /\ post' = [post EXCEPT ![w] = Served(w)]
          /\ more' = [more EXCEPT ![w] = FALSE] /\ pc' = [pc EXCEPT ![w] = "post"]
          /\ UNCHANGED <<parent, owner, tasks, path, overtaken, next, root, tail, waiting, held, bad, arrived>>
      BY <1>8 DEF PostElsewhere, InChannel, Goto, listVars, objectVars
    <2>2. Served(w) \in Nodes /\ Served(w) # None
      BY <1>2, <2>1 DEF Served
    <2>3. /\ post' \in [Threads -> Nodes \cup {None}] /\ post'[w] = Served(w)
          /\ \A t \in Threads \ {w} : post'[t] = post[t]
          /\ more' \in [Workers -> BOOLEAN]
      BY <1>1, <2>1, <2>2
    <2> QED BY <1>1, <1>2, <2>1, <2>2, <2>3, StayShape
  <1>9. CASE Drop(w)
    <2>1. /\ pc[w] = "back" /\ Len(path[w]) > 1 /\ root[Serving(w)] # None /\ PopFront(Serving(w))
          /\ more' \in [Workers -> BOOLEAN] /\ StepOut(w)
          /\ UNCHANGED <<parent, owner, tasks, post, overtaken, waiting, held, bad, arrived>>
      BY <1>1, <1>9 DEF Drop, InChannel, objectVars
    <2>2. Serving(w) \in Channels
      <3>1. Len(path[w]) - 1 \in 1 .. Len(path[w]) - 1
        BY <1>1, <2>1
      <3> QED BY <1>2, <2>1, <3>1 DEF Serving
    <2>3. /\ next' \in [Nodes -> Nodes \cup {None}] /\ root' \in [Channels -> Nodes \cup {None}]
          /\ tail' \in [Channels -> Nodes \cup {None}]
      BY <1>1, <2>1, <2>2 DEF PopFront
    <2>4. \A t \in Threads \ {w} : post'[t] = post[t]
      BY <2>1
    <2>5. post' \in [Threads -> Nodes \cup {None}]
      BY <1>1, <2>1
    <2>6. CASE Len(path[w]) = 2 /\ ~more'[w]
      <3>1. path' = [path EXCEPT ![w] = <<>>] /\ pc' = [pc EXCEPT ![w] = "idle"]
        BY <2>1, <2>6 DEF StepOut, Goto
      <3> QED BY <2>1, <2>3, <2>4, <2>5, <3>1, ShorterShape
    <2>7. CASE ~(Len(path[w]) = 2 /\ ~more'[w])
      <3>1. path' = [path EXCEPT ![w] = Front(path[w])] /\ pc' = [pc EXCEPT ![w] = "back"]
        BY <1>1, <2>1, <2>7 DEF StepOut
      <3> QED BY <2>1, <2>3, <2>4, <2>5, <3>1, ShorterShape
    <2> QED BY <2>6, <2>7
  <1>10. CASE Return(w)
    <2>1. /\ pc[w] = "back" /\ path' = [path EXCEPT ![w] = <<>>]
          /\ UNCHANGED <<parent, owner, tasks, more, overtaken, next, root, tail, waiting, held, bad, arrived>>
          /\ \/ pc' = [pc EXCEPT ![w] = "post"] /\ post' = [post EXCEPT ![w] = Served(w)]
             \/ pc' = [pc EXCEPT ![w] = "idle"] /\ post' = post
      BY <1>10 DEF Return, Goto, listVars, objectVars
    <2>2. Served(w) \in Nodes /\ Served(w) # None
      BY <1>2, <2>1 DEF Served
    <2>3. post' \in [Threads -> Nodes \cup {None}] /\ \A t \in Threads \ {w} : post'[t] = post[t]
      BY <1>1, <2>1, <2>2
    <2>4. CASE pc' = [pc EXCEPT ![w] = "post"] /\ post' = [post EXCEPT ![w] = Served(w)]
      <3>1. post'[w] # None
        BY <1>1, <2>2, <2>4
      <3> QED BY <1>1, <2>1, <2>3, <2>4, <3>1, ShorterShape
    <2>5. CASE pc' = [pc EXCEPT ![w] = "idle"] /\ post' = post
      BY <1>1, <2>1, <2>3, <2>5, ShorterShape
    <2> QED BY <2>1, <2>4, <2>5
  <1>11. CASE Crash(w)
    <2>1. /\ pc' = [t \in Threads |-> "crashed"]
          /\ UNCHANGED <<parent, owner, tasks, post, path, more, overtaken, next, root, tail, waiting, held,
                         bad, arrived>>
      BY <1>11 DEF Crash, listVars, objectVars
    <2>2. TypeOK'
      BY <2>1 DEF Shape, TypeOK
    <2>3. ASSUME NEW v \in Workers
          PROVE  ShapeOf(v)'
      BY <2>1 DEF Shape, ShapeOf, Threads
    <2> QED BY <2>1, <2>2, <2>3 DEF Shape
  <1> QED BY <1>3, <1>4, <1>5, <1>6, <1>7, <1>8, <1>9, <1>10, <1>11 DEF WorkerStep

\* Every step keeps the shape, and the invariant up to the first node overtaken.
LEMMA SafeStep == Safe /\ [Next]_vars => Safe'
  <1> SUFFICES ASSUME Safe, [Next]_vars PROVE Safe'
    OBVIOUS
  <1>1. Shape'
    <2>1. ASSUME NEW t \in Threads, Post(t)
          PROVE  Shape'
      BY <2>1, PostShape DEF Safe
    <2>2. ASSUME NEW t \in Io, NEW o \in Objects, Receive(t, o) \/ GoBad(t, o)
          PROVE  Shape'
      BY <2>2, TokenShape DEF Safe
    <2>3. ASSUME NEW w \in Workers, WorkerStep(w)
          PROVE  Shape'
      BY <2>3, WorkerShape DEF Safe
    <2>4. CASE UNCHANGED vars
      BY <2>4 DEF Safe, Shape, ShapeOf, TypeOK, vars
    <2> QED BY <2>1, <2>2, <2>3, <2>4 DEF Next
  <1>2. ~overtaken' => IInv'
    BY StepInv, Remembered DEF Safe
  <1> QED BY <1>1, <1>2 DEF Safe

LEMMA SafeInit == Init => Safe
  <1> SUFFICES ASSUME Init PROVE Safe
    OBVIOUS
  <1>1. IInv
    BY InitInv
  <1>2. Shape
    <2>1. TypeOK /\ \A o \in Objects : waiting[o] <= arrived[o]
      BY <1>1 DEF IInv, Plain, Counts
    <2>2. ASSUME NEW w \in Workers
          PROVE  ShapeOf(w)
      <3>1. pc[w] = "idle" /\ path[w] = <<>>
        BY DEF Init, Threads
      <3>2. 1 .. Len(path[w]) - 1 = {}
        BY <3>1
      <3> QED BY <3>1, <3>2 DEF ShapeOf
    <2>3. \A t \in Threads : pc[t] # "post"
      BY DEF Init
    <2> QED BY <2>1, <2>2, <2>3 DEF Shape
  <1> QED BY <1>1, <1>2 DEF Safe

LEMMA SafeAlways == SafeSpec => []Safe
  BY SafeInit, SafeStep, PTL DEF SafeSpec

\* Every variable has its type, in every behaviour: above all, no more messages are
\* waiting than came, and a worker is always at a node (TypeOK).
THEOREM TypeCorrect == SafeSpec => []TypeOK
  <1>1. Safe => TypeOK
    BY DEF Safe, Shape
  <1> QED BY <1>1, SafeAlways, PTL

\* No channel is ever dispatched by two workers, nor an object handled by two, before a
\* node is posted that a channel still lists (ServedByOne).
THEOREM ServedByOneWorker == SafeSpec => []ServedByOne
  <1>1. Safe => ServedByOne
    BY InvServedByOne DEF Safe, ServedByOne
  <1> QED BY <1>1, SafeAlways, PTL

\* front() and pop_front() never meet an empty channel before such a post (FrontExists).
THEOREM FrontIsThere == SafeSpec => []FrontExists
  <1>1. Safe => FrontExists
    BY InvFrontExists DEF Safe, FrontExists
  <1> QED BY <1>1, SafeAlways, PTL

-----------------------------------------------------------------------------
(* The lists as sequences *)

\* A set of numbers has a least one.
LEMMA LeastNumber ==
    ASSUME NEW S \in SUBSET Nat, S # {}
    PROVE  \E m \in S : \A k \in S : m <= k
  <1> DEFINE Before == OpToRel(<, Nat)
  <1>1. IsWellFoundedOn(Before, Nat)
    BY NatLessThanWellFounded
  <1>2. \E m \in S : \A k \in S : <<k, m>> \notin Before
    <2> HIDE DEF Before
    <2> QED BY <1>1, WFMin
  <1>3. PICK m \in S : \A k \in S : <<k, m>> \notin Before
    BY <1>2
  <1>4. \A k \in S : ~(k < m)
    BY <1>3 DEF OpToRel
  <1> QED BY <1>4

\* Induction over the numbers, for a set that contains 0 and each successor
LEMMA Induction ==
    ASSUME NEW S, 0 \in S, \A n \in Nat : n \in S => n + 1 \in S
    PROVE  Nat \subseteq S
  <1> SUFFICES ASSUME NEW x \in Nat, x \notin S PROVE FALSE
    OBVIOUS
  <1>1. PICK m \in Nat \ S : \A k \in Nat \ S : m <= k
    <2>1. Nat \ S # {} /\ Nat \ S \in SUBSET Nat
      OBVIOUS
    <2> QED BY <2>1, LeastNumber
  <1>2. m # 0 /\ m - 1 \in Nat /\ m - 1 \in S
    BY <1>1
  <1> QED BY <1>1, <1>2

\* A list is not longer than there are nodes, so the walk of Links comes to its end.
LEMMA ListFits ==
    ASSUME NEW cell, NEW lo, NEW hi, Lists(cell, lo, hi), NEW c \in Channels
    PROVE  /\ lo[c] \in Nat /\ hi[c] \in Nat /\ lo[c] <= hi[c] /\ Cardinality(Nodes) \in Nat
           /\ hi[c] - lo[c] \in 0 .. Cardinality(Nodes)
  <1>1. lo[c] \in Nat /\ hi[c] \in Nat /\ lo[c] <= hi[c]
    BY DEF Lists, ListOf
  <1>2. Cardinality(Nodes) \in Nat /\ IsFiniteSet(Nodes)
    BY FiniteAssumption, FS_CardinalityType
  <1>3. PICK f : f = [i \in Cells(lo, hi, c) |-> cell[c][i]]
    OBVIOUS
  <1>4. f \in Injection(Cells(lo, hi, c), Nodes)
    <2>1. /\ \A i \in Cells(lo, hi, c) : cell[c][i] \in Nodes
          /\ \A i, j \in Cells(lo, hi, c) : cell[c][i] = cell[c][j] => i = j
      BY DEF Lists, ListOf
    <2> QED BY <1>3, <2>1 DEF Injection, IsInjective
  <1>5. Cardinality(Cells(lo, hi, c)) <= Cardinality(Nodes)
    BY <1>2, <1>4, FS_Injection
  <1>6. Cardinality(Cells(lo, hi, c)) = hi[c] - lo[c]
    <2>1. Cardinality(lo[c] .. hi[c] - 1) = IF lo[c] > hi[c] - 1 THEN 0 ELSE hi[c] - 1 - lo[c] + 1
      <3>1. lo[c] \in Int /\ hi[c] - 1 \in Int
        BY <1>1
      <3> QED BY <3>1, FS_Interval
    <2> QED BY <1>1, <2>1 DEF Cells
  <1> QED BY <1>1, <1>2, <1>5, <1>6

\* The walk along m_next meets the cells of the list, from lo to hi.
LEMMA LinksAreCells ==
    ASSUME NEW cell, NEW lo, NEW hi, Lists(cell, lo, hi), NEW c \in Channels
    PROVE  Links(c) = [i \in 1 .. hi[c] - lo[c] |-> cell[c][lo[c] + i - 1]]
  <1> USE NodesAssumption
  <1> DEFINE most == Cardinality(Nodes)
             walk == CHOOSE walk : walk = [k \in 0 .. most |->
                        IF k = 0 THEN root[c]
                        ELSE IF walk[k - 1] = None THEN None ELSE next[walk[k - 1]]]
             len == hi[c] - lo[c]
             seen == [k \in 0 .. most |-> IF k < len THEN cell[c][lo[c] + k] ELSE None]
  <1>1. Links(c) = [k \in 1 .. Cardinality({i \in 0 .. most : walk[i] # None}) |-> walk[k - 1]]
    BY DEF Links
  <1>2. /\ lo[c] \in Nat /\ hi[c] \in Nat /\ most \in Nat /\ len \in 0 .. most
        /\ hi[c] = lo[c] + len /\ ListOf(c, cell, lo, hi)
    <2>1. ListOf(c, cell, lo, hi)
      BY DEF Lists
    <2> QED BY <2>1, ListFits
  <1>3. \A k \in 0 .. most : k < len =>
            /\ cell[c][lo[c] + k] \in Nodes
            /\ next[cell[c][lo[c] + k]] = IF k = len - 1 THEN None ELSE cell[c][lo[c] + (k + 1)]
    <2> TAKE k \in 0 .. most
    <2> HAVE k < len
    <2>1. /\ lo[c] + k \in Cells(lo, hi, c) /\ lo[c] + k + 1 = lo[c] + (k + 1)
          /\ lo[c] + k = hi[c] - 1 <=> k = len - 1
      BY <1>2 DEF Cells
    <2> QED BY <1>2, <2>1 DEF ListOf
  <1>4. root[c] = IF len = 0 THEN None ELSE cell[c][lo[c] + 0]
    BY <1>2 DEF ListOf
  <1> HIDE DEF most, len
  <1>5. \A k \in 0 .. most : seen[k] = IF k = 0 THEN root[c]
                                   ELSE IF seen[k - 1] = None THEN None ELSE next[seen[k - 1]]
    <2> TAKE k \in 0 .. most
    <2>1. CASE k = 0
      BY <1>2, <1>4, <2>1
    <2>2. CASE k # 0
      <3>1. k - 1 \in 0 .. most /\ (k - 1) + 1 = k /\ k \in 1 .. most
        BY <1>2, <2>2
      <3>2. CASE k - 1 >= len
        BY <1>2, <2>2, <3>1, <3>2
      <3>3. CASE k - 1 < len
        <4>1. seen[k - 1] = cell[c][lo[c] + (k - 1)] /\ seen[k - 1] # None
          BY <1>3, <3>1, <3>3
        <4>2. next[seen[k - 1]] = IF k - 1 = len - 1 THEN None ELSE cell[c][lo[c] + k]
          BY <1>3, <3>1, <3>3, <4>1
        <4>3. seen[k] = IF k - 1 = len - 1 THEN None ELSE cell[c][lo[c] + k]
          BY <1>2, <3>1, <3>3
        <4> QED BY <2>2, <4>1, <4>2, <4>3
      <3> QED BY <1>2, <3>1, <3>2, <3>3
    <2> QED BY <2>1, <2>2
  <1>6. walk = [k \in 0 .. most |->
                  IF k = 0 THEN root[c] ELSE IF walk[k - 1] = None THEN None ELSE next[walk[k - 1]]]
    <2>1. seen = [k \in 0 .. most |->
                    IF k = 0 THEN root[c] ELSE IF seen[k - 1] = None THEN None ELSE next[seen[k - 1]]]
      BY <1>5
    <2> HIDE DEF seen
    <2> QED BY <2>1
  <1> HIDE DEF walk
  <1>7. \A k \in 0 .. most : walk[k] = seen[k]
    <2> DEFINE S == {k \in Nat : k \in 0 .. most => walk[k] = seen[k]}
    <2> HIDE DEF seen
    <2>1. 0 \in S
      BY <1>5, <1>6
    <2>2. \A k \in Nat : k \in S => k + 1 \in S
      <3> SUFFICES ASSUME NEW k \in Nat, k \in S, k + 1 \in 0 .. most
                   PROVE  walk[k + 1] = seen[k + 1]
        OBVIOUS
      <3>1. k \in 0 .. most /\ (k + 1) - 1 = k /\ k + 1 # 0 /\ walk[k] = seen[k]
        BY <1>2
      <3> QED BY <1>5, <1>6, <3>1
    <2>3. Nat \subseteq S
      <3> HIDE DEF S
      <3> QED BY <2>1, <2>2, Induction
    <2> QED BY <2>3
  <1>8. {i \in 0 .. most : walk[i] # None} = 0 .. len - 1
    BY <1>2, <1>3, <1>7
  <1>9. Cardinality(0 .. len - 1) = len
    <2>1. len \in Nat
      BY <1>2
    <2> QED BY <2>1, FS_Interval
  <1>10. \A k \in 1 .. len : walk[k - 1] = cell[c][lo[c] + k - 1]
    <2> TAKE k \in 1 .. len
    <2>1. k - 1 \in 0 .. most /\ k - 1 < len /\ lo[c] + (k - 1) = lo[c] + k - 1
      BY <1>2
    <2> QED BY <1>7, <2>1
  <1> QED BY <1>1, <1>8, <1>9, <1>10 DEF len

\* The list of each channel, as the sequence that Links walks
Lines(cell, lo, hi) ==
    \A c \in Channels :
        /\ Links(c) = [i \in 1 .. hi[c] - lo[c] |-> cell[c][lo[c] + i - 1]]
        /\ Links(c) \in Seq(Nodes) /\ Len(Links(c)) = hi[c] - lo[c]
        /\ lo[c] \in Nat /\ hi[c] \in Nat /\ lo[c] <= hi[c]
        /\ Range(Links(c)) = {cell[c][i] : i \in Cells(lo, hi, c)}

\* It holds the list's cells, before a step ...
LEMMA LinksNow == \A cell, lo, hi : Lists(cell, lo, hi) => Lines(cell, lo, hi)
  <1> SUFFICES ASSUME NEW cell, NEW lo, NEW hi, Lists(cell, lo, hi), NEW c \in Channels
               PROVE  /\ Links(c) = [i \in 1 .. hi[c] - lo[c] |-> cell[c][lo[c] + i - 1]]
                      /\ Links(c) \in Seq(Nodes) /\ Len(Links(c)) = hi[c] - lo[c]
                      /\ lo[c] \in Nat /\ hi[c] \in Nat /\ lo[c] <= hi[c]
                      /\ Range(Links(c)) = {cell[c][i] : i \in Cells(lo, hi, c)}
    BY DEF Lines
  <1>1. lo[c] \in Nat /\ hi[c] \in Nat /\ lo[c] <= hi[c]
    BY ListFits
  <1>2. Links(c) = [i \in 1 .. hi[c] - lo[c] |-> cell[c][lo[c] + i - 1]]
    BY LinksAreCells
  <1>3. \A i \in 1 .. hi[c] - lo[c] : lo[c] + i - 1 \in Cells(lo, hi, c)
    BY <1>1 DEF Cells
  <1>4. \A i \in Cells(lo, hi, c) : cell[c][i] \in Nodes
    BY DEF Lists, ListOf
  <1>5. Links(c) \in Seq(Nodes) /\ Len(Links(c)) = hi[c] - lo[c]
    BY <1>1, <1>2, <1>3, <1>4
  <1>6. Range(Links(c)) = {cell[c][i] : i \in Cells(lo, hi, c)}
    <2>1. Range(Links(c)) = {Links(c)[i] : i \in 1 .. hi[c] - lo[c]}
      BY <1>5, SeqFacts
    <2>2. \A i \in 1 .. hi[c] - lo[c] : Links(c)[i] = cell[c][lo[c] + i - 1]
      BY <1>2
    <2>3. \A i \in Cells(lo, hi, c) : i - lo[c] + 1 \in 1 .. hi[c] - lo[c] /\ lo[c] + (i - lo[c] + 1) - 1 = i
      BY <1>1 DEF Cells
    <2> QED BY <1>3, <2>1, <2>2, <2>3
  <1> QED BY <1>1, <1>2, <1>5, <1>6

\* ... and after it.
LEMMA LinksThen == (\A cell, lo, hi : Lists(cell, lo, hi) => Lines(cell, lo, hi))'
  BY LinksNow, PTL

\* The walk depends on the links alone.
LEMMA LinksKeep ==
    ASSUME UNCHANGED <<root, next>>, NEW c
    PROVE  Links(c)' = Links(c)
  BY DEF Links

\* A sequence with one more element than another, and the same elements before it
LEMMA AppendIs ==
    ASSUME NEW S, NEW s \in Seq(S), NEW r \in Seq(S), NEW x \in S, Len(r) = Len(s) + 1,
           \A i \in 1 .. Len(s) : r[i] = s[i], r[Len(s) + 1] = x
    PROVE  r = Append(s, x)
  OBVIOUS

\* PostToChannel is an arrival,
LEMMA ArriveLine ==
    ASSUME IInv, ~overtaken', NEW t \in Threads, PostToChannel(t),
           NEW n, NEW c, n = post[t], c = parent[n]
    PROVE  /\ n \in Nodes /\ c \in Channels /\ Line!Arrive(c, n)
           /\ Links(c) \in Seq(Nodes) /\ Links(c)' = Append(Links(c), n)
           /\ \A d \in Channels : d # c => Links(d)' = Links(d)
           /\ root'[c] # None /\ \A d \in Channels : d # c => root'[d] = root[d]
           /\ root[c] = None => PostsChannel(c, n)
           /\ \A d \in Channels : root[d] # n
           /\ t \in Workers => path[t] = <<>>
  <1>0. n = post[t] /\ c = parent[n]
    OBVIOUS
  <1>1. PICK cell, lo, hi, kind, who : Ghost(cell, lo, hi, kind, who)
    BY DEF IInv
  <1>2. /\ pc[t] = "post" /\ c # None /\ parent[post[t]] # None
        /\ \A d \in Channels : root[d] # post[t]
        /\ PostNode(c, n) /\ parent' = parent /\ Plain
    BY <1>0 DEF PostToChannel, IInv
  <1>3. n \in Nodes /\ c \in Channels
    BY <1>0, <1>2, PostedNode DEF Plain, TypeOK
  <1>4. \A d \in Channels : \A i \in Cells(lo, hi, d) : cell[d][i] # n
    BY <1>0, <1>1, <1>2, PostedUnlisted
  <1>5. /\ TypeOK /\ Lists(cell, lo, hi) /\ UNCHANGED parent /\ parent[n] = c /\ PostNode(c, n)
    BY <1>0, <1>1, <1>2 DEF Plain, Ghost
  <1>6. PICK cell2, hi2 : cell2 = CellFor(n, c, cell, hi) /\ hi2 = Up(c, hi)
    OBVIOUS
  <1>7. /\ Lists(cell2, lo, hi2)' /\ (PostsChannel(c, n) <=> lo[c] = hi[c])
        /\ root' = IF lo[c] = hi[c] THEN [root EXCEPT ![c] = n] ELSE root
    BY ONLY <1>3, <1>4, <1>5, <1>6, JoinLists
  <1>8. Lines(cell, lo, hi) /\ Lines(cell2, lo, hi2)'
    BY <1>5, <1>7, LinksNow, LinksThen
  <1>9. /\ lo[c] \in Nat /\ hi[c] \in Nat /\ lo[c] <= hi[c] /\ hi2[c] = hi[c] + 1
        /\ cell2[c][hi[c]] = n /\ \A i \in Cells(lo, hi, c) : cell2[c][i] = cell[c][i]
        /\ \A d \in Channels \ {c} : hi2[d] = hi[d] /\ cell2[d] = cell[d]
    <2>1. cell \in [Channels -> [Nat -> Nodes]] /\ hi \in [Channels -> Nat]
      BY <1>5 DEF Lists
    <2>2. lo[c] \in Nat /\ hi[c] \in Nat /\ lo[c] <= hi[c]
      BY <1>3, <1>8 DEF Lines
    <2> QED BY <1>3, <1>6, <2>1, <2>2 DEF CellFor, Up, Cells
  <1>10. Links(c)' = Append(Links(c), n)
    <2>1. /\ Links(c) = [i \in 1 .. hi[c] - lo[c] |-> cell[c][lo[c] + i - 1]]
          /\ Links(c)' = [i \in 1 .. hi2[c] - lo[c] |-> cell2[c][lo[c] + i - 1]]
      BY <1>3, <1>8 DEF Lines
    <2>2. \A i \in 1 .. hi[c] - lo[c] : cell2[c][lo[c] + i - 1] = cell[c][lo[c] + i - 1]
      BY <1>9 DEF Cells
    <2>3. /\ Links(c) \in Seq(Nodes) /\ Links(c)' \in Seq(Nodes) /\ Len(Links(c)) = hi[c] - lo[c]
          /\ Len(Links(c)') = hi2[c] - lo[c]
      BY <1>3, <1>8 DEF Lines
    <2>4. \A i \in 1 .. Len(Links(c)) : Links(c)'[i] = Links(c)[i]
      <3> TAKE i \in 1 .. Len(Links(c))
      <3>1. i \in 1 .. hi[c] - lo[c] /\ i \in 1 .. hi2[c] - lo[c]
        BY <1>9, <2>3
      <3> QED BY <2>1, <2>2, <3>1
    <2>5. Links(c)'[Len(Links(c)) + 1] = n /\ Len(Links(c)') = Len(Links(c)) + 1
      <3>1. /\ Len(Links(c)) + 1 \in 1 .. hi2[c] - lo[c] /\ Len(Links(c)) + 1 = hi2[c] - lo[c]
            /\ lo[c] + (Len(Links(c)) + 1) - 1 = hi[c]
        BY <1>9, <2>3
      <3>2. Links(c)'[Len(Links(c)) + 1] = cell2[c][lo[c] + (Len(Links(c)) + 1) - 1]
        BY <2>1, <3>1
      <3> QED BY <1>9, <2>3, <3>1, <3>2
    <2> QED BY <1>3, <2>3, <2>4, <2>5, AppendIs
  <1>11. \A d \in Channels : d # c => Links(d)' = Links(d)
    <2> TAKE d \in Channels
    <2> HAVE d # c
    <2>1. /\ Links(d) = [i \in 1 .. hi[d] - lo[d] |-> cell[d][lo[d] + i - 1]]
          /\ Links(d)' = [i \in 1 .. hi2[d] - lo[d] |-> cell2[d][lo[d] + i - 1]]
      BY <1>8 DEF Lines
    <2>2. hi2[d] = hi[d] /\ cell2[d] = cell[d]
      BY <1>9
    <2> QED BY <2>1, <2>2
  <1>12. n \notin Range(Links(c))
    BY <1>3, <1>4, <1>8 DEF Lines
  <1>13. Line!Arrive(c, n)
    <2>1. n \notin Line!Range(links[c])
      BY <1>3, <1>12 DEF Line!Range, Range, links
    <2>2. links' = [links EXCEPT ![c] = Append(links[c], n)]
      BY <1>3, <1>10, <1>11 DEF links
    <2> QED BY <2>1, <2>2 DEF Line!Arrive, links
  <1>14. /\ root'[c] # None /\ \A d \in Channels : d # c => root'[d] = root[d]
         /\ root[c] = None => PostsChannel(c, n)
    <2>1. root \in [Channels -> Nodes \cup {None}] /\ n # None
      BY <1>3, <1>5, NodesAssumption DEF TypeOK
    <2>2. lo[c] # hi[c] => root[c] \in Nodes
      BY <1>3, <1>5, <1>9 DEF Lists, ListOf, Cells
    <2> QED BY <1>3, <1>7, <2>1, <2>2, NodesAssumption
  <1>15. /\ \A d \in Channels : root[d] # n
         /\ t \in Workers => path[t] = <<>>
    BY <1>0, <1>1, <1>2, PostedUnlisted
  <1>16. Links(c) \in Seq(Nodes)
    BY <1>3, <1>8 DEF Lines
  <1> QED BY <1>3, <1>10, <1>11, <1>13, <1>14, <1>15, <1>16

\* A list without its first cell is the tail of its sequence.
LEMMA TailIs ==
    ASSUME NEW cell, NEW lo, NEW hi, Lines(cell, lo, hi), NEW c \in Channels, lo[c] < hi[c]
    PROVE  /\ Links(c) # <<>> /\ Head(Links(c)) = cell[c][lo[c]] /\ Tail(Links(c)) \in Seq(Nodes)
           /\ Head(Links(c)) \in Nodes
           /\ Tail(Links(c)) = [i \in 1 .. hi[c] - (lo[c] + 1) |-> cell[c][lo[c] + 1 + i - 1]]
  <1>1. /\ Links(c) = [i \in 1 .. hi[c] - lo[c] |-> cell[c][lo[c] + i - 1]]
        /\ Links(c) \in Seq(Nodes) /\ Len(Links(c)) = hi[c] - lo[c]
        /\ lo[c] \in Nat /\ hi[c] \in Nat
    BY DEF Lines
  <1>2. Links(c) # <<>>
    BY <1>1
  <1>3. /\ Head(Links(c)) \in Nodes /\ Head(Links(c)) = Links(c)[1] /\ Tail(Links(c)) \in Seq(Nodes)
        /\ Len(Tail(Links(c))) = Len(Links(c)) - 1
        /\ \A i \in 1 .. Len(Links(c)) - 1 : Tail(Links(c))[i] = Links(c)[i + 1]
    BY <1>1, <1>2, TailFacts
  <1>4. Links(c)[1] = cell[c][lo[c]]
    <2>1. 1 \in 1 .. hi[c] - lo[c] /\ lo[c] + 1 - 1 = lo[c]
      BY <1>1
    <2> QED BY <1>1, <2>1
  <1>5. \A i \in 1 .. hi[c] - (lo[c] + 1) :
          i \in 1 .. Len(Links(c)) - 1 /\ Tail(Links(c))[i] = cell[c][lo[c] + 1 + i - 1]
    <2> TAKE i \in 1 .. hi[c] - (lo[c] + 1)
    <2>1. i \in 1 .. Len(Links(c)) - 1 /\ i + 1 \in 1 .. hi[c] - lo[c]
          /\ lo[c] + (i + 1) - 1 = lo[c] + 1 + i - 1
      <3>1. lo[c] \in Nat /\ hi[c] \in Nat /\ Len(Links(c)) = hi[c] - lo[c]
        BY <1>1
      <3> QED BY ONLY <3>1, i \in 1 .. hi[c] - (lo[c] + 1)
    <2> QED BY <1>1, <1>3, <2>1
  <1>6. Tail(Links(c)) = [i \in 1 .. hi[c] - (lo[c] + 1) |-> cell[c][lo[c] + 1 + i - 1]]
    <2>0. PICK rest : rest = Tail(Links(c))
      OBVIOUS
    <2>1. Len(rest) = hi[c] - (lo[c] + 1) /\ rest \in Seq(Nodes)
      BY <1>1, <1>3, <2>0
    <2>2. rest = [i \in 1 .. Len(rest) |-> rest[i]]
      BY ONLY <2>1
    <2>3. \A i \in 1 .. Len(rest) : rest[i] = cell[c][lo[c] + 1 + i - 1]
      BY <1>5, <2>0, <2>1
    <2> QED BY <2>0, <2>1, <2>2, <2>3
  <1> QED BY <1>2, <1>3, <1>4, <1>6

\* ... Requeue puts the first node at the end,
LEMMA RotateLine ==
    ASSUME IInv, NEW w \in Workers, Requeue(w),
           NEW n, NEW c, n = Served(w), c = Serving(w)
    PROVE  /\ n \in Nodes /\ c \in Channels /\ root[c] = n /\ Line!Rotate(c)
           /\ Links(c) \in Seq(Nodes) /\ Links(c) # <<>> /\ Head(Links(c)) = n
           /\ Links(c)' = Append(Tail(Links(c)), n)
           /\ \A d \in Channels : d # c => Links(d)' = Links(d) /\ root'[d] = root[d]
  <1>0. n = Served(w) /\ c = Serving(w)
    OBVIOUS
  <1>1. PICK cell, lo, hi, kind, who : Ghost(cell, lo, hi, kind, who)
    BY DEF IInv
  <1>2. n \in Nodes /\ c \in Channels /\ root[c] = n
    <2>1. Plain /\ InChannel(w) /\ more[w]
      BY DEF Requeue, IInv
    <2> QED BY <1>0, <2>1, InChannelFacts
  <1>3. parent[n] = c /\ PostNode(c, n) /\ UNCHANGED parent
    BY <1>0 DEF Requeue
  <1>4. TypeOK /\ Lists(cell, lo, hi)
    BY <1>1 DEF IInv, Plain, Ghost
  <1>5. PICK cell2, lo2, hi2 :
        cell2 = CellFor(n, c, cell, hi) /\ lo2 = Up(c, lo) /\ hi2 = Up(c, hi)
    OBVIOUS
  <1>6. /\ Lists(cell2, lo2, hi2)' /\ lo[c] < hi[c] /\ cell[c][lo[c]] = n
        /\ \A d \in Channels : d # c => hi2[d] = hi[d] /\ lo2[d] = lo[d] /\ cell2[d] = cell[d]
        /\ \A d \in Channels : d # c => root'[d] = root[d]
    BY ONLY <1>2, <1>3, <1>4, <1>5, RotateLists
  <1>7. Lines(cell, lo, hi) /\ Lines(cell2, lo2, hi2)'
    BY <1>4, <1>6, LinksNow, LinksThen
  <1>8. /\ lo[c] \in Nat /\ hi[c] \in Nat /\ lo2[c] = lo[c] + 1 /\ hi2[c] = hi[c] + 1
        /\ cell2[c][hi[c]] = n /\ \A i \in Cells(lo, hi, c) : cell2[c][i] = cell[c][i]
    <2>1. cell \in [Channels -> [Nat -> Nodes]] /\ hi \in [Channels -> Nat] /\ lo \in [Channels -> Nat]
      BY <1>4 DEF Lists
    <2>2. lo[c] \in Nat /\ hi[c] \in Nat /\ lo[c] <= hi[c]
      BY <1>2, <1>7 DEF Lines
    <2> QED BY <1>2, <1>5, <2>1, <2>2 DEF CellFor, Up, Cells
  <1>9. PICK rest : rest = Tail(Links(c))
    OBVIOUS
  <1>10. /\ Links(c) # <<>> /\ Head(Links(c)) = n /\ rest \in Seq(Nodes) /\ Len(rest) = hi[c] - lo[c] - 1
         /\ rest = [i \in 1 .. hi[c] - (lo[c] + 1) |-> cell[c][lo[c] + 1 + i - 1]]
    <2>1. /\ Links(c) # <<>> /\ Head(Links(c)) = n /\ rest \in Seq(Nodes)
          /\ rest = [i \in 1 .. hi[c] - (lo[c] + 1) |-> cell[c][lo[c] + 1 + i - 1]]
      BY <1>2, <1>6, <1>7, <1>9, TailIs
    <2> QED BY <1>6, <1>8, <2>1
  <1>11. Links(c)' = Append(rest, n)
    <2>1. /\ Links(c)' = [i \in 1 .. hi2[c] - lo2[c] |-> cell2[c][lo2[c] + i - 1]]
          /\ Links(c)' \in Seq(Nodes) /\ Len(Links(c)') = hi2[c] - lo2[c]
      BY <1>2, <1>7 DEF Lines
    <2>2. \A i \in 1 .. Len(rest) : Links(c)'[i] = rest[i]
      <3> TAKE i \in 1 .. Len(rest)
      <3>1. /\ i \in 1 .. hi[c] - (lo[c] + 1) /\ i \in 1 .. hi2[c] - lo2[c]
            /\ lo2[c] + i - 1 = lo[c] + 1 + i - 1 /\ lo[c] + 1 + i - 1 \in Cells(lo, hi, c)
        <4>1. i \in 1 .. hi[c] - lo[c] - 1
          BY <1>10
        <4>2. /\ lo[c] \in Nat /\ hi[c] \in Nat /\ lo2[c] = lo[c] + 1 /\ hi2[c] = hi[c] + 1
          BY <1>8
        <4> QED BY ONLY <4>1, <4>2 DEF Cells
      <3> QED BY <1>8, <1>10, <2>1, <3>1
    <2>3. Links(c)'[Len(rest) + 1] = n /\ Len(Links(c)') = Len(rest) + 1
      <3>1. /\ Len(rest) + 1 \in 1 .. hi2[c] - lo2[c] /\ Len(rest) + 1 = hi2[c] - lo2[c]
            /\ lo2[c] + (Len(rest) + 1) - 1 = hi[c]
        <4>1. /\ lo[c] \in Nat /\ hi[c] \in Nat /\ lo[c] < hi[c] /\ Len(rest) = hi[c] - lo[c] - 1
              /\ lo2[c] = lo[c] + 1 /\ hi2[c] = hi[c] + 1
          BY <1>6, <1>8, <1>10
        <4>2. PICK x, y, m : x = lo[c] /\ y = hi[c] /\ m = Len(rest)
          OBVIOUS
        <4>3. x \in Nat /\ y \in Nat /\ x < y /\ m = y - x - 1 /\ lo2[c] = x + 1 /\ hi2[c] = y + 1
          BY ONLY <4>1, <4>2
        <4>4. m + 1 = (y + 1) - (x + 1) /\ x + 1 + (m + 1) - 1 = y /\ m + 1 >= 1 /\ m + 1 \in Nat
          BY ONLY <4>3
        <4>5. m + 1 = hi2[c] - lo2[c] /\ lo2[c] + (m + 1) - 1 = y
          BY ONLY <4>3, <4>4
        <4>6. m + 1 \in 1 .. m + 1
          BY ONLY <4>4
        <4> QED BY ONLY <4>2, <4>5, <4>6
      <3> QED BY <1>8, <2>1, <3>1
    <2>4. rest \in Seq(Nodes) /\ Links(c)' \in Seq(Nodes) /\ n \in Nodes
      BY <1>2, <1>10, <2>1
    <2> QED BY ONLY <2>2, <2>3, <2>4, AppendIs
  <1>12. \A d \in Channels : d # c => Links(d)' = Links(d)
    <2> TAKE d \in Channels
    <2> HAVE d # c
    <2>1. /\ Links(d) = [i \in 1 .. hi[d] - lo[d] |-> cell[d][lo[d] + i - 1]]
          /\ Links(d)' = [i \in 1 .. hi2[d] - lo2[d] |-> cell2[d][lo2[d] + i - 1]]
      BY <1>7 DEF Lines
    <2>2. hi2[d] = hi[d] /\ lo2[d] = lo[d] /\ cell2[d] = cell[d]
      BY <1>6
    <2> QED BY <2>1, <2>2
  <1>13. Line!Rotate(c)
    <2>1. links[c] # <<>>
      BY <1>2, <1>10 DEF links
    <2>2. links' = [links EXCEPT ![c] = Append(Tail(links[c]), Head(links[c]))]
      BY <1>2, <1>9, <1>10, <1>11, <1>12 DEF links
    <2> QED BY <2>1, <2>2 DEF Line!Rotate, links
  <1>14. Links(c) \in Seq(Nodes)
    BY <1>2, <1>7 DEF Lines
  <1> QED BY <1>2, <1>6, <1>9, <1>10, <1>11, <1>12, <1>13, <1>14

\* ... and Drop lets it leave.
LEMMA LeaveLine ==
    ASSUME IInv, NEW w \in Workers, Drop(w),
           NEW n, NEW c, n = Served(w), c = Serving(w)
    PROVE  /\ n \in Nodes /\ c \in Channels /\ root[c] = n /\ Line!Leave(c)
           /\ Links(c) \in Seq(Nodes) /\ Links(c) # <<>> /\ Head(Links(c)) = n
           /\ Links(c)' = Tail(Links(c))
           /\ \A d \in Channels : d # c => Links(d)' = Links(d) /\ root'[d] = root[d]
  <1>0. n = Served(w) /\ c = Serving(w)
    OBVIOUS
  <1>1. PICK cell, lo, hi, kind, who : Ghost(cell, lo, hi, kind, who)
    BY DEF IInv
  <1>2. n \in Nodes /\ c \in Channels /\ root[c] = n
    <2>1. Plain /\ InChannel(w) /\ ~more[w]
      BY DEF Drop, IInv
    <2> QED BY <1>0, <2>1, InChannelFacts
  <1>3. PopFront(c) /\ UNCHANGED parent
    BY <1>0 DEF Drop
  <1>4. TypeOK /\ Lists(cell, lo, hi)
    BY <1>1 DEF IInv, Plain, Ghost
  <1>5. PICK lo2 : lo2 = Up(c, lo)
    OBVIOUS
  <1>6. /\ Lists(cell, lo2, hi)' /\ lo[c] < hi[c] /\ lo2[c] = lo[c] + 1
        /\ \A d \in Channels : d # c => lo2[d] = lo[d]
        /\ cell[c][lo[c]] = n /\ \A d \in Channels : d # c => root'[d] = root[d]
    BY ONLY <1>2, <1>3, <1>4, <1>5, LeaveLists
  <1>7. Lines(cell, lo, hi) /\ Lines(cell, lo2, hi)'
    BY <1>4, <1>6, LinksNow, LinksThen
  <1>a. Links(c) \in Seq(Nodes)
    BY <1>2, <1>7 DEF Lines
  <1>8. /\ Links(c) # <<>> /\ Head(Links(c)) = n
        /\ Tail(Links(c)) = [i \in 1 .. hi[c] - (lo[c] + 1) |-> cell[c][lo[c] + 1 + i - 1]]
    BY <1>2, <1>6, <1>7, TailIs
  <1>9. Links(c)' = Tail(Links(c))
    BY <1>2, <1>6, <1>7, <1>8 DEF Lines
  <1>10. \A d \in Channels : d # c => Links(d)' = Links(d)
    <2> TAKE d \in Channels
    <2> HAVE d # c
    <2>1. /\ Links(d) = [i \in 1 .. hi[d] - lo[d] |-> cell[d][lo[d] + i - 1]]
          /\ Links(d)' = [i \in 1 .. hi[d] - lo2[d] |-> cell[d][lo2[d] + i - 1]]
      BY <1>7 DEF Lines
    <2>2. lo2[d] = lo[d]
      BY <1>6
    <2> QED BY <2>1, <2>2
  <1>11. Line!Leave(c)
    <2>1. links[c] # <<>>
      BY <1>2, <1>8 DEF links
    <2>2. links' = [links EXCEPT ![c] = Tail(links[c])]
      BY <1>2, <1>9, <1>10 DEF links
    <2> QED BY <2>1, <2>2 DEF Line!Leave, links
  <1> QED BY <1>2, <1>6, <1>a, <1>8, <1>9, <1>10, <1>11

\* The linked lists are lines: up to the first node that is posted while a channel
\* lists it, no step does anything else to them (IsLine).
THEOREM ListsAreLines == SafeSpec => IsLine
  <1>1. Init => Line!Init
    <2> SUFFICES ASSUME Init PROVE \A c \in Channels : Links(c) = <<>>
      BY DEF Line!Init, links
    <2> TAKE c \in Channels
    <2>1. IInv
      BY InitInv
    <2>2. PICK cell, lo, hi, kind, who : Ghost(cell, lo, hi, kind, who)
      BY <2>1 DEF IInv
    <2>3. Lists(cell, lo, hi) /\ Lines(cell, lo, hi) /\ root[c] = None
      BY <2>2, LinksNow DEF Ghost, Init
    <2>4. lo[c] = hi[c]
      <3>1. lo[c] # hi[c] => root[c] \in Nodes
        BY <2>3 DEF Lists, ListOf, Cells
      <3> QED BY <2>3, <3>1, NodesAssumption
    <2> QED BY <2>3, <2>4 DEF Lines
  <1>2. Safe /\ [Next]_vars => [overtaken' \/ Line!Next]_links
    <2> SUFFICES ASSUME Safe, ~overtaken', [Next]_vars PROVE Line!Next \/ UNCHANGED links
      OBVIOUS
    <2>0. IInv
      BY Remembered DEF Safe
    <2>1. UNCHANGED listVars => UNCHANGED links
      <3>1. UNCHANGED listVars => \A c \in Channels : Links(c)' = Links(c)
        BY LinksKeep DEF listVars
      <3> QED BY <3>1 DEF links
    <2>2. ASSUME NEW t \in Threads, Post(t)
          PROVE  Line!Next \/ UNCHANGED links
      <3>1. CASE PostToPool(t)
        BY <2>1, <3>1 DEF PostToPool
      <3>2. CASE PostToChannel(t)
        BY <2>0, <3>2, ArriveLine DEF Line!Next
      <3> QED BY <2>2, <3>1, <3>2 DEF Post
    <2>3. ASSUME NEW t \in Io, NEW o \in Objects, Receive(t, o) \/ GoBad(t, o)
          PROVE  UNCHANGED links
      BY <2>1, <2>3 DEF Receive, GoBad
    <2>4. ASSUME NEW w \in Workers, WorkerStep(w)
          PROVE  Line!Next \/ UNCHANGED links
      <3>1. CASE Requeue(w)
        BY <2>0, <3>1, RotateLine DEF Line!Next
      <3>2. CASE Drop(w)
        BY <2>0, <3>2, LeaveLine DEF Line!Next
      <3>3. CASE ~Requeue(w) /\ ~Drop(w)
        <4>1. UNCHANGED listVars
          BY <2>4, <3>3 DEF WorkerStep, Take, TakeFront, Stay, Detach, Attach, Handle, DoClose,
                            LeaveObject, PostElsewhere, Return, Crash
        <4> QED BY <2>1, <4>1
      <3> QED BY <3>1, <3>2, <3>3
    <2>5. CASE UNCHANGED vars
      BY <2>1, <2>5 DEF vars, listVars
    <2> QED BY <2>2, <2>3, <2>4, <2>5 DEF Next
  <1> QED BY <1>1, <1>2, SafeAlways, PTL DEF SafeSpec, IsLine

-----------------------------------------------------------------------------
(* Nothing is lost *)

\* A node that must be come to: an object whose token is out, a channel with nodes
Needs(n) ==
    \/ n \in Objects /\ held[n] /\ ~bad[n]
    \/ n \in Channels /\ root[n] # None

\* A worker drops node n from the list of channel c next.
Dropping(w, n, c) == Len(path[w]) > 1 /\ Serving(w) = c /\ Served(w) = n /\ LettingGo(w)

\* What keeps node n from being lost: someone posts it, it is queued, a worker
\* has it on its path and does not let it go, or it is in a list and not dropped.
OnPath(n, w) == \E i \in 1 .. Len(path[w]) : path[w][i] = n /\ (i < Len(path[w]) \/ ~LettingGo(w))
InLine(n, c) == n \in Range(Links(c)) /\ ~\E w \in Workers : Dropping(w, n, c)

Cared(n) ==
    \/ \E t \in Threads : post[t] = n
    \/ n \in Range(tasks)
    \/ \E w \in Workers : OnPath(n, w)
    \/ \E c \in Channels : InLine(n, c)

Kept == \A n \in Nodes : Needs(n) => Cared(n)

\* Elements of a sequence that grows or shrinks
LEMMA RangeFacts ==
    ASSUME NEW S, NEW s \in Seq(S)
    PROVE  /\ \A x \in S : Range(Append(s, x)) = Range(s) \cup {x}
           /\ s # <<>> => /\ Range(s) = Range(Tail(s)) \cup {Head(s)}
                          /\ Head(s) \in S /\ Tail(s) \in Seq(S)
  <1>1. ASSUME NEW x \in S
        PROVE  Range(Append(s, x)) = Range(s) \cup {x}
    <2>1. Append(s, x) \in Seq(S) /\ Len(Append(s, x)) = Len(s) + 1 /\ Len(s) \in Nat
          /\ \A i \in 1 .. Len(s) : Append(s, x)[i] = s[i]
          /\ Append(s, x)[Len(s) + 1] = x
      BY AppendFacts
    <2>2. /\ Range(s) = {s[i] : i \in 1 .. Len(s)}
          /\ Range(Append(s, x)) = {Append(s, x)[i] : i \in 1 .. Len(s) + 1}
      BY <2>1, SeqFacts
    <2>3. \A i \in 1 .. Len(s) + 1 : i \in 1 .. Len(s) \/ i = Len(s) + 1
      BY <2>1
    <2>4. \A i \in 1 .. Len(s) : i \in 1 .. Len(s) + 1
      BY <2>1
    <2>5. Len(s) + 1 \in 1 .. Len(s) + 1
      BY <2>1
    <2> QED BY ONLY <2>1, <2>2, <2>3, <2>4, <2>5
  <1>2. ASSUME s # <<>>
        PROVE  /\ Range(s) = Range(Tail(s)) \cup {Head(s)}
               /\ Head(s) \in S /\ Tail(s) \in Seq(S)
    <2>1. /\ Head(s) \in S /\ Head(s) = s[1] /\ Tail(s) \in Seq(S)
          /\ Len(s) \in Nat \ {0} /\ Len(Tail(s)) = Len(s) - 1
          /\ \A i \in 1 .. Len(s) - 1 : Tail(s)[i] = s[i + 1]
      BY <1>2, TailFacts
    <2>2. /\ Range(s) = {s[i] : i \in 1 .. Len(s)}
          /\ Range(Tail(s)) = {Tail(s)[i] : i \in 1 .. Len(s) - 1}
      BY <2>1, SeqFacts
    <2>3. \A i \in 1 .. Len(s) : i = 1 \/ (i - 1 \in 1 .. Len(s) - 1 /\ (i - 1) + 1 = i)
      BY <2>1
    <2>4. \A i \in 1 .. Len(s) - 1 : i + 1 \in 1 .. Len(s)
      BY <2>1
    <2>5. 1 \in 1 .. Len(s)
      BY <2>1
    <2>6. \A x \in Range(s) : x \in Range(Tail(s)) \cup {Head(s)}
      <3> TAKE x \in Range(s)
      <3>1. PICK i \in 1 .. Len(s) : x = s[i]
        BY <2>2
      <3>2. i = 1 \/ (i - 1 \in 1 .. Len(s) - 1 /\ Tail(s)[i - 1] = s[i])
        BY <2>1, <2>3
      <3> QED BY <2>1, <2>2, <3>1, <3>2
    <2>7. Range(Tail(s)) \cup {Head(s)} \subseteq Range(s)
      BY <2>1, <2>2, <2>4, <2>5
    <2> QED BY <2>1, <2>6, <2>7
  <1> QED BY <1>1, <1>2

\* What a worker's step does not touch
LEMMA PathKeeps ==
    ASSUME NEW w \in Workers, path'[w] = path[w], LettingGo(w)' <=> LettingGo(w), NEW n
    PROVE  /\ OnPath(n, w)' <=> OnPath(n, w)
           /\ \A c : Dropping(w, n, c)' <=> Dropping(w, n, c)
  BY DEF OnPath, Dropping, Serving, Served, Last

\* A thread that posts has its node queued, or
LEMMA PoolKept ==
    ASSUME IInv, Kept, NEW t \in Threads, PostToPool(t)
    PROVE  Kept'
  <1>1. /\ tasks' = Append(tasks, post[t]) /\ DonePosting(t) /\ pc[t] = "post"
        /\ UNCHANGED <<parent, next, root, held, bad, path, more>>
        /\ tasks \in Seq(Nodes) /\ post[t] \in Nodes /\ post \in [Threads -> Nodes \cup {None}]
        /\ pc \in [Threads -> Labels]
    BY DEF PostToPool, IInv, Plain, TypeOK, Posts, listVars, objectVars, Labels
  <1>2. Range(tasks') = Range(tasks) \cup {post[t]}
    BY <1>1, RangeFacts
  <1>3. \A u \in Threads : u # t => post'[u] = post[u]
    BY <1>1 DEF DonePosting
  <1>4. \A w \in Workers : path'[w] = path[w] /\ (LettingGo(w)' <=> LettingGo(w))
    BY <1>1 DEF DonePosting, Goto, LettingGo
  <1>5. \A c \in Channels : Links(c)' = Links(c)
    BY <1>1, LinksKeep
  <1> SUFFICES ASSUME NEW n \in Nodes, Needs(n)' PROVE Cared(n)'
    BY DEF Kept
  <1>6. Cared(n)
    BY <1>1 DEF Kept, Needs
  <1>7. \A w \in Workers : /\ OnPath(n, w)' <=> OnPath(n, w)
                           /\ \A c : Dropping(w, n, c)' <=> Dropping(w, n, c)
    BY <1>4, PathKeeps
  <1>8. \A c \in Channels : InLine(n, c) => InLine(n, c)'
    BY <1>5, <1>7 DEF InLine
  <1> QED BY <1>2, <1>3, <1>6, <1>7, <1>8 DEF Cared

\* ... in its channel's line, and its channel is posted where the line was empty.
LEMMA ChannelKept ==
    ASSUME IInv, Kept, ~overtaken', NEW t \in Threads, PostToChannel(t)
    PROVE  Kept'
  <1> USE NodesAssumption
  <1>0. PICK m, c : m = post[t] /\ c = parent[m]
    OBVIOUS
  <1>1. /\ m \in Nodes /\ c \in Channels /\ Links(c) \in Seq(Nodes)
        /\ Links(c)' = Append(Links(c), m)
        /\ \A d \in Channels : d # c => Links(d)' = Links(d)
        /\ root'[c] # None /\ \A d \in Channels : d # c => root'[d] = root[d]
        /\ root[c] = None => PostsChannel(c, m)
        /\ \A d \in Channels : root[d] # m
        /\ t \in Workers => path[t] = <<>>
    BY <1>0, ArriveLine
  <1>2. /\ UNCHANGED <<held, bad, path, more, tasks>>
        /\ post \in [Threads -> Nodes \cup {None}] /\ pc \in [Threads -> Labels]
        /\ IF PostsChannel(c, m) THEN post' = [post EXCEPT ![t] = c] /\ UNCHANGED pc ELSE DonePosting(t)
    BY <1>0 DEF PostToChannel, IInv, Plain, TypeOK, objectVars, Labels
  <1>3. /\ \A u \in Threads : u # t => post'[u] = post[u]
        /\ PostsChannel(c, m) => post'[t] = c
    BY <1>2 DEF DonePosting
  <1>4. \A w \in Workers : path'[w] = path[w] /\ (LettingGo(w)' <=> LettingGo(w))
    <2> TAKE w \in Workers
    <2>1. w = t => path'[w] = <<>> /\ path[w] = <<>>
      BY <1>1, <1>2
    <2>2. w # t => pc'[w] = pc[w]
      BY <1>2 DEF DonePosting, Goto, Threads
    <2> QED BY <1>2, <2>1, <2>2 DEF LettingGo
  <1>5. Range(Links(c)') = Range(Links(c)) \cup {m}
    BY <1>1, RangeFacts
  <1> SUFFICES ASSUME NEW n \in Nodes, Needs(n)' PROVE Cared(n)'
    BY DEF Kept
  <1>6. \A w \in Workers : /\ OnPath(n, w)' <=> OnPath(n, w)
                           /\ \A d : Dropping(w, n, d)' <=> Dropping(w, n, d)
    BY <1>4, PathKeeps
  <1>7. \A d \in Channels : InLine(n, d) => InLine(n, d)'
    BY <1>1, <1>5, <1>6 DEF InLine
  <1>8. InLine(m, c)'
    <2> SUFFICES ASSUME NEW w \in Workers, Dropping(w, m, c)' PROVE FALSE
      BY <1>5 DEF InLine
    <2>1. path[w] \in Seq(Nodes) /\ Len(path[w]) > 1 /\ Last(path[w]) = m /\ PathOf(w)
      BY <1>2 DEF IInv, Plain, Paths, TypeOK, Dropping, Served
    <2>2. PICK k : k = Len(path[w])
      OBVIOUS
    <2>3. k \in Nat /\ k > 1 /\ path[w][k] = m /\ k - 1 \in 1 .. k - 1 /\ k - 1 + 1 = k
      BY <2>1, <2>2 DEF Last
    <2>4. path[w][k - 1] \in Channels /\ root[path[w][k - 1]] = m
      BY <2>1, <2>2, <2>3 DEF PathOf
    <2> QED BY <1>1, <2>4
  <1>9. CASE n = c /\ root[c] = None
    BY <1>1, <1>3, <1>9 DEF Cared
  <1>10. CASE ~(n = c /\ root[c] = None)
    <2>1. Needs(n)
      BY <1>1, <1>2, <1>10 DEF Needs
    <2>2. Cared(n)
      BY <2>1 DEF Kept
    <2>3. n = m => Cared(n)'
      BY <1>1, <1>8 DEF Cared
    <2> QED BY <1>0, <1>2, <1>3, <1>6, <1>7, <2>2, <2>3 DEF Cared
  <1> QED BY <1>9, <1>10

\* Who takes a token posts the object.
LEMMA TokenKept ==
    ASSUME IInv, Kept, NEW t \in Io, NEW o \in Objects, Receive(t, o) \/ GoBad(t, o)
    PROVE  Kept'
  <1> USE NodesAssumption
  <1>1. /\ TakeToken(t, o) /\ pc[t] = "idle" /\ (bad'[o] \/ ~bad[o])
        /\ \A p \in Objects : p # o => bad'[p] = bad[p]
        /\ UNCHANGED <<next, root, tasks, path, more>>
    BY DEF Receive, GoBad, listVars, IInv, Plain, TypeOK
  <1>2. /\ t \in Threads /\ post[t] = None /\ t \notin Workers
        /\ post \in [Threads -> Nodes \cup {None}] /\ pc \in [Threads -> Labels]
        /\ held \in [Objects -> BOOLEAN]
    BY <1>1, ThreadsAssumption DEF IInv, Plain, TypeOK, Posts, Threads, Labels
  <1>3. /\ \A u \in Threads : u # t => post'[u] = post[u]
        /\ \A p \in Objects : p # o => held'[p] = held[p]
        /\ IF held[o] THEN post'[t] = post[t] ELSE post'[t] = o
    BY <1>1, <1>2 DEF TakeToken
  <1>4. \A w \in Workers : path'[w] = path[w] /\ (LettingGo(w)' <=> LettingGo(w))
    <2>1. \A w \in Workers : pc'[w] = pc[w]
      BY <1>1, <1>2 DEF TakeToken, Goto, Threads
    <2> QED BY <1>1, <2>1 DEF LettingGo
  <1>5. \A c \in Channels : Links(c)' = Links(c)
    BY <1>1, LinksKeep
  <1> SUFFICES ASSUME NEW n \in Nodes, Needs(n)' PROVE Cared(n)'
    BY DEF Kept
  <1>6. CASE n = o /\ ~held[o]
    BY <1>2, <1>3, <1>6 DEF Cared
  <1>7. CASE ~(n = o /\ ~held[o])
    <2>1. Cared(n)
      BY <1>1, <1>3, <1>7 DEF Kept, Needs
    <2>2. \A w \in Workers : /\ OnPath(n, w)' <=> OnPath(n, w)
                             /\ \A c : Dropping(w, n, c)' <=> Dropping(w, n, c)
      BY <1>4, PathKeeps
    <2>3. \A c \in Channels : InLine(n, c) => InLine(n, c)'
      BY <1>5, <2>2 DEF InLine
    <2> QED BY <1>1, <1>2, <1>3, <2>1, <2>2, <2>3 DEF Cared
  <1> QED BY <1>6, <1>7

\* A handler ends with the token given back, or with more to do and the object kept.
LEMMA EndKept ==
    ASSUME IInv, Kept, NEW w \in Workers, NEW b \in BOOLEAN, pc[w] = "handle",
           pc' = [pc EXCEPT ![w] = "leave"], more' = [more EXCEPT ![w] = b],
           UNCHANGED <<next, root, tasks, post, path, bad>>,
           \A p \in Objects : p # Last(path[w]) => held'[p] = held[p],
           b \/ ~held'[Last(path[w])] \/ bad[Last(path[w])]
    PROVE  Kept'
  <1>0. PICK o, k : o = Last(path[w]) /\ k = Len(path[w])
    OBVIOUS
  <1>1. /\ o \in Objects /\ k \in Nat \ {0} /\ o = path[w][k] /\ w \in Threads
        /\ pc \in [Threads -> Labels] /\ more \in [Workers -> BOOLEAN]
    <2>1. path[w] \in Seq(Nodes) /\ path[w] # <<>> /\ o \in Objects
      BY <1>0 DEF IInv, Plain, TypeOK, Paths, PathOf
    <2> QED BY <1>0, <2>1, FrontLast DEF IInv, Plain, TypeOK, Threads, Labels
  <1>2. /\ b => ~LettingGo(w)'
        /\ \A v \in Workers : v # w => path'[v] = path[v] /\ (LettingGo(v)' <=> LettingGo(v))
    BY <1>1 DEF LettingGo
  <1>3. \A c \in Channels : Links(c)' = Links(c)
    BY LinksKeep
  <1> SUFFICES ASSUME NEW n \in Nodes, Needs(n)' PROVE Cared(n)'
    BY DEF Kept
  <1>4. CASE n = o
    <2>1. b
      BY <1>0, <1>1, <1>4, NodesAssumption DEF Needs
    <2>2. OnPath(n, w)'
      BY <1>0, <1>1, <1>2, <1>4, <2>1 DEF OnPath
    <2> QED BY <2>2 DEF Cared
  <1>5. CASE n # o
    <2>1. Cared(n)
      BY <1>0, <1>5 DEF Kept, Needs
    <2>2. \A v \in Workers \ {w} : /\ OnPath(n, v)' <=> OnPath(n, v)
                                   /\ \A c : Dropping(v, n, c)' <=> Dropping(v, n, c)
      BY <1>2, PathKeeps
    <2>3. OnPath(n, w) => OnPath(n, w)'
      BY <1>0, <1>1, <1>5 DEF OnPath
    <2>4. \A c : ~Dropping(w, n, c)'
      BY <1>0, <1>5 DEF Dropping, Served
    <2>5. \A c \in Channels : InLine(n, c) => InLine(n, c)'
      BY <1>3, <2>2, <2>4 DEF InLine
    <2> QED BY <2>1, <2>2, <2>3, <2>5 DEF Cared
  <1> QED BY <1>4, <1>5

\* What a worker takes is on its path, and not let go.
LEMMA TakeKept ==
    ASSUME IInv, Kept, NEW w \in Workers, Take(w) \/ TakeFront(w) \/ LeaveObject(w)
    PROVE  Kept'
  <1> USE NodesAssumption
  <1>1. /\ path[w] \in Seq(Nodes) /\ pc \in [Threads -> Labels] /\ w \in Threads
        /\ path \in [Workers -> Seq(Nodes)] /\ tasks \in Seq(Nodes)
        /\ UNCHANGED <<next, root, held, bad, post, more>>
        /\ \A v \in Workers : v # w => pc'[v] = pc[v] /\ path'[v] = path[v]
    BY DEF Take, TakeFront, LeaveObject, Enter, Goto, IInv, Plain, TypeOK, Threads, Labels, listVars, objectVars
  <1>2. \A v \in Workers : v # w => path'[v] = path[v] /\ (LettingGo(v)' <=> LettingGo(v))
    BY <1>1 DEF LettingGo
  <1>3. \A c \in Channels : Links(c)' = Links(c)
    BY <1>1, LinksKeep
  <1> SUFFICES ASSUME NEW n \in Nodes, Needs(n)' PROVE Cared(n)'
    BY DEF Kept
  <1>4. Cared(n)
    BY <1>1 DEF Kept, Needs
  <1>5. \A v \in Workers \ {w} : /\ OnPath(n, v)' <=> OnPath(n, v)
                                 /\ \A c : Dropping(v, n, c)' <=> Dropping(v, n, c)
    BY <1>2, PathKeeps
  <1>6. CASE LeaveObject(w)
    <2>1. path' = path /\ tasks' = tasks /\ (LettingGo(w)' <=> LettingGo(w))
      BY <1>1, <1>6 DEF LeaveObject, Goto, LettingGo
    <2>2. /\ OnPath(n, w)' <=> OnPath(n, w)
          /\ \A c : Dropping(w, n, c)' <=> Dropping(w, n, c)
      BY <2>1, PathKeeps
    <2>3. \A c \in Channels : InLine(n, c) => InLine(n, c)'
      BY <1>3, <1>5, <2>2 DEF InLine
    <2> QED BY <1>1, <1>4, <1>5, <2>1, <2>2, <2>3 DEF Cared
  <1>7. ASSUME NEW m \in Nodes, Enter(w, m),
               n \in Range(tasks) => n = m \/ n \in Range(tasks')
        PROVE  Cared(n)'
    <2>1. /\ path'[w] = Append(path[w], m) /\ ~LettingGo(w)'
          /\ Len(path[w]) \in Nat /\ Len(path'[w]) = Len(path[w]) + 1
          /\ \A i \in 1 .. Len(path[w]) : path'[w][i] = path[w][i]
          /\ path'[w][Len(path[w]) + 1] = m
      <3>1. path'[w] = Append(path[w], m) /\ ~LettingGo(w)'
        BY <1>1, <1>7 DEF Enter, Goto, LettingGo
      <3> QED BY <1>1, <3>1, AppendFacts
    <2>2. OnPath(m, w)' /\ (OnPath(n, w) => OnPath(n, w)')
      <3>1. /\ \A i \in 1 .. Len(path[w]) : i \in 1 .. Len(path'[w])
            /\ Len(path[w]) + 1 \in 1 .. Len(path'[w])
        BY <2>1
      <3> QED BY <2>1, <3>1 DEF OnPath
    <2>3. \A c \in Channels : InLine(n, c) => InLine(n, c)'
      BY <1>3, <1>5, <2>1 DEF InLine, Dropping
    <2> QED BY <1>1, <1>4, <1>5, <1>7, <2>2, <2>3 DEF Cared
  <1>8. Take(w) => Enter(w, Head(tasks)) /\ Head(tasks) \in Nodes
    BY <1>1, TailFacts DEF Take
  <1>9. TakeFront(w) => \E m \in Nodes : Enter(w, m) /\ tasks' = tasks
    <2> SUFFICES ASSUME TakeFront(w) PROVE root[Last(path[w])] \in Nodes
      BY DEF TakeFront
    <2>1. pc[w] = "front" /\ Last(path[w]) \in Channels /\ root[Last(path[w])] # None
      BY DEF TakeFront, IInv, Plain, Paths, PathOf
    <2>2. root \in [Channels -> Nodes \cup {None}]
      BY DEF IInv, Plain, TypeOK
    <2> QED BY <2>1, <2>2
  <1>10. CASE Take(w)
    <2>1. n \in Range(tasks) => n = Head(tasks) \/ n \in Range(tasks')
      BY <1>1, <1>10, RangeFacts DEF Take
    <2> QED BY <1>7, <1>8, <1>10, <2>1
  <1>11. CASE TakeFront(w)
    BY <1>7, <1>9, <1>11
  <1> QED BY <1>6, <1>10, <1>11

\* A node that is served and has more to do stays in its channel's line.
LEMMA RequeueKept ==
    ASSUME IInv, Kept, NEW w \in Workers, Requeue(w)
    PROVE  Kept'
  <1> USE NodesAssumption
  <1>0. PICK m, c, k : m = Served(w) /\ c = Serving(w) /\ k = Len(path[w])
    OBVIOUS
  <1>1. /\ m \in Nodes /\ c \in Channels /\ root[c] = m
        /\ Links(c) \in Seq(Nodes) /\ Links(c) # <<>> /\ Head(Links(c)) = m
        /\ Links(c)' = Append(Tail(Links(c)), m)
        /\ \A d \in Channels : d # c => Links(d)' = Links(d) /\ root'[d] = root[d]
    BY <1>0, RotateLine
  <1>2. /\ Plain /\ InChannel(w) /\ path[w] \in Seq(Nodes) /\ k \in Nat /\ k >= 2 /\ pc[w] = "back"
        /\ m = path[w][k] /\ c = path[w][k - 1] /\ w \in Threads
    <2>1. Plain /\ InChannel(w)
      BY DEF Requeue, IInv
    <2> QED BY <1>0, <2>1, InChannelFacts
  <1>3. /\ path' = [path EXCEPT ![w] = Front(path[w])] /\ more[w] /\ more' = [more EXCEPT ![w] = TRUE]
        /\ UNCHANGED <<tasks, pc, post, held, bad>>
        /\ path \in [Workers -> Seq(Nodes)] /\ more \in [Workers -> BOOLEAN]
    <2>1. PostsChannel(c, m) = TRUE
      BY <1>1 DEF PostsChannel
    <2> QED BY <1>0, <2>1 DEF Requeue, objectVars, IInv, Plain, TypeOK
  <1>4. /\ Len(path'[w]) = k - 1 /\ \A i \in 1 .. k - 1 : path'[w][i] = path[w][i]
        /\ ~LettingGo(w) /\ ~LettingGo(w)'
    <2>1. path'[w] = Front(path[w]) /\ path[w] # <<>>
      BY <1>0, <1>2, <1>3
    <2>2. Len(path'[w]) = k - 1 /\ \A i \in 1 .. k - 1 : path'[w][i] = path[w][i]
      <3>1. /\ Len(Front(path[w])) = Len(path[w]) - 1
            /\ \A i \in 1 .. Len(path[w]) - 1 : Front(path[w])[i] = path[w][i]
        BY <1>2, <2>1, FrontLast
      <3> QED BY <1>0, <2>1, <3>1
    <2> QED BY <1>3, <2>2 DEF LettingGo
  <1>5. \A v \in Workers \ {w} : path'[v] = path[v] /\ (LettingGo(v)' <=> LettingGo(v))
    BY <1>3 DEF LettingGo
  <1>6. \A d \in Channels : Range(Links(d)') = Range(Links(d))
    <2> TAKE d \in Channels
    <2>1. CASE d = c
      <3>1. Range(Links(c)) = Range(Tail(Links(c))) \cup {m} /\ Tail(Links(c)) \in Seq(Nodes)
        BY <1>1, RangeFacts
      <3>0. \A s \in Seq(Nodes), x \in Nodes : Range(Append(s, x)) = Range(s) \cup {x}
        BY RangeFacts
      <3>2. Range(Links(c)') = Range(Tail(Links(c))) \cup {m}
        BY ONLY <1>1, <3>0, <3>1
      <3> QED BY <2>1, <3>1, <3>2
    <2>2. CASE d # c
      BY <1>1, <2>2
    <2> QED BY <2>1, <2>2
  <1> SUFFICES ASSUME NEW n \in Nodes, Needs(n)' PROVE Cared(n)'
    BY DEF Kept
  <1>7. Cared(n)
    BY <1>1, <1>3 DEF Kept, Needs
  <1>8. \A v \in Workers \ {w} : /\ OnPath(n, v)' <=> OnPath(n, v)
                                 /\ \A d : Dropping(v, n, d)' <=> Dropping(v, n, d)
    BY <1>5, PathKeeps
  <1>9. \A d \in Channels : InLine(n, d) => InLine(n, d)'
    BY <1>4, <1>6, <1>8 DEF InLine, Dropping
  <1>10. OnPath(n, w) => OnPath(n, w)' \/ n = m
    BY <1>0, <1>2, <1>4 DEF OnPath
  <1>11. InLine(m, c)'
    <2>1. m \in Range(Links(c)')
      <3>1. m \in Range(Links(c))
        BY <1>1, RangeFacts
      <3> QED BY <1>1, <1>6, <3>1
    <2>2. ASSUME NEW v \in Workers, Dropping(v, m, c)'
          PROVE  FALSE
      <3>1. v # w
        BY <1>4, <2>2 DEF Dropping
      <3>2. path'[v] = path[v]
        BY <1>5, <3>1
      <3>3. path[v] \in Seq(Nodes) /\ Len(path[v]) > 1 /\ path[v][Len(path[v]) - 1] = c
        BY <1>3, <2>2, <3>2 DEF Dropping, Serving
      <3>4. Len(path[v]) - 1 \in 1 .. Len(path[v])
        BY <3>3
      <3> QED BY <1>0, <1>2, <3>1, <3>3, <3>4, OneServes
    <2> QED BY <2>1, <2>2 DEF InLine
  <1> QED BY <1>1, <1>3, <1>7, <1>8, <1>9, <1>10, <1>11 DEF Cared

\* A node that has left the channel it is served in is posted where it is now.
LEMMA ElsewhereKept ==
    ASSUME IInv, Kept, NEW w \in Workers, PostElsewhere(w)
    PROVE  Kept'
  <1> USE NodesAssumption
  <1>0. PICK m, k : m = Served(w) /\ k = Len(path[w])
    OBVIOUS
  <1>1. /\ post' = [post EXCEPT ![w] = m] /\ pc[w] = "back" /\ w \in Threads /\ post[w] = None
        /\ UNCHANGED <<next, root, tasks, path, held, bad>>
        /\ more' = [more EXCEPT ![w] = FALSE] /\ pc' = [pc EXCEPT ![w] = "post"]
        /\ post \in [Threads -> Nodes \cup {None}] /\ m = path[w][k] /\ k \in Nat /\ k >= 2
        /\ m \in Nodes
    <2>1. Plain /\ InChannel(w)
      BY DEF PostElsewhere, IInv
    <2>2. /\ path[w] \in Seq(Nodes) /\ k \in Nat /\ k >= 2 /\ pc[w] = "back" /\ w \in Threads
          /\ m = path[w][k] /\ m \in Nodes
      BY <1>0, <2>1, InChannelFacts
    <2>3. post[w] = None
      BY <2>1, <2>2 DEF Plain, Posts
    <2> QED BY <1>0, <2>1, <2>2, <2>3 DEF PostElsewhere, Goto, listVars, objectVars, Plain, TypeOK
  <1>2. /\ \A t \in Threads : t # w => post'[t] = post[t]
        /\ post'[w] = m
    BY <1>1
  <1>3. \A v \in Workers \ {w} : path'[v] = path[v] /\ (LettingGo(v)' <=> LettingGo(v))
    <2> TAKE v \in Workers \ {w}
    <2>1. more'[v] = more[v] /\ pc'[v] = pc[v]
      BY <1>1 DEF IInv, Plain, TypeOK, Threads
    <2> QED BY <1>1, <2>1 DEF LettingGo
  <1>4. \A c \in Channels : Links(c)' = Links(c)
    BY <1>1, LinksKeep
  <1> SUFFICES ASSUME NEW n \in Nodes, Needs(n)' PROVE Cared(n)'
    BY DEF Kept
  <1>5. CASE n = m
    BY <1>1, <1>2, <1>5 DEF Cared
  <1>6. CASE n # m
    <2>1. Cared(n)
      BY <1>1 DEF Kept, Needs
    <2>2. \A v \in Workers \ {w} : /\ OnPath(n, v)' <=> OnPath(n, v)
                                   /\ \A c : Dropping(v, n, c)' <=> Dropping(v, n, c)
      BY <1>3, PathKeeps
    <2>3. OnPath(n, w) => OnPath(n, w)'
      BY <1>0, <1>1, <1>6 DEF OnPath
    <2>4. \A c : ~Dropping(w, n, c)'
      BY <1>0, <1>1, <1>6 DEF Dropping, Served
    <2>5. \A c \in Channels : InLine(n, c) => InLine(n, c)'
      BY <1>4, <2>2, <2>4 DEF InLine
    <2> QED BY <1>1, <1>2, <2>1, <2>2, <2>3, <2>5 DEF Cared
  <1> QED BY <1>5, <1>6

\* What a worker lets go has nothing to do, or has another place.
LEMMA DropKept ==
    ASSUME IInv, Kept, NEW w \in Workers, Drop(w)
    PROVE  Kept'
  <1> USE NodesAssumption
  <1>0. PICK m, c, k : m = Served(w) /\ c = Serving(w) /\ k = Len(path[w])
    OBVIOUS
  <1>1. /\ m \in Nodes /\ c \in Channels /\ root[c] = m
        /\ Links(c) \in Seq(Nodes) /\ Links(c) # <<>> /\ Head(Links(c)) = m
        /\ Links(c)' = Tail(Links(c))
        /\ \A d \in Channels : d # c => Links(d)' = Links(d) /\ root'[d] = root[d]
    BY <1>0, LeaveLine
  <1>2. /\ Plain /\ InChannel(w) /\ path[w] \in Seq(Nodes) /\ k \in Nat /\ k >= 2 /\ pc[w] = "back"
        /\ m = path[w][k] /\ c = path[w][k - 1] /\ w \in Threads /\ ~more[w]
    <2>1. Plain /\ InChannel(w) /\ ~more[w]
      BY DEF Drop, IInv
    <2> QED BY <1>0, <2>1, InChannelFacts
  <1>3. /\ StepOut(w) /\ more' = [more EXCEPT ![w] = (root'[c] # None)]
        /\ UNCHANGED <<tasks, post, held, bad>>
        /\ path \in [Workers -> Seq(Nodes)] /\ more \in [Workers -> BOOLEAN]
        /\ pc \in [Threads -> Labels]
    BY <1>0 DEF Drop, objectVars, IInv, Plain, TypeOK, Labels
  <1> DEFINE last == k = 2 /\ ~more'[w]
  <1>3a. more'[w] = (root'[c] # None) /\ LettingGo(w) /\ path[w] # <<>>
    BY <1>0, <1>2, <1>3 DEF LettingGo
  <1>3b. last => path' = [path EXCEPT ![w] = <<>>] /\ pc' = [pc EXCEPT ![w] = "idle"]
    BY <1>0 DEF Drop, StepOut, Goto
  <1>3c. ~last => path' = [path EXCEPT ![w] = Front(path[w])] /\ pc' = pc
    BY <1>0 DEF Drop, StepOut
  <1>4a. last => path'[w] = <<>> /\ k = 2 /\ root'[c] = None
    BY <1>3, <1>3a, <1>3b
  <1>4b. ~last =>
           /\ Len(path'[w]) = k - 1 /\ \A i \in 1 .. k - 1 : path'[w][i] = path[w][i]
           /\ Served(w)' = c /\ (root'[c] # None => ~LettingGo(w)')
    <2> SUFFICES ASSUME ~last
                 PROVE  /\ Len(path'[w]) = k - 1 /\ \A i \in 1 .. k - 1 : path'[w][i] = path[w][i]
                        /\ Served(w)' = c /\ (root'[c] # None => ~LettingGo(w)')
      OBVIOUS
    <2>1. path'[w] = Front(path[w])
      BY <1>3, <1>3c
    <2>2. Len(path'[w]) = k - 1 /\ \A i \in 1 .. k - 1 : path'[w][i] = path[w][i]
      <3>1. /\ Len(Front(path[w])) = Len(path[w]) - 1
            /\ \A i \in 1 .. Len(path[w]) - 1 : Front(path[w])[i] = path[w][i]
        <4>1. path[w] \in Seq(Nodes) /\ path[w] # <<>>
          BY <1>2, <1>3a
        <4>2. PICK q : q = path[w]
          OBVIOUS
        <4>3. q \in Seq(Nodes) /\ q # <<>>
          BY ONLY <4>1, <4>2
        <4>4. Len(Front(q)) = Len(q) - 1 /\ \A i \in 1 .. Len(q) - 1 : Front(q)[i] = q[i]
          BY ONLY <4>3, FrontLast
        <4> QED BY ONLY <4>2, <4>4
      <3> QED BY <1>0, <2>1, <3>1
    <2>3. root'[c] # None => ~LettingGo(w)'
      BY <1>3a DEF LettingGo
    <2>4. Served(w)' = c
      <3>1. k - 1 \in 1 .. k - 1
        BY <1>2
      <3> QED BY <1>2, <2>2, <3>1 DEF Served, Last
    <2> QED BY <2>2, <2>3, <2>4
  <1>5. \A v \in Workers \ {w} : path'[v] = path[v] /\ (LettingGo(v)' <=> LettingGo(v))
    <2> TAKE v \in Workers \ {w}
    <2>1. path'[v] = path[v] /\ pc'[v] = pc[v] /\ more'[v] = more[v]
      BY <1>3, <1>3b, <1>3c DEF Threads
    <2> QED BY <2>1 DEF LettingGo
  <1> HIDE DEF last
  <1>6. \A x \in Range(Links(c)) : x # m => x \in Range(Links(c)')
    BY <1>1, RangeFacts
  <1> SUFFICES ASSUME NEW n \in Nodes, Needs(n)' PROVE Cared(n)'
    BY DEF Kept
  <1>7. Cared(n)
    BY <1>1, <1>3 DEF Kept, Needs
  <1>8. \A v \in Workers \ {w} : /\ OnPath(n, v)' <=> OnPath(n, v)
                                 /\ \A d : Dropping(v, n, d)' <=> Dropping(v, n, d)
    BY <1>5, PathKeeps
  <1>9. n = c => ~last /\ ~LettingGo(w)'
    BY <1>1, <1>4a, <1>4b, NodesAssumption DEF Needs
  <1>10. \A d : ~Dropping(w, n, d)'
    <2>1. last => ~(Len(path'[w]) > 1)
      <3>1. Len(<<>>) = 0
        OBVIOUS
      <3> QED BY <1>4a, <3>1
    <2> QED BY <1>4b, <1>9, <2>1 DEF Dropping
  <1>11. \A d \in Channels : InLine(n, d) => InLine(n, d)'
    <2> TAKE d \in Channels
    <2> HAVE InLine(n, d)
    <2>0. Dropping(w, m, c)
      BY <1>0, <1>2, <1>3a DEF Dropping
    <2>1. ~(d = c /\ n = m)
      BY <2>0 DEF InLine
    <2>2. n \in Range(Links(d)')
      BY <1>1, <1>6, <2>1 DEF InLine
    <2> QED BY <1>8, <1>10, <2>2 DEF InLine
  <1>12. OnPath(n, w) => OnPath(n, w)'
    <2> SUFFICES ASSUME NEW i \in 1 .. k, path[w][i] = n, i < k PROVE OnPath(n, w)'
      BY <1>0, <1>3a DEF OnPath
    <2>1. i \in 1 .. k - 1 /\ (i < k - 1 \/ i = k - 1)
      BY <1>2
    <2>2. i = k - 1 => n = c
      BY <1>2
    <2>3. ~last
      BY <1>2, <1>4a, <1>9, <2>1, <2>2
    <2>4. path'[w][i] = n /\ Len(path'[w]) = k - 1
      BY <1>4b, <2>1, <2>3
    <2> QED BY <1>9, <2>1, <2>2, <2>4 DEF OnPath
  <1> QED BY <1>3, <1>7, <1>8, <1>11, <1>12 DEF Cared

\* A task that has more to do is posted again.
LEMMA ReturnKept ==
    ASSUME IInv, Kept, NEW w \in Workers, Return(w)
    PROVE  Kept'
  <1> USE NodesAssumption
  <1>1. /\ path[w] \in Seq(Nodes) /\ path \in [Workers -> Seq(Nodes)] /\ Len(path[w]) = 1
        /\ pc[w] = "back" /\ w \in Threads /\ post[w] = None
        /\ path' = [path EXCEPT ![w] = <<>>]
        /\ post \in [Threads -> Nodes \cup {None}] /\ pc \in [Threads -> Labels]
        /\ UNCHANGED <<next, root, tasks, held, bad, more>>
        /\ IF more[w] THEN post' = [post EXCEPT ![w] = Served(w)] ELSE post' = post
        /\ \A v \in Workers : v # w => pc'[v] = pc[v]
    BY DEF Return, Goto, IInv, Plain, TypeOK, Posts, Threads, Labels, listVars, objectVars
  <1>2. \A v \in Workers \ {w} : path'[v] = path[v] /\ (LettingGo(v)' <=> LettingGo(v))
    BY <1>1 DEF LettingGo
  <1>3. \A c \in Channels : Links(c)' = Links(c)
    BY <1>1, LinksKeep
  <1>4. Served(w) = path[w][1] /\ Served(w) \in Nodes /\ path'[w] = <<>> /\ (~more[w] => LettingGo(w))
    <2>1. path[w] # <<>> /\ path'[w] = <<>> /\ Last(path[w]) = path[w][1] /\ path[w][1] \in Nodes
      <3>1. path[w] # <<>>
        <4>1. path[w] \in Seq(Nodes) /\ Len(path[w]) = 1
          BY <1>1
        <4>2. path[w] = <<>> <=> Len(path[w]) = 0
          BY <4>1, SeqFacts
        <4> QED BY ONLY <4>1, <4>2
      <3>3. path'[w] = <<>>
        BY <1>1
      <3>2. Last(path[w]) = path[w][Len(path[w])] /\ Last(path[w]) \in Nodes
        BY <1>1, <3>1, FrontLast
      <3> QED BY <1>1, <3>1, <3>2, <3>3
    <2>2. ~more[w] => LettingGo(w)
      BY <1>1, <2>1 DEF LettingGo
    <2> QED BY <2>1, <2>2 DEF Served
  <1> SUFFICES ASSUME NEW n \in Nodes, Needs(n)' PROVE Cared(n)'
    BY DEF Kept
  <1>5. Cared(n)
    BY <1>1 DEF Kept, Needs
  <1>6. \A v \in Workers \ {w} : /\ OnPath(n, v)' <=> OnPath(n, v)
                                 /\ \A c : Dropping(v, n, c)' <=> Dropping(v, n, c)
    BY <1>2, PathKeeps
  <1>7. \A c : ~Dropping(w, n, c)'
    BY <1>4 DEF Dropping
  <1>8. \A c \in Channels : InLine(n, c) => InLine(n, c)'
    BY <1>3, <1>6, <1>7 DEF InLine
  <1>9. OnPath(n, w) => more[w] /\ n = Served(w)
    BY <1>1, <1>4 DEF OnPath
  <1>10. \A t \in Threads : post[t] = n => post'[t] = n
    BY <1>1
  <1>11. more[w] => post'[w] = Served(w)
    BY <1>1
  <1> QED BY <1>1, <1>5, <1>6, <1>8, <1>9, <1>10, <1>11 DEF Cared

\* Every step keeps what must be come to in somebody's care.
LEMMA StepKept == IInv /\ Kept /\ ~overtaken' /\ [Next]_vars => Kept'
  <1> SUFFICES ASSUME IInv, Kept, ~overtaken', [Next]_vars PROVE Kept'
    OBVIOUS
  <1>1. ASSUME NEW t \in Threads, Post(t)
        PROVE  Kept'
    BY <1>1, PoolKept, ChannelKept DEF Post
  <1>2. ASSUME NEW t \in Io, NEW o \in Objects, Receive(t, o) \/ GoBad(t, o)
        PROVE  Kept'
    BY <1>2, TokenKept
  <1>3. ASSUME NEW w \in Workers, NEW home, Handle(w, home)
        PROVE  Kept'
    <2>1. PICK o, b : o = Last(path[w]) /\ b = (waiting'[o] > 0)
      OBVIOUS
    <2>2. /\ pc[w] = "handle" /\ pc' = [pc EXCEPT ![w] = "leave"] /\ more' = [more EXCEPT ![w] = b]
          /\ UNCHANGED <<next, root, tasks, post, path, bad>>
          /\ held' = [held EXCEPT ![o] = b] /\ o \in Objects /\ held \in [Objects -> BOOLEAN]
      BY <1>3, <2>1 DEF Handle, Goto, listVars, IInv, Plain, TypeOK, Paths, PathOf
    <2>3. b \in BOOLEAN /\ held'[o] = b /\ \A p \in Objects : p # o => held'[p] = held[p]
      BY <2>1, <2>2
    <2> QED BY <2>1, <2>2, <2>3, EndKept
  <1>4. ASSUME NEW w \in Workers, DoClose(w)
        PROVE  Kept'
    <2>1. /\ pc[w] = "handle" /\ pc' = [pc EXCEPT ![w] = "leave"] /\ more' = [more EXCEPT ![w] = FALSE]
          /\ UNCHANGED <<next, root, tasks, post, path, bad, held>> /\ bad[Last(path[w])]
      BY <1>4 DEF DoClose, Goto, listVars, objectVars, Served
    <2> QED BY <2>1, EndKept
  <1>5. ASSUME NEW w \in Workers, WorkerStep(w)
        PROVE  Kept'
    <2>1. Stay(w) \/ Detach(w) \/ (\E c \in Channels : Attach(w, c)) => \E home : Handle(w, home)
      BY DEF Stay, Detach, Attach
    <2> QED BY <1>3, <1>4, <1>5, <2>1, TakeKept, RequeueKept, ElsewhereKept, DropKept, ReturnKept,
               NoCrash
        DEF WorkerStep
  <1>6. CASE UNCHANGED vars
    <2>1. UNCHANGED <<next, root, held, bad, post, tasks, path, more, pc>>
      BY <1>6 DEF vars
    <2>2. \A c \in Channels : Links(c)' = Links(c)
      BY <2>1, LinksKeep
    <2> QED BY <2>1, <2>2 DEF Kept, Needs, Cared, OnPath, InLine, Dropping, LettingGo, Serving, Served
  <1> QED BY <1>1, <1>2, <1>5, <1>6 DEF Next

\* Nothing posted is lost, and a channel with nodes is come to, up to the first node that
\* is posted while a channel lists it (NothingLost).
THEOREM NothingIsLost == SafeSpec => []NothingLost
  <1>1. Init => (~overtaken => Kept)
    BY NodesAssumption DEF Init, Kept, Needs, Nodes
  <1>2. Safe /\ (~overtaken => Kept) /\ [Next]_vars => (~overtaken => Kept)'
    BY StepKept, Remembered DEF Safe
  <1>3. Safe /\ (~overtaken => Kept) => NothingLost
    <2> SUFFICES ASSUME IInv, Kept, NEW n \in Nodes, Cared(n) PROVE Reachable(n)
      BY DEF Kept, Needs, NothingLost, Nodes, Safe
    <2>1. ASSUME NEW w \in Workers, OnPath(n, w)
          PROVE  InService(n)
      <3>1. path[w] \in Seq(Nodes)
        BY DEF IInv, Plain, TypeOK
      <3>2. n \in Range(path[w])
        BY <2>1, <3>1, SeqFacts DEF OnPath
      <3> QED BY <3>2 DEF InService
    <2> QED BY <2>1 DEF Cared, Reachable, Listed, InLine
  <1> QED BY <1>1, <1>2, <1>3, SafeAlways, PTL DEF SafeSpec
=============================================================================
