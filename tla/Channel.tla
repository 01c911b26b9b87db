------------------------------ MODULE Channel ------------------------------
(***************************************************************************)
(* The dispatch of objects through channels (msg_channel, msg_controler).  *)
(*                                                                         *)
(* An object with messages is posted once: to the dispatcher's pool, or to *)
(* its channel, a linked list of nodes that is posted in its turn when it  *)
(* becomes non-empty.  The worker that takes a channel serves its first    *)
(* node and puts it at the end, or drops it, and posts the channel again   *)
(* while it is not empty, so that the children of a channel are never      *)
(* served by two workers at once.  Channels nest.                          *)
(*                                                                         *)
(* An object's token is given back in its handler's dispatch, before the   *)
(* worker drops its node from the channel.  A thread may post the node in  *)
(* between; post_node then meets a node that a channel still lists, which  *)
(* it takes for the worker's own (README, findings).  The history variable *)
(* overtaken remembers that, and the properties are stated up to it.       *)
(*                                                                         *)
(* SessionMessage has the steps of one object's token; here they are the   *)
(* count of its messages and one flag.  m_prev is never read, and is left  *)
(* out; so are handlers that fail (see SessionMessage).                    *)
(***************************************************************************)
EXTENDS Integers, SequencesExt

CONSTANTS
    Objects,        \* sessions and other message objects
    Channels,       \* channels
    Home,           \* the channel of each node at first, or None
    Io,             \* threads that receive messages and post objects
    Workers,        \* the dispatcher's threads
    MaxMessages,    \* bound on the messages an object receives
    None

Nodes == Objects \cup Channels
Threads == Io \cup Workers

ASSUME NodesAssumption == Objects \cap Channels = {} /\ None \notin Nodes
ASSUME FiniteAssumption == IsFiniteSet(Nodes)
ASSUME ThreadsAssumption == Io \cap Workers = {} /\ None \notin Threads
ASSUME HomeAssumption == Home \in [Nodes -> Channels \cup {None}]
ASSUME BoundAssumption == MaxMessages \in Nat

VARIABLES
    parent,     \* m_parent of each node
    next,       \* m_next of each node
    root,       \* m_post_root of each channel
    tail,       \* m_post_tail of each channel
    owner,      \* m_thread_id of each object
    waiting,    \* messages an object has received and not handled
    held,       \* its token is out: it is posted, or being served
    bad,        \* its message is no longer good: it is to be closed
    arrived,    \* messages received, to bound them
    tasks,      \* the pool's queue
    pc,         \* where each thread is
    post,       \* the node a thread is posting
    path,       \* the nodes a worker is dispatching, from its task inwards
    more,       \* what the dispatch a worker is in has returned
    overtaken   \* history: a node was posted to a channel while one still listed it

vars == <<parent, next, root, tail, owner, waiting, held, bad, arrived, tasks, pc, post,
          path, more, overtaken>>
listVars == <<next, root, tail>>
objectVars == <<waiting, held, bad, arrived>>

TypeOK ==
    /\ parent \in [Nodes -> Channels \cup {None}]
    /\ next \in [Nodes -> Nodes \cup {None}]
    /\ root \in [Channels -> Nodes \cup {None}]
    /\ tail \in [Channels -> Nodes \cup {None}]
    /\ owner \in [Objects -> Workers \cup {None}]
    /\ waiting \in [Objects -> 0 .. MaxMessages]
    /\ held \in [Objects -> BOOLEAN]
    /\ bad \in [Objects -> BOOLEAN]
    /\ arrived \in [Objects -> 0 .. MaxMessages]
    /\ tasks \in Seq(Nodes)
    /\ pc \in [Threads -> {"idle", "post", "front", "handle", "leave", "back", "crashed"}]
    /\ post \in [Threads -> Nodes \cup {None}]
    /\ path \in [Workers -> Seq(Nodes)]
    /\ more \in [Workers -> BOOLEAN]
    /\ overtaken \in BOOLEAN

Init ==
    /\ parent = Home
    /\ next = [n \in Nodes |-> None]
    /\ root = [c \in Channels |-> None]
    /\ tail = [c \in Channels |-> None]
    /\ owner = [o \in Objects |-> None]
    /\ waiting = [o \in Objects |-> 0]
    /\ held = [o \in Objects |-> FALSE]
    /\ bad = [o \in Objects |-> FALSE]
    /\ arrived = [o \in Objects |-> 0]
    /\ tasks = <<>>
    /\ pc = [t \in Threads |-> "idle"]
    /\ post = [t \in Threads |-> None]
    /\ path = [w \in Workers |-> <<>>]
    /\ more = [w \in Workers |-> FALSE]
    /\ overtaken = FALSE

Goto(t, label) == pc' = [pc EXCEPT ![t] = label]

-----------------------------------------------------------------------------
(* channel: each under m_mutex *)

\* mutant: a new node keeps the m_next of the list it was in before
Mut_PostKeepsNext(c, n) ==
    IF n = root[c]
    THEN IF next[n] = None
         THEN UNCHANGED listVars
         ELSE /\ root' = [root EXCEPT ![c] = next[n]]
              /\ next' = [next EXCEPT ![tail[c]] = n, ![n] = None]
              /\ tail' = [tail EXCEPT ![c] = n]
    ELSE /\ next' = IF tail[c] = None THEN next ELSE [next EXCEPT ![tail[c]] = n]
         /\ root' = IF tail[c] = None THEN [root EXCEPT ![c] = n] ELSE root
         /\ tail' = [tail EXCEPT ![c] = n]

\* post_node: the root goes to the tail; any other node is new.
PostNode(c, n) ==
    IF n = root[c]
    THEN IF next[n] = None
         THEN UNCHANGED listVars
         ELSE /\ root' = [root EXCEPT ![c] = next[n]]
              /\ next' = [next EXCEPT ![tail[c]] = n, ![n] = None]
              /\ tail' = [tail EXCEPT ![c] = n]
    ELSE /\ next' = [m \in Nodes |-> IF m = n THEN None ELSE IF m = tail[c] THEN n ELSE next[m]]
         /\ root' = IF tail[c] = None THEN [root EXCEPT ![c] = n] ELSE root
         /\ tail' = [tail EXCEPT ![c] = n]

\* mutant: every post of a child posts the channel
Mut_AlwaysPosts(c, n) == TRUE

\* mutant: a served node posted again is not more work for its channel
Mut_RepostSilent(c, n) == tail[c] = None

\* Its result: the channel is to be posted.
PostsChannel(c, n) == n = root[c] \/ tail[c] = None

\* pop_front, which returns whether root'[c] # None
PopFront(c) ==
    /\ root' = [root EXCEPT ![c] = next[root[c]]]
    /\ tail' = IF root'[c] = None THEN [tail EXCEPT ![c] = None] ELSE tail
    /\ UNCHANGED next

-----------------------------------------------------------------------------
(* controler_iface::post_node, by any thread *)

\* A worker in the middle of a channel goes on there.
DonePosting(t) ==
    /\ Goto(t, IF t \in Workers /\ path[t] # <<>> THEN "back" ELSE "idle")
    /\ post' = [post EXCEPT ![t] = None]

InService(n) == \E w \in Workers : n \in Range(path[w])

PostToPool(t) ==
    /\ pc[t] = "post"
    /\ parent[post[t]] = None
    /\ tasks' = Append(tasks, post[t])
    /\ DonePosting(t)
    /\ UNCHANGED <<parent, owner, path, more, overtaken, listVars, objectVars>>

PostToChannel(t) ==
    /\ pc[t] = "post"
    /\ parent[post[t]] # None
    /\ LET n == post[t]
           c == parent[n] IN
       /\ PostNode(c, n)
       /\ overtaken' = (overtaken \/ \E d \in Channels : root[d] = n)
       /\ IF PostsChannel(c, n)
          THEN post' = [post EXCEPT ![t] = c] /\ UNCHANGED pc
          ELSE DonePosting(t)
    /\ UNCHANGED <<parent, owner, tasks, path, more, objectVars>>

-----------------------------------------------------------------------------
(* IO threads: post_request and process_close, when they take the token *)

TakeToken(t, o) ==
    IF held[o]
    THEN UNCHANGED <<held, pc, post>>
    ELSE /\ held' = [held EXCEPT ![o] = TRUE]
         /\ post' = [post EXCEPT ![t] = o]
         /\ Goto(t, "post")

Receive(t, o) ==
    /\ pc[t] = "idle"
    /\ arrived[o] < MaxMessages
    /\ ~bad[o]
    /\ arrived' = [arrived EXCEPT ![o] = @ + 1]
    /\ waiting' = [waiting EXCEPT ![o] = @ + 1]
    /\ TakeToken(t, o)
    /\ UNCHANGED <<parent, owner, bad, tasks, path, more, overtaken, listVars>>

GoBad(t, o) ==
    /\ pc[t] = "idle"
    /\ ~bad[o]
    /\ bad' = [bad EXCEPT ![o] = TRUE]
    /\ TakeToken(t, o)
    /\ UNCHANGED <<parent, owner, waiting, arrived, tasks, path, more, overtaken, listVars>>

-----------------------------------------------------------------------------
(* Workers: dispatch_node, dispatch_channel, dispatch_obj *)

\* Entering the dispatch of node n, the task or a channel's first
Enter(w, n) ==
    /\ path' = [path EXCEPT ![w] = Append(@, n)]
    /\ Goto(w, IF n \in Channels THEN "front" ELSE "handle")
    /\ owner' = IF n \in Objects THEN [owner EXCEPT ![n] = w] ELSE owner

Take(w) ==
    /\ pc[w] = "idle"
    /\ tasks # <<>>
    /\ tasks' = Tail(tasks)
    /\ Enter(w, Head(tasks))
    /\ UNCHANGED <<parent, post, more, overtaken, listVars, objectVars>>

TakeFront(w) ==
    /\ pc[w] = "front"
    /\ root[Last(path[w])] \notin Range(path[w]) \cup {None}
    /\ Enter(w, root[Last(path[w])])
    /\ UNCHANGED <<parent, tasks, post, more, overtaken, listVars, objectVars>>

(***************************************************************************)
(* A message is handled, released, and the next one confirmed, or the      *)
(* token given back.  The handler may detach its object from its channel,  *)
(* or attach it to another.  attach() checks for its own thread (owner).   *)
(* Where two workers handle an object at once - not before one was         *)
(* overtaken - the second may find no message left.                        *)
(***************************************************************************)
Handle(w, home) ==
    /\ pc[w] = "handle"
    /\ LET o == Last(path[w]) IN
       /\ ~bad[o]
       /\ parent' = [parent EXCEPT ![o] = home]
       /\ waiting' = [waiting EXCEPT ![o] = IF @ = 0 THEN 0 ELSE @ - 1]
       /\ held' = [held EXCEPT ![o] = waiting'[o] > 0]
       /\ more' = [more EXCEPT ![w] = waiting'[o] > 0]
    /\ Goto(w, "leave")
    /\ UNCHANGED <<owner, bad, arrived, tasks, post, path, overtaken, listVars>>

Stay(w) == Handle(w, parent[Last(path[w])])
Detach(w) ==
    /\ pc[w] = "handle"
    /\ parent[Last(path[w])] # None
    /\ Handle(w, None)

\* The nodes of a channel, by its links
Links(c) ==
    LET most == Cardinality(Nodes)
        walk[k \in 0 .. most] ==
          IF k = 0 THEN root[c]
          ELSE IF walk[k - 1] = None THEN None ELSE next[walk[k - 1]]
    IN  [k \in 1 .. Cardinality({i \in 0 .. most : walk[i] # None}) |-> walk[k - 1]]

Listed(n, c) == n \in Range(Links(c))

\* A free object, or one that the handler has detached before
Attach(w, c) ==
    /\ pc[w] = "handle"
    /\ parent[Last(path[w])] # c
    /\ owner[Last(path[w])] = w
    /\ Handle(w, c)

\* A message that is not good: do_close, which leaves the channel.
DoClose(w) ==
    /\ pc[w] = "handle"
    /\ bad[Last(path[w])]
    /\ parent' = [parent EXCEPT ![Last(path[w])] = None]
    /\ more' = [more EXCEPT ![w] = FALSE]
    /\ Goto(w, "leave")
    /\ UNCHANGED <<owner, tasks, post, path, overtaken, listVars, objectVars>>

\* dispatch_obj returns: ~thread_id_guard
LeaveObject(w) ==
    /\ pc[w] = "leave"
    /\ owner' = [owner EXCEPT ![Last(path[w])] = None]
    /\ Goto(w, "back")
    /\ UNCHANGED <<parent, tasks, post, path, more, overtaken, listVars, objectVars>>

InChannel(w) == pc[w] = "back" /\ Len(path[w]) > 1
Served(w) == Last(path[w])
Serving(w) == path[w][Len(path[w]) - 1]

\* The first node has more to do, and is still a child: to the end of the line.
Requeue(w) ==
    /\ InChannel(w) /\ more[w]
    /\ parent[Served(w)] = Serving(w)
    /\ PostNode(Serving(w), Served(w))
    /\ more' = [more EXCEPT ![w] = PostsChannel(Serving(w), Served(w))]
    /\ path' = [path EXCEPT ![w] = Front(@)]
    /\ UNCHANGED <<parent, owner, tasks, pc, post, overtaken, objectVars>>

\* It has left the channel: it is posted where it is now, then dropped here.
PostElsewhere(w) ==
    /\ InChannel(w) /\ more[w]
    /\ parent[Served(w)] # Serving(w)
    /\ post' = [post EXCEPT ![w] = Served(w)]
    /\ more' = [more EXCEPT ![w] = FALSE]
    /\ Goto(w, "post")
    /\ UNCHANGED <<parent, owner, tasks, path, overtaken, listVars, objectVars>>

\* dispatch_channel returns: to the channel around it, or from an emptied task
StepOut(w) ==
    IF Len(path[w]) = 2 /\ ~more'[w]
    THEN Goto(w, "idle") /\ path' = [path EXCEPT ![w] = <<>>]
    ELSE UNCHANGED pc /\ path' = [path EXCEPT ![w] = Front(@)]

\* mutant: pop_front does not say that the channel has further nodes
Mut_DropSaysEmpty(w) ==
    /\ InChannel(w) /\ ~more[w]
    /\ root[Serving(w)] # None
    /\ PopFront(Serving(w))
    /\ more' = [more EXCEPT ![w] = FALSE]
    /\ StepOut(w)
    /\ UNCHANGED <<parent, owner, tasks, post, overtaken, objectVars>>

\* mutant: pop_front says that the channel it emptied has further nodes
Mut_DropSaysMore(w) ==
    /\ InChannel(w) /\ ~more[w]
    /\ root[Serving(w)] # None
    /\ PopFront(Serving(w))
    /\ more' = [more EXCEPT ![w] = TRUE]
    /\ StepOut(w)
    /\ UNCHANGED <<parent, owner, tasks, post, overtaken, objectVars>>

Drop(w) ==
    /\ InChannel(w) /\ ~more[w]
    /\ root[Serving(w)] # None
    /\ PopFront(Serving(w))
    /\ more' = [more EXCEPT ![w] = root'[Serving(w)] # None]
    /\ StepOut(w)
    /\ UNCHANGED <<parent, owner, tasks, post, overtaken, objectVars>>

\* dispatch_node's end: the task is posted again while it has more to do.
Return(w) ==
    /\ pc[w] = "back"
    /\ Len(path[w]) = 1
    /\ path' = [path EXCEPT ![w] = <<>>]
    /\ IF more[w]
       THEN Goto(w, "post") /\ post' = [post EXCEPT ![w] = Served(w)]
       ELSE Goto(w, "idle") /\ UNCHANGED post
    /\ UNCHANGED <<parent, owner, tasks, more, overtaken, listVars, objectVars>>

\* A null pointer from front(), or in pop_front(); or a channel that is linked into
\* itself, which is entered until the stack ends.  Any of these ends the program.
Crash(w) ==
    /\ \/ pc[w] = "front" /\ root[Last(path[w])] \in Range(path[w]) \cup {None}
       \/ InChannel(w) /\ ~more[w] /\ root[Serving(w)] = None
    /\ pc' = [t \in Threads |-> "crashed"]
    /\ UNCHANGED <<parent, owner, tasks, post, path, more, overtaken, listVars, objectVars>>

-----------------------------------------------------------------------------
Post(t) == PostToPool(t) \/ PostToChannel(t)

WorkerStep(w) ==
    \/ Take(w)
    \/ TakeFront(w)
    \/ Stay(w)
    \/ Detach(w)
    \/ \E c \in Channels : Attach(w, c)
    \/ DoClose(w)
    \/ LeaveObject(w)
    \/ Requeue(w)
    \/ PostElsewhere(w)
    \/ Drop(w)
    \/ Return(w)
    \/ Crash(w)

Next ==
    \/ \E t \in Threads : Post(t)
    \/ \E t \in Io, o \in Objects : Receive(t, o) \/ GoBad(t, o)
    \/ \E w \in Workers : WorkerStep(w)

\* Threads go on: no handler blocks for ever, no mutex is kept.
Fairness ==
    /\ \A t \in Threads : WF_vars(Post(t))
    /\ \A w \in Workers : WF_vars(WorkerStep(w))

SafeSpec == Init /\ [][Next]_vars
Spec == SafeSpec /\ Fairness

-----------------------------------------------------------------------------
(* Properties, up to the first node that is overtaken *)

\* The channels worker w is in the middle of
Inside(w) ==
    {path[w][i] : i \in {j \in DOMAIN path[w] : j < Len(path[w]) \/ pc[w] = "front"}}

(***************************************************************************)
(* Served by one: two workers are never in the same channel, nor in the    *)
(* handler of the same object.  The handlers of a channel's children share *)
(* state without locks on the strength of this (dispatch_channel).         *)
(***************************************************************************)
ServedByOne ==
    ~overtaken =>
        \A w, v \in Workers : w # v =>
            /\ Inside(w) \cap Inside(v) = {}
            /\ (pc[w] = "handle" /\ pc[v] = "handle") => Served(w) # Served(v)

(***************************************************************************)
(* A channel that is dispatched has a first node, and not one that the     *)
(* worker is in already: front() and pop_front() follow m_post_root        *)
(* without a test for null, and the recursion of dispatch_channel ends.    *)
(***************************************************************************)
FrontExists ==
    ~overtaken =>
        \A w \in Workers :
            /\ pc[w] = "front" => root[Last(path[w])] \notin Range(path[w]) \cup {None}
            /\ InChannel(w) /\ ~more[w] => root[Serving(w)] = Served(w)

\* Some thread, the pool, or a channel will come to node n.
Reachable(n) ==
    \/ \E t \in Threads : post[t] = n
    \/ n \in Range(tasks)
    \/ InService(n)
    \/ \E c \in Channels : Listed(n, c)

(***************************************************************************)
(* Nothing posted is lost: an object whose token is out, and a channel     *)
(* whose list is not empty, is posted, queued, or being served, whatever   *)
(* post_node and pop_front did to the links in between.                    *)
(***************************************************************************)
NothingLost ==
    ~overtaken =>
        /\ \A o \in Objects : held[o] /\ ~bad[o] => Reachable(o)
        /\ \A c \in Channels : root[c] # None => Reachable(c)

(***************************************************************************)
(* The linked list is a line: post_node, its second form for the root, and *)
(* pop_front keep the order of arrival, and lose or repeat no node.        *)
(***************************************************************************)
links == [c \in Channels |-> Links(c)]
Line == INSTANCE RunQueue WITH line <- links
IsLine == Line!Init /\ [][overtaken' \/ Line!Next]_links

(***************************************************************************)
(* Every message of an object is handled, unless the object is closed:     *)
(* each link of the chain from the object up to the pool is made again by  *)
(* whoever breaks it.                                                      *)
(***************************************************************************)
AllHandled ==
    \A o \in Objects : waiting[o] > 0 ~> (waiting[o] = 0 \/ bad[o] \/ overtaken)

(***************************************************************************)
(* The comment of post_node (msg_channel.cpp:69): a node that is found at  *)
(* the root of its channel is posted again by the dispatching thread.  Not *)
(* an invariant of the code (README, findings).                            *)
(***************************************************************************)
RepostIsDispatchers ==
    \A t \in Io : (pc[t] = "post" /\ parent[post[t]] # None) => root[parent[post[t]]] # post[t]

(***************************************************************************)
(* The assertion of attach (msg_channel.cpp:45): a handler runs on the     *)
(* thread its object carries in m_thread_id.  Not an invariant of the      *)
(* code (README, findings).                                                *)
(***************************************************************************)
HandlerOwnsObject ==
    \A w \in Workers : pc[w] = "handle" /\ ~bad[Served(w)] => owner[Served(w)] = w
=============================================================================
