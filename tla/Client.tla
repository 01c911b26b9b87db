------------------------------- MODULE Client -------------------------------
(***************************************************************************)
(* The life of the client program (ClientTest.cpp): requesters over one    *)
(* event service and one dispatcher, from start() through the prompt to    *)
(* stop(), join() and the stop of the service and of the dispatcher.  It   *)
(* composes what the other modules look at one by one: a requester's       *)
(* promise, the close of its session by whichever thread comes first, the  *)
(* request token of its receive buffer, the dispatcher's queue.  What a    *)
(* session receives is a message, a part of one, or what is too long for   *)
(* one; every handler returns 0, as the program's does.  SessionMessage    *)
(* has the framing and the handlers that fail, SessionSend the event       *)
(* service.                                                                *)
(*                                                                         *)
(* An object that is destroyed keeps its state: what a thread does with it *)
(* afterwards is undefined in the program, and a step as before here.      *)
(***************************************************************************)
EXTENDS Integers, Sequences, FiniteSets

CONSTANTS
    Clients,      \* the requesters, numbered in the order they are started
    Workers,      \* the dispatcher's threads
    MaxArrivals   \* bound: how often data arrives

ASSUME ClientAssumption ==
    /\ Clients \subseteq Nat /\ IsFiniteSet(Clients)
    /\ IsFiniteSet(Workers) /\ {"main", "io"} \cap Workers = {}
    /\ MaxArrivals \in Nat

Threads == {"main", "io"} \cup Workers

VARIABLES
    stage,     \* where main() is
    todo,      \* the clients its loop has still to visit
    list,      \* m_list
    arrived,   \* how often data has arrived
    service,   \* state of the event service
    pool,      \* state of the dispatcher's thread pool
    queue,     \* its tasks
    state,     \* per client: m_state of the session
    tracked,   \* ... its descriptor is registered
    good,      \* ... m_good of its receive buffer
    token,     \* ... a request is queued or running (m_lastread)
    unread,    \* ... complete messages in its receive buffer
    endless,   \* ... what follows them there is too long for a message
    failed,    \* ... handle_error was called by the thread that has the token
    promise,   \* ... m_can_stop
    closes,    \* ... how often on_close was called
    at,        \* per thread: where in the library it is
    on         \* ... and for which client

mainVars == <<stage, todo, list>>
poolVars == <<service, pool, queue>>
bufferVars == <<good, token, unread, endless>>
sessionVars == <<state, tracked, arrived, bufferVars, failed, promise, closes>>
threadVars == <<at, on>>
vars == <<mainVars, poolVars, sessionVars, threadVars>>

\* Where a thread can be: closing a session, with its messages, between calls
CloseLabels == {"closing", "gobad", "post"}
MessageLabels == {"check", "handle", "commit", "confirm", "release"}
MainLabels == {"idle", "track", "promise", "close"} \cup CloseLabels
IoLabels == {"idle", "recv", "confirm", "close", "guard", "exited"} \cup CloseLabels
WorkerLabels == {"idle", "close", "guard"} \cup CloseLabels \cup MessageLabels

MainTypes ==
    /\ stage \in {"start", "prompt", "round", "stop", "join", "clear",
                  "service", "dispatcher", "drain", "done"}
    /\ todo \subseteq Clients /\ list \subseteq Clients
    /\ arrived \in 0 .. MaxArrivals
    /\ service \in {"running", "stopping", "none"}
    /\ pool \in {"running", "stopping", "none"}
    /\ queue \in Seq(Clients)

SessionTypes ==
    /\ state \in [Clients -> {"none", "connected", "closing"}]
    /\ tracked \in [Clients -> BOOLEAN]
    /\ good \in [Clients -> BOOLEAN] /\ token \in [Clients -> BOOLEAN]
    /\ unread \in [Clients -> Nat]
    /\ endless \in [Clients -> BOOLEAN] /\ failed \in [Clients -> BOOLEAN]
    /\ promise \in [Clients -> {"old", "oldSet", "new", "set", "lost", "broken"}]
    /\ closes \in [Clients -> Nat]

LabelsOf(t) == CASE t = "main" -> MainLabels [] t = "io" -> IoLabels [] OTHER -> WorkerLabels

ThreadTypes ==
    /\ at \in [Threads -> MainLabels \cup IoLabels \cup WorkerLabels]
    /\ \A t \in Threads : at[t] \in LabelsOf(t)
    /\ on \in [Threads -> Clients]

TypeOK == MainTypes /\ SessionTypes /\ ThreadTypes

\* The service and the dispatcher run, the clients are constructed.
Init ==
    /\ stage = "start" /\ todo = Clients /\ list = {}
    /\ service = "running" /\ pool = "running" /\ queue = <<>>
    /\ state = [c \in Clients |-> "none"]
    /\ tracked = [c \in Clients |-> FALSE]
    /\ good = [c \in Clients |-> TRUE]
    /\ token = [c \in Clients |-> FALSE]
    /\ unread = [c \in Clients |-> 0] /\ arrived = 0
    /\ endless = [c \in Clients |-> FALSE] /\ failed = [c \in Clients |-> FALSE]
    /\ promise = [c \in Clients |-> "old"]
    /\ closes = [c \in Clients |-> 0]
    /\ at = [t \in Threads |-> "idle"]
    /\ \E c \in Clients : on = [t \in Threads |-> c]

Goto(t, label) == at' = [at EXCEPT ![t] = label] /\ UNCHANGED on
Call(t, label, c) == at' = [at EXCEPT ![t] = label] /\ on' = [on EXCEPT ![t] = c]

\* Where a thread goes on when close() or a post returns: main() in its loop, the IO thread
\* and a worker with the session still in hand; a worker that came from handle_error leaves.
Returned(t) ==
    IF t = "main" THEN "idle"
    ELSE IF t = "io" \/ failed[on[t]] THEN "guard" ELSE "commit"

-----------------------------------------------------------------------------
(* main() *)

Visits(s, c) == stage = s /\ at["main"] = "idle" /\ c \in todo /\ \A d \in todo : c <= d
Visited(c) == todo' = todo \ {c}

\* The loop is through: the next one starts over the given clients.
LoopEnds(s, next, over) ==
    /\ stage = s /\ at["main"] = "idle" /\ todo = {}
    /\ stage' = next /\ todo' = over
    /\ UNCHANGED <<list, poolVars, sessionVars, threadVars>>

\* start() times out: main() drops the client.
ConnectFails(c) ==
    /\ Visits("start", c)
    /\ Visited(c)
    /\ UNCHANGED <<stage, list, poolVars, sessionVars, threadVars>>

\* connect(): the socket is connected, the session set up.
Connect(c) ==
    /\ Visits("start", c)
    /\ state' = [state EXCEPT ![c] = "connected"]
    /\ Call("main", "track", c)
    /\ UNCHANGED <<mainVars, poolVars, tracked, arrived, bufferVars, failed, promise, closes>>

\* track_session(): from here on the IO thread may find the session.
TrackSession ==
    /\ at["main"] = "track"
    /\ tracked' = [tracked EXCEPT ![on["main"]] = (service = "running")]
    /\ Goto("main", "promise")
    /\ UNCHANGED <<mainVars, poolVars, state, arrived, bufferVars, failed, promise, closes>>

\* m_can_stop = std::promise<bool>(); an answer the old one holds is lost.
NewPromise ==
    LET c == on["main"] IN
    /\ at["main"] = "promise"
    /\ promise' = [promise EXCEPT ![c] = IF @ = "old" THEN "new" ELSE "lost"]
    /\ list' = list \cup {c}
    /\ Visited(c)
    /\ Goto("main", "idle")
    /\ UNCHANGED <<stage, poolVars, state, tracked, arrived, bufferVars, failed, closes>>

\* A line: main() goes round its clients; "quit": it stops them.
Prompt ==
    /\ stage = "prompt"
    /\ stage' \in {"round", "stop"}
    /\ todo' = list
    /\ UNCHANGED <<list, poolVars, sessionVars, threadVars>>

\* The client is no longer connected: its last reference goes.
Erase(c) ==
    /\ Visits("round", c)
    /\ state[c] # "connected"
    /\ list' = list \ {c}
    /\ Visited(c)
    /\ UNCHANGED <<stage, poolVars, sessionVars, threadVars>>

\* It is sent the line; a send buffer without room closes the session.
Send(c) ==
    /\ Visits("round", c)
    /\ state[c] = "connected"
    /\ Visited(c)
    /\ \/ UNCHANGED threadVars
       \/ Call("main", "close", c)
    /\ UNCHANGED <<stage, list, poolVars, sessionVars>>

\* stop()
Stop(c) ==
    /\ Visits("stop", c)
    /\ Visited(c)
    /\ Call("main", "close", c)
    /\ UNCHANGED <<stage, list, poolVars, sessionVars>>

\* join() returns when the promise is kept.
Join(c) ==
    /\ Visits("join", c)
    /\ promise[c] = "set"
    /\ Visited(c)
    /\ UNCHANGED <<stage, list, poolVars, sessionVars, threadVars>>

\* m_list.clear()
Clear ==
    /\ stage = "clear"
    /\ list' = {} /\ stage' = "service"
    /\ UNCHANGED <<todo, poolVars, sessionVars, threadVars>>

StopService ==
    /\ stage = "service" /\ service = "running"
    /\ service' = "stopping"
    /\ UNCHANGED <<mainVars, pool, queue, sessionVars, threadVars>>

\* ... which joins the IO thread
ServiceStopped ==
    /\ stage = "service" /\ at["io"] = "exited"
    /\ service' = "none" /\ stage' = "dispatcher"
    /\ UNCHANGED <<todo, list, pool, queue, sessionVars, threadVars>>

StopDispatcher ==
    /\ stage = "dispatcher"
    /\ pool' = "stopping" /\ stage' = "drain"
    /\ UNCHANGED <<todo, list, service, queue, sessionVars, threadVars>>

\* safe_stop(): the queued tasks are run first.
DispatcherStopped ==
    /\ stage = "drain" /\ queue = <<>> /\ \A w \in Workers : at[w] = "idle"
    /\ pool' = "none" /\ stage' = "done"
    /\ UNCHANGED <<todo, list, service, queue, sessionVars, threadVars>>

MainStep ==
    \/ \E c \in Clients : ConnectFails(c) \/ Connect(c) \/ Erase(c) \/ Send(c)
                          \/ Stop(c) \/ Join(c)
    \/ TrackSession \/ NewPromise
    \/ LoopEnds("start", "prompt", {}) \/ LoopEnds("round", "prompt", {})
    \/ LoopEnds("stop", "join", list) \/ LoopEnds("join", "clear", {})
    \/ Clear \/ StopService \/ ServiceStopped \/ StopDispatcher \/ DispatcherStopped

-----------------------------------------------------------------------------
(* The IO thread *)

\* Data arrives on a session that is connected.
Receive(c) ==
    /\ at["io"] = "idle" /\ tracked[c] /\ state[c] = "connected"
    /\ arrived < MaxArrivals
    /\ arrived' = arrived + 1
    /\ Call("io", "recv", c)
    /\ UNCHANGED <<mainVars, poolVars, state, tracked, bufferVars, failed, promise, closes>>

\* The peer closes the connection.
PeerClose(c) ==
    /\ at["io"] = "idle" /\ tracked[c]
    /\ Call("io", "close", c)
    /\ UNCHANGED <<mainVars, poolVars, sessionVars>>

\* commit_recv(): data is added; whoever adds the first takes the token and looks for a
\* message (post_request). Nothing completes a message that is too long.
CommitRecv ==
    LET c == on["io"] IN
    /\ at["io"] = "recv"
    /\ IF good[c]
       THEN /\ \/ ~endless[c] /\ unread' = [unread EXCEPT ![c] = @ + 1] /\ UNCHANGED endless
               \/ endless' = [endless EXCEPT ![c] = TRUE] /\ UNCHANGED unread
               \/ UNCHANGED <<unread, endless>>
            /\ token' = [token EXCEPT ![c] = TRUE]
            /\ Goto("io", IF token[c] THEN "guard" ELSE "confirm")
       ELSE Goto("io", "guard") /\ UNCHANGED <<unread, endless, token>>
    /\ UNCHANGED <<mainVars, poolVars, state, tracked, arrived, good, failed, promise, closes>>

\* The loop's condition, once the session is let go.
IoExits ==
    /\ at["io"] = "idle" /\ service = "stopping"
    /\ Goto("io", "exited")
    /\ UNCHANGED <<mainVars, poolVars, sessionVars>>

-----------------------------------------------------------------------------
(* close(), by any thread *)

\* mutant: close() tests the state and sets it later
Mut_CloseTests(t) ==
    /\ at[t] = "close"
    /\ Goto(t, IF state[on[t]] # "none" THEN "closing" ELSE Returned(t))
    /\ UNCHANGED <<mainVars, poolVars, sessionVars>>

\* The compare-exchange lets one caller through.
CloseBegins(t) ==
    LET c == on[t] IN
    /\ at[t] = "close"
    /\ IF state[c] = "connected"
       THEN state' = [state EXCEPT ![c] = "closing"] /\ Goto(t, "closing")
       ELSE UNCHANGED state /\ Goto(t, Returned(t))
    /\ UNCHANGED <<mainVars, poolVars, tracked, arrived, bufferVars, failed, promise, closes>>

\* The session is untracked, its socket closed.
CloseSocket(t) ==
    LET c == on[t] IN
    /\ at[t] = "closing"
    /\ tracked' = [tracked EXCEPT ![c] = FALSE]
    /\ state' = [state EXCEPT ![c] = "none"]
    /\ Goto(t, "gobad")
    /\ UNCHANGED <<mainVars, poolVars, arrived, bufferVars, failed, promise, closes>>

\* mutant: process_close posts whoever has the token
Mut_ProcessCloseAlwaysPosts(t) ==
    LET c == on[t] IN
    /\ at[t] = "gobad"
    /\ good' = [good EXCEPT ![c] = FALSE]
    /\ token' = [token EXCEPT ![c] = TRUE]
    /\ Goto(t, "post")
    /\ UNCHANGED <<mainVars, poolVars, state, tracked, arrived, unread, endless, failed, promise,
                   closes>>

\* mutant: process_close leaves the post to whoever has a message
Mut_ProcessCloseNeverPosts(t) ==
    LET c == on[t] IN
    /\ at[t] = "gobad"
    /\ good' = [good EXCEPT ![c] = FALSE]
    /\ Goto(t, Returned(t))
    /\ UNCHANGED <<mainVars, poolVars, state, tracked, arrived, token, unread, endless, failed,
                   promise, closes>>

\* process_close(): the message is bad, and a request posted if none is.
ProcessClose(t) ==
    LET c == on[t] IN
    /\ at[t] = "gobad"
    /\ good' = [good EXCEPT ![c] = FALSE]
    /\ token' = [token EXCEPT ![c] = TRUE]
    /\ Goto(t, IF token[c] THEN Returned(t) ELSE "post")
    /\ UNCHANGED <<mainVars, poolVars, state, tracked, arrived, unread, endless, failed, promise,
                   closes>>

\* dispatch(): a pool that has stopped drops the task.  A worker posts its
\* own session, when it has let it go.
Post(t) ==
    /\ at[t] = "post"
    /\ queue' = IF pool = "running" THEN Append(queue, on[t]) ELSE queue
    /\ Goto(t, IF t \in Workers THEN "idle" ELSE Returned(t))
    /\ UNCHANGED <<mainVars, service, pool, sessionVars>>

-----------------------------------------------------------------------------
(* A worker: dispatch_obj *)

Take(w) ==
    /\ at[w] = "idle" /\ queue # <<>>
    /\ queue' = Tail(queue)
    /\ Call(w, "check", Head(queue))
    /\ UNCHANGED <<mainVars, service, pool, sessionVars>>

IsGood(w) ==
    /\ at[w] = "check"
    /\ Goto(w, IF good[on[w]] THEN "handle" ELSE "release")
    /\ UNCHANGED <<mainVars, poolVars, sessionVars>>

\* The handler sends the message back, and finds room for it or does not.
Handle(w) ==
    /\ at[w] = "handle"
    /\ \/ Goto(w, "commit")
       \/ Goto(w, "close")
    /\ UNCHANGED <<mainVars, poolVars, sessionVars>>

Commit(w) ==
    /\ at[w] = "commit"
    /\ unread' = [unread EXCEPT ![on[w]] = @ - 1]
    /\ Goto(w, "confirm")
    /\ UNCHANGED <<mainVars, poolVars, state, tracked, arrived, good, token, endless, failed,
                   promise, closes>>

\* comfirm(), after a worker's commit or in post_request: the session has gone bad, there
\* is a message, what there is is too long, or it is not one yet - and the token goes. Too
\* long is an error: handle_error closes the session, and the thread keeps the token.
Confirm(t) ==
    LET c == on[t]
        none == good[c] /\ unread[c] = 0
    IN
    /\ at[t] = "confirm"
    /\ token' = [token EXCEPT ![c] = none => endless[c]]
    /\ failed' = [failed EXCEPT ![c] = @ \/ (none /\ endless[c])]
    /\ Goto(t, IF none THEN IF endless[c] THEN "close" ELSE "guard"
               ELSE IF good[c] \/ t = "io" THEN "post" ELSE "release")
    /\ UNCHANGED <<mainVars, poolVars, state, tracked, arrived, good, unread, endless, promise,
                   closes>>

\* do_close(): on_close, then the requester's promise.
DoClose(w) ==
    LET c == on[w] IN
    /\ at[w] = "release"
    /\ closes' = [closes EXCEPT ![c] = @ + 1]
    /\ promise' = [promise EXCEPT ![c] = IF @ = "old" THEN "oldSet"
                                         ELSE IF @ = "new" THEN "set" ELSE "broken"]
    /\ Goto(w, "guard")
    /\ UNCHANGED <<mainVars, poolVars, state, tracked, arrived, bufferVars, failed>>

\* The last use of the session: a worker's thread_id_guard, the IO thread's
\* m_inuse and m_buffer.
LetGo(t) ==
    /\ at[t] = "guard"
    /\ Goto(t, "idle")
    /\ UNCHANGED <<mainVars, poolVars, sessionVars>>

-----------------------------------------------------------------------------
\* What any thread may be doing for a session
SharedStep(t) == CloseBegins(t) \/ CloseSocket(t) \/ ProcessClose(t) \/ Post(t) \/ LetGo(t)

IoStep == CommitRecv \/ IoExits \/ Confirm("io")
WorkerStep(w) == Take(w) \/ IsGood(w) \/ Handle(w) \/ Commit(w) \/ Confirm(w) \/ DoClose(w)

Next ==
    \/ MainStep
    \/ Prompt
    \/ \E c \in Clients : Receive(c) \/ PeerClose(c)
    \/ IoStep
    \/ \E w \in Workers : WorkerStep(w)
    \/ \E t \in Threads : SharedStep(t)

(***************************************************************************)
(* Threads inside the program go on.  The peers owe nothing, and nobody    *)
(* has to type.                                                            *)
(***************************************************************************)
Fairness ==
    /\ WF_vars(MainStep) /\ WF_vars(IoStep)
    /\ \A w \in Workers : WF_vars(WorkerStep(w))
    /\ \A t \in Threads : WF_vars(SharedStep(t))

Spec == Init /\ [][Next]_vars /\ Fairness

-----------------------------------------------------------------------------
(* Properties *)

\* A client main() has joined: past it in the loop, or past the loop.
Joined(c) ==
    \/ stage = "join" /\ c \in list \ todo
    \/ stage = "clear" /\ c \in list

(***************************************************************************)
(* What join() is for: when it returns, whoever closed the session - the   *)
(* peer, an overflow, a handler or stop() - its close is complete.  The    *)
(* close callback has run, once; no request for the session is queued; and *)
(* no thread is in its close or with its messages.  What may be left is a  *)
(* thread that finds the session closed, and the last use each makes of it *)
(* on its way out (LetGo).                                                 *)
(***************************************************************************)
JoinMeansClosed ==
    \A c \in Clients : Joined(c) =>
        /\ closes[c] = 1 /\ state[c] = "none" /\ ~tracked[c]
        /\ \A i \in 1 .. Len(queue) : queue[i] # c
        /\ \A t \in Threads : on[t] = c => at[t] \notin CloseLabels \cup MessageLabels

(***************************************************************************)
(* The promise is kept at most once: a second set_value would throw in a   *)
(* worker and end the program.  Up to four threads may close a session,    *)
(* and its messages and its close share one token.                         *)
(***************************************************************************)
PromiseKeptOnce == \A c \in Clients : promise[c] # "broken"

(***************************************************************************)
(* The program ends: once it stops its clients, every join returns, the    *)
(* event service and the dispatcher stop.  Two things keep it from ending, *)
(* both findings: a session closed so soon after it was tracked that the   *)
(* answer went to the promise connect() was about to replace, and a peer   *)
(* that sends what is too long for a message, whose session is closed      *)
(* under its token and released by nobody.                                 *)
(***************************************************************************)
ProgramEnds ==
    (stage = "stop") ~>
        (stage = "done" \/ \E c \in Clients : promise[c] = "lost" \/ failed[c])
=============================================================================
