----------------------------- MODULE Responder -----------------------------
(***************************************************************************)
(* A server's sessions: accepted by the IO thread, closed by anybody,      *)
(* given back by a worker of the dispatcher, and closed and waited for by  *)
(* stop() (net_responder.inl, with the parts of net_session.cpp and        *)
(* net_io_service_epoll.cpp it works with).                                *)
(*                                                                         *)
(* A closed session reaches on_close_session once, unless it was closed by *)
(* the thread that held its token: that is what SessionMessage shows. The  *)
(* pool of sessions is a CellPool. The IO service runs one thread, and the *)
(* dispatcher and it outlive the server. Nothing catches an exception in   *)
(* the IO thread or a worker: it ends the program, and what the model does *)
(* after it ("stuck", "threw") only adds behaviours.                       *)
(***************************************************************************)
EXTENDS Integers, FiniteSets

CONSTANTS
    Sessions,   \* the elements of m_session_pool
    MaxConns,   \* bound on the connections made in one behaviour
    MaxRounds   \* bound on the calls of start()

NoSession == "no session"

ASSUME ResponderAssumption ==
    /\ IsFiniteSet(Sessions) /\ NoSession \notin Sessions
    /\ MaxConns \in Nat /\ MaxRounds \in Nat

Conns == 1 .. MaxConns

VARIABLES
    running,    \* m_running
    listening,  \* the server's descriptor is tracked by the IO service
    promise,    \* m_can_stop: "new", "set", or "twice", set when it was set already
    used,       \* sessions taken from m_session_pool
    state,      \* m_state of each session; "stuck" after an exception in close()
    tracked,    \* the session's descriptor is tracked by the IO service
    conn,       \* the connection a session was last accepted for
    posted,     \* closed sessions, on their way to on_close_session
    leaked,     \* sessions closed under their token, which nobody posts
    made,       \* connections made so far
    gone,       \* connections whose peer is gone
    ownerPc,    \* where start() and stop() are
    todo,       \* sessions stop() has still to close
    ioPc,       \* where the IO thread is
    accepting,  \* the session it has taken for a connection
    accepted,   \* m_fd of the accept data is the descriptor accept() returned last
    batch,      \* events of its last epoll_wait that it has not processed
    rounds      \* calls of start() so far

vars == <<running, listening, promise, used, state, tracked, conn, posted, leaked, made,
          gone, ownerPc, todo, ioPc, accepting, accepted, batch, rounds>>
serverVars == <<running, listening, promise, rounds>>
sessionVars == <<state, tracked, posted, leaked>>
ownerVars == <<ownerPc, todo>>
ioVars == <<ioPc, accepting, batch>>
peerVars == <<made, gone>>

Hangups == [session : Sessions, conn : Conns]
Incoming == [session |-> NoSession, conn |-> 0]     \* the listening descriptor's event

TypeOK ==
    /\ running \in BOOLEAN /\ listening \in BOOLEAN
    /\ promise \in {"new", "set"}
    /\ used \subseteq Sessions
    /\ state \in [Sessions -> {"none", "connected", "stuck"}]
    /\ tracked \in [Sessions -> BOOLEAN]
    /\ conn \in [Sessions -> 0 .. MaxConns]
    /\ posted \subseteq Sessions /\ leaked \subseteq Sessions
    /\ made \in 0 .. MaxConns /\ gone \subseteq 1 .. made
    /\ ownerPc \in {"down", "up", "untrack", "fd", "scan", "close", "wait", "clear", "threw"}
    /\ todo \subseteq Sessions
    /\ ioPc \in {"poll", "events", "accept", "take", "connect", "track", "threw"}
    /\ accepted \in BOOLEAN
    /\ accepting \in Sessions \cup {NoSession}
    /\ batch \subseteq Hangups \cup {Incoming}
    /\ rounds \in 0 .. MaxRounds

Init ==
    /\ running = FALSE /\ listening = FALSE /\ promise = "new" /\ rounds = 0
    /\ used = {} /\ posted = {} /\ leaked = {}
    /\ state = [s \in Sessions |-> "none"]
    /\ tracked = [s \in Sessions |-> FALSE]
    /\ conn = [s \in Sessions |-> 0]
    /\ made = 0 /\ gone = {}
    /\ ownerPc = "down" /\ todo = {}
    /\ ioPc = "poll" /\ accepting = NoSession /\ batch = {} /\ accepted = FALSE

\* m_session_mutex is held by stop()'s traversal; an exception leaves it locked.
MutexFree == ownerPc \notin {"close", "threw"}

-----------------------------------------------------------------------------
(* close() of a session *)

\* The session is open, and the IO service knows its descriptor. Whoever holds its token,
\* a worker that will look at it again or this close itself, posts it for its release.
CloseOpen(s) ==
    /\ state[s] = "connected" /\ tracked[s]
    /\ state' = [state EXCEPT ![s] = "none"]
    /\ tracked' = [tracked EXCEPT ![s] = FALSE]
    /\ posted' = posted \cup {s}
    /\ UNCHANGED leaked

\* It is not open: somebody else has closed it, or it is not connected yet.
CloseIdle(s) == state[s] # "connected" /\ UNCHANGED sessionVars

\* It is open and not tracked, or not yet: untrack_session throws, or has no service to call.
CloseThrows(s) ==
    /\ state[s] = "connected" /\ ~tracked[s]
    /\ state' = [state EXCEPT ![s] = "stuck"]
    /\ UNCHANGED <<tracked, posted, leaked>>

-----------------------------------------------------------------------------
(* start() and stop(), by the owner *)

Start ==
    /\ ownerPc = "down"
    /\ rounds < MaxRounds
    /\ rounds' = rounds + 1
    /\ running' = TRUE /\ listening' = TRUE /\ promise' = "new"
    /\ ownerPc' = "up"
    /\ UNCHANGED <<used, conn, todo, accepted, sessionVars, ioVars, peerVars>>

BeginStop ==
    /\ ownerPc = "up"
    /\ running' = FALSE
    /\ ownerPc' = "untrack"
    /\ UNCHANGED <<listening, promise, rounds, used, conn, todo, accepted, sessionVars,
                   ioVars, peerVars>>

Untrack ==
    /\ ownerPc = "untrack"
    /\ listening' = FALSE
    /\ ownerPc' = "fd"
    /\ UNCHANGED <<running, promise, rounds, used, conn, todo, accepted, sessionVars,
                   ioVars, peerVars>>

\* The descriptor of the accept data is closed, although a session may have it by now:
\* epoll forgets it if the session is tracked, and refuses it otherwise.
CloseAccepted ==
    /\ ownerPc = "fd"
    /\ accepted' = FALSE
    /\ tracked' = [s \in Sessions |-> tracked[s] /\ ~(accepted /\ conn[s] = made)]
    /\ ownerPc' = "scan"
    /\ UNCHANGED <<used, conn, todo, state, posted, leaked, serverVars, ioVars, peerVars>>

\* The traversal of the sessions in use starts, under the mutex.
Scan ==
    /\ ownerPc = "scan"
    /\ todo' = used
    /\ ownerPc' = IF used = {} THEN "clear" ELSE "close"
    /\ UNCHANGED <<used, conn, accepted, serverVars, sessionVars, ioVars, peerVars>>

\* mutant: the wait is left out
Mut_CloseNextNoWait(s) ==
    /\ ownerPc = "close" /\ s \in todo
    /\ todo' = todo \ {s}
    /\ \/ (CloseOpen(s) \/ CloseIdle(s)) /\ ownerPc' = IF todo' = {} THEN "clear" ELSE "close"
       \/ CloseThrows(s) /\ ownerPc' = "threw"
    /\ UNCHANGED <<used, conn, accepted, serverVars, ioVars, peerVars>>

CloseNext(s) ==
    /\ ownerPc = "close" /\ s \in todo
    /\ todo' = todo \ {s}
    /\ \/ (CloseOpen(s) \/ CloseIdle(s)) /\ ownerPc' = IF todo' = {} THEN "wait" ELSE "close"
       \/ CloseThrows(s) /\ ownerPc' = "threw"
    /\ UNCHANGED <<used, conn, accepted, serverVars, ioVars, peerVars>>

Wait ==
    /\ ownerPc = "wait"
    /\ promise # "new"
    /\ ownerPc' = "clear"
    /\ UNCHANGED <<used, conn, todo, accepted, serverVars, sessionVars, ioVars, peerVars>>

ClearPool ==
    /\ ownerPc = "clear"
    /\ used' = {}
    /\ ownerPc' = "down"
    /\ UNCHANGED <<conn, todo, accepted, serverVars, sessionVars, ioVars, peerVars>>

-----------------------------------------------------------------------------
(* The IO thread *)

Ready ==
    {e \in Hangups : tracked[e.session] /\ conn[e.session] = e.conn /\ e.conn \in gone}
        \cup (IF listening THEN {Incoming} ELSE {})

\* epoll_wait
Poll ==
    /\ ioPc = "poll"
    /\ \E events \in SUBSET Ready : events # {} /\ batch' = events
    /\ ioPc' = "events"
    /\ UNCHANGED <<used, conn, accepting, accepted, serverVars, sessionVars, ownerVars, peerVars>>

EventsDone ==
    /\ ioPc = "events" /\ batch = {}
    /\ ioPc' = "poll"
    /\ UNCHANGED <<used, conn, accepting, accepted, batch, serverVars, sessionVars, ownerVars,
                   peerVars>>

\* EPOLLRDHUP: the event names the session, not the connection it was raised for.
Hangup(e) ==
    /\ ioPc = "events" /\ e \in batch
    /\ batch' = batch \ {e}
    /\ \/ (CloseOpen(e.session) \/ CloseIdle(e.session)) /\ ioPc' = ioPc
       \/ CloseThrows(e.session) /\ ioPc' = "threw"
    /\ UNCHANGED <<used, conn, accepting, accepted, serverVars, ownerVars, peerVars>>

\* A listening socket that is readable: accept() until there is no connection left.
AcceptEvent ==
    /\ ioPc = "events" /\ Incoming \in batch
    /\ batch' = batch \ {Incoming}
    /\ ioPc' = "accept"
    /\ UNCHANGED <<used, conn, accepting, accepted, serverVars, sessionVars, ownerVars, peerVars>>

\* A connection comes; on_accept may refuse it, and its descriptor is closed.
Accept ==
    /\ ioPc = "accept"
    /\ listening /\ made < MaxConns
    /\ made' = made + 1
    /\ \/ ioPc' = "take" /\ accepted' = TRUE
       \/ ioPc' = "accept" /\ accepted' = FALSE
    /\ UNCHANGED <<gone, used, conn, accepting, batch, serverVars, sessionVars, ownerVars>>

AcceptDone ==
    /\ ioPc = "accept"
    /\ ioPc' = "events" /\ accepted' = FALSE
    /\ UNCHANGED <<used, conn, accepting, batch, serverVars, sessionVars, ownerVars, peerVars>>

\* mutant: m_running is not looked at
Mut_GetSessionStopped ==
    /\ ioPc = "take" /\ MutexFree
    /\ \/ /\ used # Sessions
          /\ \E s \in Sessions \ used : used' = used \cup {s} /\ accepting' = s
          /\ ioPc' = "connect" /\ accepted' = accepted
       \/ /\ used = Sessions
          /\ ioPc' = "accept" /\ accepted' = FALSE
          /\ UNCHANGED <<used, accepting>>
    /\ UNCHANGED <<conn, batch, serverVars, sessionVars, ownerVars, peerVars>>

\* get_session(): a stopping server or an empty pool refuses the connection.
GetSession ==
    /\ ioPc = "take" /\ MutexFree
    /\ \/ /\ running
          /\ \E s \in Sessions \ used : used' = used \cup {s} /\ accepting' = s
          /\ ioPc' = "connect" /\ accepted' = accepted
       \/ /\ ~running \/ used = Sessions
          /\ ioPc' = "accept" /\ accepted' = FALSE
          /\ UNCHANGED <<used, accepting>>
    /\ UNCHANGED <<conn, batch, serverVars, sessionVars, ownerVars, peerVars>>

SetConnected ==
    /\ ioPc = "connect"
    /\ state' = [state EXCEPT ![accepting] = "connected"]
    /\ conn' = [conn EXCEPT ![accepting] = made]
    /\ ioPc' = "track"
    /\ UNCHANGED <<used, tracked, posted, leaked, accepting, accepted, batch, serverVars,
                   ownerVars, peerVars>>

TrackSession ==
    /\ ioPc = "track" /\ accepted
    /\ tracked' = [tracked EXCEPT ![accepting] = TRUE]
    /\ accepting' = NoSession
    /\ ioPc' = "accept"
    /\ UNCHANGED <<used, conn, state, posted, leaked, accepted, batch, serverVars, ownerVars,
                   peerVars>>

\* stop() has closed the descriptor: epoll does not take it, nor does close() of the
\* session find it there. The one or the other throws.
TrackFails ==
    /\ ioPc = "track" /\ ~accepted
    /\ CloseThrows(accepting) \/ CloseIdle(accepting)
    /\ accepting' = NoSession
    /\ ioPc' = "threw"
    /\ UNCHANGED <<used, conn, accepted, batch, serverVars, ownerVars, peerVars>>

-----------------------------------------------------------------------------
(* Handlers, workers and peers *)

\* A handler, or whoever it gave the session to, closes it. Nobody has one that is being
\* accepted.
HandlerCloses(s) ==
    /\ ioPc = "track" => s # accepting
    /\ CloseOpen(s) \/ CloseThrows(s)
    /\ UNCHANGED <<used, conn, accepted, serverVars, ownerVars, ioVars, peerVars>>

\* handle_error(): a message too long, or a handler that fails or does not exist. The
\* thread closes the session with its token in its hands, so that process_close posts
\* nothing, and leaves. Somebody else may have closed it meanwhile and left it to this
\* thread to post it.
HandlerFails(s) ==
    /\ \/ state[s] = "connected" /\ tracked[s]
       \/ s \in posted
    /\ state' = [state EXCEPT ![s] = "none"]
    /\ tracked' = [tracked EXCEPT ![s] = FALSE]
    /\ posted' = posted \ {s} /\ leaked' = leaked \cup {s}
    /\ UNCHANGED <<used, conn, accepted, serverVars, ownerVars, ioVars, peerVars>>

\* mutant: stop() is told by the one that is not the last
Mut_OnCloseNotLast(s) ==
    /\ s \in posted /\ MutexFree
    /\ posted' = posted \ {s}
    /\ used' = used \ {s}
    /\ promise' = IF running \/ used' = {} THEN promise ELSE IF promise = "new" THEN "set" ELSE "twice"
    /\ UNCHANGED <<running, listening, rounds, state, tracked, leaked, conn, accepted,
                   ownerVars, ioVars, peerVars>>

\* on_close_session(): the session is free again, and the last one ends stop()'s wait.
OnCloseSession(s) ==
    /\ s \in posted /\ MutexFree
    /\ posted' = posted \ {s}
    /\ used' = used \ {s}
    /\ promise' = IF running \/ used' # {} THEN promise ELSE IF promise = "new" THEN "set" ELSE "twice"
    /\ UNCHANGED <<running, listening, rounds, state, tracked, leaked, conn, accepted,
                   ownerVars, ioVars, peerVars>>

PeerLeaves(c) ==
    /\ c \in 1 .. made \ gone
    /\ gone' = gone \cup {c}
    /\ UNCHANGED <<made, used, conn, accepted, serverVars, sessionVars, ownerVars, ioVars>>

StopStep ==
    \/ Untrack \/ CloseAccepted \/ Scan
    \/ (\E s \in Sessions : CloseNext(s))
    \/ Wait \/ ClearPool

IoStep ==
    \/ EventsDone \/ (\E e \in Hangups : Hangup(e)) \/ AcceptEvent
    \/ AcceptDone \/ GetSession \/ SetConnected \/ TrackSession \/ TrackFails

Next ==
    \/ Start \/ BeginStop \/ StopStep
    \/ Poll \/ Accept \/ IoStep
    \/ \E s \in Sessions : HandlerCloses(s) \/ HandlerFails(s) \/ OnCloseSession(s)
    \/ \E c \in Conns : PeerLeaves(c)

(***************************************************************************)
(* stop(), the IO thread and the workers go on; handlers and peers owe     *)
(* nothing: a peer may stay connected and silent for ever.                 *)
(***************************************************************************)
Fairness ==
    /\ WF_vars(StopStep) /\ WF_vars(Poll) /\ WF_vars(IoStep)
    /\ \A s \in Sessions : WF_vars(OnCloseSession(s))

Spec == Init /\ [][Next]_vars /\ Fairness

-----------------------------------------------------------------------------
(* Properties *)

Accepting == IF ioPc \in {"connect", "track"} THEN {accepting} ELSE {}
Open == {s \in Sessions : state[s] # "none"}

(***************************************************************************)
(* A session is out of the pool for one reason: it is being accepted, it   *)
(* is open, it is closed and on its way back, or it was closed under its   *)
(* token and is lost to the pool (handle_error, README, findings). None is *)
(* lost otherwise, and none is back in the pool while somebody may still   *)
(* reach its connection.                                                   *)
(***************************************************************************)
SessionOnce ==
    /\ used = Accepting \cup Open \cup posted \cup leaked
    /\ posted \cap (Accepting \cup Open \cup leaked) = {}
    /\ leaked \cap (Accepting \cup Open) = {}

(***************************************************************************)
(* When stop() is over, so is everything it waited for: no session is in   *)
(* use, open, or still to be given back, and the promise is kept only when *)
(* the last session is back ("wait all session close!").                   *)
(***************************************************************************)
StopComplete ==
    /\ ownerPc \in {"clear", "down"} => used \cup posted \cup leaked \cup Open \cup Accepting = {}
    /\ promise = "set" => used = {}

(***************************************************************************)
(* stop() returns, whatever the peers do and whatever is being accepted,   *)
(* closed or given back while it runs, for the first time or again. Two    *)
(* things keep it from returning, both findings: a session closed under    *)
(* its token, which nobody gives back, and an exception out of a close(),  *)
(* after stop() has closed the descriptor of a session just accepted.      *)
(***************************************************************************)
StopReturns ==
    (ownerPc = "untrack") ~>
        (ownerPc = "down" \/ leaked # {} \/ \E s \in Sessions : state[s] = "stuck")
=============================================================================
