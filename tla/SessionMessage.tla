--------------------------- MODULE SessionMessage ---------------------------
(***************************************************************************)
(* One session's received messages, from the IO thread that commits bytes  *)
(* to the worker that handles them, and the close that any thread may      *)
(* start (msg_message.hpp, msg_pares_len.hpp, msg_controler.hpp,           *)
(* net_session).                                                           *)
(*                                                                         *)
(* m_lastread is a token: the commit that finds it zero owns the session's *)
(* messages, posts the session to the dispatcher, and the worker that runs *)
(* it passes the ownership on to itself until a readable_state() that      *)
(* finds too little gives it back.  go_bad() takes the token in the same   *)
(* way, so that the owner, whoever it is, is the one who calls do_close(). *)
(*                                                                         *)
(* A message is two units, its length and its body; a unit "bad" is a      *)
(* length out of range.                                                    *)
(***************************************************************************)
EXTENDS Integers, Sequences, FiniteSets

CONSTANTS
    Io,         \* the IO thread that serves the session's socket
    Workers,    \* the dispatcher's threads
    Closers,    \* threads that close the session: the application, a sender
    Stream,     \* what the peer sends: a sequence of "len", "body" and "bad"
    Room        \* capacity of the receive buffer, in units

Threads == {Io} \cup Workers \cup Closers

ASSUME StreamAssumption == Stream \in Seq({"len", "body", "bad"})
ASSUME RoomAssumption == Room \in Nat \ {0}
ASSUME ThreadsAssumption ==
    IsFiniteSet(Workers) /\ IsFiniteSet(Closers) /\ Io \notin Workers \cup Closers
    /\ Workers \cap Closers = {}

VARIABLES
    sstate,     \* the session's m_state
    good,       \* m_good
    lastread,   \* m_lastread of the receive buffer
    received,   \* units committed to the buffer: Stream[1 .. received]
    consumed,   \* units released by commit_read
    msize,      \* m_size: 0, or the units of the message whose length was read
    posted,     \* the session's tasks in the dispatcher's queue
    pc,         \* where each thread is
    after,      \* where it goes on when the call it makes returns
    incoming,   \* units the IO thread has read and not committed
    handled,    \* messages handled
    released,   \* how often do_close gave the session back
    failed      \* a parse error or a failing handler was met

vars == <<sstate, good, lastread, received, consumed, msize, posted, pc, after,
          incoming, handled, released, failed>>
bufferVars == <<good, lastread, received, consumed, msize>>
threadVars == <<after, incoming>>
historyVars == <<handled, released, failed>>

MessageLen == 2
BadLen == Room + 1      \* a length that no buffer holds

TypeOK ==
    /\ sstate \in {"connected", "closing", "none"}
    /\ good \in BOOLEAN
    /\ lastread \in Nat
    /\ received \in 0 .. Len(Stream)
    /\ consumed \in 0 .. received
    /\ msize \in {0, MessageLen, BadLen}
    /\ posted \in Nat
    /\ pc \in [Threads -> {"idle", "recv", "commit", "grant", "request", "next", "post",
                           "check", "handle", "consume", "release",
                           "close", "closing", "gobad", "done"}]
    /\ after \in [Threads -> {"idle", "grant", "done"}]
    /\ incoming \in 0 .. Len(Stream)
    /\ handled \in Nat
    /\ released \in Nat
    /\ failed \in BOOLEAN

\* The session is connected, its buffer clear, its socket tracked.
Init ==
    /\ sstate = "connected"
    /\ good = TRUE
    /\ lastread = 0 /\ received = 0 /\ consumed = 0 /\ msize = 0
    /\ posted = 0
    /\ pc = [t \in Threads |-> "idle"]
    /\ after = [t \in Threads |-> IF t \in Closers THEN "done" ELSE "idle"]
    /\ incoming = 0
    /\ handled = 0 /\ released = 0 /\ failed = FALSE

Readable == received - consumed
Goto(t, label) == pc' = [pc EXCEPT ![t] = label]

-----------------------------------------------------------------------------
(* The IO thread: process_recv *)

\* The socket delivers the next units, as many as the granted region takes.
SocketRead(n) ==
    /\ pc[Io] = "idle"
    /\ sstate = "connected"
    /\ received + n <= Len(Stream)
    /\ Readable + n <= Room
    /\ incoming' = n
    /\ Goto(Io, "recv")
    /\ UNCHANGED <<sstate, posted, after, bufferVars, historyVars>>

\* The peer closes the connection: cs_connect_peer_close.
PeerClose ==
    /\ pc[Io] = "idle"
    /\ sstate = "connected"
    /\ Goto(Io, "close")
    /\ after' = [after EXCEPT ![Io] = "idle"]
    /\ UNCHANGED <<sstate, posted, incoming, bufferVars, historyVars>>

CheckConnected ==
    /\ pc[Io] = "recv"
    /\ Goto(Io, IF sstate = "connected" THEN "commit" ELSE "idle")
    /\ UNCHANGED <<sstate, posted, bufferVars, threadVars, historyVars>>

\* mutant: every commit posts a request
Mut_CommitAlwaysPosts ==
    /\ pc[Io] = "commit"
    /\ received' = received + incoming
    /\ lastread' = lastread + 1
    /\ Goto(Io, "request")
    /\ after' = [after EXCEPT ![Io] = "grant"]
    /\ UNCHANGED <<sstate, good, consumed, msize, posted, incoming, historyVars>>

\* commit_recv: the bytes are published while the message is good
CommitRecv ==
    /\ pc[Io] = "commit"
    /\ IF good
       THEN /\ received' = received + incoming
            /\ lastread' = lastread + 1
            /\ Goto(Io, IF lastread = 0 THEN "request" ELSE "grant")
       ELSE Goto(Io, "grant") /\ UNCHANGED <<received, lastread>>
    /\ after' = [after EXCEPT ![Io] = "grant"]
    /\ UNCHANGED <<sstate, good, consumed, msize, posted, incoming, historyVars>>

\* write() for the next read; a buffer without room closes the session.
GrantNext ==
    /\ pc[Io] = "grant"
    /\ Goto(Io, IF Readable = Room THEN "close" ELSE "idle")
    /\ after' = [after EXCEPT ![Io] = "idle"]
    /\ UNCHANGED <<sstate, posted, incoming, bufferVars, historyVars>>

-----------------------------------------------------------------------------
(* comfirm(), called from post_request ("request") and dispatch_obj ("next") *)

Confirming(t) == pc[t] \in {"request", "next"}

\* mutant: a short message is reported pending, and the token is kept
Mut_ConfirmPending(t, exp) ==
    /\ Confirming(t)
    /\ good
    /\ Readable < exp
    /\ Goto(t, IF pc[t] = "request" THEN after[t] ELSE "idle")
    /\ UNCHANGED <<sstate, posted, bufferVars, threadVars, historyVars>>

\* Too few units: the same critical section gives the token back.
ConfirmPending(t, exp) ==
    /\ Confirming(t)
    /\ good
    /\ Readable < exp
    /\ lastread' = 0
    /\ Goto(t, IF pc[t] = "request" THEN after[t] ELSE "idle")
    /\ UNCHANGED <<sstate, good, received, consumed, msize, posted, threadVars, historyVars>>

\* The message is bad: post_request posts it all the same, dispatch_obj closes.
ConfirmBad(t) ==
    /\ Confirming(t)
    /\ ~good
    /\ Goto(t, IF pc[t] = "request" THEN "post" ELSE "release")
    /\ UNCHANGED <<sstate, posted, bufferVars, threadVars, historyVars>>

\* The length is there: it is kept in m_size, or found out of range.
ConfirmLength(t) ==
    /\ Confirming(t)
    /\ good
    /\ msize = 0
    /\ Readable >= 1
    /\ lastread' = Readable
    /\ IF Stream[consumed + 1] = "len"
       THEN msize' = MessageLen /\ UNCHANGED <<pc, failed>>
       ELSE msize' = BadLen /\ failed' = TRUE /\ Goto(t, "close")
    /\ UNCHANGED <<sstate, good, received, consumed, posted, threadVars, handled, released>>

\* mutant: a message counts as complete when its length is there
Mut_ConfirmOkEarly(t) ==
    /\ Confirming(t)
    /\ good
    /\ msize # 0
    /\ lastread' = 1
    /\ Goto(t, "post")
    /\ UNCHANGED <<sstate, good, received, consumed, msize, posted, threadVars, historyVars>>

\* The message is complete.
ConfirmOk(t) ==
    /\ Confirming(t)
    /\ good
    /\ msize # 0
    /\ Readable >= msize
    /\ lastread' = Readable
    /\ Goto(t, "post")
    /\ UNCHANGED <<sstate, good, received, consumed, msize, posted, threadVars, historyVars>>

Confirm(t) ==
    \/ ConfirmPending(t, IF msize = 0 THEN 1 ELSE msize)
    \/ ConfirmBad(t)
    \/ ConfirmLength(t)
    \/ ConfirmOk(t)

\* post_node, for a session in no channel: a task for the dispatcher
Post(t) ==
    /\ pc[t] = "post"
    /\ posted' = posted + 1
    /\ Goto(t, after[t])
    /\ UNCHANGED <<sstate, bufferVars, threadVars, historyVars>>

-----------------------------------------------------------------------------
(* A worker: dispatch_obj *)

TakeTask(w) ==
    /\ pc[w] = "idle"
    /\ posted > 0
    /\ posted' = posted - 1
    /\ Goto(w, "check")
    /\ UNCHANGED <<sstate, bufferVars, threadVars, historyVars>>

IsGood(w) ==
    /\ pc[w] = "check"
    /\ Goto(w, IF good THEN "handle" ELSE "release")
    /\ UNCHANGED <<sstate, posted, bufferVars, threadVars, historyVars>>

\* The handler returns 0.
HandleOk(w) ==
    /\ pc[w] = "handle"
    /\ handled' = handled + 1
    /\ Goto(w, "consume")
    /\ UNCHANGED <<sstate, posted, released, failed, bufferVars, threadVars>>

\* It does not, or there is none for the message.
HandleFails(w) ==
    /\ pc[w] = "handle"
    /\ failed' = TRUE
    /\ Goto(w, "close")
    /\ UNCHANGED <<sstate, posted, handled, released, bufferVars, threadVars>>

\* commit()
Consume(w) ==
    /\ pc[w] = "consume"
    /\ consumed' = consumed + msize
    /\ msize' = 0
    /\ Goto(w, "next")
    /\ UNCHANGED <<sstate, good, lastread, received, posted, threadVars, historyVars>>

\* do_close(): the session goes back to its responder or requester.
Release(w) ==
    /\ pc[w] = "release"
    /\ released' = released + 1
    /\ Goto(w, "idle")
    /\ UNCHANGED <<sstate, posted, handled, failed, bufferVars, threadVars>>

-----------------------------------------------------------------------------
(* session_iface::close, by any thread *)

CallClose(c) ==
    /\ pc[c] = "idle"
    /\ Goto(c, "close")
    /\ UNCHANGED <<sstate, posted, bufferVars, threadVars, historyVars>>

\* The compare-exchange lets one caller through.
CloseBegin(t) ==
    /\ pc[t] = "close"
    /\ IF sstate = "connected"
       THEN sstate' = "closing" /\ Goto(t, "closing")
       ELSE UNCHANGED sstate /\ Goto(t, after[t])
    /\ UNCHANGED <<posted, bufferVars, threadVars, historyVars>>

\* The session is untracked, the socket closed.
CloseSocket(t) ==
    /\ pc[t] = "closing"
    /\ sstate' = "none"
    /\ Goto(t, "gobad")
    /\ UNCHANGED <<posted, bufferVars, threadVars, historyVars>>

\* mutant: go_bad leaves the token alone
Mut_GoBadNoToken(t) ==
    /\ pc[t] = "gobad"
    /\ good' = FALSE
    /\ Goto(t, after[t])
    /\ UNCHANGED <<sstate, lastread, received, consumed, msize, posted, threadVars,
                   historyVars>>

\* mutant: go_bad posts whoever has the token
Mut_GoBadAlwaysPosts(t) ==
    /\ pc[t] = "gobad"
    /\ good' = FALSE
    /\ lastread' = lastread + 1
    /\ Goto(t, "request")
    /\ UNCHANGED <<sstate, received, consumed, msize, posted, threadVars, historyVars>>

\* process_close: go_bad() takes the token when nobody has it.
GoBad(t) ==
    /\ pc[t] = "gobad"
    /\ good' = FALSE
    /\ lastread' = lastread + 1
    /\ Goto(t, IF lastread = 0 THEN "request" ELSE after[t])
    /\ UNCHANGED <<sstate, received, consumed, msize, posted, threadVars, historyVars>>

-----------------------------------------------------------------------------
IoStep == CheckConnected \/ CommitRecv \/ GrantNext

WorkerStep(w) ==
    \/ TakeTask(w) \/ IsGood(w) \/ HandleOk(w) \/ HandleFails(w)
    \/ Consume(w) \/ Release(w)

\* What any thread may be doing for the session
SharedStep(t) == Confirm(t) \/ Post(t) \/ CloseBegin(t) \/ CloseSocket(t) \/ GoBad(t)

Next ==
    \/ \E n \in 1 .. Room : SocketRead(n)
    \/ PeerClose
    \/ IoStep
    \/ \E w \in Workers : WorkerStep(w)
    \/ \E c \in Closers : CallClose(c)
    \/ \E t \in Threads : SharedStep(t)

(***************************************************************************)
(* Threads inside the code go on, handlers return, and a queued task finds *)
(* a worker (what the thread pool promises).  The peer owes nothing, and   *)
(* nobody has to close.                                                    *)
(***************************************************************************)
Fairness ==
    /\ WF_vars(IoStep)
    /\ \A w \in Workers : WF_vars(WorkerStep(w))
    /\ \A t \in Threads : WF_vars(SharedStep(t))

SafeSpec == Init /\ [][Next]_vars
Spec == SafeSpec /\ Fairness

-----------------------------------------------------------------------------
(* Properties *)

OwnerLabels == {"request", "next", "post", "check", "handle", "consume", "release"}
Owners == {t \in Threads : pc[t] \in OwnerLabels}

(***************************************************************************)
(* One owner: at most one thread confirms, posts, handles or releases the  *)
(* session's messages, or one task waits to - never two, though the IO     *)
(* thread, two workers and every closer race for it.  m_size, the message  *)
(* position and the handlers are used without a lock on the strength of    *)
(* this.                                                                   *)
(***************************************************************************)
SingleOwner == posted + Cardinality(Owners) <= 1

(***************************************************************************)
(* The token is neither lost nor forged: while no message has failed,      *)
(* m_lastread is zero exactly when nobody owns the session and it has not  *)
(* been released.                                                          *)
(***************************************************************************)
TokenExact ==
    ~failed => (lastread = 0 <=> (posted = 0 /\ Owners = {} /\ released = 0))

(***************************************************************************)
(* A handler runs on one complete message, at its length, in the order of  *)
(* the stream.                                                             *)
(***************************************************************************)
HandlesWholeMessages ==
    \A w \in Workers : pc[w] = "handle" =>
        /\ Readable >= MessageLen
        /\ Stream[consumed + 1] = "len" /\ Stream[consumed + 2] = "body"
        /\ consumed = handled * MessageLen

(***************************************************************************)
(* The session is given back at most once, closed by then, and nothing of  *)
(* it is posted or handled afterwards: the pool it returns to may hand it  *)
(* to another connection at once.                                          *)
(***************************************************************************)
ReleasedIsOver ==
    /\ released <= 1
    /\ released = 1 => ~good /\ sstate = "none" /\ posted = 0 /\ Owners = {}

(***************************************************************************)
(* A complete message that was committed is handled, unless the session is *)
(* closed or an earlier message failed.                                    *)
(***************************************************************************)
MessagesHandled ==
    \A n \in 1 .. Len(Stream) \div MessageLen :
        (received >= n * MessageLen) ~> (handled >= n \/ sstate # "connected" \/ failed)

(***************************************************************************)
(* A session that is closed is given back, as long as no message fails.    *)
(***************************************************************************)
CloseReleases == (sstate # "connected") ~> (released = 1 \/ failed)

(***************************************************************************)
(* What responder::stop counts on when it waits for all sessions to close: *)
(* a closed session is given back.                                         *)
(***************************************************************************)
ClosedIsReleased == (sstate # "connected") ~> (released = 1)
=============================================================================
