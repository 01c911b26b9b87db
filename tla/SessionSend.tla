---------------------------- MODULE SessionSend ----------------------------
(***************************************************************************)
(* One session's socket: send() by any thread (net_session), the write     *)
(* loop that send() or an IO thread runs (process_send in                  *)
(* net_io_service_epoll.cpp), the read loop of an IO thread, and the       *)
(* one-shot descriptor that both directions share.                         *)
(*                                                                         *)
(* m_lastread of the send buffer is a token, as it is for received         *)
(* messages: the commit that finds it zero must start the write loop, and  *)
(* the loop ends when its read() finds the buffer empty and sets it to     *)
(* zero, or goes on from an EPOLLOUT event when the socket is full.        *)
(*                                                                         *)
(* An event disables the descriptor (EPOLLONESHOT) until epoll_ctl sets it *)
(* anew, for reading always and for writing when m_need_send says so.      *)
(*                                                                         *)
(* m_need_send and the epoll_ctl that goes with it are two steps, and the  *)
(* descriptor is armed again before its event has been worked off. Two     *)
(* threads can cross each other there, and a token can be thrown away; two *)
(* history variables, which no action reads, tell when it has happened.    *)
(***************************************************************************)
EXTENDS Integers, FiniteSets

CONSTANTS
    Senders,    \* threads that call send()
    Ios,        \* IO threads of the service
    Room,       \* capacity of the send buffer, in bytes
    Block,      \* pre_block_size: most bytes one write() or read() handles
    MaxPacket,  \* longest packet a sender sends
    MaxSends,   \* bound on the packets sent in one behaviour
    MaxArrivals \* bound on the bytes the peer sends in one behaviour

Threads == Senders \cup Ios
NoOne == "no one"
Multi == Cardinality(Ios) > 1   \* m_mulit_threads

ASSUME ThreadsAssumption ==
    IsFiniteSet(Senders) /\ IsFiniteSet(Ios) /\ Senders \cap Ios = {} /\ NoOne \notin Threads
ASSUME SizesAssumption ==
    /\ Room \in Nat \ {0} /\ Block \in 1 .. Room
    /\ MaxPacket \in Nat \ {0} /\ MaxSends \in Nat /\ MaxArrivals \in Nat

VARIABLES
    connected,  \* the session's m_state is connected, and its socket open
    alive,      \* no IO thread has thrown: an exception there ends the program
    queued,     \* bytes committed to the send buffer and not released
    lastread,   \* its m_lastread
    window,     \* m_send_data.m_buffer.len: the bytes the write loop may write
    mutex,      \* who holds m_send_mutex
    left,       \* bytes of its packet a sender has still to commit
    flag,       \* what its last commit_write returned
    pc,         \* where each thread is
    written,    \* bytes the last socket write took
    sends,      \* packets accepted so far
    accepted,   \* bytes committed so far
    wire,       \* bytes the socket took so far
    full,       \* the socket takes no bytes
    arrivals,   \* bytes the peer has sent so far
    unread,     \* those of them that wait to be read
    interest,   \* the events the descriptor is armed for
    needSend,   \* m_need_send of the receive data
    inuse,      \* m_inuse of the receive and of the send data
    event,      \* the events an IO thread is working on
    exp,        \* its b_exp
    mask,       \* the events it is about to arm
    crossed,    \* history: two threads have worked on the descriptor at once
    lost        \* history: the token was thrown away, by send() or by an exception

vars == <<connected, alive, queued, lastread, window, mutex, left, flag, pc, written, sends,
          accepted, wire, full, arrivals, unread, interest, needSend, inuse, event, exp, mask,
          crossed, lost>>
bufferVars == <<queued, lastread, accepted>>
packetVars == <<left, flag, sends>>
socketVars == <<window, written, wire, full>>
ioVars == <<arrivals, unread, inuse, event, exp, mask>>
armVars == <<interest, needSend>>
history == <<crossed, lost>>

In == "in"
Out == "out"

SenderLabels == {"lock", "room", "copy", "start"}
ReadLabels == {"claim", "read", "release", "peek", "rearm"}
LoopLabels == {"write", "sent", "reread"}
EventLabels == {"send", "clear", "disarm", "return"}
ArmLabels == {"remember", "arm"}

TypeOK ==
    /\ connected \in BOOLEAN /\ alive \in BOOLEAN /\ full \in BOOLEAN /\ needSend \in BOOLEAN
    /\ queued \in 0 .. Room
    /\ lastread \in Nat
    /\ window \in 0 .. Block
    /\ mutex \in Senders \cup {NoOne}
    /\ left \in [Senders -> 0 .. MaxPacket]
    /\ flag \in [Senders -> BOOLEAN]
    /\ \A s \in Senders : pc[s] \in {"idle"} \cup SenderLabels \cup LoopLabels \cup ArmLabels
    /\ \A t \in Ios : pc[t] \in
         {"idle"} \cup ReadLabels \cup LoopLabels \cup EventLabels \cup ArmLabels
    /\ DOMAIN pc = Threads
    /\ written \in 0 .. Block
    /\ sends \in 0 .. MaxSends
    /\ accepted \in Nat /\ wire \in Nat
    /\ arrivals \in 0 .. MaxArrivals /\ unread \in 0 .. arrivals
    /\ interest \in SUBSET {In, Out}
    /\ inuse \in [{In, Out} -> BOOLEAN]
    /\ event \in [Ios -> SUBSET {In, Out}]
    /\ exp \in [Ios -> BOOLEAN]
    /\ mask \in [Ios -> SUBSET {In, Out}]
    /\ crossed \in BOOLEAN /\ lost \in BOOLEAN

(***************************************************************************)
(* The session has just been tracked.                                      *)
(***************************************************************************)
Init ==
    /\ connected = TRUE /\ alive = TRUE
    /\ queued = 0 /\ lastread = 0 /\ accepted = 0
    /\ window = 0 /\ written = 0 /\ wire = 0 /\ full = FALSE
    /\ mutex = NoOne
    /\ left = [s \in Senders |-> 0]
    /\ flag = [s \in Senders |-> FALSE]
    /\ pc = [t \in Threads |-> "idle"]
    /\ sends = 0
    /\ arrivals = 0 /\ unread = 0
    /\ interest = {In}
    /\ needSend = FALSE
    /\ inuse = [d \in {In, Out} |-> FALSE]
    /\ event = [t \in Ios |-> {}]
    /\ exp = [t \in Ios |-> FALSE]
    /\ mask = [t \in Ios |-> {}]
    /\ crossed = FALSE /\ lost = FALSE

Least(m, n) == IF m < n THEN m ELSE n
Goto(t, label) == pc' = [pc EXCEPT ![t] = label]

\* Where a thread goes when its call is over: a sender gives up the mutex.
Leave(t) ==
    /\ Goto(t, "idle")
    /\ mutex' = IF t = mutex THEN NoOne ELSE mutex

\* process_send returns more: to process_event, or to post_send_event.
Return(t, more) ==
    IF t \in Ios
    THEN /\ exp' = [exp EXCEPT ![t] = more]
         /\ Goto(t, "return")
         /\ UNCHANGED mutex
    ELSE /\ IF more THEN Goto(t, "remember") /\ UNCHANGED mutex ELSE Leave(t)
         /\ UNCHANGED exp

\* close(): the descriptor is removed from the epoll set, and closed.
Shut ==
    /\ connected' = FALSE
    /\ interest' = IF connected THEN {} ELSE interest

\* What read() may show: fewer bytes than there are where the ring wraps or a block ends.
Windows == IF queued = 0 THEN {0} ELSE 1 .. Least(queued, Block)

(***************************************************************************)
(* History. A thread uses m_need_send while another is between its own use *)
(* of the flag and its epoll_ctl; an event is delivered while another IO   *)
(* thread has not yet come to the write loop of the event before; or       *)
(* m_inuse drops an event as a duplicate (Claim, BeginSend).               *)
(***************************************************************************)
UsesFlag(t) ==
    crossed' = (crossed \/ \E u \in Threads \ {t} : pc[u] \in {"rearm", "disarm", "arm"})
TakesEvent(t) ==
    crossed' = (crossed \/ \E u \in Ios \ {t} : pc[u] \in ReadLabels \cup {"send", "clear", "disarm"})

-----------------------------------------------------------------------------
(* send() *)

\* The state check of UTILITY_NET_SESSION_SEND_BEGIN
Send(s, size) ==
    /\ pc[s] = "idle"
    /\ sends < MaxSends
    /\ connected
    /\ sends' = sends + 1
    /\ left' = [left EXCEPT ![s] = size]
    /\ Goto(s, "lock")
    /\ UNCHANGED <<connected, alive, mutex, flag, bufferVars, socketVars, ioVars, armVars, history>>

Lock(s) ==
    /\ pc[s] = "lock"
    /\ mutex = NoOne
    /\ mutex' = s
    /\ Goto(s, "room")
    /\ UNCHANGED <<connected, alive, bufferVars, packetVars, socketVars, ioVars, armVars, history>>

\* A packet without room closes the session: cs_send_buffer_overflow. (The stream
\* buffer always has room.)
CheckRoom(s) ==
    /\ pc[s] = "room"
    /\ IF Room - queued < left[s]
       THEN Shut /\ Leave(s) /\ UNCHANGED flag
       ELSE /\ flag' = [flag EXCEPT ![s] = FALSE]
            /\ Goto(s, "copy")
            /\ UNCHANGED <<connected, interest, mutex>>
    /\ UNCHANGED <<alive, needSend, left, sends, bufferVars, socketVars, ioVars, history>>

\* One turn of send()'s loop: write, memcpy, commit_write. write() grants n bytes: of
\* the ring Least(left, Block), of the stream buffer no more than its tail block has
\* left. b_send keeps the answer of the last commit only.
Copy(s, n) ==
    /\ pc[s] = "copy"
    /\ n <= left[s]
    /\ queued' = queued + n
    /\ accepted' = accepted + n
    /\ left' = [left EXCEPT ![s] = @ - n]
    /\ flag' = [flag EXCEPT ![s] = lastread = 0]
    /\ lastread' = lastread + 1
    /\ lost' = (lost \/ (flag[s] /\ lastread # 0))
    /\ Goto(s, IF left[s] = n THEN "start" ELSE "copy")
    /\ UNCHANGED <<connected, alive, mutex, sends, socketVars, ioVars, armVars, crossed>>

\* UTILITY_NET_SESSION_SEND_END: the last commit decides whether the loop is started.
Start(s) ==
    /\ pc[s] = "start"
    /\ IF flag[s]
       THEN /\ window' \in Windows
            /\ lastread' = window'
            /\ IF connected
               THEN Goto(s, "write") /\ UNCHANGED mutex
               ELSE Leave(s)
       ELSE Leave(s) /\ UNCHANGED <<window, lastread>>
    /\ UNCHANGED <<connected, alive, queued, accepted, written, wire, full, packetVars, ioVars,
                   armVars, history>>

-----------------------------------------------------------------------------
(* The write loop, by the sender that holds the token or by an IO thread *)

\* A write that takes less than the window has filled the socket.
SocketWrite(t, n) ==
    /\ pc[t] = "write"
    /\ connected /\ ~full
    /\ n <= window
    /\ written' = n
    /\ wire' = wire + n
    /\ full' \in {TRUE, n < window}
    /\ Goto(t, "sent")
    /\ UNCHANGED <<connected, alive, window, mutex, bufferVars, packetVars, ioVars, armVars, history>>

\* EAGAIN: the loop goes on when the socket is writable. Nothing to write leaves errno
\* as it was.
SocketFull(t) ==
    /\ pc[t] = "write"
    /\ connected /\ (full \/ window = 0)
    /\ Return(t, TRUE)
    /\ UNCHANGED <<connected, alive, arrivals, unread, inuse, event, mask, bufferVars, packetVars,
                   socketVars, armVars, history>>

\* EBADF: the descriptor was closed
SocketClosed(t) ==
    /\ pc[t] = "write"
    /\ ~connected
    /\ Return(t, FALSE)
    /\ UNCHANGED <<connected, alive, arrivals, unread, inuse, event, mask, bufferVars, packetVars,
                   socketVars, armVars, history>>

\* ECONNABORTED, ECONNRESET: cs_connect_peer_close
PeerGone(t) ==
    /\ pc[t] = "write"
    /\ connected
    /\ Shut
    /\ Return(t, FALSE)
    /\ UNCHANGED <<alive, needSend, arrivals, unread, inuse, event, mask, bufferVars, packetVars,
                   socketVars, history>>

\* Any other errno, EPIPE too: error_throw ends an IO thread and the program; out of
\* send() it gives up the mutex and forgets the token.
WriteThrows(t) ==
    /\ pc[t] = "write"
    /\ connected
    /\ IF t \in Ios
       THEN alive' = FALSE /\ UNCHANGED <<pc, mutex, lost>>
       ELSE Leave(t) /\ lost' = TRUE /\ UNCHANGED alive
    /\ UNCHANGED <<connected, crossed, bufferVars, packetVars, socketVars, ioVars, armVars>>

\* mutant: the whole window is released, whatever the socket took
Mut_ReleaseWindow(t) ==
    /\ pc[t] = "sent"
    /\ connected => window <= queued
    /\ IF connected
       THEN queued' = queued - window /\ Goto(t, "reread") /\ UNCHANGED <<mutex, exp>>
       ELSE UNCHANGED queued /\ Return(t, FALSE)
    /\ UNCHANGED <<connected, alive, lastread, accepted, arrivals, unread, inuse, event, mask,
                   packetVars, socketVars, armVars, history>>

\* process_send: the state check and commit_read, which asserts that the bytes are there
ReleaseSent(t) ==
    /\ pc[t] = "sent"
    /\ connected => written <= queued
    /\ IF connected
       THEN queued' = queued - written /\ Goto(t, "reread") /\ UNCHANGED <<mutex, exp>>
       ELSE UNCHANGED queued /\ Return(t, FALSE)
    /\ UNCHANGED <<connected, alive, lastread, accepted, arrivals, unread, inuse, event, mask,
                   packetVars, socketVars, armVars, history>>

AssertionFails(t) ==
    /\ pc[t] = "sent"
    /\ connected /\ written > queued
    /\ alive' = FALSE
    /\ UNCHANGED <<connected, mutex, pc, bufferVars, packetVars, socketVars, ioVars, armVars,
                   history>>

\* mutant: the window is looked up without keeping the token
Mut_RereadDropsToken(t) ==
    /\ pc[t] = "reread"
    /\ lastread' = 0
    /\ \E n \in Windows :
       IF n # 0 /\ connected
       THEN window' = n /\ Goto(t, "write") /\ UNCHANGED <<mutex, exp>>
       ELSE UNCHANGED window /\ Return(t, FALSE)
    /\ UNCHANGED <<connected, alive, queued, accepted, written, wire, full, arrivals, unread, inuse,
                   event, mask, packetVars, armVars, history>>

\* process_send: read() the next window; an empty buffer gives the token back.
Reread(t) ==
    /\ pc[t] = "reread"
    /\ \E n \in Windows :
       /\ lastread' = n
       /\ IF n # 0 /\ connected
          THEN window' = n /\ Goto(t, "write") /\ UNCHANGED <<mutex, exp>>
          ELSE UNCHANGED window /\ Return(t, FALSE)
    /\ UNCHANGED <<connected, alive, queued, accepted, written, wire, full, arrivals, unread, inuse,
                   event, mask, packetVars, armVars, history>>

\* After EAGAIN: the flag, and then epoll_ctl, which a closed descriptor ignores.
Remember(t) ==
    /\ pc[t] = "remember"
    /\ UsesFlag(t)
    /\ needSend' = TRUE
    /\ Goto(t, "arm")
    /\ UNCHANGED <<connected, alive, mutex, interest, bufferVars, packetVars, socketVars, ioVars, lost>>

Arm(t) ==
    /\ pc[t] = "arm"
    /\ interest' = IF connected THEN {In, Out} ELSE interest
    /\ Leave(t)
    /\ UNCHANGED <<connected, alive, needSend, bufferVars, packetVars, socketVars, ioVars, history>>

-----------------------------------------------------------------------------
(* process_event: one event of the session *)

Ready == {d \in {In, Out} : IF d = In THEN unread > 0 ELSE ~full}

\* After the read part of an event comes its write part.
WritePart(t) == Goto(t, IF Out \in event[t] THEN "send" ELSE "idle")

Deliver(t) ==
    /\ pc[t] = "idle"
    /\ connected
    /\ interest \cap Ready # {}
    /\ event' = [event EXCEPT ![t] = interest \cap Ready]
    /\ interest' = {}
    /\ TakesEvent(t)
    /\ Goto(t, IF In \in event'[t] THEN "claim" ELSE "send")
    /\ UNCHANGED <<connected, alive, mutex, needSend, arrivals, unread, inuse, exp, mask, bufferVars,
                   packetVars, socketVars, lost>>

\* With several IO threads m_inuse keeps a second one out: "duplicate read". A
\* single one starts with the b_exp of an event before, which may be another session's.
Claim(t) ==
    /\ pc[t] = "claim"
    /\ IF Multi /\ inuse[In]
       THEN WritePart(t) /\ crossed' = TRUE /\ UNCHANGED <<inuse, exp>>
       ELSE /\ inuse' = [inuse EXCEPT ![In] = Multi]
            /\ \E b \in (IF Multi THEN {FALSE} ELSE BOOLEAN) : exp' = [exp EXCEPT ![t] = b]
            /\ Goto(t, "read")
            /\ UNCHANGED crossed
    /\ UNCHANGED <<connected, alive, mutex, arrivals, unread, event, mask, bufferVars, packetVars,
                   socketVars, armVars, lost>>

\* A full buffer is followed by another read; process_recv says whether to go on.
Read(t) ==
    /\ pc[t] = "read"
    /\ connected /\ unread > 0
    /\ LET n == Least(unread, Block) IN
       /\ unread' = unread - n
       /\ exp' = [exp EXCEPT ![t] = TRUE]
       /\ Goto(t, IF n < Block THEN "release" ELSE "read")
    /\ UNCHANGED <<connected, alive, mutex, arrivals, inuse, event, mask, bufferVars, packetVars,
                   socketVars, armVars, history>>

\* process_recv finds no room, or the session closed meanwhile: cs_recv_buffer_overflow
ReadOverflows(t) ==
    /\ pc[t] = "read"
    /\ connected /\ unread > 0
    /\ Shut
    /\ unread' = 0
    /\ exp' = [exp EXCEPT ![t] = FALSE]
    /\ Goto(t, "release")
    /\ UNCHANGED <<alive, mutex, needSend, arrivals, inuse, event, mask, bufferVars, packetVars,
                   socketVars, history>>

\* EAGAIN
ReadNothing(t) ==
    /\ pc[t] = "read"
    /\ connected /\ unread = 0
    /\ Goto(t, "release")
    /\ UNCHANGED <<connected, alive, mutex, bufferVars, packetVars, socketVars, ioVars, armVars, history>>

\* The peer has closed: b_exp keeps its value.
ReadEnd(t) ==
    /\ pc[t] = "read"
    /\ connected
    /\ Shut
    /\ Goto(t, "release")
    /\ UNCHANGED <<alive, mutex, needSend, bufferVars, packetVars, socketVars, ioVars, history>>

\* socket_iface::read throws on the descriptor of a session that was closed.
ReadClosed(t) ==
    /\ pc[t] = "read"
    /\ ~connected
    /\ alive' = FALSE
    /\ UNCHANGED <<connected, mutex, pc, bufferVars, packetVars, socketVars, ioVars, armVars, history>>

ReleaseRead(t) ==
    /\ pc[t] = "release"
    /\ inuse' = [inuse EXCEPT ![In] = FALSE]
    /\ IF exp[t] THEN Goto(t, "peek") ELSE WritePart(t)
    /\ UNCHANGED <<connected, alive, mutex, arrivals, unread, event, exp, mask, bufferVars,
                   packetVars, socketVars, armVars, history>>

\* mutant: the read path arms the descriptor for reading only
Mut_PeekForgetsOut(t) ==
    /\ pc[t] = "peek"
    /\ UsesFlag(t)
    /\ mask' = [mask EXCEPT ![t] = {In}]
    /\ Goto(t, "rearm")
    /\ UNCHANGED <<connected, alive, mutex, arrivals, unread, inuse, event, exp, bufferVars,
                   packetVars, socketVars, armVars, lost>>

Peek(t) ==
    /\ pc[t] = "peek"
    /\ UsesFlag(t)
    /\ mask' = [mask EXCEPT ![t] = IF needSend THEN {In, Out} ELSE {In}]
    /\ Goto(t, "rearm")
    /\ UNCHANGED <<connected, alive, mutex, arrivals, unread, inuse, event, exp, bufferVars,
                   packetVars, socketVars, armVars, lost>>

\* epoll_ctl; EBADF or ENOENT "continue" the loop of the read part.
Rearm(t) ==
    /\ pc[t] = "rearm"
    /\ IF connected
       THEN interest' = mask[t] /\ WritePart(t)
       ELSE UNCHANGED interest /\ Goto(t, "claim")
    /\ UNCHANGED <<connected, alive, mutex, needSend, bufferVars, packetVars, socketVars, ioVars, history>>

\* The write part; m_inuse of the send data: "duplicate send"
BeginSend(t) ==
    /\ pc[t] = "send"
    /\ IF Multi /\ inuse[Out]
       THEN Goto(t, "idle") /\ crossed' = TRUE /\ UNCHANGED inuse
       ELSE Goto(t, "clear") /\ inuse' = [inuse EXCEPT ![Out] = Multi] /\ UNCHANGED crossed
    /\ UNCHANGED <<connected, alive, mutex, arrivals, unread, event, exp, mask, bufferVars,
                   packetVars, socketVars, armVars, lost>>

Clear(t) ==
    /\ pc[t] = "clear"
    /\ UsesFlag(t)
    /\ needSend' = FALSE
    /\ Goto(t, "disarm")
    /\ UNCHANGED <<connected, alive, mutex, interest, bufferVars, packetVars, socketVars, ioVars, lost>>

\* mutant: process_send leaves the descriptor disabled
Mut_DisarmForgetsIn(t) ==
    /\ pc[t] = "disarm"
    /\ IF connected
       THEN Goto(t, "write") /\ UNCHANGED <<mutex, exp>>
       ELSE Return(t, FALSE)
    /\ UNCHANGED <<connected, alive, interest, needSend, arrivals, unread, inuse, event, mask,
                   bufferVars, packetVars, socketVars, history>>

Disarm(t) ==
    /\ pc[t] = "disarm"
    /\ IF connected
       THEN interest' = {In} /\ Goto(t, "write") /\ UNCHANGED <<mutex, exp>>
       ELSE UNCHANGED interest /\ Return(t, FALSE)
    /\ UNCHANGED <<connected, alive, needSend, arrivals, unread, inuse, event, mask, bufferVars,
                   packetVars, socketVars, history>>

\* mutant: an IO thread that met EAGAIN does not arm the descriptor again
Mut_EndSendForgets(t) ==
    /\ pc[t] = "return"
    /\ inuse' = [inuse EXCEPT ![Out] = FALSE]
    /\ Goto(t, "idle")
    /\ UNCHANGED <<connected, alive, mutex, arrivals, unread, event, exp, mask, bufferVars,
                   packetVars, socketVars, armVars, history>>

EndSend(t) ==
    /\ pc[t] = "return"
    /\ inuse' = [inuse EXCEPT ![Out] = FALSE]
    /\ Goto(t, IF exp[t] THEN "remember" ELSE "idle")
    /\ UNCHANGED <<connected, alive, mutex, arrivals, unread, event, exp, mask, bufferVars,
                   packetVars, socketVars, armVars, history>>

-----------------------------------------------------------------------------
(* The peer, and whoever closes the session *)

Arrive ==
    /\ connected /\ arrivals < MaxArrivals
    /\ arrivals' = arrivals + 1
    /\ unread' = unread + 1
    /\ UNCHANGED <<connected, alive, mutex, pc, inuse, event, exp, mask, bufferVars, packetVars,
                   socketVars, armVars, history>>

Drain ==
    /\ full
    /\ full' = FALSE
    /\ UNCHANGED <<connected, alive, mutex, pc, window, written, wire, bufferVars, packetVars,
                   ioVars, armVars, history>>

\* close() by any thread, an IO thread with an EPOLLRDHUP event included
Close ==
    /\ connected
    /\ Shut
    /\ UNCHANGED <<alive, mutex, pc, needSend, bufferVars, packetVars, socketVars, ioVars, history>>

SenderStep(s) == Lock(s) \/ CheckRoom(s) \/ (\E n \in 1 .. Block : Copy(s, n)) \/ Start(s)

LoopStep(t) ==
    \/ \E n \in 1 .. Block : SocketWrite(t, n)
    \/ SocketFull(t)
    \/ SocketClosed(t) \/ PeerGone(t) \/ WriteThrows(t)
    \/ ReleaseSent(t) \/ AssertionFails(t)
    \/ Reread(t)
    \/ Remember(t)
    \/ Arm(t)

ReadStep(t) ==
    \/ Claim(t)
    \/ Read(t) \/ ReadOverflows(t) \/ ReadNothing(t) \/ ReadEnd(t) \/ ReadClosed(t)
    \/ ReleaseRead(t)
    \/ Peek(t)
    \/ Rearm(t)

EventStep(t) == BeginSend(t) \/ Clear(t) \/ Disarm(t) \/ EndSend(t)

Step ==
    \/ \E s \in Senders : SenderStep(s) \/ \E size \in 1 .. MaxPacket : Send(s, size)
    \/ \E t \in Threads : LoopStep(t)
    \/ \E t \in Ios : Deliver(t) \/ ReadStep(t) \/ EventStep(t)
    \/ Arrive
    \/ Drain
    \/ Close

Next == alive /\ Step

(***************************************************************************)
(* Threads go on, the mutex is handed over, an event that is armed and     *)
(* ready is delivered, and the peer reads what it is sent. It need not     *)
(* send anything.                                                          *)
(***************************************************************************)
Fairness ==
    /\ \A s \in Senders : SF_vars(alive /\ SenderStep(s))
    /\ \A t \in Threads : WF_vars(alive /\ LoopStep(t))
    /\ \A t \in Ios : WF_vars(alive /\ (Deliver(t) \/ ReadStep(t) \/ EventStep(t)))
    /\ WF_vars(alive /\ Drain)

SafeSpec == Init /\ [][Next]_vars
Spec == SafeSpec /\ Fairness

-----------------------------------------------------------------------------
(* Properties *)

Writing == {t \in Threads : pc[t] \in {"disarm", "remember"} \cup LoopLabels}
Returning == {t \in Ios : pc[t] = "return" /\ exp[t]}
Starting == {s \in Senders : pc[s] = "start" /\ flag[s]}
Holders == Cardinality(Writing) + Cardinality(Returning) + Cardinality(Starting)
               + (IF needSend THEN 1 ELSE 0)

(***************************************************************************)
(* One write loop: until two threads cross each other at the descriptor,   *)
(* the bytes of the window are written by one thread, or wait for one      *)
(* EPOLLOUT event; the window and the written count are shared without a   *)
(* lock on the strength of this.                                           *)
(***************************************************************************)
OneWriteLoop == connected /\ ~crossed => Holders <= 1

(***************************************************************************)
(* Each byte goes to the socket once and in order, until two threads cross *)
(* each other at the descriptor: while the session is connected, what the  *)
(* socket took is what was released, and the part of the window being      *)
(* acknowledged.                                                           *)
(***************************************************************************)
WireExact ==
    connected /\ ~crossed =>
        wire = accepted - queued + (IF \E t \in Threads : pc[t] = "sent" THEN written ELSE 0)

(***************************************************************************)
(* Bytes are never left with nobody to write them: while m_lastread says   *)
(* that the token is taken, a thread is in the write loop or on its way to *)
(* it, or m_need_send keeps it for the next EPOLLOUT event. Only send()    *)
(* can throw it away, by keeping the last answer of commit_write out of    *)
(* several, or an exception in its write. Threads that cross each other at *)
(* the descriptor may double the token, but do not drop it.                *)
(***************************************************************************)
TokenIsHeld ==
    connected /\ ~lost /\ lastread # 0 =>
        Holders > 0 \/ \E s \in Senders : pc[s] = "copy" /\ flag[s]

(***************************************************************************)
(* m_need_send and the descriptor agree: it is armed for writing only when *)
(* the flag says so, and the flag set means it is armed for writing, or a  *)
(* thread is about to arm it or works on the event that it gave.           *)
(***************************************************************************)
FlagIsArmed ==
    connected /\ ~crossed =>
        /\ Out \in interest => needSend \/ \E t \in Threads : pc[t] = "disarm"
        /\ needSend =>
             \/ Out \in interest
             \/ \E t \in Threads : pc[t] = "arm"
             \/ \E t \in Ios : \/ pc[t] \in {"send", "clear"}
                               \/ pc[t] \in ReadLabels /\ Out \in event[t]
                               \/ pc[t] \in {"claim", "read", "release", "peek"}
                               \/ pc[t] = "rearm" /\ Out \in mask[t]

(***************************************************************************)
(* One IO thread reads a session's socket at a time: m_inuse keeps the     *)
(* others out although the descriptor may be armed while one of them is    *)
(* still at work.                                                          *)
(***************************************************************************)
ReadExclusive == \A t, u \in Ios : {pc[t], pc[u]} \subseteq {"read", "release"} => t = u

(***************************************************************************)
(* Not an invariant of the code: socket_iface::read is never called on the *)
(* socket of a closed session, which throws "read invalid socket!" and     *)
(* ends the program (README, findings).                                    *)
(***************************************************************************)
NobodyThrows == alive

(***************************************************************************)
(* What was queued is sent, unless the session is closed: the contract of  *)
(* commit_write, whose TRUE says the reader must be notified. It is kept   *)
(* for as long as no token is lost and no two threads cross each other.    *)
(* (A behaviour has MaxSends packets: the socket catches up with them.)    *)
(***************************************************************************)
QueuedIsSent == (wire < accepted) ~> (wire = accepted \/ ~connected \/ ~alive \/ lost \/ crossed)

(***************************************************************************)
(* What the peer sends is read: every event ends with the descriptor armed *)
(* for reading again, whatever the write path arms in between.             *)
(***************************************************************************)
DataIsRead == (unread > 0) ~> (unread = 0 \/ ~connected \/ ~alive)
=============================================================================
