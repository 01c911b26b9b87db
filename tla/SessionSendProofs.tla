-------------------------- MODULE SessionSendProofs --------------------------
(***************************************************************************)
(* One write loop and exact bytes, for any number of senders and IO        *)
(* threads and any sizes, until two threads cross each other at the        *)
(* descriptor (crossed); types, and a token that is never left with        *)
(* nobody, for every behaviour.                                            *)
(*                                                                         *)
(* What the session's writing needs is stated of a connected session only: *)
(* a step that closes it leaves the types and the mutex to be shown.       *)
(***************************************************************************)
EXTENDS SessionSend, FiniteSetTheorems, TLAPS

\* A thread that has the window: in the write loop, or about to enter it
Holds(t) ==
    \/ pc[t] \in {"disarm", "remember"} \cup LoopLabels
    \/ t \in Ios /\ pc[t] = "return" /\ exp[t]
    \/ t \in Senders /\ pc[t] = "start" /\ flag[t]

\* The window is held by one thread, or by m_need_send; then m_lastread is not zero.
Token ==
    /\ \A t, u \in Threads : Holds(t) /\ Holds(u) => t = u
    /\ \A t \in Threads : Holds(t) => ~needSend /\ lastread # 0
    /\ needSend => lastread # 0

\* It shows bytes that are queued; between two reads there may be none left.
Window ==
    /\ needSend => window \in 1 .. queued
    /\ \A t \in Threads : Holds(t) /\ pc[t] \notin {"start", "reread"} => window \in 1 .. queued
    /\ \A t \in Threads : Holds(t) /\ pc[t] = "start" => queued >= 1
    /\ \A t \in Threads : pc[t] = "sent" => written \in 1 .. window

\* An IO thread with an EPOLLOUT event still to be handled
Event(t) == Out \in event[t] /\ pc[t] \in ReadLabels \cup {"send", "clear"}

\* An IO thread that has not yet come to the write loop of its event; there is one.
Busy(t) == pc[t] \in ReadLabels \cup {"send", "clear", "disarm"}
Alone == \A t, u \in Ios : Busy(t) /\ Busy(u) => t = u

\* An event to read means something to read, so that the descriptor is armed again.
Events ==
    /\ Alone
    /\ \A t \in Ios :
        /\ pc[t] = "claim" => unread > 0
        /\ pc[t] = "read" => unread > 0 \/ exp[t]
        /\ pc[t] = "release" => exp[t]
        /\ pc[t] \in {"send", "clear"} => Out \in event[t]
        /\ Event(t) => needSend

\* The flag is ahead of the descriptor in one thread at most, with no event under way.
Arming ==
    /\ \A t, u \in Threads : pc[t] = "arm" /\ pc[u] = "arm" => t = u
    /\ \A t \in Threads : pc[t] = "arm" =>
          needSend /\ Out \notin interest /\ \A u \in Ios : ~Event(u)

Connected == Token /\ Window /\ Events /\ Arming

\* Senders: the mutex, and the packet that was found to fit
Packets ==
    \A s \in Senders :
        /\ pc[s] \in {"room", "copy", "start"} \cup LoopLabels \cup ArmLabels => mutex = s
        /\ pc[s] \in {"lock", "room", "copy"} => left[s] >= 1
        /\ pc[s] = "copy" => left[s] <= Room - queued

\* What the read path is about to arm is what m_need_send says, and nobody else arms.
Masks ==
    \A t \in Ios : pc[t] = "rearm" =>
        /\ mask[t] = (IF needSend THEN {In, Out} ELSE {In})
        /\ \A u \in Threads : pc[u] # "arm"

IInv ==
    /\ TypeOK /\ Packets
    /\ ~crossed => Masks
    /\ connected /\ ~crossed => Connected
    /\ WireExact /\ FlagIsArmed

-----------------------------------------------------------------------------
(* Steps of one thread *)

LEMMA ThreadNames ==
    /\ Senders \subseteq Threads /\ Ios \subseteq Threads
    /\ \A t \in Threads : (t \in Senders <=> t \notin Ios) /\ t # NoOne
BY ThreadsAssumption DEF Threads

\* The places of a thread
Places(t) ==
    IF t \in Ios THEN {"idle"} \cup ReadLabels \cup LoopLabels \cup EventLabels \cup ArmLabels
    ELSE {"idle"} \cup SenderLabels \cup LoopLabels \cup ArmLabels

\* Thread t is then at label l, and the others are where they were.
Moves(t, l) ==
    /\ pc'[t] = l /\ DOMAIN pc' = Threads
    /\ \A u \in Threads \ {t} : pc'[u] = pc[u]

\* ... with what they had in hand
Acts(t, l) ==
    /\ Moves(t, l)
    /\ \A u \in Ios \ {t} : exp'[u] = exp[u] /\ event'[u] = event[u] /\ mask'[u] = mask[u]
    /\ \A u \in Senders \ {t} : flag'[u] = flag[u] /\ left'[u] = left[u]

LEMMA ByGoto ==
    ASSUME TypeOK, NEW t \in Threads, NEW l, Goto(t, l)
    PROVE  Moves(t, l)
BY DEF Goto, Moves, TypeOK

\* A thread that can keep the flag from being forgotten
Cover(t) ==
    \/ pc[t] = "arm"
    \/ t \in Ios /\ \/ pc[t] \in {"send", "clear"} \/ pc[t] \in {"claim", "read", "release", "peek"}
                    \/ pc[t] \in ReadLabels /\ Out \in event[t]
                    \/ pc[t] = "rearm" /\ Out \in mask[t]

LEMMA Frame ==
    ASSUME NEW t \in Threads, NEW l, Acts(t, l)
    PROVE  \A u \in Threads \ {t} :
              /\ pc'[u] = pc[u]
              /\ Holds(u)' <=> Holds(u)
              /\ Busy(u)' <=> Busy(u)
              /\ u \in Ios => (Event(u)' <=> Event(u))
              /\ Cover(u)' <=> Cover(u)
<1> SUFFICES ASSUME NEW u \in Threads \ {t}
             PROVE  /\ pc'[u] = pc[u]
                    /\ Holds(u)' <=> Holds(u)
                    /\ Busy(u)' <=> Busy(u)
                    /\ u \in Ios => (Event(u)' <=> Event(u))
                    /\ Cover(u)' <=> Cover(u)
  OBVIOUS
<1>1. /\ pc'[u] = pc[u]
      /\ u \in Ios => exp'[u] = exp[u] /\ event'[u] = event[u] /\ mask'[u] = mask[u]
      /\ u \in Senders => flag'[u] = flag[u]
  BY DEF Acts, Moves
<1> QED BY <1>1 DEF Holds, Busy, Event, Cover

LEMMA FlagAsCover ==
    /\ FlagIsArmed <=>
         (connected /\ ~crossed =>
                       /\ Out \in interest => needSend \/ \E t \in Threads : pc[t] = "disarm"
                       /\ needSend => Out \in interest \/ \E t \in Threads : Cover(t))
    /\ FlagIsArmed' <=>
         (connected' /\ ~crossed' =>
                        /\ Out \in interest' => needSend' \/ \E t \in Threads : pc'[t] = "disarm"
                        /\ needSend' => Out \in interest' \/ \E t \in Threads : Cover(t)')
BY ThreadNames DEF FlagIsArmed, Cover

LEMMA TokenKept ==
    ASSUME NEW t \in Threads, NEW l, Acts(t, l), Token,
           Holds(t)' => ~needSend' /\ (Holds(t) \/ \A u \in Threads : ~Holds(u)),
           needSend' => needSend \/ (Holds(t) /\ ~Holds(t)'),
           needSend' \/ Holds(t)' => lastread' # 0,
           lastread' = 0 => lastread = 0 \/ Holds(t)
    PROVE  Token'
<1>1. \A u \in Threads \ {t} : Holds(u)' <=> Holds(u)
  BY Frame
<1>2. \A u, v \in Threads : Holds(u)' /\ Holds(v)' => u = v
  BY <1>1 DEF Token
<1>3. \A u \in Threads : Holds(u)' => ~needSend' /\ lastread' # 0
  BY <1>1 DEF Token
<1> QED BY <1>2, <1>3 DEF Token

LEMMA WindowSame ==
    ASSUME NEW t \in Threads, NEW l, Acts(t, l), Window,
           UNCHANGED <<window, queued, written>>, l # "sent",
           needSend' => needSend \/ (Holds(t) /\ pc[t] \notin {"start", "reread"}),
           Holds(t)' /\ l \notin {"start", "reread"} =>
              needSend \/ (Holds(t) /\ pc[t] \notin {"start", "reread"}),
           Holds(t)' => l # "start"
    PROVE  Window'
<1>1. \A u \in Threads \ {t} : (Holds(u)' <=> Holds(u)) /\ pc'[u] = pc[u]
  BY Frame
<1>2. pc'[t] = l
  BY DEF Acts, Moves
<1>3. \A u \in Threads : Holds(u)' /\ pc'[u] \notin {"start", "reread"} => window \in 1 .. queued
  BY <1>1, <1>2 DEF Window
<1>4. \A u \in Threads : Holds(u)' /\ pc'[u] = "start" => queued >= 1
  BY <1>1, <1>2 DEF Window
<1>5. \A u \in Threads : pc'[u] = "sent" => written \in 1 .. window
  BY <1>1, <1>2 DEF Window
<1>6. needSend' => window \in 1 .. queued
  BY DEF Window
<1> QED BY <1>3, <1>4, <1>5, <1>6 DEF Window

\* What Events says of the thread that moves
Eventful(t, l) ==
    t \in Ios =>
        /\ l = "claim" => unread' > 0
        /\ l = "read" => unread' > 0 \/ exp'[t]
        /\ l = "release" => exp'[t]
        /\ l \in {"send", "clear"} => Out \in event'[t]
        /\ Event(t)' => needSend'

LEMMA EventsKept ==
    ASSUME NEW t \in Threads, NEW l, Acts(t, l), Events, Eventful(t, l),
           t \in Ios /\ Busy(t)' => Busy(t) \/ \A u \in Ios \ {t} : ~Busy(u),
           (t \in Ios /\ \A u \in Ios \ {t} : ~Busy(u))
              \/ (unread' = unread /\ (needSend => needSend'))
    PROVE  Events'
<1>1. \A u \in Threads \ {t} :
         /\ pc'[u] = pc[u] /\ (Busy(u)' <=> Busy(u))
         /\ u \in Ios => /\ Event(u)' <=> Event(u)
                         /\ exp'[u] = exp[u] /\ event'[u] = event[u]
  BY Frame DEF Acts
<1>2. pc'[t] = l /\ Ios \subseteq Threads
  BY ThreadNames DEF Acts, Moves
<1>3. Alone'
  BY <1>1, <1>2 DEF Events, Alone
<1>4. ASSUME NEW u \in Ios
      PROVE  /\ pc'[u] = "claim" => unread' > 0
             /\ pc'[u] = "read" => unread' > 0 \/ exp'[u]
             /\ pc'[u] = "release" => exp'[u]
             /\ pc'[u] \in {"send", "clear"} => Out \in event'[u]
             /\ Event(u)' => needSend'
  <2>1. CASE u = t
    BY <1>2, <2>1 DEF Eventful
  <2>2. CASE u # t /\ ~Busy(u)
    BY <1>1, <1>2, <2>2 DEF Busy, Event, ReadLabels
  <2>3. CASE u # t /\ Busy(u)
    <3>1. unread' = unread /\ (needSend => needSend')
      BY <2>3
    <3> QED BY <1>1, <1>2, <2>3, <3>1 DEF Events
  <2> QED BY <2>1, <2>2, <2>3
<1> QED BY <1>3, <1>4 DEF Events

LEMMA ArmingKept ==
    ASSUME NEW t \in Threads, NEW l, Acts(t, l), Arming, l # "arm",
           (\E u \in Threads \ {t} : pc[u] = "arm") =>
               needSend' /\ Out \notin interest' /\ (t \in Ios => ~Event(t)')
    PROVE  Arming'
<1>1. \A u \in Threads \ {t} : pc'[u] = pc[u] /\ (u \in Ios => (Event(u)' <=> Event(u)))
  BY Frame
<1>2. pc'[t] = l
  BY DEF Acts, Moves
<1>3. \A u, v \in Threads : pc'[u] = "arm" /\ pc'[v] = "arm" => u = v
  BY <1>1, <1>2 DEF Arming
<1>4. ASSUME NEW u \in Threads, pc'[u] = "arm"
      PROVE  needSend' /\ Out \notin interest' /\ \A v \in Ios : ~Event(v)'
  <2>1. u # t /\ pc[u] = "arm"
    BY <1>1, <1>2, <1>4
  <2> QED BY <1>1, <2>1, ThreadNames DEF Arming
<1> QED BY <1>3, <1>4 DEF Arming

LEMMA FlagKept ==
    ASSUME NEW t \in Threads, NEW l, Acts(t, l), FlagIsArmed, connected, ~crossed,
           Out \in interest' =>
               \/ needSend' \/ l = "disarm"
               \/ Out \in interest /\ (needSend => needSend') /\ pc[t] # "disarm",
           needSend' =>
               \/ Out \in interest' \/ Cover(t)'
               \/ needSend /\ Out \notin interest /\ ~Cover(t)
    PROVE  FlagIsArmed'
<1>1. \A u \in Threads \ {t} : pc'[u] = pc[u] /\ (Cover(u)' <=> Cover(u))
  BY Frame
<1>2. pc'[t] = l
  BY DEF Acts, Moves
<1>3. /\ Out \in interest => needSend \/ \E u \in Threads : pc[u] = "disarm"
      /\ needSend => Out \in interest \/ \E u \in Threads : Cover(u)
  BY FlagAsCover
<1>4. Out \in interest' => needSend' \/ \E u \in Threads : pc'[u] = "disarm"
  BY <1>1, <1>2, <1>3
<1>5. needSend' => Out \in interest' \/ \E u \in Threads : Cover(u)'
  BY <1>1, <1>3
<1> QED BY <1>4, <1>5, FlagAsCover

LEMMA WireSame ==
    ASSUME NEW t \in Threads, NEW l, Acts(t, l), WireExact, connected, ~crossed,
           UNCHANGED <<wire, accepted, queued, written>>, pc[t] # "sent", l # "sent"
    PROVE  WireExact'
<1>1. (\E u \in Threads : pc'[u] = "sent") <=> \E u \in Threads : pc[u] = "sent"
  BY Frame DEF Acts, Moves
<1> QED BY <1>1 DEF WireExact

\* The part of the invariant that a closed session does without
Online == connected /\ ~crossed => Connected /\ WireExact /\ FlagIsArmed

(***************************************************************************)
(* A step that touches neither the buffer nor the descriptor.              *)
(***************************************************************************)
LEMMA QuietStep ==
    ASSUME NEW t \in Threads, NEW l, Acts(t, l), Online, connected, ~crossed,
           t \in Ios /\ Busy(t)' => Busy(t),
           UNCHANGED <<needSend, lastread, window, queued, written, accepted, wire, interest,
                       unread>>,
           pc[t] \notin {"disarm", "sent"}, l \notin {"sent", "disarm", "arm"},
           Holds(t)' => Holds(t) /\ pc[t] \notin {"start", "reread"} /\ l # "start",
           Eventful(t, l), t \in Ios /\ Event(t)' => Event(t),
           needSend /\ Cover(t) => Cover(t)'
    PROVE  Online'
<1>1. Token /\ Window /\ Events /\ Arming /\ WireExact /\ FlagIsArmed
  BY DEF Online, Connected
<1>2. Token'
  BY <1>1, TokenKept DEF Token
<1>3. Window'
  BY <1>1, WindowSame
<1>4. Events'
  BY <1>1, EventsKept
<1>5. Arming'
  <2>1. (\E u \in Threads \ {t} : pc[u] = "arm") =>
          needSend' /\ Out \notin interest' /\ (t \in Ios => ~Event(t)')
    BY <1>1 DEF Arming
  <2> QED BY <1>1, <2>1, ArmingKept
<1>6. WireExact'
  BY <1>1, WireSame
<1>7. FlagIsArmed'
  BY <1>1, FlagKept
<1> QED BY <1>2, <1>3, <1>4, <1>5, <1>6, <1>7 DEF Online, Connected

-----------------------------------------------------------------------------
(* Quiet steps *)

Masked == ~crossed => Masks
Sound == TypeOK /\ Packets /\ Masked /\ Online

LEMMA SenderActs ==
    ASSUME TypeOK, NEW s \in Senders, NEW l, Moves(s, l), UNCHANGED <<exp, event, mask>>,
           \A u \in Senders \ {s} : flag'[u] = flag[u] /\ left'[u] = left[u]
    PROVE  Acts(s, l)
BY DEF Acts

LEMMA IoActs ==
    ASSUME TypeOK, NEW t \in Ios, NEW l, Moves(t, l), UNCHANGED <<flag, left>>,
           \A u \in Ios \ {t} : exp'[u] = exp[u] /\ event'[u] = event[u] /\ mask'[u] = mask[u]
    PROVE  Acts(t, l)
BY DEF Acts

LEMMA OnlineParts ==
    ASSUME Sound, connected, ~crossed
    PROVE  Token /\ Window /\ Events /\ Arming /\ WireExact /\ FlagIsArmed
BY DEF Sound, Online, Connected

LEMMA OnlyBusy ==
    ASSUME Sound, connected, ~crossed, NEW t \in Ios, Busy(t)
    PROVE  \A u \in Ios \ {t} : ~Busy(u)
BY OnlineParts DEF Events, Alone

LEMMA SendOnline ==
    ASSUME Sound, NEW s \in Senders, NEW size \in 1 .. MaxPacket, Send(s, size)
    PROVE  Online'
<1> SUFFICES ASSUME connected, ~crossed, ~crossed' PROVE Online'
  BY DEF Online, Send, history
<1>1. s \in Threads /\ s \notin Ios
  BY ThreadNames
<1>2. Acts(s, "lock")
  BY <1>1, ByGoto, SenderActs DEF Send, Sound, TypeOK, ioVars
<1>3. ~Holds(s)' /\ ~Cover(s)
  BY <1>1, <1>2 DEF Acts, Moves, Holds, Cover, LoopLabels, Send
<1>4. UNCHANGED <<connected, lost, needSend, lastread, window, queued, written, accepted, wire,
                  interest, unread>>
  BY DEF Send, history, bufferVars, socketVars, ioVars, armVars
<1> QED
  BY <1>1, <1>2, <1>3, <1>4, QuietStep DEF Sound, Eventful, Send

LEMMA LockOnline ==
    ASSUME Sound, NEW s \in Senders, Lock(s)
    PROVE  Online'
<1> SUFFICES ASSUME connected, ~crossed, ~crossed' PROVE Online'
  BY DEF Online, Lock, history
<1>1. s \in Threads /\ s \notin Ios
  BY ThreadNames
<1>2. Acts(s, "room")
  BY <1>1, ByGoto, SenderActs DEF Lock, Sound, TypeOK, ioVars, packetVars
<1>3. ~Holds(s)' /\ ~Cover(s)
  BY <1>1, <1>2 DEF Acts, Moves, Holds, Cover, LoopLabels, Lock
<1>4. UNCHANGED <<connected, lost, needSend, lastread, window, queued, written, accepted, wire,
                  interest, unread>>
  BY DEF Lock, history, bufferVars, socketVars, ioVars, armVars
<1> QED
  BY <1>1, <1>2, <1>3, <1>4, QuietStep DEF Sound, Eventful, Lock

LEMMA CheckRoomOnline ==
    ASSUME Sound, NEW s \in Senders, CheckRoom(s)
    PROVE  Online'
<1> SUFFICES ASSUME connected, connected', ~crossed PROVE Online'
  BY DEF Online, CheckRoom, Shut, history
<1>1. s \in Threads /\ s \notin Ios
  BY ThreadNames
<1>2. Goto(s, "copy") /\ UNCHANGED interest
  BY DEF CheckRoom, Shut
<1>3. Acts(s, "copy")
  BY <1>1, <1>2, ByGoto, SenderActs DEF CheckRoom, Sound, TypeOK, ioVars, packetVars
<1>4. ~Holds(s)' /\ ~Cover(s)
  BY <1>1, <1>3 DEF Acts, Moves, Holds, Cover, LoopLabels, CheckRoom
<1>5. UNCHANGED <<lost, needSend, lastread, window, queued, written, accepted, wire, interest, unread>>
  BY <1>2 DEF CheckRoom, history, bufferVars, socketVars, ioVars
<1> QED
  BY <1>1, <1>3, <1>4, <1>5, QuietStep DEF Sound, Eventful, CheckRoom

LEMMA SocketFullOnline ==
    ASSUME Sound, NEW t \in Threads, SocketFull(t)
    PROVE  Online'
<1> SUFFICES ASSUME connected, ~crossed, ~crossed' PROVE Online'
  BY DEF Online, SocketFull, history
<1>1. Holds(t) /\ ~Cover(t)
  BY DEF SocketFull, Holds, Cover, LoopLabels, ReadLabels
<1>2. UNCHANGED <<connected, lost, needSend, lastread, window, queued, written, accepted, wire,
                  interest, unread>>
  BY DEF SocketFull, history, bufferVars, socketVars, armVars
<1>4. CASE t \in Ios
  <2>1. /\ Goto(t, "return") /\ UNCHANGED <<flag, left, event, mask>>
        /\ exp' = [exp EXCEPT ![t] = TRUE]
    BY <1>4 DEF SocketFull, Return, packetVars
  <2>2. Acts(t, "return")
    BY <1>4, <2>1, ByGoto, IoActs DEF Sound, TypeOK
  <2>3. ~Event(t)' /\ ~Busy(t)'
    <3>1. exp'[t]
      BY <1>4, <2>1 DEF Sound, TypeOK
    <3> QED BY <1>4, <2>2, <3>1 DEF Acts, Moves, Event, Busy, ReadLabels, Holds
  <2> QED BY <1>1, <1>2, <2>2, <2>3, QuietStep DEF Sound, Eventful, SocketFull
<1>5. CASE t \notin Ios
  <2>1. Goto(t, "remember") /\ UNCHANGED <<flag, left, event, mask, exp>>
    BY <1>5 DEF SocketFull, Return, packetVars
  <2>2. Acts(t, "remember")
    BY <1>5, <2>1, ByGoto, SenderActs, ThreadNames DEF Sound
  <2> QED BY <1>1, <1>2, <1>5, <2>2, QuietStep DEF Sound, Eventful, SocketFull
<1> QED BY <1>4, <1>5

\* Quiet steps of the IO thread
LEMMA ClaimOnline ==
    ASSUME Sound, NEW t \in Ios, Claim(t)
    PROVE  Online'
<1> SUFFICES ASSUME connected, ~crossed, ~crossed' PROVE Online'
  BY DEF Online, Claim, history
<1>1. t \in Threads /\ Busy(t)
  BY ThreadNames DEF Claim, Busy, Holds, LoopLabels, ReadLabels
<1>2. /\ Goto(t, "read") /\ UNCHANGED <<flag, left, event, mask>>
      /\ \A u \in Ios \ {t} : exp'[u] = exp[u]
  BY <1>1 DEF Claim, Sound, TypeOK, packetVars
<1>3. Acts(t, "read")
  BY <1>1, <1>2, ByGoto, IoActs DEF Sound
<1>4. UNCHANGED <<connected, lost, needSend, lastread, window, queued, written, accepted, wire,
                  interest, unread>>
  BY DEF Claim, history, bufferVars, socketVars, armVars
<1>5. ~Holds(t)' /\ Cover(t)' /\ (Event(t)' => Event(t))
  BY <1>1, <1>2, <1>3, ThreadNames DEF Claim, Acts, Moves, Holds, Cover, Event, LoopLabels,
    ReadLabels
<1>6. Eventful(t, "read")
  BY <1>4, <1>5 DEF Eventful, Claim, Sound, Online, Connected, Events
<1> QED BY <1>1, <1>3, <1>4, <1>5, <1>6, QuietStep DEF Sound, Claim

LEMMA ReadNothingOnline ==
    ASSUME Sound, NEW t \in Ios, ReadNothing(t)
    PROVE  Online'
<1> SUFFICES ASSUME connected, ~crossed, ~crossed' PROVE Online'
  BY DEF Online, ReadNothing, history
<1>1. t \in Threads /\ Busy(t)
  BY ThreadNames DEF ReadNothing, Busy, Holds, LoopLabels, ReadLabels
<1>2. Acts(t, "release")
  BY <1>1, ByGoto, IoActs DEF ReadNothing, Sound, ioVars, packetVars
<1>3. UNCHANGED <<connected, lost, needSend, lastread, window, queued, written, accepted, wire,
                  interest, unread, event, exp>>
  BY DEF ReadNothing, history, bufferVars, socketVars, armVars, ioVars
<1>4. ~Holds(t)' /\ Cover(t)' /\ (Event(t)' => Event(t))
  BY <1>1, <1>2, <1>3, ThreadNames DEF ReadNothing, Acts, Moves, Holds, Cover, Event, LoopLabels,
    ReadLabels
<1>5. Eventful(t, "release")
  BY <1>3, <1>4 DEF Eventful, ReadNothing, Sound, Online, Connected, Events
<1> QED BY <1>1, <1>2, <1>3, <1>4, <1>5, QuietStep DEF Sound, ReadNothing

LEMMA ReleaseReadOnline ==
    ASSUME Sound, NEW t \in Ios, ReleaseRead(t)
    PROVE  Online'
<1> SUFFICES ASSUME connected, ~crossed, ~crossed' PROVE Online'
  BY DEF Online, ReleaseRead, history
<1>1. t \in Threads /\ Busy(t)
  BY ThreadNames DEF ReleaseRead, Busy, Holds, LoopLabels, ReadLabels
<1>2. exp[t]
  BY DEF ReleaseRead, Sound, Online, Connected, Events
<1>3. Acts(t, "peek")
  BY <1>1, <1>2, ByGoto, IoActs DEF ReleaseRead, Sound, packetVars
<1>4. UNCHANGED <<connected, lost, needSend, lastread, window, queued, written, accepted, wire,
                  interest, unread, event, exp>>
  BY DEF ReleaseRead, history, bufferVars, socketVars, armVars
<1>5. ~Holds(t)' /\ Cover(t)' /\ (Event(t)' => Event(t))
  BY <1>1, <1>3, <1>4, ThreadNames DEF ReleaseRead, Acts, Moves, Holds, Cover, Event, LoopLabels,
    ReadLabels
<1>6. Eventful(t, "peek")
  BY <1>4, <1>5 DEF Eventful, Sound, Online, Connected, Events
<1> QED BY <1>1, <1>3, <1>4, <1>5, <1>6, QuietStep DEF Sound, ReleaseRead

LEMMA PeekOnline ==
    ASSUME Sound, NEW t \in Ios, Peek(t)
    PROVE  Online'
<1> SUFFICES ASSUME connected, ~crossed, ~crossed' PROVE Online'
  BY DEF Online, Peek, history, UsesFlag
<1>1. t \in Threads /\ Busy(t)
  BY ThreadNames DEF Peek, Busy, Holds, LoopLabels, ReadLabels
<1>2. Acts(t, "rearm")
  BY <1>1, ByGoto, IoActs DEF Peek, Sound, packetVars
<1>3. UNCHANGED <<connected, lost, needSend, lastread, window, queued, written, accepted, wire,
                  interest, unread, event, exp>>
  BY DEF Peek, history, bufferVars, socketVars, armVars
<1>4. needSend => Out \in mask'[t]
  BY DEF Peek, Sound, TypeOK
<1>5. ~Holds(t)' /\ (needSend => Cover(t)') /\ (Event(t)' => Event(t))
  BY <1>1, <1>2, <1>3, <1>4, ThreadNames DEF Peek, Acts, Moves, Holds, Cover, Event, LoopLabels,
    ReadLabels
<1>6. Eventful(t, "rearm")
  BY <1>3, <1>5 DEF Eventful, Sound, Online, Connected, Events
<1> QED BY <1>1, <1>2, <1>3, <1>5, <1>6, QuietStep DEF Sound, Peek

LEMMA BeginSendOnline ==
    ASSUME Sound, NEW t \in Ios, BeginSend(t)
    PROVE  Online'
<1> SUFFICES ASSUME connected, ~crossed, ~crossed' PROVE Online'
  BY DEF Online, BeginSend, history
<1>1. t \in Threads /\ Busy(t)
  BY ThreadNames DEF BeginSend, Busy, Holds, LoopLabels, ReadLabels
<1>2. Acts(t, "clear")
  BY <1>1, ByGoto, IoActs DEF BeginSend, Sound, packetVars
<1>3. UNCHANGED <<connected, lost, needSend, lastread, window, queued, written, accepted, wire,
                  interest, unread, event, exp>>
  BY DEF BeginSend, history, bufferVars, socketVars, armVars
<1>4. ~Holds(t)' /\ Cover(t)' /\ (Event(t)' => Event(t))
  BY <1>1, <1>2, <1>3, ThreadNames DEF BeginSend, Acts, Moves, Holds, Cover, Event, LoopLabels,
    ReadLabels
<1>5. Eventful(t, "clear")
  BY <1>3, <1>4 DEF Eventful, BeginSend, Sound, Online, Connected, Events
<1> QED BY <1>1, <1>2, <1>3, <1>4, <1>5, QuietStep DEF Sound, BeginSend

LEMMA EndSendOnline ==
    ASSUME Sound, NEW t \in Ios, EndSend(t)
    PROVE  Online'
<1> SUFFICES ASSUME connected, ~crossed, ~crossed' PROVE Online'
  BY DEF Online, EndSend, history
<1>1. t \in Threads
  BY ThreadNames
<1>2. PICK l : l = IF exp[t] THEN "remember" ELSE "idle"
  OBVIOUS
<1>3. Acts(t, l)
  BY <1>1, <1>2, ByGoto, IoActs DEF EndSend, Sound, packetVars
<1>4. UNCHANGED <<connected, lost, needSend, lastread, window, queued, written, accepted, wire,
                  interest, unread, event, exp>>
  BY DEF EndSend, history, bufferVars, socketVars, armVars
<1>5. (Holds(t)' <=> Holds(t)) /\ ~Cover(t) /\ ~Event(t)' /\ ~Busy(t)'
  BY <1>1, <1>2, <1>3, <1>4, ThreadNames DEF EndSend, Acts, Moves, Holds, Cover, Event,
    Busy, LoopLabels, ReadLabels
<1>6. Eventful(t, l)
  BY <1>2, <1>5 DEF Eventful
<1> QED BY <1>1, <1>2, <1>3, <1>4, <1>5, <1>6, QuietStep DEF Sound, EndSend

-----------------------------------------------------------------------------
(* Steps that touch the buffer or the descriptor *)

LEMMA CopyOnline ==
    ASSUME Sound, NEW s \in Senders, NEW n \in 1 .. Block, Copy(s, n)
    PROVE  Online'
<1> SUFFICES ASSUME connected, ~crossed, ~crossed' PROVE Online'
  BY DEF Online, Copy, history
<1>1. /\ Token /\ Window /\ Events /\ Arming /\ WireExact /\ FlagIsArmed
      /\ s \in Threads /\ s \notin Ios /\ lastread \in Nat /\ queued \in Nat /\ accepted \in Nat
  BY OnlineParts, ThreadNames DEF Sound, TypeOK
<1>2. /\ n \in Nat \ {0} /\ queued' = queued + n /\ accepted' = accepted + n
      /\ lastread' = lastread + 1
      /\ UNCHANGED <<connected, needSend, window, written, wire, interest, unread>>
  BY SizesAssumption DEF Copy, Sound, TypeOK, Packets, socketVars, armVars, ioVars
<1>3. PICK l : l = IF left[s] = n THEN "start" ELSE "copy"
  OBVIOUS
<1>4. Acts(s, l)
  <2>1. Goto(s, l)
    BY <1>3 DEF Copy
  <2> QED BY <1>1, <2>1, ByGoto, SenderActs DEF Copy, Sound, TypeOK, ioVars
<1>5. Holds(s)' => l = "start" /\ lastread = 0
  BY <1>1, <1>3, <1>4 DEF Acts, Moves, Holds, LoopLabels, Copy, Sound, TypeOK
<1>6. ~Holds(s) /\ ~Cover(s) /\ pc[s] = "copy"
  BY <1>1 DEF Copy, Holds, Cover, LoopLabels
<1>7. Token'
  BY <1>1, <1>2, <1>4, <1>5, <1>6, TokenKept DEF Token
<1>8. Window'
  <2>1. \A u \in Threads \ {s} : (Holds(u)' <=> Holds(u)) /\ pc'[u] = pc[u]
    BY <1>1, <1>4, Frame
  <2>2. pc'[s] = l
    BY <1>4 DEF Acts, Moves
  <2>3. \A m : m \in 1 .. queued => m \in 1 .. queued'
    BY <1>1, <1>2
  <2>4. queued' >= 1
    BY <1>1, <1>2
  <2>5. \A u \in Threads : Holds(u)' /\ pc'[u] \notin {"start",
    "reread"} => window' \in 1 .. queued'
    BY <1>1, <1>2, <1>5, <2>1, <2>2, <2>3 DEF Window
  <2>6. \A u \in Threads : pc'[u] = "sent" => written' \in 1 .. window'
    BY <1>1, <1>2, <1>3, <2>1, <2>2 DEF Window
  <2>7. needSend' => window' \in 1 .. queued'
    BY <1>1, <1>2, <2>3 DEF Window
  <2> QED BY <2>4, <2>5, <2>6, <2>7 DEF Window
<1>9. Events'
  BY <1>1, <1>2, <1>4, EventsKept DEF Eventful
<1>10. Arming'
  BY <1>1, <1>2, <1>3, <1>4, ArmingKept DEF Arming
<1>11. WireExact'
  <2>1. (\E u \in Threads : pc'[u] = "sent") <=> \E u \in Threads : pc[u] = "sent"
    BY <1>1, <1>3, <1>4, <1>6, Frame DEF Acts, Moves
  <2>2. wire \in Nat /\ written \in Nat
    BY DEF Sound, TypeOK
  <2> QED BY <1>1, <1>2, <2>1, <2>2 DEF WireExact
<1>12. FlagIsArmed'
  BY <1>1, <1>2, <1>4, <1>6, FlagKept
<1> QED BY <1>7, <1>8, <1>9, <1>10, <1>11, <1>12 DEF Online, Connected

LEMMA StartOnline ==
    ASSUME Sound, NEW s \in Senders, Start(s)
    PROVE  Online'
<1> SUFFICES ASSUME connected, ~crossed, ~crossed' PROVE Online'
  BY DEF Online, Start, history
<1>1. /\ Token /\ Window /\ Events /\ Arming /\ WireExact /\ FlagIsArmed
      /\ s \in Threads /\ s \notin Ios
  BY OnlineParts, ThreadNames
<1>2. UNCHANGED <<connected, lost, needSend, queued, written, accepted, wire, interest, unread>>
  BY DEF Start, history, ioVars, armVars
<1>3. ~Cover(s) /\ pc[s] = "start"
  BY <1>1 DEF Start, Cover
<1>4. CASE flag[s]
  <2>1. Holds(s) /\ queued >= 1 /\ \A u \in Threads \ {s} : ~Holds(u)
    BY <1>1, <1>3, <1>4 DEF Holds, Token, Window
  <2>2. Acts(s, "write")
    BY <1>1, <1>4, ByGoto, SenderActs DEF Start, Sound, TypeOK, ioVars, packetVars
  <2>3. window' \in 1 .. queued /\ lastread' = window' /\ lastread' # 0
    BY <1>4, <2>1, SizesAssumption DEF Start, Windows, Least, Sound, TypeOK
  <2>4. ~needSend
    BY <1>1, <2>1 DEF Token
  <2>5. Token'
    BY <1>1, <1>2, <2>1, <2>2, <2>3, <2>4, TokenKept
  <2>6. Window'
    <3>1. \A u \in Threads \ {s} : ~Holds(u)' /\ pc'[u] = pc[u]
      BY <1>1, <2>1, <2>2, Frame
    <3>2. pc'[s] = "write"
      BY <2>2 DEF Acts, Moves
    <3>3. \A u \in Threads : pc'[u] # "sent"
      BY <2>1, <3>1, <3>2 DEF Holds, LoopLabels
    <3> QED BY <1>2, <2>3, <2>4, <3>1, <3>2, <3>3 DEF Window
  <2>7. Events'
    BY <1>1, <1>2, <2>2, EventsKept DEF Eventful
  <2>8. Arming'
    BY <1>1, <1>2, <2>2, ArmingKept DEF Arming
  <2>9. WireExact'
    BY <1>1, <1>2, <1>3, <2>2, WireSame
  <2>10. FlagIsArmed'
    BY <1>1, <1>2, <1>3, <2>2, FlagKept
  <2> QED BY <2>5, <2>6, <2>7, <2>8, <2>9, <2>10 DEF Online, Connected
<1>5. CASE ~flag[s]
  <2>1. Acts(s, "idle")
    BY <1>1, <1>5, ByGoto, SenderActs DEF Start, Leave, Sound, TypeOK, ioVars, packetVars
  <2>2. ~Holds(s)'
    BY <1>1, <1>3, <1>5, <2>1 DEF Acts, Moves, Holds, LoopLabels
  <2>3. UNCHANGED <<lastread, window>>
    BY <1>5 DEF Start
  <2> QED BY <1>1, <1>2, <1>3, <2>1, <2>2, <2>3, QuietStep DEF Sound, Eventful
<1> QED BY <1>4, <1>5

LEMMA SocketWriteOnline ==
    ASSUME Sound, NEW t \in Threads, NEW n \in 1 .. Block, SocketWrite(t, n)
    PROVE  Online'
<1> SUFFICES ASSUME connected, ~crossed, ~crossed' PROVE Online'
  BY DEF Online, SocketWrite, history
<1>1. /\ Token /\ Window /\ Events /\ Arming /\ WireExact /\ FlagIsArmed
  BY OnlineParts DEF Sound, SocketWrite
<1>2. /\ pc[t] = "write" /\ connected /\ n <= window /\ written' = n /\ wire' = wire + n
      /\ UNCHANGED <<connected, lost, needSend, lastread, window, queued, accepted, interest, unread,
                     event, exp>>
  BY DEF SocketWrite, ioVars, armVars, history, bufferVars
<1>3. Acts(t, "sent")
  BY ByGoto, SenderActs, IoActs, ThreadNames DEF SocketWrite, Sound, TypeOK, ioVars, packetVars
<1>4. Holds(t) /\ Holds(t)' /\ ~Cover(t) /\ ~Event(t)' /\ ~Busy(t)'
  BY <1>2, <1>3 DEF Acts, Moves, Holds, Cover, Event, Busy, LoopLabels, ReadLabels
<1>5. \A u \in Threads \ {t} : ~Holds(u) /\ ~Holds(u)' /\ pc'[u] = pc[u] /\ pc[u] # "sent"
  BY <1>1, <1>3, <1>4, Frame DEF Token, Holds, LoopLabels
<1>6. pc'[t] = "sent"
  BY <1>3 DEF Acts, Moves
<1>7. Token'
  BY <1>1, <1>2, <1>3, <1>4, TokenKept DEF Token
<1>8. Window'
  <2>1. window \in 1 .. queued /\ n \in 1 .. window
    BY <1>1, <1>2, <1>4, SizesAssumption DEF Window
  <2> QED BY <1>2, <1>1, <1>5, <1>6, <2>1 DEF Window
<1>9. Events'
  BY <1>1, <1>2, <1>3, <1>4, EventsKept DEF Eventful
<1>10. Arming'
  BY <1>1, <1>2, <1>3, <1>4, ArmingKept DEF Arming
<1>11. WireExact'
  <2>1. /\ ~\E u \in Threads : pc[u] = "sent"
        /\ \E u \in Threads : pc'[u] = "sent"
    BY <1>2, <1>5, <1>6
  <2>2. wire \in Nat /\ accepted \in Nat /\ queued \in Nat /\ n \in Nat
    BY SizesAssumption DEF Sound, TypeOK
  <2> QED BY <1>1, <1>2, <2>1, <2>2 DEF WireExact
<1>12. FlagIsArmed'
  BY <1>1, <1>2, <1>3, <1>4, FlagKept
<1> QED BY <1>7, <1>8, <1>9, <1>10, <1>11, <1>12 DEF Online, Connected

LEMMA WriteThrowsOnline ==
    ASSUME Sound, NEW t \in Threads, WriteThrows(t)
    PROVE  Online'
<1> SUFFICES ASSUME connected, ~crossed, ~crossed' PROVE Online'
  BY DEF Online, WriteThrows
<1>1. UNCHANGED <<connected, needSend, lastread, window, queued, written, accepted, wire,
                  interest, unread, event, exp, mask, flag, left>>
  BY DEF WriteThrows, bufferVars, socketVars, armVars, ioVars, packetVars
<1>2. CASE t \in Ios
  <2>1. UNCHANGED <<pc, lost>>
    BY <1>2 DEF WriteThrows
  <2> QED BY <1>1, <2>1 DEF Sound, Online, Connected, Token, Window, Events, Alone, Busy,
     Arming, WireExact, FlagIsArmed, Holds, Event
<1>3. CASE t \notin Ios
  <2>1. Goto(t, "idle") /\ lost' = TRUE
    BY <1>3 DEF WriteThrows, Leave
  <2>2. Acts(t, "idle")
    BY <1>1, <1>3, <2>1, ByGoto, SenderActs, ThreadNames DEF Sound
  <2>3. ~Holds(t)' /\ ~Cover(t)
    BY <1>3, <2>2, ThreadNames DEF Acts, Moves, Holds, Cover, LoopLabels, WriteThrows
  <2> QED BY <1>1, <1>3, <2>1, <2>2, <2>3, QuietStep DEF Sound, Eventful, WriteThrows
<1> QED BY <1>2, <1>3

LEMMA ReleaseSentOnline ==
    ASSUME Sound, NEW t \in Threads, ReleaseSent(t)
    PROVE  Online'
<1> SUFFICES ASSUME connected, ~crossed, ~crossed' PROVE Online'
  BY DEF Online, ReleaseSent, history
<1>1. /\ Token /\ Window /\ Events /\ Arming /\ WireExact /\ FlagIsArmed
  BY OnlineParts DEF Sound
<1>2. /\ pc[t] = "sent" /\ queued' = queued - written
      /\ UNCHANGED <<connected, lost, needSend, lastread, window, written, wire, accepted, interest,
                     unread, event, exp>>
  BY DEF ReleaseSent, ioVars, armVars, history, bufferVars, socketVars
<1>3. Acts(t, "reread")
  BY ByGoto, SenderActs, IoActs, ThreadNames DEF ReleaseSent, Sound, TypeOK, packetVars
<1>4. Holds(t) /\ Holds(t)' /\ ~Cover(t) /\ ~Event(t)' /\ ~Busy(t)'
  BY <1>2, <1>3 DEF Acts, Moves, Holds, Cover, Event, Busy, LoopLabels, ReadLabels
<1>5. \A u \in Threads \ {t} : ~Holds(u) /\ ~Holds(u)' /\ pc'[u] = pc[u] /\ pc[u] # "sent"
  BY <1>1, <1>3, <1>4, Frame DEF Token, Holds, LoopLabels
<1>6. pc'[t] = "reread"
  BY <1>3 DEF Acts, Moves
<1>7. Token'
  BY <1>1, <1>2, <1>3, <1>4, TokenKept DEF Token
<1>8. Window'
  <2>1. ~needSend
    BY <1>1, <1>4 DEF Token
  <2> QED BY <1>2, <1>5, <1>6, <2>1 DEF Window
<1>9. Events'
  BY <1>1, <1>2, <1>3, <1>4, EventsKept DEF Eventful
<1>10. Arming'
  BY <1>1, <1>2, <1>3, <1>4, ArmingKept DEF Arming
<1>11. WireExact'
  <2>1. /\ \E u \in Threads : pc[u] = "sent"
        /\ ~\E u \in Threads : pc'[u] = "sent"
    BY <1>2, <1>5, <1>6
  <2>2. wire \in Nat /\ accepted \in Nat /\ queued \in Nat /\ written \in Nat
    BY SizesAssumption DEF Sound, TypeOK
  <2> QED BY <1>1, <1>2, <2>1, <2>2 DEF WireExact
<1>12. FlagIsArmed'
  BY <1>1, <1>2, <1>3, <1>4, FlagKept
<1> QED BY <1>7, <1>8, <1>9, <1>10, <1>11, <1>12 DEF Online, Connected

LEMMA RereadOnline ==
    ASSUME Sound, NEW t \in Threads, Reread(t)
    PROVE  Online'
<1> SUFFICES ASSUME connected, ~crossed, ~crossed' PROVE Online'
  BY DEF Online, Reread, history
<1>1. /\ Token /\ Window /\ Events /\ Arming /\ WireExact /\ FlagIsArmed
  BY OnlineParts DEF Sound
<1>2. /\ pc[t] = "reread"
      /\ UNCHANGED <<connected, lost, needSend, queued, written, wire, accepted, interest, unread, event>>
  BY DEF Reread, ioVars, armVars, history, bufferVars, socketVars
<1>3. Holds(t) /\ ~Cover(t) /\ ~needSend
  BY <1>1, <1>2 DEF Holds, Cover, LoopLabels, ReadLabels, Token
<1>4. \A u \in Threads \ {t} : ~Holds(u) /\ pc[u] # "sent"
  BY <1>1, <1>3 DEF Token, Holds, LoopLabels
<1>0. PICK n \in Windows :
      /\ lastread' = n
      /\ IF n # 0
         THEN window' = n /\ Goto(t, "write") /\ UNCHANGED <<mutex, exp>>
         ELSE UNCHANGED window /\ Return(t, FALSE)
  BY DEF Reread
<1>n. n \in 0 .. queued /\ (n = 0 <=> queued = 0)
  BY SizesAssumption DEF Windows, Least, Sound, TypeOK
<1>5. CASE queued # 0
  <2>1. /\ window' \in 1 .. queued /\ lastread' # 0
        /\ Goto(t, "write") /\ UNCHANGED exp
    <3>1. n \in 1 .. queued /\ n # 0
      BY <1>n, <1>5 DEF Sound, TypeOK
    <3> QED BY <1>0, <3>1
  <2>2. Acts(t, "write")
    BY <2>1, ByGoto, SenderActs, IoActs, ThreadNames DEF Reread, Sound, TypeOK, packetVars
  <2>3. \A u \in Threads \ {t} : ~Holds(u)' /\ pc'[u] = pc[u]
    BY <1>4, <2>2, Frame
  <2>4. pc'[t] = "write"
    BY <2>2 DEF Acts, Moves
  <2>5. ~Event(t)' /\ ~Busy(t)'
    BY <2>4 DEF Event, Busy, ReadLabels, Holds, LoopLabels
  <2>6. Token'
    BY <1>1, <1>2, <1>3, <2>1, <2>2, TokenKept
  <2>7. Window'
    <3>1. \A u \in Threads : pc'[u] # "sent"
      BY <1>4, <2>3, <2>4
    <3> QED BY <1>2, <1>3, <2>1, <2>3, <2>4, <3>1 DEF Window
  <2>8. Events'
    BY <1>1, <1>2, <2>2, <2>5, EventsKept DEF Eventful
  <2>9. Arming'
    BY <1>1, <1>2, <2>2, <2>5, ArmingKept DEF Arming
  <2>10. WireExact'
    BY <1>1, <1>2, <2>2, WireSame
  <2>11. FlagIsArmed'
    BY <1>1, <1>2, <1>3, <2>2, FlagKept
  <2> QED BY <2>6, <2>7, <2>8, <2>9, <2>10, <2>11 DEF Online, Connected
<1>6. CASE queued = 0
  <2>1. Return(t, FALSE) /\ UNCHANGED window /\ lastread' = 0
    BY <1>0, <1>n, <1>6
  <2>2. PICK l : l = IF t \in Ios THEN "return" ELSE "idle"
    OBVIOUS
  <2>3. Acts(t, l)
    BY <2>1, <2>2, ByGoto, SenderActs, IoActs, ThreadNames DEF Reread, Return, Leave, Sound,
      TypeOK, packetVars
  <2>4. ~Holds(t)' /\ ~Event(t)' /\ ~Busy(t)' /\ pc'[t] = l
    BY <2>1, <2>2, <2>3, ThreadNames DEF Acts, Moves, Holds, Event, Busy, LoopLabels, ReadLabels,
      Return, Sound, TypeOK
  <2>5. Token'
    BY <1>1, <1>2, <1>3, <2>3, <2>4, TokenKept
  <2>6. Window'
    BY <1>1, <1>2, <2>1, <2>2, <2>3, <2>4, WindowSame
  <2>7. Events'
    BY <1>1, <1>2, <2>2, <2>3, <2>4, EventsKept DEF Eventful
  <2>8. Arming'
    BY <1>1, <1>2, <2>2, <2>3, <2>4, ArmingKept DEF Arming
  <2>9. WireExact'
    BY <1>1, <1>2, <2>2, <2>3, WireSame
  <2>10. FlagIsArmed'
    BY <1>1, <1>2, <1>3, <2>3, FlagKept
  <2> QED BY <2>5, <2>6, <2>7, <2>8, <2>9, <2>10 DEF Online, Connected
<1> QED BY <1>5, <1>6

LEMMA RememberOnline ==
    ASSUME Sound, NEW t \in Threads, Remember(t)
    PROVE  Online'
<1> SUFFICES ASSUME connected, ~crossed, ~crossed' PROVE Online'
  BY DEF Online, Remember, history, UsesFlag
<1>1. /\ Token /\ Window /\ Events /\ Arming /\ WireExact /\ FlagIsArmed
  BY OnlineParts DEF Sound
<1>2. /\ pc[t] = "remember" /\ needSend'
      /\ UNCHANGED <<connected, lost, queued, window, lastread, written, wire, accepted, interest,
                     unread, event, exp>>
  BY DEF Remember, ioVars, history, bufferVars, socketVars
<1>3. Holds(t) /\ ~Cover(t) /\ ~needSend /\ lastread # 0
  BY <1>1, <1>2 DEF Holds, Cover, LoopLabels, ReadLabels, Token
<1>4. \A u \in Threads \ {t} : ~Holds(u) /\ pc[u] \notin {"rearm", "disarm", "arm"}
  BY <1>1, <1>3 DEF Token, Remember, UsesFlag
<1>5. Acts(t, "arm")
  BY ByGoto, SenderActs, IoActs, ThreadNames DEF Remember, Sound, TypeOK, packetVars, ioVars
<1>6. ~Holds(t)' /\ Cover(t)' /\ ~Event(t)' /\ ~Busy(t)' /\ pc'[t] = "arm"
  BY <1>5, ThreadNames DEF Acts, Moves, Holds, Cover, Event, Busy, LoopLabels, ReadLabels
<1>7. Token'
  BY <1>1, <1>2, <1>3, <1>5, <1>6, TokenKept
<1>8. Window'
  BY <1>1, <1>2, <1>3, <1>5, <1>6, WindowSame
<1>9. Events'
  BY <1>1, <1>2, <1>5, <1>6, EventsKept DEF Eventful
<1>10. Arming'
  <2>1. \A u \in Threads \ {t} : pc'[u] # "arm" /\ (u \in Ios => ~Event(u)')
    <3>1. \A u \in Ios : ~Event(u)
      BY <1>1, <1>3 DEF Events
    <3> QED BY <1>4, <1>5, <3>1, Frame
  <2>2. Out \notin interest
    <3>1. \A u \in Threads : pc[u] # "disarm"
      BY <1>2, <1>4
    <3> QED BY <1>1, <1>3, <3>1 DEF FlagIsArmed, Sound
  <2>3. \A u \in Ios : ~Event(u)'
    BY <1>6, <2>1, ThreadNames
  <2> QED BY <1>2, <1>6, <2>1, <2>2, <2>3 DEF Arming
<1>11. WireExact'
  BY <1>1, <1>2, <1>5, WireSame
<1>12. FlagIsArmed'
  BY <1>1, <1>2, <1>5, <1>6, FlagKept
<1> QED BY <1>7, <1>8, <1>9, <1>10, <1>11, <1>12 DEF Online, Connected

LEMMA ArmOnline ==
    ASSUME Sound, NEW t \in Threads, Arm(t)
    PROVE  Online'
<1> SUFFICES ASSUME connected, ~crossed, ~crossed' PROVE Online'
  BY DEF Online, Arm, history
<1>1. /\ Token /\ Window /\ Events /\ Arming /\ WireExact /\ FlagIsArmed
  BY OnlineParts DEF Sound
<1>2. /\ pc[t] = "arm" /\ interest' = {In, Out}
      /\ UNCHANGED <<connected, lost, needSend, queued, window, lastread, written, wire, accepted,
                     unread, event, exp>>
  BY DEF Arm, ioVars, history, bufferVars, socketVars
<1>3. needSend /\ \A u \in Threads \ {t} : pc[u] # "arm"
  BY <1>1, <1>2 DEF Arming
<1>4. Acts(t, "idle")
  BY ByGoto, SenderActs, IoActs, ThreadNames DEF Arm, Leave, Sound, TypeOK, packetVars, ioVars
<1>5. ~Holds(t)' /\ ~Event(t)' /\ ~Busy(t)'
  BY <1>4, ThreadNames DEF Acts, Moves, Holds, Event, Busy, LoopLabels, ReadLabels
<1>6. Token'
  BY <1>1, <1>2, <1>3, <1>4, <1>5, TokenKept DEF Token
<1>7. Window'
  BY <1>1, <1>2, <1>3, <1>4, <1>5, WindowSame
<1>8. Events'
  BY <1>1, <1>2, <1>4, <1>5, EventsKept DEF Eventful
<1>9. Arming'
  BY <1>1, <1>3, <1>4, ArmingKept
<1>10. WireExact'
  BY <1>1, <1>2, <1>4, WireSame
<1>11. FlagIsArmed'
  BY <1>1, <1>2, <1>3, <1>4, FlagKept
<1> QED BY <1>6, <1>7, <1>8, <1>9, <1>10, <1>11 DEF Online, Connected

LEMMA DeliverOnline ==
    ASSUME Sound, NEW t \in Ios, Deliver(t)
    PROVE  Online'
<1> SUFFICES ASSUME connected, ~crossed, ~crossed' PROVE Online'
  BY DEF Online, Deliver, history, TakesEvent
<1>1. /\ Token /\ Window /\ Events /\ Arming /\ WireExact /\ FlagIsArmed
      /\ t \in Threads /\ \A u \in Ios \ {t} : ~Busy(u)
  BY OnlineParts, ThreadNames DEF Deliver, TakesEvent, Busy
<1>2. /\ pc[t] = "idle" /\ connected /\ interest' = {}
      /\ UNCHANGED <<connected, lost, needSend, queued, window, lastread, written, wire, accepted,
                     unread, exp>>
  BY DEF Deliver, history, bufferVars, socketVars
<1>3. /\ event'[t] = interest \cap Ready /\ event'[t] # {}
      /\ In \in event'[t] => unread > 0
      /\ event'[t] \subseteq {In, Out}
  BY DEF Deliver, Sound, TypeOK, Ready, In, Out
<1>4. PICK l : l = IF In \in event'[t] THEN "claim" ELSE "send"
  OBVIOUS
<1>5. Acts(t, l)
  BY <1>1, <1>4, ByGoto, IoActs DEF Deliver, Sound, TypeOK, packetVars
<1>6. pc'[t] = l
  BY <1>5 DEF Acts, Moves
<1>7. ~Holds(t)' /\ Cover(t)' /\ ~Cover(t)
  BY <1>1, <1>2, <1>4, <1>6, ThreadNames DEF Holds, Cover, LoopLabels, ReadLabels
<1>8. Out \in interest => needSend
  <2>1. ASSUME NEW u \in Threads, pc[u] = "disarm" PROVE FALSE
    <3>1. u \in Ios
      BY <2>1 DEF Sound, TypeOK, Threads, SenderLabels, LoopLabels, ArmLabels
    <3> QED BY <1>1, <1>2, <2>1, <3>1 DEF Busy
  <2> QED BY <1>1, <1>2, <2>1 DEF FlagIsArmed
<1>9. Out \in event'[t] => needSend
  BY <1>3, <1>8
<1>10. Eventful(t, l)
  BY <1>2, <1>3, <1>4, <1>6, <1>9 DEF Eventful, Event
<1>11. Token'
  BY <1>1, <1>2, <1>5, <1>7, TokenKept DEF Token
<1>12. Window'
  BY <1>1, <1>2, <1>4, <1>5, <1>7, WindowSame
<1>13. Events'
  BY <1>1, <1>2, <1>5, <1>10, EventsKept
<1>14. Arming'
  <2>1. (\E u \in Threads \ {t} : pc[u] = "arm") => needSend /\ ~Event(t)'
    BY <1>1, <1>3 DEF Arming, Event
  <2> QED BY <1>1, <1>2, <1>4, <1>5, <2>1, ArmingKept
<1>15. WireExact'
  BY <1>1, <1>2, <1>4, <1>5, WireSame
<1>16. FlagIsArmed'
  BY <1>1, <1>2, <1>5, <1>7, FlagKept
<1> QED BY <1>11, <1>12, <1>13, <1>14, <1>15, <1>16 DEF Online, Connected

LEMMA ReadOnline ==
    ASSUME Sound, NEW t \in Ios, Read(t)
    PROVE  Online'
<1> SUFFICES ASSUME connected, ~crossed, ~crossed' PROVE Online'
  BY DEF Online, Read, history
<1>1. /\ Token /\ Window /\ Events /\ Arming /\ WireExact /\ FlagIsArmed
      /\ t \in Threads /\ Busy(t) /\ \A u \in Ios \ {t} : ~Busy(u)
  BY OnlineParts, OnlyBusy, ThreadNames DEF Read, Busy, ReadLabels
<1>2. /\ pc[t] = "read" /\ connected /\ exp'[t]
      /\ UNCHANGED <<connected, lost, needSend, queued, window, lastread, written, wire, accepted,
                     interest, event, mask>>
  BY DEF Read, history, bufferVars, socketVars, armVars, Sound, TypeOK
<1>3. PICK l : l = IF Least(unread, Block) < Block THEN "release" ELSE "read"
  OBVIOUS
<1>4. Acts(t, l)
  BY <1>1, <1>3, ByGoto, IoActs DEF Read, Sound, TypeOK, packetVars
<1>5. pc'[t] = l
  BY <1>4 DEF Acts, Moves
<1>6. ~Holds(t)' /\ Cover(t)' /\ (Event(t)' => Event(t))
  BY <1>1, <1>2, <1>3, <1>5, ThreadNames DEF Holds, Cover, Event, LoopLabels, ReadLabels
<1>7. Eventful(t, l)
  BY <1>1, <1>2, <1>3, <1>6 DEF Eventful, Events
<1>8. Token'
  BY <1>1, <1>2, <1>4, <1>6, TokenKept DEF Token
<1>9. Window'
  BY <1>1, <1>2, <1>3, <1>4, <1>6, WindowSame
<1>10. Events'
  BY <1>1, <1>2, <1>4, <1>7, EventsKept
<1>11. Arming'
  <2>1. (\E u \in Threads \ {t} : pc[u] = "arm") => needSend /\ Out \notin interest /\ ~Event(t)'
    BY <1>1, <1>6 DEF Arming
  <2> QED BY <1>1, <1>2, <1>3, <1>4, <2>1, ArmingKept
<1>12. WireExact'
  BY <1>1, <1>2, <1>3, <1>4, WireSame
<1>13. FlagIsArmed'
  BY <1>1, <1>2, <1>3, <1>4, <1>6, FlagKept
<1> QED BY <1>8, <1>9, <1>10, <1>11, <1>12, <1>13 DEF Online, Connected

LEMMA RearmOnline ==
    ASSUME Sound, NEW t \in Ios, Rearm(t)
    PROVE  Online'
<1> SUFFICES ASSUME connected, ~crossed, ~crossed' PROVE Online'
  BY DEF Online, Rearm, history
<1>1. /\ Token /\ Window /\ Events /\ Arming /\ WireExact /\ FlagIsArmed
      /\ t \in Threads /\ Busy(t) /\ \A u \in Ios \ {t} : ~Busy(u)
  BY OnlineParts, OnlyBusy, ThreadNames DEF Rearm, Busy, ReadLabels
<1>2. /\ pc[t] = "rearm" /\ interest' = (IF needSend THEN {In, Out} ELSE {In})
      /\ UNCHANGED <<connected, lost, needSend, queued, window, lastread, written, wire, accepted,
                     unread, event, mask, exp>>
  BY DEF Rearm, history, bufferVars, socketVars, ioVars, Sound, Masked, Masks
<1>3. PICK l : l = IF Out \in event[t] THEN "send" ELSE "idle"
  OBVIOUS
<1>4. Acts(t, l)
  BY <1>1, <1>3, ByGoto, IoActs DEF Rearm, WritePart, Sound, TypeOK, packetVars, ioVars
<1>5. pc'[t] = l
  BY <1>4 DEF Acts, Moves
<1>6. ~Holds(t)' /\ (Event(t)' => Event(t))
  BY <1>1, <1>2, <1>3, <1>5, ThreadNames DEF Holds, Event, LoopLabels, ReadLabels
<1>7. Eventful(t, l)
  BY <1>1, <1>2, <1>3, <1>6 DEF Eventful, Events
<1>8. Token'
  BY <1>1, <1>2, <1>4, <1>6, TokenKept DEF Token
<1>9. Window'
  BY <1>1, <1>2, <1>3, <1>4, <1>6, WindowSame
<1>10. Events'
  BY <1>1, <1>2, <1>4, <1>7, EventsKept
<1>11. Arming'
  <2>1. \A u \in Threads : pc[u] # "arm"
    BY <1>1, <1>2 DEF Sound, Masked, Masks
  <2> QED BY <1>1, <1>3, <1>4, <2>1, ArmingKept
<1>12. WireExact'
  BY <1>1, <1>2, <1>3, <1>4, WireSame
<1>13. FlagIsArmed'
  BY <1>1, <1>2, <1>3, <1>4, FlagKept DEF In, Out
<1> QED BY <1>8, <1>9, <1>10, <1>11, <1>12, <1>13 DEF Online, Connected

LEMMA ClearOnline ==
    ASSUME Sound, NEW t \in Ios, Clear(t)
    PROVE  Online'
<1> SUFFICES ASSUME connected, ~crossed, ~crossed' PROVE Online'
  BY DEF Online, Clear, history, UsesFlag
<1>1. /\ Token /\ Window /\ Events /\ Arming /\ WireExact /\ FlagIsArmed
      /\ t \in Threads /\ Busy(t) /\ \A u \in Ios \ {t} : ~Busy(u)
  BY OnlineParts, OnlyBusy, ThreadNames DEF Clear, Busy, ReadLabels
<1>2. /\ pc[t] = "clear" /\ ~needSend'
      /\ UNCHANGED <<connected, lost, queued, window, lastread, written, wire, accepted, interest,
                     unread, event, mask, exp>>
  BY DEF Clear, history, bufferVars, socketVars, ioVars
<1>3. Event(t)
  BY <1>1, <1>2 DEF Events, Event
<1>4. needSend /\ lastread # 0 /\ \A u \in Threads : ~Holds(u)
  BY <1>1, <1>3 DEF Token, Events
<1>5. Acts(t, "disarm")
  BY <1>1, ByGoto, IoActs DEF Clear, Sound, TypeOK, packetVars, ioVars
<1>6. pc'[t] = "disarm"
  BY <1>5 DEF Acts, Moves
<1>7. Holds(t)' /\ ~Event(t)'
  BY <1>6 DEF Holds, Event, ReadLabels
<1>8. \A u \in Threads \ {t} : pc[u] # "arm"
  BY <1>1, <1>3 DEF Arming
<1>9. Token'
  BY <1>1, <1>2, <1>4, <1>5, TokenKept
<1>10. Window'
  BY <1>1, <1>2, <1>4, <1>5, WindowSame
<1>11. Events'
  BY <1>1, <1>2, <1>5, <1>7, EventsKept DEF Eventful
<1>12. Arming'
  BY <1>1, <1>5, <1>8, ArmingKept
<1>13. WireExact'
  BY <1>1, <1>2, <1>5, WireSame
<1>14. FlagIsArmed'
  BY <1>1, <1>2, <1>5, FlagKept
<1> QED BY <1>9, <1>10, <1>11, <1>12, <1>13, <1>14 DEF Online, Connected

LEMMA DisarmOnline ==
    ASSUME Sound, NEW t \in Ios, Disarm(t)
    PROVE  Online'
<1> SUFFICES ASSUME connected, ~crossed, ~crossed' PROVE Online'
  BY DEF Online, Disarm, history
<1>1. /\ Token /\ Window /\ Events /\ Arming /\ WireExact /\ FlagIsArmed
      /\ t \in Threads /\ Busy(t) /\ \A u \in Ios \ {t} : ~Busy(u)
  BY OnlineParts, OnlyBusy, ThreadNames DEF Disarm, Busy, ReadLabels
<1>2. /\ pc[t] = "disarm" /\ interest' = {In}
      /\ UNCHANGED <<connected, lost, needSend, queued, window, lastread, written, wire, accepted,
                     unread, event, mask, exp>>
  BY DEF Disarm, history, bufferVars, socketVars
<1>3. Holds(t) /\ ~needSend /\ lastread # 0 /\ window \in 1 .. queued
  BY <1>1, <1>2 DEF Token, Window, Holds
<1>4. Acts(t, "write")
  BY <1>1, ByGoto, IoActs DEF Disarm, Sound, TypeOK, packetVars
<1>5. pc'[t] = "write"
  BY <1>4 DEF Acts, Moves
<1>6. ~Event(t)'
  BY <1>5 DEF Event, ReadLabels, Holds, LoopLabels
<1>7. Token'
  BY <1>1, <1>2, <1>3, <1>4, TokenKept
<1>8. Window'
  BY <1>1, <1>2, <1>3, <1>4, WindowSame
<1>9. Events'
  BY <1>1, <1>2, <1>4, <1>6, EventsKept DEF Eventful
<1>10. Arming'
  BY <1>1, <1>3, <1>4, ArmingKept DEF Arming
<1>11. WireExact'
  BY <1>1, <1>2, <1>4, WireSame
<1>12. FlagIsArmed'
  BY <1>1, <1>2, <1>3, <1>4, FlagKept DEF In, Out
<1> QED BY <1>7, <1>8, <1>9, <1>10, <1>11, <1>12 DEF Online, Connected

LEMMA ArriveOnline ==
    ASSUME Sound, Arrive
    PROVE  Online'
<1> SUFFICES ASSUME connected, ~crossed, ~crossed' PROVE Online'
  BY DEF Online, Arrive, history
<1>1. /\ unread' = unread + 1 /\ unread \in Nat /\ connected
      /\ UNCHANGED <<connected, alive, mutex, pc, inuse, event, exp, mask, history, bufferVars,
                     packetVars, socketVars, armVars>>
  BY SizesAssumption DEF Arrive, Sound, TypeOK
<1>2. unread' > 0
  BY <1>1
<1>3. Events'
  BY <1>1, <1>2, OnlineParts DEF Events, Alone, Busy, Event, armVars
<1>4. Token' /\ Window' /\ Arming' /\ WireExact' /\ FlagIsArmed'
  BY <1>1, OnlineParts DEF Token, Window, Arming, WireExact, FlagIsArmed, Holds, Event,
     history, bufferVars, packetVars, socketVars, armVars
<1> QED BY <1>3, <1>4 DEF Online, Connected

LEMMA DrainOnline ==
    ASSUME Sound, Drain
    PROVE  Online'
BY DEF Sound, Drain, Online, Connected, Token, Window, Events, Alone, Busy, Arming, WireExact,
   FlagIsArmed, Holds, Event, history, bufferVars, packetVars, ioVars, armVars

\* commit_read's assertion holds until two threads have crossed each other.
LEMMA AssertionFailsOnline ==
    ASSUME Sound, NEW t \in Threads, AssertionFails(t)
    PROVE  Online'
<1>1. connected /\ crossed' = crossed /\ pc[t] = "sent" /\ written > queued
  BY DEF AssertionFails, history
<1>2. CASE ~crossed
  <2>1. written \in 1 .. window /\ window \in 1 .. queued
    BY <1>1, <1>2, OnlineParts DEF Window, Holds, LoopLabels
  <2> QED BY <1>1, <2>1, SizesAssumption DEF Sound, TypeOK
<1>3. CASE crossed
  BY <1>1, <1>3 DEF Online
<1> QED BY <1>2, <1>3

LEMMA LostOnline ==
    ASSUME ~connected' \/ crossed'
    PROVE  Online'
BY DEF Online

-----------------------------------------------------------------------------
(* Types, packets and masks *)

PcTypes ==
    /\ \A s \in Senders : pc[s] \in {"idle"} \cup SenderLabels \cup LoopLabels \cup ArmLabels
    /\ \A t \in Ios : pc[t] \in {"idle"} \cup ReadLabels \cup LoopLabels \cup EventLabels \cup ArmLabels
    /\ DOMAIN pc = Threads

Placed == PcTypes /\ Packets /\ Masked

\* Where the step of t takes it, and what that place asks of it
Fits(t, l) ==
    /\ l \in Places(t)
    /\ t \in Senders =>
          /\ l \in {"room", "copy", "start"} \cup LoopLabels \cup ArmLabels => mutex' = t
          /\ l \in {"lock", "room", "copy"} => left'[t] >= 1
          /\ l = "copy" => left'[t] <= Room - queued'
    /\ ~crossed' =>
          /\ l = "rearm" => /\ mask'[t] = (IF needSend' THEN {In, Out} ELSE {In})
                            /\ \A u \in Threads \ {t} : pc[u] # "arm"
          /\ l = "arm" => \A u \in Threads \ {t} : pc[u] # "rearm"

LEMMA PlacedKept ==
    ASSUME TypeOK, Packets, Masked, crossed => crossed', NEW t \in Threads, NEW l, Acts(t, l), Fits(t, l),
           queued' \in Int, queued' <= queued \/ (t \in Senders /\ mutex = t),
           \A u \in Senders \ {t} : mutex = u => mutex' = u,
           crossed' \/ needSend' = needSend \/ \A u \in Threads \ {t} : pc[u] # "rearm"
    PROVE  Placed'
<1>1. pc'[t] = l /\ DOMAIN pc' = Threads /\ \A u \in Threads \ {t} : pc'[u] = pc[u]
  BY DEF Acts, Moves
<1>2. PcTypes'
  BY <1>1, ThreadNames DEF PcTypes, TypeOK, Fits, Places
<1>3. Packets'
  <2> SUFFICES ASSUME NEW s \in Senders
               PROVE  /\ pc'[s] \in {"room", "copy", "start"} \cup LoopLabels \cup ArmLabels =>
                            mutex' = s
                      /\ pc'[s] \in {"lock", "room", "copy"} => left'[s] >= 1
                      /\ pc'[s] = "copy" => left'[s] <= Room - queued'
    BY DEF Packets
  <2>1. CASE s = t
    BY <1>1, <2>1 DEF Fits
  <2>2. CASE s # t
    <3>1. pc'[s] = pc[s] /\ left'[s] = left[s] /\ s \in Threads
      BY <1>1, <2>2, ThreadNames DEF Acts
    <3>2. /\ pc[s] \in {"room", "copy", "start"} \cup LoopLabels \cup ArmLabels => mutex = s
          /\ pc[s] \in {"lock", "room", "copy"} => left[s] >= 1
          /\ pc[s] = "copy" => left[s] <= Room - queued
      BY DEF Packets
    <3>3. pc[s] = "copy" => queued' <= queued
      BY <2>2, <3>2
    <3>4. left[s] \in Int /\ queued \in Int /\ Room \in Int
      BY SizesAssumption DEF TypeOK
    <3>5. pc[s] = "copy" => left[s] <= Room - queued'
      BY <3>2, <3>3, <3>4
    <3> QED BY <2>2, <3>1, <3>2, <3>5
  <2> QED BY <2>1, <2>2
<1>4. Masked'
  <2> SUFFICES ASSUME ~crossed', ~crossed, Masks, NEW i \in Ios, pc'[i] = "rearm"
               PROVE  /\ mask'[i] = (IF needSend' THEN {In, Out} ELSE {In})
                      /\ \A u \in Threads : pc'[u] # "arm"
    BY DEF Masked, Masks
  <2>0. i \in Threads
    BY ThreadNames
  <2>1. CASE i = t
    BY <1>1, <2>1 DEF Fits
  <2>2. CASE i # t
    <3>1. pc[i] = "rearm" /\ mask'[i] = mask[i]
      BY <1>1, <2>0, <2>2 DEF Acts
    <3>2. l # "arm" /\ needSend' = needSend
      BY <2>0, <2>2, <3>1 DEF Fits
    <3> QED BY <1>1, <3>1, <3>2 DEF Masks
  <2> QED BY <2>1, <2>2
<1> QED BY <1>2, <1>3, <1>4 DEF Placed

\* Data apart from the threads' places
Data ==
    /\ connected \in BOOLEAN /\ alive \in BOOLEAN /\ full \in BOOLEAN /\ needSend \in BOOLEAN
    /\ queued \in 0 .. Room
    /\ lastread \in Nat
    /\ window \in 0 .. Block
    /\ mutex \in Senders \cup {NoOne}
    /\ left \in [Senders -> 0 .. MaxPacket]
    /\ flag \in [Senders -> BOOLEAN]
    /\ written \in 0 .. Block
    /\ sends \in 0 .. MaxSends
    /\ accepted \in Nat /\ wire \in Nat
    /\ arrivals \in 0 .. MaxArrivals /\ unread \in 0 .. arrivals
    /\ interest \in SUBSET {In, Out}
    /\ inuse \in [{In, Out} -> BOOLEAN]
    /\ event \in [Ios -> SUBSET {In, Out}]
    /\ exp \in [Ios -> BOOLEAN]
    /\ mask \in [Ios -> SUBSET {In, Out}]
    /\ crossed \in BOOLEAN /\ lost \in BOOLEAN

LEMMA TypesAsData ==
    /\ TypeOK <=> Data /\ PcTypes
    /\ TypeOK' <=> Data' /\ PcTypes'
BY DEF TypeOK, Data, PcTypes

Safe == TypeOK /\ Packets /\ Masked

LEMMA SafeKept ==
    ASSUME Sound, NEW t \in Threads, NEW l, Acts(t, l), Fits(t, l), Data', crossed => crossed',
           queued' <= queued \/ (t \in Senders /\ mutex = t),
           \A u \in Senders \ {t} : mutex = u => mutex' = u,
           crossed' \/ needSend' = needSend \/ \A u \in Threads \ {t} : pc[u] # "rearm"
    PROVE  Safe'
<1>1. queued' \in Int
  BY SizesAssumption DEF Data
<1>2. Placed'
  BY <1>1, PlacedKept DEF Sound
<1> QED BY <1>2, TypesAsData DEF Placed, Safe

\* process_send returns
LEMMA ReturnActs ==
    ASSUME TypeOK, NEW t \in Threads, NEW more \in BOOLEAN, Return(t, more),
           UNCHANGED <<flag, left, event, mask>>,
           t \in Senders => mutex = t
    PROVE  /\ \E l : Acts(t, l) /\ Fits(t, l)
           /\ mutex' \in Senders \cup {NoOne} /\ exp' \in [Ios -> BOOLEAN]
           /\ \A u \in Senders \ {t} : mutex = u => mutex' = u
<1>1. CASE t \in Ios
  <2>1. Acts(t, "return") /\ UNCHANGED mutex
    BY <1>1, ByGoto, IoActs DEF Return, TypeOK
  <2>2. Fits(t, "return")
    BY <1>1, ThreadNames DEF Fits, Places, EventLabels
  <2> QED BY <1>1, <2>1, <2>2 DEF Return, TypeOK
<1>2. CASE t \notin Ios /\ more
  <2>1. Acts(t, "remember") /\ UNCHANGED <<mutex, exp>>
    BY <1>2, ByGoto, SenderActs, ThreadNames DEF Return
  <2>2. Fits(t, "remember")
    BY <1>2, <2>1 DEF Fits, Places, ArmLabels
  <2> QED BY <2>1, <2>2 DEF TypeOK
<1>3. CASE t \notin Ios /\ ~more
  <2>1. Acts(t, "idle") /\ UNCHANGED exp /\ mutex' = (IF t = mutex THEN NoOne ELSE mutex)
    BY <1>3, ByGoto, SenderActs, ThreadNames DEF Return, Leave
  <2>2. Fits(t, "idle")
    BY <1>3, <2>1 DEF Fits, Places, ArmLabels, LoopLabels
  <2> QED BY <2>1, <2>2 DEF TypeOK
<1> QED BY <1>1, <1>2, <1>3

LEMMA SendSafe ==
    ASSUME Sound, NEW s \in Senders, NEW size \in 1 .. MaxPacket, Send(s, size)
    PROVE  Safe'
<1>1. s \in Threads /\ s \notin Ios
  BY ThreadNames
<1>2. Acts(s, "lock")
  BY <1>1, ByGoto, SenderActs DEF Send, Sound, TypeOK, ioVars
<1>3. left' = [left EXCEPT ![s] = size] /\ size \in 0 .. MaxPacket /\ left'[s] >= 1
  BY SizesAssumption DEF Send, Sound, TypeOK
<1>4. Fits(s, "lock")
  BY <1>1, <1>3 DEF Fits, Places, SenderLabels, LoopLabels, ArmLabels
<1>5. Data'
  BY <1>3, SizesAssumption DEF Data, Send, Sound, TypeOK, history, bufferVars, socketVars, ioVars, armVars
<1>6. queued' <= queued /\ UNCHANGED <<mutex, needSend, crossed>>
  BY SizesAssumption DEF Send, history, bufferVars, armVars, Sound, TypeOK
<1> QED BY <1>1, <1>2, <1>4, <1>5, <1>6, SafeKept

LEMMA LockSafe ==
    ASSUME Sound, NEW s \in Senders, Lock(s)
    PROVE  Safe'
<1>1. s \in Threads /\ s \notin Ios /\ NoOne \notin Senders
  BY ThreadNames
<1>2. Acts(s, "room")
  BY <1>1, ByGoto, SenderActs DEF Lock, Sound, TypeOK, ioVars, packetVars
<1>3. Fits(s, "room")
  BY <1>1 DEF Fits, Places, SenderLabels, Sound, Packets, Lock, packetVars
<1>4. Data'
  BY DEF Data, Lock, Sound, TypeOK, history, bufferVars, packetVars, socketVars, ioVars, armVars
<1>5. queued' <= queued /\ UNCHANGED <<needSend, crossed>> /\ mutex = NoOne
  BY SizesAssumption DEF Lock, history, bufferVars, armVars, Sound, TypeOK
<1> QED BY <1>1, <1>2, <1>3, <1>4, <1>5, SafeKept

LEMMA CheckRoomSafe ==
    ASSUME Sound, NEW s \in Senders, CheckRoom(s)
    PROVE  Safe'
<1>1. s \in Threads /\ s \notin Ios /\ mutex = s /\ left[s] >= 1
  BY ThreadNames DEF CheckRoom, Sound, Packets
<1>2. UNCHANGED <<queued, left, exp, event, mask, needSend, crossed>> /\ queued' <= queued
  BY SizesAssumption DEF CheckRoom, history, bufferVars, packetVars, ioVars, Sound, TypeOK
<1>0. \A u \in Senders \ {s} : flag'[u] = flag[u]
  BY DEF CheckRoom, Sound, TypeOK
<1>3. Data'
  BY DEF Data, CheckRoom, Shut, Leave, Sound, TypeOK, history, bufferVars, packetVars, socketVars, ioVars
<1>4. CASE Room - queued < left[s]
  <2>1. Acts(s, "idle")
    BY <1>0, <1>1, <1>2, <1>4, ByGoto, SenderActs DEF CheckRoom, Leave, Sound
  <2>2. Fits(s, "idle")
    BY <1>1 DEF Fits, Places, LoopLabels, ArmLabels
  <2> QED BY <1>1, <1>2, <1>3, <2>1, <2>2, SafeKept
<1>5. CASE ~(Room - queued < left[s])
  <2>1. Acts(s, "copy") /\ UNCHANGED mutex
    BY <1>0, <1>1, <1>2, <1>5, ByGoto, SenderActs DEF CheckRoom, Sound
  <2>2. left[s] <= Room - queued
    BY <1>5, SizesAssumption DEF Sound, TypeOK
  <2>3. Fits(s, "copy")
    BY <1>1, <1>2, <2>1, <2>2 DEF Fits, Places, SenderLabels
  <2> QED BY <1>1, <1>2, <1>3, <2>1, <2>3, SafeKept
<1> QED BY <1>4, <1>5

LEMMA CopySafe ==
    ASSUME Sound, NEW s \in Senders, NEW n \in 1 .. Block, Copy(s, n)
    PROVE  Safe'
<1>1. s \in Threads /\ s \notin Ios /\ mutex = s /\ left[s] >= 1 /\ left[s] <= Room - queued
  BY ThreadNames DEF Copy, Sound, Packets
<1>2. /\ n \in 1 .. left[s] /\ left[s] \in 0 .. MaxPacket
      /\ queued' = queued + n /\ accepted' = accepted + n
      /\ left' = [left EXCEPT ![s] = @ - n]
      /\ Goto(s, IF left[s] = n THEN "start" ELSE "copy")
      /\ UNCHANGED <<mutex, needSend, crossed>>
  BY <1>1, SizesAssumption DEF Copy, Sound, TypeOK, armVars
<1>3. PICK l : l = IF left[s] = n THEN "start" ELSE "copy"
  OBVIOUS
<1>4. Acts(s, l)
  BY <1>1, <1>2, <1>3, ByGoto, SenderActs DEF Copy, Sound, TypeOK, ioVars
<1>5. left'[s] = left[s] - n /\ left'[s] \in 0 .. MaxPacket
  <2>1. left'[s] = left[s] - n
    BY <1>2 DEF Sound, TypeOK
  <2> QED BY <1>2, <2>1, SizesAssumption
<1>6. queued' \in 0 .. Room /\ left'[s] <= Room - queued' /\ (l = "copy" => left'[s] >= 1)
  BY <1>1, <1>2, <1>3, <1>5, SizesAssumption DEF Sound, TypeOK
<1>7. Fits(s, l)
  BY <1>1, <1>2, <1>3, <1>6 DEF Fits, Places, SenderLabels
<1>8. Data'
  <2>1. left' \in [Senders -> 0 .. MaxPacket]
    BY <1>2, <1>5 DEF Sound, TypeOK
  <2>2. accepted' \in Nat /\ lastread' \in Nat /\ flag' \in [Senders -> BOOLEAN]
        /\ lost' \in BOOLEAN
    BY <1>2, SizesAssumption DEF Copy, Sound, TypeOK
  <2> QED BY <1>6, <2>1, <2>2 DEF Data, Copy, Sound, TypeOK, socketVars, ioVars, armVars
<1> QED BY <1>1, <1>2, <1>4, <1>7, <1>8, SafeKept

LEMMA WindowTypes ==
    ASSUME TypeOK
    PROVE  Windows \subseteq 0 .. Block
BY SizesAssumption DEF Windows, Least, TypeOK

LEMMA StartSafe ==
    ASSUME Sound, NEW s \in Senders, Start(s)
    PROVE  Safe'
<1>1. s \in Threads /\ s \notin Ios /\ mutex = s
  BY ThreadNames DEF Start, Sound, Packets
<1>2. UNCHANGED <<queued, left, flag, exp, event, mask, needSend, crossed>> /\ queued' <= queued
  BY SizesAssumption DEF Start, history, armVars, packetVars, ioVars, Sound, TypeOK
<1>3. Data'
  <2>1. Windows \subseteq 0 .. Block
    BY WindowTypes DEF Sound
  <2>2. window' \in 0 .. Block /\ lastread' \in Nat
    <3>1. CASE flag[s]
      <4>1. window' \in Windows /\ lastread' = window'
        BY <3>1 DEF Start
      <4> QED BY <2>1, <4>1, SizesAssumption
    <3>2. CASE ~flag[s]
      BY <3>2 DEF Start, Sound, TypeOK
    <3> QED BY <3>1, <3>2
  <2>3. mutex' \in Senders \cup {NoOne}
    BY DEF Start, Leave, Sound, TypeOK
  <2> QED BY <2>2, <2>3 DEF Data, Start, Sound, TypeOK, history, packetVars, ioVars, armVars
<1>4. CASE flag[s] /\ connected
  <2>1. Acts(s, "write") /\ UNCHANGED mutex
    BY <1>1, <1>2, <1>4, ByGoto, SenderActs DEF Start, Sound
  <2>2. Fits(s, "write")
    BY <1>1, <2>1 DEF Fits, Places, LoopLabels
  <2> QED BY <1>1, <1>2, <1>3, <2>1, <2>2, SafeKept
<1>5. CASE ~(flag[s] /\ connected)
  <2>1. Acts(s, "idle")
    BY <1>1, <1>2, <1>5, ByGoto, SenderActs DEF Start, Leave, Sound
  <2>2. Fits(s, "idle")
    BY <1>1 DEF Fits, Places, LoopLabels, ArmLabels
  <2> QED BY <1>1, <1>2, <1>3, <2>1, <2>2, SafeKept
<1> QED BY <1>4, <1>5

LEMMA SocketWriteSafe ==
    ASSUME Sound, NEW t \in Threads, NEW n \in 1 .. Block, SocketWrite(t, n)
    PROVE  Safe'
<1>1. Acts(t, "sent") /\ UNCHANGED <<queued, mutex, needSend, crossed>> /\ queued' <= queued
  BY ByGoto, SenderActs, IoActs, ThreadNames, SizesAssumption
     DEF SocketWrite, Sound, TypeOK, history, bufferVars, ioVars, packetVars, armVars
<1>2. Fits(t, "sent")
  BY <1>1 DEF Fits, Places, LoopLabels, Sound, Packets, SocketWrite
<1>3. Data'
  <2>1. full' \in BOOLEAN
    <3>1. full' \in {TRUE, n < window}
      BY DEF SocketWrite
    <3>2. (n < window) \in BOOLEAN
      BY SizesAssumption DEF Sound, TypeOK
    <3> QED BY <3>1, <3>2
  <2>2. written' \in 0 .. Block /\ wire' \in Nat
    BY SizesAssumption DEF SocketWrite, Sound, TypeOK
  <2> QED BY <2>1, <2>2 DEF Data, SocketWrite, Sound, TypeOK, history, bufferVars, packetVars, ioVars,
    armVars
<1> QED BY <1>1, <1>2, <1>3, SafeKept

\* What a step of the write loop leaves alone, once it has left the loop
LEMMA ReturnSafe ==
    ASSUME Sound, NEW t \in Threads, NEW more \in BOOLEAN, Return(t, more),
      pc[t] \in LoopLabels \cup {"disarm"},
           UNCHANGED <<flag, left, event, mask, queued, needSend, crossed>>,
           mutex' \in Senders \cup {NoOne} /\ exp' \in [Ios -> BOOLEAN] => Data'
    PROVE  Safe'
<1>1. t \in Senders => mutex = t
  BY DEF Sound, TypeOK, Packets, LoopLabels, SenderLabels, ArmLabels
<1>2. /\ \E l : Acts(t, l) /\ Fits(t, l)
      /\ mutex' \in Senders \cup {NoOne} /\ exp' \in [Ios -> BOOLEAN]
      /\ \A u \in Senders \ {t} : mutex = u => mutex' = u
  BY <1>1, ReturnActs DEF Sound
<1>3. Data' /\ queued' <= queued
  BY <1>2, SizesAssumption DEF Sound, TypeOK
<1> QED BY <1>2, <1>3, SafeKept

LEMMA SocketFullSafe ==
    ASSUME Sound, NEW t \in Threads, SocketFull(t)
    PROVE  Safe'
<1>1. /\ UNCHANGED <<flag, left, event, mask, queued, needSend, crossed>>
      /\ Return(t, TRUE) /\ pc[t] \in LoopLabels
  BY DEF SocketFull, history, bufferVars, packetVars, armVars, LoopLabels
<1>2. mutex' \in Senders \cup {NoOne} /\ exp' \in [Ios -> BOOLEAN] => Data'
  BY DEF Data, SocketFull, Sound, TypeOK, history, bufferVars, packetVars, socketVars, armVars
<1> QED BY <1>1, <1>2, ReturnSafe

LEMMA SocketClosedSafe ==
    ASSUME Sound, NEW t \in Threads, SocketClosed(t)
    PROVE  Safe'
<1>1. /\ UNCHANGED <<flag, left, event, mask, queued, needSend, crossed>>
      /\ Return(t, FALSE) /\ pc[t] \in LoopLabels
  BY DEF SocketClosed, history, bufferVars, packetVars, armVars, LoopLabels
<1>2. mutex' \in Senders \cup {NoOne} /\ exp' \in [Ios -> BOOLEAN] => Data'
  BY DEF Data, SocketClosed, Sound, TypeOK, history, bufferVars, packetVars, socketVars, armVars
<1> QED BY <1>1, <1>2, ReturnSafe

LEMMA PeerGoneSafe ==
    ASSUME Sound, NEW t \in Threads, PeerGone(t)
    PROVE  Safe'
<1>1. /\ UNCHANGED <<flag, left, event, mask, queued, needSend, crossed>>
      /\ Return(t, FALSE) /\ pc[t] \in LoopLabels
  BY DEF PeerGone, history, bufferVars, packetVars, LoopLabels
<1>2. mutex' \in Senders \cup {NoOne} /\ exp' \in [Ios -> BOOLEAN] => Data'
  BY DEF Data, PeerGone, Shut, Sound, TypeOK, history, bufferVars, packetVars, socketVars
<1> QED BY <1>1, <1>2, ReturnSafe

\* A step after which no thread is anywhere else
LEMMA StandingSafe ==
    ASSUME Sound, Data', UNCHANGED <<pc, mutex, left, queued, mask, needSend, crossed>>
    PROVE  Safe'
<1>1. TypeOK'
  BY TypesAsData DEF PcTypes, Sound
<1>2. Packets'
  BY DEF Sound, Packets
<1>3. Masked'
  BY DEF Sound, Masked, Masks
<1> QED BY <1>1, <1>2, <1>3 DEF Safe

LEMMA WriteThrowsSafe ==
    ASSUME Sound, NEW t \in Threads, WriteThrows(t)
    PROVE  Safe'
<1>1. UNCHANGED <<flag, left, exp, event, mask, queued, needSend, crossed>> /\ queued' <= queued
  BY SizesAssumption DEF WriteThrows, bufferVars, packetVars, ioVars, armVars, Sound, TypeOK
<1>2. CASE t \in Ios
  <2>1. UNCHANGED <<pc, mutex>>
    BY <1>2 DEF WriteThrows
  <2>2. Data'
    BY <1>2 DEF Data, WriteThrows, Sound, TypeOK, bufferVars, packetVars, socketVars, ioVars,
       armVars
  <2> QED BY <1>1, <2>1, <2>2, StandingSafe
<1>3. CASE t \notin Ios
  <2>1. Acts(t, "idle") /\ mutex' = IF t = mutex THEN NoOne ELSE mutex
    BY <1>1, <1>3, ByGoto, SenderActs, ThreadNames DEF WriteThrows, Leave, Sound
  <2>2. Fits(t, "idle")
    BY <1>3 DEF Fits, Places, LoopLabels, ArmLabels
  <2>3. Data'
    BY <1>3, <2>1 DEF Data, WriteThrows, Sound, TypeOK, bufferVars, packetVars, socketVars, ioVars,
       armVars
  <2> QED BY <1>1, <2>1, <2>2, <2>3, SafeKept
<1> QED BY <1>2, <1>3

LEMMA AssertionFailsSafe ==
    ASSUME Sound, NEW t \in Threads, AssertionFails(t)
    PROVE  Safe'
<1>1. UNCHANGED <<pc, mutex, left, queued, mask, needSend, crossed>>
  BY DEF AssertionFails, history, bufferVars, packetVars, ioVars, armVars
<1>2. Data'
  BY DEF Data, AssertionFails, Sound, TypeOK, history, bufferVars, packetVars, socketVars, ioVars,
     armVars
<1> QED BY <1>1, <1>2, StandingSafe

LEMMA ReleaseSentSafe ==
    ASSUME Sound, NEW t \in Threads, ReleaseSent(t)
    PROVE  Safe'
<1>1. UNCHANGED <<flag, left, event, mask, needSend, crossed>> /\ pc[t] \in LoopLabels /\ pc[t] = "sent"
  BY DEF ReleaseSent, history, packetVars, armVars, LoopLabels
<1>2. CASE connected
  <2>1. queued' = queued - written /\ Goto(t, "reread") /\ UNCHANGED <<mutex, exp>>
    BY <1>2 DEF ReleaseSent
  <2>2. written <= queued
    BY <1>1, <1>2 DEF ReleaseSent
  <2>3. queued' \in 0 .. Room /\ queued' <= queued
    BY <2>1, <2>2, SizesAssumption DEF Sound, TypeOK
  <2>4. Acts(t, "reread")
    BY <1>1, <2>1, ByGoto, SenderActs, IoActs, ThreadNames DEF Sound
  <2>5. Fits(t, "reread")
    BY <1>1, <2>1 DEF Fits, Places, LoopLabels, Sound, Packets
  <2>6. Data'
    BY <2>1, <2>3 DEF Data, ReleaseSent, Sound, TypeOK, history, packetVars, socketVars, armVars
  <2> QED BY <1>1, <2>1, <2>3, <2>4, <2>5, <2>6, SafeKept
<1>3. CASE ~connected
  <2>1. Return(t, FALSE) /\ UNCHANGED queued
    BY <1>3 DEF ReleaseSent
  <2>2. mutex' \in Senders \cup {NoOne} /\ exp' \in [Ios -> BOOLEAN] => Data'
    BY <2>1 DEF Data, ReleaseSent, Sound, TypeOK, history, packetVars, socketVars, armVars
  <2> QED BY <1>1, <2>1, <2>2, ReturnSafe
<1> QED BY <1>2, <1>3

LEMMA RereadSafe ==
    ASSUME Sound, NEW t \in Threads, Reread(t)
    PROVE  Safe'
<1>1. /\ UNCHANGED <<flag, left, event, mask, needSend, queued, crossed>>
      /\ pc[t] \in LoopLabels /\ pc[t] = "reread" /\ queued' <= queued
  BY SizesAssumption DEF Reread, history, packetVars, armVars, LoopLabels, Sound, TypeOK
<1>3. PICK n \in Windows :
      /\ lastread' = n
      /\ IF n # 0 /\ connected
         THEN window' = n /\ Goto(t, "write") /\ UNCHANGED <<mutex, exp>>
         ELSE UNCHANGED window /\ Return(t, FALSE)
  BY DEF Reread
<1>2. n \in 0 .. Block /\ n \in Nat
  BY WindowTypes DEF Sound
<1>4. CASE n # 0 /\ connected
  <2>1. Acts(t, "write")
    BY <1>1, <1>3, <1>4, ByGoto, SenderActs, IoActs, ThreadNames DEF Sound
  <2>2. Fits(t, "write")
    BY <1>1, <1>3, <1>4 DEF Fits, Places, LoopLabels, Sound, Packets
  <2>3. Data'
    BY <1>2, <1>3, <1>4 DEF Data, Reread, Sound, TypeOK, history, packetVars, armVars
  <2> QED BY <1>1, <1>3, <1>4, <2>1, <2>2, <2>3, SafeKept
<1>5. CASE ~(n # 0 /\ connected)
  <2>1. mutex' \in Senders \cup {NoOne} /\ exp' \in [Ios -> BOOLEAN] => Data'
    BY <1>2, <1>3, <1>5 DEF Data, Reread, Sound, TypeOK, history, packetVars, armVars
  <2> QED BY <1>1, <1>3, <1>5, <2>1, ReturnSafe
<1> QED BY <1>4, <1>5

LEMMA RememberSafe ==
    ASSUME Sound, NEW t \in Threads, Remember(t)
    PROVE  Safe'
<1>1. Acts(t, "arm") /\ UNCHANGED <<queued, mutex>> /\ queued' <= queued
  BY ByGoto, SenderActs, IoActs, ThreadNames, SizesAssumption
     DEF Remember, Sound, TypeOK, history, bufferVars, packetVars, ioVars
<1>2. /\ crossed => crossed'
      /\ ~crossed' => \A u \in Threads \ {t} : pc[u] # "rearm"
  BY DEF Remember, UsesFlag
<1>3. Fits(t, "arm")
  BY <1>1, <1>2 DEF Fits, Places, ArmLabels, Sound, Packets, Remember
<1>4. Data'
  BY DEF Data, Remember, UsesFlag, Sound, TypeOK, history, bufferVars, packetVars, socketVars, ioVars
<1> QED BY <1>1, <1>2, <1>3, <1>4, SafeKept

LEMMA ArmSafe ==
    ASSUME Sound, NEW t \in Threads, Arm(t)
    PROVE  Safe'
<1>1. Acts(t, "idle") /\ UNCHANGED <<queued, needSend, crossed>> /\ queued' <= queued
  BY ByGoto, SenderActs, IoActs, ThreadNames, SizesAssumption
     DEF Arm, Leave, Sound, TypeOK, history, bufferVars, packetVars, ioVars
<1>2. Fits(t, "idle") /\ mutex' = IF t = mutex THEN NoOne ELSE mutex
  BY DEF Fits, Places, LoopLabels, ArmLabels, Arm, Leave
<1>3. Data'
  BY <1>2 DEF Data, Arm, Sound, TypeOK, history, bufferVars, packetVars, socketVars, ioVars
<1> QED BY <1>1, <1>2, <1>3, SafeKept

\* A step of the IO thread that is none of the write loop's
LEMMA IoStepSafe ==
    ASSUME Sound, NEW t \in Ios, NEW l, Moves(t, l), UNCHANGED <<flag, left, mutex, queued,
                                                                 needSend>>, crossed => crossed',
           \A u \in Ios \ {t} : exp'[u] = exp[u] /\ event'[u] = event[u] /\ mask'[u] = mask[u],
           l \in {"idle"} \cup ReadLabels \cup LoopLabels \cup EventLabels, l # "rearm", Data'
    PROVE  Safe'
<1>1. t \in Threads /\ t \notin Senders
  BY ThreadNames
<1>2. Acts(t, l)
  BY IoActs DEF Sound
<1>3. Fits(t, l)
  BY <1>1, ThreadNames DEF Fits, Places, ReadLabels, LoopLabels, EventLabels
<1>4. queued' <= queued
  BY SizesAssumption DEF Sound, TypeOK
<1> QED BY <1>1, <1>2, <1>3, <1>4, SafeKept

LEMMA WritePartMoves ==
    ASSUME TypeOK, NEW t \in Ios, WritePart(t)
    PROVE  \E l : Moves(t, l) /\ l \in {"idle", "send"}
BY ByGoto, ThreadNames DEF WritePart

LEMMA DeliverSafe ==
    ASSUME Sound, NEW t \in Ios, Deliver(t)
    PROVE  Safe'
<1>1. \E l : Moves(t, l) /\ l \in {"claim", "send"}
  BY ByGoto, ThreadNames DEF Deliver, Sound
<1>2. /\ UNCHANGED <<flag, left, mutex, queued, needSend>>
      /\ crossed => crossed'
      /\ \A u \in Ios \ {t} : exp'[u] = exp[u] /\ event'[u] = event[u] /\ mask'[u] = mask[u]
  BY DEF Deliver, TakesEvent, Sound, TypeOK, history, bufferVars, packetVars
<1>3. Data'
  <2>1. (interest \cap Ready) \in SUBSET {In, Out}
    BY DEF Sound, TypeOK
  <2> QED BY <2>1 DEF Data, Deliver, TakesEvent, Sound, TypeOK, history, bufferVars, packetVars, socketVars
<1> QED BY <1>1, <1>2, <1>3, IoStepSafe DEF ReadLabels, EventLabels

LEMMA ClaimSafe ==
    ASSUME Sound, NEW t \in Ios, Claim(t)
    PROVE  Safe'
<1>1. /\ UNCHANGED <<flag, left, mutex, queued, needSend>>
      /\ crossed => crossed'
      /\ \A u \in Ios \ {t} : exp'[u] = exp[u] /\ event'[u] = event[u] /\ mask'[u] = mask[u]
  BY DEF Claim, Sound, TypeOK, history, bufferVars, packetVars, armVars
<1>2. /\ \/ inuse' = inuse
         \/ inuse' = [inuse EXCEPT ![In] = Multi]
      /\ \/ exp' = exp
         \/ \E b \in BOOLEAN : exp' = [exp EXCEPT ![t] = b]
      /\ crossed' \in {TRUE, crossed}
  BY DEF Claim
<1>3. \E l : Moves(t, l) /\ l \in {"read", "idle", "send"}
  BY ByGoto, WritePartMoves, ThreadNames DEF Claim, Sound
<1>4. Data'
  <2>1. exp \in [Ios -> BOOLEAN] /\ inuse \in [{In, Out} -> BOOLEAN] /\ Multi \in BOOLEAN
    BY DEF Sound, TypeOK, Multi
  <2>2. exp' \in [Ios -> BOOLEAN]
    BY <1>2, <2>1
  <2>3. inuse' \in [{In, Out} -> BOOLEAN]
    BY <1>2, <2>1
  <2> QED BY <1>2, <2>2, <2>3 DEF Data, Claim, Sound, TypeOK, history, bufferVars, packetVars,
             socketVars, armVars
<1> QED BY <1>1, <1>3, <1>4, IoStepSafe DEF ReadLabels, EventLabels

LEMMA ReadSafe ==
    ASSUME Sound, NEW t \in Ios, Read(t)
    PROVE  Safe'
<1>1. /\ UNCHANGED <<crossed, flag, left, mutex, queued, needSend>>
      /\ \A u \in Ios \ {t} : exp'[u] = exp[u] /\ event'[u] = event[u] /\ mask'[u] = mask[u]
  BY DEF Read, Sound, TypeOK, history, bufferVars, packetVars, armVars
<1>2. \E l : Moves(t, l) /\ l \in {"read", "release"}
  BY ByGoto, ThreadNames DEF Read, Sound
<1>3. Data'
  <2>1. unread' \in 0 .. arrivals
    BY SizesAssumption DEF Read, Least, Sound, TypeOK
  <2> QED BY <2>1 DEF Data, Read, Sound, TypeOK, history, bufferVars, packetVars, socketVars, armVars
<1> QED BY <1>1, <1>2, <1>3, IoStepSafe DEF ReadLabels

LEMMA ReadOverflowsSafe ==
    ASSUME Sound, NEW t \in Ios, ReadOverflows(t)
    PROVE  Safe'
<1>1. /\ UNCHANGED <<crossed, flag, left, mutex, queued, needSend>>
      /\ \A u \in Ios \ {t} : exp'[u] = exp[u] /\ event'[u] = event[u] /\ mask'[u] = mask[u]
  BY DEF ReadOverflows, Sound, TypeOK, history, bufferVars, packetVars
<1>2. Moves(t, "release")
  BY ByGoto, ThreadNames DEF ReadOverflows, Sound
<1>3. Data'
  <2>1. unread' \in 0 .. arrivals'
    BY SizesAssumption DEF ReadOverflows, Sound, TypeOK
  <2>2. interest' \in SUBSET {In, Out} /\ exp' \in [Ios -> BOOLEAN]
    BY DEF ReadOverflows, Shut, Sound, TypeOK
  <2> QED BY <2>1, <2>2 DEF Data, ReadOverflows, Shut, Sound, TypeOK, history, bufferVars, packetVars,
    socketVars
<1> QED BY <1>1, <1>2, <1>3, IoStepSafe DEF ReadLabels

LEMMA ReadNothingSafe ==
    ASSUME Sound, NEW t \in Ios, ReadNothing(t)
    PROVE  Safe'
<1>1. UNCHANGED <<crossed, flag, left, mutex, queued, needSend, exp, event, mask>>
  BY DEF ReadNothing, history, bufferVars, packetVars, armVars, ioVars
<1>2. Moves(t, "release")
  BY ByGoto, ThreadNames DEF ReadNothing, Sound
<1>3. Data'
  BY DEF Data, ReadNothing, Sound, TypeOK, history, bufferVars, packetVars, socketVars, ioVars, armVars
<1> QED BY <1>1, <1>2, <1>3, IoStepSafe DEF ReadLabels

LEMMA ReadEndSafe ==
    ASSUME Sound, NEW t \in Ios, ReadEnd(t)
    PROVE  Safe'
<1>1. UNCHANGED <<crossed, flag, left, mutex, queued, needSend, exp, event, mask>>
  BY DEF ReadEnd, history, bufferVars, packetVars, ioVars
<1>2. Moves(t, "release")
  BY ByGoto, ThreadNames DEF ReadEnd, Sound
<1>3. Data'
  BY DEF Data, ReadEnd, Shut, Sound, TypeOK, history, bufferVars, packetVars, socketVars, ioVars
<1> QED BY <1>1, <1>2, <1>3, IoStepSafe DEF ReadLabels

LEMMA ReadClosedSafe ==
    ASSUME Sound, NEW t \in Ios, ReadClosed(t)
    PROVE  Safe'
<1>1. UNCHANGED <<pc, mutex, left, queued, mask, needSend, crossed>>
  BY DEF ReadClosed, history, bufferVars, packetVars, ioVars, armVars
<1>2. Data'
  BY DEF Data, ReadClosed, Sound, TypeOK, history, bufferVars, packetVars, socketVars, ioVars, armVars
<1> QED BY <1>1, <1>2, StandingSafe

LEMMA ReleaseReadSafe ==
    ASSUME Sound, NEW t \in Ios, ReleaseRead(t)
    PROVE  Safe'
<1>1. /\ UNCHANGED <<crossed, flag, left, mutex, queued, needSend>>
      /\ \A u \in Ios \ {t} : exp'[u] = exp[u] /\ event'[u] = event[u] /\ mask'[u] = mask[u]
  BY DEF ReleaseRead, history, bufferVars, packetVars, armVars
<1>2. \E l : Moves(t, l) /\ l \in {"peek", "idle", "send"}
  BY ByGoto, WritePartMoves, ThreadNames DEF ReleaseRead, Sound
<1>3. Data'
  BY DEF Data, ReleaseRead, Sound, TypeOK, history, bufferVars, packetVars, socketVars, armVars
<1> QED BY <1>1, <1>2, <1>3, IoStepSafe DEF ReadLabels, EventLabels

LEMMA PeekSafe ==
    ASSUME Sound, NEW t \in Ios, Peek(t)
    PROVE  Safe'
<1>1. t \in Threads /\ t \notin Senders /\ UNCHANGED <<mutex, queued, needSend>>
      /\ queued' <= queued /\ (crossed => crossed')
  BY ThreadNames, SizesAssumption DEF Peek, UsesFlag, history, bufferVars, armVars, Sound, TypeOK
<1>2. Acts(t, "rearm")
  BY <1>1, ByGoto, IoActs DEF Peek, Sound, TypeOK, packetVars
<1>3. Fits(t, "rearm")
  <2>1. mask'[t] = (IF needSend THEN {In, Out} ELSE {In})
    BY DEF Peek, Sound, TypeOK
  <2>2. ~crossed' => \A u \in Threads \ {t} : pc[u] # "arm"
    BY DEF Peek, UsesFlag
  <2> QED BY <1>1, <2>1, <2>2, ThreadNames DEF Fits, Places, ReadLabels
<1>4. Data'
  BY DEF Data, Peek, UsesFlag, Sound, TypeOK, history, bufferVars, packetVars, socketVars, armVars
<1> QED BY <1>1, <1>2, <1>3, <1>4, SafeKept

LEMMA RearmSafe ==
    ASSUME Sound, NEW t \in Ios, Rearm(t)
    PROVE  Safe'
<1>1. UNCHANGED <<crossed, flag, left, mutex, queued, needSend, exp, event, mask>>
  BY DEF Rearm, history, bufferVars, packetVars, ioVars
<1>2. \E l : Moves(t, l) /\ l \in {"claim", "idle", "send"}
  BY ByGoto, WritePartMoves, ThreadNames DEF Rearm, Sound
<1>3. Data'
  BY DEF Data, Rearm, Sound, TypeOK, history, bufferVars, packetVars, socketVars, ioVars
<1> QED BY <1>1, <1>2, <1>3, IoStepSafe DEF ReadLabels, EventLabels

LEMMA BeginSendSafe ==
    ASSUME Sound, NEW t \in Ios, BeginSend(t)
    PROVE  Safe'
<1>1. UNCHANGED <<flag, left, mutex, queued, needSend, exp, event, mask>> /\ (crossed => crossed')
  BY DEF BeginSend, history, bufferVars, packetVars, armVars
<1>2. \E l : Moves(t, l) /\ l \in {"idle", "clear"}
  BY ByGoto, ThreadNames DEF BeginSend, Sound
<1>3. Data'
  <2>1. inuse' \in [{In, Out} -> BOOLEAN]
    <3>1. inuse' \in {inuse, [inuse EXCEPT ![Out] = Multi]} /\ Multi \in BOOLEAN
      BY DEF BeginSend, Multi
    <3> QED BY <3>1 DEF Sound, TypeOK
  <2> QED BY <2>1 DEF Data, BeginSend, Sound, TypeOK, history, bufferVars, packetVars, socketVars, armVars
<1> QED BY <1>1, <1>2, <1>3, IoStepSafe DEF EventLabels

LEMMA ClearSafe ==
    ASSUME Sound, NEW t \in Ios, Clear(t)
    PROVE  Safe'
<1>1. t \in Threads /\ t \notin Senders /\ UNCHANGED <<mutex, queued>> /\ queued' <= queued
      /\ (crossed => crossed')
  BY ThreadNames, SizesAssumption DEF Clear, UsesFlag, history, bufferVars, Sound, TypeOK
<1>2. Acts(t, "disarm")
  BY <1>1, ByGoto, IoActs DEF Clear, Sound, packetVars, ioVars
<1>3. Fits(t, "disarm")
  BY <1>1 DEF Fits, Places, EventLabels
<1>4. crossed' \/ \A u \in Threads \ {t} : pc[u] # "rearm"
  BY DEF Clear, UsesFlag
<1>5. Data'
  BY DEF Data, Clear, UsesFlag, Sound, TypeOK, history, bufferVars, packetVars, socketVars, ioVars
<1> QED BY <1>1, <1>2, <1>3, <1>4, <1>5, SafeKept

LEMMA DisarmSafe ==
    ASSUME Sound, NEW t \in Ios, Disarm(t)
    PROVE  Safe'
<1>1. /\ UNCHANGED <<flag, left, event, mask, queued, needSend, crossed>>
      /\ pc[t] \in LoopLabels \cup {"disarm"} /\ t \in Threads
  BY ThreadNames DEF Disarm, history, bufferVars, packetVars
<1>2. CASE connected
  <2>1. Moves(t, "write") /\ UNCHANGED <<mutex, exp>>
    BY <1>1, <1>2, ByGoto DEF Disarm, Sound
  <2>2. Data'
    BY <1>2 DEF Data, Disarm, Sound, TypeOK, history, bufferVars, packetVars, socketVars
  <2> QED BY <1>1, <2>1, <2>2, IoStepSafe DEF LoopLabels
<1>3. CASE ~connected
  <2>1. mutex' \in Senders \cup {NoOne} /\ exp' \in [Ios -> BOOLEAN] => Data'
    BY <1>3 DEF Data, Disarm, Sound, TypeOK, history, bufferVars, packetVars, socketVars
  <2>2. Return(t, FALSE)
    BY <1>3 DEF Disarm
  <2> QED BY <1>1, <2>1, <2>2, ReturnSafe
<1> QED BY <1>2, <1>3

LEMMA EndSendSafe ==
    ASSUME Sound, NEW t \in Ios, EndSend(t)
    PROVE  Safe'
<1>1. t \in Threads /\ t \notin Senders /\ UNCHANGED <<mutex, queued, needSend, exp, event,
                                                       mask, crossed>> /\ queued' <= queued
  BY ThreadNames, SizesAssumption DEF EndSend, history, bufferVars, armVars, Sound, TypeOK
<1>2. PICK l : l = IF exp[t] THEN "remember" ELSE "idle"
  OBVIOUS
<1>3. Acts(t, l)
  BY <1>1, <1>2, ByGoto, IoActs DEF EndSend, Sound, packetVars
<1>6. ~crossed' => l = "remember" \/ l = "idle"
  BY <1>2
<1>4. Fits(t, l)
  BY <1>1, <1>2, <1>6 DEF Fits, Places, ArmLabels
<1>5. Data'
  BY DEF Data, EndSend, Sound, TypeOK, history, bufferVars, packetVars, socketVars, armVars
<1> QED BY <1>1, <1>3, <1>4, <1>5, SafeKept

LEMMA OutsideSafe ==
    ASSUME Sound, Arrive \/ Drain \/ Close
    PROVE  Safe'
<1>1. UNCHANGED <<pc, mutex, left, queued, mask, needSend, crossed>>
  BY DEF Arrive, Drain, Close, history, bufferVars, packetVars, ioVars, armVars
<1>2. Data'
  <2>1. CASE Arrive
    BY <2>1, SizesAssumption DEF Data, Arrive, Sound, TypeOK, history, bufferVars, packetVars, socketVars,
      armVars
  <2>2. CASE Drain
    BY <2>2 DEF Data, Drain, Sound, TypeOK, history, bufferVars, packetVars, ioVars, armVars
  <2>3. CASE Close
    BY <2>3 DEF Data, Close, Shut, Sound, TypeOK, history, bufferVars, packetVars, socketVars, ioVars
  <2> QED BY <2>1, <2>2, <2>3
<1> QED BY <1>1, <1>2, StandingSafe

-----------------------------------------------------------------------------
(* The invariant, and what follows from it *)

LEMMA InvariantAsSound ==
    /\ IInv => Sound
    /\ Safe' /\ Online' => IInv'
BY DEF IInv, Sound, Safe, Masked, Online, WireExact, FlagIsArmed

LEMMA InvariantInit ==
    ASSUME Init
    PROVE  IInv
<1>1. /\ \A t \in Threads : pc[t] = "idle" /\ ~Holds(t) /\ ~Busy(t)
      /\ DOMAIN pc = Threads
  BY ThreadNames DEF Init, Holds, Busy, LoopLabels, ReadLabels
<1>2. TypeOK
  <2>1. PcTypes
    BY <1>1, ThreadNames DEF PcTypes
  <2>2. /\ 0 \in 0 .. Room /\ 0 \in 0 .. Block /\ 0 \in 0 .. MaxPacket /\ 0 \in 0 .. MaxSends
        /\ 0 \in 0 .. MaxArrivals /\ 0 \in 0 .. 0 /\ 0 \in Nat
    BY SizesAssumption
  <2>3. Data
    BY <2>2 DEF Init, Data
  <2> QED BY <2>1, <2>3, TypesAsData
<1>3. Packets /\ Masks
  BY <1>1, ThreadNames DEF Packets, Masks, LoopLabels, ArmLabels
<1>4. Connected
  BY <1>1, ThreadNames DEF Init, Connected, Token, Window, Events, Alone, Arming, Event
<1>5. WireExact /\ FlagIsArmed
  BY <1>1, ThreadNames DEF Init, WireExact, FlagIsArmed, In, Out
<1> QED BY <1>2, <1>3, <1>4, <1>5 DEF IInv

LEMMA InvariantStep ==
    ASSUME Sound, Next
    PROVE  Safe' /\ Online'
<1>1. ASSUME NEW s \in Senders, SenderStep(s) PROVE Safe' /\ Online'
  <2>1. ASSUME NEW n \in 1 .. Block, Copy(s, n) PROVE Safe' /\ Online'
    BY <2>1, CopySafe, CopyOnline
  <2>2. CASE Lock(s) \/ CheckRoom(s) \/ Start(s)
    BY <2>2, LockSafe, CheckRoomSafe, StartSafe, LockOnline, CheckRoomOnline, StartOnline
  <2> QED BY <1>1, <2>1, <2>2 DEF SenderStep
<1>2. ASSUME NEW s \in Senders, NEW size \in 1 .. MaxPacket, Send(s, size) PROVE Safe' /\ Online'
  BY <1>2, SendSafe, SendOnline
<1>3. ASSUME NEW t \in Threads, LoopStep(t) PROVE Safe' /\ Online'
  <2>1. ASSUME NEW n \in 1 .. Block, SocketWrite(t, n) PROVE Safe' /\ Online'
    BY <2>1, SocketWriteSafe, SocketWriteOnline
  <2>2. CASE SocketClosed(t) \/ PeerGone(t)
    <3>1. ~connected'
      BY <2>2 DEF SocketClosed, PeerGone, Shut
    <3> QED BY <2>2, <3>1, SocketClosedSafe, PeerGoneSafe, LostOnline
  <2>3. CASE WriteThrows(t)
    BY <2>3, WriteThrowsSafe, WriteThrowsOnline
  <2>4. CASE AssertionFails(t)
    BY <2>4, AssertionFailsSafe, AssertionFailsOnline
  <2>5. CASE SocketFull(t) \/ ReleaseSent(t) \/ Reread(t)
    BY <2>5, SocketFullSafe, SocketFullOnline, ReleaseSentSafe, ReleaseSentOnline,
       RereadSafe, RereadOnline
  <2>6. CASE Remember(t) \/ Arm(t)
    BY <2>6, RememberSafe, RememberOnline, ArmSafe, ArmOnline
  <2> QED BY <1>3, <2>1, <2>2, <2>3, <2>4, <2>5, <2>6 DEF LoopStep
<1>4. ASSUME NEW t \in Ios, ReadStep(t) PROVE Safe' /\ Online'
  <2>1. CASE Claim(t) \/ Read(t) \/ ReadNothing(t)
    BY <2>1, ClaimSafe, ClaimOnline, ReadSafe, ReadOnline, ReadNothingSafe, ReadNothingOnline
  <2>2. CASE ReadOverflows(t) \/ ReadEnd(t) \/ ReadClosed(t)
    <3>1. ~connected'
      BY <2>2 DEF ReadOverflows, ReadEnd, ReadClosed, Shut
    <3> QED BY <2>2, <3>1, ReadOverflowsSafe, ReadEndSafe, ReadClosedSafe, LostOnline
  <2>3. CASE ReleaseRead(t) \/ Peek(t) \/ Rearm(t)
    BY <2>3, ReleaseReadSafe, ReleaseReadOnline, PeekSafe, PeekOnline, RearmSafe, RearmOnline
  <2> QED BY <1>4, <2>1, <2>2, <2>3 DEF ReadStep
<1>5. ASSUME NEW t \in Ios, EventStep(t) \/ Deliver(t) PROVE Safe' /\ Online'
  BY <1>5, DeliverSafe, DeliverOnline, BeginSendSafe, BeginSendOnline, ClearSafe, ClearOnline,
     DisarmSafe, DisarmOnline, EndSendSafe, EndSendOnline DEF EventStep
<1>6. CASE Arrive \/ Drain \/ Close
  <2>1. CASE Close
    <3>1. ~connected'
      BY <2>1 DEF Close, Shut
    <3> QED BY <2>1, <3>1, OutsideSafe, LostOnline
  <2> QED BY <1>6, <2>1, OutsideSafe, ArriveOnline, DrainOnline
<1> QED BY <1>1, <1>2, <1>3, <1>4, <1>5, <1>6 DEF Next, Step

(***************************************************************************)
(* The inductive invariant: types and packets always, the rest until two   *)
(* threads have crossed each other, and while the session is connected.    *)
(***************************************************************************)
THEOREM Invariant == SafeSpec => []IInv
<1>1. Init => IInv
  BY InvariantInit
<1>2. IInv /\ [Next]_vars => IInv'
  <2> SUFFICES ASSUME IInv, [Next]_vars PROVE IInv'
    OBVIOUS
  <2>1. CASE Next
    BY <2>1, InvariantAsSound, InvariantStep
  <2>2. CASE UNCHANGED vars
    BY <2>2 DEF vars, IInv, TypeOK, Packets, Masks, Connected, Token, Window, Events,
       Alone, Busy, Arming, Holds, Event, WireExact, FlagIsArmed
  <2> QED BY <2>1, <2>2
<1> QED BY <1>1, <1>2, PTL DEF SafeSpec

LEMMA AtMostOne ==
    ASSUME NEW S, \A x, y \in S : x = y
    PROVE  IsFiniteSet(S) /\ Cardinality(S) \in {0, 1} /\ (Cardinality(S) = 1 <=> S # {})
<1>1. CASE S = {}
  BY <1>1, FS_EmptySet
<1>2. CASE S # {}
  <2>1. PICK x \in S : S = {x}
    BY <1>2
  <2> QED BY <1>2, <2>1, FS_Singleton
<1> QED BY <1>1, <1>2

\* The sets that Holders counts have one thread at most.
LEMMA HoldersCounted ==
    ASSUME Sound, connected, ~crossed
    PROVE  /\ \A S \in {Writing, Returning, Starting} :
                Cardinality(S) \in {0, 1} /\ (Cardinality(S) = 1 <=> S # {})
           /\ needSend => Writing = {} /\ Returning = {} /\ Starting = {}
           /\ Writing = {} \/ Returning = {}
           /\ Writing = {} \/ Starting = {}
           /\ Returning = {} \/ Starting = {}
<1>1. Token
  BY OnlineParts
<1>2. /\ \A t \in Writing : t \in Threads /\ Holds(t) /\ pc[t] \notin {"return", "start"}
      /\ \A t \in Returning : t \in Threads /\ Holds(t) /\ pc[t] = "return"
      /\ \A t \in Starting : t \in Threads /\ Holds(t) /\ pc[t] = "start"
  BY ThreadNames DEF Writing, Returning, Starting, Holds, LoopLabels
<1>3. \A S \in {Writing, Returning, Starting} : \A x, y \in S : x = y
  BY <1>1, <1>2 DEF Token
<1>4. \A S \in {Writing, Returning, Starting} :
         Cardinality(S) \in {0, 1} /\ (Cardinality(S) = 1 <=> S # {})
  BY <1>3, AtMostOne
<1>5. needSend => Writing = {} /\ Returning = {} /\ Starting = {}
  BY <1>1, <1>2 DEF Token
<1>6. /\ Writing = {} \/ Returning = {}
      /\ Writing = {} \/ Starting = {}
      /\ Returning = {} \/ Starting = {}
  BY <1>1, <1>2 DEF Token
<1> QED BY <1>4, <1>5, <1>6

LEMMA TokenIsOne ==
    ASSUME Sound
    PROVE  OneWriteLoop
<1> SUFFICES ASSUME connected, ~crossed
             PROVE  Cardinality(Writing) + Cardinality(Returning) + Cardinality(Starting)
                      + (IF needSend THEN 1 ELSE 0) <= 1
  BY DEF OneWriteLoop, Holders
<1> QED BY HoldersCounted

(***************************************************************************)
(* Variables keep to their types: the buffer never holds more than its     *)
(* room, however senders and IO threads cross each other.                  *)
(***************************************************************************)
THEOREM TypeCorrect == SafeSpec => []TypeOK
<1>1. IInv => TypeOK
  BY DEF IInv
<1> QED BY <1>1, Invariant, PTL

(***************************************************************************)
(* The write loop is never run twice at a time before two threads have     *)
(* crossed each other at the descriptor, whatever the number of threads.   *)
(***************************************************************************)
THEOREM LoopIsOne == SafeSpec => []OneWriteLoop
<1>1. IInv => OneWriteLoop
  BY InvariantAsSound, TokenIsOne
<1> QED BY <1>1, Invariant, PTL

(***************************************************************************)
(* No byte is sent twice or left out, up to then.                          *)
(***************************************************************************)
THEOREM WireIsExact == SafeSpec => []WireExact
<1>1. IInv => WireExact
  BY DEF IInv
<1> QED BY <1>1, Invariant, PTL

-----------------------------------------------------------------------------
(* The token, however the threads cross each other *)

\* It has the window, or is sending a packet in parts and the last part found the token free.
Keeps(t) == Holds(t) \/ (t \in Senders /\ pc[t] = "copy" /\ flag[t])

\* A token that is taken and not thrown away is in somebody's hands, or the flag's.
Held == connected /\ ~lost /\ lastread # 0 => needSend \/ \E t \in Threads : Keeps(t)

\* A step of one thread leaves what the others have.
LEMMA OthersKeep ==
    ASSUME TypeOK, NEW t \in Threads, NEW l, pc' = [pc EXCEPT ![t] = l],
           \A u \in Ios \ {t} : exp'[u] = exp[u],
           \A u \in Senders \ {t} : flag'[u] = flag[u]
    PROVE  pc'[t] = l /\ \A u \in Threads \ {t} : Keeps(u)' <=> Keeps(u)
<1>1. pc'[t] = l /\ \A u \in Threads \ {t} : pc'[u] = pc[u]
  BY DEF TypeOK
<1> QED BY <1>1 DEF Keeps, Holds

LEMMA HeldKept ==
    ASSUME Held, connected, NEW t \in Threads, lost => lost',
           \A u \in Threads \ {t} : Keeps(u)' <=> Keeps(u),
           needSend => needSend' \/ Keeps(t)',
           Keeps(t) => Keeps(t)' \/ needSend' \/ lastread' = 0 \/ lost',
           lastread' # 0 => lastread # 0 \/ Keeps(t)'
    PROVE  Held'
<1>1. CASE \E u \in Threads \ {t} : Keeps(u)
  BY <1>1 DEF Held
<1>2. CASE \A u \in Threads \ {t} : ~Keeps(u)
  BY <1>2 DEF Held
<1> QED BY <1>1, <1>2

\* send()
LEMMA SenderHeld ==
    ASSUME TypeOK, Held, connected, NEW s \in Senders,
           SenderStep(s) \/ \E size \in 1 .. MaxPacket : Send(s, size)
    PROVE  Held'
<1>1. s \in Threads /\ s \notin Ios
  BY ThreadNames
<1>2. CASE Lock(s) \/ \E size \in 1 .. MaxPacket : Send(s, size)
  <2>1. PICK l \in {"room", "lock"} : Goto(s, l)
    BY <1>2 DEF Lock, Send
  <2>2. UNCHANGED <<exp, flag, lastread, needSend, lost>> /\ ~Keeps(s)
    BY <1>1, <1>2 DEF Lock, Send, Keeps, Holds, LoopLabels, bufferVars, packetVars, ioVars, armVars, history
  <2>3. \A u \in Threads \ {s} : Keeps(u)' <=> Keeps(u)
    BY <1>1, <2>1, <2>2, OthersKeep DEF Goto
  <2> QED BY <1>1, <2>2, <2>3, HeldKept
<1>3. CASE CheckRoom(s)
  <2>1. PICK l \in {"idle", "copy"} : Goto(s, l)
    BY <1>3 DEF CheckRoom, Leave
  <2>2. /\ UNCHANGED <<exp, lastread, needSend, lost>> /\ ~Keeps(s)
        /\ \A u \in Senders \ {s} : flag'[u] = flag[u]
    BY <1>1, <1>3 DEF CheckRoom, Keeps, Holds, LoopLabels, bufferVars, ioVars, history, TypeOK
  <2>3. \A u \in Threads \ {s} : Keeps(u)' <=> Keeps(u)
    BY <1>1, <2>1, <2>2, OthersKeep DEF Goto
  <2> QED BY <1>1, <2>2, <2>3, HeldKept
<1>4. CASE \E n \in 1 .. Block : Copy(s, n)
  <2>0. PICK l \in {"start", "copy"} : Goto(s, l)
    BY <1>4 DEF Copy
  <2>1. /\ flag' = [flag EXCEPT ![s] = lastread = 0]
        /\ lost' = (lost \/ (flag[s] /\ lastread # 0)) /\ pc[s] = "copy"
    BY <1>4 DEF Copy
  <2>2. UNCHANGED <<exp, needSend>> /\ (lost => lost')
    BY <1>4, <2>1 DEF Copy, ioVars, armVars
  <2>3. \A u \in Senders \ {s} : flag'[u] = flag[u]
    BY <2>1 DEF TypeOK
  <2>4. flag'[s] <=> lastread = 0
    BY <2>1 DEF TypeOK
  <2>5. pc'[s] = l /\ \A u \in Threads \ {s} : Keeps(u)' <=> Keeps(u)
    BY <1>1, <2>0, <2>2, <2>3, OthersKeep DEF Goto
  <2>6. Keeps(s)' <=> lastread = 0
    BY <1>1, <2>4, <2>5 DEF Keeps, Holds, LoopLabels
  <2>7. Keeps(s) => flag[s]
    BY <1>1, <2>1 DEF Keeps, Holds, LoopLabels
  <2>8. Keeps(s) => Keeps(s)' \/ lost'
    BY <2>1, <2>6, <2>7
  <2>9. lastread' # 0 => lastread # 0 \/ Keeps(s)'
    BY <2>6
  <2> QED BY <1>1, <2>2, <2>5, <2>8, <2>9, HeldKept
<1>5. CASE Start(s)
  <2>1. UNCHANGED <<exp, flag, needSend, lost>> /\ pc[s] = "start"
    BY <1>5 DEF Start, packetVars, ioVars, armVars, history
  <2>2. CASE flag[s]
    <3>1. Goto(s, "write")
      BY <1>5, <2>2 DEF Start
    <3>2. pc'[s] = "write" /\ \A u \in Threads \ {s} : Keeps(u)' <=> Keeps(u)
      BY <1>1, <2>1, <3>1, OthersKeep DEF Goto
    <3>3. Keeps(s)'
      BY <3>2 DEF Keeps, Holds, LoopLabels
    <3> QED BY <1>1, <2>1, <3>2, <3>3, HeldKept
  <2>3. CASE ~flag[s]
    <3>1. Goto(s, "idle") /\ UNCHANGED lastread
      BY <1>5, <2>3 DEF Start, Leave
    <3>2. \A u \in Threads \ {s} : Keeps(u)' <=> Keeps(u)
      BY <1>1, <2>1, <3>1, OthersKeep DEF Goto
    <3>3. ~Keeps(s)
      BY <1>1, <2>1, <2>3 DEF Keeps, Holds, LoopLabels
    <3> QED BY <1>1, <2>1, <3>1, <3>2, <3>3, HeldKept
  <2> QED BY <2>2, <2>3
<1> QED BY <1>2, <1>3, <1>4, <1>5 DEF SenderStep

\* A step of the write loop that goes on in the loop, or hands the token to the flag
LEMMA LoopHeld ==
    ASSUME TypeOK, Held, connected, NEW t \in Threads, LoopStep(t)
    PROVE  Held'
<1>1. t \in Senders <=> t \notin Ios
  BY ThreadNames
<1>2. CASE \E n \in 1 .. Block : SocketWrite(t, n)
  <2>1. Goto(t, "sent") /\ UNCHANGED <<exp, flag, needSend, lost, lastread>>
    BY <1>2 DEF SocketWrite, bufferVars, packetVars, ioVars, armVars, history
  <2>2. pc'[t] = "sent" /\ \A u \in Threads \ {t} : Keeps(u)' <=> Keeps(u)
    BY <2>1, OthersKeep DEF Goto
  <2>3. Keeps(t)'
    BY <2>2 DEF Keeps, Holds, LoopLabels
  <2> QED BY <2>1, <2>2, <2>3, HeldKept
<1>3. CASE SocketFull(t)
  <2>1. Return(t, TRUE) /\ UNCHANGED <<flag, needSend, lost, lastread>>
    BY <1>3 DEF SocketFull, bufferVars, packetVars, armVars, history
  <2>2. PICK l \in {"return", "remember"} :
           Goto(t, l) /\ (t \in Ios <=> l = "return")
    BY <2>1 DEF Return
  <2>3. /\ \A u \in Ios \ {t} : exp'[u] = exp[u]
        /\ t \in Ios => exp'[t]
    BY <2>1 DEF Return, TypeOK
  <2>4. pc'[t] = l /\ \A u \in Threads \ {t} : Keeps(u)' <=> Keeps(u)
    BY <2>1, <2>2, <2>3, OthersKeep DEF Goto
  <2>5. Keeps(t)'
    BY <2>2, <2>3, <2>4 DEF Keeps, Holds
  <2> QED BY <2>1, <2>4, <2>5, HeldKept
<1>4. CASE SocketClosed(t) \/ PeerGone(t)
  <2>1. ~connected'
    BY <1>4 DEF SocketClosed, PeerGone, Shut
  <2> QED BY <2>1 DEF Held
<1>5. CASE WriteThrows(t)
  <2>1. UNCHANGED <<connected, needSend, lastread, exp, flag>>
    BY <1>5 DEF WriteThrows, bufferVars, packetVars, ioVars, armVars
  <2>2. CASE t \in Ios
    BY <1>5, <2>1, <2>2 DEF WriteThrows, Held, Keeps, Holds
  <2>3. CASE t \notin Ios
    BY <1>5, <2>1, <2>3 DEF WriteThrows, Held
  <2> QED BY <2>2, <2>3
<1>6. CASE ReleaseSent(t)
  <2>1. Goto(t, "reread") /\ UNCHANGED <<exp, flag, needSend, lost, lastread>>
    BY <1>6 DEF ReleaseSent, packetVars, armVars, history
  <2>2. pc'[t] = "reread" /\ \A u \in Threads \ {t} : Keeps(u)' <=> Keeps(u)
    BY <2>1, OthersKeep DEF Goto
  <2>3. Keeps(t)'
    BY <2>2 DEF Keeps, Holds, LoopLabels
  <2> QED BY <2>1, <2>2, <2>3, HeldKept
<1>7. CASE AssertionFails(t)
  BY <1>7 DEF AssertionFails, Held, Keeps, Holds, bufferVars, packetVars, ioVars, armVars,
     history
<1>8. CASE Reread(t)
  <2>1. CASE lastread' = 0
    BY <2>1 DEF Held
  <2>2. CASE lastread' # 0
    <3>1. Goto(t, "write") /\ UNCHANGED <<exp, flag, needSend, lost>>
      BY <1>8, <2>2 DEF Reread, packetVars, armVars, history
    <3>2. pc'[t] = "write" /\ \A u \in Threads \ {t} : Keeps(u)' <=> Keeps(u)
      BY <3>1, OthersKeep DEF Goto
    <3>3. Keeps(t)'
      BY <3>2 DEF Keeps, Holds, LoopLabels
    <3> QED BY <3>1, <3>2, <3>3, HeldKept
  <2> QED BY <2>1, <2>2
<1>9. CASE Remember(t)
  BY <1>9 DEF Remember, Held
<1>10. CASE Arm(t)
  <2>1. Goto(t, "idle") /\ UNCHANGED <<exp, flag, needSend, lost, lastread>> /\ pc[t] = "arm"
    BY <1>10 DEF Arm, Leave, bufferVars, packetVars, ioVars, history
  <2>2. \A u \in Threads \ {t} : Keeps(u)' <=> Keeps(u)
    BY <2>1, OthersKeep DEF Goto
  <2>3. ~Keeps(t)
    BY <2>1 DEF Keeps, Holds, LoopLabels
  <2> QED BY <2>1, <2>2, <2>3, HeldKept
<1> QED BY <1>2, <1>3, <1>4, <1>5, <1>6, <1>7, <1>8, <1>9, <1>10 DEF LoopStep

\* An event: until the write part clears the flag its thread has no token.
LEMMA EventHeld ==
    ASSUME TypeOK, Held, connected, NEW t \in Ios, Deliver(t) \/ ReadStep(t) \/ EventStep(t)
    PROVE  Held'
<1>1. t \in Threads /\ t \notin Senders
  BY ThreadNames
<1>2. CASE Deliver(t) \/ BeginSend(t) \/ Claim(t) \/ Read(t) \/ ReadNothing(t)
           \/ ReleaseRead(t) \/ Peek(t) \/ Rearm(t)
  <2>1. PICK l : Goto(t, l)
    BY <1>2 DEF Deliver, BeginSend, Claim, Read, ReadNothing, ReleaseRead, Peek, Rearm, WritePart
  <2>2. UNCHANGED <<flag, needSend, lost, lastread>>
    BY <1>2 DEF Deliver, BeginSend, Claim, Read, ReadNothing, ReleaseRead, Peek, Rearm, WritePart,
       bufferVars, packetVars, armVars, history
  <2>3. \A u \in Ios \ {t} : exp'[u] = exp[u]
    BY <1>2 DEF Deliver, BeginSend, Claim, Read, ReadNothing, ReleaseRead, Peek, Rearm, WritePart,
       ioVars, TypeOK
  <2>4. \A u \in Threads \ {t} : Keeps(u)' <=> Keeps(u)
    BY <1>1, <2>1, <2>2, <2>3, OthersKeep DEF Goto
  <2>5. ~Keeps(t)
    BY <1>1, <1>2 DEF Deliver, BeginSend, Claim, Read, ReadNothing, ReleaseRead, Peek, Rearm, Keeps,
       Holds, LoopLabels
  <2> QED BY <1>1, <2>2, <2>4, <2>5, HeldKept
<1>3. CASE ReadOverflows(t) \/ ReadEnd(t) \/ ReadClosed(t)
  <2>1. ~connected'
    BY <1>3 DEF ReadOverflows, ReadEnd, ReadClosed, Shut
  <2> QED BY <2>1 DEF Held
<1>4. CASE Clear(t) \/ Disarm(t)
  <2>1. PICK l \in {"disarm", "write"} : Goto(t, l)
    BY <1>4 DEF Clear, Disarm
  <2>2. UNCHANGED <<flag, lost, lastread, exp>>
    BY <1>4 DEF Clear, Disarm, bufferVars, packetVars, ioVars, history
  <2>3. pc'[t] = l /\ \A u \in Threads \ {t} : Keeps(u)' <=> Keeps(u)
    BY <1>1, <2>1, <2>2, OthersKeep DEF Goto
  <2>4. Keeps(t)'
    BY <2>3 DEF Keeps, Holds, LoopLabels
  <2> QED BY <1>1, <2>2, <2>3, <2>4, HeldKept
<1>5. CASE EndSend(t)
  <2>1. PICK l \in {"remember", "idle"} : Goto(t, l) /\ (l = "remember" <=> exp[t])
    BY <1>5 DEF EndSend
  <2>2. UNCHANGED <<flag, needSend, lost, lastread, exp>> /\ pc[t] = "return"
    BY <1>5 DEF EndSend, bufferVars, packetVars, armVars, history
  <2>3. pc'[t] = l /\ \A u \in Threads \ {t} : Keeps(u)' <=> Keeps(u)
    BY <1>1, <2>1, <2>2, OthersKeep DEF Goto
  <2>4. Keeps(t) => Keeps(t)'
    BY <1>1, <2>1, <2>2, <2>3 DEF Keeps, Holds, LoopLabels
  <2> QED BY <1>1, <2>2, <2>3, <2>4, HeldKept
<1> QED BY <1>2, <1>3, <1>4, <1>5 DEF ReadStep, EventStep

LEMMA HeldStep ==
    ASSUME TypeOK, Held, [Next]_vars
    PROVE  Held'
<1>1. CASE ~connected
  <2>1. ~connected'
    BY <1>1 DEF Next, Step, SenderStep, LoopStep, ReadStep, EventStep, vars, Send, Lock, CheckRoom,
       Copy, Start, SocketWrite, SocketFull, SocketClosed, PeerGone, WriteThrows, ReleaseSent,
       AssertionFails, Reread, Remember, Arm, Deliver, Claim, Read, ReadOverflows, ReadNothing,
       ReadEnd, ReadClosed, ReleaseRead, Peek, Rearm, BeginSend, Clear, Disarm, EndSend, Arrive,
       Drain, Close, Shut
  <2> QED BY <2>1 DEF Held
<1>2. CASE connected /\ UNCHANGED vars
  BY <1>2 DEF vars, Held, Keeps, Holds
<1>3. CASE connected /\ Next
  <2>1. CASE Close
    BY <2>1 DEF Close, Shut, Held
  <2>2. CASE Arrive \/ Drain
    BY <2>2 DEF Arrive, Drain, Held, Keeps, Holds, bufferVars, packetVars, ioVars, armVars,
       history
  <2> QED BY <1>3, <2>1, <2>2, SenderHeld, LoopHeld, EventHeld DEF Next, Step
<1> QED BY <1>1, <1>2, <1>3

LEMMA TokenIsSomewhere ==
    ASSUME TypeOK, Held
    PROVE  TokenIsHeld
<1> SUFFICES ASSUME connected, ~lost, lastread # 0,
                    ~\E s \in Senders : pc[s] = "copy" /\ flag[s]
             PROVE  Holders > 0
  BY DEF TokenIsHeld
<1>1. needSend \/ \E t \in Threads : Holds(t)
  BY DEF Held, Keeps
<1>2. needSend \/ Writing # {} \/ Returning # {} \/ Starting # {}
  BY <1>1, ThreadNames DEF Writing, Returning, Starting, Holds
<1>3. ASSUME NEW S \in {Writing, Returning, Starting}
      PROVE  Cardinality(S) \in Nat /\ (S # {} => Cardinality(S) > 0)
  <2>1. IsFiniteSet(Threads)
    BY ThreadsAssumption, FS_Union DEF Threads
  <2>2. S \subseteq Threads
    BY ThreadNames DEF Writing, Returning, Starting
  <2>3. IsFiniteSet(S)
    BY <2>1, <2>2, FS_Subset
  <2> QED BY <2>3, FS_CardinalityType, FS_EmptySet
<1>4. Cardinality(Writing) + Cardinality(Returning) + Cardinality(Starting)
        + (IF needSend THEN 1 ELSE 0) > 0
  <2>1. /\ Cardinality(Writing) \in Nat /\ (Writing # {} => Cardinality(Writing) > 0)
        /\ Cardinality(Returning) \in Nat /\ (Returning # {} => Cardinality(Returning) > 0)
        /\ Cardinality(Starting) \in Nat /\ (Starting # {} => Cardinality(Starting) > 0)
    BY <1>3
  <2> QED BY <1>2, <2>1
<1> QED BY <1>4 DEF Holders

(***************************************************************************)
(* The token of the write loop is never left with nobody, however senders  *)
(* and IO threads cross each other, unless send() or an exception in its   *)
(* write has thrown it away: TypeOK and Held are kept by every step.       *)
(***************************************************************************)
THEOREM TokenIsKept == SafeSpec => []TokenIsHeld
<1>1. Init => Held
  BY DEF Init, Held
<1>2. TypeOK /\ Held /\ [Next]_vars => Held'
  BY HeldStep
<1>3. TypeOK /\ Held => TokenIsHeld
  BY TokenIsSomewhere
<1> QED BY <1>1, <1>2, <1>3, TypeCorrect, PTL DEF SafeSpec
==============================================================================
