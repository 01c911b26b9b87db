------------------------ MODULE SessionMessageProofs ------------------------
(***************************************************************************)
(* The ownership of a session's messages, for any number of workers and    *)
(* closers and any stream.                                                 *)
(***************************************************************************)
EXTENDS SessionMessage, FiniteSetTheorems, TLAPS

\* What the IO thread has read fits; what is posted or handled is complete.
Buffer ==
    /\ Readable <= Room
    /\ pc[Io] \in {"recv", "commit"} =>
          received + incoming <= Len(Stream) /\ Readable + incoming <= Room
    /\ (good /\ posted > 0) => Readable >= msize
    /\ \A t \in Threads :
          /\ (good /\ pc[t] \in {"post", "check"}) => Readable >= msize
          /\ pc[t] \in {"handle", "consume"} => Readable >= msize

\* One owner, a thread or a queued task.
OneOwner ==
    /\ posted \in {0, 1}
    /\ \A s, t \in Threads : pc[s] \in OwnerLabels /\ pc[t] \in OwnerLabels => s = t
    /\ posted = 1 => \A t \in Threads : pc[t] \notin OwnerLabels

\* Without the token there is no owner, and there was no release.
Token ==
    lastread = 0 => posted = 0 /\ released = 0 /\ \A t \in Threads : pc[t] \notin OwnerLabels

\* Who releases found the message bad, which a close made it.
Closing ==
    /\ ~good => sstate = "none"
    /\ \A t \in Threads : /\ pc[t] = "gobad" => sstate = "none"
                          /\ pc[t] = "release" => ~good
    /\ released \in {0, 1}
    /\ released = 1 => ~good /\ posted = 0 /\ \A t \in Threads : pc[t] \notin OwnerLabels

IInv == TypeOK /\ Buffer /\ OneOwner /\ Token /\ Closing

(***************************************************************************)
(* A connected session has no owner and an empty buffer.                   *)
(***************************************************************************)
LEMMA InvInit == Init => IInv
<1> SUFFICES ASSUME Init PROVE IInv
  OBVIOUS
<1>1. Len(Stream) \in Nat
  BY StreamAssumption
<1>2. TypeOK
  <2>1. /\ pc \in [Threads -> {"idle"}]
        /\ after \in [Threads -> {"idle", "grant", "done"}]
    BY DEF Init
  <2>2. received \in 0 .. Len(Stream) /\ consumed \in 0 .. received /\ incoming \in 0 .. Len(Stream)
    BY <1>1 DEF Init
  <2> QED BY <2>1, <2>2 DEF Init, TypeOK
<1>3. Buffer /\ OneOwner /\ Token /\ Closing
  BY <1>1, RoomAssumption DEF Init, Buffer, OneOwner, Token, Closing, Readable, OwnerLabels, Threads
<1> QED BY <1>2, <1>3 DEF IInv

(***************************************************************************)
(* The IO thread takes the token only when it is free.                     *)
(***************************************************************************)
LEMMA IoKeeps ==
    ASSUME IInv, (\E n \in 1 .. Room : SocketRead(n)) \/ PeerClose \/ IoStep
    PROVE  IInv'
<1> USE StreamAssumption, RoomAssumption
    DEF IInv, TypeOK, Buffer, Readable, Goto, bufferVars, threadVars, historyVars
<1>0. Io \in Threads /\ Len(Stream) \in Nat
  BY DEF Threads
<1>1. ASSUME NEW n \in 1 .. Room, SocketRead(n) PROVE IInv'
  <2>1. TypeOK' /\ Buffer'
    BY <1>0, <1>1 DEF SocketRead
  <2>2. OneOwner' /\ Token' /\ Closing'
    BY <1>0, <1>1 DEF SocketRead, OneOwner, Token, Closing, OwnerLabels
  <2> QED BY <2>1, <2>2
<1>2. CASE PeerClose
  <2>1. TypeOK' /\ Buffer'
    BY <1>0, <1>2 DEF PeerClose
  <2>2. OneOwner' /\ Token' /\ Closing'
    BY <1>0, <1>2 DEF PeerClose, OneOwner, Token, Closing, OwnerLabels
  <2> QED BY <2>1, <2>2
<1>3. CASE CheckConnected \/ GrantNext
  <2>1. TypeOK' /\ Buffer'
    <3>1. TypeOK'
      BY <1>0, <1>3 DEF CheckConnected, GrantNext
    <3>2. Buffer'
      BY <1>0, <1>3 DEF CheckConnected, GrantNext
    <3> QED BY <3>1, <3>2
  <2>2. OneOwner' /\ Token' /\ Closing'
    BY <1>0, <1>3 DEF CheckConnected, GrantNext, OneOwner, Token, Closing, OwnerLabels
  <2> QED BY <2>1, <2>2
<1>4. CASE CommitRecv
  <2>1. TypeOK' /\ Buffer'
    BY <1>0, <1>4 DEF CommitRecv
  <2>2. OneOwner' /\ Token' /\ Closing'
    BY <1>0, <1>4 DEF CommitRecv, OneOwner, Token, Closing, OwnerLabels
  <2> QED BY <2>1, <2>2
<1> QED BY <1>1, <1>2, <1>3, <1>4 DEF IoStep

(***************************************************************************)
(* A worker that takes the task becomes the owner the task was.            *)
(***************************************************************************)
LEMMA WorkerKeeps ==
    ASSUME IInv, NEW w \in Workers, WorkerStep(w)
    PROVE  IInv'
<1> USE StreamAssumption, RoomAssumption
    DEF IInv, TypeOK, Buffer, Readable, Goto, bufferVars, threadVars, historyVars
<1>0. w \in Threads /\ w # Io /\ Len(Stream) \in Nat /\ Io \in Threads
  BY ThreadsAssumption DEF Threads
<1>1. CASE TakeTask(w)
  <2>1. TypeOK' /\ Buffer'
    BY <1>0, <1>1 DEF TakeTask
  <2>2. OneOwner' /\ Token' /\ Closing'
    BY <1>0, <1>1 DEF TakeTask, OneOwner, Token, Closing, OwnerLabels
  <2> QED BY <2>1, <2>2
<1>2. CASE IsGood(w)
  <2>1. TypeOK' /\ Buffer'
    BY <1>0, <1>2 DEF IsGood
  <2>2. OneOwner' /\ Token' /\ Closing'
    BY <1>0, <1>2 DEF IsGood, OneOwner, Token, Closing, OwnerLabels
  <2> QED BY <2>1, <2>2
<1>3. CASE HandleOk(w) \/ HandleFails(w)
  <2>1. TypeOK' /\ Buffer'
    <3>1. TypeOK'
      <4>1. CASE HandleOk(w)
        BY <1>0, <4>1 DEF HandleOk
      <4>2. CASE HandleFails(w)
        BY <1>0, <4>2 DEF HandleFails
      <4> QED BY <1>3, <4>1, <4>2
    <3>2. Buffer'
      BY <1>0, <1>3 DEF HandleOk, HandleFails
    <3> QED BY <3>1, <3>2
  <2>2. OneOwner' /\ Token' /\ Closing'
    BY <1>0, <1>3 DEF HandleOk, HandleFails, OneOwner, Token, Closing, OwnerLabels
  <2> QED BY <2>1, <2>2
<1>4. CASE Consume(w)
  <2>0. msize \in Nat /\ msize <= Readable
    BY <1>0, <1>4 DEF Consume, MessageLen, BadLen
  <2>1. TypeOK' /\ Buffer'
    BY <1>0, <1>4, <2>0 DEF Consume
  <2>2. OneOwner' /\ Token' /\ Closing'
    BY <1>0, <1>4 DEF Consume, OneOwner, Token, Closing, OwnerLabels
  <2> QED BY <2>1, <2>2
<1>5. CASE Release(w)
  <2>1. TypeOK' /\ Buffer'
    BY <1>0, <1>5 DEF Release
  <2>2. OneOwner' /\ Token' /\ Closing'
    BY <1>0, <1>5 DEF Release, OneOwner, Token, Closing, OwnerLabels
  <2> QED BY <2>1, <2>2
<1> QED BY <1>1, <1>2, <1>3, <1>4, <1>5 DEF WorkerStep

(***************************************************************************)
(* Confirming keeps or gives back the token, posting hands it on, closing  *)
(* takes it only when it is free.                                          *)
(***************************************************************************)
LEMMA SharedKeeps ==
    ASSUME IInv, NEW t \in Threads, SharedStep(t)
    PROVE  IInv'
<1> USE StreamAssumption, RoomAssumption
    DEF IInv, TypeOK, Buffer, Readable, Goto, bufferVars, threadVars, historyVars, Confirming
<1>0. Len(Stream) \in Nat /\ Io \in Threads
  BY DEF Threads
<1>1. ASSUME NEW exp, ConfirmPending(t, exp) PROVE IInv'
  <2>1. TypeOK' /\ Buffer'
    BY <1>0, <1>1 DEF ConfirmPending
  <2>2. OneOwner' /\ Token' /\ Closing'
    BY <1>0, <1>1 DEF ConfirmPending, OneOwner, Token, Closing, OwnerLabels
  <2> QED BY <2>1, <2>2
<1>2. CASE ConfirmBad(t)
  <2>1. TypeOK' /\ Buffer'
    BY <1>0, <1>2 DEF ConfirmBad
  <2>2. OneOwner' /\ Token' /\ Closing'
    BY <1>0, <1>2 DEF ConfirmBad, OneOwner, Token, Closing, OwnerLabels
  <2> QED BY <2>1, <2>2
<1>3. CASE ConfirmLength(t)
  <2>1. TypeOK'
    <3>1. CASE Stream[consumed + 1] = "len"
      BY <1>0, <1>3, <3>1 DEF ConfirmLength
    <3>2. CASE Stream[consumed + 1] # "len"
      BY <1>0, <1>3, <3>2 DEF ConfirmLength
    <3> QED BY <3>1, <3>2
  <2>2. pc[t] \in OwnerLabels /\ pc[t] # "release"
    BY <1>3 DEF ConfirmLength, OwnerLabels
  <2>3. Buffer'
    BY <1>0, <1>3, <2>2 DEF ConfirmLength, OneOwner, OwnerLabels
  <2>4. OneOwner' /\ Token' /\ Closing'
    BY <1>0, <1>3 DEF ConfirmLength, OneOwner, Token, Closing, OwnerLabels
  <2> QED BY <2>1, <2>3, <2>4
<1>4. CASE ConfirmOk(t)
  <2>0. msize \in Nat \ {0}
    BY <1>4 DEF ConfirmOk, MessageLen, BadLen
  <2>1. TypeOK' /\ Buffer'
    BY <1>0, <1>4 DEF ConfirmOk
  <2>2. OneOwner' /\ Token' /\ Closing'
    BY <1>0, <1>4, <2>0 DEF ConfirmOk, OneOwner, Token, Closing, OwnerLabels
  <2> QED BY <2>1, <2>2
<1>5. CASE Post(t)
  <2>1. TypeOK' /\ Buffer'
    BY <1>0, <1>5 DEF Post
  <2>2. OneOwner' /\ Token' /\ Closing'
    BY <1>0, <1>5 DEF Post, OneOwner, Token, Closing, OwnerLabels
  <2> QED BY <2>1, <2>2
<1>6. CASE CloseBegin(t)
  <2>1. TypeOK' /\ Buffer'
    BY <1>0, <1>6 DEF CloseBegin
  <2>2. OneOwner' /\ Token' /\ Closing'
    BY <1>0, <1>6 DEF CloseBegin, OneOwner, Token, Closing, OwnerLabels
  <2> QED BY <2>1, <2>2
<1>7. CASE CloseSocket(t)
  <2>1. TypeOK' /\ Buffer'
    BY <1>0, <1>7 DEF CloseSocket
  <2>2. OneOwner' /\ Token' /\ Closing'
    BY <1>0, <1>7 DEF CloseSocket, OneOwner, Token, Closing, OwnerLabels
  <2> QED BY <2>1, <2>2
<1>8. CASE GoBad(t)
  <2>1. TypeOK' /\ Buffer'
    <3>1. TypeOK'
      <4>0. lastread' \in Nat
        BY <1>8 DEF GoBad
      <4>1. good' \in BOOLEAN
        BY <1>8, Zenon DEF GoBad
      <4>2. pc' \in [Threads -> {"idle", "recv", "commit", "grant", "request", "next", "post",
                                "check", "handle", "consume", "release",
                                "close", "closing", "gobad", "done"}]
        BY <1>8 DEF GoBad
      <4> QED BY <1>8, <4>0, <4>1, <4>2 DEF GoBad
    <3>2. Buffer'
      BY <1>0, <1>8 DEF GoBad
    <3> QED BY <3>1, <3>2
  <2>2. OneOwner' /\ Token' /\ Closing'
    BY <1>0, <1>8 DEF GoBad, OneOwner, Token, Closing, OwnerLabels
  <2> QED BY <2>1, <2>2
<1> QED BY <1>1, <1>2, <1>3, <1>4, <1>5, <1>6, <1>7, <1>8 DEF SharedStep, Confirm

(***************************************************************************)
(* The token, the owner and the close agree in every behaviour.            *)
(***************************************************************************)
LEMMA InvAlways == SafeSpec => []IInv
<1>1. IInv /\ [Next]_vars => IInv'
  <2> SUFFICES ASSUME IInv, [Next]_vars PROVE IInv'
    OBVIOUS
  <2>1. ASSUME NEW c \in Closers, CallClose(c) PROVE IInv'
    BY <2>1 DEF CallClose, IInv, TypeOK, Buffer, Readable, Goto, bufferVars, threadVars,
                historyVars, OneOwner, Token, Closing, OwnerLabels, Threads
  <2>2. CASE UNCHANGED vars
    BY <2>2 DEF vars, IInv, TypeOK, Buffer, Readable, OneOwner, Token, Closing
  <2> QED BY <2>1, <2>2, IoKeeps, WorkerKeeps, SharedKeeps DEF Next
<1> QED BY InvInit, <1>1, PTL DEF SafeSpec

(***************************************************************************)
(* The session's variables keep their types; in particular commit_read     *)
(* never releases more than was received.                                  *)
(***************************************************************************)
THEOREM TypeCorrect == SafeSpec => []TypeOK
<1>1. IInv => TypeOK
  BY DEF IInv
<1> QED BY InvAlways, <1>1, PTL

(***************************************************************************)
(* A session's messages have one owner, with any number of threads.        *)
(***************************************************************************)
THEOREM OwnershipExclusive == SafeSpec => []SingleOwner
<1>1. IInv => SingleOwner
  <2> SUFFICES ASSUME IInv PROVE posted + Cardinality(Owners) <= 1
    BY DEF SingleOwner
  <2>1. CASE Owners = {}
    BY <2>1, FS_EmptySet DEF IInv, OneOwner
  <2>2. CASE Owners # {}
    <3>1. PICK t \in Owners : TRUE
      BY <2>2
    <3>2. Owners = {t} /\ posted = 0
      BY <3>1 DEF IInv, OneOwner, Owners
    <3> QED BY <3>2, FS_Singleton
  <2> QED BY <2>1, <2>2
<1> QED BY InvAlways, <1>1, PTL

(***************************************************************************)
(* A session is given back once, and is then at rest.                      *)
(***************************************************************************)
THEOREM ReleaseFinal == SafeSpec => []ReleasedIsOver
<1>1. IInv => ReleasedIsOver
  BY DEF IInv, TypeOK, Closing, ReleasedIsOver, Owners
<1> QED BY InvAlways, <1>1, PTL

-----------------------------------------------------------------------------
(* Where the token is *)

Labels == {"idle", "recv", "commit", "grant", "request", "next", "post", "check", "handle",
           "consume", "release", "close", "closing", "gobad", "done"}

\* A token that was taken has an owner, or went with the session.
TokenKept ==
    (~failed /\ lastread # 0) =>
        posted = 1 \/ released = 1 \/ \E t \in Threads : pc[t] \in OwnerLabels

(***************************************************************************)
(* No action drops the token, but one that fails the message.              *)
(***************************************************************************)
LEMMA TokenKeptStep == IInv /\ TokenKept /\ [Next]_vars => TokenKept'
<1> SUFFICES ASSUME IInv, TokenKept, [Next]_vars PROVE TokenKept'
  OBVIOUS
<1> USE DEF TokenKept, Goto, bufferVars, threadVars, historyVars, OwnerLabels
<1>0. /\ pc \in [Threads -> Labels] /\ after \in [Threads -> {"idle", "grant", "done"}]
      /\ Io \in Threads /\ Workers \subseteq Threads
      /\ posted \in {0, 1} /\ released \in {0, 1}
  BY DEF IInv, TypeOK, OneOwner, Closing, Threads, Labels
<1>1. ASSUME NEW n \in 1 .. Room, SocketRead(n) PROVE TokenKept'
  BY <1>0, <1>1 DEF SocketRead
<1>2. CASE PeerClose
  BY <1>0, <1>2 DEF PeerClose
<1>3. CASE CheckConnected \/ GrantNext
  BY <1>0, <1>3 DEF CheckConnected, GrantNext
<1>4. CASE CommitRecv
  BY <1>0, <1>4 DEF CommitRecv
<1>5. ASSUME NEW w \in Workers, WorkerStep(w) PROVE TokenKept'
  <2>1. w \in Threads
    BY DEF Threads
  <2>2. CASE TakeTask(w)
    BY <1>0, <2>1, <2>2 DEF TakeTask
  <2>3. CASE IsGood(w) \/ HandleOk(w) \/ Consume(w)
    BY <1>0, <2>1, <2>3 DEF IsGood, HandleOk, Consume
  <2>4. CASE HandleFails(w)
    BY <2>4 DEF HandleFails
  <2>5. CASE Release(w)
    BY <1>0, <2>1, <2>5 DEF Release, IInv, Closing
  <2> QED BY <1>5, <2>2, <2>3, <2>4, <2>5 DEF WorkerStep
<1>6. ASSUME NEW c \in Closers, CallClose(c) PROVE TokenKept'
  BY <1>0, <1>6 DEF CallClose, Threads
<1>7. ASSUME NEW t \in Threads, SharedStep(t) PROVE TokenKept'
  <2>1. ASSUME NEW exp, ConfirmPending(t, exp) PROVE TokenKept'
    BY <2>1 DEF ConfirmPending
  <2>2. CASE ConfirmBad(t) \/ ConfirmOk(t)
    BY <1>0, <2>2 DEF ConfirmBad, ConfirmOk, Confirming
  <2>3. CASE ConfirmLength(t)
    BY <1>0, <2>3 DEF ConfirmLength, Confirming
  <2>4. CASE Post(t)
    BY <1>0, <2>4 DEF Post, IInv, OneOwner
  <2>5. CASE CloseBegin(t) \/ CloseSocket(t)
    BY <1>0, <2>5 DEF CloseBegin, CloseSocket
  <2>6. CASE GoBad(t)
    BY <1>0, <2>6 DEF GoBad
  <2> QED BY <1>7, <2>1, <2>2, <2>3, <2>4, <2>5, <2>6 DEF SharedStep, Confirm
<1>8. CASE UNCHANGED vars
  BY <1>8 DEF vars
<1> QED BY <1>1, <1>2, <1>3, <1>4, <1>5, <1>6, <1>7, <1>8 DEF Next, IoStep

(***************************************************************************)
(* m_lastread tells whether the session is owned, with any number of       *)
(* threads and until a message fails.                                      *)
(***************************************************************************)
THEOREM TokenIsExact == SafeSpec => []TokenExact
<1>1. Init => TokenKept
  BY DEF Init, TokenKept
<1>2. IInv /\ TokenKept => TokenExact
  BY DEF IInv, TypeOK, OneOwner, Token, Closing, TokenKept, TokenExact, Owners
<1> QED BY <1>1, <1>2, InvAlways, TokenKeptStep, PTL DEF SafeSpec

-----------------------------------------------------------------------------
(* What a handler sees *)

\* The length in m_size is the stream's, and the position counts the messages.
Whole ==
    /\ msize # 0 =>
          IF Stream[consumed + 1] = "len"
          THEN msize = MessageLen
          ELSE lastread # 0 /\ posted = 0 /\ \A t \in Threads : pc[t] \notin OwnerLabels
    /\ (good /\ posted = 1) => msize # 0
    /\ \A t \in Threads : /\ (good /\ pc[t] \in {"post", "check"}) => msize # 0
                          /\ pc[t] \in {"handle", "consume"} => msize # 0
                          /\ pc[t] = "consume" => handled * MessageLen = consumed + MessageLen
    /\ (\A t \in Threads : pc[t] # "consume") => handled * MessageLen = consumed

(***************************************************************************)
(* The length is read once for each message, by the one owner.             *)
(***************************************************************************)
LEMMA WholeStep == IInv /\ Whole /\ [Next]_vars => Whole'
<1> SUFFICES ASSUME IInv, Whole, [Next]_vars PROVE Whole'
  OBVIOUS
<1> USE DEF Whole, Goto, bufferVars, threadVars, historyVars, OwnerLabels
<1>0. /\ pc \in [Threads -> Labels] /\ after \in [Threads -> {"idle", "grant", "done"}]
      /\ Io \in Threads /\ Workers \subseteq Threads
      /\ posted \in {0, 1} /\ released \in {0, 1}
      /\ consumed \in Nat /\ received \in Nat /\ handled \in Nat /\ lastread \in Nat
      /\ msize \in Nat /\ good \in BOOLEAN
      /\ \A s, t \in Threads : pc[s] \in OwnerLabels /\ pc[t] \in OwnerLabels => s = t
      /\ posted = 1 => \A t \in Threads : pc[t] \notin OwnerLabels
      /\ lastread = 0 => posted = 0 /\ \A t \in Threads : pc[t] \notin OwnerLabels
  BY StreamAssumption, RoomAssumption
     DEF IInv, TypeOK, OneOwner, Token, Closing, Threads, MessageLen, BadLen, Labels
<1>1. ASSUME NEW n \in 1 .. Room, SocketRead(n) PROVE Whole'
  BY <1>0, <1>1 DEF SocketRead
<1>2. CASE PeerClose
  BY <1>0, <1>2 DEF PeerClose
<1>3. CASE CheckConnected \/ GrantNext
  BY <1>0, <1>3 DEF CheckConnected, GrantNext
<1>4. CASE CommitRecv
  BY <1>0, <1>4 DEF CommitRecv
<1>5. ASSUME NEW w \in Workers, WorkerStep(w) PROVE Whole'
  <2>2. CASE TakeTask(w) \/ IsGood(w)
    BY <1>0, <2>2 DEF TakeTask, IsGood
  <2>3. CASE HandleOk(w)
    <3>1. (handled + 1) * MessageLen = handled * MessageLen + MessageLen
      BY <1>0 DEF MessageLen
    <3>2. handled * MessageLen = consumed
      BY <1>0, <2>3 DEF HandleOk
    <3> QED BY <1>0, <2>3, <3>1, <3>2 DEF HandleOk
  <2>4. CASE HandleFails(w) \/ Release(w)
    BY <1>0, <2>4 DEF HandleFails, Release
  <2>5. CASE Consume(w)
    <3>1. msize = MessageLen /\ handled * MessageLen = consumed + MessageLen
      BY <1>0, <2>5 DEF Consume
    <3> QED BY <1>0, <2>5, <3>1 DEF Consume
  <2> QED BY <1>5, <2>2, <2>3, <2>4, <2>5 DEF WorkerStep
<1>6. ASSUME NEW c \in Closers, CallClose(c) PROVE Whole'
  BY <1>0, <1>6 DEF CallClose, Threads
<1>7. ASSUME NEW t \in Threads, SharedStep(t) PROVE Whole'
  <2>1. ASSUME NEW exp, ConfirmPending(t, exp) PROVE Whole'
    BY <1>0, <2>1 DEF ConfirmPending, Confirming
  <2>2. CASE ConfirmBad(t) \/ ConfirmOk(t)
    BY <1>0, <2>2 DEF ConfirmBad, ConfirmOk, Confirming
  <2>3. CASE ConfirmLength(t)
    <3>1. lastread' # 0 /\ posted = 0 /\ \A s \in Threads : s # t => pc[s] \notin OwnerLabels
      BY <1>0, <2>3 DEF ConfirmLength, Confirming, Readable
    <3> QED BY <1>0, <2>3, <3>1 DEF ConfirmLength, Confirming
  <2>4. CASE Post(t)
    BY <1>0, <2>4 DEF Post
  <2>5. CASE CloseBegin(t) \/ CloseSocket(t)
    BY <1>0, <2>5 DEF CloseBegin, CloseSocket
  <2>6. CASE GoBad(t)
    BY <1>0, <2>6 DEF GoBad
  <2> QED BY <1>7, <2>1, <2>2, <2>3, <2>4, <2>5, <2>6 DEF SharedStep, Confirm
<1>8. CASE UNCHANGED vars
  BY <1>8 DEF vars
<1> QED BY <1>1, <1>2, <1>3, <1>4, <1>5, <1>6, <1>7, <1>8 DEF Next, IoStep

(***************************************************************************)
(* A handler runs on a whole message and on each once, in order, whatever  *)
(* the peer sends and wherever the reads cut it, if it puts no length      *)
(* where a body belongs.                                                   *)
(***************************************************************************)
THEOREM HandlesWhole ==
    ASSUME \A n \in Nat : 2 * n + 2 <= Len(Stream) => Stream[2 * n + 2] = "body"
    PROVE  SafeSpec => []HandlesWholeMessages
<1>1. Init => Whole
  BY DEF Init, Whole, OwnerLabels, MessageLen
<1>2. IInv /\ Whole => HandlesWholeMessages
  <2> SUFFICES ASSUME IInv, Whole, NEW w \in Workers, pc[w] = "handle"
               PROVE  /\ Readable >= MessageLen
                      /\ Stream[consumed + 1] = "len" /\ Stream[consumed + 2] = "body"
                      /\ consumed = handled * MessageLen
    BY DEF HandlesWholeMessages
  <2>0. w \in Threads /\ consumed \in Nat /\ handled \in Nat /\ received <= Len(Stream)
    BY StreamAssumption DEF IInv, TypeOK, Threads
  <2>1. Stream[consumed + 1] = "len" /\ msize = MessageLen
    BY <2>0 DEF Whole, OwnerLabels
  <2>2. Readable >= MessageLen
    BY <2>0, <2>1 DEF IInv, Buffer
  <2>3. consumed = handled * MessageLen
    BY <2>0 DEF IInv, OneOwner, Whole, OwnerLabels
  <2>4. consumed + 2 = 2 * handled + 2 /\ consumed + 2 <= Len(Stream)
    BY <2>0, <2>2, <2>3, StreamAssumption DEF MessageLen, Readable, IInv, TypeOK
  <2>5. Stream[consumed + 2] = "body"
    BY <2>0, <2>4
  <2> QED BY <2>1, <2>2, <2>3, <2>5
<1> QED BY <1>1, <1>2, InvAlways, WholeStep, PTL DEF SafeSpec
=============================================================================
