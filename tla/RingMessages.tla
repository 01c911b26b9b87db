---------------------------- MODULE RingMessages ----------------------------
(***************************************************************************)
(* The messages in a ring: rotative_buffer as the message a session reads  *)
(* (next, skip, back_up), under the two framings, pares_len and pares_zero.*)
(* The IO thread goes on writing to the ring meanwhile.                    *)
(*                                                                         *)
(* next() is two critical sections, readable_size() and read(), when no    *)
(* limit is set, and read() alone in a handler. It shows the message from  *)
(* its beginning and points behind what was read of it, so that all of     *)
(* the message must be contiguous. What goes wrong with a session meanwhile*)
(* (go_bad) is in SessionMessage.                                          *)
(***************************************************************************)
EXTENDS RotativeBuffer, SequencesExt

CONSTANTS
    MaxLen,     \* max_message_len
    LenBytes,   \* bytes of a message's length: sizeof(std::uint32_t)
    LengthOf    \* the number they stand for

ASSUME FrameAssumption ==
    /\ 0 \in Byte   \* it ends a message of pares_zero
    /\ MaxLen \in 2 .. Block /\ LenBytes \in 1 .. MaxLen - 1
    /\ LengthOf \in [[1 .. LenBytes -> Byte] -> Nat]

VARIABLES
    framing,    \* which of the two the session has, or none: any use of the ring
    phase,      \* where its reader is
    expect,     \* bytes comfirm of pares_zero asks for
    asked,      \* bytes next() found readable, while it and the scan use the number
    msize,      \* m_size: length of the message, as far as it is known
    limit,      \* m_limit
    position    \* m_position

messageVars == <<expect, asked, msize, limit, position>>
sessionVars == <<framing, phase, messageVars>>
allVars == <<vars, sessionVars>>

MessageTypeOK ==
    /\ TypeOK
    /\ framing \in {"none", "length", "zero"}
    /\ phase \in {"wait", "check", "size", "show", "scan", "handle", "error"}
    /\ expect \in 0 .. Size /\ asked \in 0 .. Size - 1
    /\ msize \in Nat /\ limit \in 0 .. MaxLen /\ position \in 0 .. Size - 1

\* What new char[] returns: cells all alike, and zeros where nothing but strlen() could tell.
MessageInit ==
    /\ Init
    /\ \A i \in Cells : mem[i] = mem[0]
    /\ framing \in {"none", "length", "zero"}
    /\ framing # "zero" => mem[0] = 0
    /\ phase = "wait"
    /\ expect = 0 /\ asked = 0 /\ msize = 0 /\ limit = 0 /\ position = 0

-----------------------------------------------------------------------------
(* The IO thread: process_recv *)

Receive ==
    /\ framing # "none"
    /\ Write(Block) \/ \E b \in Byte : Fill(b)
    /\ UNCHANGED sessionVars

\* commit_recv(); the one that finds the token has comfirm() called.
CommitRecv ==
    /\ framing # "none" /\ filled > 0
    /\ CommitWrite(filled)
    /\ phase' = IF lastread = 0 THEN "check" ELSE phase
    /\ UNCHANGED <<framing, messageVars>>

-----------------------------------------------------------------------------
(* comfirm() *)

\* readable_state(exp): with less than that the token is given back, "pending".
ReadableState(exp, label) ==
    /\ ReadableSize(exp)
    /\ phase' = IF lastread' = 0 THEN "wait" ELSE label

CheckLength ==
    /\ phase = "check" /\ framing = "length" /\ msize = 0
    /\ ReadableState(LenBytes, "size")
    /\ UNCHANGED <<framing, messageVars>>

CheckBody ==
    /\ phase = "check" /\ framing = "length" /\ msize # 0
    /\ ReadableState(msize, "handle")
    /\ limit' = IF lastread' = 0 THEN 0 ELSE msize
    /\ UNCHANGED <<framing, expect, asked, msize, position>>

\* mutant: two more bytes are asked for than were there, not one
Mut_AsksTwoMore ==
    /\ phase = "check" /\ framing = "zero"
    /\ ReadableState(expect, "size")
    /\ expect' = IF lastread' = 0 THEN 0 ELSE lastread' + 2
    /\ UNCHANGED <<framing, asked, msize, limit, position>>

CheckZero ==
    /\ phase = "check" /\ framing = "zero"
    /\ ReadableState(expect, "size")
    /\ expect' = IF lastread' = 0 THEN 0 ELSE lastread' + 1
    /\ UNCHANGED <<framing, asked, msize, limit, position>>

\* next(), its first half; the length's bytes are there, as CheckLength found
NextSize ==
    /\ phase = "size"
    /\ ReadableSize(0)
    /\ IF framing = "zero" /\ lastread' <= position
       THEN phase' = "check" /\ UNCHANGED asked
       ELSE phase' = "show" /\ asked' = lastread'
    /\ UNCHANGED <<framing, expect, msize, limit, position>>

Read(size) == ReadStraight(size) \/ ReadAcross(size)

\* next(), its second half: read() shows a block at most.
NextShow ==
    /\ phase = "show"
    /\ Read(Least(asked, Block))
    /\ phase' = "scan"
    /\ UNCHANGED <<framing, messageVars>>

Place == reader + position

Length == LengthOf[[i \in 1 .. LenBytes |-> mem[Place + i - 1]]]

ScanLength ==
    /\ phase = "scan" /\ framing = "length"
    /\ msize' = Length
    /\ position' = position + LenBytes
    /\ phase' = IF msize' < LenBytes \/ msize' > MaxLen THEN "error" ELSE "check"
    /\ asked' = 0
    /\ UNCHANGED <<framing, expect, limit, vars>>

\* strlen(p): it may run past what read() showed, up to the sentinel behind the tail. The
\* bytes there may change under it, which can only tell lengths that are refused.
Strlen ==
    CHOOSE n \in 0 .. Size + Block - Place :
        /\ Place + n = Size + Block \/ mem[Place + n] = 0
        /\ \A m \in 0 .. n - 1 : mem[Place + m] # 0

\* Bytes of the piece up to its zero, or 0
Ended == IF Strlen + 1 <= asked - position THEN Strlen + 1 ELSE 0

ScanZero ==
    /\ phase = "scan" /\ framing = "zero"
    /\ msize' = msize + (IF Ended > 0 THEN Ended ELSE asked - position)
    /\ IF msize' > MaxLen
       THEN phase' = "error" /\ position' = asked /\ UNCHANGED limit
       ELSE IF Ended > 0
       THEN phase' = "handle" /\ limit' = msize' /\ position' = 0
       ELSE phase' = "size" /\ position' = asked /\ UNCHANGED limit
    /\ asked' = 0
    /\ UNCHANGED <<framing, expect, vars>>

-----------------------------------------------------------------------------
(* The handler *)

\* mutant: read() is asked for the piece, not for the message up to its end
Mut_ShowsPiece(n) ==
    /\ phase = "handle"
    /\ n <= limit - position
    /\ position' = position + n
    /\ Read(n)
    /\ UNCHANGED <<framing, phase, expect, asked, msize, limit>>

\* next(), and skip(), which calls it once and drops the pointer
TakeNext(n) ==
    /\ phase = "handle"
    /\ n <= limit - position
    /\ position' = position + n
    /\ Read(limit)
    /\ UNCHANGED <<framing, phase, expect, asked, msize, limit>>

BackUp(n) ==
    /\ phase = "handle"
    /\ n <= position
    /\ position' = position - n
    /\ UNCHANGED <<framing, phase, expect, asked, msize, limit, vars>>

\* commit() after the handler, and the next comfirm()
CommitMessage ==
    /\ phase = "handle"
    /\ CommitRead(msize)
    /\ msize' = 0 /\ limit' = 0 /\ position' = 0 /\ expect' = 0
    /\ phase' = "check"
    /\ UNCHANGED <<framing, asked>>

\* clear(): the session is used again, with no IO under way and its reader gone
ClearMessage ==
    /\ framing # "none" /\ phase \in {"wait", "error"}
    /\ Clear
    /\ phase' = "wait"
    /\ expect' = 0 /\ asked' = 0 /\ msize' = 0 /\ limit' = 0 /\ position' = 0
    /\ UNCHANGED framing

Comfirm ==
    \/ CheckLength \/ CheckBody \/ CheckZero
    \/ NextSize \/ NextShow
    \/ ScanLength \/ ScanZero

Handling == \E n \in 1 .. MaxLen : TakeNext(n) \/ BackUp(n)

\* A buffer that is not read for messages: every use its interface admits
Plain == framing = "none" /\ Next /\ UNCHANGED sessionVars

MessageNext ==
    \/ Plain
    \/ Receive \/ CommitRecv
    \/ Comfirm \/ Handling \/ CommitMessage
    \/ ClearMessage

\* The reader goes on; a handler returns.
MessageSpec == MessageInit /\ [][MessageNext]_allVars /\ WF_allVars(Comfirm \/ CommitMessage)

-----------------------------------------------------------------------------
(* Properties *)

Queue == [i \in 1 .. Readable |-> mem[Ring(i - 1)]]

\* The length of the first message, or 0 when its end cannot be told
FirstLength ==
    IF framing = "length"
    THEN IF Len(Queue) < LenBytes THEN 0 ELSE LengthOf[SubSeq(Queue, 1, LenBytes)]
    ELSE IF Contains(Queue, 0) THEN SelectInSeq(Queue, LAMBDA b : b = 0) ELSE 0

InRange == FirstLength \in (IF framing = "length" THEN LenBytes ELSE 1) .. MaxLen

(***************************************************************************)
(* A handler is given one whole message, wherever the ring's end falls in  *)
(* it or in its length, and in however many parts it came; and the pieces  *)
(* next() has handed out stay its bytes, side by side behind m_reader,     *)
(* until it is committed, whatever the IO thread stores meanwhile.         *)
(***************************************************************************)
MessageIsWhole ==
    phase = "handle" =>
        /\ limit = FirstLength /\ limit \in 1 .. Least(Len(Queue), MaxLen)
        /\ limit <= known
        /\ \A i \in 0 .. position - 1 : mem[reader + i] = Queue[i + 1]

(***************************************************************************)
(* A message that is whole is handled, and refused only for its length:    *)
(* "pending" is never said over one, whatever was committed while comfirm()*)
(* looked, and stale bytes behind it are never counted as its own.         *)
(***************************************************************************)
MessageIsFound ==
    (framing # "none" /\ FirstLength \in 1 .. Len(Queue))
        ~> (phase = "handle" \/ (phase = "error" /\ ~InRange) \/ Queue = <<>>)
=============================================================================
