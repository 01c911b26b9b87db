---------------------------- MODULE StreamBuffer ----------------------------
(***************************************************************************)
(* stream_buffer (mem_stream_buffer.inl): a chain of blocks. The writer    *)
(* fills the last block and adds the next one as soon as it is full; the   *)
(* reader walks along the chain and hands the blocks behind it to free().  *)
(*                                                                         *)
(* A session uses one buffer to send, with read() and commit_read(), and   *)
(* one to receive, where comfirm() looks for the zero that ends a message  *)
(* (pares_zero) or reads the length it begins with (pares_len), the handler*)
(* walks over the message with next(), skip() and back_up(), and commit()  *)
(* consumes it. The commit that finds lastread at zero wakes the reader.   *)
(***************************************************************************)
EXTENDS Integers, Sequences, SequencesExt

CONSTANTS
    Byte,       \* what a byte may be; 0 ends a message of pares_zero
    Block,      \* block_size
    MaxNodes,   \* bound on the blocks in use between two clears
    MaxLen,     \* max_message_len
    MaxLastread, \* bound on m_lastread, which every commit increments
    LenBytes,   \* bytes of a message's length in pares_len: sizeof(std::uint32_t)
    LengthOf    \* the number they stand for

ASSUME SizeAssumption ==
    /\ Block \in Nat \ {0} /\ MaxNodes \in Nat \ {0}
    /\ MaxLen \in Nat \ {0} /\ MaxLastread \in Nat
ASSUME ByteAssumption == 0 \in Byte
ASSUME LengthAssumption ==
    LenBytes \in 1 .. MaxLen - 1 /\ LengthOf \in [[1 .. LenBytes -> Byte] -> Nat]

VARIABLES
    use,        \* what the session has the buffer for
    mem,        \* the bytes of each block
    link,       \* m_next of each block
    nodes,      \* blocks handed out since clear()
    head, reader, \* m_head, and m_reader as an offset in it
    tail, writer, \* m_tail, and m_writer as an offset in it
    readable,   \* m_readable
    lastread,   \* m_lastread
    grant,      \* bytes write() granted, not committed
    filled,     \* how many of them are stored
    phase,      \* where the reader is
    view,       \* bytes read() showed
    known,      \* bytes the reader knows it may consume
    expect,     \* bytes the reader asks for
    field,      \* the bytes of the length that comfirm() has copied to m_size
    msize,      \* m_size: length of the message, as far as it was looked at
    limit,      \* m_limit
    cursor      \* m_position, m_next and m_offset of the message reader

vars == <<use, mem, link, nodes, head, reader, tail, writer, readable, lastread, grant, filled,
          phase, view, known, expect, field, msize, limit, cursor>>
chainVars == <<use, mem, link, nodes, tail, writer, grant, filled>>
messageVars == <<expect, field, msize, limit, cursor>>

Nodes == 0 .. MaxNodes - 1
NoNode == -1
Cells == 0 .. Block - 1
Least(m, n) == IF m < n THEN m ELSE n

TypeOK ==
    /\ use \in {"send", "zero", "length"}
    /\ mem \in [Nodes -> [Cells -> Byte]]
    /\ link \in [Nodes -> Nodes \cup {NoNode}]
    /\ nodes \in 1 .. MaxNodes
    /\ head \in Nodes /\ tail \in Nodes /\ reader \in Cells /\ writer \in Cells
    /\ readable \in 0 .. Block * MaxNodes
    /\ lastread \in Nat
    /\ grant \in 0 .. Block /\ filled \in 0 .. grant /\ view \in 0 .. Block
    /\ phase \in {"wait", "check", "shown", "scan", "handle", "error"}
    /\ known \in 0 .. Block * MaxNodes
    /\ expect \in Nat /\ field \in Seq(Byte) /\ msize \in Nat /\ limit \in Nat
    /\ cursor \in [position : Nat, node : Nodes \cup {NoNode}, offset : 0 .. Block]

\* reset(): the message is read from its beginning
Start(node, offset) == [position |-> 0, node |-> node, offset |-> offset]

\* init(): one block; its memory holds anything.
Init ==
    /\ use \in {"send", "zero", "length"}
    /\ \E b \in Byte : mem = [n \in Nodes |-> [c \in Cells |-> b]]
    /\ link = [n \in Nodes |-> NoNode]
    /\ nodes = 1
    /\ head = 0 /\ tail = 0 /\ reader = 0 /\ writer = 0
    /\ readable = 0 /\ lastread = 0
    /\ grant = 0 /\ filled = 0
    /\ phase = "wait" /\ view = 0 /\ known = 0
    /\ expect = 0 /\ field = <<>> /\ msize = 0 /\ limit = 0
    /\ cursor = Start(0, 0)

-----------------------------------------------------------------------------
(* The writer *)

Write(size) ==
    /\ grant = 0
    /\ grant' = IF size = 0 THEN Block - writer ELSE Least(size, Block - writer)
    /\ filled' = 0
    /\ UNCHANGED <<use, mem, link, nodes, head, reader, tail, writer, readable, lastread, phase,
                   view, known, messageVars>>

\* One more byte of the granted region is stored, with the mutex free.
Fill(b) ==
    /\ filled < grant
    /\ mem' = [mem EXCEPT ![tail][writer + filled] = b]
    /\ filled' = filled + 1
    /\ UNCHANGED <<use, link, nodes, head, reader, tail, writer, readable, lastread, grant, phase,
                   view, known, messageVars>>

\* The commit that finds the reader waiting has it called.
Woken == phase' = IF lastread = 0 /\ phase = "wait" THEN "check" ELSE phase

\* _commit_write: a block that is full gets its successor at once.
CommitWrite(n) ==
    /\ n <= filled
    /\ lastread < MaxLastread
    /\ IF writer + n >= Block
       THEN /\ nodes < MaxNodes
            /\ link' = [link EXCEPT ![tail] = nodes, ![nodes] = NoNode]
            /\ tail' = nodes /\ writer' = 0 /\ nodes' = nodes + 1
       ELSE writer' = writer + n /\ UNCHANGED <<link, tail, nodes>>
    /\ readable' = readable + n
    /\ lastread' = lastread + 1
    /\ grant' = 0 /\ filled' = 0
    /\ Woken
    /\ UNCHANGED <<use, mem, head, reader, view, known, messageVars>>

-----------------------------------------------------------------------------
(* The reader of a buffer that is used to send *)

\* read(); an empty buffer makes the reader wait.
Read(size) ==
    /\ use = "send" /\ phase = "check"
    /\ view' = Least(size, Least(Block - reader, readable))
    /\ known' = view' /\ lastread' = view'
    /\ phase' = IF view' = 0 THEN "wait" ELSE "shown"
    /\ UNCHANGED <<head, reader, readable, chainVars, messageVars>>

\* The block that k links of the chain lead to from a block
Behind(node, k) ==
    LET on[i \in 0 .. k] == IF i = 0 THEN node ELSE link[on[i - 1]]
    IN  on[k]

\* mutant: a message that ends inside another block leaves the reader at that block's beginning
Mut_AlongDropsRest(n) ==
    IF reader + n < Block THEN <<head, reader + n>>
    ELSE <<Behind(head, (reader + n) \div Block), 0>>

\* The place n bytes on. The blocks passed go to free(), which keeps them in use.
Along(n) == <<Behind(head, (reader + n) \div Block), (reader + n) % Block>>

\* commit_read()
Consume(n) ==
    LET place == Along(n) IN
    /\ readable' = readable - n
    /\ head' = place[1] /\ reader' = place[2]
    /\ view' = 0 /\ known' = 0

CommitRead(n) ==
    /\ use = "send" /\ phase = "shown"
    /\ n <= known
    /\ Consume(n)
    /\ phase' = "check"
    /\ UNCHANGED <<lastread, chainVars, messageVars>>

-----------------------------------------------------------------------------
(* The reader of a buffer that is used to receive *)

\* readable_size(exp)
Asked(exp) ==
    /\ lastread' = IF readable < exp THEN 0 ELSE readable
    /\ known' = lastread'

\* _next(): a piece of at most size bytes, or of all that the block has, for zero
Piece(c, size, max) ==
    LET turn == c.offset >= Block
        node == IF turn THEN link[c.node] ELSE c.node
        from == IF turn THEN 0 ELSE c.offset
        room == Least(max - c.position, Block - from)
    IN [node |-> node, from |-> from, len |-> IF size = 0 THEN room ELSE Least(size, room)]

\* mutant: the offset of the block that was left is kept
Mut_TurnKeepsOffset(c, p) ==
    [position |-> c.position + p.len, node |-> p.node, offset |-> Least(c.offset + p.len, Block)]

Moved(c, p) ==
    [position |-> c.position + p.len, node |-> p.node, offset |-> p.from + p.len]

\* skip() of n > 0 bytes that are there, piece by piece: at most n pieces
Onward(c, last, max) ==
    IF c.position = last THEN c ELSE Moved(c, Piece(c, last - c.position, max))

Skipped(c0, n, max) ==
    LET f[k \in 0 .. n] == IF k = 0 THEN c0 ELSE Onward(f[k - 1], c0.position + n, max)
    IN  f[n]

\* mutant: two more bytes are asked for than were there, not one
Mut_CheckAsksTwo ==
    /\ use = "zero" /\ phase = "check"
    /\ Asked(expect)
    /\ IF lastread' = 0
       THEN phase' = "wait" /\ expect' = 0
       ELSE phase' = "scan" /\ expect' = lastread' + 2
    /\ UNCHANGED <<head, reader, readable, view, field, msize, limit, cursor, chainVars>>

\* comfirm(): is there something to look at? "pending" waits for the next commit.
Check ==
    /\ use = "zero" /\ phase = "check"
    /\ Asked(expect)
    /\ IF lastread' = 0
       THEN phase' = "wait" /\ expect' = 0
       ELSE phase' = "scan" /\ expect' = lastread' + 1
    /\ UNCHANGED <<head, reader, readable, view, field, msize, limit, cursor, chainVars>>

\* strlen() from the piece on: stale bytes behind it may end it, the sentinel does.
Strlen(p) ==
    CHOOSE n \in 0 .. Block - p.from :
        /\ p.from + n = Block \/ mem[p.node][p.from + n] = 0
        /\ \A m \in 0 .. n - 1 : mem[p.node][p.from + m] # 0

\* Bytes of the piece that belong to the message it ends, or 0
Ended(p) == IF Strlen(p) + 1 <= p.len THEN Strlen(p) + 1 ELSE 0

\* comfirm(): next() looks at one more piece, of what is there by now.
Scan ==
    /\ use = "zero" /\ phase = "scan"
    /\ Asked(0)
    /\ IF lastread' <= cursor.position
       THEN phase' = "check" /\ UNCHANGED <<msize, limit, cursor>>
       ELSE LET p == Piece(cursor, 0, lastread')
                end == Ended(p)
            IN IF end > 0
               THEN /\ msize' = msize + end
                    /\ IF msize' > MaxLen
                       THEN phase' = "error" /\ cursor' = Moved(cursor, p) /\ UNCHANGED limit
                       ELSE phase' = "handle" /\ limit' = msize' /\ cursor' = Start(head, reader)
               ELSE /\ msize' = msize + p.len
                    /\ cursor' = Moved(cursor, p)
                    /\ phase' = IF msize' > MaxLen THEN "error" ELSE "scan"
                    /\ UNCHANGED limit
    /\ UNCHANGED <<head, reader, readable, view, expect, field, chainVars>>

\* comfirm() of pares_len: is the length there?
CheckLength ==
    /\ use = "length" /\ phase = "check" /\ msize = 0
    /\ Asked(LenBytes)
    /\ phase' = IF lastread' = 0 THEN "wait" ELSE "scan"
    /\ UNCHANGED <<head, reader, readable, view, messageVars, chainVars>>

\* mutant: a length that is split between blocks is looked for in the first one
Mut_CopyOneBlock(p) == [i \in 1 .. p.len |-> mem[cursor.node][(p.from + i - 1) % Block]]

Copy(p) == [i \in 1 .. p.len |-> mem[p.node][p.from + i - 1]]

\* Its loop: next() shows one more piece of the length, which is copied to m_size.
Gather ==
    /\ use = "length" /\ phase = "scan"
    /\ Asked(0)
    /\ LET p == Piece(cursor, LenBytes - Len(field), lastread')
           bytes == field \o Copy(p)
       IN /\ cursor' = Moved(cursor, p)
          /\ IF Len(bytes) < LenBytes
             THEN field' = bytes /\ UNCHANGED <<msize, phase>>
             ELSE /\ field' = <<>> /\ msize' = LengthOf[bytes]
                  /\ phase' = IF msize' \in LenBytes .. MaxLen THEN "check" ELSE "error"
    /\ UNCHANGED <<head, reader, readable, view, expect, limit, chainVars>>

\* ... and the message?
CheckBody ==
    /\ use = "length" /\ phase = "check" /\ msize # 0
    /\ Asked(msize)
    /\ IF lastread' = 0
       THEN phase' = "wait" /\ UNCHANGED limit
       ELSE phase' = "handle" /\ limit' = msize
    /\ UNCHANGED <<head, reader, readable, view, expect, field, msize, cursor, chainVars>>

\* next() by the handler
TakeNext(size) ==
    /\ phase = "handle"
    /\ cursor.position < limit
    /\ cursor' = Moved(cursor, Piece(cursor, size, limit))
    /\ UNCHANGED <<head, reader, readable, lastread, phase, view, known, expect, field, msize,
                   limit, chainVars>>

Skip(n) ==
    /\ phase = "handle"
    /\ n <= limit - cursor.position
    /\ cursor' = Skipped(cursor, n, limit)
    /\ UNCHANGED <<head, reader, readable, lastread, phase, view, known, expect, field, msize,
                   limit, chainVars>>

\* back_up(): beyond the block's beginning the message is walked again, without its limit.
BackUp(n) ==
    /\ phase = "handle"
    /\ n <= cursor.position
    /\ IF n <= cursor.offset
       THEN /\ cursor' = [cursor EXCEPT !.position = @ - n, !.offset = @ - n]
            /\ UNCHANGED <<lastread, known>>
       ELSE IF n = cursor.position
            THEN cursor' = Start(head, reader) /\ UNCHANGED <<lastread, known>>
            ELSE /\ cursor' = Skipped(Start(head, reader), cursor.position - n, readable)
                 /\ Asked(0)
    /\ UNCHANGED <<head, reader, readable, phase, view, expect, field, msize, limit, chainVars>>

\* commit() after the handler, and the next comfirm()
CommitMessage ==
    /\ phase = "handle"
    /\ Consume(msize)
    /\ msize' = 0 /\ limit' = 0 /\ expect' = 0
    /\ cursor' = Start(head', reader')
    /\ phase' = "check"
    /\ UNCHANGED <<lastread, field, chainVars>>

\* clear(): the session is used again, with no IO under way and its reader gone
Clear ==
    /\ grant = 0
    /\ phase \in {"wait", "error"}
    /\ link' = [link EXCEPT ![0] = NoNode]
    /\ nodes' = 1
    /\ head' = 0 /\ tail' = 0 /\ reader' = 0 /\ writer' = 0
    /\ readable' = 0 /\ lastread' = 0
    /\ phase' = "wait" /\ view' = 0 /\ known' = 0
    /\ expect' = 0 /\ field' = <<>> /\ msize' = 0 /\ limit' = 0
    /\ cursor' = Start(0, 0)
    /\ UNCHANGED <<use, mem, grant, filled>>

Writing ==
    \/ \E size \in 0 .. Block : Write(size)
    \/ \E b \in Byte : Fill(b)
    \/ \E n \in 0 .. Block : CommitWrite(n)

Reading ==
    \/ \E size \in 1 .. Block : Read(size)
    \/ \E n \in 1 .. Block : CommitRead(n)
    \/ Check
    \/ Scan
    \/ CheckLength
    \/ Gather
    \/ CheckBody
    \/ CommitMessage

Handling ==
    \/ \E size \in 0 .. Block : TakeNext(size)
    \/ \E n \in 1 .. MaxLen : Skip(n) \/ BackUp(n)

Next == Writing \/ Reading \/ Handling \/ Clear

\* The reader goes on; a handler returns.
Spec == Init /\ [][Next]_vars /\ WF_vars(Reading)

-----------------------------------------------------------------------------
(* Properties *)

\* The readable bytes, along the chain
Queue == [i \in 1 .. readable |-> LET place == Along(i - 1) IN mem[place[1]][place[2]]]

(***************************************************************************)
(* The buffer implements the byte queue: what was committed comes out in   *)
(* order, wherever blocks end; a region granted or shown may end with the  *)
(* block, but is never empty when there is something to grant or show.     *)
(***************************************************************************)
Fifo == INSTANCE ByteFifo WITH
    Capacity <- Block * MaxNodes,
    Exact <- FALSE,
    queue <- Queue,
    filling <- [i \in 1 .. filled |-> mem[tail][writer + i - 1]],
    view <- [i \in 1 .. view |-> mem[head][reader + i - 1]],
    waiting <- lastread = 0

ImplementsFifo == Fifo!Spec

(***************************************************************************)
(* A piece that next() hands to the framing or the handler is made of the  *)
(* next bytes of the message, wherever next, skip and back_up have been.   *)
(***************************************************************************)
PieceIsNext ==
    phase \in {"scan", "handle"} =>
        LET max == IF limit > 0 THEN limit ELSE readable
            p == Piece(cursor, 0, max)
        IN cursor.position < max =>
            /\ p.len > 0
            /\ \A i \in 1 .. p.len : mem[p.node][p.from + i - 1] = Queue[cursor.position + i]

\* The length of the first message, or 0 when its end cannot be told
FirstLength ==
    CASE use = "length" /\ readable >= LenBytes -> LengthOf[SubSeq(Queue, 1, LenBytes)]
      [] use = "zero" /\ Contains(Queue, 0) -> SelectInSeq(Queue, LAMBDA b : b = 0)
      [] OTHER -> 0

(***************************************************************************)
(* A handler is given one whole message: as long as its length says, or up *)
(* to the first zero, in however many parts and blocks it came, and        *)
(* wherever the length itself was cut.                                     *)
(***************************************************************************)
MessageIsWhole ==
    phase = "handle" => limit = FirstLength /\ limit \in 1 .. Least(readable, MaxLen)

(***************************************************************************)
(* A message that was committed whole is handed to a handler, or refused:  *)
(* the token is never given back over one.                                 *)
(***************************************************************************)
MessageIsFound ==
    FirstLength \in 1 .. readable ~> (phase \in {"handle", "error"} \/ readable = 0)
=============================================================================
