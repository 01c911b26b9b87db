------------------------- MODULE StreamBufferProofs -------------------------
(***************************************************************************)
(* The chain of blocks is a queue of bytes, and what a session's reader    *)
(* finds in it is one message at a time, for every size of a block and of  *)
(* a message and every way the bytes are cut: by blocks, by commits, and   *)
(* by the handler's next, skip and back_up.                                *)
(***************************************************************************)
EXTENDS StreamBuffer, SequenceTheorems, WellFoundedInduction, TLAPS

(* Numbers and addresses *)

\* A set of numbers has a least one.
LEMMA LeastNumber ==
    ASSUME NEW S \in SUBSET Nat, S # {}
    PROVE  \E m \in S : \A k \in S : m <= k
<1> DEFINE Smaller == OpToRel(<, Nat)
<1>1. IsWellFoundedOn(Smaller, Nat)
  BY NatLessThanWellFounded
<1>2. \E m \in S : \A k \in S : <<k, m>> \notin Smaller
  <2> HIDE DEF Smaller
  <2> QED BY <1>1, WFMin
<1>3. PICK m \in S : \A k \in S : <<k, m>> \notin Smaller
  BY <1>2
<1>4. \A k \in S : ~(k < m)
  BY <1>3 DEF OpToRel
<1> QED BY <1>4

\* Induction over the numbers, for a set that contains 0 and each successor
LEMMA Induction ==
    ASSUME NEW S, 0 \in S, \A n \in Nat : n \in S => n + 1 \in S
    PROVE  Nat \subseteq S
<1> SUFFICES ASSUME NEW x \in Nat, x \notin S PROVE FALSE
  OBVIOUS
<1>1. PICK m \in Nat \ S : \A k \in Nat \ S : m <= k
  <2>1. Nat \ S # {} /\ Nat \ S \in SUBSET Nat
    OBVIOUS
  <2> QED BY <2>1, LeastNumber
<1>2. m # 0 /\ m - 1 \in Nat /\ m - 1 \in S
  BY <1>1
<1> QED BY <1>1, <1>2

\* Where a block begins, counted from the first one
Base(node) == node * Block

\* Where blocks begin: one after the other, Block bytes apart
LEMMA Bases ==
    /\ Block \in Nat \ {0} /\ Base(0) = 0
    /\ \A n \in Nat : Base(n) \in Nat /\ Base(n + 1) = Base(n) + Block
    /\ \A m, n \in Nat : m < n => Base(m) + Block <= Base(n)
  <1>1. Block \in Nat \ {0} /\ Base(0) = 0
    BY SizeAssumption DEF Base
  <1>2. ASSUME NEW n \in Nat PROVE Base(n) \in Nat /\ Base(n + 1) = Base(n) + Block
    BY <1>1 DEF Base
  <1>3. ASSUME NEW m \in Nat, NEW n \in Nat, m < n PROVE Base(m) + Block <= Base(n)
    <2>1. n - m - 1 \in Nat /\ \A a, b \in Nat : a * b \in Nat
      BY <1>3
    <2>2. Base(n) = Base(m) + Block + (n - m - 1) * Block
      BY <1>1 DEF Base
    <2> QED BY <1>1, <1>2, <2>1, <2>2
  <1> QED BY <1>1, <1>2, <1>3

\* A byte's address gives its block and its place in it, and is given by them.
LEMMA Divides ==
    ASSUME NEW a \in Nat
    PROVE  /\ a \div Block \in Nat /\ a % Block \in Cells
           /\ a = Base(a \div Block) + (a % Block)
  <1> DEFINE q == a \div Block  r == a % Block
  <1>1. Block \in Nat /\ Block > 0
    BY SizeAssumption
  <1>2. q \in Int /\ r \in 0 .. Block - 1 /\ a = q * Block + r
    BY <1>1
  <1> HIDE DEF q, r
  <1>3. ~(q < 0)
    <2>1. ASSUME q < 0 PROVE FALSE
      <3>1. -q - 1 \in Nat /\ \A i, j \in Nat : i * j \in Nat
        BY <1>2, <2>1
      <3>2. q * Block = -Block - (-q - 1) * Block
        BY <1>1, <1>2
      <3> QED BY <1>1, <1>2, <3>1, <3>2
    <2> QED BY <2>1
  <1>4. q \in Nat /\ r \in Cells /\ a = Base(q) + r
    BY <1>2, <1>3 DEF Base, Cells
  <1> QED BY <1>4 DEF q, r

\* ... and only one block and place have that address.
LEMMA Divided ==
    ASSUME NEW k \in Nat, NEW c \in Cells
    PROVE  (Base(k) + c) \div Block = k /\ (Base(k) + c) % Block = c
  <1> DEFINE a == Base(k) + c  q == a \div Block  r == a % Block
  <1>1. a \in Nat /\ Base(k) \in Nat /\ c \in 0 .. Block - 1 /\ Block \in Nat
    <2>1. Base(k) \in Nat /\ c \in 0 .. Block - 1 /\ Block \in Nat
      BY Bases DEF Cells
    <2> QED BY <2>1
  <1>2. q \in Nat /\ r \in Cells /\ a = Base(q) + r
    <2> HIDE DEF a
    <2> QED BY <1>1, Divides
  <1> HIDE DEF q, r
  <1>3. Base(q) + r = Base(k) + c /\ Base(q) \in Nat /\ r \in 0 .. Block - 1
    BY <1>2, Bases DEF Cells
  <1>4. ~(q < k) /\ ~(k < q)
    <2>1. q < k => Base(q) + Block <= Base(k)
      BY <1>2, Bases
    <2>2. k < q => Base(k) + Block <= Base(q)
      BY <1>2, Bases
    <2> QED BY <1>1, <1>3, <2>1, <2>2
  <1>5. q = k
    BY <1>2, <1>4
  <1>6. r = c
    BY <1>1, <1>3, <1>5
  <1> QED BY <1>5, <1>6 DEF q, r

-----------------------------------------------------------------------------
(* The invariant *)

\* The blocks from the first one to m_tail are linked one after the other, and what
\* is readable lies between the reader's place and the writer's.
Chained ==
    /\ tail = nodes - 1 /\ head <= tail
    /\ \A i \in 0 .. tail - 1 : link[i] = i + 1
    /\ Base(head) + reader + readable = Base(tail) + writer

\* A region granted or shown ends with its block, and only readable bytes are shown.
Regions ==
    /\ writer + grant <= Block
    /\ reader + view <= Block
    /\ view <= readable /\ known <= readable

Shape == TypeOK /\ Chained /\ Regions

\* A reader's place in its message is a place in the chain, at the block's end
\* as long as it has not turned to the next one.
On(c) ==
    /\ c \in [position : 0 .. readable, node : head .. tail, offset : 0 .. Block]
    /\ Base(c.node) + c.offset = Base(head) + reader + c.position

\* The reader looks at the buffer exactly while m_lastread is not zero.
Token ==
    /\ lastread = 0 <=> phase = "wait"
    /\ use = "send" => phase \in {"wait", "check", "shown"}
    /\ use # "send" => phase # "shown" /\ On(cursor)

\* pares_zero: no byte that comfirm() has passed ends the message.
AtZero ==
    /\ phase \in {"wait", "check", "scan"} =>
          /\ limit = 0 /\ msize = cursor.position /\ msize <= MaxLen
          /\ \A i \in 1 .. msize : Queue[i] # 0
    /\ phase = "scan" => readable > 0
    /\ phase = "handle" =>
          msize <= readable /\ Queue[msize] = 0 /\ \A i \in 1 .. msize - 1 : Queue[i] # 0

\* The first bytes are the length, which is m_size.
LengthKnown ==
    /\ msize \in LenBytes .. MaxLen /\ LenBytes <= readable
    /\ msize = LengthOf[SubSeq(Queue, 1, LenBytes)]

\* pares_len: the length is not known, or its first bytes are copied, or it is known.
AtLength ==
    /\ phase \in {"wait", "check"} =>
          /\ limit = 0 /\ field = <<>>
          /\ (msize = 0 /\ cursor.position = 0) \/ (LengthKnown /\ cursor.position = LenBytes)
    /\ phase = "scan" =>
          /\ limit = 0 /\ msize = 0 /\ LenBytes <= readable
          /\ Len(field) = cursor.position /\ Len(field) < LenBytes
          /\ \A i \in 1 .. Len(field) : field[i] = Queue[i]
    /\ phase = "handle" => field = <<>> /\ LengthKnown

AtHandler ==
    phase = "handle" =>
        limit = msize /\ limit \in 1 .. MaxLen /\ limit <= known /\ cursor.position <= limit

IInv ==
    /\ Shape /\ Token
    /\ use = "zero" => AtZero
    /\ use = "length" => AtLength
    /\ AtHandler

-----------------------------------------------------------------------------
(* The chain and the queue of its bytes *)

\* The numbers among the constants
LEMMA Sizes ==
    /\ Block \in Nat \ {0} /\ MaxNodes \in Nat \ {0}
    /\ LenBytes \in Nat \ {0} /\ LenBytes < MaxLen /\ MaxLen \in Nat
  BY SizeAssumption, LengthAssumption

(***************************************************************************)
(* Following m_next leads from a block to the ones behind it.              *)
(***************************************************************************)
Following ==
    \A node, k \in Nat :
        (\A i \in node .. node + k - 1 : link[i] = i + 1) => Behind(node, k) = node + k

\* The links are followed from any block whose successors are linked.
LEMMA FollowingNow == Following
  <1> SUFFICES ASSUME NEW node \in Nat, NEW k \in Nat,
                      \A i \in node .. node + k - 1 : link[i] = i + 1
               PROVE  Behind(node, k) = node + k
    BY DEF Following
  <1> DEFINE on == CHOOSE on : on = [i \in 0 .. k |-> IF i = 0 THEN node ELSE link[on[i - 1]]]
             line == [i \in 0 .. k |-> node + i]
  <1>1. line = [i \in 0 .. k |-> IF i = 0 THEN node ELSE link[line[i - 1]]]
    <2>1. \A i \in 0 .. k : (IF i = 0 THEN node ELSE link[line[i - 1]]) = node + i
      <3> SUFFICES ASSUME NEW i \in 0 .. k, i # 0 PROVE link[line[i - 1]] = node + i
        OBVIOUS
      <3>1. line[i - 1] = node + (i - 1) /\ node + (i - 1) \in node .. node + k - 1
        OBVIOUS
      <3> QED BY <3>1
    <2> QED BY <2>1
  <1>2. on = [i \in 0 .. k |-> IF i = 0 THEN node ELSE link[on[i - 1]]]
    <2> HIDE DEF line
    <2> QED BY <1>1
  <1>3. Behind(node, k) = on[k]
    BY DEF Behind
  <1> HIDE DEF on
  <1>4. \A i \in 0 .. k : on[i] = node + i
    <2> DEFINE S == {i \in Nat : i <= k => on[i] = node + i}
    <2>1. 0 \in S
      BY <1>2
    <2>2. ASSUME NEW i \in Nat, i \in S PROVE i + 1 \in S
      <3> SUFFICES ASSUME i + 1 <= k PROVE on[i + 1] = node + (i + 1)
        OBVIOUS
      <3>1. on[i + 1] = link[on[i]]
        BY <1>2
      <3>2. on[i] = node + i /\ node + i \in node .. node + k - 1
        BY <2>2
      <3> QED BY <3>1, <3>2
    <2> HIDE DEF S
    <2>3. Nat \subseteq S
      BY <2>1, <2>2, Induction
    <2> QED BY <2>3 DEF S
  <1> QED BY <1>3, <1>4

\* The same after a step
LEMMA FollowingThen == Following'
  BY FollowingNow, PTL

(***************************************************************************)
(* Every readable byte has one block and one place in it.                  *)
(***************************************************************************)
LEMMA ShapeNumbers ==
    ASSUME Shape
    PROVE  /\ head \in Nat /\ tail \in Nat /\ head <= tail /\ tail < MaxNodes
           /\ reader \in Cells /\ writer \in Cells /\ readable \in Nat
           /\ Base(head) \in Nat /\ Base(tail) \in Nat
           /\ Base(head) + reader + readable = Base(tail) + writer
           /\ readable < Block * MaxNodes
           /\ \A i \in 0 .. tail - 1 : link[i] = i + 1
           /\ mem \in [Nodes -> [Cells -> Byte]]
  <1>1. /\ head \in Nat /\ tail \in Nat /\ head <= tail /\ tail < MaxNodes
        /\ reader \in Cells /\ writer \in Cells /\ readable \in 0 .. Block * MaxNodes
        /\ Base(head) + reader + readable = Base(tail) + writer
        /\ \A i \in 0 .. tail - 1 : link[i] = i + 1
        /\ mem \in [Nodes -> [Cells -> Byte]]
    BY Sizes DEF Shape, TypeOK, Chained, Nodes
  <1>2. Base(head) \in Nat /\ Base(tail) \in Nat /\ Base(tail) + Block <= Base(MaxNodes)
    BY <1>1, Bases, Sizes
  <1>3. Base(MaxNodes) = Block * MaxNodes /\ Block * MaxNodes \in Nat
    BY Sizes DEF Base
  <1>4. readable < Block * MaxNodes
    <2>1. PICK b \in Nat, h \in Nat, t \in Nat :
              /\ b = Block * MaxNodes /\ h = Base(head) /\ t = Base(tail)
              /\ t + Block <= b /\ h + reader + readable = t + writer
      BY <1>1, <1>2, <1>3
    <2>2. reader \in Nat /\ writer \in Nat /\ writer < Block /\ Block \in Nat
      BY <1>1, Sizes DEF Cells
    <2>3. readable \in Nat
      BY <1>1, <1>3
    <2>4. readable < b
      BY <2>1, <2>2, <2>3
    <2> QED BY <2>1, <2>4
  <1> QED BY <1>1, <1>2, <1>3, <1>4

\* The place n bytes on is the one place in the chain with that address.
LEMMA AlongIs ==
    ASSUME Shape, NEW n \in 0 .. readable
    PROVE  \E x \in head .. tail, c \in Cells :
              Along(n) = <<x, c>> /\ Base(x) + c = Base(head) + reader + n
  <1> USE ShapeNumbers
  <1> DEFINE a == reader + n  k == a \div Block  c == a % Block
  <1>1. a \in Nat /\ n \in Nat /\ reader \in Nat
    BY DEF Cells
  <1>2. k \in Nat /\ c \in Cells /\ a = Base(k) + c
    <2> HIDE DEF a
    <2> QED BY <1>1, Divides
  <1>3. Along(n) = <<Behind(head, k), c>>
    BY DEF Along
  <1> HIDE DEF a, k, c
  <1>4. Base(head + k) = Base(head) + Base(k)
    BY <1>2, Sizes DEF Base
  <1>5. head + k <= tail
    <2>1. head + k \in Nat
      BY <1>2
    <2>2. ~(tail < head + k)
      <3>1. tail < head + k => Base(tail) + Block <= Base(head + k)
        BY <2>1, Bases
      <3>2. writer < Block /\ writer \in Nat /\ c \in Nat /\ Block \in Nat /\ Base(k) \in Nat
        <4>1. Base(k) \in Nat
          BY <1>2, Bases
        <4>2. writer \in 0 .. Block - 1 /\ c \in 0 .. Block - 1 /\ Block \in Nat
          BY <1>2, Sizes DEF Cells
        <4> QED BY <4>1, <4>2
      <3>3. Base(head) + reader + n <= Base(tail) + writer
        BY <1>1
      <3>4. Base(head) + Base(k) + c = Base(head) + reader + n
        BY <1>1, <1>2, <3>2 DEF a
      <3> QED BY <1>4, <3>1, <3>2, <3>3, <3>4
    <2> QED BY <2>1, <2>2
  <1>6. Behind(head, k) = head + k
    <2>1. \A i \in head .. head + k - 1 : link[i] = i + 1
      BY <1>2, <1>5
    <2> QED BY <1>2, <2>1, FollowingNow DEF Following
  <1>7. head + k \in head .. tail /\ Base(head + k) + c = Base(head) + reader + n
    <2>1. Base(k) \in Nat /\ c \in Nat
      BY <1>2, Bases DEF Cells
    <2>2. Base(head + k) + c = Base(head) + reader + n
      BY <1>1, <1>2, <1>4, <2>1 DEF a
    <2> QED BY <1>2, <1>5, <2>2
  <1> QED BY <1>2, <1>3, <1>6, <1>7

\* Two places with the same address are one.
LEMMA OnePlace ==
    ASSUME NEW x \in Nat, NEW y \in Nat, NEW c \in Cells, NEW d \in Cells,
           Base(x) + c = Base(y) + d
    PROVE  x = y /\ c = d
  BY Divided

\* What the queue is, byte by byte
QueueBytes ==
    /\ Queue \in Seq(Byte) /\ Len(Queue) = readable
    /\ \A x \in head .. tail, c \in Cells, i \in 1 .. readable :
          Base(x) + c = Base(head) + reader + i - 1 => Queue[i] = mem[x][c]

\* Each byte of the queue is the one at its address.
LEMMA QueueNow == Shape => QueueBytes
  <1> SUFFICES ASSUME Shape PROVE QueueBytes
    OBVIOUS
  <1> USE ShapeNumbers
  <1>1. ASSUME NEW i \in 1 .. readable, NEW x \in head .. tail, NEW c \in Cells,
               Base(x) + c = Base(head) + reader + i - 1
        PROVE  mem[Along(i - 1)[1]][Along(i - 1)[2]] = mem[x][c]
    <2>1. i - 1 \in 0 .. readable
      OBVIOUS
    <2>2. PICK y \in head .. tail, d \in Cells :
              Along(i - 1) = <<y, d>> /\ Base(y) + d = Base(head) + reader + (i - 1)
      BY <2>1, AlongIs
    <2>3. x = y /\ c = d
      <3>1. Base(x) + c = Base(y) + d
        BY <1>1, <2>2 DEF Cells
      <3> QED BY <3>1, OnePlace
    <2> QED BY <2>2, <2>3
  <1>2. ASSUME NEW i \in 1 .. readable
        PROVE  mem[Along(i - 1)[1]][Along(i - 1)[2]] \in Byte
    <2>1. i - 1 \in 0 .. readable
      OBVIOUS
    <2>2. PICK y \in head .. tail, d \in Cells : Along(i - 1) = <<y, d>>
      BY <2>1, AlongIs
    <2>3. y \in Nodes
      BY Sizes DEF Nodes
    <2> QED BY <2>2, <2>3
  <1>3. Queue \in Seq(Byte) /\ Len(Queue) = readable
    <2>1. [i \in 1 .. readable |-> mem[Along(i - 1)[1]][Along(i - 1)[2]]] \in Seq(Byte)
      BY <1>2
    <2> QED BY <2>1 DEF Queue
  <1> QED BY <1>1, <1>3 DEF QueueBytes, Queue

\* The same after a step
LEMMA QueueThen == (Shape => QueueBytes)'
  BY QueueNow, PTL

(***************************************************************************)
(* A new buffer has one block, and nothing in it.                          *)
(***************************************************************************)
LEMMA ShapeInit == Init => Shape
  <1> SUFFICES ASSUME Init PROVE Shape
    OBVIOUS
  <1> USE Sizes, ByteAssumption
  <1>1. TypeOK
    <2>1. mem \in [Nodes -> [Cells -> Byte]] /\ link \in [Nodes -> Nodes \cup {NoNode}]
      BY DEF Init
    <2>2. 0 \in Nodes /\ 0 \in Cells /\ nodes \in 1 .. MaxNodes /\ field \in Seq(Byte)
      BY DEF Init, Nodes, Cells
    <2>3. Block * MaxNodes \in Nat
      OBVIOUS
    <2>4. cursor \in [position : Nat, node : Nodes \cup {NoNode}, offset : 0 .. Block]
      BY <2>2 DEF Init, Start
    <2> QED BY <2>1, <2>2, <2>3, <2>4 DEF Init, TypeOK
  <1>2. Chained
    BY Bases DEF Init, Chained
  <1>3. Regions
    BY DEF Init, Regions
  <1> QED BY <1>1, <1>2, <1>3 DEF Shape

(***************************************************************************)
(* A change behind the readable bytes leaves the queue as it was; a commit *)
(* adds to it.                                                             *)
(***************************************************************************)
Grown ==
    /\ readable <= readable'
    /\ \A i \in 1 .. readable : Queue'[i] = Queue[i]

\* Bytes behind the writer's place may change: the queue is what it was, and more.
LEMMA QueueGrows ==
    ASSUME Shape, Shape', head' = head, reader' = reader, readable <= readable', tail <= tail',
           \A x \in head .. tail, c \in Cells :
              Base(x) + c < Base(tail) + writer => mem'[x][c] = mem[x][c]
    PROVE  Grown /\ (readable' = readable => Queue' = Queue)
  <1>1. QueueBytes /\ QueueBytes'
    BY QueueNow, QueueThen
  <1>2. /\ head \in Nat /\ tail \in Nat /\ readable \in Nat /\ reader \in Cells /\ writer \in Cells
        /\ Base(head) \in Nat /\ Base(tail) \in Nat
        /\ Base(head) + reader + readable = Base(tail) + writer
    BY ShapeNumbers
  <1>3. readable' \in Nat /\ tail' \in Nat
    BY DEF Shape, TypeOK, Nodes
  <1>4. ASSUME NEW i \in 1 .. readable PROVE Queue'[i] = Queue[i]
    <2>1. i - 1 \in 0 .. readable
      BY <1>2
    <2>2. PICK x \in head .. tail, c \in Cells : Base(x) + c = Base(head) + reader + (i - 1)
      BY <2>1, AlongIs
    <2>3. Base(x) \in Nat /\ c \in Nat /\ reader \in Nat /\ writer \in Nat
      <3>1. x \in Nat
        BY <1>2
      <3>2. Base(x) \in Nat
        BY <3>1, Bases
      <3>3. c \in Nat /\ reader \in Nat /\ writer \in Nat
        BY <1>2 DEF Cells
      <3> QED BY <3>2, <3>3
    <2>4. Base(x) + c = Base(head) + reader + i - 1 /\ Base(x) + c < Base(tail) + writer
      BY <1>2, <2>2, <2>3
    <2>5. Queue[i] = mem[x][c]
      BY <1>1, <2>4 DEF QueueBytes
    <2>6. Queue'[i] = mem'[x][c]
      <3>1. x \in head' .. tail' /\ i \in 1 .. readable' /\ Base(x) + c = Base(head') + reader' + i - 1
        BY <1>2, <1>3, <2>4
      <3> QED BY <1>1, <3>1 DEF QueueBytes
    <2> QED BY <2>4, <2>5, <2>6
  <1>5. readable' = readable => Queue' = Queue
    <2> SUFFICES ASSUME readable' = readable PROVE Queue' = Queue
      OBVIOUS
    <2> DEFINE q == Queue  r == Queue'
    <2>1. /\ q \in Seq(Byte) /\ r \in Seq(Byte) /\ Len(q) = Len(r)
          /\ \A i \in 1 .. Len(q) : q[i] = r[i]
      BY <1>1, <1>4 DEF QueueBytes
    <2> HIDE DEF q, r
    <2>2. q = r
      BY <2>1, SeqEqual
    <2> QED BY <2>2 DEF q, r
  <1> QED BY <1>4, <1>5 DEF Grown

\* Steps of the reader that consume nothing
Still == UNCHANGED <<head, reader, readable, mem, link, nodes, tail, writer>>

\* A step that moves nothing leaves the queue as it is.
LEMMA QueueStays ==
    ASSUME Shape, Shape', Still
    PROVE  Queue' = Queue
  <1>1. readable \in Nat /\ tail \in Nat
    BY ShapeNumbers
  <1> QED BY <1>1, QueueGrows DEF Still

(***************************************************************************)
(* A reader's place stays a place in the chain when bytes are added.       *)
(***************************************************************************)
LEMMA StaysOn ==
    ASSUME Shape, Shape', NEW c, On(c),
           head' = head, reader' = reader, readable <= readable', tail <= tail'
    PROVE  /\ On(c)'
  <1>1. readable \in Nat /\ tail \in Nat /\ head \in Nat
    BY ShapeNumbers
  <1>2. readable' \in Nat /\ tail' \in Nat
    BY DEF Shape, TypeOK, Nodes
  <1>3. /\ c.position \in 0 .. readable' /\ c.node \in head' .. tail'
        /\ c \in [position : 0 .. readable, node : head .. tail, offset : 0 .. Block]
    BY <1>1, <1>2 DEF On
  <1>4. c \in [position : 0 .. readable', node : head' .. tail', offset : 0 .. Block]
    BY <1>3
  <1> QED BY <1>4 DEF On

(***************************************************************************)
(* A piece that next() hands out is in one block of the chain, is as long  *)
(* as was asked for at most and not empty, and is the message's next bytes.*)
(***************************************************************************)
LEMMA PieceIs ==
    ASSUME Shape, NEW c, On(c), NEW max \in 0 .. readable, c.position < max, NEW size \in Nat,
           NEW p, p = Piece(c, size, max)
    PROVE  /\ p.node \in head .. tail /\ p.from \in Cells
           /\ p.len \in 1 .. max - c.position /\ p.from + p.len <= Block
           /\ size # 0 => p.len <= size
           /\ \A i \in 1 .. p.len : mem[p.node][p.from + i - 1] = Queue[c.position + i]
           /\ On(Moved(c, p)) /\ Moved(c, p).position = c.position + p.len
  <1>1. /\ head \in Nat /\ tail \in Nat /\ head <= tail /\ readable \in Nat
        /\ reader \in Cells /\ writer \in Cells
        /\ Base(head) \in Nat /\ Base(tail) \in Nat
        /\ Base(head) + reader + readable = Base(tail) + writer
        /\ \A i \in 0 .. tail - 1 : link[i] = i + 1
    BY ShapeNumbers
  <1>2. /\ c.position \in 0 .. readable /\ c.node \in head .. tail /\ c.offset \in 0 .. Block
        /\ c.node \in Nat /\ Base(c.node) \in Nat
        /\ Base(c.node) + c.offset = Base(head) + reader + c.position
        /\ Block \in Nat \ {0} /\ reader \in Nat /\ writer \in 0 .. Block - 1
    BY <1>1, Bases DEF On, Cells
  <1>3. PICK node, from : /\ node = IF c.offset >= Block THEN link[c.node] ELSE c.node
                          /\ from = IF c.offset >= Block THEN 0 ELSE c.offset
    OBVIOUS
  <1>4. /\ node \in head .. tail /\ node \in Nat /\ from \in 0 .. Block - 1
        /\ Base(node) + from = Base(head) + reader + c.position
    <2>1. CASE c.offset < Block
      BY <1>2, <1>3, <2>1
    <2>2. CASE c.offset >= Block
      <3>1. c.offset = Block
        BY <1>2, <2>2
      <3>2. c.node # tail
        BY <1>1, <1>2, <3>1
      <3>3. c.node \in 0 .. tail - 1 /\ link[c.node] = c.node + 1 /\ c.node + 1 \in head .. tail
        BY <1>1, <1>2, <3>2
      <3>4. Base(c.node + 1) = Base(c.node) + Block
        BY <1>2, Bases
      <3> QED BY <1>2, <1>3, <2>2, <3>1, <3>3, <3>4
    <2> QED BY <1>2, <2>1, <2>2
  <1>5. PICK room : room = Least(max - c.position, Block - from)
    OBVIOUS
  <1>6. room \in 1 .. max - c.position /\ from + room <= Block
    BY <1>2, <1>4, <1>5 DEF Least
  <1>7. PICK len : len = IF size = 0 THEN room ELSE Least(size, room)
    OBVIOUS
  <1>8. len \in 1 .. max - c.position /\ from + len <= Block /\ (size # 0 => len <= size)
    BY <1>2, <1>4, <1>6, <1>7 DEF Least
  <1>9. p = [node |-> node, from |-> from, len |-> len]
    BY <1>3, <1>5, <1>7 DEF Piece
  <1>10. p.node = node /\ p.from = from /\ p.len = len
    BY <1>9
  <1>11. \A i \in 1 .. len : mem[node][from + i - 1] = Queue[c.position + i]
    <2> SUFFICES ASSUME NEW i \in 1 .. len PROVE mem[node][from + i - 1] = Queue[c.position + i]
      OBVIOUS
    <2>1. /\ from + i - 1 \in Cells /\ c.position + i \in 1 .. readable
          /\ Base(node) + (from + i - 1) = Base(head) + reader + (c.position + i) - 1
      <3>1. Base(node) \in Nat
        BY <1>4, Bases
      <3> QED BY <1>1, <1>2, <1>4, <1>8, <3>1 DEF Cells
    <2> QED BY <1>4, <2>1, QueueNow DEF QueueBytes
  <1>12. PICK m : m = Moved(c, p)
    OBVIOUS
  <1>13. m = [position |-> c.position + len, node |-> node, offset |-> from + len]
    BY <1>10, <1>12 DEF Moved
  <1>14. On(m) /\ m.position = c.position + len
    <2>1. m.position = c.position + len /\ m.node = node /\ m.offset = from + len
      BY <1>13
    <2>2. m.position \in 0 .. readable /\ m.node \in head .. tail /\ m.offset \in 0 .. Block
      BY <1>1, <1>2, <1>4, <1>8, <2>1
    <2>3. Base(m.node) + m.offset = Base(head) + reader + m.position
      <3>1. Base(node) \in Nat
        BY <1>4, Bases
      <3> QED BY <1>1, <1>2, <1>4, <1>8, <2>1, <3>1
    <2>4. m \in [position : 0 .. readable, node : head .. tail, offset : 0 .. Block]
      BY <1>13, <2>1, <2>2
    <2> QED BY <2>1, <2>3, <2>4 DEF On
  <1> QED BY <1>4, <1>8, <1>10, <1>11, <1>12, <1>14 DEF Cells

\* reset() puts the reader of a message on the first readable byte.
LEMMA StartsOn ==
    ASSUME Shape
    PROVE  On(Start(head, reader)) /\ Start(head, reader).position = 0
  <1>1. /\ head \in Nat /\ tail \in Nat /\ head <= tail /\ readable \in Nat
        /\ reader \in Cells /\ Base(head) \in Nat
    BY ShapeNumbers
  <1>2. reader \in 0 .. Block /\ reader \in Nat
    BY <1>1, Sizes DEF Cells
  <1>3. PICK m : m = Start(head, reader)
    OBVIOUS
  <1>4. m = [position |-> 0, node |-> head, offset |-> reader]
    BY <1>3 DEF Start
  <1>5. /\ m \in [position : 0 .. readable, node : head .. tail, offset : 0 .. Block]
        /\ m.position = 0 /\ m.node = head /\ m.offset = reader
    BY <1>1, <1>2, <1>4
  <1>6. Base(m.node) + m.offset = Base(head) + reader + m.position
    BY <1>1, <1>2, <1>5
  <1> QED BY <1>3, <1>5, <1>6 DEF On

-----------------------------------------------------------------------------
(* Walking along the chain *)

(***************************************************************************)
(* A step taken again and again from a place in a set stays in the set.    *)
(***************************************************************************)
Within(step, D) == step \in [D -> D]
Walked(step, D, x, n) ==
    \E f \in [0 .. n -> D] : f[0] = x /\ \A k \in 1 .. n : f[k] = step[f[k - 1]]

\* There is a walk of every length.
LEMMA Iterated ==
    ASSUME NEW D, NEW step, Within(step, D), NEW x \in D, NEW n \in Nat
    PROVE  Walked(step, D, x, n)
  <1> USE DEF Within
  <1> DEFINE Walk(f, m) == f[0] = x /\ \A k \in 1 .. m : f[k] = step[f[k - 1]]
             S == {m \in Nat : \E f \in [0 .. m -> D] : Walk(f, m)}
  <1>1. 0 \in S
    <2>1. [k \in 0 .. 0 |-> x] \in [0 .. 0 -> D] /\ Walk([k \in 0 .. 0 |-> x], 0)
      OBVIOUS
    <2> QED BY <2>1
  <1>2. ASSUME NEW m \in Nat, m \in S PROVE m + 1 \in S
    <2>1. PICK f \in [0 .. m -> D] : Walk(f, m)
      BY <1>2
    <2> DEFINE g == [k \in 0 .. m + 1 |-> IF k <= m THEN f[k] ELSE step[f[m]]]
    <2>2. g \in [0 .. m + 1 -> D]
      OBVIOUS
    <2>3. \A k \in 0 .. m : g[k] = f[k]
      OBVIOUS
    <2>4. g[m + 1] = step[f[m]]
      OBVIOUS
    <2> HIDE DEF g
    <2>5. \A k \in 1 .. m + 1 : g[k] = step[g[k - 1]]
      <3> SUFFICES ASSUME NEW k \in 1 .. m + 1 PROVE g[k] = step[g[k - 1]]
        OBVIOUS
      <3>1. CASE k <= m
        <4>1. k \in 1 .. m /\ k \in 0 .. m /\ k - 1 \in 0 .. m
          BY <3>1
        <4> QED BY <2>1, <2>3, <4>1
      <3>2. CASE k = m + 1
        <4>1. k - 1 = m /\ m \in 0 .. m
          BY <3>2
        <4> QED BY <2>3, <2>4, <3>2, <4>1
      <3> QED BY <3>1, <3>2
    <2>6. g[0] = x
      BY <2>1, <2>3
    <2> QED BY <2>2, <2>5, <2>6
  <1> HIDE DEF S
  <1>3. n \in S
    BY <1>1, <1>2, Induction
  <1> QED BY <1>3 DEF S, Walked

(***************************************************************************)
(* skip() of bytes that are there goes that far, in the chain.             *)
(***************************************************************************)
LEMMA SkippedIs ==
    ASSUME Shape, NEW c0, On(c0), NEW n \in Nat, NEW max \in 0 .. readable,
           c0.position + n <= max
    PROVE  On(Skipped(c0, n, max)) /\ Skipped(c0, n, max).position = c0.position + n
  <1> DEFINE body(f, k) == IF k = 0 THEN c0 ELSE Onward(f[k - 1], c0.position + n, max)
             walk == CHOOSE walk : walk = [k \in 0 .. n |-> body(walk, k)]
             Place == [position : 0 .. readable, node : head .. tail, offset : 0 .. Block]
             D == {c \in Place : On(c) /\ c0.position <= c.position /\ c.position <= c0.position + n}
             step == [c \in D |-> Onward(c, c0.position + n, max)]
  <1>1. Skipped(c0, n, max) = walk[n]
    BY DEF Skipped
  <1>2. c0.position \in Nat /\ c0 \in D /\ readable \in Nat
    BY ShapeNumbers DEF On
  <1>3. ASSUME NEW c \in D
        PROVE  /\ Onward(c, c0.position + n, max) \in D
               /\ Onward(c, c0.position + n, max).position = c0.position + n
                     \/ Onward(c, c0.position + n, max).position > c.position
    <2>1. c.position \in Nat /\ On(c) /\ c.position <= c0.position + n
      BY DEF On
    <2>2. CASE c.position = c0.position + n
      BY <2>2 DEF Onward
    <2>3. CASE c.position # c0.position + n
      <3> DEFINE size == (c0.position + n) - c.position
                 p == Piece(c, size, max)
      <3>1. Onward(c, c0.position + n, max) = Moved(c, p)
        BY <2>3 DEF Onward
      <3>2. size \in Nat /\ size # 0 /\ c.position < max /\ size = (c0.position + n) - c.position
        <4>1. PICK a \in Nat, b \in Nat : a = c0.position /\ b = c.position
          BY <1>2, <2>1
        <4>2. b <= a + n /\ b # a + n /\ a + n <= max /\ max \in Nat
          BY <1>2, <2>1, <2>3, <4>1
        <4>3. a + n - b \in Nat /\ a + n - b # 0 /\ b < max
          BY <4>2
        <4> QED BY <4>1, <4>3
      <3> HIDE DEF size
      <3>3. /\ On(Moved(c, p)) /\ Moved(c, p).position = c.position + p.len
            /\ p.len \in 1 .. max - c.position /\ p.len <= size
        BY <2>1, <3>2, PieceIs
      <3> HIDE DEF p
      <3>5. Moved(c, p) \in Place
        BY <3>3 DEF On
      <3> HIDE DEF Place
      <3> QED BY <1>2, <2>1, <3>1, <3>2, <3>3, <3>5
    <2> QED BY <2>2, <2>3
  <1>4. step \in [D -> D]
    BY <1>3
  <1> HIDE DEF D
  <1>5. PICK f \in [0 .. n -> D] : f[0] = c0 /\ \A k \in 1 .. n : f[k] = step[f[k - 1]]
    <2>1. Within(step, D)
      BY <1>4 DEF Within
    <2> HIDE DEF step
    <2>2. Walked(step, D, c0, n)
      BY <1>2, <2>1, Iterated
    <2> QED BY <2>2 DEF Walked
  <1>6. f = [k \in 0 .. n |-> body(f, k)]
    <2>1. \A k \in 0 .. n : body(f, k) = f[k]
      <3> SUFFICES ASSUME NEW k \in 0 .. n, k # 0 PROVE body(f, k) = f[k]
        BY <1>5
      <3>1. k \in 1 .. n /\ k - 1 \in 0 .. n
        OBVIOUS
      <3>2. f[k - 1] \in D /\ f[k] = step[f[k - 1]]
        BY <1>5, <3>1
      <3>3. step[f[k - 1]] = Onward(f[k - 1], c0.position + n, max)
        BY <3>2
      <3> QED BY <3>2, <3>3
    <2> HIDE DEF body, step
    <2>2. [k \in 0 .. n |-> body(f, k)] = [k \in 0 .. n |-> f[k]]
      BY <2>1
    <2>3. f = [k \in 0 .. n |-> f[k]]
      BY <1>5
    <2> QED BY <2>2, <2>3
  <1>7. walk = [k \in 0 .. n |-> body(walk, k)]
    <2> HIDE DEF body
    <2>1. \E g : g = [k \in 0 .. n |-> body(g, k)]
      BY <1>6
    <2> QED BY <2>1
  <1> HIDE DEF walk
  <1>8. \A k \in 0 .. n : walk[k] \in D /\ walk[k].position >= c0.position + k
    <2> DEFINE S == {k \in Nat : k <= n => walk[k] \in D /\ walk[k].position >= c0.position + k}
    <2>1. 0 \in S
      <3>1. walk[0] = c0
        BY <1>7
      <3> QED BY <1>2, <3>1
    <2>2. ASSUME NEW k \in Nat, k \in S PROVE k + 1 \in S
      <3> SUFFICES ASSUME k + 1 <= n
                   PROVE  walk[k + 1] \in D /\ walk[k + 1].position >= c0.position + (k + 1)
        OBVIOUS
      <3>1. PICK c, d : c = walk[k] /\ d = walk[k + 1]
        OBVIOUS
      <3>2. d = Onward(c, c0.position + n, max)
        BY <1>7, <3>1
      <3>3. c \in D /\ c.position >= c0.position + k
        BY <2>2, <3>1
      <3>4. d \in D /\ (d.position = c0.position + n \/ d.position > c.position)
        BY <1>3, <3>2, <3>3 DEF D
      <3>5. c.position \in Nat /\ d.position \in Nat
        BY <3>3, <3>4 DEF D, On
      <3> QED BY <1>2, <3>1, <3>3, <3>4, <3>5
    <2> HIDE DEF S
    <2>3. Nat \subseteq S
      BY <2>1, <2>2, Induction
    <2> QED BY <2>3 DEF S
  <1>9. PICK c : c = walk[n] /\ c \in D /\ c.position >= c0.position + n
    BY <1>8
  <1>10. On(c) /\ c.position \in Nat /\ c.position <= c0.position + n
    BY <1>9 DEF D, On
  <1> QED BY <1>1, <1>2, <1>9, <1>10

-----------------------------------------------------------------------------
(* The chain under the writer's steps *)

(***************************************************************************)
(* The writer keeps to the free part of the last block, and links the next *)
(* block behind it when it is full.                                        *)
(***************************************************************************)
LEMMA WriteShape ==
    ASSUME Shape, NEW size \in 0 .. Block, Write(size)
    PROVE  Shape' /\ Still /\ grant' \in 1 .. Block /\ (size # 0 => grant' <= size)
  <1> USE Sizes
  <1>1. /\ writer \in 0 .. Block - 1 /\ filled' = 0
        /\ grant' = IF size = 0 THEN Block - writer ELSE Least(size, Block - writer)
        /\ UNCHANGED <<use, mem, link, nodes, head, reader, tail, writer, readable, lastread, phase,
                       view, known, expect, field, msize, limit, cursor>>
    BY DEF Write, Shape, TypeOK, Cells, messageVars
  <1>2. grant' \in 1 .. Block /\ writer + grant' <= Block /\ (size # 0 => grant' <= size)
    BY <1>1 DEF Least
  <1>3. TypeOK'
    BY <1>1, <1>2 DEF Shape, TypeOK
  <1>4. Chained' /\ Regions'
    BY <1>1, <1>2 DEF Shape, Chained, Regions
  <1> QED BY <1>1, <1>2, <1>3, <1>4 DEF Shape, Still

\* Fill writes behind what is readable.
LEMMA FillShape ==
    ASSUME Shape, NEW b \in Byte, Fill(b)
    PROVE  /\ Shape'
           /\ \A x \in head .. tail, c \in Cells :
                 Base(x) + c < Base(tail) + writer => mem'[x][c] = mem[x][c]
  <1> USE Sizes
  <1>1. /\ writer \in 0 .. Block - 1 /\ filled \in Nat /\ grant \in 0 .. Block
        /\ filled < grant /\ writer + grant <= Block /\ tail \in Nodes /\ head \in Nat /\ tail \in Nat
        /\ mem \in [Nodes -> [Cells -> Byte]]
        /\ mem' = [mem EXCEPT ![tail][writer + filled] = b] /\ filled' = filled + 1
        /\ UNCHANGED <<use, link, nodes, head, reader, tail, writer, readable, lastread, grant, phase,
                       view, known, expect, field, msize, limit, cursor>>
    BY DEF Fill, Shape, TypeOK, Regions, Cells, Nodes, messageVars
  <1>2. writer + filled \in Cells /\ filled' \in 0 .. grant
    BY <1>1 DEF Cells
  <1>3. mem' \in [Nodes -> [Cells -> Byte]]
    BY <1>1, <1>2
  <1>4. TypeOK'
    BY <1>1, <1>2, <1>3 DEF Shape, TypeOK
  <1>5. Chained' /\ Regions'
    BY <1>1 DEF Shape, Chained, Regions
  <1>6. ASSUME NEW x \in head .. tail, NEW c \in Cells, Base(x) + c < Base(tail) + writer
        PROVE  mem'[x][c] = mem[x][c]
    <2>1. x \in Nodes
      BY <1>1 DEF Nodes
    <2>2. x = tail => c # writer + filled
      <3>1. Base(tail) \in Nat /\ c \in Nat
        BY <1>1, Bases DEF Cells
      <3> QED BY <1>1, <1>6, <3>1
    <2> QED BY <1>1, <1>2, <2>1, <2>2
  <1> QED BY <1>4, <1>5, <1>6 DEF Shape

\* A commit moves the writer on, into the next block when its own is full.
LEMMA CommitShape ==
    ASSUME Shape, NEW n \in 0 .. Block, CommitWrite(n)
    PROVE  /\ Shape' /\ n <= filled
           /\ mem' = mem /\ head' = head /\ reader' = reader /\ tail <= tail'
           /\ readable' = readable + n /\ lastread' = lastread + 1
           /\ grant' = 0 /\ filled' = 0
           /\ UNCHANGED <<use, view, known, expect, field, msize, limit, cursor>>
  <1> USE Sizes
  <1>1. /\ head \in Nat /\ tail \in Nat /\ head <= tail /\ tail < MaxNodes
        /\ reader \in Cells /\ writer \in Cells /\ readable \in Nat
        /\ Base(head) \in Nat /\ Base(tail) \in Nat
        /\ Base(head) + reader + readable = Base(tail) + writer
        /\ \A i \in 0 .. tail - 1 : link[i] = i + 1
    BY ShapeNumbers
  <1>2. /\ n <= filled /\ lastread' = lastread + 1 /\ grant' = 0 /\ filled' = 0
        /\ readable' = readable + n
        /\ UNCHANGED <<use, mem, head, reader, view, known, expect, field, msize, limit, cursor>>
        /\ phase' = IF lastread = 0 /\ phase = "wait" THEN "check" ELSE phase
    BY DEF CommitWrite, Woken, messageVars
  <1>3. /\ writer \in 0 .. Block - 1 /\ reader \in 0 .. Block - 1 /\ filled \in Nat
        /\ writer + filled <= Block /\ tail = nodes - 1 /\ nodes \in 1 .. MaxNodes
        /\ link \in [Nodes -> Nodes \cup {NoNode}] /\ lastread \in Nat
        /\ view <= readable /\ known <= readable /\ reader + view <= Block
        /\ view \in Nat /\ known \in Nat
    BY <1>1 DEF Shape, TypeOK, Chained, Regions, Cells
  <1>4. /\ tail' \in Nat /\ tail <= tail' /\ tail' = nodes' - 1 /\ nodes' \in 1 .. MaxNodes
        /\ writer' \in 0 .. Block - 1 /\ tail' < MaxNodes
        /\ link' \in [Nodes -> Nodes \cup {NoNode}]
        /\ \A i \in 0 .. tail' - 1 : link'[i] = i + 1
        /\ Base(tail') \in Nat /\ Base(tail') + writer' = Base(tail) + writer + n
    <2>1. CASE writer + n >= Block
      <3>1. /\ n = filled /\ writer + n = Block /\ nodes < MaxNodes
            /\ link' = [link EXCEPT ![tail] = nodes, ![nodes] = NoNode]
            /\ tail' = nodes /\ writer' = 0 /\ nodes' = nodes + 1
        BY <1>2, <1>3, <2>1 DEF CommitWrite
      <3>2. tail \in Nodes /\ nodes \in Nodes /\ nodes = tail + 1
        BY <1>1, <1>3, <3>1 DEF Nodes
      <3>3. Base(tail + 1) = Base(tail) + Block
        BY <1>1, Bases
      <3>4. link' \in [Nodes -> Nodes \cup {NoNode}]
        BY <1>3, <3>1, <3>2
      <3>5. ASSUME NEW i \in 0 .. tail' - 1 PROVE link'[i] = i + 1
        <4>1. i \in Nodes /\ i # nodes /\ (i = tail \/ i \in 0 .. tail - 1)
          BY <1>1, <1>3, <3>1, <3>2 DEF Nodes
        <4> QED BY <1>1, <1>3, <3>1, <3>2, <4>1
      <3>6. Base(tail') + writer' = Base(tail) + writer + n /\ Base(tail') \in Nat
        BY <1>1, <1>3, <3>1, <3>2, <3>3
      <3>7. /\ tail' \in Nat /\ tail <= tail' /\ tail' = nodes' - 1 /\ nodes' \in 1 .. MaxNodes
            /\ writer' \in 0 .. Block - 1 /\ tail' < MaxNodes
        BY <1>1, <1>3, <3>1, <3>2
      <3> QED BY <3>4, <3>5, <3>6, <3>7
    <2>2. CASE writer + n < Block
      <3>1. writer' = writer + n /\ UNCHANGED <<link, tail, nodes>>
        BY <1>3, <2>2 DEF CommitWrite
      <3> QED BY <1>1, <1>3, <2>2, <3>1
    <2> QED BY <1>3, <2>1, <2>2
  <1>5. readable' \in 0 .. Block * MaxNodes
    <2>1. Base(tail') + Block <= Base(MaxNodes)
      <3>1. tail' < MaxNodes /\ tail' \in Nat
        BY <1>4, Zenon
      <3> QED BY <3>1, Bases
    <2>2. Base(MaxNodes) = Block * MaxNodes /\ Base(MaxNodes) \in Nat
      BY Bases DEF Base
    <2>3. PICK m \in Nat : m = Block * MaxNodes /\ m = Base(MaxNodes)
      BY <2>2
    <2>4. readable' \in 0 .. m
      <3>1. PICK h, t, w, r :
                /\ h \in Nat /\ t \in Nat
                /\ h = Base(head) /\ t = Base(tail') /\ w = writer' /\ r = readable'
        BY <1>1, <1>4
      <3>2. w \in 0 .. Block - 1 /\ r \in Nat /\ t + Block <= m
        BY <1>1, <1>2, <1>4, <2>1, <2>3, <3>1
      <3>3. h + reader + r = t + w /\ reader \in Nat /\ h \in Nat /\ t \in Nat
        BY <1>1, <1>2, <1>3, <1>4, <3>1
      <3>4. r \in 0 .. m
        BY <3>2, <3>3
      <3> QED BY <3>1, <3>4
    <2> QED BY <2>3, <2>4
  <1>6. TypeOK'
    <2>1. tail' \in Nodes /\ writer' \in Cells
      <3>1. tail' < MaxNodes /\ tail' \in Nat /\ writer' \in 0 .. Block - 1
        BY <1>4, Zenon
      <3> QED BY <3>1 DEF Nodes, Cells
    <2>2. lastread' \in Nat /\ filled' \in 0 .. grant' /\ grant' \in 0 .. Block
      BY <1>2, <1>3
    <2> QED BY <1>2, <1>4, <1>5, <2>1, <2>2 DEF Shape, TypeOK
  <1>7. Chained'
    <2>1. Base(head) + reader + readable' = Base(tail') + writer'
      BY <1>1, <1>2, <1>3, <1>4
    <2>2. head <= tail'
      <3>1. tail' \in Nat /\ tail <= tail'
        BY <1>4, Zenon
      <3> QED BY <1>1, <3>1
    <2> QED BY <1>2, <1>4, <2>1, <2>2 DEF Chained
  <1>8. Regions'
    <2>1. view <= readable' /\ known <= readable'
      BY <1>1, <1>2, <1>3
    <2>2. writer' + grant' <= Block
      <3>1. writer' \in 0 .. Block - 1
        BY <1>4, Zenon
      <3>2. grant' = 0
        BY <1>2
      <3>3. \A w \in 0 .. Block - 1 : w + 0 <= Block
        OBVIOUS
      <3> QED BY ONLY <3>1, <3>2, <3>3
    <2> QED BY <1>2, <1>3, <2>1, <2>2 DEF Regions
  <1> QED BY <1>1, <1>2, <1>4, <1>6, <1>7, <1>8 DEF Shape

-----------------------------------------------------------------------------
(* ... and under the reader's *)

\* A place in the chain is a value of m_position, m_next and m_offset.
LEMMA OnType ==
    ASSUME Shape, NEW c, On(c)
    PROVE  c \in [position : Nat, node : Nodes \cup {NoNode}, offset : 0 .. Block]
  <1>1. /\ c \in [position : 0 .. readable, node : head .. tail, offset : 0 .. Block]
        /\ readable \in Nat /\ head \in Nat /\ tail \in Nat /\ tail < MaxNodes
    BY ShapeNumbers DEF On
  <1>2. c.position \in Nat /\ c.node \in Nodes /\ c.offset \in 0 .. Block
    BY <1>1, Sizes DEF Nodes
  <1> QED BY <1>1, <1>2

\* What the variables of the message reader may be
Typed(l, p, v, k, e, f, m, x, c) ==
    /\ l \in Nat /\ v \in 0 .. Block /\ reader + v <= Block /\ v <= readable /\ k \in 0 .. readable
    /\ p \in {"wait", "check", "shown", "scan", "handle", "error"}
    /\ e \in Nat /\ f \in Seq(Byte) /\ m \in Nat /\ x \in Nat
    /\ c \in [position : Nat, node : Nodes \cup {NoNode}, offset : 0 .. Block]

\* They are that already.
LEMMA TypedNow ==
    ASSUME Shape
    PROVE  Typed(lastread, phase, view, known, expect, field, msize, limit, cursor)
  <1>1. known \in Nat /\ readable \in Nat /\ known <= readable
    <2>1. known \in 0 .. Block * MaxNodes /\ Block * MaxNodes \in Nat
      BY Sizes DEF Shape, TypeOK
    <2> QED BY <2>1, ShapeNumbers DEF Shape, Regions
  <1> QED BY <1>1 DEF Typed, Shape, TypeOK, Regions

(***************************************************************************)
(* A reader that consumes nothing keeps the chain.                         *)
(***************************************************************************)
LEMMA ReaderShape ==
    ASSUME Shape, Still, UNCHANGED <<use, grant, filled>>,
           Typed(lastread', phase', view', known', expect', field', msize', limit', cursor')
    PROVE  Shape'
  <1>1. UNCHANGED <<use, head, reader, readable, mem, link, nodes, tail, writer, grant, filled>>
    BY DEF Still
  <1>2. readable \in 0 .. Block * MaxNodes /\ known' \in 0 .. readable /\ Block * MaxNodes \in Nat
    BY Sizes DEF Shape, TypeOK, Typed
  <1>3. known' \in 0 .. Block * MaxNodes /\ known' <= readable
    BY <1>2
  <1>4. TypeOK'
    BY <1>1, <1>3 DEF Shape, TypeOK, Typed
  <1>5. Chained'
    BY <1>1 DEF Shape, Chained
  <1>6. Regions'
    BY <1>1, <1>3 DEF Shape, Regions, Typed
  <1> QED BY <1>4, <1>5, <1>6 DEF Shape

(***************************************************************************)
(* commit_read() goes along the chain to the first byte that stays.        *)
(***************************************************************************)
LEMMA ConsumeShape ==
    ASSUME Shape, NEW n \in 0 .. readable, Consume(n),
           UNCHANGED <<use, mem, link, nodes, tail, writer, grant, filled>>,
           Typed(lastread', phase', 0, 0, expect', field', msize', limit', cursor')
    PROVE  /\ Shape' /\ readable' = readable - n /\ view' = 0 /\ known' = 0
           /\ Base(head') + reader' = Base(head) + reader + n
  <1>1. PICK x \in head .. tail, c \in Cells :
            Along(n) = <<x, c>> /\ Base(x) + c = Base(head) + reader + n
    BY AlongIs
  <1>2. /\ readable' = readable - n /\ head' = x /\ reader' = c /\ view' = 0 /\ known' = 0
    BY <1>1 DEF Consume
  <1>3. /\ head \in Nat /\ tail \in Nat /\ head <= tail /\ tail < MaxNodes
        /\ reader \in Cells /\ writer \in Cells /\ readable \in Nat
        /\ Base(head) \in Nat /\ Base(tail) \in Nat
        /\ Base(head) + reader + readable = Base(tail) + writer
        /\ \A i \in 0 .. tail - 1 : link[i] = i + 1
    BY ShapeNumbers
  <1>4. c \in 0 .. Block - 1 /\ reader \in 0 .. Block - 1 /\ Block \in Nat /\ Base(x) \in Nat
    <2>1. x \in Nat
      BY <1>3
    <2> QED BY <1>3, <2>1, Bases, Sizes DEF Cells
  <1>5. readable' \in 0 .. Block * MaxNodes
    <2>1. readable \in 0 .. Block * MaxNodes /\ Block * MaxNodes \in Nat
      BY Sizes DEF Shape, TypeOK
    <2> QED BY <1>2, <2>1
  <1>6. TypeOK'
    <2>1. head' \in Nodes /\ reader' \in Cells
      BY <1>2, <1>3, Sizes DEF Nodes
    <2>2. view' \in 0 .. Block /\ known' \in 0 .. Block * MaxNodes
      <3>1. Block * MaxNodes \in Nat
        BY Sizes
      <3> QED BY <1>2, <1>4, <3>1
    <2>3. /\ use' \in {"send", "zero", "length"}
          /\ mem' \in [Nodes -> [Cells -> Byte]]
          /\ link' \in [Nodes -> Nodes \cup {NoNode}]
          /\ nodes' \in 1 .. MaxNodes /\ tail' \in Nodes /\ writer' \in Cells
          /\ grant' \in 0 .. Block /\ filled' \in 0 .. grant'
      BY DEF Shape, TypeOK
    <2> QED BY <1>5, <2>1, <2>2, <2>3 DEF TypeOK, Typed
  <1>7. Chained'
    <2>1. x <= tail
      BY <1>3
    <2>2. Base(x) + c + (readable - n) = Base(tail) + writer
      <3>1. writer \in Nat
        BY <1>3, Sizes DEF Cells
      <3> QED BY <1>1, <1>3, <1>4, <3>1
    <2>3. tail' = nodes' - 1 /\ \A i \in 0 .. tail' - 1 : link'[i] = i + 1
      BY <1>3 DEF Shape, Chained
    <2> QED BY <1>2, <2>1, <2>2, <2>3 DEF Chained
  <1>8. Regions'
    BY <1>2, <1>3, <1>4 DEF Shape, Regions
  <1> QED BY <1>1, <1>2, <1>6, <1>7, <1>8 DEF Shape

(***************************************************************************)
(* clear() leaves one block, and nothing in it.                            *)
(***************************************************************************)
LEMMA ClearShape ==
    ASSUME Shape, Clear
    PROVE  Shape'
  <1>1. /\ grant = 0 /\ link' = [link EXCEPT ![0] = NoNode] /\ nodes' = 1
        /\ head' = 0 /\ tail' = 0 /\ reader' = 0 /\ writer' = 0
        /\ readable' = 0 /\ lastread' = 0
        /\ phase' = "wait" /\ view' = 0 /\ known' = 0
        /\ expect' = 0 /\ field' = <<>> /\ msize' = 0 /\ limit' = 0
        /\ cursor' = Start(0, 0)
        /\ UNCHANGED <<use, mem, grant, filled>>
    BY DEF Clear
  <1>2. 0 \in Nodes /\ 0 \in Cells /\ nodes' \in 1 .. MaxNodes /\ field' \in Seq(Byte)
    BY <1>1, Sizes DEF Nodes, Cells
  <1>3. Block * MaxNodes \in Nat /\ Block \in Nat
    BY Sizes
  <1>4. Start(0, 0) \in [position : Nat, node : Nodes \cup {NoNode}, offset : 0 .. Block]
    BY <1>2, <1>3 DEF Start
  <1>5. TypeOK'
    BY <1>1, <1>2, <1>3, <1>4 DEF Shape, TypeOK
  <1>6. Chained'
    BY <1>1, Bases DEF Chained
  <1>7. Regions'
    BY <1>1, Sizes DEF Regions
  <1> QED BY <1>5, <1>6, <1>7 DEF Shape

-----------------------------------------------------------------------------
(* The steps keep the invariant *)

(***************************************************************************)
(* What the first bytes are does not change when more are added.           *)
(***************************************************************************)
LEMMA GrownPrefix ==
    ASSUME Shape, Shape', Grown, NEW k \in Nat, k <= readable
    PROVE  SubSeq(Queue', 1, k) = SubSeq(Queue, 1, k)
  <1>1. Queue \in Seq(Byte) /\ Len(Queue) = readable /\ readable \in Nat
    BY QueueNow, ShapeNumbers DEF QueueBytes
  <1>2. Queue' \in Seq(Byte) /\ Len(Queue') = readable' /\ readable' \in Nat
    <2>1. QueueBytes'
      BY QueueThen
    <2>2. readable' \in 0 .. Block * MaxNodes /\ Block * MaxNodes \in Nat
      BY Sizes DEF Shape, TypeOK
    <2> QED BY <2>1, <2>2 DEF QueueBytes
  <1>3. k <= readable' /\ \A i \in 1 .. k : Queue'[i] = Queue[i]
    BY <1>1, <1>2 DEF Grown
  <1> DEFINE q == Queue  r == Queue'
  <1>4. /\ q \in Seq(Byte) /\ r \in Seq(Byte) /\ k <= Len(q) /\ k <= Len(r)
        /\ \A i \in 1 .. k : r[i] = q[i]
    BY <1>1, <1>2, <1>3
  <1> HIDE DEF q, r
  <1>5. SubSeq(q, 1, k) = SubSeq(r, 1, k)
    BY <1>4
  <1> QED BY <1>5 DEF q, r

(***************************************************************************)
(* A new buffer has no message begun.                                      *)
(***************************************************************************)
LEMMA InvInit == Init => IInv
  <1> SUFFICES ASSUME Init PROVE IInv
    OBVIOUS
  <1>1. Shape
    BY ShapeInit
  <1>2. /\ head = 0 /\ reader = 0 /\ readable = 0 /\ lastread = 0 /\ phase = "wait"
        /\ field = <<>> /\ msize = 0 /\ limit = 0 /\ cursor = Start(head, reader)
    BY DEF Init
  <1>3. On(cursor) /\ cursor.position = 0
    BY <1>1, <1>2, StartsOn
  <1> QED BY <1>1, <1>2, <1>3, Sizes DEF IInv, Token, AtZero, AtLength, AtHandler

(***************************************************************************)
(* The writer's steps leave the reader where it is, but for the commit     *)
(* that wakes it.                                                          *)
(***************************************************************************)
LEMMA MessageKeeps ==
    ASSUME IInv, Shape', Grown, head' = head, reader' = reader, tail <= tail',
           UNCHANGED <<use, known, field, msize, limit, cursor>>,
           phase' = phase \/ (phase = "wait" /\ phase' = "check"),
           lastread' = 0 <=> phase' = "wait"
    PROVE  IInv'
  <1> USE Sizes
  <1>0. Shape /\ Token /\ AtHandler /\ (use = "zero" => AtZero) /\ (use = "length" => AtLength)
    BY DEF IInv
  <1>1. readable \in Nat /\ readable <= readable' /\ readable' \in Nat
    BY <1>0, ShapeNumbers DEF Grown, Shape, TypeOK
  <1>2. use # "send" => On(cursor)'
    <2> SUFFICES ASSUME use # "send" PROVE On(cursor)'
      OBVIOUS
    <2>1. PICK c : c = cursor
      OBVIOUS
    <2>2. On(c)
      BY <1>0, <2>1 DEF Token
    <2>3. On(c)'
      BY <1>0, <1>1, <2>2, StaysOn
    <2> QED BY <2>1, <2>3 DEF On
  <1>3. Token'
    BY <1>0, <1>2 DEF Token
  <1>4. LengthKnown => LengthKnown'
    <2> SUFFICES ASSUME LengthKnown PROVE LengthKnown'
      OBVIOUS
    <2>1. SubSeq(Queue', 1, LenBytes) = SubSeq(Queue, 1, LenBytes)
      BY <1>0, GrownPrefix DEF LengthKnown
    <2>2. /\ msize \in LenBytes .. MaxLen /\ LenBytes <= readable
          /\ msize = LengthOf[SubSeq(Queue, 1, LenBytes)]
      BY DEF LengthKnown
    <2>3. LenBytes <= readable'
      BY <1>1, <2>2
    <2> QED BY <2>1, <2>2, <2>3 DEF LengthKnown
  <1>5. \A k \in Nat : k <= readable => \A i \in 1 .. k : Queue'[i] = Queue[i]
    BY <1>1 DEF Grown
  <1> HIDE DEF Queue
  <1>6. use' = "length" => AtLength'
    <2> SUFFICES ASSUME use = "length" PROVE AtLength'
      OBVIOUS
    <2>1. AtLength /\ LenBytes \in Nat
      BY <1>0
    <2>2. phase = "scan" => \A i \in 1 .. Len(field) : field[i] = Queue'[i]
      <3> SUFFICES ASSUME phase = "scan" PROVE \A i \in 1 .. Len(field) : field[i] = Queue'[i]
        OBVIOUS
      <3>1. Len(field) \in Nat /\ Len(field) <= readable /\ \A i \in 1 .. Len(field) : field[i] = Queue[i]
        <4>1. field \in Seq(Byte)
          BY <1>0 DEF Shape, TypeOK
        <4> QED BY <1>1, <2>1, <4>1 DEF AtLength
      <3> QED BY <1>5, <3>1
    <2>3. LenBytes <= readable => LenBytes <= readable'
      BY <1>1
    <2> QED BY <1>4, <2>1, <2>2, <2>3 DEF AtLength
  <1>7. use' = "zero" => AtZero'
    <2> SUFFICES ASSUME use = "zero" PROVE AtZero'
      OBVIOUS
    <2>1. AtZero /\ msize \in Nat /\ On(cursor)
      BY <1>0 DEF Shape, TypeOK, Token
    <2>2. cursor.position \in 0 .. readable
      BY <2>1 DEF On
    <2>3. phase = "handle" => msize \in 1 .. MaxLen
      BY <1>0 DEF AtHandler
    <2>4. ASSUME phase' \in {"wait", "check", "scan"} PROVE \A i \in 1 .. msize : Queue'[i] # 0
      <3>1. phase \in {"wait", "check", "scan"}
        BY <2>4
      <3>2. msize <= readable /\ \A i \in 1 .. msize : Queue[i] # 0
        BY <1>1, <2>1, <2>2, <3>1 DEF AtZero
      <3> QED BY <1>5, <2>1, <3>2
    <2>5. ASSUME phase' = "handle"
          PROVE  /\ msize <= readable' /\ Queue'[msize] = 0
                 /\ \A i \in 1 .. msize - 1 : Queue'[i] # 0
      <3>1. phase = "handle" /\ msize \in 1 .. MaxLen
        BY <2>3, <2>5
      <3>2. /\ msize <= readable /\ Queue[msize] = 0
            /\ \A i \in 1 .. msize - 1 : Queue[i] # 0
        BY <2>1, <3>1 DEF AtZero
      <3>3. \A i \in 1 .. msize : Queue'[i] = Queue[i]
        BY <1>5, <2>1, <3>2
      <3>4. msize \in 1 .. msize /\ \A i \in 1 .. msize - 1 : i \in 1 .. msize
        BY <3>1
      <3> QED BY <1>1, <2>1, <3>2, <3>3, <3>4
    <2>6. phase' = "scan" => readable' > 0
      BY <1>1, <2>1 DEF AtZero
    <2>7. phase' \in {"wait", "check", "scan"} =>
             limit' = 0 /\ msize' = cursor'.position /\ msize' <= MaxLen
      BY <2>1 DEF AtZero
    <2> QED BY <2>4, <2>5, <2>6, <2>7 DEF AtZero
  <1>8. AtHandler'
    BY <1>0 DEF AtHandler
  <1> QED BY <1>3, <1>6, <1>7, <1>8 DEF IInv

(***************************************************************************)
(* strlen() ends at a zero of the piece, or passes all of it.              *)
(***************************************************************************)
LEMMA EndedIs ==
    ASSUME NEW p, p.from \in Cells, p.len \in Nat \ {0}, p.from + p.len <= Block
    PROVE  /\ Ended(p) \in 0 .. p.len
           /\ Ended(p) > 0 => /\ mem[p.node][p.from + Ended(p) - 1] = 0
                              /\ \A i \in 1 .. Ended(p) - 1 : mem[p.node][p.from + i - 1] # 0
           /\ Ended(p) = 0 => \A i \in 1 .. p.len : mem[p.node][p.from + i - 1] # 0
  <1>1. PICK from, len, b : from = p.from /\ len = p.len /\ b = mem[p.node]
    OBVIOUS
  <1>2. from \in Nat /\ from < Block /\ Block \in Nat /\ len \in Nat \ {0} /\ from + len <= Block
    BY <1>1, Sizes DEF Cells
  <1> DEFINE Stop(n) == from + n = Block \/ b[from + n] = 0
             stops == {n \in 0 .. Block - from : Stop(n)}
  <1>3. Block - from \in stops /\ stops \in SUBSET Nat
    <2> DEFINE end == Block - from
    <2>1. end \in 0 .. end /\ from + end = Block /\ end \in Nat
      BY <1>2
    <2>2. end \in stops
      BY <2>1
    <2>3. \A n \in stops : n \in Nat
      BY <1>2
    <2> HIDE DEF stops
    <2> QED BY <2>2, <2>3
  <1>4. PICK n \in stops : \A k \in stops : n <= k
    <2> HIDE DEF stops
    <2> QED BY <1>3, LeastNumber
  <1>5. n \in 0 .. Block - from /\ Stop(n) /\ \A m \in 0 .. n - 1 : b[from + m] # 0
    <2>1. n \in 0 .. Block - from /\ Stop(n)
      BY <1>4
    <2> SUFFICES ASSUME NEW m \in 0 .. n - 1, b[from + m] = 0 PROVE FALSE
      BY <2>1
    <2>2. m \in 0 .. Block - from /\ Stop(m) /\ m < n
      BY <1>2, <2>1
    <2>3. m \in stops
      BY <2>2
    <2> HIDE DEF stops
    <2> QED BY <1>2, <1>4, <2>1, <2>2, <2>3
  <1>6. PICK l : l = Strlen(p)
    OBVIOUS
  <1>7. l \in 0 .. Block - from /\ (from + l = Block \/ b[from + l] = 0) /\ \A m \in 0 .. l - 1 : b[from + m] # 0
    <2>1. \E k \in 0 .. Block - p.from :
             /\ p.from + k = Block \/ mem[p.node][p.from + k] = 0
             /\ \A m \in 0 .. k - 1 : mem[p.node][p.from + m] # 0
      BY <1>1, <1>5
    <2> QED BY <1>1, <1>6, <2>1 DEF Strlen
  <1>8. PICK e : e = IF l + 1 <= len THEN l + 1 ELSE 0
    OBVIOUS
  <1>9. Ended(p) = e
    BY <1>1, <1>6, <1>8 DEF Ended
  <1>10. CASE l + 1 <= len
    <2>1. e = l + 1 /\ e \in 1 .. len /\ from + e - 1 = from + l
      BY <1>2, <1>7, <1>8, <1>10
    <2>2. b[from + l] = 0
      BY <1>2, <1>7, <1>10
    <2>3. \A i \in 1 .. e - 1 : b[from + i - 1] # 0
      <3> SUFFICES ASSUME NEW i \in 1 .. e - 1 PROVE b[from + i - 1] # 0
        OBVIOUS
      <3>1. i - 1 \in 0 .. l - 1 /\ from + (i - 1) = from + i - 1
        BY <1>2, <1>7, <2>1
      <3> QED BY <1>7, <3>1
    <2> QED BY <1>1, <1>9, <2>1, <2>2, <2>3
  <1>11. CASE ~(l + 1 <= len)
    <2>1. e = 0
      BY <1>8, <1>11
    <2>2. \A i \in 1 .. len : b[from + i - 1] # 0
      <3> SUFFICES ASSUME NEW i \in 1 .. len PROVE b[from + i - 1] # 0
        OBVIOUS
      <3>1. i - 1 \in 0 .. l - 1 /\ from + (i - 1) = from + i - 1
        BY <1>2, <1>7, <1>11
      <3> QED BY <1>7, <3>1
    <2> QED BY <1>1, <1>2, <1>9, <2>1, <2>2
  <1> QED BY <1>10, <1>11

\* The invariant when the queue and the message's place in it are as they were
LEMMA Splits ==
    ASSUME IInv
    PROVE  /\ Shape /\ Token /\ AtHandler
           /\ use = "zero" => AtZero
           /\ use = "length" => AtLength
           /\ use \in {"send", "zero", "length"}
           /\ lastread \in Nat /\ readable \in Nat /\ known \in 0 .. readable /\ view \in 0 .. Block
           /\ reader + view <= Block /\ view <= readable
           /\ expect \in Nat /\ field \in Seq(Byte) /\ msize \in Nat /\ limit \in Nat
           /\ Typed(lastread, phase, view, known, expect, field, msize, limit, cursor)
           /\ reader \in 0 .. Block - 1
  <1>1. Shape /\ Token /\ AtHandler /\ (use = "zero" => AtZero) /\ (use = "length" => AtLength)
    BY DEF IInv
  <1>2. Typed(lastread, phase, view, known, expect, field, msize, limit, cursor)
    BY <1>1, TypedNow
  <1>3. use \in {"send", "zero", "length"}
    BY <1>1 DEF Shape, TypeOK
  <1>4. readable \in Nat /\ reader \in 0 .. Block - 1
    BY <1>1, ShapeNumbers DEF Cells
  <1> QED BY <1>1, <1>2, <1>3, <1>4 DEF Typed

\* A new place in an unchanged chain
LEMMA NewOn ==
    ASSUME Still, On(cursor')
    PROVE  On(cursor)'
  BY DEF Still, On

\* What a handler reads is the length that was read.
LEMMA LengthStays ==
    ASSUME Still, Queue' = Queue, msize' = msize, LengthKnown
    PROVE  LengthKnown'
  <1> HIDE DEF Queue
  <1> QED BY DEF Still, LengthKnown

\* Inside the block
LEMMA Room ==
    ASSUME NEW b \in Nat, NEW r \in Nat, NEW v \in Nat, NEW m, m = b - r, v <= m
    PROVE  r + v <= b
  OBVIOUS

(***************************************************************************)
(* read() shows no more than the block has.                                *)
(***************************************************************************)
LEMMA ReadKeeps ==
    ASSUME IInv, NEW size \in 1 .. Block, Read(size)
    PROVE  /\ IInv' /\ Still /\ Queue' = Queue
           /\ phase = "check" /\ UNCHANGED <<grant, filled>>
           /\ view' \in 0 .. size /\ known' = view' /\ lastread' = view'
           /\ view' = 0 => readable = 0
  <1> USE Sizes, Splits
  <1>1. /\ use = "send" /\ phase = "check"
        /\ view' = Least(size, Least(Block - reader, readable))
        /\ known' = view' /\ lastread' = view'
        /\ phase' = IF view' = 0 THEN "wait" ELSE "shown"
        /\ UNCHANGED <<expect, field, msize, limit, cursor>>
        /\ UNCHANGED <<use, head, reader, readable, mem, link, nodes, tail, writer, grant, filled>>
    BY DEF Read, chainVars, messageVars
  <1>2. /\ view' \in 0 .. size /\ reader + view' <= Block /\ view' <= readable
        /\ view' = 0 => readable = 0
    <2>1. PICK room : room = Block - reader
      OBVIOUS
    <2>2. room \in 1 .. Block /\ readable \in Nat /\ size \in 1 .. Block
      BY <2>1
    <2>3. PICK most : most = Least(room, readable)
      OBVIOUS
    <2>4. most \in 0 .. room /\ most <= readable /\ (most = 0 => readable = 0)
      BY <2>2, <2>3 DEF Least
    <2>5. view' = Least(size, most)
      BY <1>1, <2>1, <2>3, Zenon
    <2>6. view' \in 0 .. size /\ view' <= most /\ (view' = 0 => most = 0)
      BY <2>2, <2>4, <2>5 DEF Least
    <2>7. Block \in Nat /\ reader \in Nat
      BY Splits
    <2>8. view' <= room /\ view' \in 0 .. size /\ view' <= readable
      BY <2>2, <2>4, <2>6
    <2>9. reader + view' <= Block
      <3>1. view' \in Nat
        BY <2>2, <2>8
      <3> QED BY <2>1, <2>7, <2>8, <3>1, Room, Zenon
    <2> QED BY <2>4, <2>6, <2>8, <2>9
  <1>3. Still
    BY <1>1 DEF Still
  <1>4. Typed(lastread', phase', view', known', expect', field', msize', limit', cursor')
    BY <1>1, <1>2 DEF Typed
  <1>5. Shape'
    BY <1>1, <1>3, <1>4, ReaderShape
  <1>6. Token' /\ AtHandler'
    BY <1>1 DEF Token, AtHandler
  <1> QED BY <1>1, <1>2, <1>3, <1>5, <1>6, QueueStays DEF IInv

(***************************************************************************)
(* commit_read() leaves nothing shown.                                     *)
(***************************************************************************)
LEMMA CommitReadKeeps ==
    ASSUME IInv, NEW n \in 1 .. Block, CommitRead(n)
    PROVE  /\ IInv' /\ n \in 0 .. readable /\ n <= known /\ readable' = readable - n
           /\ Base(head') + reader' = Base(head) + reader + n
           /\ view' = 0 /\ known' = 0
           /\ UNCHANGED <<mem, tail, writer, grant, filled, lastread>>
           /\ phase = "shown" /\ phase' = "check"
  <1> USE Sizes, Splits
  <1>1. /\ use = "send" /\ phase = "shown" /\ n <= known /\ Consume(n) /\ phase' = "check"
        /\ UNCHANGED <<lastread, expect, field, msize, limit, cursor>>
        /\ UNCHANGED <<use, mem, link, nodes, tail, writer, grant, filled>>
    BY DEF CommitRead, chainVars, messageVars
  <1>2. n \in 0 .. readable
    BY <1>1
  <1>3. Typed(lastread', phase', 0, 0, expect', field', msize', limit', cursor')
    BY <1>1 DEF Typed
  <1>4. /\ Shape' /\ readable' = readable - n /\ view' = 0 /\ known' = 0
        /\ Base(head') + reader' = Base(head) + reader + n
    BY <1>1, <1>2, <1>3, ConsumeShape
  <1>5. Token' /\ AtHandler'
    BY <1>1 DEF Token, AtHandler
  <1> QED BY <1>1, <1>2, <1>4, <1>5 DEF IInv

\* What the reader knows after readable_size()
LEMMA AskedIs ==
    ASSUME IInv, NEW exp \in Nat, Asked(exp)
    PROVE  /\ lastread' \in {0, readable} /\ known' = lastread'
           /\ lastread' = 0 => readable < exp \/ readable = 0
           /\ lastread' # 0 => exp <= readable
           /\ readable < exp => lastread' = 0
  BY Splits DEF Asked

(***************************************************************************)
(* comfirm() of pares_zero asks for one byte more than it has seen.        *)
(***************************************************************************)
LEMMA CheckKeeps ==
    ASSUME IInv, Check
    PROVE  IInv' /\ Still /\ Queue' = Queue
  <1> USE Splits
  <1>1. /\ use = "zero" /\ phase = "check" /\ Asked(expect)
        /\ IF lastread' = 0 THEN phase' = "wait" /\ expect' = 0
                            ELSE phase' = "scan" /\ expect' = lastread' + 1
        /\ UNCHANGED <<view, field, msize, limit, cursor>>
        /\ UNCHANGED <<use, head, reader, readable, mem, link, nodes, tail, writer, grant, filled>>
    BY DEF Check, chainVars
  <1>2. lastread' \in {0, readable} /\ known' = lastread' /\ lastread' \in Nat
    BY <1>1, AskedIs
  <1>3. Still
    BY <1>1 DEF Still
  <1>4. Typed(lastread', phase', view', known', expect', field', msize', limit', cursor')
    BY <1>1, <1>2 DEF Typed
  <1>5. Shape' /\ Queue' = Queue
    BY <1>1, <1>3, <1>4, ReaderShape, QueueStays
  <1>6. On(cursor)'
    BY <1>1, <1>3, NewOn DEF Token
  <1>7. Token' /\ AtHandler'
    BY <1>1, <1>2, <1>6 DEF Token, AtHandler
  <1>8. AtZero'
    <2> HIDE DEF Queue
    <2>1. lastread' # 0 => readable' > 0
      BY <1>1, <1>2
    <2> QED BY <1>1, <1>5, <2>1 DEF AtZero
  <1> QED BY <1>1, <1>3, <1>5, <1>7, <1>8 DEF IInv

(***************************************************************************)
(* comfirm() of pares_zero passes one more piece, or finds the zero in it. *)
(***************************************************************************)
ScanView ==
    /\ use = "zero" /\ phase = "scan" /\ Asked(0)
    /\ UNCHANGED <<view, expect, field>>
    /\ UNCHANGED <<use, head, reader, readable, mem, link, nodes, tail, writer, grant, filled>>

\* A step of Scan is the one or the other.
ScanStops ==
    readable <= cursor.position /\ phase' = "check" /\ UNCHANGED <<msize, limit, cursor>>
ScanEnds(p) ==
    /\ Ended(p) > 0 /\ msize' = msize + Ended(p)
    /\ IF msize' > MaxLen
       THEN phase' = "error" /\ cursor' = Moved(cursor, p) /\ UNCHANGED limit
       ELSE phase' = "handle" /\ limit' = msize' /\ cursor' = Start(head, reader)
ScanPasses(p) ==
    /\ ~(Ended(p) > 0) /\ msize' = msize + p.len
    /\ cursor' = Moved(cursor, p)
    /\ phase' = IF msize' > MaxLen THEN "error" ELSE "scan"
    /\ UNCHANGED limit

\* What comfirm() knows when it looks at the next piece
LEMMA ScanKnows ==
    ASSUME IInv, Scan
    PROVE  /\ ScanView /\ Still /\ lastread' = readable /\ known' = readable
           /\ readable \in Nat \ {0}
           /\ limit = 0 /\ msize \in Nat /\ msize = cursor.position /\ msize <= MaxLen
           /\ \A i \in 1 .. msize : Queue[i] # 0
           /\ On(cursor)
           /\ \/ ScanStops
              \/ cursor.position < readable
                 /\ (ScanEnds(Piece(cursor, 0, readable)) \/ ScanPasses(Piece(cursor, 0, readable)))
  <1> USE Splits
  <1> HIDE DEF Queue
  <1>1. ScanView
    BY DEF Scan, ScanView, chainVars
  <1>2. /\ AtZero /\ phase = "scan" /\ use = "zero" /\ readable \in Nat
    BY <1>1 DEF ScanView
  <1>3. /\ readable \in Nat \ {0}
        /\ limit = 0 /\ msize \in Nat /\ msize = cursor.position /\ msize <= MaxLen
        /\ \A i \in 1 .. msize : Queue[i] # 0
    BY <1>2 DEF AtZero
  <1>4. lastread' = readable /\ known' = readable
    BY <1>1, <1>3 DEF ScanView, Asked
  <1>5. Still
    BY <1>1 DEF ScanView, Still
  <1>6. On(cursor)
    BY <1>2 DEF Token
  <1>7. \/ ScanStops
        \/ ~(readable <= cursor.position)
           /\ (ScanEnds(Piece(cursor, 0, readable)) \/ ScanPasses(Piece(cursor, 0, readable)))
    BY <1>4 DEF Scan, ScanStops, ScanEnds, ScanPasses
  <1>8. \/ ScanStops
        \/ cursor.position < readable
           /\ (ScanEnds(Piece(cursor, 0, readable)) \/ ScanPasses(Piece(cursor, 0, readable)))
    BY <1>3, <1>7
  <1> QED BY <1>1, <1>3, <1>4, <1>5, <1>6, <1>8, Zenon

\* Whatever the piece holds, the bytes passed are no zeros and the one found is the first.
LEMMA ScanKeeps ==
    ASSUME IInv, Scan
    PROVE  IInv' /\ Still /\ Queue' = Queue
  <1> HIDE DEF Queue
  <1>1. /\ ScanView /\ Still /\ lastread' = readable /\ known' = readable
        /\ readable \in Nat \ {0}
        /\ limit = 0 /\ msize \in Nat /\ msize = cursor.position /\ msize <= MaxLen
        /\ \A i \in 1 .. msize : Queue[i] # 0
        /\ On(cursor) /\ Shape
    BY ScanKnows, Splits
  <1>2. SUFFICES ASSUME NEW W, W = Queue PROVE IInv' /\ Still /\ Queue' = W
    OBVIOUS
  <1>3. /\ view' = view /\ expect' = expect /\ field' = field
        /\ use' = "zero" /\ use' = use /\ grant' = grant /\ filled' = filled /\ readable' = readable
        /\ head' = head /\ reader' = reader /\ tail' = tail
    BY <1>1 DEF ScanView
  <1>4. ASSUME /\ On(cursor') /\ phase' \in {"check", "scan", "handle", "error"}
               /\ msize' \in Nat /\ limit' \in Nat
               /\ AtHandler'
               /\ phase' \in {"check", "scan"} =>
                     /\ limit' = 0 /\ msize' = cursor'.position /\ msize' <= MaxLen
                     /\ \A i \in 1 .. msize' : W[i] # 0
               /\ phase' = "handle" =>
                     msize' <= readable /\ W[msize'] = 0 /\ \A i \in 1 .. msize' - 1 : W[i] # 0
        PROVE  IInv' /\ Still /\ Queue' = W
    <2>1. cursor' \in [position : Nat, node : Nodes \cup {NoNode}, offset : 0 .. Block]
      BY <1>1, <1>4, OnType
    <2>2. Typed(lastread', phase', view', known', expect', field', msize', limit', cursor')
      BY <1>1, <1>3, <1>4, <2>1, Splits DEF Typed
    <2>3. Shape' /\ Queue' = W
      BY <1>1, <1>2, <1>3, <2>2, ReaderShape, QueueStays
    <2>4. On(cursor)'
      BY <1>1, <1>4, NewOn
    <2>5. Token'
      BY <1>1, <1>3, <1>4, <2>4, Splits DEF Token
    <2>6. AtZero'
      <3>1. phase' # "wait" /\ readable' > 0
        BY <1>1, <1>3, <1>4
      <3>2. phase' \in {"check", "scan"} =>
               /\ limit' = 0 /\ msize' = cursor'.position /\ msize' <= MaxLen
               /\ \A i \in 1 .. msize' : Queue'[i] # 0
        BY <1>4, <2>3
      <3>3. phase' = "handle" =>
               msize' <= readable' /\ Queue'[msize'] = 0 /\ \A i \in 1 .. msize' - 1 : Queue'[i] # 0
        BY <1>3, <1>4, <2>3
      <3> QED BY <3>1, <3>2, <3>3 DEF AtZero
    <2> QED BY <1>1, <1>3, <1>4, <2>3, <2>5, <2>6, Splits DEF IInv
  <1>5. CASE ScanStops
    <2>1. phase' = "check" /\ UNCHANGED <<msize, limit, cursor>>
      BY <1>5 DEF ScanStops
    <2>2. AtHandler'
      BY <2>1 DEF AtHandler
    <2> QED BY <1>1, <1>2, <1>4, <2>1, <2>2
  <1>6. CASE /\ cursor.position < readable
             /\ ScanEnds(Piece(cursor, 0, readable)) \/ ScanPasses(Piece(cursor, 0, readable))
    <2>1. PICK p : p = Piece(cursor, 0, readable)
      OBVIOUS
    <2>2. /\ p.node \in head .. tail /\ p.from \in Cells
          /\ p.len \in 1 .. readable - cursor.position /\ p.from + p.len <= Block
          /\ \A i \in 1 .. p.len : mem[p.node][p.from + i - 1] = Queue[cursor.position + i]
          /\ On(Moved(cursor, p)) /\ Moved(cursor, p).position = cursor.position + p.len
      <3>1. readable \in 0 .. readable /\ 0 \in Nat
        BY <1>1
      <3>2. Shape /\ On(cursor) /\ cursor.position < readable
        BY <1>1, <1>6
      <3> QED BY <2>1, <3>1, <3>2, PieceIs
    <2>3. PICK len, end : len = p.len /\ end = Ended(p)
      OBVIOUS
    <2>4. /\ len \in 1 .. readable - msize /\ end \in 0 .. len
          /\ end > 0 => W[msize + end] = 0 /\ \A i \in 1 .. end - 1 : W[msize + i] # 0
          /\ end = 0 => \A i \in 1 .. len : W[msize + i] # 0
      <3>1. len \in 1 .. readable - msize
        BY <1>1, <2>2, <2>3
      <3>2. p.len \in Nat \ {0}
        BY <1>1, <2>3, <3>1
      <3>3. /\ end \in 0 .. len
            /\ end > 0 => /\ mem[p.node][p.from + end - 1] = 0
                          /\ \A i \in 1 .. end - 1 : mem[p.node][p.from + i - 1] # 0
            /\ end = 0 => \A i \in 1 .. len : mem[p.node][p.from + i - 1] # 0
        BY <2>2, <2>3, <3>2, EndedIs
      <3>4. \A i \in 1 .. len : mem[p.node][p.from + i - 1] = W[msize + i]
        BY <1>1, <1>2, <2>2, <2>3
      <3>5. end > 0 => end \in 1 .. len /\ \A i \in 1 .. end - 1 : i \in 1 .. len
        BY <1>1, <3>1, <3>3
      <3> QED BY <3>1, <3>3, <3>4, <3>5
    <2>5. \A k \in Nat : (\A i \in 1 .. k : W[msize + i] # 0) => \A i \in 1 .. msize + k : W[i] # 0
      <3> SUFFICES ASSUME NEW k \in Nat, \A i \in 1 .. k : W[msize + i] # 0,
                          NEW i \in 1 .. msize + k
                   PROVE  W[i] # 0
        OBVIOUS
      <3>1. CASE i <= msize
        BY <1>1, <1>2, <3>1
      <3>2. CASE ~(i <= msize)
        <4>1. i - msize \in 1 .. k /\ msize + (i - msize) = i
          BY <1>1, <3>2
        <4> QED BY <1>1, <4>1
      <3> QED BY <3>1, <3>2
    <2>6. CASE ScanEnds(p) /\ ~(msize' > MaxLen)
      <3>1. /\ end > 0 /\ msize' = msize + end
            /\ phase' = "handle" /\ limit' = msize' /\ cursor' = Start(head, reader)
        BY <2>3, <2>6 DEF ScanEnds
      <3>2. /\ msize' \in 1 .. readable /\ msize' <= MaxLen /\ end - 1 \in Nat
            /\ msize' - 1 = msize + (end - 1)
        BY <1>1, <2>4, <2>6, <3>1, Sizes
      <3>3. On(cursor') /\ cursor'.position = 0
        BY <1>1, <3>1, StartsOn
      <3>4. AtHandler'
        BY <1>1, <3>1, <3>2, <3>3 DEF AtHandler
      <3>5. W[msize'] = 0 /\ \A i \in 1 .. msize' - 1 : W[i] # 0
        BY <2>4, <2>5, <3>1, <3>2
      <3>6. msize' \in Nat /\ limit' \in Nat /\ msize' <= readable
        BY <1>1, <3>1, <3>2
      <3> QED BY <1>4, <3>1, <3>3, <3>4, <3>5, <3>6
    <2>7. CASE ScanEnds(p) /\ msize' > MaxLen
      <3>1. /\ msize' = msize + end /\ phase' = "error" /\ cursor' = Moved(cursor, p)
            /\ limit' = limit
        BY <2>3, <2>7 DEF ScanEnds
      <3>2. msize' \in Nat /\ limit' \in Nat /\ On(cursor')
        BY <1>1, <2>2, <2>4, <3>1
      <3>3. AtHandler'
        BY <3>1 DEF AtHandler
      <3> QED BY <1>4, <3>1, <3>2, <3>3
    <2>8. CASE ScanPasses(p)
      <3>1. /\ ~(end > 0) /\ msize' = msize + len /\ cursor' = Moved(cursor, p) /\ limit' = limit
            /\ phase' = (IF msize' > MaxLen THEN "error" ELSE "scan")
        BY <2>3, <2>8 DEF ScanPasses
      <3>2. msize' \in Nat /\ limit' \in Nat /\ On(cursor') /\ cursor'.position = msize' /\ len \in Nat
        BY <1>1, <2>2, <2>3, <2>4, <3>1
      <3>3. AtHandler'
        BY <3>1 DEF AtHandler
      <3>4. \A i \in 1 .. msize' : W[i] # 0
        BY <2>4, <2>5, <3>1, <3>2
      <3>5. phase' \in {"scan", "error"} /\ (phase' = "scan" => msize' <= MaxLen) /\ limit' = 0
        <4>1. ASSUME NEW m \in Nat
              PROVE  (IF m > MaxLen THEN "error" ELSE "scan") \in {"error", "scan"}
                     /\ ((IF m > MaxLen THEN "error" ELSE "scan") = "scan" => m <= MaxLen)
          BY Sizes
        <4> QED BY <1>1, <3>1, <3>2, <4>1
      <3> QED BY <1>4, <3>2, <3>3, <3>4, <3>5
    <2> QED BY <1>6, <2>1, <2>6, <2>7, <2>8
  <1> QED BY <1>5, <1>6, ScanKnows

\* The parts of the buffer that a reader's step leaves alone
BufferStays ==
    UNCHANGED <<use, head, reader, readable, mem, link, nodes, tail, writer, grant, filled>>

(***************************************************************************)
(* comfirm() of pares_len: the length is asked for as long as it is not    *)
(* known.                                                                  *)
(***************************************************************************)
LEMMA CheckLengthKeeps ==
    ASSUME IInv, CheckLength
    PROVE  IInv' /\ Still /\ Queue' = Queue
  <1> HIDE DEF Queue
  <1>1. /\ use = "length" /\ phase = "check" /\ msize = 0 /\ Asked(LenBytes)
        /\ phase' = IF lastread' = 0 THEN "wait" ELSE "scan"
        /\ UNCHANGED <<view, expect, field, msize, limit, cursor>>
        /\ BufferStays
    BY DEF CheckLength, chainVars, messageVars, BufferStays
  <1>2. lastread' \in {0, readable} /\ known' = lastread' /\ (lastread' # 0 => LenBytes <= readable)
    BY <1>1, AskedIs, Sizes
  <1>3. Still
    BY <1>1 DEF BufferStays, Still
  <1>4. lastread' \in Nat /\ known' \in 0 .. readable
    BY <1>2, Splits
  <1>5. Typed(lastread', phase', view', known', expect', field', msize', limit', cursor')
    BY <1>1, <1>4, Splits DEF Typed
  <1>6. Shape' /\ Queue' = Queue
    BY <1>1, <1>3, <1>5, Splits, ReaderShape, QueueStays DEF BufferStays
  <1>7. On(cursor)'
    BY <1>1, <1>3, Splits, NewOn DEF Token
  <1>8. Token' /\ AtHandler'
    BY <1>1, <1>2, <1>7, Splits DEF Token, AtHandler, BufferStays
  <1>9. AtLength'
    <2>1. limit = 0 /\ field = <<>> /\ cursor.position = 0
      BY <1>1, Splits, Sizes DEF AtLength, LengthKnown
    <2>2. Len(field) = 0 /\ LenBytes > 0
      BY <2>1, Sizes
    <2>3. readable' = readable
      BY <1>1 DEF BufferStays
    <2> QED BY <1>1, <1>2, <2>1, <2>2, <2>3 DEF AtLength
  <1> QED BY <1>1, <1>3, <1>6, <1>8, <1>9 DEF IInv, BufferStays

(***************************************************************************)
(* Once the length is known the whole message is asked for.                *)
(***************************************************************************)
LEMMA CheckBodyKeeps ==
    ASSUME IInv, CheckBody
    PROVE  IInv' /\ Still /\ Queue' = Queue
  <1> HIDE DEF Queue
  <1>1. /\ use = "length" /\ phase = "check" /\ msize # 0 /\ Asked(msize)
        /\ IF lastread' = 0 THEN phase' = "wait" /\ UNCHANGED limit
                            ELSE phase' = "handle" /\ limit' = msize
        /\ UNCHANGED <<view, expect, field, msize, cursor>>
        /\ BufferStays
    BY DEF CheckBody, chainVars, BufferStays
  <1>2. msize \in Nat
    BY Splits
  <1>3. lastread' \in {0, readable} /\ known' = lastread' /\ (lastread' # 0 => msize <= readable)
    BY <1>1, <1>2, AskedIs
  <1>4. Still
    BY <1>1 DEF BufferStays, Still
  <1>5. lastread' \in Nat /\ known' \in 0 .. readable
    BY <1>3, Splits
  <1>6. limit = 0 /\ field = <<>> /\ LengthKnown /\ cursor.position = LenBytes
    BY <1>1, Splits DEF AtLength
  <1>7. Typed(lastread', phase', view', known', expect', field', msize', limit', cursor')
    BY <1>1, <1>5, Splits DEF Typed
  <1>8. Shape' /\ Queue' = Queue
    BY <1>1, <1>4, <1>7, Splits, ReaderShape, QueueStays DEF BufferStays
  <1>9. On(cursor)'
    BY <1>1, <1>4, Splits, NewOn DEF Token
  <1>10. Token'
    BY <1>1, <1>3, <1>9, Splits DEF Token, BufferStays
  <1>11. LengthKnown'
    BY <1>1, <1>4, <1>6, <1>8, LengthStays
  <1>12. AtLength'
    BY <1>1, <1>6, <1>11 DEF AtLength
  <1>13. AtHandler'
    <2>1. msize \in LenBytes .. MaxLen
      BY <1>6 DEF LengthKnown
    <2>2. msize \in 1 .. MaxLen /\ LenBytes <= msize
      BY <2>1, Sizes
    <2> QED BY <1>1, <1>3, <1>6, <2>2 DEF AtHandler
  <1> QED BY <1>1, <1>4, <1>8, <1>10, <1>12, <1>13 DEF IInv, BufferStays

(***************************************************************************)
(* Copied bytes: those of the length, in their order.                      *)
(***************************************************************************)
LEMMA Copied ==
    ASSUME NEW s \in Seq(Byte), NEW n \in Nat, NEW copy \in [1 .. n -> Byte], NEW W,
           \A i \in 1 .. Len(s) : s[i] = W[i],
           \A i \in 1 .. n : copy[i] = W[Len(s) + i]
    PROVE  /\ s \o copy \in Seq(Byte) /\ Len(s \o copy) = Len(s) + n
           /\ \A i \in 1 .. Len(s) + n : (s \o copy)[i] = W[i]
  <1>1. copy \in Seq(Byte) /\ Len(copy) = n
    OBVIOUS
  <1>2. s \o copy \in Seq(Byte) /\ Len(s \o copy) = Len(s) + n /\ Len(s) \in Nat
    BY <1>1
  <1>3. ASSUME NEW i \in 1 .. Len(s) + n PROVE (s \o copy)[i] = W[i]
    <2>1. CASE i <= Len(s)
      BY <1>1, <1>2, <2>1
    <2>2. CASE ~(i <= Len(s))
      <3>1. i - Len(s) \in 1 .. n /\ Len(s) + (i - Len(s)) = i
        BY <1>2, <2>2
      <3>2. (s \o copy)[i] = copy[i - Len(s)]
        BY <1>1, <2>2
      <3> QED BY <3>1, <3>2
    <2> QED BY <2>1, <2>2
  <1> QED BY <1>2, <1>3

\* One more piece of the length: the copied bytes are the first of the queue.
LEMMA GatherIs ==
    ASSUME IInv, Gather
    PROVE  /\ use = "length" /\ phase = "scan" /\ BufferStays /\ Still
           /\ UNCHANGED <<view, expect, limit>>
           /\ lastread' = readable /\ known' = readable
           /\ LenBytes <= readable /\ readable \in Nat /\ limit = 0 /\ msize = 0
           /\ On(cursor')
           /\ \E bytes \in Seq(Byte) :
                 /\ Len(bytes) <= LenBytes /\ cursor'.position = Len(bytes)
                 /\ \A i \in 1 .. Len(bytes) : bytes[i] = Queue[i]
                 /\ IF Len(bytes) < LenBytes
                    THEN field' = bytes /\ UNCHANGED <<msize, phase>>
                    ELSE /\ field' = <<>> /\ msize' = LengthOf[bytes]
                         /\ phase' = IF msize' \in LenBytes .. MaxLen THEN "check" ELSE "error"
  <1> HIDE DEF Queue
  <1>1. /\ use = "length" /\ phase = "scan" /\ Asked(0) /\ BufferStays
        /\ UNCHANGED <<view, expect, limit>>
    BY DEF Gather, chainVars, BufferStays
  <1>2. Still
    BY <1>1 DEF BufferStays, Still
  <1>3. /\ limit = 0 /\ msize = 0 /\ LenBytes <= readable
        /\ Len(field) = cursor.position /\ Len(field) < LenBytes
        /\ \A i \in 1 .. Len(field) : field[i] = Queue[i]
    BY <1>1, Splits DEF AtLength
  <1>4. readable \in Nat /\ Shape /\ field \in Seq(Byte) /\ Len(field) \in Nat
    BY Splits
  <1>5. lastread' = readable /\ known' = readable
    BY <1>1, <1>4 DEF Asked
  <1>6. PICK size : size = LenBytes - Len(field)
    OBVIOUS
  <1>7. size \in Nat \ {0}
    BY <1>3, <1>4, <1>6, Sizes
  <1>8. PICK p : p = Piece(cursor, size, readable)
    OBVIOUS
  <1>9. /\ p.node \in head .. tail /\ p.from \in Cells
        /\ p.len \in 1 .. readable - cursor.position /\ p.from + p.len <= Block
        /\ p.len <= size
        /\ \A i \in 1 .. p.len : mem[p.node][p.from + i - 1] = Queue[cursor.position + i]
        /\ On(Moved(cursor, p)) /\ Moved(cursor, p).position = cursor.position + p.len
    <2>1. On(cursor)
      BY <1>1, Splits DEF Token
    <2>2. readable \in 0 .. readable /\ cursor.position < readable /\ size \in Nat /\ size # 0
      BY <1>3, <1>4, <1>7, Sizes
    <2> QED BY <1>4, <1>8, <2>1, <2>2, PieceIs
  <1>10. PICK n : n = p.len
    OBVIOUS
  <1>11. n \in Nat \ {0} /\ n <= size /\ n <= LenBytes - Len(field)
    <2>1. cursor.position \in Nat /\ cursor.position < readable
      BY <1>3, <1>4, Sizes
    <2> QED BY <1>4, <1>6, <1>9, <1>10, <2>1
  <1>12. /\ Copy(p) \in [1 .. n -> Byte]
         /\ \A i \in 1 .. n : Copy(p)[i] = Queue[Len(field) + i]
    <2>1. \A i \in 1 .. n : Copy(p)[i] = mem[p.node][p.from + i - 1]
      BY <1>10 DEF Copy
    <2>2. \A i \in 1 .. n : Copy(p)[i] = Queue[Len(field) + i]
      BY <1>3, <1>9, <1>10, <2>1
    <2>3. \A i \in 1 .. n : Queue[Len(field) + i] \in Byte
      <3>1. \A i \in 1 .. n : Len(field) + i \in 1 .. readable
        BY <1>3, <1>4, <1>11, Sizes
      <3>2. Queue \in Seq(Byte) /\ Len(Queue) = readable
        BY <1>4, QueueNow DEF QueueBytes
      <3> QED BY <3>1, <3>2
    <2>4. Copy(p) = [i \in 1 .. n |-> Copy(p)[i]]
      BY <1>10 DEF Copy
    <2> QED BY <2>2, <2>3, <2>4
  <1>13. PICK bytes : bytes = field \o Copy(p)
    OBVIOUS
  <1>14. /\ bytes \in Seq(Byte) /\ Len(bytes) = Len(field) + n
         /\ \A i \in 1 .. Len(field) + n : bytes[i] = Queue[i]
    <2>1. n \in Nat
      BY <1>11
    <2>2. PICK copy, W : copy = Copy(p) /\ W = Queue
      OBVIOUS
    <2>3. /\ copy \in [1 .. n -> Byte]
          /\ \A i \in 1 .. n : copy[i] = W[Len(field) + i]
          /\ \A i \in 1 .. Len(field) : field[i] = W[i]
      BY <1>3, <1>12, <2>2
    <2>4. /\ field \o copy \in Seq(Byte) /\ Len(field \o copy) = Len(field) + n
          /\ \A i \in 1 .. Len(field) + n : (field \o copy)[i] = W[i]
      BY <1>4, <2>1, <2>3, Copied
    <2> QED BY <1>13, <2>2, <2>4
  <1>15. Len(bytes) <= LenBytes
    BY <1>4, <1>11, <1>14, Sizes
  <1>16. p = Piece(cursor, LenBytes - Len(field), lastread')
    BY <1>5, <1>6, <1>8
  <1>17. /\ cursor' = Moved(cursor, p)
         /\ IF Len(bytes) < LenBytes
            THEN field' = bytes /\ UNCHANGED <<msize, phase>>
            ELSE /\ field' = <<>> /\ msize' = LengthOf[bytes]
                 /\ phase' = IF msize' \in LenBytes .. MaxLen THEN "check" ELSE "error"
    BY <1>13, <1>16 DEF Gather
  <1>18. On(cursor') /\ cursor'.position = Len(bytes)
    BY <1>3, <1>9, <1>10, <1>14, <1>17
  <1> QED BY <1>1, <1>2, <1>3, <1>4, <1>5, <1>14, <1>15, <1>17, <1>18

\* When they are as many as the length has, the length is known.
LEMMA GatherKeeps ==
    ASSUME IInv, Gather
    PROVE  IInv' /\ Still /\ Queue' = Queue
  <1> HIDE DEF Queue
  <1>1. /\ use = "length" /\ phase = "scan" /\ BufferStays /\ Still
        /\ UNCHANGED <<view, expect, limit>>
        /\ lastread' = readable /\ known' = readable
        /\ LenBytes <= readable /\ readable \in Nat /\ limit = 0 /\ msize = 0
        /\ On(cursor')
    BY GatherIs
  <1>2. PICK bytes \in Seq(Byte) :
           /\ Len(bytes) <= LenBytes /\ cursor'.position = Len(bytes)
           /\ \A i \in 1 .. Len(bytes) : bytes[i] = Queue[i]
           /\ IF Len(bytes) < LenBytes
              THEN field' = bytes /\ UNCHANGED <<msize, phase>>
              ELSE /\ field' = <<>> /\ msize' = LengthOf[bytes]
                   /\ phase' = IF msize' \in LenBytes .. MaxLen THEN "check" ELSE "error"
    BY GatherIs
  <1>3. cursor' \in [position : Nat, node : Nodes \cup {NoNode}, offset : 0 .. Block]
    BY <1>1, Splits, OnType
  <1>4. view' \in 0 .. Block /\ reader + view' <= Block /\ view' <= readable /\ expect' \in Nat /\ limit' = 0
    BY <1>1, Splits
  <1>5. lastread' \in Nat \ {0} /\ known' \in 0 .. readable
    BY <1>1, Sizes
  <1>6. ASSUME /\ field' \in Seq(Byte) /\ msize' \in Nat
               /\ phase' \in {"scan", "check", "error"}
               /\ phase' = "scan" => field' = bytes /\ msize' = 0 /\ Len(bytes) < LenBytes
               /\ phase' = "check" => /\ field' = <<>> /\ Len(bytes) = LenBytes
                                      /\ msize' \in LenBytes .. MaxLen
                                      /\ msize' = LengthOf[SubSeq(Queue, 1, LenBytes)]
        PROVE  IInv' /\ Still /\ Queue' = Queue
    <2>1. Typed(lastread', phase', view', known', expect', field', msize', limit', cursor')
      BY <1>3, <1>4, <1>5, <1>6 DEF Typed
    <2>2. Shape' /\ Queue' = Queue
      BY <1>1, <2>1, Splits, ReaderShape, QueueStays DEF BufferStays
    <2>3. On(cursor)'
      BY <1>1, NewOn
    <2>4. use' = "length" /\ readable' = readable
      BY <1>1 DEF BufferStays
    <2>5. Token' /\ AtHandler'
      BY <1>5, <1>6, <2>3, <2>4 DEF Token, AtHandler
    <2>6. AtLength'
      <3>1. phase' \in {"wait", "check"} =>
               /\ limit' = 0 /\ field' = <<>> /\ cursor'.position = LenBytes
               /\ msize' \in LenBytes .. MaxLen /\ LenBytes <= readable'
               /\ msize' = LengthOf[SubSeq(Queue', 1, LenBytes)]
        BY <1>1, <1>2, <1>4, <1>6, <2>2, <2>4
      <3>2. phase' = "scan" =>
               /\ limit' = 0 /\ msize' = 0 /\ LenBytes <= readable'
               /\ Len(field') = cursor'.position /\ Len(field') < LenBytes
               /\ \A i \in 1 .. Len(field') : field'[i] = Queue'[i]
        BY <1>1, <1>2, <1>4, <1>6, <2>2, <2>4
      <3>3. phase' # "handle"
        BY <1>6
      <3> QED BY <3>1, <3>2, <3>3 DEF AtLength, LengthKnown
    <2> QED BY <1>1, <2>2, <2>4, <2>5, <2>6 DEF IInv
  <1>7. CASE Len(bytes) < LenBytes
    <2>1. field' = bytes /\ msize' = 0 /\ phase' = "scan"
      BY <1>1, <1>2, <1>7
    <2> QED BY <1>6, <1>7, <2>1
  <1>8. CASE ~(Len(bytes) < LenBytes)
    <2>1. /\ field' = <<>> /\ msize' = LengthOf[bytes]
          /\ phase' = IF msize' \in LenBytes .. MaxLen THEN "check" ELSE "error"
      BY <1>2, <1>8
    <2>2. Len(bytes) = LenBytes
      BY <1>2, <1>8, Sizes
    <2>3. bytes = SubSeq(Queue, 1, LenBytes)
      <3>1. Queue \in Seq(Byte) /\ Len(Queue) = readable
        BY Splits, QueueNow DEF QueueBytes
      <3>2. /\ SubSeq(Queue, 1, LenBytes) \in Seq(Byte) /\ Len(SubSeq(Queue, 1, LenBytes)) = LenBytes
            /\ \A i \in 1 .. LenBytes : SubSeq(Queue, 1, LenBytes)[i] = Queue[i]
        BY <1>1, <3>1, Sizes
      <3> QED BY <1>2, <2>2, <3>2, SeqEqual
    <2>4. LengthOf[bytes] \in Nat
      <3>1. bytes \in [1 .. LenBytes -> Byte]
        BY <2>2
      <3> QED BY <3>1, LengthAssumption
    <2>5. field' \in Seq(Byte) /\ msize' \in Nat
      BY <2>1, <2>4
    <2>6. phase' \in {"check", "error"} /\ (phase' = "check" => msize' \in LenBytes .. MaxLen)
      BY <2>1
    <2> QED BY <1>6, <2>1, <2>2, <2>3, <2>5, <2>6
  <1> QED BY <1>7, <1>8

(***************************************************************************)
(* A handler moves inside its message.                                     *)
(***************************************************************************)
LEMMA HandlerKeeps ==
    ASSUME IInv, phase = "handle", BufferStays, On(cursor'), cursor'.position <= limit,
           UNCHANGED <<view, phase, expect, field, msize, limit>>,
           UNCHANGED <<lastread, known>> \/ (lastread' = readable /\ known' = readable)
    PROVE  IInv' /\ Still /\ Queue' = Queue
  <1> HIDE DEF Queue
  <1>1. Still /\ use' = use /\ readable' = readable
    BY DEF BufferStays, Still
  <1>2. limit = msize /\ limit \in 1 .. MaxLen /\ limit <= known /\ known \in 0 .. readable
        /\ lastread # 0 /\ readable \in Nat /\ lastread \in Nat /\ use # "send"
    BY Splits DEF AtHandler, Token
  <1>3. limit <= readable /\ readable # 0 /\ limit <= known' /\ known' \in 0 .. readable
        /\ lastread' \in Nat \ {0}
    BY <1>2, Sizes
  <1>4. cursor' \in [position : Nat, node : Nodes \cup {NoNode}, offset : 0 .. Block]
    BY Splits, OnType
  <1>5. Typed(lastread', phase', view', known', expect', field', msize', limit', cursor')
    BY <1>3, <1>4, Splits DEF Typed
  <1>6. Shape' /\ Queue' = Queue
    BY <1>1, <1>5, Splits, ReaderShape, QueueStays DEF BufferStays
  <1>7. On(cursor)'
    BY <1>1, NewOn
  <1>8. Token' /\ AtHandler'
    BY <1>1, <1>2, <1>3, <1>7 DEF Token, AtHandler
  <1>9. use = "zero" => AtZero'
    BY <1>1, <1>6, Splits DEF AtZero
  <1>10. use = "length" => AtLength'
    <2>1. ASSUME use = "length" PROVE AtLength'
      <3>1. field = <<>> /\ LengthKnown
        BY <2>1, Splits DEF AtLength
      <3>2. LengthKnown'
        BY <1>1, <1>6, <3>1, LengthStays
      <3> QED BY <3>1, <3>2 DEF AtLength
    <2> QED BY <2>1
  <1> QED BY <1>1, <1>6, <1>8, <1>9, <1>10 DEF IInv

\* What a handler's place in its message is
LEMMA HandlersPlace ==
    ASSUME IInv, phase = "handle"
    PROVE  /\ Shape /\ On(cursor) /\ readable \in Nat /\ limit \in 0 .. readable /\ limit = msize
           /\ limit \in 1 .. MaxLen /\ limit <= known /\ known <= readable
           /\ cursor.position \in 0 .. limit /\ cursor.offset \in Int
           /\ use # "send"
  <1>1. Shape /\ On(cursor) /\ use # "send" /\ readable \in Nat /\ known \in 0 .. readable
    BY Splits DEF Token
  <1>2. limit = msize /\ limit \in 1 .. MaxLen /\ limit <= known /\ cursor.position <= limit
    BY Splits DEF AtHandler
  <1>3. cursor.position \in 0 .. readable /\ cursor.offset \in 0 .. Block
    BY <1>1 DEF On
  <1> QED BY <1>1, <1>2, <1>3, Sizes

\* next() by the handler
LEMMA TakeNextKeeps ==
    ASSUME IInv, NEW size \in 0 .. Block, TakeNext(size)
    PROVE  IInv' /\ Still /\ Queue' = Queue
  <1> HIDE DEF Queue
  <1>1. /\ phase = "handle" /\ cursor.position < limit /\ BufferStays
        /\ cursor' = Moved(cursor, Piece(cursor, size, limit))
        /\ UNCHANGED <<view, phase, expect, field, msize, limit>> /\ UNCHANGED <<lastread, known>>
    BY DEF TakeNext, BufferStays, chainVars
  <1>2. Shape /\ On(cursor) /\ limit \in 0 .. readable /\ readable \in Nat /\ cursor.position \in 0 .. limit
    BY <1>1, HandlersPlace
  <1>3. PICK p : p = Piece(cursor, size, limit)
    OBVIOUS
  <1>4. p.len \in 1 .. limit - cursor.position /\ On(cursor') /\ cursor'.position = cursor.position + p.len
    <2>1. size \in Nat
      BY Sizes
    <2>2. p.len \in 1 .. limit - cursor.position
          /\ On(Moved(cursor, p)) /\ Moved(cursor, p).position = cursor.position + p.len
      BY <1>1, <1>2, <1>3, <2>1, PieceIs
    <2> QED BY <1>1, <1>3, <2>2
  <1>5. cursor'.position <= limit
    BY <1>2, <1>4
  <1> QED BY <1>1, <1>4, <1>5, HandlerKeeps

\* skip() by the handler
LEMMA SkipKeeps ==
    ASSUME IInv, NEW n \in 1 .. MaxLen, Skip(n)
    PROVE  IInv' /\ Still /\ Queue' = Queue
  <1> HIDE DEF Queue
  <1>1. /\ phase = "handle" /\ n <= limit - cursor.position /\ BufferStays
        /\ cursor' = Skipped(cursor, n, limit)
        /\ UNCHANGED <<view, phase, expect, field, msize, limit>> /\ UNCHANGED <<lastread, known>>
    BY DEF Skip, BufferStays, chainVars
  <1>2. Shape /\ On(cursor) /\ limit \in 0 .. readable /\ readable \in Nat /\ cursor.position \in 0 .. limit
    BY <1>1, HandlersPlace
  <1>3. n \in Nat /\ cursor.position + n <= limit
    BY <1>1, <1>2, Sizes
  <1>4. On(cursor') /\ cursor'.position = cursor.position + n
    BY <1>1, <1>2, <1>3, SkippedIs
  <1>5. cursor'.position <= limit
    BY <1>3, <1>4
  <1> QED BY <1>1, <1>4, <1>5, HandlerKeeps

(***************************************************************************)
(* back_up() walks again without the message's limit, and ends inside it.  *)
(***************************************************************************)
LEMMA BackUpKeeps ==
    ASSUME IInv, NEW n \in 1 .. MaxLen, BackUp(n)
    PROVE  /\ IInv' /\ Still /\ Queue' = Queue
           /\ UNCHANGED lastread \/ lastread' = readable
  <1> HIDE DEF Queue
  <1>1. /\ phase = "handle" /\ n <= cursor.position /\ BufferStays
        /\ UNCHANGED <<view, phase, expect, field, msize, limit>>
    BY DEF BackUp, BufferStays, chainVars
  <1>2. /\ Shape /\ On(cursor) /\ limit \in 0 .. readable /\ readable \in Nat
        /\ cursor.position \in 0 .. limit
    BY <1>1, HandlersPlace
  <1>3. n \in Nat /\ cursor.position - n \in 0 .. limit
    BY <1>1, <1>2, Sizes
  <1>4. CASE n <= cursor.offset
    <2>1. /\ cursor' = [cursor EXCEPT !.position = @ - n, !.offset = @ - n]
          /\ UNCHANGED <<lastread, known>>
      BY <1>4 DEF BackUp
    <2>2. /\ cursor \in [position : 0 .. readable, node : head .. tail, offset : 0 .. Block]
          /\ Base(cursor.node) + cursor.offset = Base(head) + reader + cursor.position
      BY <1>2 DEF On
    <2>3. /\ cursor' \in [position : Int, node : head .. tail, offset : Int]
          /\ cursor'.position = cursor.position - n /\ cursor'.node = cursor.node
          /\ cursor'.offset = cursor.offset - n
      <3>1. PICK m, o : m = cursor.position - n /\ o = cursor.offset - n
        OBVIOUS
      <3>2. m \in Int /\ o \in Int
        BY <1>3, <2>2, <3>1, Sizes
      <3>3. cursor' = [cursor EXCEPT !.position = m, !.offset = o]
        BY <2>1, <3>1
      <3>4. /\ cursor' \in [position : Int, node : head .. tail, offset : Int]
            /\ cursor'.position = m /\ cursor'.node = cursor.node /\ cursor'.offset = o
        BY <2>2, <3>2, <3>3
      <3> QED BY <3>1, <3>4
    <2>4. cursor'.position \in 0 .. readable /\ cursor'.offset \in 0 .. Block
      BY <1>2, <1>3, <1>4, <2>2, <2>3, Sizes
    <2>5. Base(cursor'.node) + cursor'.offset = Base(head) + reader + cursor'.position
      <3>1. head \in Nat /\ Base(head) \in Nat /\ reader \in Nat /\ tail \in Nat
        BY <1>2, ShapeNumbers DEF Cells
      <3>2. cursor.node \in Nat
        BY <2>2, <3>1
      <3>3. Base(cursor.node) \in Nat
        BY <3>2, Bases
      <3> QED BY <1>2, <1>3, <2>2, <2>3, <3>1, <3>3
    <2>6. On(cursor')
      BY <2>3, <2>4, <2>5 DEF On
    <2>7. cursor'.position <= limit
      BY <1>3, <2>3
    <2> QED BY <1>1, <2>1, <2>6, <2>7, HandlerKeeps
  <1>5. CASE ~(n <= cursor.offset) /\ n = cursor.position
    <2>1. cursor' = Start(head, reader) /\ UNCHANGED <<lastread, known>>
      BY <1>5 DEF BackUp
    <2>2. On(cursor') /\ cursor'.position <= limit
      BY <1>2, <2>1, StartsOn
    <2> QED BY <1>1, <2>1, <2>2, HandlerKeeps
  <1>6. CASE ~(n <= cursor.offset) /\ n # cursor.position
    <2>1. cursor' = Skipped(Start(head, reader), cursor.position - n, readable) /\ Asked(0)
      BY <1>6 DEF BackUp
    <2>2. lastread' = readable /\ known' = readable
      BY <1>2, <2>1 DEF Asked
    <2>3. PICK m, c0 : m = cursor.position - n /\ c0 = Start(head, reader)
      OBVIOUS
    <2>4. /\ m \in Nat /\ On(c0) /\ c0.position = 0 /\ readable \in 0 .. readable
          /\ c0.position + m <= readable
      BY <1>2, <1>3, <2>3, StartsOn
    <2>5. On(cursor') /\ cursor'.position = c0.position + m
      BY <1>2, <2>1, <2>3, <2>4, SkippedIs
    <2>6. cursor'.position <= limit
      BY <1>2, <1>3, <2>3, <2>4, <2>5
    <2> QED BY <1>1, <2>2, <2>5, <2>6, HandlerKeeps
  <1> QED BY <1>4, <1>5, <1>6

\* reset(), as a fact of a state
LEMMA StartsOnNow == Shape => On(Start(head, reader))
  BY StartsOn

\* The same after a step
LEMMA StartsOnThen == (Shape => On(Start(head, reader)))'
  BY StartsOnNow, PTL

(***************************************************************************)
(* commit() leaves a message behind, and the next one begins.              *)
(***************************************************************************)
LEMMA CommitMessageKeeps ==
    ASSUME IInv, CommitMessage
    PROVE  /\ IInv' /\ msize \in 1 .. readable /\ msize <= known /\ readable' = readable - msize
           /\ Base(head') + reader' = Base(head) + reader + msize
           /\ view' = 0 /\ known' = 0
           /\ UNCHANGED <<mem, tail, writer, grant, filled, lastread>>
           /\ phase = "handle"
  <1> HIDE DEF Queue
  <1>1. /\ phase = "handle" /\ Consume(msize)
        /\ msize' = 0 /\ limit' = 0 /\ expect' = 0
        /\ cursor' = Start(head', reader')
        /\ phase' = "check"
        /\ UNCHANGED <<lastread, field>>
        /\ UNCHANGED <<use, mem, link, nodes, tail, writer, grant, filled>>
    BY DEF CommitMessage, chainVars
  <1>2. /\ Shape /\ readable \in Nat /\ msize \in 1 .. readable /\ msize <= known /\ use # "send"
    BY <1>1, HandlersPlace
  <1>3. lastread # 0 /\ lastread \in Nat /\ field \in Seq(Byte)
    BY <1>1, Splits DEF Token
  <1>4. cursor' \in [position : Nat, node : Nodes \cup {NoNode}, offset : 0 .. Block]
    <2>1. PICK x \in head .. tail, c \in Cells : Along(msize) = <<x, c>>
      <3>1. msize \in 0 .. readable
        BY <1>2
      <3> QED BY <1>2, <3>1, AlongIs
    <2>2. head' = x /\ reader' = c
      BY <1>1, <2>1 DEF Consume
    <2>3. head \in Nat /\ tail \in Nat /\ tail < MaxNodes
      BY <1>2, ShapeNumbers
    <2>4. x \in Nodes /\ c \in 0 .. Block
      BY <2>3, Sizes DEF Nodes, Cells
    <2> QED BY <1>1, <2>2, <2>4 DEF Start
  <1>5. Typed(lastread', phase', 0, 0, expect', field', msize', limit', cursor')
    <2>1. reader + 0 <= Block /\ 0 \in 0 .. Block /\ 0 \in 0 .. readable /\ 0 <= readable
      BY <1>2, Splits, Sizes
    <2> QED BY <1>1, <1>3, <1>4, <2>1 DEF Typed
  <1>6. msize \in 0 .. readable
    BY <1>2
  <1>7. /\ Shape' /\ readable' = readable - msize /\ view' = 0 /\ known' = 0
        /\ Base(head') + reader' = Base(head) + reader + msize
    BY <1>1, <1>2, <1>5, <1>6, ConsumeShape
  <1>8. On(cursor)'
    BY <1>1, <1>7, StartsOnThen
  <1>9. Token' /\ AtHandler'
    BY <1>1, <1>2, <1>3, <1>8 DEF Token, AtHandler
  <1>10. cursor'.position = 0
    BY <1>1 DEF Start
  <1>11. AtZero'
    BY <1>1, <1>10, Sizes DEF AtZero
  <1>12. use = "length" => AtLength'
    <2>1. use = "length" => field = <<>>
      BY <1>1, Splits DEF AtLength
    <2> QED BY <1>1, <1>10, <2>1 DEF AtLength
  <1> QED BY <1>1, <1>2, <1>7, <1>9, <1>11, <1>12 DEF IInv

\* clear() starts over with one empty block.
LEMMA ClearKeeps ==
    ASSUME IInv, Clear
    PROVE  IInv' /\ readable' = 0 /\ view' = 0 /\ filled' = filled /\ grant' = 0 /\ grant = 0
           /\ lastread' = 0
  <1> HIDE DEF Queue
  <1>1. /\ head' = 0 /\ reader' = 0 /\ readable' = 0 /\ lastread' = 0 /\ phase' = "wait"
        /\ view' = 0 /\ known' = 0 /\ field' = <<>> /\ msize' = 0 /\ limit' = 0
        /\ cursor' = Start(0, 0) /\ use' = use /\ filled' = filled /\ grant' = 0 /\ grant = 0
    BY DEF Clear
  <1>2. Shape'
    BY Splits, ClearShape
  <1>3. On(cursor)' /\ cursor'.position = 0
    <2>1. cursor' = Start(head', reader')
      BY <1>1
    <2> QED BY <1>2, <2>1, StartsOnThen DEF Start
  <1>4. Token' /\ AtHandler'
    BY <1>1, <1>3 DEF Token, AtHandler
  <1>5. AtZero' /\ AtLength'
    BY <1>1, <1>3, Sizes DEF AtZero, AtLength
  <1> QED BY <1>1, <1>2, <1>4, <1>5 DEF IInv

(***************************************************************************)
(* The writer's steps                                                      *)
(***************************************************************************)
LEMMA WriteKeeps ==
    ASSUME IInv, NEW size \in 0 .. Block, Write(size)
    PROVE  IInv' /\ Still /\ Queue' = Queue
  <1> HIDE DEF Queue
  <1>1. Shape' /\ Still /\ Shape
    BY Splits, WriteShape
  <1>2. /\ UNCHANGED <<use, view, known, expect, field, msize, limit, cursor>>
        /\ UNCHANGED <<phase, lastread>>
    BY DEF Write, messageVars
  <1>3. Queue' = Queue
    BY <1>1, QueueStays
  <1>4. Grown /\ head' = head /\ reader' = reader /\ tail <= tail'
    <2>1. readable \in Nat /\ tail \in Nat
      BY <1>1, ShapeNumbers
    <2> QED BY <1>1, <1>3, <2>1 DEF Still, Grown
  <1>5. lastread' = 0 <=> phase' = "wait"
    BY <1>2, Splits DEF Token
  <1> QED BY <1>1, <1>2, <1>3, <1>4, <1>5, MessageKeeps

\* A byte stored is not readable yet.
LEMMA FillKeeps ==
    ASSUME IInv, NEW b \in Byte, Fill(b)
    PROVE  IInv' /\ Queue' = Queue
  <1> HIDE DEF Queue
  <1>1. /\ Shape' /\ Shape
        /\ \A x \in head .. tail, c \in Cells :
              Base(x) + c < Base(tail) + writer => mem'[x][c] = mem[x][c]
    BY Splits, FillShape
  <1>2. /\ UNCHANGED <<use, view, known, expect, field, msize, limit, cursor>>
        /\ UNCHANGED <<phase, lastread, head, reader, readable, tail>>
    BY DEF Fill, messageVars
  <1>3. head' = head /\ reader' = reader /\ readable <= readable' /\ tail <= tail' /\ readable' = readable
    <2>1. readable \in Nat /\ tail \in Nat
      BY <1>1, ShapeNumbers
    <2> QED BY <1>2, <2>1
  <1>4. Grown /\ Queue' = Queue
    BY <1>1, <1>3, QueueGrows
  <1>5. lastread' = 0 <=> phase' = "wait"
    BY <1>2, Splits DEF Token
  <1> QED BY <1>1, <1>2, <1>3, <1>4, <1>5, MessageKeeps

\* A commit adds bytes behind those a message's reader has seen.
LEMMA CommitKeeps ==
    ASSUME IInv, NEW n \in 0 .. Block, CommitWrite(n)
    PROVE  IInv' /\ Grown
  <1> HIDE DEF Queue
  <1>1. /\ Shape' /\ Shape
        /\ mem' = mem /\ head' = head /\ reader' = reader /\ tail <= tail'
        /\ readable' = readable + n /\ lastread' = lastread + 1
        /\ UNCHANGED <<use, view, known, expect, field, msize, limit, cursor>>
    BY Splits, CommitShape
  <1>2. phase' = IF lastread = 0 /\ phase = "wait" THEN "check" ELSE phase
    BY DEF CommitWrite, Woken
  <1>3. readable <= readable'
    BY <1>1, Splits
  <1>4. Grown
    BY <1>1, <1>3, QueueGrows
  <1>5. lastread' # 0 /\ (lastread = 0 <=> phase = "wait")
    BY <1>1, Splits DEF Token
  <1>6. phase' # "wait" /\ (phase' = phase \/ (phase = "wait" /\ phase' = "check"))
    BY <1>2, <1>5
  <1> QED BY <1>1, <1>4, <1>5, <1>6, MessageKeeps

\* Every step keeps the invariant.
LEMMA InvStep == IInv /\ [Next]_vars => IInv'
  <1> SUFFICES ASSUME IInv, [Next]_vars PROVE IInv'
    OBVIOUS
  <1> HIDE DEF Queue
  <1>1. CASE UNCHANGED vars
    <2>1. /\ UNCHANGED <<use, view, known, expect, field, msize, limit, cursor>>
          /\ UNCHANGED <<phase, lastread, grant, filled>> /\ Still
      BY <1>1 DEF vars, Still
    <2>2. Shape' /\ Shape
      <3>1. Shape
        BY Splits
      <3> QED BY <3>1, <2>1, Splits, ReaderShape DEF Still
    <2>3. Queue' = Queue
      BY <2>1, <2>2, QueueStays
    <2>4. Grown /\ head' = head /\ reader' = reader /\ tail <= tail'
      <3>1. readable \in Nat /\ tail \in Nat
        BY <2>2, ShapeNumbers
      <3> QED BY <2>1, <2>3, <3>1 DEF Still, Grown
    <2>5. lastread' = 0 <=> phase' = "wait"
      BY <2>1, Splits DEF Token
    <2> QED BY <2>1, <2>2, <2>4, <2>5, MessageKeeps
  <1>2. CASE Writing
    BY <1>2, WriteKeeps, FillKeeps, CommitKeeps DEF Writing
  <1>3. CASE Reading
    <2>1. ASSUME NEW size \in 1 .. Block, Read(size) PROVE IInv'
      BY <2>1, ReadKeeps
    <2>2. ASSUME NEW n \in 1 .. Block, CommitRead(n) PROVE IInv'
      BY <2>2, CommitReadKeeps
    <2> QED BY <1>3, <2>1, <2>2, CheckKeeps, ScanKeeps, CheckLengthKeeps, GatherKeeps, CheckBodyKeeps,
               CommitMessageKeeps DEF Reading
  <1>4. CASE Handling
    BY <1>4, TakeNextKeeps, SkipKeeps, BackUpKeeps DEF Handling
  <1>5. CASE Clear
    BY <1>5, ClearKeeps
  <1> QED BY <1>1, <1>2, <1>3, <1>4, <1>5 DEF Next

\* The invariant holds throughout.
LEMMA InvAlways == Spec => []IInv
  BY InvInit, InvStep, PTL DEF Spec

-----------------------------------------------------------------------------
(* What the runs check *)

(***************************************************************************)
(* The variables keep their types: positions and sizes never leave the     *)
(* chain of blocks.                                                        *)
(***************************************************************************)
THEOREM TypeCorrect == Spec => []TypeOK
  <1>1. IInv => TypeOK
    BY DEF IInv, Shape
  <1> QED BY InvAlways, <1>1, PTL

(***************************************************************************)
(* A piece that next() hands out is made of the next bytes of the message, *)
(* wherever next, skip and back_up have been.                              *)
(***************************************************************************)
THEOREM PieceCorrect == Spec => []PieceIsNext
  <1>1. IInv => PieceIsNext
    <2> SUFFICES ASSUME IInv, phase \in {"scan", "handle"},
                        NEW max, max = IF limit > 0 THEN limit ELSE readable,
                        NEW p, p = Piece(cursor, 0, max), cursor.position < max
                 PROVE  /\ p.len > 0
                        /\ \A i \in 1 .. p.len :
                              mem[p.node][p.from + i - 1] = Queue[cursor.position + i]
      BY DEF PieceIsNext
    <2> HIDE DEF Queue
    <2>1. Shape /\ readable \in Nat /\ On(cursor)
      BY Splits DEF Token
    <2>2. limit \in 0 .. readable
      <3>1. CASE phase = "handle"
        BY <3>1, HandlersPlace
      <3>2. CASE phase = "scan"
        <4>1. use \in {"zero", "length"}
          BY <3>2, Splits DEF Token
        <4>2. limit = 0
          BY <3>2, <4>1, Splits DEF AtZero, AtLength
        <4> QED BY <2>1, <4>2
      <3> QED BY <3>1, <3>2
    <2>3. max \in 0 .. readable /\ cursor.position \in Nat
      BY <2>1, <2>2 DEF On
    <2>4. /\ p.len \in 1 .. max - cursor.position
          /\ \A i \in 1 .. p.len : mem[p.node][p.from + i - 1] = Queue[cursor.position + i]
      <3>1. 0 \in Nat
        OBVIOUS
      <3> QED BY <2>1, <2>3, <3>1, PieceIs
    <2>5. p.len > 0
      BY <2>1, <2>3, <2>4
    <2> QED BY <2>4, <2>5
  <1> QED BY InvAlways, <1>1, PTL

(***************************************************************************)
(* The first zero of the queue ends its first message.                     *)
(***************************************************************************)
LEMMA FirstZero ==
    ASSUME Shape, use = "zero", NEW n \in 1 .. readable,
           Queue[n] = 0, \A i \in 1 .. n - 1 : Queue[i] # 0
    PROVE  FirstLength = n
  <1> DEFINE zeros == {i \in 1 .. Len(Queue) : Queue[i] = 0}
  <1>1. Len(Queue) = readable /\ readable \in Nat
    BY QueueNow, ShapeNumbers DEF QueueBytes
  <1> HIDE DEF Queue
  <1>2. Contains(Queue, 0)
    BY <1>1 DEF Contains
  <1>3. n \in zeros /\ \A i \in zeros : n <= i
    BY <1>1
  <1>4. \A m \in zeros : (\A i \in zeros : m <= i) => m = n
    <2> SUFFICES ASSUME NEW m \in zeros, \A i \in zeros : m <= i PROVE m = n
      OBVIOUS
    <2>1. m <= n /\ n <= m /\ m \in Nat
      BY <1>1, <1>3
    <2> QED BY <2>1
  <1>5. Min(zeros) = n
    <2> HIDE DEF zeros
    <2> QED BY <1>3, <1>4 DEF Min
  <1>6. SelectInSeq(Queue, LAMBDA b : b = 0) = Min(zeros)
    BY <1>3 DEF SelectInSeq
  <1> QED BY <1>2, <1>5, <1>6 DEF FirstLength

(***************************************************************************)
(* A handler is given one whole message: as long as its length says, or up *)
(* to the first zero, in however many parts and blocks it came.            *)
(***************************************************************************)
THEOREM WholeCorrect == Spec => []MessageIsWhole
  <1>1. IInv => MessageIsWhole
    <2> SUFFICES ASSUME IInv, phase = "handle"
                 PROVE  limit = FirstLength /\ limit \in 1 .. Least(readable, MaxLen)
      BY DEF MessageIsWhole
    <2> HIDE DEF Queue
    <2>1. /\ Shape /\ readable \in Nat /\ limit = msize /\ limit \in 0 .. readable
          /\ limit \in 1 .. MaxLen /\ use \in {"zero", "length"}
      BY HandlersPlace, Splits
    <2>2. limit \in 1 .. Least(readable, MaxLen)
      BY <2>1, Sizes DEF Least
    <2>3. CASE use = "zero"
      <3>1. Queue[msize] = 0 /\ \A i \in 1 .. msize - 1 : Queue[i] # 0
        BY <2>3, Splits DEF AtZero
      <3>2. msize \in 1 .. readable
        BY <2>1, Sizes
      <3> QED BY <2>1, <2>2, <2>3, <3>1, <3>2, FirstZero
    <2>4. CASE use = "length"
      <3>1. LengthKnown
        BY <2>4, Splits DEF AtLength
      <3>2. use = "length" /\ readable >= LenBytes
        BY <2>1, <2>4, <3>1, Sizes DEF LengthKnown
      <3>3. FirstLength = LengthOf[SubSeq(Queue, 1, LenBytes)]
        BY <3>2 DEF FirstLength
      <3> QED BY <2>1, <2>2, <3>1, <3>3 DEF LengthKnown
    <2> QED BY <2>1, <2>3, <2>4
  <1> QED BY InvAlways, <1>1, PTL

-----------------------------------------------------------------------------
(* The byte queue *)

\* The bytes the writer has stored and the bytes shown to the reader
Filling == [i \in 1 .. filled |-> mem[tail][writer + i - 1]]
View == [i \in 1 .. view |-> mem[head][reader + i - 1]]

\* The sizes of the regions granted and shown
LEMMA SmallSizes ==
    ASSUME IInv
    PROVE  /\ filled \in 0 .. grant /\ grant \in 0 .. Block /\ filled \in Nat /\ writer + filled <= Block
           /\ view \in Nat /\ view <= readable /\ reader + view <= Block
           /\ readable \in Nat /\ reader \in Nat /\ writer \in Nat
  <1>1. Shape
    BY Splits
  <1>2. grant \in 0 .. Block /\ filled \in 0 .. grant /\ writer + grant <= Block
    BY <1>1 DEF Shape, TypeOK, Regions
  <1>3. readable \in Nat /\ reader \in Nat /\ writer \in Nat
    BY <1>1, ShapeNumbers DEF Cells
  <1> QED BY <1>2, <1>3, Splits, Sizes

\* What is shown is the oldest of what is readable.
ShowsOldest == View = SubSeq(Queue, 1, view)

\* It is inside one block, and that block's bytes are the queue's.
LEMMA ViewNow == IInv => ShowsOldest
  <1> SUFFICES ASSUME IInv PROVE View = SubSeq(Queue, 1, view)
    BY DEF ShowsOldest
  <1> HIDE DEF Queue
  <1>1. /\ Shape /\ view \in Nat /\ view <= readable /\ reader + view <= Block
        /\ readable \in Nat /\ reader \in Nat
    BY Splits, SmallSizes
  <1>2. /\ Queue \in Seq(Byte) /\ Len(Queue) = readable
        /\ \A x \in head .. tail, c \in Cells, i \in 1 .. readable :
              Base(x) + c = Base(head) + reader + i - 1 => Queue[i] = mem[x][c]
    BY <1>1, QueueNow DEF QueueBytes
  <1>3. ASSUME NEW i \in 1 .. view PROVE Queue[i] = mem[head][reader + i - 1]
    <2>1. head \in head .. tail /\ Base(head) \in Nat
      BY <1>1, ShapeNumbers
    <2>2. reader + i - 1 \in Cells /\ i \in 1 .. readable
      BY <1>1, Sizes DEF Cells
    <2>3. Base(head) + (reader + i - 1) = Base(head) + reader + i - 1
      BY <1>1, <2>1
    <2> QED BY <1>2, <2>1, <2>2, <2>3
  <1>4. /\ SubSeq(Queue, 1, view) \in Seq(Byte) /\ Len(SubSeq(Queue, 1, view)) = view
        /\ \A i \in 1 .. view : SubSeq(Queue, 1, view)[i] = Queue[i]
    BY <1>1, <1>2
  <1>5. SubSeq(Queue, 1, view) = [i \in 1 .. view |-> Queue[i]]
    BY <1>1, <1>4
  <1> QED BY <1>3, <1>5 DEF View

\* The same after a step
LEMMA ViewThen == (IInv => ShowsOldest)'
  BY ViewNow, PTL

\* What is shown stays what it is as long as bytes are only added.
LEMMA ViewStays ==
    ASSUME IInv, IInv', Grown, view' = view
    PROVE  View' = View
  <1> HIDE DEF Queue
  <1>1. View = SubSeq(Queue, 1, view) /\ View' = SubSeq(Queue', 1, view')
    BY ViewNow, ViewThen DEF ShowsOldest
  <1>2. Shape /\ Shape' /\ view \in Nat /\ view <= readable
    BY Splits, SmallSizes DEF IInv
  <1> QED BY <1>1, <1>2, GrownPrefix

\* The bytes stored are in the last block.
LEMMA FillingNow ==
    ASSUME IInv
    PROVE  /\ Filling \in Seq(Byte) /\ Len(Filling) = filled
           /\ \A i \in 1 .. filled : writer + i - 1 \in Cells /\ Filling[i] = mem[tail][writer + i - 1]
  <1>1. tail \in Nodes /\ mem \in [Nodes -> [Cells -> Byte]]
    BY Splits DEF Shape, TypeOK
  <1>2. filled \in Nat /\ writer \in Nat /\ writer + filled <= Block
    BY SmallSizes
  <1>3. ASSUME NEW i \in 1 .. filled PROVE writer + i - 1 \in Cells
    BY <1>2, Sizes DEF Cells
  <1>4. Filling \in Seq(Byte) /\ Len(Filling) = filled
    <2>1. \A i \in 1 .. filled : mem[tail][writer + i - 1] \in Byte
      BY <1>1, <1>3
    <2> QED BY <1>2, <2>1 DEF Filling
  <1> QED BY <1>3, <1>4 DEF Filling

\* A step that leaves the buffer alone leaves what it means to the queue alone.
LEMMA QueueLike ==
    ASSUME IInv, IInv', Still, Queue' = Queue
    PROVE  /\ filled' = filled => Filling' = Filling
           /\ view' = view => View' = View
           /\ Grown
  <1> HIDE DEF Queue
  <1>1. Grown
    BY SmallSizes DEF Still, Grown
  <1>2. filled' = filled => Filling' = Filling
    BY DEF Still, Filling
  <1> QED BY <1>1, <1>2, ViewStays

(***************************************************************************)
(* write() grants what is left of the block, which is there to be granted. *)
(***************************************************************************)
LEMMA WriteGrants ==
    ASSUME IInv, NEW size \in 0 .. Block, Write(size)
    PROVE  \E ask \in 1 .. Block : Fifo!Grant(ask)
  <1> HIDE DEF Queue
  <1>1. /\ IInv' /\ Still /\ Queue' = Queue
    BY WriteKeeps
  <1>2. /\ grant = 0 /\ filled' = 0 /\ view' = view /\ known' = known /\ lastread' = lastread
        /\ grant' = IF size = 0 THEN Block - writer ELSE Least(size, Block - writer)
    BY DEF Write
  <1>3. filled = 0
    BY <1>2, SmallSizes
  <1>4. Filling = <<>> /\ Filling' = Filling /\ View' = View
    BY <1>1, <1>2, <1>3, QueueLike DEF Filling
  <1>5. PICK cap, ask : cap = Block * MaxNodes /\ ask = IF size = 0 THEN Block ELSE size
    OBVIOUS
  <1>6. ask \in 1 .. Block /\ cap \in Nat
    BY <1>5, Sizes
  <1>7. PICK left : left = Block - writer
    OBVIOUS
  <1>8. left \in 1 .. Block
    <2>1. writer \in Cells
      BY Splits, ShapeNumbers
    <2> QED BY <1>7, <2>1, Sizes DEF Cells
  <1>9. grant' \in 1 .. left /\ grant' <= ask
    <2>1. grant' = IF size = 0 THEN left ELSE Least(size, left)
      BY <1>2, <1>7, Zenon
    <2> QED BY <1>5, <1>8, <2>1, Sizes DEF Least
  <1>10. Len(Queue) = readable /\ readable \in Nat
    BY Splits, QueueNow DEF QueueBytes
  <1>11. readable + left <= cap
    <2>1. /\ head \in Nat /\ tail \in Nat /\ tail < MaxNodes
          /\ Base(head) \in Nat /\ Base(tail) \in Nat /\ reader \in Nat /\ writer \in Nat
          /\ Base(head) + reader + readable = Base(tail) + writer
      BY Splits, ShapeNumbers DEF Cells
    <2>2. Base(tail) + Block <= Base(MaxNodes) /\ Base(MaxNodes) \in Nat
      BY <2>1, Bases, Sizes
    <2>3. Base(MaxNodes) = cap
      BY <1>5, Sizes DEF Base
    <2>4. PICK bh, bt : bh = Base(head) /\ bt = Base(tail)
      OBVIOUS
    <2>5. /\ bh \in Nat /\ bt \in Nat /\ reader \in Nat /\ writer \in Nat
          /\ bh + reader + readable = bt + writer /\ bt + Block <= cap
      BY <2>1, <2>2, <2>3, <2>4
    <2> QED BY <1>6, <1>7, <1>10, <2>5, Sizes
  <1>12. PICK room : room = cap - Len(Queue)
    OBVIOUS
  <1>13. room \in Nat \ {0} /\ grant' \in 0 .. Fifo!Least(ask, room) /\ grant' # 0
    <2>1. room \in Nat /\ left <= room
      BY <1>6, <1>8, <1>10, <1>11, <1>12
    <2>2. grant' <= room /\ grant' \in Nat \ {0} /\ room # 0
      BY <1>8, <1>9, <2>1
    <2> QED BY <1>6, <1>9, <2>1, <2>2 DEF Fifo!Least
  <1>14. \E n \in 0 .. Fifo!Least(ask, Block * MaxNodes - Len(Queue)) :
            /\ FALSE => n = Fifo!Least(ask, Block * MaxNodes - Len(Queue))
            /\ n = 0 => Block * MaxNodes - Len(Queue) = 0
            /\ grant' = n
    <2> HIDE DEF Fifo!Least
    <2> QED BY <1>5, <1>12, <1>13
  <1>15. Fifo!Grant(ask)
    <2> HIDE DEF Fifo!Least
    <2> QED BY <1>1, <1>2, <1>4, <1>14 DEF Fifo!Grant, Filling, View
  <1> QED BY <1>6, <1>15

\* A byte stored is the last one of what is filled in.
LEMMA FillAppends ==
    ASSUME IInv, NEW b \in Byte, Fill(b)
    PROVE  Fifo!Fill(b)
  <1> HIDE DEF Queue
  <1>1. IInv' /\ Queue' = Queue
    BY FillKeeps
  <1>2. /\ filled < grant /\ filled' = filled + 1
        /\ mem' = [mem EXCEPT ![tail][writer + filled] = b]
        /\ UNCHANGED <<head, reader, readable, tail, writer, grant, view, known, lastread>>
    BY DEF Fill
  <1>3. Grown
    BY <1>1, <1>2, SmallSizes DEF Grown
  <1>4. View' = View
    BY <1>1, <1>2, <1>3, ViewStays
  <1>5. /\ Filling \in Seq(Byte) /\ Len(Filling) = filled /\ filled \in Nat
        /\ \A i \in 1 .. filled : writer + i - 1 \in Cells /\ Filling[i] = mem[tail][writer + i - 1]
    BY FillingNow, SmallSizes
  <1>6. /\ writer + filled \in Cells /\ writer \in Nat
        /\ tail \in Nodes /\ mem \in [Nodes -> [Cells -> Byte]]
    <2>1. grant \in 0 .. Block /\ writer + grant <= Block
      BY Splits DEF Shape, TypeOK, Regions
    <2>2. writer \in Nat /\ filled \in Nat /\ grant \in Nat /\ Block \in Nat
      BY <2>1, SmallSizes, Sizes
    <2>3. writer + filled \in 0 .. Block - 1
      BY <1>2, <2>1, <2>2
    <2>4. tail \in Nodes /\ mem \in [Nodes -> [Cells -> Byte]]
      BY Splits DEF Shape, TypeOK
    <2> QED BY <2>2, <2>3, <2>4 DEF Cells
  <1>7. mem'[tail][writer + filled] = b
    BY <1>2, <1>6
  <1>8. ASSUME NEW i \in 1 .. filled PROVE mem'[tail][writer + i - 1] = mem[tail][writer + i - 1]
    <2>1. writer + i - 1 # writer + filled /\ writer + i - 1 \in Cells
      <3>1. i \in Nat /\ i <= filled /\ filled \in Nat /\ writer \in Nat
        BY <1>5, <1>6
      <3>2. writer + i - 1 # writer + filled
        BY <3>1
      <3> QED BY <1>5, <3>2
    <2> QED BY <1>2, <1>6, <2>1
  <1>9. Filling' = [i \in 1 .. filled + 1 |-> mem'[tail][writer + i - 1]]
    BY <1>2 DEF Filling
  <1>10. Append(Filling, b) \in Seq(Byte) /\ Len(Append(Filling, b)) = filled + 1
         /\ Append(Filling, b)[filled + 1] = b
         /\ \A i \in 1 .. filled : Append(Filling, b)[i] = Filling[i]
    BY <1>5, AppendProperties
  <1>11. ASSUME NEW i \in 1 .. filled + 1 PROVE mem'[tail][writer + i - 1] = Append(Filling, b)[i]
    <2>1. CASE i = filled + 1
      <3>1. writer + i - 1 = writer + filled
        BY <1>5, <1>6, <2>1
      <3> QED BY <1>7, <1>10, <2>1, <3>1
    <2>2. CASE i # filled + 1
      <3>1. i \in 1 .. filled
        BY <1>5, <2>2
      <3> QED BY <1>5, <1>8, <1>10, <3>1
    <2> QED BY <2>1, <2>2
  <1>12. Append(Filling, b) = [i \in 1 .. filled + 1 |-> Append(Filling, b)[i]]
    <2>1. Append(Filling, b) \in [1 .. filled + 1 -> Byte]
      BY <1>10, LenProperties
    <2> QED BY <2>1
  <1>13. Filling' = Append(Filling, b)
    BY <1>9, <1>11, <1>12
  <1> QED BY <1>1, <1>2, <1>4, <1>5, <1>13 DEF Fifo!Fill, Filling, View

\* Where the elements of two joined sequences are
LEMMA Joined ==
    ASSUME NEW S, NEW s \in Seq(S), NEW t \in Seq(S), NEW m, NEW n, Len(s) = m, Len(t) = n
    PROVE  /\ s \o t \in Seq(S) /\ Len(s \o t) = m + n
           /\ \A i \in 1 .. m + n : (s \o t)[i] = IF i <= m THEN s[i] ELSE t[i - m]
  BY ConcatProperties

(***************************************************************************)
(* A commit puts what it publishes behind what was readable, whether or    *)
(* not it fills the block.                                                 *)
(***************************************************************************)
LEMMA CommitAppends ==
    ASSUME IInv, NEW n \in 0 .. Block, CommitWrite(n)
    PROVE  Fifo!Commit(n)
  <1> HIDE DEF Queue
  <1>1. IInv' /\ Grown
    BY CommitKeeps
  <1>2. /\ n <= filled /\ mem' = mem /\ head' = head /\ reader' = reader /\ tail <= tail'
        /\ readable' = readable + n /\ lastread' = lastread + 1
        /\ grant' = 0 /\ filled' = 0 /\ view' = view /\ known' = known
    BY Splits, CommitShape
  <1>3. View' = View
    BY <1>1, <1>2, ViewStays
  <1>4. n \in Nat /\ readable \in Nat /\ lastread \in Nat /\ writer \in Nat /\ filled \in Nat
    BY Splits, SmallSizes, Sizes
  <1>5. /\ Queue \in Seq(Byte) /\ Len(Queue) = readable
    BY Splits, QueueNow DEF QueueBytes
  <1>6. /\ Queue' \in Seq(Byte) /\ Len(Queue') = readable + n
        /\ \A x \in head .. tail', c \in Cells, i \in 1 .. readable + n :
              Base(x) + c = Base(head) + reader + i - 1 => Queue'[i] = mem[x][c]
    <2>1. QueueBytes'
      BY <1>1, QueueThen DEF IInv
    <2> QED BY <1>2, <2>1 DEF QueueBytes
  <1>7. /\ Filling \in Seq(Byte) /\ Len(Filling) = filled
        /\ \A i \in 1 .. filled : writer + i - 1 \in Cells /\ Filling[i] = mem[tail][writer + i - 1]
    BY FillingNow
  <1>8. ASSUME NEW k \in 1 .. n PROVE Queue'[readable + k] = Filling[k]
    <2>1. k \in 1 .. filled /\ k \in Nat
      BY <1>2, <1>4
    <2>2. /\ head \in Nat /\ tail \in Nat /\ head <= tail /\ reader \in Nat
          /\ Base(head) \in Nat /\ Base(tail) \in Nat
          /\ Base(head) + reader + readable = Base(tail) + writer
      BY Splits, ShapeNumbers DEF Cells
    <2>3. tail \in head .. tail' /\ readable + k \in 1 .. readable + n
      <3>1. tail' \in Int
        BY <1>1 DEF IInv, Shape, TypeOK, Nodes
      <3> QED BY <1>2, <1>4, <2>1, <2>2, <3>1
    <2>4. PICK bh, bt : bh = Base(head) /\ bt = Base(tail)
      OBVIOUS
    <2>5. bt + (writer + k - 1) = bh + reader + (readable + k) - 1
      <3>1. bh \in Nat /\ bt \in Nat /\ bh + reader + readable = bt + writer
        BY <2>2, <2>4
      <3> QED BY <1>4, <2>1, <2>2, <3>1
    <2> QED BY <1>6, <1>7, <2>1, <2>3, <2>4, <2>5
  <1> DEFINE piece == SubSeq(Filling, 1, n)
  <1>9. piece \in Seq(Byte) /\ Len(piece) = n /\ \A i \in 1 .. n : piece[i] = Filling[i]
    <2>1. \A i \in 1 .. n : Filling[i] \in Byte
      BY <1>2, <1>4, <1>7
    <2>2. n \in Int /\ 1 \in Int /\ (IF 1 <= n THEN n - 1 + 1 ELSE 0) = n /\ n - 1 + 1 = n
          /\ \A i \in 1 .. n : 1 + i - 1 = i
      BY <1>4
    <2> QED BY <2>1, <2>2, SubSeqProperties
  <1> HIDE DEF piece
  <1>10. /\ Queue \o piece \in Seq(Byte) /\ Len(Queue \o piece) = readable + n
         /\ \A i \in 1 .. readable + n :
               (Queue \o piece)[i] = IF i <= readable THEN Queue[i] ELSE piece[i - readable]
    BY <1>5, <1>9, Joined
  <1>11. ASSUME NEW i \in 1 .. readable + n PROVE Queue'[i] = (Queue \o piece)[i]
    <2>1. CASE i <= readable
      <3>1. i \in 1 .. readable
        BY <1>4, <2>1
      <3> QED BY <1>1, <1>10, <2>1, <3>1 DEF Grown
    <2>2. CASE ~(i <= readable)
      <3>1. i - readable \in 1 .. n /\ readable + (i - readable) = i
        BY <1>4, <2>2
      <3>2. Queue'[i] = Filling[i - readable]
        BY <1>8, <3>1
      <3>3. (Queue \o piece)[i] = piece[i - readable]
        BY <1>10, <2>2
      <3> QED BY <1>9, <3>1, <3>2, <3>3
    <2> QED BY <2>1, <2>2
  <1>12. Queue' = Queue \o piece
    BY <1>6, <1>10, <1>11, SeqEqual
  <1>13. Filling' = <<>> /\ (lastread' = 0) = FALSE
    BY <1>2, <1>4 DEF Filling
  <1>14. n <= Len(Filling) /\ Queue' = Queue \o SubSeq(Filling, 1, n)
    BY <1>2, <1>7, <1>12 DEF piece
  <1> QED BY <1>2, <1>3, <1>13, <1>14 DEF Fifo!Commit, Filling, View

(***************************************************************************)
(* read() shows the oldest bytes, as far as the block goes.                *)
(***************************************************************************)
LEMMA ReadShows ==
    ASSUME IInv, NEW size \in 1 .. Block, Read(size)
    PROVE  Fifo!Show(size)
  <1> HIDE DEF Queue
  <1>1. /\ IInv' /\ Still /\ Queue' = Queue
        /\ phase = "check" /\ UNCHANGED <<grant, filled>>
        /\ view' \in 0 .. size /\ known' = view' /\ lastread' = view'
        /\ view' = 0 => readable = 0
    BY ReadKeeps
  <1>2. lastread # 0
    BY <1>1, Splits DEF Token
  <1>3. Filling' = Filling
    BY <1>1, QueueLike
  <1>4. View' = SubSeq(Queue, 1, view')
    BY <1>1, ViewThen DEF ShowsOldest
  <1>5. /\ Queue \in Seq(Byte) /\ Len(Queue) = readable
    BY Splits, QueueNow DEF QueueBytes
  <1>6. PICK n : n = view'
    OBVIOUS
  <1>7. n \in 0 .. size /\ n <= readable
    <2>1. view' <= readable'
      BY <1>1, SmallSizes DEF IInv, Shape, Regions
    <2> QED BY <1>1, <1>6, <2>1 DEF Still
  <1>8. n \in 0 .. Fifo!Least(size, Len(Queue))
    BY <1>5, <1>7, SmallSizes DEF Fifo!Least
  <1>9. n = 0 => Queue = <<>>
    BY <1>1, <1>5, <1>6, EmptySeq
  <1>10. (lastread' = 0) = (n = 0)
    BY <1>1, <1>6
  <1> HIDE DEF Fifo!Least
  <1> QED BY <1>1, <1>2, <1>3, <1>4, <1>6, <1>8, <1>9, <1>10 DEF Fifo!Show, Filling, View

(***************************************************************************)
(* What a commit of the reader leaves of the queue                         *)
(***************************************************************************)
LEMMA ConsumeDrops ==
    ASSUME IInv, IInv', NEW n \in 1 .. readable, n <= known,
           readable' = readable - n, Base(head') + reader' = Base(head) + reader + n,
           view' = 0, known' = 0, UNCHANGED <<mem, tail, writer, grant, filled, lastread>>
    PROVE  Fifo!Consume(n) /\ n \in 1 .. Block * MaxNodes
  <1> HIDE DEF Queue
  <1>1. /\ Queue \in Seq(Byte) /\ Len(Queue) = readable
        /\ \A x \in head .. tail, c \in Cells, i \in 1 .. readable :
              Base(x) + c = Base(head) + reader + i - 1 => Queue[i] = mem[x][c]
    BY Splits, QueueNow DEF QueueBytes
  <1>2. /\ Queue' \in Seq(Byte) /\ Len(Queue') = readable - n
        /\ \A x \in head' .. tail, c \in Cells, i \in 1 .. readable - n :
              Base(x) + c = Base(head') + reader' + i - 1 => Queue'[i] = mem[x][c]
    <2>1. QueueBytes'
      BY QueueThen DEF IInv
    <2> QED BY <2>1 DEF QueueBytes
  <1>3. n \in Nat /\ readable \in Nat /\ n <= readable
    BY Splits
  <1>4. ASSUME NEW i \in 1 .. readable - n PROVE Queue'[i] = Queue[n + i]
    <2>1. n + i \in 1 .. readable /\ n + i - 1 \in 0 .. readable /\ i \in Nat /\ n + i - 1 \in Nat
      BY <1>3
    <2>2. PICK x \in head .. tail, c \in Cells : Base(x) + c = Base(head) + reader + (n + i - 1)
      BY <2>1, Splits, AlongIs
    <2>3. /\ head \in Nat /\ tail \in Nat /\ Base(head) \in Nat /\ reader \in Nat /\ reader' \in Cells
          /\ head' \in Nat
      <3>1. head' \in Nodes /\ reader' \in Cells
        BY DEF IInv, Shape, TypeOK
      <3> QED BY <3>1, Splits, ShapeNumbers DEF Cells, Nodes
    <2>4. x \in Nat /\ x <= tail
      BY <2>2, <2>3
    <2>5. Base(x) \in Nat /\ Base(head') \in Nat
      BY <2>3, <2>4, Bases
    <2>6. Base(x) + c = Base(head) + reader + (n + i) - 1
      BY <1>3, <2>1, <2>2, <2>3
    <2>7. Base(x) + c = Base(head') + reader' + i - 1
      BY <1>3, <2>1, <2>2, <2>3, <2>5
    <2>8. x \in head' .. tail
      <3>1. c \in 0 .. Block - 1 /\ reader' \in 0 .. Block - 1 /\ Block \in Nat
        BY <2>2, <2>3, Sizes DEF Cells
      <3>2. x < head' => Base(x) + Block <= Base(head')
        BY <2>3, <2>4, Bases
      <3>3. ~(x < head')
        <4>1. PICK bx, bh : bx = Base(x) /\ bh = Base(head')
          OBVIOUS
        <4>2. bx \in Nat /\ bh \in Nat /\ bx + c = bh + reader' + i - 1 /\ i >= 1
              /\ (x < head' => bx + Block <= bh)
          BY <1>3, <2>5, <2>7, <3>2, <4>1
        <4>3. PICK r : r = reader'
          OBVIOUS
        <4>4. /\ r \in 0 .. Block - 1 /\ c \in 0 .. Block - 1 /\ Block \in Nat /\ i \in Nat
              /\ bx \in Nat /\ bh \in Nat /\ bx + c = bh + r + i - 1 /\ i >= 1
          BY <2>1, <3>1, <4>2, <4>3
        <4>5. ~(bx + Block <= bh)
          BY <4>4
        <4> QED BY <4>2, <4>5
      <3> QED BY <2>3, <2>4, <3>3
    <2> QED BY <1>1, <1>2, <2>1, <2>2, <2>6, <2>7, <2>8
  <1>5. Queue' = SubSeq(Queue, n + 1, Len(Queue))
    <2>1. SubSeq(Queue, n + 1, Len(Queue)) = [i \in 1 .. readable - n |-> Queue[n + 1 + i - 1]]
      BY <1>1, <1>3
    <2>2. \A i \in 1 .. readable - n : Queue[n + 1 + i - 1] = Queue[n + i]
      BY <1>3
    <2>3. Queue' = [i \in 1 .. readable - n |-> Queue'[i]]
      BY <1>2
    <2> QED BY <1>4, <2>1, <2>2, <2>3
  <1>6. View' = <<>> /\ Filling' = Filling
    BY DEF View, Filling
  <1>7. n \in 1 .. Block * MaxNodes
    <2>1. readable < Block * MaxNodes
      BY Splits, ShapeNumbers
    <2>2. PICK cap : cap = Block * MaxNodes
      OBVIOUS
    <2>3. cap \in Nat /\ readable < cap
      BY <2>1, <2>2, Sizes
    <2>4. n \in 1 .. cap
      BY <1>3, <2>3
    <2> QED BY <2>2, <2>4
  <1> QED BY <1>5, <1>6, <1>7 DEF Fifo!Consume, Filling, View

(***************************************************************************)
(* readable_size() tells how much is there, or makes the reader wait. More *)
(* than the buffer can hold is asked for like one byte too many.           *)
(***************************************************************************)
LEMMA AskTells ==
    ASSUME IInv, IInv', Still, Queue' = Queue, UNCHANGED <<grant, filled, view>>,
           NEW exp \in Nat, Asked(exp), phase # "wait"
    PROVE  \E e \in 0 .. Block * MaxNodes + 1 : Fifo!Ask(e)
  <1> HIDE DEF Queue
  <1>1. lastread # 0
    BY Splits DEF Token
  <1>2. View' = View /\ Filling' = Filling
    BY QueueLike
  <1>3. Len(Queue) = readable /\ readable \in Nat
    BY Splits, QueueNow DEF QueueBytes
  <1>4. PICK cap : cap = Block * MaxNodes
    OBVIOUS
  <1>5. cap \in Nat /\ readable < cap
    BY <1>4, Sizes, Splits, ShapeNumbers
  <1>6. PICK e : e = IF exp <= cap THEN exp ELSE cap + 1
    OBVIOUS
  <1>7. e \in 0 .. cap + 1 /\ (readable < exp <=> readable < e)
    BY <1>3, <1>5, <1>6
  <1>8. lastread' = (IF readable < e THEN 0 ELSE readable) /\ known' = lastread'
    BY <1>7 DEF Asked
  <1>9. Fifo!Ask(e)
    BY <1>1, <1>2, <1>3, <1>8 DEF Fifo!Ask, Filling, View
  <1> QED BY <1>4, <1>7, <1>9

(***************************************************************************)
(* A step of a message's reader that asks for nothing does nothing to the  *)
(* queue.                                                                  *)
(***************************************************************************)
LEMMA Unnoticed ==
    ASSUME IInv, IInv', Still, Queue' = Queue,
           UNCHANGED <<grant, filled, view, known, lastread>>
    PROVE  UNCHANGED Fifo!vars
  <1> HIDE DEF Queue
  <1>1. View' = View /\ Filling' = Filling
    BY QueueLike
  <1> QED BY <1>1 DEF Fifo!vars, Filling, View

\* commit_read() consumes bytes that were shown.
LEMMA CommitReadConsumes ==
    ASSUME IInv, NEW n \in 1 .. Block, CommitRead(n)
    PROVE  Fifo!Consume(n) /\ n \in 1 .. Block * MaxNodes
  <1> HIDE DEF Queue
  <1>1. /\ IInv' /\ n \in 0 .. readable /\ n <= known /\ readable' = readable - n
        /\ Base(head') + reader' = Base(head) + reader + n
        /\ view' = 0 /\ known' = 0
        /\ UNCHANGED <<mem, tail, writer, grant, filled, lastread>>
    BY CommitReadKeeps
  <1>2. n \in 1 .. readable
    BY <1>1, Splits, Sizes
  <1> QED BY <1>1, <1>2, ConsumeDrops

\* commit() consumes a message.
LEMMA MessageConsumes ==
    ASSUME IInv, CommitMessage
    PROVE  \E n \in 1 .. Block * MaxNodes : Fifo!Consume(n)
  <1> HIDE DEF Queue
  <1>1. PICK n : n = msize
    OBVIOUS
  <1>2. /\ IInv' /\ n \in 1 .. readable /\ n <= known /\ readable' = readable - n
        /\ Base(head') + reader' = Base(head) + reader + n
        /\ view' = 0 /\ known' = 0
        /\ UNCHANGED <<mem, tail, writer, grant, filled, lastread>>
    BY <1>1, CommitMessageKeeps
  <1>3. Fifo!Consume(n) /\ n \in 1 .. Block * MaxNodes
    BY <1>2, ConsumeDrops
  <1> QED BY <1>3

\* clear() empties the queue.
LEMMA ClearEmpties ==
    ASSUME IInv, Clear
    PROVE  Fifo!Clear
  <1> HIDE DEF Queue
  <1>1. /\ IInv' /\ readable' = 0 /\ view' = 0 /\ known' = 0 /\ filled' = filled
        /\ grant' = 0 /\ grant = 0 /\ lastread' = 0
    BY ClearKeeps DEF Clear
  <1>2. Queue' = <<>>
    <2>1. QueueBytes'
      BY <1>1, QueueThen DEF IInv
    <2> QED BY <1>1, <2>1, EmptySeq DEF QueueBytes
  <1>3. filled = 0
    BY <1>1, SmallSizes
  <1>4. View' = <<>> /\ Filling = <<>> /\ Filling' = <<>>
    BY <1>1, <1>3 DEF View, Filling
  <1> QED BY <1>1, <1>2, <1>4 DEF Fifo!Clear, Filling, View

\* readable_size() in the steps that frame a message
LEMMA FramingAsks ==
    ASSUME IInv, Check \/ Scan \/ CheckLength \/ Gather \/ CheckBody
    PROVE  \E e \in 0 .. Block * MaxNodes + 1 : Fifo!Ask(e)
  <1> HIDE DEF Queue
  <1>1. IInv' /\ Still /\ Queue' = Queue
    BY CheckKeeps, ScanKeeps, CheckLengthKeeps, GatherKeeps, CheckBodyKeeps
  <1>2. UNCHANGED <<grant, filled, view>> /\ phase # "wait"
    BY DEF Check, Scan, CheckLength, Gather, CheckBody, chainVars
  <1>3. \E exp \in Nat : Asked(exp)
    <2>1. expect \in Nat /\ 0 \in Nat /\ LenBytes \in Nat /\ msize \in Nat
      BY Splits, Sizes
    <2> QED BY <2>1 DEF Check, Scan, CheckLength, Gather, CheckBody
  <1> QED BY <1>1, <1>2, <1>3, AskTells

(***************************************************************************)
(* back_up() that walks again asks what is there.                          *)
(***************************************************************************)
LEMMA BackUpAsks ==
    ASSUME IInv, NEW n \in 1 .. MaxLen, BackUp(n)
    PROVE  UNCHANGED Fifo!vars \/ \E e \in 0 .. Block * MaxNodes + 1 : Fifo!Ask(e)
  <1> HIDE DEF Queue
  <1>1. IInv' /\ Still /\ Queue' = Queue
    BY BackUpKeeps
  <1>2. UNCHANGED <<grant, filled, view>> /\ phase # "wait"
    BY DEF BackUp, chainVars
  <1>3. UNCHANGED <<lastread, known>> \/ Asked(0)
    BY DEF BackUp
  <1>4. CASE UNCHANGED <<lastread, known>>
    BY <1>1, <1>2, <1>4, Unnoticed
  <1>5. CASE Asked(0)
    <2>1. 0 \in Nat
      OBVIOUS
    <2> QED BY <1>1, <1>2, <1>5, <2>1, AskTells
  <1> QED BY <1>3, <1>4, <1>5

\* A new buffer is an empty queue.
LEMMA StartsEmpty == Init => Fifo!Init
  <1> SUFFICES ASSUME Init PROVE Fifo!Init
    OBVIOUS
  <1>1. readable = 0 /\ lastread = 0 /\ grant = 0 /\ filled = 0 /\ view = 0 /\ known = 0
    BY DEF Init
  <1>2. Queue = <<>>
    BY <1>1 DEF Queue
  <1> HIDE DEF Queue
  <1>3. View = <<>> /\ Filling = <<>>
    BY <1>1 DEF View, Filling
  <1> QED BY <1>1, <1>2, <1>3 DEF Fifo!Init, View, Filling

(***************************************************************************)
(* The chain of blocks is a queue of bytes, for every size of a block and  *)
(* every number of them: each call does to the readable bytes what the     *)
(* queue's does, wherever a block ends.                                    *)
(***************************************************************************)
THEOREM ChainIsFifo == Spec => ImplementsFifo
  <1>1. IInv /\ [Next]_vars => [Fifo!Next]_(Fifo!vars)
    <2> SUFFICES ASSUME IInv, [Next]_vars PROVE Fifo!Next \/ UNCHANGED Fifo!vars
      OBVIOUS
    <2> HIDE DEF Queue
    <2>1. ASSUME \E e \in 0 .. Block * MaxNodes + 1 : Fifo!Ask(e) PROVE Fifo!Next
      BY <2>1 DEF Fifo!Next
    <2>2. CASE Writing
      <3>1. ASSUME NEW size \in 0 .. Block, Write(size) PROVE Fifo!Next
        BY <3>1, WriteGrants DEF Fifo!Next
      <3>2. ASSUME NEW b \in Byte, Fill(b) PROVE Fifo!Next
        BY <3>2, FillAppends DEF Fifo!Next
      <3>3. ASSUME NEW n \in 0 .. Block, CommitWrite(n) PROVE Fifo!Next
        BY <3>3, CommitAppends DEF Fifo!Next
      <3> QED BY <2>2, <3>1, <3>2, <3>3 DEF Writing
    <2>3. CASE Reading
      <3>1. ASSUME NEW size \in 1 .. Block, Read(size) PROVE Fifo!Next
        BY <3>1, ReadShows DEF Fifo!Next
      <3>2. ASSUME NEW n \in 1 .. Block, CommitRead(n) PROVE Fifo!Next
        BY <3>2, CommitReadConsumes DEF Fifo!Next
      <3>3. CASE CommitMessage
        BY <3>3, MessageConsumes DEF Fifo!Next
      <3>4. CASE Check \/ Scan \/ CheckLength \/ Gather \/ CheckBody
        BY <2>1, <3>4, FramingAsks
      <3> QED BY <2>3, <3>1, <3>2, <3>3, <3>4 DEF Reading
    <2>4. CASE Handling
      <3>1. ASSUME NEW size \in 0 .. Block, TakeNext(size) PROVE UNCHANGED Fifo!vars
        <4>1. UNCHANGED <<grant, filled, view, known, lastread>>
          BY <3>1 DEF TakeNext, chainVars
        <4> QED BY <3>1, <4>1, TakeNextKeeps, Unnoticed
      <3>2. ASSUME NEW n \in 1 .. MaxLen, Skip(n) PROVE UNCHANGED Fifo!vars
        <4>1. UNCHANGED <<grant, filled, view, known, lastread>>
          BY <3>2 DEF Skip, chainVars
        <4> QED BY <3>2, <4>1, SkipKeeps, Unnoticed
      <3>3. ASSUME NEW n \in 1 .. MaxLen, BackUp(n) PROVE Fifo!Next \/ UNCHANGED Fifo!vars
        BY <2>1, <3>3, BackUpAsks
      <3> QED BY <2>4, <3>1, <3>2, <3>3 DEF Handling
    <2>5. CASE Clear
      BY <2>5, ClearEmpties DEF Fifo!Next
    <2>6. CASE UNCHANGED vars
      <3>1. Still /\ UNCHANGED <<grant, filled, view, known, lastread>>
        BY <2>6 DEF vars, Still
      <3>2. IInv'
        BY <2>6, InvStep
      <3>3. Queue' = Queue
        BY <3>1, <3>2, Splits, QueueStays DEF IInv
      <3> QED BY <3>1, <3>2, <3>3, Unnoticed
    <2> QED BY <2>2, <2>3, <2>4, <2>5, <2>6 DEF Next
  <1> QED BY InvAlways, StartsEmpty, <1>1, PTL DEF Spec, ImplementsFifo, Fifo!Spec
=============================================================================
