------------------------ MODULE RotativeBufferProofs ------------------------
(***************************************************************************)
(* The ring buffer's safety for every ring and block size: pointers and    *)
(* copies stay inside the allocation, what the IO thread may store to is   *)
(* free, what the worker is shown is the oldest readable bytes. And of the *)
(* messages read from it: a session uses the ring as its interface admits, *)
(* and its handler is given whole messages, under both framings.           *)
(***************************************************************************)
EXTENDS RingMessages, SequenceTheorems, WellFoundedInduction, TLAPS

\* What the pointers keep besides their ranges.
Pointers ==
    /\ writer >= reader => lastcopy = 0
    /\ writer < reader => lastcopy <= writer
    /\ lastcopy < Block
    /\ grant <= Writable
    /\ filled <= grant
    /\ view <= Readable /\ known <= Readable
    /\ writer < reader => view <= Size - reader + lastcopy

\* The part of the tail that lastcopy vouches for repeats the head.
TailCopies ==
    writer < reader => \A j \in 0 .. lastcopy - 1 : mem[Size + j] = mem[j]

IInv == TypeOK /\ Pointers /\ TailCopies

(***************************************************************************)
(* A buffer starts empty, with no grant and nothing shown.                 *)
(***************************************************************************)
LEMMA InvInit == Init => IInv
<1> SUFFICES ASSUME Init PROVE IInv
  OBVIOUS
<1>1. TypeOK
  BY SizeAssumption DEF Init, TypeOK
<1>2. Pointers /\ TailCopies
  BY SizeAssumption DEF Init, Pointers, TailCopies, Writable, Readable
<1> QED BY <1>1, <1>2 DEF IInv

(***************************************************************************)
(* A memcpy whose source and target lie in the allocation leaves a memory. *)
(***************************************************************************)
LEMMA CopiedType ==
    ASSUME NEW m \in [Cells -> Byte], NEW to \in Nat, NEW from \in Nat, NEW n \in Nat,
           from + n <= Size + Block
    PROVE  Copied(m, to, from, n) \in [Cells -> Byte]
BY SizeAssumption DEF Copied, Cells

(***************************************************************************)
(* Every step keeps the pointers in order and the memory in bounds.        *)
(***************************************************************************)
LEMMA InvStep == IInv /\ [Next]_vars => IInv'
<1> SUFFICES ASSUME IInv, [Next]_vars PROVE IInv'
  OBVIOUS
<1> USE SizeAssumption, BoundAssumption
    DEF IInv, TypeOK, Pointers, writerVars, readerVars, Readable, Writable, Least
<1>1. ASSUME NEW size \in 1 .. Block, Write(size) PROVE IInv'
  BY <1>1 DEF Write, TailCopies
<1>2. ASSUME NEW b \in Byte, Fill(b) PROVE IInv'
  <2>1. writer + filled \in Cells /\ mem' \in [Cells -> Byte]
    BY <1>2 DEF Fill, Cells
  <2>2. TypeOK' /\ Pointers'
    BY <1>2, <2>1 DEF Fill
  <2>3. TailCopies'
    BY <1>2 DEF Fill, TailCopies, Cells
  <2> QED BY <2>2, <2>3
<1>3. ASSUME NEW n \in 0 .. Block, CommitWrite(n) PROVE IInv'
  <2>1. CASE writer + n >= Size
    <3>1. writer >= reader /\ lastcopy' = writer + n - Size /\ lastcopy' < reader
      BY <1>3, <2>1 DEF CommitWrite
    <3>2. mem' = Copied(mem, 0, Size, lastcopy') /\ lastcopy' \in Nat
          /\ Size + lastcopy' <= Size + Block
      BY <1>3, <2>1 DEF CommitWrite
    <3>3. mem' \in [Cells -> Byte]
      BY <3>2, CopiedType
    <3>4. TypeOK' /\ Pointers'
      BY <1>3, <2>1, <3>1, <3>3 DEF CommitWrite
    <3>5. TailCopies'
      BY <1>3, <2>1, <3>1, <3>2 DEF TailCopies, Copied, Cells, CommitWrite
    <3> QED BY <3>4, <3>5
  <2>2. CASE writer + n < Size
    BY <1>3, <2>2 DEF CommitWrite, TailCopies
  <2> QED BY <2>1, <2>2
<1>4. ASSUME NEW exp \in 0 .. Size, ReadableSize(exp) PROVE IInv'
  BY <1>4 DEF ReadableSize, TailCopies
<1>5. ASSUME NEW size \in 1 .. Block, ReadStraight(size) PROVE IInv'
  BY <1>5 DEF ReadStraight, Shown, TailCopies
<1>6. ASSUME NEW size \in 1 .. Block, ReadAcross(size) PROVE IInv'
  <2> DEFINE there == Size - reader + lastcopy
  <2>0. writer < reader /\ there \in Nat
    BY <1>6 DEF ReadAcross
  <2>1. CASE size <= there \/ Readable < size
    BY <1>6, <2>0, <2>1 DEF ReadAcross, Shown, TailCopies
  <2>2. CASE ~(size <= there \/ Readable < size)
    <3>1. /\ mem' = Copied(mem, Size + lastcopy, lastcopy, size - there)
          /\ lastcopy' = lastcopy + size - there
          /\ lastcopy' = size - (Size - reader)
      BY <1>6, <2>0, <2>2 DEF ReadAcross
    <3>2. mem' \in [Cells -> Byte]
      BY <1>6, <2>0, <2>2, <3>1, CopiedType
    <3>3. TypeOK' /\ Pointers'
      BY <1>6, <2>0, <2>2, <3>1, <3>2 DEF ReadAcross, Shown
    <3>4. TailCopies'
      BY <1>6, <2>0, <2>2, <3>1 DEF ReadAcross, TailCopies, Copied, Cells
    <3> QED BY <3>3, <3>4
  <2> QED BY <2>1, <2>2
<1>7. ASSUME NEW n \in 1 .. Size - 1, CommitRead(n) PROVE IInv'
  BY <1>7 DEF CommitRead, TailCopies
<1>8. CASE Clear
  <2>1. TypeOK'
    BY <1>8 DEF Clear
  <2>2. Pointers' /\ TailCopies'
    BY <1>8 DEF Clear, TailCopies
  <2> QED BY <2>1, <2>2
<1>9. CASE UNCHANGED vars
  BY <1>9 DEF vars, TailCopies
<1> QED BY <1>1, <1>2, <1>3, <1>4, <1>5, <1>6, <1>7, <1>8, <1>9 DEF Next

(***************************************************************************)
(* The pointers and the copied tail stay consistent in every behaviour.    *)
(***************************************************************************)
LEMMA InvAlways == Spec => []IInv
BY InvInit, InvStep, PTL DEF Spec

(***************************************************************************)
(* The pointers stay in the ring, and every memory access in the           *)
(* allocation, for every ring size and every block size up to it.          *)
(***************************************************************************)
THEOREM TypeCorrect == Spec => []TypeOK
<1>1. IInv => TypeOK
  BY DEF IInv
<1> QED BY InvAlways, <1>1, PTL

(***************************************************************************)
(* Byte i of the view is the i-th readable byte.                           *)
(***************************************************************************)
LEMMA Prefix == IInv => ViewIsPrefix
<1> SUFFICES ASSUME IInv, NEW i \in 0 .. view - 1 PROVE mem[reader + i] = mem[Ring(i)]
  BY SizeAssumption DEF IInv, Pointers, TypeOK, ViewIsPrefix, Readable
<1>1. CASE reader + i < Size
  BY <1>1 DEF Ring
<1>2. CASE reader + i >= Size
  <2>1. writer < reader /\ reader + i - Size \in 0 .. lastcopy - 1
    BY <1>2, SizeAssumption DEF IInv, TypeOK, Pointers, Readable
  <2>2. reader + i = Size + (reader + i - Size)
    BY SizeAssumption DEF IInv, TypeOK
  <2> QED BY <2>1, <2>2, <1>2, SizeAssumption DEF IInv, TypeOK, TailCopies, Ring
<1> QED BY <1>1, <1>2, SizeAssumption DEF IInv, TypeOK

(***************************************************************************)
(* The reader is shown the oldest readable bytes, contiguous.              *)
(***************************************************************************)
THEOREM ViewCorrect == Spec => []ViewIsPrefix
BY InvAlways, Prefix, PTL

(***************************************************************************)
(* The granted region lies between what is readable.                       *)
(***************************************************************************)
LEMMA GrantFree == IInv => GrantIsFree
BY SizeAssumption DEF IInv, TypeOK, Pointers, GrantIsFree, Ring, Readable, Writable

(***************************************************************************)
(* What the socket stores to while the mutex is free is nobody else's.     *)
(***************************************************************************)
THEOREM GrantCorrect == Spec => []GrantIsFree
BY InvAlways, GrantFree, PTL

-----------------------------------------------------------------------------
(* The ring as a queue of bytes *)

Filling == [i \in 1 .. filled |-> mem[writer + i - 1]]
View == [i \in 1 .. view |-> mem[reader + i - 1]]
ShowsOldest == View = SubSeq(Queue, 1, view)

(***************************************************************************)
(* The three regions are sequences of bytes, and what is not readable is   *)
(* room.                                                                   *)
(***************************************************************************)
LEMMA Regions ==
    ASSUME IInv
    PROVE  /\ Queue \in Seq(Byte) /\ Len(Queue) = Readable
           /\ Filling \in Seq(Byte) /\ Len(Filling) = filled
           /\ View \in Seq(Byte) /\ Len(View) = view
           /\ Readable \in 0 .. Size - 1 /\ Writable = Size - 1 - Readable
<1> USE SizeAssumption DEF IInv, TypeOK, Pointers, Readable, Writable
<1>1. Readable \in 0 .. Size - 1 /\ Writable = Size - 1 - Readable
  OBVIOUS
<1>2. \A i \in 1 .. Readable : Ring(i - 1) \in Cells
  BY DEF Ring, Cells
<1>3. \A i \in 1 .. filled : writer + i - 1 \in Cells
  BY DEF Cells
<1>4. \A i \in 1 .. view : reader + i - 1 \in Cells
  BY DEF Cells
<1> HIDE DEF Readable
<1>5. Queue \in Seq(Byte) /\ Len(Queue) = Readable
  BY <1>1, <1>2 DEF Queue
<1>6. Filling \in Seq(Byte) /\ Len(Filling) = filled
  BY <1>3 DEF Filling
<1>7. View \in Seq(Byte) /\ Len(View) = view
  <2>1. view \in Nat
    OBVIOUS
  <2>2. \A i \in 1 .. view : mem[reader + i - 1] \in Byte
    BY <1>4
  <2> QED BY <2>1, <2>2 DEF View
<1> QED BY <1>1, <1>5, <1>6, <1>7

(***************************************************************************)
(* The region read() shows is a prefix of the queue.                       *)
(***************************************************************************)
LEMMA ViewIsQueue == IInv => ShowsOldest
<1> SUFFICES ASSUME IInv PROVE View = SubSeq(Queue, 1, view)
  BY DEF ShowsOldest
<1>1. \A i \in 1 .. view : mem[reader + i - 1] = mem[Ring(i - 1)]
  <2> SUFFICES ASSUME NEW i \in 1 .. view PROVE mem[reader + i - 1] = mem[Ring(i - 1)]
    OBVIOUS
  <2>1. i - 1 \in 0 .. view - 1 /\ reader + (i - 1) = reader + i - 1
    BY DEF IInv, TypeOK
  <2> QED BY <2>1, Prefix DEF ViewIsPrefix
<1>2. view \in 0 .. Len(Queue)
  BY Regions DEF IInv, TypeOK, Pointers
<1>3. View \in Seq(Byte) /\ SubSeq(Queue, 1, view) \in Seq(Byte)
      /\ Len(View) = view /\ Len(SubSeq(Queue, 1, view)) = view
  BY <1>2, Regions
<1>4. \A i \in 1 .. view : View[i] = SubSeq(Queue, 1, view)[i]
  BY <1>1, <1>2, Regions DEF View, Queue
<1> QED BY <1>3, <1>4, SeqEqual

\* What the queue, the filling and the view are when pointers and bytes stay.
SameQueue ==
    /\ UNCHANGED <<writer, reader>>
    /\ \A i \in 0 .. Readable - 1 : mem'[Ring(i)] = mem[Ring(i)]

(***************************************************************************)
(* A step that stores to no readable cell leaves the queue.                *)
(***************************************************************************)
LEMMA QueueKept ==
    ASSUME IInv, SameQueue
    PROVE  Queue' = Queue
<1>1. Readable' = Readable /\ \A i : Ring(i)' = Ring(i)
  BY DEF SameQueue, Readable, Ring
<1>2. \A i \in 1 .. Readable : i - 1 \in 0 .. Readable - 1
  BY Regions
<1>3. \A i \in 1 .. Readable : mem'[Ring(i - 1)] = mem[Ring(i - 1)]
  BY <1>2 DEF SameQueue
<1> QED BY <1>1, <1>3 DEF Queue

(***************************************************************************)
(* write() grants what is asked for, or all the room there is.             *)
(***************************************************************************)
LEMMA WriteGrants ==
    ASSUME IInv, NEW size \in 1 .. Block, Write(size)
    PROVE  Fifo!Grant(size)
<1>1. /\ grant = 0 /\ filled = 0 /\ filled' = 0 /\ grant' = Least(size, Writable)
      /\ UNCHANGED <<mem, writer, reader, view, lastread, known>>
  BY DEF Write, readerVars, IInv, TypeOK, Pointers
<1>2. Queue' = Queue /\ View' = View
  BY <1>1 DEF Queue, View, Readable, Ring
<1>3. Filling = <<>> /\ Filling' = <<>>
  BY <1>1 DEF Filling
<1>4. Writable = Size - 1 - Len(Queue) /\ Writable \in Nat /\ size \in Nat \ {0}
  <2>1. Len(Queue) \in 0 .. Size - 1 /\ Writable = Size - 1 - Len(Queue)
    BY Regions
  <2> QED BY <2>1, SizeAssumption
<1>5. Fifo!Least(size, Size - 1 - Len(Queue)) = Least(size, Writable)
  BY <1>4 DEF Least, Fifo!Least
<1>6. /\ Least(size, Writable) \in 0 .. Least(size, Writable)
      /\ Least(size, Writable) = 0 => Writable = 0
  BY <1>4 DEF Least
<1> HIDE DEF Least, Fifo!Least
<1> QED BY <1>1, <1>2, <1>3, <1>4, <1>5, <1>6 DEF Fifo!Grant, Queue, View, Filling

(***************************************************************************)
(* A byte is stored behind the ones stored before.                         *)
(***************************************************************************)
LEMMA FillAppends ==
    ASSUME IInv, NEW b \in Byte, Fill(b)
    PROVE  Fifo!Fill(b)
<1>1. /\ filled < grant /\ filled' = filled + 1
      /\ mem' = [mem EXCEPT ![writer + filled] = b]
      /\ UNCHANGED <<writer, reader, grant, view, lastread, known>>
  BY DEF Fill, readerVars
<1>2. /\ filled \in Nat /\ grant \in Nat /\ writer \in Nat /\ reader \in Nat /\ view \in Nat
      /\ writer + filled \in Cells /\ mem \in [Cells -> Byte]
  BY <1>1, SizeAssumption DEF IInv, TypeOK, Pointers, Cells
<1>3. writer + filled \in writer .. writer + grant - 1
  BY <1>1, <1>2
<1>4. \A i \in 0 .. Readable - 1 : Ring(i) # writer + filled
  BY <1>3, GrantFree DEF GrantIsFree
<1>5. writer + filled \notin reader .. reader + view - 1
  BY <1>3, GrantFree DEF GrantIsFree
<1>6. \A c \in Cells \ {writer + filled} : mem'[c] = mem[c]
  BY <1>1, <1>2
<1>7. Queue' = Queue
  <2>1. \A i \in 0 .. Readable - 1 : Ring(i) \in Cells
    BY SizeAssumption DEF IInv, TypeOK, Readable, Ring, Cells
  <2> QED BY <1>1, <1>4, <1>6, <2>1, QueueKept DEF SameQueue
<1>8. View' = View
  <2>1. \A i \in 1 .. view : reader + i - 1 \in Cells \ {writer + filled}
    BY <1>2, <1>5, SizeAssumption DEF IInv, TypeOK, Pointers, Cells
  <2> QED BY <1>1, <1>6, <2>1 DEF View
<1>9. Filling' = Append(Filling, b)
  <2>1. \A i \in 1 .. filled : writer + i - 1 \in Cells \ {writer + filled}
    BY <1>2, SizeAssumption DEF IInv, TypeOK, Pointers, Cells
  <2>2. \A i \in 1 .. filled : mem'[writer + i - 1] = mem[writer + i - 1]
    BY <1>6, <2>1
  <2>3. mem'[writer + (filled + 1) - 1] = b
    BY <1>1, <1>2
  <2>4. Filling' = [i \in 1 .. filled + 1 |-> mem'[writer + i - 1]]
    BY <1>1 DEF Filling
  <2>5. Len(Filling) = filled /\ Filling \in Seq(Byte) /\ filled + 1 \in Nat
    BY <1>2, Regions
  <2>6. \A i \in 1 .. filled + 1 : mem'[writer + i - 1] \in Byte
    BY <1>2, <2>1, <2>2, <2>3
  <2>7. Filling' \in Seq(Byte) /\ Len(Filling') = filled + 1
    <3>1. [i \in 1 .. filled + 1 |-> mem'[writer + i - 1]] \in Seq(Byte)
      BY <2>5, <2>6
    <3> QED BY <2>4, <2>5, <3>1
  <2>8. \A i \in 1 .. filled + 1 : Filling'[i] = Append(Filling, b)[i]
    <3> SUFFICES ASSUME NEW i \in 1 .. filled + 1 PROVE Filling'[i] = Append(Filling, b)[i]
      OBVIOUS
    <3>1. CASE i = filled + 1
      BY <3>1, <2>3, <2>4, <2>5, AppendProperties
    <3>2. CASE i # filled + 1
      <4>1. i \in 1 .. filled
        BY <3>2, <1>2
      <4>2. Append(Filling, b)[i] = Filling[i]
        BY <4>1, <2>5, AppendProperties
      <4>3. Filling[i] = mem[writer + i - 1]
        BY <4>1 DEF Filling
      <4> QED BY <4>1, <4>2, <4>3, <2>2, <2>4
    <3> QED BY <3>1, <3>2
  <2>9. Append(Filling, b) \in Seq(Byte) /\ Len(Append(Filling, b)) = filled + 1
    BY <2>5, AppendProperties
  <2> QED BY <2>7, <2>8, <2>9, SeqEqual
<1>10. Len(Filling) = filled
  BY Regions
<1> QED BY <1>1, <1>7, <1>8, <1>9, <1>10 DEF Fifo!Fill, Queue, View, Filling

(***************************************************************************)
(* Where the elements of two joined sequences are.                         *)
(***************************************************************************)
LEMMA Joined ==
    ASSUME NEW S, NEW s \in Seq(S), NEW t \in Seq(S), NEW m, NEW n, Len(s) = m, Len(t) = n
    PROVE  /\ s \o t \in Seq(S) /\ Len(s \o t) = m + n
           /\ \A i \in 1 .. m + n : (s \o t)[i] = IF i <= m THEN s[i] ELSE t[i - m]
BY ConcatProperties

(***************************************************************************)
(* A commit puts what it publishes behind what was readable; where it      *)
(* crosses the ring's end, the copies at the head are the bytes stored to  *)
(* the tail.                                                               *)
(***************************************************************************)
LEMMA CommitAppends ==
    ASSUME IInv, NEW n \in 0 .. Block, CommitWrite(n)
    PROVE  Fifo!Commit(n)
<1>1. /\ n <= filled /\ filled' = 0 /\ grant' = 0 /\ lastread' = lastread + 1
      /\ UNCHANGED <<reader, view, known>>
  BY DEF CommitWrite, readerVars
<1>2. /\ reader \in 0 .. Size - 1 /\ writer \in 0 .. Size - 1 /\ filled \in 0 .. Block
      /\ filled <= Writable /\ lastread \in Nat /\ view \in 0 .. Block /\ view <= Readable
      /\ mem \in [Cells -> Byte]
  BY SizeAssumption DEF IInv, TypeOK, Pointers, Writable
<1> USE <1>1, <1>2, SizeAssumption
<1>3. Readable' = Readable + n /\ Readable \in 0 .. Size - 1
  BY DEF CommitWrite, Readable, Writable
<1>4. \A c \in reader .. Size + Block - 1 : mem'[c] = mem[c]
  BY DEF CommitWrite, Copied, Writable, Cells
<1>5. \A i \in 0 .. Readable - 1 : mem'[Ring(i)] = mem[Ring(i)]
  <2>1. CASE writer + n >= Size
    <3>1. \A i \in 0 .. Readable - 1 : Ring(i) \in reader .. Size + Block - 1
      BY <2>1 DEF Ring, Readable, Writable
    <3> QED BY <3>1, <1>4
  <2>2. CASE writer + n < Size
    BY <2>2 DEF CommitWrite
  <2> QED BY <2>1, <2>2
<1>6. \A k \in 0 .. n - 1 : mem'[Ring(Readable + k)] = mem[writer + k]
  <2> SUFFICES ASSUME NEW k \in 0 .. n - 1 PROVE mem'[Ring(Readable + k)] = mem[writer + k]
    OBVIOUS
  <2>1. CASE writer + n >= Size /\ writer + k >= Size
    <3>1. Ring(Readable + k) = writer + k - Size
      BY <2>1 DEF Ring, Readable, Writable
    <3>2. mem' = Copied(mem, 0, Size, writer + n - Size)
      BY <2>1 DEF CommitWrite
    <3>3. writer + k - Size \in Cells /\ writer + k - Size \in 0 .. 0 + (writer + n - Size) - 1
      BY <2>1 DEF Cells
    <3>4. mem'[writer + k - Size] = mem[Size + (writer + k - Size - 0)]
      BY <3>2, <3>3 DEF Copied
    <3> QED BY <3>1, <3>4
  <2>2. CASE writer + n >= Size /\ writer + k < Size
    <3>1. Ring(Readable + k) = writer + k /\ writer + k \in reader .. Size + Block - 1
      BY <2>2 DEF Ring, Readable, Writable
    <3> QED BY <3>1, <1>4
  <2>3. CASE writer + n < Size
    <3>1. Ring(Readable + k) = writer + k
      BY <2>3 DEF Ring, Readable, Writable
    <3>2. mem' = mem
      BY <2>3 DEF CommitWrite
    <3> QED BY <3>1, <3>2
  <2> QED BY <2>1, <2>2, <2>3
<1>7. \A i : Ring(i)' = Ring(i)
  BY DEF Ring
<1>8. Queue' = [i \in 1 .. Readable + n |-> mem'[Ring(i - 1)]]
  BY <1>3, <1>7 DEF Queue
<1>9. /\ Queue \in Seq(Byte) /\ Len(Queue) = Readable
      /\ Filling \in Seq(Byte) /\ Len(Filling) = filled
  BY Regions
<1>10. Queue' = Queue \o SubSeq(Filling, 1, n)
  <2> DEFINE piece == SubSeq(Filling, 1, n)
  <2>1. piece \in Seq(Byte) /\ Len(piece) = n /\ \A i \in 1 .. n : piece[i] = mem[writer + i - 1]
    <3>1. \A i \in 1 .. n : Filling[i] \in Byte /\ Filling[i] = mem[writer + i - 1]
      BY <1>9 DEF Filling
    <3>2. n \in Int /\ 1 \in Int /\ (IF 1 <= n THEN n - 1 + 1 ELSE 0) = n /\ n - 1 + 1 = n
          /\ \A i \in 1 .. n : 1 + i - 1 = i
      OBVIOUS
    <3> QED BY <3>1, <3>2, SubSeqProperties
  <2> HIDE DEF piece
  <2>2. /\ Queue \o piece \in Seq(Byte) /\ Len(Queue \o piece) = Readable + n
        /\ \A i \in 1 .. Readable + n :
              (Queue \o piece)[i] = IF i <= Readable THEN Queue[i] ELSE piece[i - Readable]
    BY <1>9, <2>1, Joined
  <2>3. \A i \in 1 .. Readable + n : mem'[Ring(i - 1)] = (Queue \o piece)[i]
    <3> SUFFICES ASSUME NEW i \in 1 .. Readable + n
                 PROVE  mem'[Ring(i - 1)] = (Queue \o piece)[i]
      OBVIOUS
    <3>1. CASE i <= Readable
      <4>1. i \in 1 .. Readable /\ i - 1 \in 0 .. Readable - 1
        BY <3>1, <1>3
      <4>2. (Queue \o piece)[i] = Queue[i]
        BY <3>1, <2>2
      <4> QED BY <4>1, <4>2, <1>5 DEF Queue
    <3>2. CASE i > Readable
      <4>1. PICK k \in 0 .. n - 1 : k = i - 1 - Readable
        BY <3>2, <1>3
      <4>2. /\ i - 1 = Readable + k /\ i - Readable = k + 1 /\ k + 1 \in 1 .. n
            /\ writer + (k + 1) - 1 = writer + k
        BY <4>1, <1>3
      <4>3. (Queue \o piece)[i] = piece[i - Readable]
        BY <3>2, <1>3, <2>2
      <4>4. piece[i - Readable] = mem[writer + k]
        BY <4>2, <2>1
      <4>5. mem'[Ring(i - 1)] = mem[writer + k]
        BY <4>2, <1>6
      <4> QED BY <4>3, <4>4, <4>5
    <3>3. i <= Readable \/ i > Readable
      BY <1>3
    <3> QED BY <3>1, <3>2, <3>3
  <2>4. [i \in 1 .. Readable + n |-> mem'[Ring(i - 1)]]
            = [i \in 1 .. Readable + n |-> (Queue \o piece)[i]]
    BY <2>3
  <2>5. [i \in 1 .. Readable + n |-> (Queue \o piece)[i]] = Queue \o piece
    <3>1. Queue \o piece \in [1 .. Readable + n -> Byte]
      BY <2>2, LenProperties
    <3> QED BY <3>1
  <2> QED BY <1>8, <2>4, <2>5 DEF piece
<1>11. View' = View
  <2>1. \A i \in 1 .. view : reader + i - 1 \in reader .. Size + Block - 1
    OBVIOUS
  <2> QED BY <1>4, <2>1 DEF View
<1>12. Filling' = <<>> /\ (lastread' = 0) = FALSE
  BY DEF Filling
<1> QED BY <1>9, <1>10, <1>11, <1>12 DEF Fifo!Commit, Queue, View, Filling

(***************************************************************************)
(* readable_size() tells how much is there, or makes the reader wait.      *)
(***************************************************************************)
LEMMA SizeTells ==
    ASSUME IInv, NEW exp \in 0 .. Size, ReadableSize(exp)
    PROVE  Fifo!Ask(exp)
<1>1. /\ lastread # 0
      /\ lastread' = IF Readable < exp THEN 0 ELSE Readable
      /\ known' = lastread'
      /\ UNCHANGED <<mem, writer, reader, grant, filled, view>>
  BY DEF ReadableSize, writerVars
<1>2. Queue' = Queue /\ View' = View /\ Filling' = Filling
  BY <1>1 DEF Queue, View, Filling, Readable, Ring
<1>3. Len(Queue) = Readable
  BY Regions
<1> QED BY <1>1, <1>2, <1>3 DEF Fifo!Ask, Queue, View, Filling

(***************************************************************************)
(* A view of the new length is what the reader is shown.                   *)
(***************************************************************************)
LEMMA ViewShows ==
    ASSUME IInv, IInv', NEW size \in 1 .. Block, NEW n \in 0 .. Least(size, Readable),
           lastread # 0, Shown(n), Queue' = Queue, Filling' = Filling,
           UNCHANGED <<grant, filled, reader, writer>>,
           Readable >= size => n = size,
           n = 0 => Readable = 0
    PROVE  Fifo!Show(size)
<1>1. /\ Len(Queue) = Readable /\ Readable \in Nat /\ Readable' = Readable
      /\ Len(Queue') = Readable
  BY Regions DEF Readable
<1>2. View' = SubSeq(Queue', 1, view')
  <2>1. ShowsOldest'
    BY ViewIsQueue, PTL
  <2> QED BY <2>1 DEF ShowsOldest
<1>3. view' = n /\ known' = n /\ lastread' = n
  BY DEF Shown
<1>4. n = 0 => Queue = <<>>
  BY <1>1 DEF Queue
<1>5. Fifo!Least(size, Len(Queue)) = Least(size, Readable)
  BY <1>1 DEF Least, Fifo!Least
<1>6. View' = SubSeq(Queue, 1, n)
  BY <1>2, <1>3
<1> HIDE DEF Least, Fifo!Least
<1> QED BY <1>1, <1>3, <1>4, <1>5, <1>6 DEF Fifo!Show, Queue, View, Filling

(***************************************************************************)
(* read() inside the ring shows what is asked for, or all that is there.   *)
(***************************************************************************)
LEMMA StraightShows ==
    ASSUME IInv, NEW size \in 1 .. Block, ReadStraight(size)
    PROVE  Fifo!Show(size)
<1>1. IInv'
  BY InvStep DEF Next
<1>2. /\ lastread # 0 /\ Shown(Least(size, Readable))
      /\ UNCHANGED <<mem, reader, writer, grant, filled>>
  BY DEF ReadStraight, writerVars
<1>3. Queue' = Queue /\ Filling' = Filling
  BY <1>2 DEF Queue, Filling, Readable, Ring
<1>4. Readable \in Nat
  BY Regions
<1>5. /\ Least(size, Readable) \in 0 .. Least(size, Readable)
      /\ Readable >= size => Least(size, Readable) = size
      /\ Least(size, Readable) = 0 => Readable = 0
  BY <1>4 DEF Least
<1> QED BY <1>1, <1>2, <1>3, <1>5, ViewShows

(***************************************************************************)
(* read() across the end shows all that is asked for when it is there, and *)
(* copies to the tail only, which no readable byte is in.                  *)
(***************************************************************************)
LEMMA AcrossShows ==
    ASSUME IInv, NEW size \in 1 .. Block, ReadAcross(size)
    PROVE  Fifo!Show(size)
<1> DEFINE there == Size - reader + lastcopy
<1> DEFINE n == IF size <= there \/ Readable < size THEN Least(size, there) ELSE size
<1>1. IInv'
  BY InvStep DEF Next
<1>2. /\ lastread # 0 /\ writer < reader /\ Shown(n)
      /\ UNCHANGED <<reader, writer, grant, filled>>
  BY DEF ReadAcross, writerVars
<1>3. there \in 1 .. Readable
  BY <1>2, SizeAssumption DEF IInv, TypeOK, Pointers, Readable
<1>4. /\ n \in 0 .. Least(size, Readable)
      /\ Readable >= size => n = size
      /\ n = 0 => Readable = 0
  <2> HIDE DEF there
  <2>1. Readable \in Nat /\ there \in Nat \ {0} /\ there <= Readable /\ size \in Nat \ {0}
    BY <1>3, Regions
  <2>2. CASE size <= there \/ Readable < size
    BY <2>1, <2>2 DEF Least
  <2>3. CASE ~(size <= there \/ Readable < size)
    BY <2>1, <2>3 DEF Least
  <2> QED BY <2>2, <2>3
<1>5. \A c \in 0 .. Size - 1 : mem'[c] = mem[c]
  <2>1. CASE size <= there \/ Readable < size
    BY <2>1 DEF ReadAcross
  <2>2. CASE ~(size <= there \/ Readable < size)
    BY <2>2, SizeAssumption DEF ReadAcross, Copied, Cells, IInv, TypeOK
  <2> QED BY <2>1, <2>2
<1>6. Queue' = Queue
  <2>1. \A i \in 0 .. Readable - 1 : Ring(i) \in 0 .. Size - 1
    BY SizeAssumption DEF IInv, TypeOK, Readable, Ring
  <2> QED BY <1>2, <1>5, <2>1, QueueKept DEF SameQueue
<1>7. Filling' = Filling
  <2>1. \A i \in 1 .. filled : writer + i - 1 \in 0 .. Size - 1
    BY <1>2, SizeAssumption DEF IInv, TypeOK, Pointers, Writable
  <2> QED BY <1>2, <1>5, <2>1 DEF Filling
<1> HIDE DEF n
<1> QED BY <1>1, <1>2, <1>4, <1>6, <1>7, ViewShows

(***************************************************************************)
(* commit_read() gives up the oldest bytes.                                *)
(***************************************************************************)
LEMMA ReadConsumes ==
    ASSUME IInv, NEW n \in 1 .. Size - 1, CommitRead(n)
    PROVE  Fifo!Consume(n)
<1>1. /\ n <= known /\ view' = 0 /\ known' = 0
      /\ UNCHANGED <<mem, lastread, writer, grant, filled>>
  BY DEF CommitRead, writerVars
<1>2. n <= Readable /\ Readable \in 0 .. Size - 1
  BY <1>1, Regions, SizeAssumption DEF IInv, TypeOK, Pointers
<1>3. Readable' = Readable - n
  BY <1>1, <1>2, SizeAssumption DEF CommitRead, IInv, TypeOK, Readable
<1>4. \A i \in 1 .. Readable - n : Ring(i - 1)' = Ring(n + i - 1)
  BY <1>1, <1>2, SizeAssumption DEF CommitRead, IInv, TypeOK, Readable, Ring
<1>5. Queue' = [i \in 1 .. Readable - n |-> mem[Ring(n + i - 1)]]
  BY <1>1, <1>3, <1>4 DEF Queue
<1>6. Queue \in Seq(Byte) /\ Len(Queue) = Readable
  BY Regions
<1>7. Queue' = SubSeq(Queue, n + 1, Len(Queue))
  <2>1. SubSeq(Queue, n + 1, Len(Queue)) = [i \in 1 .. Readable - n |-> Queue[n + 1 + i - 1]]
    BY <1>2, <1>6
  <2>2. \A i \in 1 .. Readable - n : Queue[n + 1 + i - 1] = mem[Ring(n + i - 1)]
    BY <1>2 DEF Queue
  <2> QED BY <1>5, <2>1, <2>2
<1>8. View' = <<>> /\ Filling' = Filling
  BY <1>1 DEF View, Filling
<1> QED BY <1>1, <1>7, <1>8 DEF Fifo!Consume, Queue, View, Filling

(***************************************************************************)
(* clear() empties the queue.                                              *)
(***************************************************************************)
LEMMA ClearEmpties ==
    ASSUME IInv, Clear
    PROVE  Fifo!Clear
<1>1. /\ grant = 0 /\ writer' = 0 /\ reader' = 0 /\ lastread' = 0 /\ view' = 0 /\ known' = 0
      /\ filled = 0 /\ UNCHANGED <<grant, filled>>
  BY DEF Clear, IInv, TypeOK, Pointers
<1>2. Queue' = <<>> /\ View' = <<>> /\ Filling = <<>> /\ Filling' = <<>>
  BY <1>1 DEF Queue, View, Filling, Readable
<1> QED BY <1>1, <1>2 DEF Fifo!Clear, Queue, View, Filling

(***************************************************************************)
(* The ring is a queue of bytes, for every ring and block size: each call  *)
(* does to the readable cells what the queue's does to its bytes.          *)
(***************************************************************************)
THEOREM RingIsFifo == Spec => ImplementsFifo
<1>1. Init => Fifo!Init
  BY DEF Init, Fifo!Init, Readable
<1>2. IInv /\ [Next]_vars => [Fifo!Next]_(Fifo!vars)
  <2> SUFFICES ASSUME IInv, [Next]_vars PROVE Fifo!Next \/ UNCHANGED Fifo!vars
    OBVIOUS
  <2>1. ASSUME NEW size \in 1 .. Block, Write(size) PROVE Fifo!Next
    BY <2>1, WriteGrants DEF Fifo!Next
  <2>2. ASSUME NEW b \in Byte, Fill(b) PROVE Fifo!Next
    BY <2>2, FillAppends DEF Fifo!Next
  <2>3. ASSUME NEW n \in 0 .. Block, CommitWrite(n) PROVE Fifo!Next
    BY <2>3, CommitAppends DEF Fifo!Next
  <2>4. ASSUME NEW exp \in 0 .. Size, ReadableSize(exp) PROVE Fifo!Next
    <3>1. exp \in 0 .. (Size - 1) + 1
      BY SizeAssumption
    <3> QED BY <2>4, <3>1, SizeTells DEF Fifo!Next
  <2>5. ASSUME NEW size \in 1 .. Block, ReadStraight(size) \/ ReadAcross(size) PROVE Fifo!Next
    BY <2>5, StraightShows, AcrossShows DEF Fifo!Next
  <2>6. ASSUME NEW n \in 1 .. Size - 1, CommitRead(n) PROVE Fifo!Next
    BY <2>6, ReadConsumes DEF Fifo!Next
  <2>7. CASE Clear
    BY <2>7, ClearEmpties DEF Fifo!Next
  <2>8. CASE UNCHANGED vars
    BY <2>8 DEF vars, Fifo!vars, Readable, Ring
  <2> QED BY <2>1, <2>2, <2>3, <2>4, <2>5, <2>6, <2>7, <2>8 DEF Next
<1> QED BY InvAlways, <1>1, <1>2, PTL DEF Spec, ImplementsFifo, Fifo!Spec

-----------------------------------------------------------------------------
(* Messages in the ring *)

\* The first bytes are the length, which is m_size, and they are shown.
LengthKnown ==
    /\ msize \in LenBytes .. MaxLen
    /\ LenBytes <= Readable /\ LenBytes <= view
    /\ msize = LengthOf[SubSeq(Queue, 1, LenBytes)]

\* pares_len: the length is not known, or it was read from the first bytes.
AtLength ==
    /\ phase \in {"wait", "check"} =>
          /\ limit = 0
          /\ (msize = 0 /\ position = 0) \/ (LengthKnown /\ position = LenBytes)
    /\ phase \in {"size", "show", "scan"} =>
          msize = 0 /\ limit = 0 /\ position = 0 /\ LenBytes <= Readable
    /\ phase = "show" => asked \in LenBytes .. Readable
    /\ phase = "scan" => LenBytes <= view
    /\ phase = "handle" => LengthKnown

\* pares_zero: no byte scanned so far is the one that ends the message.
AtZero ==
    /\ phase \in {"wait", "check", "size", "show", "scan"} =>
          /\ limit = 0 /\ msize = position
          /\ position <= MaxLen /\ position <= Readable
          /\ \A i \in 1 .. position : Queue[i] # 0
    /\ phase = "size" => Readable > 0
    /\ phase \in {"show", "scan"} => asked > position /\ asked <= Readable
    /\ phase = "scan" => view = Least(asked, Block) /\ known = view
    /\ phase = "handle" =>
          /\ msize \in 1 .. Readable
          /\ Queue[msize] = 0 /\ \A i \in 1 .. msize - 1 : Queue[i] # 0

AtHandler ==
    phase = "handle" =>
        /\ limit = msize /\ limit \in 1 .. MaxLen
        /\ limit <= known /\ position <= limit /\ position <= view

MessageInv ==
    /\ IInv /\ MessageTypeOK
    /\ framing = "none" => phase = "wait" /\ limit = 0
    /\ framing # "none" => (lastread = 0 <=> phase = "wait")
    /\ framing = "length" => AtLength
    /\ framing = "zero" => AtZero
    /\ AtHandler

\* The numbers among the constants
LEMMA Sizes ==
    /\ Size \in Nat \ {0} /\ Block \in Nat \ {0} /\ Block <= Size
    /\ LenBytes \in Nat \ {0} /\ LenBytes < MaxLen /\ MaxLen \in Nat /\ MaxLen <= Block
<1>1. /\ Size \in Nat \ {0} /\ Block \in Nat \ {0} /\ Block <= Size
  BY SizeAssumption
<1>2. LenBytes \in Nat \ {0} /\ LenBytes < MaxLen /\ MaxLen \in Nat /\ MaxLen <= Block
  BY FrameAssumption, SizeAssumption
<1> QED BY <1>1, <1>2

\* The queue is a sequence, as long as there are readable bytes.
QueueTyped ==
    Queue \in Seq(Byte) /\ Len(Queue) = Readable /\ Readable \in 0 .. Size - 1

LEMMA QueueNow == IInv => QueueTyped
BY Regions DEF QueueTyped

LEMMA QueueThen == (IInv => QueueTyped)'
BY QueueNow, PTL

(***************************************************************************)
(* A session's buffer starts as any buffer does, with no message begun.    *)
(***************************************************************************)
LEMMA MessageInvInit == MessageInit => Init /\ MessageInv
<1> SUFFICES ASSUME MessageInit PROVE Init /\ MessageInv
  OBVIOUS
<1> USE Sizes
<1>1. Init /\ IInv
  BY InvInit DEF MessageInit
<1>2. MessageTypeOK
  BY <1>1 DEF MessageInit, MessageTypeOK, IInv
<1>3. lastread = 0 /\ Readable = 0
  BY <1>1 DEF Init, Readable
<1>4. AtLength /\ AtZero /\ AtHandler
  BY <1>3 DEF MessageInit, AtLength, AtZero, AtHandler
<1> QED BY <1>1, <1>2, <1>3, <1>4 DEF MessageInv, MessageInit

\* What was readable is readable still, and is the same bytes.
Grown ==
    /\ Readable <= Readable'
    /\ \A i \in 1 .. Readable : Queue'[i] = Queue[i]

(***************************************************************************)
(* What the first bytes are does not change when more are added.           *)
(***************************************************************************)
LEMMA GrownPrefix ==
    ASSUME IInv, IInv', Grown, NEW k \in Nat, k <= Readable
    PROVE  SubSeq(Queue', 1, k) = SubSeq(Queue, 1, k)
<1>1. Queue \in Seq(Byte) /\ Len(Queue) = Readable /\ Readable \in Nat
  BY QueueNow, Sizes DEF QueueTyped
<1>2. Queue' \in Seq(Byte) /\ Len(Queue') = Readable' /\ Readable' \in Nat
  BY QueueThen, Sizes DEF QueueTyped
<1>3. k <= Readable' /\ \A i \in 1 .. k : Queue'[i] = Queue[i]
  BY <1>1, <1>2 DEF Grown
<1> HIDE DEF Queue, Readable, IInv
<1> DEFINE q == Queue  r == Queue'
<1>4. /\ q \in Seq(Byte) /\ r \in Seq(Byte) /\ k <= Len(q) /\ k <= Len(r)
      /\ \A i \in 1 .. k : r[i] = q[i]
  BY <1>1, <1>2, <1>3
<1> HIDE DEF q, r
<1>5. SubSeq(q, 1, k) = SubSeq(r, 1, k)
  BY <1>4
<1> QED BY <1>5 DEF q, r

(***************************************************************************)
(* The IO thread's steps leave the reader where it is, but for the commit  *)
(* that wakes it.                                                          *)
(***************************************************************************)
LEMMA WriterKeeps ==
    ASSUME MessageInv, IInv', Grown,
           UNCHANGED <<framing, expect, asked, msize, limit, position, view, known>>,
           phase' = phase \/ (phase = "wait" /\ phase' = "check"),
           framing # "none" => (lastread' = 0 <=> phase' = "wait"),
           framing = "none" => phase' = phase
    PROVE  MessageInv'
<1> USE Sizes
<1>1. Readable \in Nat /\ Readable' \in Nat /\ Readable <= Readable'
  BY QueueNow, QueueThen DEF QueueTyped, MessageInv, Grown
<1>2. MessageTypeOK'
  BY DEF MessageInv, MessageTypeOK, IInv
<1>3. LengthKnown => LengthKnown'
  <2> SUFFICES ASSUME LengthKnown PROVE LengthKnown'
    OBVIOUS
  <2>1. SubSeq(Queue', 1, LenBytes) = SubSeq(Queue, 1, LenBytes)
    BY GrownPrefix DEF LengthKnown, MessageInv
  <2>2. /\ msize \in LenBytes .. MaxLen
        /\ LenBytes <= Readable /\ LenBytes <= view
        /\ msize = LengthOf[SubSeq(Queue, 1, LenBytes)]
    BY DEF LengthKnown
  <2>3. LenBytes <= Readable'
    BY <1>1, <2>2
  <2> QED BY <2>1, <2>2, <2>3 DEF LengthKnown
<1>4. framing = "length" => AtLength'
  BY <1>1, <1>3 DEF MessageInv, AtLength
<1>5. framing = "zero" => AtZero'
  <2> SUFFICES ASSUME framing = "zero" PROVE AtZero'
    OBVIOUS
  <2>1. AtZero /\ msize \in Nat /\ position \in Nat /\ asked \in Nat
    BY DEF MessageInv, MessageTypeOK
  <2>2. \A k \in Nat : k <= Readable => \A i \in 1 .. k : Queue'[i] = Queue[i]
    BY <1>1 DEF Grown
  <2> HIDE DEF Queue, Readable
  <2> QED BY <1>1, <2>1, <2>2 DEF AtZero
<1>6. AtHandler'
  BY DEF MessageInv, AtHandler
<1> QED BY <1>2, <1>4, <1>5, <1>6 DEF MessageInv

(***************************************************************************)
(* write(), with what the socket stores: the queue stays.                  *)
(***************************************************************************)
LEMMA ReceiveStep ==
    ASSUME MessageInv, Receive
    PROVE  Next /\ MessageInv'
<1>1. IInv /\ framing # "none" /\ UNCHANGED sessionVars
  BY DEF MessageInv, Receive
<1>2. Next /\ Queue' = Queue /\ UNCHANGED <<writer, reader, lastread, view, known>>
  <2>1. CASE Write(Block)
    <3>1. Block \in 1 .. Block
      BY Sizes
    <3> HIDE DEF IInv
    <3>2. Next /\ Fifo!Grant(Block)
      BY <1>1, <2>1, <3>1, WriteGrants DEF Next
    <3> QED BY <2>1, <3>2 DEF Write, readerVars, Fifo!Grant, Queue
  <2>2. CASE \E b \in Byte : Fill(b)
    <3>1. PICK b \in Byte : Fill(b)
      BY <2>2
    <3>2. Next /\ Fifo!Fill(b)
      BY <1>1, <3>1, FillAppends DEF Next
    <3> QED BY <3>1, <3>2 DEF Fill, readerVars, Fifo!Fill, Queue
  <2> QED BY <2>1, <2>2 DEF Receive
<1>3. IInv'
  BY <1>1, <1>2, InvStep
<1>4. Grown
  <2>1. Readable' = Readable /\ Readable \in Nat
    BY <1>1, <1>2, QueueNow, Sizes DEF Readable, QueueTyped
  <2> QED BY <1>2, <2>1 DEF Grown
<1>5. MessageInv'
  <2>1. /\ UNCHANGED <<framing, expect, asked, msize, limit, position, phase>>
        /\ framing # "none" => (lastread = 0 <=> phase = "wait")
    BY <1>1 DEF sessionVars, messageVars, MessageInv
  <2> QED BY <1>1, <1>2, <1>3, <1>4, <2>1, WriterKeeps
<1> QED BY <1>2, <1>5

(***************************************************************************)
(* commit_recv() makes the queue longer, and takes the reader from "wait". *)
(***************************************************************************)
LEMMA CommitStep ==
    ASSUME MessageInv, CommitRecv
    PROVE  Next /\ MessageInv'
<1>1. /\ IInv /\ framing # "none" /\ CommitWrite(filled) /\ filled \in 0 .. Block
      /\ phase' = IF lastread = 0 THEN "check" ELSE phase
      /\ UNCHANGED <<framing, expect, asked, msize, limit, position>>
      /\ (lastread = 0 <=> phase = "wait")
  BY DEF MessageInv, CommitRecv, messageVars, IInv, TypeOK
<1>0. PICK n \in 0 .. Block : n = filled /\ CommitWrite(n)
  BY <1>1
<1>2. Next /\ Fifo!Commit(n)
  BY <1>1, <1>0, CommitAppends DEF Next
<1>3. IInv'
  BY <1>1, <1>2, InvStep
<1>4. /\ lastread \in Nat /\ lastread' = lastread + 1 /\ filled \in Nat
      /\ UNCHANGED <<view, known>>
  BY <1>1 DEF CommitWrite, readerVars, IInv, TypeOK
<1>5. Grown
  <2>1. Queue' = Queue \o SubSeq(Filling, 1, n)
    BY <1>2 DEF Fifo!Commit, Queue, Filling
  <2>2. Queue \in Seq(Byte) /\ Len(Queue) = Readable /\ Readable \in Nat
    BY <1>1, QueueNow, Sizes DEF QueueTyped
  <2>3. SubSeq(Filling, 1, n) \in Seq(Byte)
    <3>1. Filling \in Seq(Byte) /\ Len(Filling) = filled
      BY <1>1, Regions
    <3> HIDE DEF Filling
    <3> QED BY <1>4, <1>0, <3>1, SubSeqProperties
  <2>4. Len(Queue') = Readable' /\ Readable' \in Nat
    BY <1>3, QueueThen, Sizes DEF QueueTyped
  <2> DEFINE q == Queue  r == Queue'  t == SubSeq(Filling, 1, n)
  <2>5. q \in Seq(Byte) /\ t \in Seq(Byte) /\ r = q \o t
    BY <2>1, <2>2, <2>3
  <2> HIDE DEF q, r, t
  <2>6. Len(q) <= Len(r) /\ \A i \in 1 .. Len(q) : r[i] = q[i]
    BY <2>5, ConcatProperties
  <2> USE DEF q, r
  <2>7. Len(Queue) <= Len(Queue') /\ \A i \in 1 .. Len(Queue) : Queue'[i] = Queue[i]
    BY <2>6
  <2> QED BY <2>2, <2>4, <2>7 DEF Grown
<1>6. /\ phase' = phase \/ (phase = "wait" /\ phase' = "check")
      /\ lastread' # 0 /\ phase' # "wait"
  BY <1>1, <1>4
<1> QED BY <1>1, <1>2, <1>3, <1>4, <1>5, <1>6, WriterKeeps

(***************************************************************************)
(* readable_size() changes no byte and no view.                            *)
(***************************************************************************)
LEMMA SizeStep ==
    ASSUME IInv, NEW exp \in 0 .. Size, ReadableSize(exp)
    PROVE  /\ Next /\ IInv' /\ Queue' = Queue /\ Readable' = Readable /\ view' = view
           /\ lastread' = IF Readable < exp THEN 0 ELSE Readable
           /\ known' = lastread' /\ known' \in 0 .. Size
<1>1. Next
  BY DEF Next
<1>2. IInv'
  BY <1>1, InvStep
<1>3. /\ Queue' = Queue
  BY SizeTells DEF Fifo!Ask, Queue
<1> QED BY <1>1, <1>2, <1>3, Sizes DEF ReadableSize, Readable, writerVars, IInv, TypeOK

(***************************************************************************)
(* read() of what is there shows all of it.                                *)
(***************************************************************************)
LEMMA ReadStep ==
    ASSUME IInv, NEW size \in 1 .. Block, Read(size), size <= Readable
    PROVE  /\ Next /\ IInv' /\ Queue' = Queue /\ Readable' = Readable
           /\ lastread' = size /\ known' = size /\ view' = size
<1>1. Next
  BY DEF Next, Read
<1>2. IInv'
  BY <1>1, InvStep
<1>3. Queue' = Queue
  BY StraightShows, AcrossShows DEF Read, Fifo!Show, Queue
<1>4. Readable' = Readable
  BY DEF Read, ReadStraight, ReadAcross, Readable, writerVars
<1>5. Readable \in Nat /\ size \in Nat
  BY QueueNow, Sizes DEF QueueTyped
<1>6. lastread' = size /\ known' = size /\ view' = size
  <2>1. CASE ReadStraight(size)
    BY <1>5, <2>1 DEF ReadStraight, Shown, Least
  <2>2. CASE ReadAcross(size)
    BY <1>5, <2>2, Sizes DEF ReadAcross, Shown, Least, IInv, TypeOK
  <2> QED BY <2>1, <2>2 DEF Read
<1> QED BY <1>1, <1>2, <1>3, <1>4, <1>6

(***************************************************************************)
(* comfirm() of pares_len finds the length, or waits.                      *)
(***************************************************************************)
LEMMA CheckLengthStep ==
    ASSUME MessageInv, CheckLength
    PROVE  Next /\ MessageInv'
<1>1. /\ IInv /\ framing = "length" /\ phase = "check" /\ msize = 0
      /\ ReadableSize(LenBytes) /\ LenBytes \in 0 .. Size
      /\ phase' = IF lastread' = 0 THEN "wait" ELSE "size"
      /\ UNCHANGED <<framing, expect, asked, msize, limit, position>>
  BY Sizes DEF MessageInv, CheckLength, ReadableState, messageVars
<1>2. /\ Next /\ IInv' /\ Readable' = Readable
      /\ lastread' = IF Readable < LenBytes THEN 0 ELSE Readable
  BY <1>1, SizeStep
<1>3. limit = 0 /\ position = 0 /\ Readable \in Nat
  BY <1>1, Sizes, QueueNow DEF MessageInv, AtLength, LengthKnown, QueueTyped
<1>4. MessageTypeOK'
  BY <1>1, <1>2 DEF MessageInv, MessageTypeOK, IInv
<1>5. AtLength' /\ AtHandler'
  <2>1. CASE Readable < LenBytes
    BY <1>1, <1>2, <1>3, <2>1 DEF AtLength, AtHandler
  <2>2. CASE Readable >= LenBytes
    BY <1>1, <1>2, <1>3, <2>2, Sizes DEF AtLength, AtHandler
  <2> QED BY <1>3, <2>1, <2>2, Sizes
<1> QED BY <1>1, <1>2, <1>4, <1>5 DEF MessageInv

(***************************************************************************)
(* ... and then the message, or waits with the length kept.                *)
(***************************************************************************)
LEMMA CheckBodyStep ==
    ASSUME MessageInv, CheckBody
    PROVE  Next /\ MessageInv'
<1>1. /\ IInv /\ framing = "length" /\ phase = "check" /\ msize # 0
      /\ ReadableSize(msize)
      /\ phase' = IF lastread' = 0 THEN "wait" ELSE "handle"
      /\ limit' = IF lastread' = 0 THEN 0 ELSE msize
      /\ UNCHANGED <<framing, expect, asked, msize, position>>
  BY DEF MessageInv, CheckBody, ReadableState
<1>2. LengthKnown /\ position = LenBytes /\ msize \in 1 .. MaxLen /\ msize \in 0 .. Size
  BY <1>1, Sizes DEF MessageInv, AtLength, LengthKnown
<1>3. /\ Next /\ IInv' /\ Queue' = Queue /\ Readable' = Readable /\ view' = view
      /\ lastread' = IF Readable < msize THEN 0 ELSE Readable
      /\ known' = lastread'
  BY <1>1, <1>2, SizeStep
<1>4. Readable \in Nat
  BY <1>1, QueueNow, Sizes DEF QueueTyped
<1>5. MessageTypeOK'
  BY <1>1, <1>2, <1>3, Sizes DEF MessageInv, MessageTypeOK, IInv
<1> HIDE DEF Queue, Readable
<1>6. LengthKnown'
  BY <1>1, <1>2, <1>3 DEF LengthKnown
<1>7. AtLength' /\ AtHandler'
  <2>1. CASE Readable < msize
    BY <1>1, <1>2, <1>3, <1>6, <2>1 DEF AtLength, AtHandler
  <2>2. CASE Readable >= msize
    <3>1. phase' = "handle" /\ limit' = msize /\ known' = Readable
      BY <1>1, <1>2, <1>3, <1>4, <2>2
    <3>2. AtLength'
      BY <1>6, <3>1 DEF AtLength
    <3>3. position <= msize /\ position <= view
      BY <1>2 DEF LengthKnown
    <3> QED BY <1>1, <1>2, <1>3, <2>2, <3>1, <3>2, <3>3 DEF AtHandler
  <2> QED BY <1>2, <1>4, <2>1, <2>2
<1> QED BY <1>1, <1>3, <1>5, <1>7 DEF MessageInv

(***************************************************************************)
(* comfirm() of pares_zero finds a byte more than there was, or waits.     *)
(***************************************************************************)
LEMMA CheckZeroStep ==
    ASSUME MessageInv, CheckZero
    PROVE  Next /\ MessageInv'
<1>1. /\ IInv /\ framing = "zero" /\ phase = "check"
      /\ ReadableSize(expect) /\ expect \in 0 .. Size
      /\ phase' = IF lastread' = 0 THEN "wait" ELSE "size"
      /\ expect' = IF lastread' = 0 THEN 0 ELSE lastread' + 1
      /\ UNCHANGED <<framing, asked, msize, limit, position>>
  BY DEF MessageInv, MessageTypeOK, CheckZero, ReadableState
<1>2. /\ Next /\ IInv' /\ Queue' = Queue /\ Readable' = Readable
      /\ lastread' = IF Readable < expect THEN 0 ELSE Readable
  BY <1>1, SizeStep
<1>3. Readable \in 0 .. Size - 1
  BY <1>1, QueueNow DEF QueueTyped
<1>4. MessageTypeOK'
  BY <1>1, <1>2, <1>3, Sizes DEF MessageInv, MessageTypeOK, IInv
<1>5. AtZero /\ (lastread' # 0 => Readable > 0)
  BY <1>1, <1>2, <1>3, Sizes DEF MessageInv
<1> HIDE DEF Queue, Readable
<1>6. AtZero' /\ AtHandler'
  BY <1>1, <1>2, <1>5 DEF AtZero, AtHandler
<1> QED BY <1>1, <1>2, <1>4, <1>6 DEF MessageInv

(***************************************************************************)
(* next() asks how much there is.                                          *)
(***************************************************************************)
LEMMA NextSizeStep ==
    ASSUME MessageInv, NextSize
    PROVE  Next /\ MessageInv'
<1>1. /\ IInv /\ phase = "size" /\ ReadableSize(0) /\ 0 \in 0 .. Size
      /\ UNCHANGED <<framing, expect, msize, limit, position>>
      /\ position \in Nat /\ asked \in 0 .. Size - 1
  BY Sizes DEF MessageInv, MessageTypeOK, NextSize
<1>2. Readable \in 0 .. Size - 1
  BY <1>1, QueueNow DEF QueueTyped
<1>3. /\ Next /\ IInv' /\ Queue' = Queue /\ Readable' = Readable
      /\ lastread' = Readable
  <2>1. ~(Readable < 0)
    BY <1>2
  <2> QED BY <1>1, <2>1, SizeStep
<1>4. framing \in {"length", "zero"} /\ Readable > 0
  BY <1>1, <1>2, Sizes DEF MessageInv, MessageTypeOK, AtLength, AtZero
<1>5. \/ framing = "zero" /\ Readable <= position /\ phase' = "check" /\ asked' = asked
      \/ /\ ~(framing = "zero" /\ Readable <= position)
         /\ phase' = "show" /\ asked' = Readable
  BY <1>3 DEF NextSize
<1>6. MessageTypeOK'
  BY <1>1, <1>2, <1>3, <1>5, Sizes DEF MessageInv, MessageTypeOK, IInv
<1>7. (framing = "length" => AtLength) /\ (framing = "zero" => AtZero)
  BY DEF MessageInv
<1> HIDE DEF Queue, Readable
<1>8. AtHandler'
  BY <1>5 DEF AtHandler
<1>9. framing = "length" => AtLength'
  BY <1>1, <1>2, <1>3, <1>5, <1>7, Sizes DEF AtLength
<1>10. framing = "zero" => AtZero'
  <2> SUFFICES ASSUME framing = "zero" PROVE AtZero'
    OBVIOUS
  <2>1. /\ limit = 0 /\ msize = position
        /\ position <= MaxLen /\ position <= Readable
        /\ \A i \in 1 .. position : Queue[i] # 0
    BY <1>1, <1>7 DEF AtZero
  <2>2. phase' = "show" => asked' > position /\ asked' <= Readable
    BY <1>1, <1>2, <1>5
  <2>3. phase' \in {"check", "show"}
    BY <1>5
  <2> QED BY <1>1, <1>3, <2>1, <2>2, <2>3 DEF AtZero
<1> QED BY <1>1, <1>3, <1>4, <1>5, <1>6, <1>8, <1>9, <1>10 DEF MessageInv

(***************************************************************************)
(* ... and shows it, up to a block.                                        *)
(***************************************************************************)
LEMMA NextShowStep ==
    ASSUME MessageInv, NextShow
    PROVE  Next /\ MessageInv'
<1>1. /\ IInv /\ phase = "show" /\ Read(Least(asked, Block)) /\ phase' = "scan"
      /\ UNCHANGED <<framing, expect, asked, msize, limit, position>>
      /\ framing \in {"length", "zero"} /\ asked \in Nat /\ position \in Nat
  BY DEF MessageInv, MessageTypeOK, NextShow, messageVars
<1>2. Readable \in Nat
  BY <1>1, QueueNow, Sizes DEF QueueTyped
<1>3. (framing = "length" => AtLength) /\ (framing = "zero" => AtZero)
  BY DEF MessageInv
<1>4. asked > 0 /\ asked <= Readable
  BY <1>1, <1>2, <1>3, Sizes DEF AtLength, AtZero
<1>5. /\ Least(asked, Block) \in 1 .. Block /\ Least(asked, Block) <= Readable
      /\ (LenBytes <= asked => LenBytes <= Least(asked, Block))
  BY <1>1, <1>2, <1>4, Sizes DEF Least
<1>6. /\ Next /\ IInv' /\ Queue' = Queue /\ Readable' = Readable
      /\ lastread' = Least(asked, Block) /\ view' = Least(asked, Block)
      /\ known' = Least(asked, Block)
  BY <1>1, <1>5, ReadStep
<1>7. MessageTypeOK'
  BY <1>1, <1>6 DEF MessageInv, MessageTypeOK, IInv
<1> HIDE DEF Queue, Readable
<1>8. AtHandler' /\ lastread' # 0
  BY <1>1, <1>5, <1>6 DEF AtHandler
<1>9. framing = "length" => AtLength'
  BY <1>1, <1>2, <1>3, <1>5, <1>6, Sizes DEF AtLength
<1>10. framing = "zero" => AtZero'
  BY <1>1, <1>3, <1>6 DEF AtZero
<1> QED BY <1>1, <1>6, <1>7, <1>8, <1>9, <1>10 DEF MessageInv

\* What read() showed is the first bytes of the queue.
LEMMA ViewBytes ==
    ASSUME IInv
    PROVE  /\ view \in 0 .. Readable
           /\ \A i \in 0 .. view - 1 : mem[reader + i] = Queue[i + 1]
<1>1. view \in Nat /\ Readable \in Nat /\ view <= Readable
  BY QueueNow, Sizes DEF QueueTyped, IInv, TypeOK, Pointers
<1>2. ASSUME NEW i \in 0 .. view - 1 PROVE mem[reader + i] = Queue[i + 1]
  <2>1. i + 1 \in 1 .. Readable /\ (i + 1) - 1 = i
    BY <1>1
  <2>2. mem[reader + i] = mem[Ring(i)]
    BY Prefix DEF ViewIsPrefix
  <2> HIDE DEF Readable
  <2> QED BY <2>1, <2>2 DEF Queue
<1> QED BY <1>1, <1>2

(***************************************************************************)
(* comfirm() of pares_len reads the length from the first bytes.           *)
(***************************************************************************)
LEMMA ScanLengthStep ==
    ASSUME MessageInv, ScanLength
    PROVE  UNCHANGED vars /\ MessageInv'
<1>1. /\ IInv /\ framing = "length" /\ phase = "scan"
      /\ msize' = Length /\ position' = position + LenBytes /\ asked' = 0
      /\ phase' = IF msize' < LenBytes \/ msize' > MaxLen THEN "error" ELSE "check"
      /\ UNCHANGED <<framing, expect, limit>> /\ UNCHANGED vars
  BY DEF MessageInv, ScanLength
<1>2. /\ position = 0 /\ limit = 0 /\ LenBytes <= Readable /\ LenBytes <= view
      /\ lastread # 0
  BY <1>1 DEF MessageInv, AtLength
<1>3. Length = LengthOf[SubSeq(Queue, 1, LenBytes)] /\ Length \in Nat
  <2>1. Queue \in Seq(Byte) /\ Len(Queue) = Readable /\ Readable \in Nat
    BY <1>1, QueueNow, Sizes DEF QueueTyped
  <2>2. \A i \in 1 .. LenBytes : mem[Place + i - 1] = Queue[i]
    <3> SUFFICES ASSUME NEW i \in 1 .. LenBytes PROVE mem[Place + i - 1] = Queue[i]
      OBVIOUS
    <3>1. reader \in Nat /\ view \in Nat
      BY <1>1, Sizes DEF IInv, TypeOK
    <3>2. Place + i - 1 = reader + (i - 1) /\ i - 1 \in 0 .. view - 1 /\ (i - 1) + 1 = i
      BY <1>2, <3>1, Sizes DEF Place
    <3> HIDE DEF Queue
    <3> QED BY <1>1, <3>2, ViewBytes
  <2> HIDE DEF Queue, Readable
  <2>3. SubSeq(Queue, 1, LenBytes) = [i \in 1 .. LenBytes |-> Queue[i]]
    BY <1>2, <2>1, Sizes
  <2>4. [i \in 1 .. LenBytes |-> mem[Place + i - 1]] = [i \in 1 .. LenBytes |-> Queue[i]]
    BY <2>2
  <2>5. [i \in 1 .. LenBytes |-> Queue[i]] \in [1 .. LenBytes -> Byte]
    <3>1. \A i \in 1 .. LenBytes : Queue[i] \in Byte
      BY <1>2, <2>1, Sizes
    <3> QED BY <3>1
  <2>6. LengthOf[[i \in 1 .. LenBytes |-> Queue[i]]] \in Nat
    <3>1. LengthOf \in [[1 .. LenBytes -> Byte] -> Nat]
      BY FrameAssumption
    <3> QED BY <2>5, <3>1
  <2> QED BY <2>3, <2>4, <2>6 DEF Length
<1>4. IInv' /\ UNCHANGED <<Queue, Readable, view, known, lastread>>
  <2>1. UNCHANGED <<Queue, Readable, view, known, lastread>>
    BY <1>1 DEF vars, Queue, Readable, Ring
  <2> QED BY <1>1, <2>1, InvStep
<1>5. MessageTypeOK'
  BY <1>1, <1>2, <1>3, <1>4, Sizes DEF MessageInv, MessageTypeOK, IInv
<1> HIDE DEF Queue, Readable, Length
<1>6. phase' = "check" => LengthKnown'
  BY <1>1, <1>2, <1>3, <1>4, Sizes DEF LengthKnown
<1>7. AtLength' /\ AtHandler'
  BY <1>1, <1>2, <1>6, Sizes DEF AtLength, AtHandler
<1> QED BY <1>1, <1>2, <1>4, <1>5, <1>7 DEF MessageInv

\* A set of numbers has a least one.
LEMMA LeastNumber ==
    ASSUME NEW S \in SUBSET Nat, S # {}
    PROVE  \E m \in S : \A k \in S : m <= k
<1> DEFINE Before == OpToRel(<, Nat)
<1>1. IsWellFoundedOn(Before, Nat)
  BY NatLessThanWellFounded
<1>2. \E m \in S : \A k \in S : <<k, m>> \notin Before
  <2> HIDE DEF Before
  <2> QED BY <1>1, WFMin
<1>3. PICK m \in S : \A k \in S : <<k, m>> \notin Before
  BY <1>2
<1>4. \A k \in S : ~(k < m)
  BY <1>3 DEF OpToRel
<1> QED BY <1>4

\* strlen() comes to the first zero, or to the sentinel.
LEMMA StrlenStops ==
    ASSUME Place \in 0 .. Size + Block
    PROVE  /\ Strlen \in 0 .. Size + Block - Place
           /\ Place + Strlen = Size + Block \/ mem[Place + Strlen] = 0
           /\ \A m \in 0 .. Strlen - 1 : mem[Place + m] # 0
<1> DEFINE Stop(n) == Place + n = Size + Block \/ mem[Place + n] = 0
           stops == {n \in 0 .. Size + Block - Place : Stop(n)}
<1>1. Place \in Nat /\ Size + Block \in Nat /\ Size + Block - Place \in Nat
  BY Sizes
<1>2. Size + Block - Place \in stops /\ stops \in SUBSET Nat
  <2> DEFINE end == Size + Block - Place
  <2>1. end \in 0 .. end /\ Place + end = Size + Block /\ end \in Nat
    BY <1>1, Sizes
  <2>2. end \in stops
    BY <2>1
  <2>3. \A n \in stops : n \in Nat
    BY <1>1
  <2> HIDE DEF stops
  <2> QED BY <2>2, <2>3
<1>3. PICK n \in stops : \A k \in stops : n <= k
  <2> HIDE DEF stops
  <2> QED BY <1>2, LeastNumber
<1>4. n \in 0 .. Size + Block - Place /\ Stop(n)
  BY <1>3
<1>5. \A m \in 0 .. n - 1 : mem[Place + m] # 0
  <2> SUFFICES ASSUME NEW m \in 0 .. n - 1, mem[Place + m] = 0 PROVE FALSE
    OBVIOUS
  <2>1. m \in 0 .. Size + Block - Place /\ Stop(m) /\ m < n
    BY <1>1, <1>4
  <2>2. m \in stops
    BY <2>1
  <2> HIDE DEF stops
  <2> QED BY <1>1, <1>3, <1>4, <2>1, <2>2
<1>6. \E k \in 0 .. Size + Block - Place :
          /\ Place + k = Size + Block \/ mem[Place + k] = 0
          /\ \A m \in 0 .. k - 1 : mem[Place + m] # 0
  BY <1>4, <1>5
<1> HIDE DEF Place
<1> QED BY <1>6 DEF Strlen

(***************************************************************************)
(* comfirm() of pares_zero finds the end of the message among the bytes    *)
(* that next() showed, or that it is not there.                            *)
(***************************************************************************)
LEMMA ScanZeroStep ==
    ASSUME MessageInv, ScanZero
    PROVE  UNCHANGED vars /\ MessageInv'
<1>1. /\ IInv /\ framing = "zero" /\ phase = "scan"
      /\ msize' = msize + (IF Ended > 0 THEN Ended ELSE asked - position)
      /\ asked' = 0
      /\ UNCHANGED <<framing, expect>> /\ UNCHANGED vars
  BY DEF MessageInv, ScanZero
<1>2. \/ msize' > MaxLen /\ phase' = "error" /\ position' = asked /\ limit' = limit
      \/ /\ msize' <= MaxLen /\ Ended > 0
         /\ phase' = "handle" /\ limit' = msize' /\ position' = 0
      \/ /\ msize' <= MaxLen /\ ~(Ended > 0)
         /\ phase' = "size" /\ position' = asked /\ limit' = limit
  <2>1. \/ msize' > MaxLen /\ phase' = "error" /\ position' = asked /\ limit' = limit
        \/ /\ ~(msize' > MaxLen) /\ Ended > 0
           /\ phase' = "handle" /\ limit' = msize' /\ position' = 0
        \/ /\ ~(msize' > MaxLen) /\ ~(Ended > 0)
           /\ phase' = "size" /\ position' = asked /\ limit' = limit
    BY DEF ScanZero
  <2>2. Ended \in Int /\ msize \in Nat /\ asked \in Nat /\ position \in Nat
    <3>1. Place \in 0 .. Size + Block /\ asked \in Nat /\ position \in Nat /\ msize \in Nat
      BY <1>1, Sizes DEF MessageInv, MessageTypeOK, AtZero, Place, IInv, TypeOK
    <3>2. Strlen \in Int
      BY <3>1, StrlenStops, Sizes
    <3> HIDE DEF Strlen
    <3> QED BY <3>1, <3>2 DEF Ended
  <2> HIDE DEF Ended
  <2>3. msize' \in Int /\ MaxLen \in Int
    BY <1>1, <2>2, Sizes
  <2> QED BY <2>1, <2>3
<1>3. /\ limit = 0 /\ msize = position /\ position <= MaxLen /\ position <= Readable
      /\ \A i \in 1 .. position : Queue[i] # 0
      /\ asked > position /\ asked <= Readable
      /\ view = Least(asked, Block) /\ known = view /\ lastread # 0
      /\ asked \in 0 .. Size - 1 /\ position \in Nat
  BY <1>1 DEF MessageInv, MessageTypeOK, AtZero
<1>4. Readable \in Nat /\ reader \in 0 .. Size - 1
  BY <1>1, QueueNow, Sizes DEF QueueTyped, IInv, TypeOK
<1>5. IInv' /\ UNCHANGED <<Queue, Readable, view, known, lastread>>
  <2>1. UNCHANGED <<Queue, Readable, view, known, lastread>>
    BY <1>1 DEF vars, Queue, Readable, Ring
  <2> QED BY <1>1, <2>1, InvStep
<1>6. PICK n \in Nat :
          /\ n = Strlen
          /\ reader + position + n = Size + Block \/ mem[reader + position + n] = 0
          /\ \A m \in 0 .. n - 1 : mem[reader + position + m] # 0
  <2>1. Place \in 0 .. Size + Block
    BY <1>3, <1>4, Sizes DEF Place
  <2>2. /\ Strlen \in Nat
        /\ Place + Strlen = Size + Block \/ mem[Place + Strlen] = 0
        /\ \A m \in 0 .. Strlen - 1 : mem[Place + m] # 0
    BY <2>1, StrlenStops, Sizes
  <2> HIDE DEF Strlen
  <2> QED BY <2>2 DEF Place
<1>7. Ended = IF n + 1 <= asked - position THEN n + 1 ELSE 0
  BY <1>6 DEF Ended
<1>8. \A j \in 0 .. view - 1 : mem[reader + j] = Queue[j + 1]
  BY <1>1, ViewBytes
<1>9. \A m \in Nat : m < n /\ position + m < view => Queue[position + m + 1] # 0
  <2> SUFFICES ASSUME NEW m \in Nat, m < n, position + m < view
               PROVE  Queue[position + m + 1] # 0
    OBVIOUS
  <2>1. m \in 0 .. n - 1 /\ position + m \in 0 .. view - 1
        /\ reader + position + m = reader + (position + m)
    BY <1>3, <1>4, Sizes DEF Least
  <2> HIDE DEF Queue
  <2> QED BY <1>6, <1>8, <2>1
<1> HIDE DEF Queue, Readable, Ended
<1>10. MessageTypeOK'
  <2>1. msize' \in Nat
    <3>1. asked - position \in Nat /\ Ended \in Nat
      BY <1>3, <1>7
    <3> QED BY <1>1, <1>3, <3>1
  <2> QED BY <1>1, <1>2, <1>3, <1>5, <2>1, Sizes DEF MessageInv, MessageTypeOK, IInv
<1>11. CASE phase' = "error"
  BY <1>1, <1>3, <1>5, <1>10, <1>11 DEF MessageInv, AtZero, AtHandler
<1>12. CASE phase' = "handle"
  <2>1. /\ msize' <= MaxLen /\ Ended > 0 /\ limit' = msize' /\ position' = 0
    BY <1>2, <1>12
  <2>2. n + 1 <= asked - position /\ msize' = position + n + 1
    BY <1>1, <1>3, <1>7, <2>1
  <2>3. position + n < view /\ msize' <= view /\ msize' <= Readable /\ msize' \in Nat \ {0}
    BY <1>3, <1>4, <2>1, <2>2, Sizes DEF Least
  <2>4. Queue[msize'] = 0
    <3>1. reader + position + n # Size + Block
      BY <1>3, <1>4, <2>1, <2>2, Sizes
    <3>2. position + n \in 0 .. view - 1 /\ reader + position + n = reader + (position + n)
      BY <1>3, <1>4, <2>3, Sizes DEF Least
    <3> QED BY <1>6, <1>8, <2>2, <3>1, <3>2
  <2>5. \A i \in 1 .. msize' - 1 : Queue[i] # 0
    <3> SUFFICES ASSUME NEW i \in 1 .. msize' - 1, i > position PROVE Queue[i] # 0
      BY <1>3, <2>2
    <3>1. PICK m \in Nat : m = i - position - 1
      BY <1>3
    <3>2. m < n /\ position + m < view /\ i = position + m + 1
      <4>1. i \in Nat /\ i <= position + n /\ view \in Nat
        BY <1>3, <1>4, <2>2, Sizes DEF Least
      <4> QED BY <1>3, <2>3, <3>1, <4>1
    <3> QED BY <1>9, <3>2
  <2>6. AtZero'
    <3>1. msize' \in 1 .. Readable' /\ Queue'[msize'] = 0
      BY <1>4, <1>5, <2>3, <2>4
    <3>2. \A i \in 1 .. msize' - 1 : Queue'[i] # 0
      BY <1>5, <2>5
    <3> QED BY <1>12, <3>1, <3>2 DEF AtZero
  <2>7. AtHandler'
    BY <1>3, <1>4, <1>5, <2>1, <2>3, Sizes DEF AtHandler, Least
  <2> QED BY <1>1, <1>3, <1>5, <1>10, <1>12, <2>6, <2>7 DEF MessageInv
<1>13. CASE phase' = "size"
  <2>1. msize' <= MaxLen /\ ~(Ended > 0) /\ position' = asked /\ limit' = limit
    BY <1>2, <1>13
  <2>2. n >= asked - position /\ msize' = asked
    BY <1>1, <1>3, <1>7, <2>1
  <2>3. view = asked
    BY <1>3, <1>4, <2>1, <2>2, Sizes DEF Least
  <2>4. \A i \in 1 .. asked : Queue[i] # 0
    <3> SUFFICES ASSUME NEW i \in 1 .. asked, i > position PROVE Queue[i] # 0
      BY <1>3
    <3>1. PICK m \in Nat : m = i - position - 1
      BY <1>3
    <3>2. m < n /\ position + m < view /\ i = position + m + 1
      BY <1>3, <1>4, <2>2, <2>3, <3>1
    <3> QED BY <1>9, <3>2
  <2>5. AtZero'
    <3>1. limit' = 0 /\ msize' = position' /\ position' <= MaxLen /\ position' <= Readable'
          /\ Readable' > 0
      BY <1>3, <1>4, <1>5, <2>1, <2>2
    <3> QED BY <1>5, <1>13, <2>1, <2>4, <3>1 DEF AtZero
  <2>6. AtHandler'
    BY <1>13 DEF AtHandler
  <2> QED BY <1>1, <1>3, <1>5, <1>10, <1>13, <2>5, <2>6 DEF MessageInv
<1> QED BY <1>1, <1>2, <1>11, <1>12, <1>13

(***************************************************************************)
(* A handler's next() shows all of the message, from its beginning.        *)
(***************************************************************************)
LEMMA TakeNextStep ==
    ASSUME MessageInv, NEW n \in 1 .. MaxLen, TakeNext(n)
    PROVE  Next /\ MessageInv'
<1>1. /\ IInv /\ phase = "handle" /\ n <= limit - position
      /\ position' = position + n /\ Read(limit)
      /\ UNCHANGED <<framing, phase, expect, asked, msize, limit>>
      /\ framing \in {"length", "zero"}
      /\ position \in 0 .. Size - 1
  BY DEF MessageInv, MessageTypeOK, TakeNext
<1>2. limit = msize /\ limit \in 1 .. MaxLen /\ limit <= known
  BY <1>1 DEF MessageInv, AtHandler
<1>3. Readable \in 0 .. Size - 1 /\ limit <= Readable /\ limit \in 1 .. Block
  BY <1>1, <1>2, Sizes, QueueNow DEF QueueTyped, IInv, Pointers, TypeOK
<1>4. /\ Next /\ IInv' /\ Queue' = Queue /\ Readable' = Readable
      /\ lastread' = limit /\ known' = limit /\ view' = limit
  BY <1>1, <1>3, ReadStep
<1>5. MessageTypeOK'
  <2>1. position' \in 0 .. Size - 1
    BY <1>1, <1>2, <1>3, Sizes
  <2> QED BY <1>1, <1>4, <2>1 DEF MessageInv, MessageTypeOK, IInv
<1> HIDE DEF Queue, Readable
<1>6. position' <= limit /\ lastread' # 0
  BY <1>1, <1>2, <1>4, Sizes
<1>7. AtHandler'
  BY <1>1, <1>2, <1>4, <1>6, Sizes DEF AtHandler
<1>8. framing = "length" => AtLength'
  <2> SUFFICES ASSUME framing = "length" PROVE AtLength'
    OBVIOUS
  <2>1. LengthKnown
    BY <1>1 DEF MessageInv, AtLength
  <2>2. LengthKnown'
    BY <1>1, <1>2, <1>4, <2>1, Sizes DEF LengthKnown
  <2> QED BY <1>1, <2>2 DEF AtLength
<1>9. framing = "zero" => AtZero'
  BY <1>1, <1>4 DEF MessageInv, AtZero
<1> QED BY <1>1, <1>4, <1>5, <1>6, <1>7, <1>8, <1>9 DEF MessageInv

(***************************************************************************)
(* back_up() moves inside the message.                                     *)
(***************************************************************************)
LEMMA BackUpStep ==
    ASSUME MessageInv, NEW n \in 1 .. MaxLen, BackUp(n)
    PROVE  UNCHANGED vars /\ MessageInv'
<1>1. /\ IInv /\ phase = "handle" /\ n <= position
      /\ position' = position - n
      /\ UNCHANGED <<framing, phase, expect, asked, msize, limit>> /\ UNCHANGED vars
      /\ framing \in {"length", "zero"}
      /\ position \in 0 .. Size - 1
  BY DEF MessageInv, MessageTypeOK, BackUp
<1>2. IInv' /\ UNCHANGED <<Queue, Readable, view, known, lastread>>
  <2>1. UNCHANGED <<Queue, Readable, view, known, lastread>>
    BY <1>1 DEF vars, Queue, Readable, Ring
  <2> QED BY <1>1, <2>1, InvStep
<1>3. MessageTypeOK'
  BY <1>1, <1>2, Sizes DEF MessageInv, MessageTypeOK, IInv
<1> HIDE DEF Queue, Readable
<1>4. AtHandler'
  <2>1. position' <= position /\ position' \in Nat /\ limit \in Nat /\ view \in Nat
    BY <1>1, Sizes DEF MessageInv, MessageTypeOK, IInv, TypeOK
  <2> QED BY <1>1, <1>2, <2>1 DEF MessageInv, AtHandler
<1>5. framing = "length" => AtLength'
  <2> SUFFICES ASSUME framing = "length" PROVE AtLength'
    OBVIOUS
  <2>1. LengthKnown
    BY <1>1 DEF MessageInv, AtLength
  <2>2. LengthKnown'
    BY <1>1, <1>2, <2>1 DEF LengthKnown
  <2> QED BY <1>1, <2>2 DEF AtLength
<1>6. framing = "zero" => AtZero'
  BY <1>1, <1>2 DEF MessageInv, AtZero
<1> QED BY <1>1, <1>2, <1>3, <1>4, <1>5, <1>6 DEF MessageInv

(***************************************************************************)
(* commit() consumes the message, which the reader knows to be there.      *)
(***************************************************************************)
LEMMA CommitMessageStep ==
    ASSUME MessageInv, CommitMessage
    PROVE  Next /\ MessageInv'
<1>1. /\ IInv /\ phase = "handle" /\ CommitRead(msize) /\ phase' = "check"
      /\ msize' = 0 /\ limit' = 0 /\ position' = 0 /\ expect' = 0
      /\ UNCHANGED <<framing, asked>> /\ lastread # 0
      /\ framing \in {"length", "zero"}
  BY DEF MessageInv, MessageTypeOK, CommitMessage
<1>2. msize \in 1 .. Size - 1
  <2>1. limit = msize /\ limit \in 1 .. MaxLen /\ limit <= known /\ known \in Nat
    BY <1>1, Sizes DEF MessageInv, AtHandler, IInv, TypeOK
  <2>2. known <= Readable /\ Readable \in 0 .. Size - 1
    BY <1>1, QueueNow DEF QueueTyped, IInv, Pointers
  <2> HIDE DEF Readable
  <2> QED BY <2>1, <2>2, Sizes
<1>3. Next
  BY <1>1, <1>2 DEF Next
<1>4. IInv' /\ lastread' = lastread
  BY <1>1, <1>3, InvStep DEF CommitRead
<1>5. MessageTypeOK'
  BY <1>1, <1>4, Sizes DEF MessageInv, MessageTypeOK, IInv
<1>6. Readable' \in Nat
  BY <1>4, QueueThen, Sizes DEF QueueTyped
<1> HIDE DEF Queue, Readable
<1>7. AtLength' /\ AtZero' /\ AtHandler'
  BY <1>1, <1>6, Sizes DEF AtLength, AtZero, AtHandler
<1> QED BY <1>1, <1>3, <1>4, <1>5, <1>7 DEF MessageInv

(***************************************************************************)
(* clear() leaves no message begun.                                        *)
(***************************************************************************)
LEMMA ClearMessageStep ==
    ASSUME MessageInv, ClearMessage
    PROVE  Next /\ MessageInv'
<1>1. /\ IInv /\ Clear /\ phase' = "wait" /\ framing # "none"
      /\ msize' = 0 /\ limit' = 0 /\ position' = 0 /\ expect' = 0 /\ asked' = 0
      /\ UNCHANGED framing
  BY DEF MessageInv, ClearMessage
<1>2. Next
  BY <1>1 DEF Next
<1>3. IInv' /\ lastread' = 0
  BY <1>1, <1>2, InvStep DEF Clear
<1>4. MessageTypeOK'
  BY <1>1, <1>3, Sizes DEF MessageInv, MessageTypeOK, IInv
<1>5. Readable' \in Nat
  BY <1>3, QueueThen, Sizes DEF QueueTyped
<1> HIDE DEF Queue, Readable
<1>6. AtLength' /\ AtZero' /\ AtHandler'
  BY <1>1, <1>5, Sizes DEF AtLength, AtZero, AtHandler
<1> QED BY <1>1, <1>2, <1>3, <1>4, <1>6 DEF MessageInv

(***************************************************************************)
(* A session uses the ring as its interface admits, and keeps its place in *)
(* the message it reads.                                                   *)
(***************************************************************************)
LEMMA MessageStep == MessageInv /\ [MessageNext]_allVars => [Next]_vars /\ MessageInv'
<1> SUFFICES ASSUME MessageInv, [MessageNext]_allVars PROVE [Next]_vars /\ MessageInv'
  OBVIOUS
<1>1. CASE Plain
  <2>1. /\ IInv /\ framing = "none" /\ Next /\ phase = "wait" /\ limit = 0
        /\ UNCHANGED <<framing, phase, expect, asked, msize, limit, position>>
    BY <1>1 DEF MessageInv, Plain, sessionVars, messageVars
  <2>2. IInv'
    BY <2>1, InvStep
  <2>3. MessageTypeOK' /\ AtHandler'
    BY <2>1, <2>2 DEF MessageInv, MessageTypeOK, AtHandler, IInv
  <2> QED BY <2>1, <2>2, <2>3 DEF MessageInv
<1>2. CASE Receive
  BY <1>2, ReceiveStep
<1>3. CASE CommitRecv
  BY <1>3, CommitStep
<1>4. CASE Comfirm
  BY <1>4, CheckLengthStep, CheckBodyStep, CheckZeroStep, NextSizeStep, NextShowStep,
     ScanLengthStep, ScanZeroStep DEF Comfirm
<1>5. CASE Handling
  BY <1>5, TakeNextStep, BackUpStep DEF Handling
<1>6. CASE CommitMessage
  BY <1>6, CommitMessageStep
<1>7. CASE ClearMessage
  BY <1>7, ClearMessageStep
<1>8. CASE UNCHANGED allVars
  <2>1. /\ UNCHANGED vars
        /\ UNCHANGED <<framing, phase, expect, asked, msize, limit, position>>
    BY <1>8 DEF allVars, sessionVars, messageVars
  <2>2. UNCHANGED <<Queue, Readable, view, known, lastread>> /\ IInv
    BY <2>1 DEF vars, Queue, Readable, Ring, MessageInv
  <2>3. IInv' /\ Readable \in Nat
    BY <2>1, <2>2, InvStep, QueueNow, Sizes DEF QueueTyped
  <2>4. Grown
    BY <2>2, <2>3 DEF Grown
  <2>5. framing # "none" => (lastread' = 0 <=> phase' = "wait")
    BY <2>1, <2>2 DEF MessageInv
  <2>6. MessageInv'
    BY <2>1, <2>2, <2>3, <2>4, <2>5, WriterKeeps
  <2> QED BY <2>1, <2>6
<1> QED BY <1>1, <1>2, <1>3, <1>4, <1>5, <1>6, <1>7, <1>8 DEF MessageNext

LEMMA MessageAlways == MessageSpec => []MessageInv
BY MessageInvInit, MessageStep, PTL DEF MessageSpec

(***************************************************************************)
(* Every use of the ring for messages is a use of the ring.                *)
(***************************************************************************)
LEMMA MessageUsesRing == MessageSpec => Spec
<1>1. MessageInit => Init
  BY MessageInvInit
<1>2. MessageInv /\ [MessageNext]_allVars => [Next]_vars
  BY MessageStep
<1> QED BY <1>1, <1>2, MessageAlways, PTL DEF MessageSpec, Spec

(***************************************************************************)
(* For a session's buffer as for any other: the view is the oldest bytes,  *)
(* the granted region is free, and the ring is a queue of bytes.           *)
(***************************************************************************)
THEOREM MessageRing == MessageSpec => []ViewIsPrefix /\ []GrantIsFree /\ ImplementsFifo
BY MessageUsesRing, ViewCorrect, GrantCorrect, RingIsFifo, PTL

(***************************************************************************)
(* The pointers and what is known of a message stay in their ranges.       *)
(***************************************************************************)
THEOREM MessageTypes == MessageSpec => []MessageTypeOK
<1>1. MessageInv => MessageTypeOK
  BY DEF MessageInv
<1> QED BY MessageAlways, <1>1, PTL

(***************************************************************************)
(* The length of a message that is whole: what pares_len reads, or the     *)
(* first zero of pares_zero.                                               *)
(***************************************************************************)
LEMMA FirstZero ==
    ASSUME IInv, framing = "zero", NEW n \in 1 .. Readable,
           Queue[n] = 0, \A i \in 1 .. n - 1 : Queue[i] # 0
    PROVE  FirstLength = n
<1> DEFINE zeros == {i \in 1 .. Len(Queue) : Queue[i] = 0}
<1>1. Len(Queue) = Readable /\ Readable \in Nat
  BY QueueNow, Sizes DEF QueueTyped
<1> HIDE DEF Queue, Readable
<1>2. Contains(Queue, 0)
  BY <1>1 DEF Contains
<1>3. n \in zeros /\ \A i \in zeros : n <= i
  BY <1>1
<1>4. \A m \in zeros : (\A i \in zeros : m <= i) => m = n
  <2> SUFFICES ASSUME NEW m \in zeros, \A i \in zeros : m <= i PROVE m = n
    OBVIOUS
  <2>1. m <= n /\ n <= m /\ m \in Nat
    BY <1>1, <1>3
  <2> QED BY <2>1
<1>5. Min(zeros) = n
  <2> HIDE DEF zeros
  <2> QED BY <1>3, <1>4 DEF Min
<1>6. SelectInSeq(Queue, LAMBDA b : b = 0) = Min(zeros)
  BY <1>3 DEF SelectInSeq
<1> QED BY <1>2, <1>5, <1>6 DEF FirstLength

LEMMA WholeNow == MessageInv => MessageIsWhole
<1> SUFFICES ASSUME MessageInv, phase = "handle"
             PROVE  /\ limit = FirstLength /\ limit \in 1 .. Least(Len(Queue), MaxLen)
                    /\ limit <= known
                    /\ \A i \in 0 .. position - 1 : mem[reader + i] = Queue[i + 1]
  BY DEF MessageIsWhole
<1>1. /\ IInv /\ framing \in {"length", "zero"}
      /\ limit = msize /\ limit \in 1 .. MaxLen
      /\ limit <= known /\ position <= limit /\ position <= view
  BY DEF MessageInv, MessageTypeOK, AtHandler
<1>2. /\ Len(Queue) = Readable /\ Readable \in Nat /\ known \in Nat /\ known <= Readable
      /\ position \in Nat /\ view \in Nat
  BY <1>1, QueueNow, Sizes DEF QueueTyped, IInv, TypeOK, Pointers, MessageInv, MessageTypeOK
<1>3. \A i \in 0 .. position - 1 : mem[reader + i] = Queue[i + 1]
  BY <1>1, <1>2, ViewBytes
<1> HIDE DEF Queue, Readable
<1>4. limit = FirstLength
  <2>1. CASE framing = "length"
    <3>1. LengthKnown
      BY <2>1 DEF MessageInv, AtLength
    <3>2. ~(Len(Queue) < LenBytes)
      BY <1>2, <3>1, Sizes DEF LengthKnown
    <3> QED BY <1>1, <2>1, <3>1, <3>2 DEF FirstLength, LengthKnown
  <2>2. CASE framing = "zero"
    <3>1. /\ msize \in 1 .. Readable
          /\ Queue[msize] = 0 /\ \A i \in 1 .. msize - 1 : Queue[i] # 0
      BY <2>2 DEF MessageInv, AtZero
    <3>2. FirstLength = msize
      BY <1>1, <2>2, <3>1, FirstZero
    <3> QED BY <1>1, <3>2
  <2> QED BY <1>1, <2>1, <2>2
<1>5. limit \in 1 .. Least(Len(Queue), MaxLen)
  BY <1>1, <1>2, Sizes DEF Least
<1> QED BY <1>1, <1>3, <1>4, <1>5

(***************************************************************************)
(* A handler is given one whole message, under both framings, for every    *)
(* ring, block and message size and every encoding of a length.            *)
(***************************************************************************)
THEOREM MessageWhole == MessageSpec => []MessageIsWhole
BY MessageAlways, WholeNow, PTL
=============================================================================
