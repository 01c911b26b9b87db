--------------------------- MODULE RotativeBuffer ---------------------------
(***************************************************************************)
(* rotative_buffer (mem_rotative_buffer.inl): a ring of Size bytes with a  *)
(* tail of Block more, so that what a call grants or shows is contiguous   *)
(* even where it crosses the end of the ring.  Bytes written across the    *)
(* end are copied to the head on commit, bytes read across it are copied   *)
(* from the head to the tail on demand, and lastcopy says how much of the  *)
(* tail repeats the head.                                                  *)
(*                                                                         *)
(* The IO thread writes: write() grants a region, the socket fills it with *)
(* the mutex free, _commit_write publishes it.  One worker at a time       *)
(* reads.  lastread = 0 says that the reader waits to be notified.         *)
(* Pointers are offsets from m_buffer; m_final is Size.                    *)
(***************************************************************************)
EXTENDS Integers, Sequences

CONSTANTS
    Byte,       \* what a byte may be
    Size,       \* m_size: bytes of the ring
    Block,      \* block_size: most bytes granted or shown by one call
    MaxLastread \* bound on m_lastread, which every commit increments

ASSUME SizeAssumption == Size \in Nat /\ Block \in Nat \ {0} /\ Block <= Size
ASSUME BoundAssumption == MaxLastread \in Nat
ASSUME ByteAssumption == Byte # {}

VARIABLES
    mem,        \* the bytes of m_buffer
    writer,     \* m_writer
    reader,     \* m_reader
    lastcopy,   \* m_lastcopy
    lastread,   \* m_lastread
    grant,      \* bytes write() granted, not committed
    filled,     \* how many of them the IO thread has stored
    view,       \* bytes read() showed, not consumed: a region that starts at reader
    known       \* bytes the reader knows it may consume

vars == <<mem, writer, reader, lastcopy, lastread, grant, filled, view, known>>
writerVars == <<writer, grant, filled>>
readerVars == <<reader, view, known>>

Cells == 0 .. Size + Block - 1

TypeOK ==
    /\ mem \in [Cells -> Byte]
    /\ writer \in 0 .. Size - 1
    /\ reader \in 0 .. Size - 1
    /\ lastcopy \in 0 .. Block
    /\ lastread \in Nat
    /\ grant \in 0 .. Block
    /\ filled \in 0 .. Block
    /\ view \in 0 .. Block
    /\ known \in 0 .. Size

\* The memory new char[] returns holds anything.
Init ==
    /\ mem \in [Cells -> Byte]
    /\ writer = 0 /\ reader = 0
    /\ lastcopy = 0 /\ lastread = 0
    /\ grant = 0 /\ filled = 0
    /\ view = 0 /\ known = 0

Least(m, n) == IF m < n THEN m ELSE n

Readable == IF writer >= reader THEN writer - reader ELSE Size - (reader - writer)

Writable ==
    (IF writer >= reader THEN Size - (writer - reader) ELSE reader - writer) - 1

\* memcpy(m_buffer + to, m_buffer + from, n)
Copied(m, to, from, n) ==
    [i \in Cells |-> IF i \in to .. to + n - 1 THEN m[from + (i - to)] ELSE m[i]]

-----------------------------------------------------------------------------
(* The IO thread *)

\* mutant: a whole block is granted whatever room is left
Mut_GrantBlock(size) ==
    /\ grant = 0
    /\ grant' = size
    /\ filled' = 0
    /\ UNCHANGED <<mem, writer, lastcopy, lastread, readerVars>>

Write(size) ==
    /\ grant = 0
    /\ grant' = Least(size, Writable)
    /\ filled' = 0
    /\ UNCHANGED <<mem, writer, lastcopy, lastread, readerVars>>

\* The socket stores one more byte of the granted region.
Fill(b) ==
    /\ filled < grant
    /\ mem' = [mem EXCEPT ![writer + filled] = b]
    /\ filled' = filled + 1
    /\ UNCHANGED <<writer, lastcopy, lastread, grant, readerVars>>

\* mutant: what was written across the end is not copied to the head
Mut_CommitNoCopy(n) ==
    /\ n <= filled
    /\ lastread < MaxLastread
    /\ IF writer + n >= Size
       THEN /\ lastcopy' = writer + n - Size
            /\ writer' = lastcopy'
       ELSE /\ writer' = writer + n
            /\ UNCHANGED lastcopy
    /\ lastread' = lastread + 1
    /\ grant' = 0 /\ filled' = 0
    /\ UNCHANGED <<mem, readerVars>>

CommitWrite(n) ==
    /\ n <= filled
    /\ lastread < MaxLastread
    /\ IF writer + n >= Size
       THEN /\ lastcopy' = writer + n - Size
            /\ writer' = lastcopy'
            /\ mem' = Copied(mem, 0, Size, lastcopy')
       ELSE /\ writer' = writer + n
            /\ UNCHANGED <<mem, lastcopy>>
    /\ lastread' = lastread + 1
    /\ grant' = 0 /\ filled' = 0
    /\ UNCHANGED readerVars

-----------------------------------------------------------------------------
(* The worker; it reads while it was not told to wait *)

\* readable_size(exp)
ReadableSize(exp) ==
    /\ lastread # 0
    /\ lastread' = IF Readable < exp THEN 0 ELSE Readable
    /\ known' = lastread'
    /\ UNCHANGED <<mem, lastcopy, reader, view, writerVars>>

Shown(n) ==
    /\ lastread' = n
    /\ view' = n
    /\ known' = n

\* read() when the readable bytes do not cross the end of the ring
ReadStraight(size) ==
    /\ lastread # 0
    /\ writer >= reader
    /\ Shown(Least(size, Readable))
    /\ UNCHANGED <<mem, lastcopy, reader, writerVars>>

\* mutant: the copy to the tail starts over at the head of the ring
Mut_CopyFromHead(size) ==
    /\ lastread # 0
    /\ writer < reader
    /\ LET there == Size - reader + lastcopy IN
       IF size <= there \/ Readable < size
       THEN /\ Shown(Least(size, there))
            /\ UNCHANGED <<mem, lastcopy>>
       ELSE /\ mem' = Copied(mem, Size + lastcopy, 0, size - there)
            /\ lastcopy' = lastcopy + size - there
            /\ Shown(size)
    /\ UNCHANGED <<reader, writerVars>>

\* read() across the end: the tail is extended by what is missing, when all of it is there
ReadAcross(size) ==
    /\ lastread # 0
    /\ writer < reader
    /\ LET there == Size - reader + lastcopy IN
       IF size <= there \/ Readable < size
       THEN /\ Shown(Least(size, there))
            /\ UNCHANGED <<mem, lastcopy>>
       ELSE /\ mem' = Copied(mem, Size + lastcopy, lastcopy, size - there)
            /\ lastcopy' = lastcopy + size - there
            /\ Shown(size)
    /\ UNCHANGED <<reader, writerVars>>

CommitRead(n) ==
    /\ n <= known
    /\ IF reader + n >= Size
       THEN reader' = reader + n - Size /\ lastcopy' = 0
       ELSE reader' = reader + n /\ UNCHANGED lastcopy
    /\ view' = 0 /\ known' = 0
    /\ UNCHANGED <<mem, lastread, writerVars>>

-----------------------------------------------------------------------------
\* clear(): a session's buffer is used again, with no IO under way
Clear ==
    /\ grant = 0
    /\ writer' = 0 /\ reader' = 0
    /\ lastcopy' = 0 /\ lastread' = 0
    /\ view' = 0 /\ known' = 0
    /\ UNCHANGED <<mem, grant, filled>>

Next ==
    \/ \E size \in 1 .. Block : Write(size) \/ ReadStraight(size) \/ ReadAcross(size)
    \/ \E b \in Byte : Fill(b)
    \/ \E n \in 0 .. Block : CommitWrite(n)
    \/ \E exp \in 0 .. Size : ReadableSize(exp)
    \/ \E n \in 1 .. Size - 1 : CommitRead(n)
    \/ Clear

Spec == Init /\ [][Next]_vars

-----------------------------------------------------------------------------
(* Properties *)

\* Where the readable byte number i is, for i < Size
Ring(i) == IF reader + i < Size THEN reader + i ELSE reader + i - Size

(***************************************************************************)
(* What read() shows is contiguous and correct: byte i of the view is the  *)
(* i-th readable byte of the ring, wherever the end of the ring falls and  *)
(* whatever the IO thread has stored or committed since.                   *)
(***************************************************************************)
ViewIsPrefix ==
    /\ view <= Readable
    /\ \A i \in 0 .. view - 1 : mem[reader + i] = mem[Ring(i)]

(***************************************************************************)
(* The region write() granted, which the socket stores to with the mutex   *)
(* free, touches no readable byte of the ring and none that a view shows.  *)
(***************************************************************************)
GrantIsFree ==
    \A j \in writer .. writer + grant - 1 :
        /\ \A i \in 0 .. Readable - 1 : j # Ring(i)
        /\ j \notin reader .. reader + view - 1

(***************************************************************************)
(* The buffer implements the byte queue: its content is the readable cells *)
(* of the ring.                                                            *)
(***************************************************************************)
Fifo == INSTANCE ByteFifo WITH
    Capacity <- Size - 1,
    Exact <- TRUE,
    queue <- [i \in 1 .. Readable |-> mem[Ring(i - 1)]],
    filling <- [i \in 1 .. filled |-> mem[writer + i - 1]],
    view <- [i \in 1 .. view |-> mem[reader + i - 1]],
    waiting <- lastread = 0

ImplementsFifo == Fifo!Spec
=============================================================================
