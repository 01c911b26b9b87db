------------------------------ MODULE ByteFifo ------------------------------
(***************************************************************************)
(* What a message buffer (buffer_iface, mem_buffer.hpp) promises the IO    *)
(* thread that writes it and the worker that reads it: the bytes come out  *)
(* in the order they were committed, the bytes shown to the reader are the *)
(* oldest ones and stay put until it consumes them, bytes being filled in  *)
(* are not disturbed, and a reader told to wait is woken by the next       *)
(* commit and by no other.                                                 *)
(***************************************************************************)
EXTENDS Naturals, Sequences

CONSTANTS
    Byte,       \* what a byte may be
    Capacity,   \* most bytes the buffer holds
    Block,      \* most bytes one call grants or shows
    Exact       \* a call grants and shows all it is asked for, as far as it is there

VARIABLES
    queue,      \* the committed bytes, oldest first
    grant,      \* bytes the writer may fill in
    filling,    \* the ones it has filled in, not committed
    view,       \* the bytes shown to the reader
    known,      \* how many bytes the reader knows it may consume
    waiting     \* the reader was told to wait

vars == <<queue, grant, filling, view, known, waiting>>

Init ==
    /\ queue = <<>> /\ filling = <<>> /\ view = <<>>
    /\ grant = 0 /\ known = 0
    /\ waiting = TRUE

Least(m, n) == IF m < n THEN m ELSE n

Grant(size) ==
    /\ filling = <<>>
    /\ LET room == Capacity - Len(queue) IN
       \E n \in 0 .. Least(size, room) :
          /\ Exact => n = Least(size, room)
          /\ n = 0 => room = 0
          /\ grant' = n
    /\ UNCHANGED <<queue, filling, view, known, waiting>>

Fill(b) ==
    /\ Len(filling) < grant
    /\ filling' = Append(filling, b)
    /\ UNCHANGED <<queue, grant, view, known, waiting>>

Commit(n) ==
    /\ n <= Len(filling)
    /\ queue' = queue \o SubSeq(filling, 1, n)
    /\ filling' = <<>> /\ grant' = 0
    /\ waiting' = FALSE
    /\ UNCHANGED <<view, known>>

\* The reader asks whether exp bytes are there.
Ask(exp) ==
    /\ ~waiting
    /\ known' = IF Len(queue) < exp THEN 0 ELSE Len(queue)
    /\ waiting' = (known' = 0)
    /\ UNCHANGED <<queue, grant, filling, view>>

\* The reader asks to see size bytes; when fewer are there it may see only some,
\* but none only when there is none.
Show(size) ==
    /\ ~waiting
    /\ \E n \in 0 .. Least(size, Len(queue)) :
          /\ Exact /\ Len(queue) >= size => n = size
          /\ n = 0 => queue = <<>>
          /\ view' = SubSeq(queue, 1, n)
          /\ known' = n
          /\ waiting' = (n = 0)
    /\ UNCHANGED <<queue, grant, filling>>

Consume(n) ==
    /\ n <= known
    /\ queue' = SubSeq(queue, n + 1, Len(queue))
    /\ view' = <<>> /\ known' = 0
    /\ UNCHANGED <<grant, filling, waiting>>

Clear ==
    /\ grant = 0
    /\ queue' = <<>> /\ view' = <<>> /\ known' = 0
    /\ waiting' = TRUE
    /\ UNCHANGED <<grant, filling>>

Next ==
    \/ \E size \in 1 .. Block : Grant(size) \/ Show(size)
    \/ \E b \in Byte : Fill(b)
    \/ \E n \in 0 .. Block : Commit(n)
    \/ \E exp \in 0 .. Capacity + 1 : Ask(exp)
    \/ \E n \in 1 .. Capacity : Consume(n)
    \/ Clear

Spec == Init /\ [][Next]_vars
=============================================================================
