------------------------------- MODULE Digest -------------------------------
(***************************************************************************)
(* com::md5, with its sizes as parameters: a block of Block units (64 in   *)
(* the code) of Unit bits (8), the last LengthSize units (8) of the last   *)
(* block holding the count of bits in two words of WordSize values (2^32). *)
(* What transform() does to a block is left abstract: the state is the     *)
(* sequence of the blocks it was given, so two digests are equal exactly   *)
(* when the same blocks were hashed.  Unit n of the input is <<"in", n>>.  *)
(***************************************************************************)
EXTENDS Integers, Sequences

CONSTANTS
    Block, Unit, WordSize,
    MaxTotal,     \* bound: units hashed between two resets
    MaxLength     \* bound: units of one update; below WordSize (i is one word)

LengthSize == 2    \* a unit for each word

ASSUME DigestAssumption ==
    /\ {Block, Unit, WordSize, MaxTotal, MaxLength} \subseteq Nat \ {0}
    /\ LengthSize < Block
    /\ WordSize % (Unit * Block) = 0 /\ MaxLength < WordSize

VARIABLES
    context,      \* _state, _count, _buffer, _finished
    total,        \* history: units of input since the last reset
    spoiled,      \* history: a digest was asked for with the last block's tail in use
    answer        \* history: the last c_str(): of which input, what it returned

digestVars == <<context, total, spoiled, answer>>

Units ==
    ({"in"} \X (1 .. MaxTotal)) \cup ({"pad", "junk"} \X {0, 1})
        \cup ({"low", "high"} \X (0 .. WordSize - 1))
Buffers == [1 .. Block -> Units]

DigestTypeOK ==
    /\ context.state \in Seq(Buffers)
    /\ context.count \in [1 .. 2 -> 0 .. WordSize - 1]
    /\ context.buffer \in Buffers
    /\ context.finished \in BOOLEAN
    /\ total \in 0 .. MaxTotal
    /\ spoiled \in BOOLEAN
    /\ answer.of \in 0 .. MaxTotal /\ answer.digest \in Seq(Buffers) /\ answer.sound \in BOOLEAN

Cleared(buffer) ==
    [state |-> <<>>, count |-> <<0, 0>>, buffer |-> buffer, finished |-> FALSE]

-----------------------------------------------------------------------------
(* The algorithm *)

\* Units of the block that is being filled
Index(c) == (c.count[1] \div Unit) % Block

\* memcpy(&_buffer[at], input, n)
Copied(buffer, at, input) ==
    [i \in 1 .. Block |-> IF i \in at + 1 .. at + Len(input) THEN input[i - at] ELSE buffer[i]]

\* The number of bits, in two words: the low one carries over, and the
\* bits of n itself that do not fit a word go to the high one.
Counted(count, n) ==
    LET bits == (n * Unit) % WordSize
        low == (count[1] + bits) % WordSize
    IN <<low, (count[2] + (IF low < bits THEN 1 ELSE 0) + (n * Unit) \div WordSize) % WordSize>>

\* The input fills the rest of the block.
Fills(n, part) == n >= part

\* update(): the current block is filled and hashed, then the whole blocks
\* of the input; what is left of it is kept.
Updated(c, input) ==
    LET n == Len(input)
        part == Block - Index(c)
        count == Counted(c.count, n)
    IN IF ~Fills(n, part)
       THEN [c EXCEPT !.count = count, !.finished = FALSE,
                      !.buffer = Copied(@, Index(c), input)]
       ELSE LET first == Copied(c.buffer, Index(c), SubSeq(input, 1, part))
                whole == (n - part) \div Block
                next == [k \in 1 .. whole |->
                            SubSeq(input, part + (k - 1) * Block + 1, part + k * Block)]
            IN [state |-> c.state \o <<first>> \o next, count |-> count, finished |-> FALSE,
                buffer |-> Copied(first, 0, SubSeq(input, part + whole * Block + 1, n))]

\* encode(): the low-order word comes first.
Encoded(count) == <<<<"low", count[1]>>, <<"high", count[2]>>>>

\* PADDING: one first unit, then zeros
Padding(n) == [i \in 1 .. n |-> <<"pad", IF i = 1 THEN 1 ELSE 0>>]

\* mutant: a block whose tail is just free is padded by another one
Mut_PadLen(index) ==
    (IF index < Block - LengthSize - 1 THEN Block ELSE 2 * Block) - LengthSize - index

PadLen(index) ==
    (IF index < Block - LengthSize THEN Block ELSE 2 * Block) - LengthSize - index

\* final(), up to the point where the state is the digest
Padded(c) == Updated(Updated(c, Padding(PadLen(Index(c)))), Encoded(c.count))

-----------------------------------------------------------------------------
(* The operations *)

\* md5(): the buffer is not initialised.
DigestInit ==
    /\ context = Cleared([i \in 1 .. Block |-> <<"junk", 0>>])
    /\ total = 0 /\ spoiled = FALSE
    /\ answer = [of |-> 0, digest |-> Padded(context).state, sound |-> TRUE]

\* reset() leaves the buffer alone.
Reset ==
    /\ context' = Cleared(context.buffer)
    /\ total' = 0 /\ spoiled' = FALSE
    /\ UNCHANGED answer

Update(n) ==
    /\ total + n <= MaxTotal
    /\ context' = Updated(context, [i \in 1 .. n |-> <<"in", total + i>>])
    /\ total' = total + n
    /\ UNCHANGED <<spoiled, answer>>

\* c_str(): digest() marks the object finished, but final()'s own updates
\* clear the mark, so every call computes.  final() puts the state and the
\* count back, not the buffer.
CStr ==
    LET padded == Padded([context EXCEPT !.finished = TRUE]) IN
    /\ ~context.finished
    /\ context' = [padded EXCEPT !.state = context.state, !.count = context.count]
    /\ answer' = [of |-> total, digest |-> padded.state, sound |-> ~spoiled]
    /\ spoiled' = (spoiled \/ Index(context) >= Block - LengthSize)
    /\ UNCHANGED total

DigestNext == Reset \/ (\E n \in 0 .. MaxLength : Update(n)) \/ CStr

DigestSpec == DigestInit /\ [][DigestNext]_digestVars

-----------------------------------------------------------------------------
(* Properties *)

Input(n) == [i \in 1 .. n |-> <<"in", i>>]

\* The definition: the input, one first pad unit, the fewest zeros that
\* leave LengthSize units of the last block, and the bits of the input there.
Message(n) ==
    LET length == n * Unit
        zeros == CHOOSE z \in 0 .. Block - 1 : (n + 1 + z + LengthSize) % Block = 0
    IN Input(n) \o <<<<"pad", 1>>>> \o [i \in 1 .. zeros |-> <<"pad", 0>>]
       \o <<<<"low", length % WordSize>>, <<"high", (length \div WordSize) % WordSize>>>>

Reference(n) ==
    [k \in 1 .. Len(Message(n)) \div Block |->
        SubSeq(Message(n), (k - 1) * Block + 1, k * Block)]

(***************************************************************************)
(* c_str() is the digest of everything updated since the last reset,       *)
(* however it was cut into updates and whatever was in the buffer before - *)
(* as long as c_str() was not called while the last block had no room for  *)
(* the count: final() then overwrites the input it keeps in the buffer.    *)
(***************************************************************************)
DigestOfInput == answer.sound => answer.digest = Reference(answer.of)
=============================================================================
