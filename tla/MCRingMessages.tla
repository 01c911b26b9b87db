--------------------------- MODULE MCRingMessages ---------------------------
(* A small instance of RingMessages for TLC: lengths of two bits stand for *)
(* 1, which is less than they take, 2, 3, and 4, which is too long.        *)
EXTENDS RingMessages

MCLengthOf == [s \in [1 .. 2 -> {0, 1}] |-> 1 + s[1] + 2 * s[2]]
=============================================================================
