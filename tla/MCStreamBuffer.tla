--------------------------- MODULE MCStreamBuffer ---------------------------
(* A small instance of StreamBuffer for TLC: lengths of two bits stand for *)
(* 1, which is less than they take, 3, 4, and 6, which is too long.        *)
EXTENDS StreamBuffer

MCLengthOf == [s \in [1 .. 2 -> {0, 1}] |-> 1 + 2 * s[1] + 3 * s[2]]
=============================================================================
