----------------------------- MODULE MCChannel -----------------------------
(* A small instance of Channel for TLC: an inner channel inside an outer one. *)
EXTENDS Channel

CONSTANTS a, b, inner, outer, io, w1, w2

MCObjects == {a, b}
MCChannels == {inner, outer}
MCHome == [n \in MCObjects \cup MCChannels |->
             CASE n = inner -> outer [] n = a -> inner [] OTHER -> None]
MCIo == {io}
MCWorkers == {w1, w2}

\* Once a node was overtaken nothing is claimed: from there the run follows only
\* the states in which no object has gone bad.
Explored == overtaken => \A o \in Objects : ~bad[o]
=============================================================================
