------------------------------ MODULE RunQueue ------------------------------
(***************************************************************************)
(* What a channel promises of the nodes posted to it: they wait in order   *)
(* of arrival, each at most once; the first one is served, and goes to the *)
(* end of the line when it has more to do, or leaves it.                   *)
(***************************************************************************)
EXTENDS Sequences

CONSTANTS
    Channels,   \* the channels
    Nodes       \* what may be posted to a channel

VARIABLE line   \* the nodes that wait in each channel

Range(s) == {s[i] : i \in DOMAIN s}

Init == line = [c \in Channels |-> <<>>]

Arrive(c, n) ==
    /\ n \notin Range(line[c])
    /\ line' = [line EXCEPT ![c] = Append(@, n)]

Rotate(c) ==
    /\ line[c] # <<>>
    /\ line' = [line EXCEPT ![c] = Append(Tail(@), Head(@))]

Leave(c) ==
    /\ line[c] # <<>>
    /\ line' = [line EXCEPT ![c] = Tail(@)]

Next == \E c \in Channels : Rotate(c) \/ Leave(c) \/ \E n \in Nodes : Arrive(c, n)

Spec == Init /\ [][Next]_line
=============================================================================
