------------------------------ MODULE CellPool ------------------------------
(***************************************************************************)
(* What a pool of elements promises: an element is handed out to one user  *)
(* at a time, and a request is refused only when all are in use.           *)
(***************************************************************************)
CONSTANTS
    Cells,
    None    \* the answer to a refused request

VARIABLES
    held,   \* elements in use
    out     \* the last answer to a request: an element, or None

Init == held = {} /\ out = None

Acquire(c) ==
    /\ c \notin held
    /\ held' = held \cup {c}
    /\ out' = c

Refuse ==
    /\ held = Cells
    /\ out' = None
    /\ UNCHANGED held

Release(c) == held' = held \ {c} /\ UNCHANGED out

Reset == held' = {} /\ UNCHANGED out

Next ==
    \/ \E c \in Cells : Acquire(c) \/ Release(c)
    \/ Refuse
    \/ Reset

Spec == Init /\ [][Next]_<<held, out>>
=============================================================================
