------------------------------ MODULE FreeList ------------------------------
(***************************************************************************)
(* data_factory<T, N>: a pool of N elements whose free elements form a     *)
(* list in a table of offsets (mem_data_factory.hpp/.inl).                 *)
(*                                                                         *)
(* An entry of the table is read in four ways: 0, the element was never    *)
(* handed out and the next free one is its right neighbour; Zero, the next *)
(* free one is element 0; Used, the element is in use; anything else is    *)
(* the next free element, and N itself is the list's end.                  *)
(***************************************************************************)
EXTENDS Integers, FiniteSetsExt

CONSTANTS
    N,      \* number of elements (m_size)
    Top     \* the greatest value of size_type

Zero == Top
Used == Top - 1
Cells == 0 .. N - 1
End == N    \* where used_end() is
None == -1

\* assert(size != 0) and the static_assert on N
ASSUME SizeAssumption == N \in Nat \ {0} /\ Top \in Nat /\ N < Used

VARIABLES
    offset, \* m_offset
    next,   \* m_next
    left,   \* m_left
    out     \* what the last malloc() returned: an element, or None for nullptr

tableVars == <<offset, next, left, out>>

TableTypeOK ==
    /\ offset \in [Cells -> 0 .. N \cup {Zero, Used}]
    /\ next \in 0 .. N
    /\ left \in 0 .. N
    /\ out \in Cells \cup {None}

Held == {c \in Cells : offset[c] = Used}
Free == Cells \ Held

TableInit ==
    /\ offset = [c \in Cells |-> 0]
    /\ next = 0
    /\ left = N
    /\ out = None

\* mutant: a link to element 0 is taken for an entry that was never used
Mut_FollowsZero(c) == IF offset[c] \in {0, Zero} THEN c + 1 ELSE offset[c]

\* The free element after c
Follows(c) ==
    IF offset[c] = 0 THEN c + 1
    ELSE IF offset[c] = Zero THEN 0
    ELSE offset[c]

Malloc ==
    IF left = 0
    THEN out' = None /\ UNCHANGED <<offset, next, left>>
    ELSE /\ left' = left - 1
         /\ next' = Follows(next)
         /\ offset' = [offset EXCEPT ![next] = Used]
         /\ out' = next

\* mutant: the list's first element is linked as it is
Mut_FreeLinksZero(c) ==
    IF offset[c] # Used
    THEN UNCHANGED tableVars
    ELSE /\ left' = left + 1
         /\ offset' = [offset EXCEPT ![c] = next]
         /\ next' = c
         /\ UNCHANGED out

\* free() of an element of the pool; one that is not in use is left alone.
FreeCell(c) ==
    IF offset[c] # Used
    THEN UNCHANGED tableVars
    ELSE /\ left' = left + 1
         /\ offset' = [offset EXCEPT ![c] = IF next = 0 THEN Zero ELSE next]
         /\ next' = c
         /\ UNCHANGED out

Clear ==
    /\ offset' = [c \in Cells |-> 0]
    /\ next' = 0
    /\ left' = N
    /\ UNCHANGED out

TableNext == Malloc \/ (\E c \in Cells : FreeCell(c)) \/ Clear

TableSpec == TableInit /\ [][TableNext]_tableVars

-----------------------------------------------------------------------------
(* The iterators, as what they answer in a given table. An iterator stops  *)
(* at the first entry that was never used, and so depends on how the table *)
(* fills up.                                                               *)

\* operator++ from an element
After(c) ==
    LET stop == Min({p \in c + 1 .. N : p = N \/ offset[p] \in {0, Used}})
    IN  IF stop # N /\ offset[stop] = 0 THEN End ELSE stop

UsedBegin ==
    IF offset[0] = Used THEN 0
    ELSE IF offset[0] = 0 THEN End
    ELSE After(0)

\* Where a bisection of the table is: an interval with an element in it
Intervals == {i \in (0 .. N) \X (0 .. N) : i[1] < i[2]}

\* mutant: an interval of one element ends at that element
Mut_HeadZero ==
    LET search[i \in Intervals] ==
            LET n == (i[1] + i[2]) \div 2 IN
            IF n = i[1] THEN n
            ELSE IF offset[n] = 0 THEN search[<<i[1], n>>] ELSE search[<<n, i[2]>>]
    IN  search[<<0, N>>]

\* head_zero(): the first entry that was never used, by bisection
HeadZero ==
    LET search[i \in Intervals] ==
            LET n == (i[1] + i[2]) \div 2 IN
            IF n = i[1] THEN (IF offset[n] = 0 THEN n ELSE n + 1)
            ELSE IF offset[n] = 0 THEN search[<<i[1], n>>] ELSE search[<<n, i[2]>>]
    IN  search[<<0, N>>]

\* operator-- from an element or the end
Before(p) ==
    LET from == IF p = End THEN HeadZero ELSE p
    IN  IF offset[0] = 0 THEN p
        ELSE IF from = 0 THEN 0
        ELSE Max({q \in 0 .. from - 1 : q = 0 \/ offset[q] = Used})

-----------------------------------------------------------------------------
(* Properties *)

(***************************************************************************)
(* malloc() walks a list that has every free element once: the entries,    *)
(* read in whichever of the four ways applies, lead from m_next through    *)
(* m_left elements to the end.                                             *)
(***************************************************************************)
IsList(list) ==
    /\ list[1] = next
    /\ list[left + 1] = N
    /\ \A i \in 1 .. left : list[i] \in Free /\ list[i + 1] = Follows(list[i])
    /\ \A i, j \in 1 .. left : list[i] = list[j] => i = j
    /\ \A c \in Free : \E i \in 1 .. left : list[i] = c

FreeListed == \E list \in [1 .. left + 1 -> 0 .. N] : IsList(list)

(***************************************************************************)
(* A traversal from used_begin() to used_end() meets the elements in use,  *)
(* in order and no other, and from used_end() backwards it meets them as   *)
(* well, whatever was handed out and given back before: responder::stop    *)
(* closes the sessions it meets this way and waits for every session.      *)
(***************************************************************************)
NextHeld(p) == Min({q \in p .. N : q = N \/ q \in Held})

IterationExact ==
    /\ UsedBegin = NextHeld(0)
    /\ \A c \in Held : After(c) = NextHeld(c + 1)
    /\ \A p \in Held \cup {End} :
           \A q \in Held : q < p => Before(p) \in Held /\ Before(p) < p /\ q <= Before(p)

(***************************************************************************)
(* malloc() and free() implement the pool: no element is handed out twice, *)
(* and malloc() fails only when all are in use.                            *)
(***************************************************************************)
Pool == INSTANCE CellPool WITH held <- Held
IsPool == Pool!Spec
=============================================================================
