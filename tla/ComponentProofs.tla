-------------------------- MODULE ComponentProofs --------------------------
(***************************************************************************)
(* Three components that work alone: the table of elements of a pool, the  *)
(* server that takes its sessions from one, and the digest.                *)
(*                                                                         *)
(* data_factory's free list is intact whatever is handed out and given     *)
(* back, and the pool therefore keeps the promise of CellPool, for every   *)
(* size and every width of its offsets. Its iterators meet the elements in *)
(* use: the bisection they rest on finds where the fresh elements begin.   *)
(*                                                                         *)
(* The server's sessions are right for every pool size and any number of   *)
(* connections, hang-ups, closes and restarts.                             *)
(*                                                                         *)
(* c_str() of com::md5 is the digest of what was updated, for every size   *)
(* of the blocks and of the words, and however the input was cut.          *)
(***************************************************************************)
EXTENDS Responder, FreeList, Digest, FiniteSetTheorems, SequenceTheorems,
        WellFoundedInduction, TLAPS

-----------------------------------------------------------------------------
(* The pool of elements *)

(***************************************************************************)
(* The elements that were never handed out are the last ones: after such   *)
(* an element come only such elements. The list runs through them from     *)
(* left to right, so the first one is always taken first.                  *)
(***************************************************************************)
FreshAtEnd == \A c \in Cells : (offset[c] = 0 /\ c + 1 \in Cells) => offset[c + 1] = 0

(***************************************************************************)
(* m_left counts the free elements: used() is the number in use, on which  *)
(* responder::on_close_session decides that the last session is back.      *)
(***************************************************************************)
LeftExact == left = Cardinality(Free)

TableInv == TableTypeOK /\ FreeListed /\ FreshAtEnd /\ LeftExact

USE DEF None

(***************************************************************************)
(* Where a free element leads: to another element or to the end.           *)
(***************************************************************************)
LEMMA FollowsType == ASSUME TableTypeOK, NEW c \in Free PROVE Follows(c) \in 0 .. N
BY SizeAssumption DEF TableTypeOK, Free, Held, Follows, Cells, Zero, Used

(***************************************************************************)
(* The table is finite and has N entries.                                  *)
(***************************************************************************)
LEMMA CellsFinite ==
    /\ IsFiniteSet(Cells) /\ Cardinality(Cells) = N
    /\ \A S \in SUBSET Cells : IsFiniteSet(S) /\ (Cardinality(S) = N => S = Cells)
<1>1. IsFiniteSet(Cells) /\ Cardinality(Cells) = N
  BY FS_Interval, SizeAssumption DEF Cells
<1> QED BY <1>1, FS_Subset

EmptyTable ==
    offset = [c \in Cells |-> 0] /\ next = 0 /\ left = N /\ out \in Cells \cup {None}

(***************************************************************************)
(* A pool after its construction or clear(): every element is fresh, and   *)
(* the list is the table from left to right.                               *)
(***************************************************************************)
LEMMA EmptyTableList == EmptyTable => TableInv
<1> SUFFICES ASSUME EmptyTable PROVE TableInv
  OBVIOUS
<1> USE DEF EmptyTable
<1>1. TableTypeOK
  BY SizeAssumption DEF TableTypeOK, Cells
<1>2. FreeListed
  <2> DEFINE list == [i \in 1 .. left + 1 |-> i - 1]
  <2>1. Free = Cells
    BY SizeAssumption DEF Free, Held, Used, Cells
  <2>2. list \in [1 .. left + 1 -> 0 .. N] /\ list[1] = next /\ list[left + 1] = N
    BY SizeAssumption
  <2>3. \A i \in 1 .. left : list[i] \in Free /\ list[i + 1] = Follows(list[i])
    BY <2>1, SizeAssumption DEF Follows, Cells
  <2>4. \A i, j \in 1 .. left : list[i] = list[j] => i = j
    BY SizeAssumption
  <2>5. \A c \in Free : \E i \in 1 .. left : list[i] = c
    <3> SUFFICES ASSUME NEW c \in Free PROVE \E i \in 1 .. left : list[i] = c
      OBVIOUS
    <3>1. c + 1 \in 1 .. left /\ list[c + 1] = c
      BY <2>1, SizeAssumption DEF Cells
    <3> QED BY <3>1
  <2> QED BY <2>2, <2>3, <2>4, <2>5 DEF FreeListed, IsList
<1>3. FreshAtEnd
  BY DEF FreshAtEnd
<1>4. LeftExact
  <2>1. Free = Cells
    BY SizeAssumption DEF Free, Held, Used, Cells
  <2> QED BY <2>1, CellsFinite DEF LeftExact
<1> QED BY <1>1, <1>2, <1>3, <1>4 DEF TableInv

(***************************************************************************)
(* A step that leaves the table as it is leaves the list as it is.         *)
(***************************************************************************)
LEMMA TableUnchanged ==
    ASSUME TableInv, UNCHANGED <<offset, next, left>>, out' \in Cells \cup {None}
    PROVE  TableInv'
<1>1. Free' = Free /\ \A c : Follows(c)' = Follows(c)
  BY DEF Free, Held, Follows
<1>2. \A list : IsList(list) => IsList(list)'
  BY <1>1 DEF IsList
<1> QED BY <1>1, <1>2 DEF TableInv, TableTypeOK, FreeListed, FreshAtEnd, LeftExact

(***************************************************************************)
(* malloc() with a free element left takes the list's first element, which *)
(* is free, and leaves the rest of the list.                               *)
(***************************************************************************)
LEMMA MallocTakesFirst ==
    ASSUME TableInv, left # 0
    PROVE  next \in Free
BY DEF TableInv, TableTypeOK, FreeListed, IsList

LEMMA MallocStep ==
    ASSUME TableInv, Malloc
    PROVE  TableInv'
<1>1. CASE left = 0
  BY <1>1, TableUnchanged DEF Malloc
<1>2. CASE left # 0
  <2> USE <1>2
  <2>1. PICK list \in [1 .. left + 1 -> 0 .. N] : IsList(list)
    BY DEF TableInv, FreeListed
  <2>2. /\ next \in Cells /\ offset[next] # Used /\ left \in 1 .. N
        /\ left' = left - 1 /\ next' = Follows(next) /\ next' \in 0 .. N
        /\ offset' = [offset EXCEPT ![next] = Used]
        /\ out' = next
    BY MallocTakesFirst, FollowsType, SizeAssumption DEF TableInv, TableTypeOK, Malloc, Free, Held
  <2>3. TableTypeOK'
    BY <2>2, SizeAssumption DEF TableInv, TableTypeOK, Used, Cells
  <2>4. /\ Free' = Free \ {next}
        /\ \A c \in Free' : Follows(c)' = Follows(c) /\ offset'[c] = offset[c]
    BY <2>2 DEF TableInv, TableTypeOK, Free, Held, Follows
  <2>5. FreeListed'
    <3>0. PICK rest : rest = [i \in 1 .. left |-> list[i + 1]]
      OBVIOUS
    <3>1. rest \in [1 .. left' + 1 -> 0 .. N]
      BY <3>0, <2>1, <2>2
    <3>2. rest[1] = next' /\ rest[left' + 1] = N
      BY <3>0, <2>1, <2>2 DEF IsList
    <3>3. \A i \in 1 .. left' : rest[i] \in Free' /\ rest[i + 1] = Follows(rest[i])'
      <4> SUFFICES ASSUME NEW i \in 1 .. left'
                   PROVE  rest[i] \in Free' /\ rest[i + 1] = Follows(rest[i])'
        OBVIOUS
      <4>1. i \in 1 .. left /\ i + 1 \in 1 .. left /\ 1 \in 1 .. left
        BY <2>2
      <4>2. rest[i] = list[i + 1] /\ rest[i + 1] = list[i + 2]
        BY <3>0, <4>1, <2>2
      <4>3. list[i + 1] # list[1] /\ list[i + 1] \in Free /\ list[i + 1 + 1] = Follows(list[i + 1])
        BY <2>1, <4>1 DEF IsList
      <4>4. list[i + 1 + 1] = list[i + 2] /\ list[1] = next
        BY <2>1, <4>1 DEF IsList
      <4> QED BY <4>2, <4>3, <4>4, <2>4
    <3>4. \A i, j \in 1 .. left' : rest[i] = rest[j] => i = j
      <4> SUFFICES ASSUME NEW i \in 1 .. left', NEW j \in 1 .. left', rest[i] = rest[j]
                   PROVE  i = j
        OBVIOUS
      <4>1. i + 1 \in 1 .. left /\ j + 1 \in 1 .. left /\ list[i + 1] = list[j + 1]
        BY <3>0, <2>2
      <4> QED BY <4>1, <2>1, <2>2 DEF IsList
    <3>5. \A c \in Free' : \E i \in 1 .. left' : rest[i] = c
      <4> SUFFICES ASSUME NEW c \in Free' PROVE \E i \in 1 .. left' : rest[i] = c
        OBVIOUS
      <4>1. PICK k \in 1 .. left : list[k] = c
        BY <2>1, <2>4 DEF IsList
      <4>2. k # 1
        BY <4>1, <2>1, <2>4 DEF IsList
      <4>3. k - 1 \in 1 .. left' /\ rest[k - 1] = c
        BY <3>0, <4>1, <4>2, <2>2
      <4> QED BY <4>3
    <3> QED BY <3>1, <3>2, <3>3, <3>4, <3>5 DEF FreeListed, IsList
  <2>6. FreshAtEnd'
    <3> SUFFICES ASSUME NEW c \in Cells, offset'[c] = 0, c + 1 \in Cells
                 PROVE  offset'[c + 1] = 0
      BY DEF FreshAtEnd
    <3>1. c # next /\ offset[c] = 0 /\ offset[c + 1] = 0
      BY <2>2, SizeAssumption DEF TableInv, TableTypeOK, FreshAtEnd, Used, Cells
    <3>2. c + 1 # next
      <4> SUFFICES ASSUME c + 1 = next PROVE FALSE
        OBVIOUS
      <4>1. c \in Free
        BY <3>1, SizeAssumption DEF Free, Held, Used, Cells
      <4>2. PICK k \in 1 .. left : list[k] = c
        BY <4>1, <2>1 DEF IsList
      <4>3. list[k + 1] = c + 1
        BY <4>2, <3>1, <2>1 DEF IsList, Follows
      <4>4. k + 1 # left + 1
        BY <4>3, <2>1, <2>2, SizeAssumption DEF IsList, Cells
      <4>5. k + 1 \in 1 .. left /\ 1 \in 1 .. left /\ list[k + 1] = list[1]
        BY <4>2, <4>3, <4>4, <2>1, <2>2 DEF IsList
      <4> QED BY <4>5, <2>1, <2>2 DEF IsList
    <3> QED BY <3>1, <3>2, <2>2 DEF TableInv, TableTypeOK, Cells
  <2>7. LeftExact'
    <3>1. IsFiniteSet(Free)
      BY CellsFinite DEF Free
    <3>2. Cardinality(Free') = Cardinality(Free) - 1
      BY <3>1, <2>4, MallocTakesFirst, FS_RemoveElement
    <3> QED BY <3>2, <2>2 DEF TableInv, LeftExact
  <2> QED BY <2>3, <2>5, <2>6, <2>7 DEF TableInv
<1> QED BY <1>1, <1>2

(***************************************************************************)
(* free() puts an element that was in use in front of the list. The entry  *)
(* it writes is neither 0 nor Used, so it reads back as the old head.      *)
(***************************************************************************)
LEMMA FreeStep ==
    ASSUME TableInv, NEW c \in Cells, FreeCell(c)
    PROVE  TableInv'
<1>1. CASE offset[c] # Used
  <2>1. UNCHANGED <<offset, next, left, out>>
    BY <1>1 DEF FreeCell, tableVars
  <2> QED BY <2>1, TableUnchanged DEF TableInv, TableTypeOK
<1>2. CASE offset[c] = Used
  <2> DEFINE entry == IF next = 0 THEN Zero ELSE next
  <2>1. PICK list \in [1 .. left + 1 -> 0 .. N] : IsList(list)
    BY DEF TableInv, FreeListed
  <2>2. /\ c \notin Free
        /\ left \in Nat /\ next \in 0 .. N
        /\ left' = left + 1 /\ next' = c
        /\ offset' = [offset EXCEPT ![c] = entry]
        /\ out' = out
    BY <1>2, SizeAssumption DEF TableInv, TableTypeOK, FreeCell, Free, Held
  <2>3. entry \in 0 .. N \cup {Zero, Used} /\ entry # 0 /\ entry # Used
    BY <2>2, SizeAssumption DEF Zero, Used
  <2>4. /\ Free' = Free \cup {c}
        /\ \A d \in Free : d # c /\ Follows(d)' = Follows(d)
        /\ Follows(c)' = next
    BY <2>2, <2>3, SizeAssumption DEF TableInv, TableTypeOK, Free, Held, Follows, Zero, Used
  <2>0. PICK longer : longer = [i \in 1 .. left + 2 |-> IF i = 1 THEN c ELSE list[i - 1]]
    OBVIOUS
  <2>5. longer \in [1 .. left' + 1 -> 0 .. N]
    BY <2>0, <2>1, <2>2, SizeAssumption DEF Cells
  <2>6. /\ longer[1] = c /\ longer[2] = next
        /\ \A i \in 1 .. left + 1 : longer[i + 1] = list[i]
    BY <2>0, <2>1, <2>2 DEF IsList
  <2>7. longer[left' + 1] = N
    BY <2>1, <2>2, <2>6 DEF IsList
  <2> HIDE DEF entry
  <2>8. \A i \in 2 .. left' : i - 1 \in 1 .. left /\ longer[i] = list[i - 1] /\ longer[i + 1] = list[i]
    BY <2>2, <2>6
  <2>9. \A i \in 1 .. left' : longer[i] \in Free' /\ longer[i + 1] = Follows(longer[i])'
    <3> SUFFICES ASSUME NEW i \in 1 .. left'
                 PROVE  longer[i] \in Free' /\ longer[i + 1] = Follows(longer[i])'
      OBVIOUS
    <3>1. CASE i = 1
      BY <3>1, <2>4, <2>6
    <3>2. CASE i # 1
      <4>1. i \in 2 .. left'
        BY <3>2, <2>2
      <4>2. list[i - 1] \in Free /\ list[i] = Follows(list[i - 1])
        BY <4>1, <2>8, <2>1 DEF IsList
      <4> QED BY <4>1, <4>2, <2>4, <2>8
    <3> QED BY <3>1, <3>2
  <2>10. \A i, j \in 1 .. left' : longer[i] = longer[j] => i = j
    <3> SUFFICES ASSUME NEW i \in 1 .. left', NEW j \in 1 .. left', longer[i] = longer[j], i # j
                 PROVE  FALSE
      OBVIOUS
    <3>1. ASSUME NEW k \in 2 .. left' PROVE longer[k] # c
      <4>1. list[k - 1] \in Free
        BY <2>8, <2>1 DEF IsList
      <4> QED BY <4>1, <2>8, <2>2
    <3>2. i \in 2 .. left' /\ j \in 2 .. left'
      BY <3>1, <2>2, <2>6
    <3> QED BY <3>2, <2>8, <2>1, <2>2 DEF IsList
  <2>11. \A d \in Free' : \E i \in 1 .. left' : longer[i] = d
    <3> SUFFICES ASSUME NEW d \in Free' PROVE \E i \in 1 .. left' : longer[i] = d
      OBVIOUS
    <3>1. CASE d = c
      BY <3>1, <2>2, <2>6
    <3>2. CASE d \in Free
      <4>1. PICK k \in 1 .. left : list[k] = d
        BY <3>2, <2>1 DEF IsList
      <4>2. k + 1 \in 1 .. left' /\ longer[k + 1] = d
        BY <4>1, <2>2, <2>6
      <4> QED BY <4>2
    <3> QED BY <3>1, <3>2, <2>4
  <2>12. FreeListed'
    <3>1. longer[1] = next'
      BY <2>2, <2>6
    <3> QED BY <2>5, <2>7, <2>9, <2>10, <2>11, <3>1 DEF FreeListed, IsList
  <2>13. left' \in 0 .. N
    <3>1. left # N
      BY <2>2, CellsFinite DEF TableInv, LeftExact, Free
    <3> QED BY <3>1, <2>2, SizeAssumption DEF TableInv, TableTypeOK
  <2>14. TableTypeOK'
    BY <2>2, <2>3, <2>13, SizeAssumption DEF TableInv, TableTypeOK, Cells
  <2>15. FreshAtEnd'
    BY <1>2, <2>2, <2>3, SizeAssumption DEF TableInv, TableTypeOK, FreshAtEnd, Used, Cells
  <2>16. LeftExact'
    <3>1. IsFiniteSet(Free)
      BY CellsFinite DEF Free
    <3>2. Cardinality(Free') = Cardinality(Free) + 1
      BY <3>1, <2>2, <2>4, FS_AddElement
    <3> QED BY <3>2, <2>2 DEF TableInv, LeftExact
  <2> QED BY <2>12, <2>14, <2>15, <2>16 DEF TableInv
<1> QED BY <1>1, <1>2

(***************************************************************************)
(* Every step keeps the list, and TableInit makes one.                     *)
(***************************************************************************)
LEMMA TableAlways == TableSpec => []TableInv
<1>1. TableInit => TableInv
  BY EmptyTableList DEF TableInit, EmptyTable
<1>2. TableInv /\ [TableNext]_tableVars => TableInv'
  <2> SUFFICES ASSUME TableInv, [TableNext]_tableVars PROVE TableInv'
    OBVIOUS
  <2>1. CASE Malloc
    BY <2>1, MallocStep
  <2>2. ASSUME NEW c \in Cells, FreeCell(c) PROVE TableInv'
    BY <2>2, FreeStep
  <2>3. CASE Clear
    <3>1. EmptyTable'
      BY <2>3 DEF Clear, EmptyTable, TableInv, TableTypeOK
    <3> QED BY <3>1, EmptyTableList, PTL
  <2>4. CASE UNCHANGED tableVars
    BY <2>4, TableUnchanged DEF tableVars, TableInv, TableTypeOK
  <2> QED BY <2>1, <2>2, <2>3, <2>4 DEF TableNext
<1> QED BY <1>1, <1>2, PTL DEF TableSpec

(***************************************************************************)
(* Offsets, the list's head and the count keep their ranges: m_next and    *)
(* m_left neither wrap nor leave the table.                                *)
(***************************************************************************)
THEOREM TableCorrect == TableSpec => []TableTypeOK
<1>1. TableInv => TableTypeOK
  BY DEF TableInv
<1> QED BY TableAlways, <1>1, PTL

(***************************************************************************)
(* The free list has every free element, once, whatever was handed out and *)
(* given back and in whichever order.                                      *)
(***************************************************************************)
THEOREM ListCorrect == TableSpec => []FreeListed
<1>1. TableInv => FreeListed
  BY DEF TableInv
<1> QED BY TableAlways, <1>1, PTL

(***************************************************************************)
(* data_factory implements the pool: no element is handed out twice before *)
(* it is given back, and malloc() fails only when all are in use.          *)
(***************************************************************************)
THEOREM PoolCorrect == TableSpec => IsPool
<1>1. TableInit => Pool!Init
  BY SizeAssumption DEF TableInit, Pool!Init, Held, Used, Cells
<1>2. TableInv /\ [TableNext]_tableVars => [Pool!Next]_<<Held, out>>
  <2> SUFFICES ASSUME TableInv, [TableNext]_tableVars PROVE Pool!Next \/ UNCHANGED <<Held, out>>
    BY DEF Pool!Next
  <2>1. CASE Malloc /\ left = 0
    <3>1. Held = Cells
      BY <2>1, SizeAssumption DEF TableInv, TableTypeOK, FreeListed, IsList, Free, Held
    <3>2. Held' = Held /\ out' = None
      BY <2>1 DEF Malloc, Held
    <3> QED BY <3>1, <3>2 DEF Pool!Next, Pool!Refuse
  <2>2. CASE Malloc /\ left # 0
    <3>1. next \in Cells /\ next \notin Held
      BY <2>2, MallocTakesFirst DEF Free
    <3>2. Held' = Held \cup {next} /\ out' = next
      BY <2>2, <3>1 DEF Malloc, Held, TableInv, TableTypeOK
    <3> QED BY <3>1, <3>2 DEF Pool!Next, Pool!Acquire
  <2>3. ASSUME NEW c \in Cells, FreeCell(c) PROVE Pool!Next \/ UNCHANGED <<Held, out>>
    <3>1. CASE offset[c] # Used
      BY <3>1, <2>3 DEF FreeCell, tableVars, Held
    <3>2. CASE offset[c] = Used
      <4>1. (IF next = 0 THEN Zero ELSE next) # Used
        BY SizeAssumption DEF TableInv, TableTypeOK, Zero, Used
      <4>2. Held' = Held \ {c} /\ out' = out
        BY <3>2, <2>3, <4>1 DEF FreeCell, Held, TableInv, TableTypeOK
      <4> QED BY <4>2 DEF Pool!Next, Pool!Release
    <3> QED BY <3>1, <3>2
  <2>4. CASE Clear
    <3>1. Held' = {} /\ out' = out
      BY <2>4, SizeAssumption DEF Clear, Held, Used, Cells
    <3> QED BY <3>1 DEF Pool!Next, Pool!Reset
  <2>5. CASE UNCHANGED tableVars
    BY <2>5 DEF tableVars, Held
  <2> QED BY <2>1, <2>2, <2>3, <2>4, <2>5 DEF TableNext
<1> QED BY TableAlways, <1>1, <1>2, PTL DEF TableSpec, IsPool, Pool!Spec

-----------------------------------------------------------------------------
(* The iterators *)

\* A set of numbers has a least one.
LEMMA LeastNumber ==
    ASSUME NEW S \in SUBSET Nat, S # {}
    PROVE  \E m \in S : \A k \in S : m <= k
<1> DEFINE Smaller == OpToRel(<, Nat)
<1>1. IsWellFoundedOn(Smaller, Nat)
  BY NatLessThanWellFounded
<1>2. \E m \in S : \A k \in S : <<k, m>> \notin Smaller
  <2> HIDE DEF Smaller
  <2> QED BY <1>1, WFMin
<1>3. PICK m \in S : \A k \in S : <<k, m>> \notin Smaller
  BY <1>2
<1>4. \A k \in S : ~(k < m)
  BY <1>3 DEF OpToRel
<1> QED BY <1>4

\* Induction over the numbers, for a set that contains 0 and each successor
LEMMA Induction ==
    ASSUME NEW S, 0 \in S, \A n \in Nat : n \in S => n + 1 \in S
    PROVE  Nat \subseteq S
<1> SUFFICES ASSUME NEW x \in Nat, x \notin S PROVE FALSE
  OBVIOUS
<1>1. PICK m \in Nat \ S : \A k \in Nat \ S : m <= k
  <2>1. Nat \ S # {} /\ Nat \ S \in SUBSET Nat
    OBVIOUS
  <2> QED BY <2>1, LeastNumber
<1>2. m # 0 /\ m - 1 \in Nat /\ m - 1 \in S
  BY <1>1
<1> QED BY <1>1, <1>2

\* What a loop that goes up stops at, and one that goes down
LEMMA MinIs ==
    ASSUME NEW S \in SUBSET Nat, NEW m \in S, \A k \in S : m <= k
    PROVE  Min(S) = m
<1>1. \A x \in S : (\A k \in S : x <= k) => x = m
  <2> SUFFICES ASSUME NEW x \in S, \A k \in S : x <= k PROVE x = m
    OBVIOUS
  <2>1. x \in Nat /\ m \in Nat /\ x <= m /\ m <= x
    OBVIOUS
  <2> QED BY <2>1
<1> QED BY <1>1 DEF Min

LEMMA MinExists ==
    ASSUME NEW S \in SUBSET Nat, S # {}
    PROVE  Min(S) \in S /\ \A k \in S : Min(S) <= k
<1>1. PICK m \in S : \A k \in S : m <= k
  BY LeastNumber
<1>2. Min(S) = m
  BY <1>1, MinIs
<1> QED BY <1>1, <1>2

LEMMA MaxExists ==
    ASSUME NEW n \in Nat, NEW S \in SUBSET (0 .. n), S # {}
    PROVE  Max(S) \in S /\ \A k \in S : k <= Max(S)
<1> DEFINE T == {k \in 0 .. n : n - k \in S}
<1>1. T # {} /\ T \in SUBSET Nat
  <2>1. PICK k \in S : k \in 0 .. n
    OBVIOUS
  <2>2. n - k \in 0 .. n /\ n - (n - k) = k
    BY <2>1
  <2>3. n - k \in T
    BY <2>1, <2>2
  <2>4. \A t \in T : t \in Nat
    OBVIOUS
  <2> HIDE DEF T
  <2> QED BY <2>3, <2>4
<1>2. PICK t \in T : \A k \in T : t <= k
  <2> HIDE DEF T
  <2> QED BY <1>1, LeastNumber
<1>3. PICK m \in S : m = n - t
  BY <1>2
<1>4. \A k \in S : k <= m
  <2> SUFFICES ASSUME NEW k \in S PROVE k <= m
    OBVIOUS
  <2>1. k \in 0 .. n /\ n - k \in 0 .. n /\ n - (n - k) = k
    OBVIOUS
  <2>2. n - k \in T
    BY <2>1
  <2>3. t <= n - k /\ t \in 0 .. n
    BY <1>2, <2>2
  <2> QED BY <1>3, <2>1, <2>3
<1>5. \E x \in S : \A k \in S : x >= k
  <2>1. \A k \in S : m >= k
    <3> SUFFICES ASSUME NEW k \in S PROVE m >= k
      OBVIOUS
    <3>1. k <= m
      BY <1>4
    <3> QED BY <3>1
  <2> QED BY <2>1
<1>6. Max(S) \in S /\ \A k \in S : Max(S) >= k
  BY <1>5 DEF Max
<1> QED BY <1>6

\* How many elements were handed out at least once since the construction or clear()
Touched == Min({p \in 0 .. N : p = N \/ offset[p] = 0})

(***************************************************************************)
(* An entry was never used exactly when it is behind those that were.      *)
(***************************************************************************)
LEMMA TouchedFirst ==
    ASSUME TableInv
    PROVE  Touched \in 0 .. N /\ \A c \in Cells : offset[c] = 0 <=> Touched <= c
<1> USE SizeAssumption
<1> DEFINE S == {p \in 0 .. N : p = N \/ offset[p] = 0}
<1>1. N \in S /\ S \in SUBSET Nat
  <2>1. \A p \in S : p \in Nat
    OBVIOUS
  <2>2. N \in S
    OBVIOUS
  <2> HIDE DEF S
  <2> QED BY <2>1, <2>2
<1>2. Touched \in S /\ \A p \in S : Touched <= p
  <2> HIDE DEF S
  <2>1. Touched = Min(S)
    BY DEF Touched, S
  <2> QED BY <1>1, <2>1, MinExists
<1>3. PICK t \in 0 .. N : t = Touched /\ (t = N \/ offset[t] = 0) /\ \A p \in S : t <= p
  BY <1>2
<1>4. ASSUME NEW c \in Cells, offset[c] = 0 PROVE t <= c
  <2>1. c \in S
    BY <1>4 DEF Cells
  <2> QED BY <1>3, <2>1
<1>5. ASSUME NEW c \in Cells, t <= c PROVE offset[c] = 0
  <2> DEFINE R == {n \in Nat : t + n \in Cells => offset[t + n] = 0}
  <2>1. 0 \in R
    <3>1. t + 0 = t /\ (t \in Cells => offset[t] = 0)
      BY <1>3 DEF Cells
    <3> QED BY <3>1
  <2>2. \A n \in Nat : n \in R => n + 1 \in R
    <3> SUFFICES ASSUME NEW n \in Nat, n \in R, t + (n + 1) \in Cells
                 PROVE  offset[t + (n + 1)] = 0
      OBVIOUS
    <3>1. t + n \in Cells /\ t + (n + 1) = (t + n) + 1
      BY DEF Cells
    <3>2. offset[t + n] = 0
      BY <3>1
    <3> QED BY <3>1, <3>2 DEF TableInv, FreshAtEnd
  <2>3. Nat \subseteq R
    <3> HIDE DEF R
    <3> QED BY <2>1, <2>2, Induction
  <2>4. c - t \in Nat /\ t + (c - t) = c
    BY <1>5 DEF Cells
  <2>5. c - t \in R
    BY <2>3, <2>4
  <2> QED BY <2>4, <2>5
<1> HIDE DEF Touched
<1> QED BY <1>3, <1>4, <1>5

\* The bisection's halves are intervals, and shorter ones.
LEMMA Halves ==
    ASSUME NEW i \in Intervals, NEW n, n = (i[1] + i[2]) \div 2
    PROVE  /\ i[1] \in 0 .. N /\ i[2] \in 0 .. N /\ i[1] < i[2]
           /\ n \in Cells /\ i[1] <= n /\ n < i[2]
           /\ n = i[1] <=> i[2] = i[1] + 1
           /\ n # i[1] => <<i[1], n>> \in Intervals /\ <<n, i[2]>> \in Intervals
<1>1. i[1] \in 0 .. N /\ i[2] \in 0 .. N /\ i[1] < i[2]
  BY DEF Intervals
<1>2. PICK h \in 0 .. N, t \in 0 .. N : h = i[1] /\ t = i[2] /\ h < t
  BY <1>1
<1>3. n = (h + t) \div 2 /\ n \in Nat /\ h <= n /\ n < t /\ (n = h <=> t = h + 1)
  <2>1. n = (h + t) \div 2
    BY <1>2
  <2> QED BY ONLY <1>2, <2>1, SizeAssumption
<1>4. n # h => <<h, n>> \in Intervals /\ <<n, t>> \in Intervals
  BY <1>2, <1>3, SizeAssumption DEF Intervals
<1> QED BY <1>1, <1>2, <1>3, <1>4, SizeAssumption DEF Cells

\* What the bisection of an interval comes to
Bisected(i) ==
    IF Touched <= i[1] THEN i[1] ELSE IF Touched >= i[2] THEN i[2] ELSE Touched

(***************************************************************************)
(* head_zero() finds the first entry that was never used.                  *)
(***************************************************************************)
LEMMA HeadZeroFinds ==
    ASSUME TableInv
    PROVE  HeadZero = Touched
<1> DEFINE body(f, i) ==
             LET n == (i[1] + i[2]) \div 2 IN
             IF n = i[1] THEN (IF offset[n] = 0 THEN n ELSE n + 1)
             ELSE IF offset[n] = 0 THEN f[<<i[1], n>>] ELSE f[<<n, i[2]>>]
           search == CHOOSE search : search = [i \in Intervals |-> body(search, i)]
           found == [i \in Intervals |-> Bisected(i)]
<1>1. HeadZero = search[<<0, N>>]
  BY DEF HeadZero
<1>2. PICK t \in 0 .. N : t = Touched /\ \A c \in Cells : offset[c] = 0 <=> t <= c
  BY TouchedFirst
<1>3. ASSUME NEW f, NEW i \in Intervals,
             \A j \in Intervals : j[2] - j[1] < i[2] - i[1] => f[j] = Bisected(j)
      PROVE  body(f, i) = Bisected(i)
  <2>1. PICK n : n = (i[1] + i[2]) \div 2
    OBVIOUS
  <2>2. PICK lo \in 0 .. N, hi \in 0 .. N : lo = i[1] /\ hi = i[2] /\ lo < hi
    BY Halves, <2>1
  <2>3. /\ n \in Cells /\ n \in Nat /\ lo <= n /\ n < hi
        /\ n = lo <=> hi = lo + 1
        /\ n # lo => <<lo, n>> \in Intervals /\ <<n, hi>> \in Intervals
    <3>1. n \in Cells
      BY <2>1, Halves
    <3> QED BY <2>1, <2>2, <3>1, Halves DEF Cells
  <2>4. body(f, i) = IF n = lo THEN (IF offset[n] = 0 THEN n ELSE n + 1)
                     ELSE IF offset[n] = 0 THEN f[<<lo, n>>] ELSE f[<<n, hi>>]
    BY <2>1, <2>2
  <2>5. n # lo => f[<<lo, n>>] = Bisected(<<lo, n>>) /\ f[<<n, hi>>] = Bisected(<<n, hi>>)
    <3> SUFFICES ASSUME n # lo
                 PROVE  f[<<lo, n>>] = Bisected(<<lo, n>>) /\ f[<<n, hi>>] = Bisected(<<n, hi>>)
      OBVIOUS
    <3>1. n - lo < i[2] - i[1] /\ hi - n < i[2] - i[1]
      BY <2>2, <2>3
    <3>2. <<lo, n>>[2] - <<lo, n>>[1] < i[2] - i[1] /\ <<n, hi>>[2] - <<n, hi>>[1] < i[2] - i[1]
      BY <3>1
    <3> QED BY <1>3, <2>3, <3>2
  <2>6. offset[n] = 0 <=> t <= n
    BY <1>2, <2>3
  <2> HIDE DEF body
  <2> QED BY <1>2, <2>2, <2>3, <2>4, <2>5, <2>6 DEF Bisected
<1>4. \A i \in Intervals : body(found, i) = Bisected(i)
  <2> SUFFICES ASSUME NEW i \in Intervals PROVE body(found, i) = Bisected(i)
    OBVIOUS
  <2>1. \A j \in Intervals : found[j] = Bisected(j)
    OBVIOUS
  <2> HIDE DEF body, found
  <2> QED BY <1>3, <2>1
<1>5. found = [i \in Intervals |-> body(found, i)]
  <2>1. [i \in Intervals |-> body(found, i)] = [i \in Intervals |-> Bisected(i)]
    <3> HIDE DEF body, found
    <3> QED BY <1>4
  <2> HIDE DEF body
  <2> QED BY <2>1
<1>6. search = [i \in Intervals |-> body(search, i)]
  <2> HIDE DEF body, found
  <2>1. \E f : f = [i \in Intervals |-> body(f, i)]
    BY <1>5
  <2> QED BY <2>1
<1> HIDE DEF search
<1>7. \A i \in Intervals : search[i] = Bisected(i)
  <2> DEFINE S == {m \in Nat : \A i \in Intervals : i[2] - i[1] < m => search[i] = Bisected(i)}
  <2>0. \A i \in Intervals : i[1] \in 0 .. N /\ i[2] \in 0 .. N /\ i[1] < i[2]
    BY Halves
  <2>1. 0 \in S
    BY <2>0
  <2>2. \A m \in Nat : m \in S => m + 1 \in S
    <3> SUFFICES ASSUME NEW m \in Nat, m \in S, NEW i \in Intervals, i[2] - i[1] < m + 1
                 PROVE  search[i] = Bisected(i)
      OBVIOUS
    <3>1. \A j \in Intervals : j[2] - j[1] < i[2] - i[1] => search[j] = Bisected(j)
      <4> SUFFICES ASSUME NEW j \in Intervals, j[2] - j[1] < i[2] - i[1]
                   PROVE  search[j] = Bisected(j)
        OBVIOUS
      <4>1. j[2] - j[1] < m
        BY <2>0
      <4> QED BY <4>1
    <3>2. body(search, i) = Bisected(i)
      <4> HIDE DEF body
      <4> QED BY <1>3, <3>1
    <3> HIDE DEF body
    <3>3. search[i] = body(search, i)
      BY <1>6
    <3> QED BY <3>2, <3>3
  <2>3. Nat \subseteq S
    <3> HIDE DEF S
    <3> QED BY <2>1, <2>2, Induction
  <2> SUFFICES ASSUME NEW i \in Intervals PROVE search[i] = Bisected(i)
    OBVIOUS
  <2>4. PICK m \in Nat : i[2] - i[1] < m
    <3>1. N + 1 \in Nat /\ i[2] - i[1] < N + 1
      BY <2>0, SizeAssumption
    <3> QED BY <3>1
  <2>5. m \in S
    BY <2>3
  <2> QED BY <2>4, <2>5
<1>8. <<0, N>> \in Intervals
  BY SizeAssumption DEF Intervals
<1>9. Bisected(<<0, N>>) = t
  BY <1>2, SizeAssumption DEF Bisected
<1> QED BY <1>1, <1>2, <1>7, <1>8, <1>9

\* The first element in use from p on, or the end
LEMMA NextHeldIs ==
    ASSUME NEW p \in 0 .. N, NEW m \in p .. N, m = N \/ m \in Held,
           \A q \in Held : p <= q => m <= q
    PROVE  NextHeld(p) = m
<1> USE SizeAssumption
<1> DEFINE S == {q \in p .. N : q = N \/ q \in Held}
<1>1. m \in S /\ \A q \in S : m <= q
  OBVIOUS
<1>2. S \in SUBSET Nat
  <2>1. \A q \in S : q \in Nat
    OBVIOUS
  <2> HIDE DEF S
  <2> QED BY <2>1
<1>3. Min(S) = m
  <2> HIDE DEF S
  <2> QED BY <1>1, <1>2, MinIs
<1> QED BY <1>3 DEF NextHeld

\* An element in use was handed out, so it lies before those that never were.
LEMMA HeldTouched ==
    ASSUME TableInv, NEW q \in Held
    PROVE  q \in Cells /\ offset[q] = Used /\ q < Touched /\ offset[0] # 0
<1> USE SizeAssumption DEF Cells
<1>1. q \in Cells /\ offset[q] = Used /\ Used \in Nat \ {0}
  BY DEF Held, Used
<1>2. Touched \in 0 .. N /\ (offset[q] = 0 <=> Touched <= q) /\ (offset[0] = 0 <=> Touched <= 0)
  <2>1. 0 \in Cells
    OBVIOUS
  <2> QED BY <1>1, <2>1, TouchedFirst
<1> HIDE DEF Touched
<1> QED BY <1>1, <1>2

(***************************************************************************)
(* operator++ leads to the next element in use, or to the end.             *)
(***************************************************************************)
LEMMA AfterIs ==
    ASSUME TableInv, NEW c \in Cells
    PROVE  After(c) = NextHeld(c + 1)
<1> USE SizeAssumption DEF Cells
<1> DEFINE S == {p \in c + 1 .. N : p = N \/ offset[p] \in {0, Used}}
<1>1. N \in S /\ S \in SUBSET Nat
  <2>1. \A p \in S : p \in Nat
    OBVIOUS
  <2>2. N \in S
    OBVIOUS
  <2> HIDE DEF S
  <2> QED BY <2>1, <2>2
<1>2. Min(S) \in S /\ \A p \in S : Min(S) <= p
  <2> HIDE DEF S
  <2> QED BY <1>1, MinExists
<1>3. PICK stop \in c + 1 .. N :
          /\ stop = Min(S) /\ (stop = N \/ offset[stop] \in {0, Used})
          /\ \A p \in S : stop <= p
  BY <1>2
<1>4. After(c) = IF stop # N /\ offset[stop] = 0 THEN N ELSE stop
  BY <1>3 DEF After, End
<1>5. \A q \in Held : c + 1 <= q => stop <= q
  <2> SUFFICES ASSUME NEW q \in Held, c + 1 <= q PROVE stop <= q
    OBVIOUS
  <2>1. q \in S
    BY DEF Held
  <2> QED BY <1>3, <2>1
<1>6. CASE stop # N /\ offset[stop] = 0
  <2>1. stop \in Cells /\ Touched <= stop /\ Touched \in 0 .. N
    BY <1>3, <1>6, TouchedFirst
  <2>2. \A q \in Held : c + 1 <= q => N <= q
    <3> SUFFICES ASSUME NEW q \in Held, c + 1 <= q PROVE FALSE
      OBVIOUS
    <3>1. stop <= q /\ q < Touched /\ q \in Nat
      BY <1>5, HeldTouched
    <3> HIDE DEF Touched
    <3> QED BY <2>1, <3>1
  <2>3. NextHeld(c + 1) = N
    <3>1. c + 1 \in 0 .. N /\ N \in c + 1 .. N
      OBVIOUS
    <3> QED BY <2>2, <3>1, NextHeldIs
  <2> QED BY <1>4, <1>6, <2>3
<1>7. CASE ~(stop # N /\ offset[stop] = 0)
  <2>1. stop = N \/ stop \in Held
    BY <1>3, <1>7 DEF Held
  <2>2. NextHeld(c + 1) = stop
    <3>1. c + 1 \in 0 .. N
      OBVIOUS
    <3> QED BY <1>3, <1>5, <2>1, <3>1, NextHeldIs
  <2> QED BY <1>4, <1>7, <2>2
<1> QED BY <1>6, <1>7

(***************************************************************************)
(* used_begin() is the first element in use, or the end.                   *)
(***************************************************************************)
LEMMA UsedBeginIs ==
    ASSUME TableInv
    PROVE  UsedBegin = NextHeld(0)
<1> USE SizeAssumption DEF Cells
<1>1. \A q \in Held : q \in 0 .. N - 1
  BY DEF Held
<1>2. CASE offset[0] = Used
  <2>1. 0 \in Held
    BY <1>2 DEF Held
  <2>2. NextHeld(0) = 0
    BY <1>1, <2>1, NextHeldIs
  <2> QED BY <1>2, <2>2 DEF UsedBegin
<1>3. CASE offset[0] = 0
  <2>1. Held = {}
    BY <1>3, HeldTouched
  <2>2. NextHeld(0) = N
    BY <2>1, NextHeldIs
  <2>3. offset[0] # Used
    BY <1>3 DEF Used
  <2> QED BY <1>3, <2>2, <2>3 DEF UsedBegin, End
<1>4. CASE offset[0] # Used /\ offset[0] # 0
  <2>1. UsedBegin = NextHeld(1)
    <3>1. After(0) = NextHeld(0 + 1) /\ 0 + 1 = 1
      BY AfterIs
    <3> QED BY <1>4, <3>1 DEF UsedBegin
  <2>2. \A q \in Held : q # 0
    BY <1>4 DEF Held
  <2>3. {q \in 0 .. N : q = N \/ q \in Held} = {q \in 1 .. N : q = N \/ q \in Held}
    BY <2>2
  <2>4. NextHeld(0) = NextHeld(1)
    BY <2>3 DEF NextHeld
  <2> QED BY <2>1, <2>4
<1> QED BY <1>2, <1>3, <1>4

(***************************************************************************)
(* operator-- leads to the element in use before, when there is one.       *)
(***************************************************************************)
LEMMA BeforeIs ==
    ASSUME TableInv, NEW p \in Held \cup {End}, NEW q \in Held, q < p
    PROVE  Before(p) \in Held /\ Before(p) < p /\ q <= Before(p)
<1> USE SizeAssumption DEF Cells
<1>1. PICK from : from = IF p = End THEN HeadZero ELSE p
  OBVIOUS
<1>2. q \in Nat /\ from \in 0 .. N /\ from <= p /\ q < from /\ p \in 0 .. N /\ offset[0] # 0
  <2>1. q \in Cells /\ q < Touched /\ offset[0] # 0
    BY HeldTouched
  <2>2. Touched \in 0 .. N /\ HeadZero = Touched
    BY TouchedFirst, HeadZeroFinds
  <2>3. p \in 0 .. N /\ (p # End => p \in Cells)
    BY DEF Held, End
  <2> HIDE DEF Touched, HeadZero
  <2> QED BY <1>1, <2>1, <2>2, <2>3 DEF End
<1> DEFINE S == {r \in 0 .. from - 1 : r = 0 \/ offset[r] = Used}
<1>3. Before(p) = Max(S)
  BY <1>1, <1>2 DEF Before
<1>4. q \in S
  BY <1>2 DEF Held
<1>5. Max(S) \in S /\ \A k \in S : k <= Max(S)
  <2>1. from - 1 \in Nat /\ S \in SUBSET (0 .. from - 1)
    BY <1>2
  <2> HIDE DEF S
  <2> QED BY <1>4, <2>1, MaxExists
<1>6. PICK m \in 0 .. from - 1 : m = Max(S) /\ (m = 0 \/ offset[m] = Used) /\ q <= m
  BY <1>4, <1>5
<1>7. m \in Held
  <2>1. CASE m = 0
    <3>1. m = q
      BY <1>2, <1>6, <2>1
    <3> QED BY <3>1
  <2>2. CASE offset[m] = Used
    BY <1>2, <1>6, <2>2 DEF Held
  <2> QED BY <1>6, <2>1, <2>2
<1>8. m < p
  BY <1>2, <1>6
<1> QED BY <1>3, <1>6, <1>7, <1>8

(***************************************************************************)
(* A traversal, forwards or backwards, meets the elements in use and no    *)
(* other, for every size and whatever was handed out and given back.       *)
(***************************************************************************)
THEOREM IterationCorrect == TableSpec => []IterationExact
<1>1. TableInv => IterationExact
  <2> SUFFICES ASSUME TableInv PROVE IterationExact
    OBVIOUS
  <2>1. \A c \in Held : c \in Cells
    BY DEF Held
  <2> QED BY <2>1, UsedBeginIs, AfterIs, BeforeIs DEF IterationExact
<1> QED BY TableAlways, <1>1, PTL

-----------------------------------------------------------------------------
(* The server *)

\* m_running is the owner's, and the promise is kept only for a stop().
Phases ==
    /\ running <=> ownerPc = "up"
    /\ promise = "set" => ~running

\* A tracked session is open, and one that is being accepted is not tracked yet.
Stages ==
    /\ \A s \in Sessions : tracked[s] => state[s] # "none"
    /\ ioPc \in {"connect", "track"} => accepting \in Sessions /\ ~tracked[accepting]
    /\ ioPc = "connect" => state[accepting] = "none"
    /\ ioPc = "track" => state[accepting] # "none"

IInv == TypeOK /\ Phases /\ Stages /\ SessionOnce /\ StopComplete

(***************************************************************************)
(* A new server satisfies the invariant.                                   *)
(***************************************************************************)
LEMMA InvInit == Init => IInv
<1> SUFFICES ASSUME Init PROVE IInv
  OBVIOUS
<1>1. TypeOK
  <2>1. /\ state \in [Sessions -> {"none", "connected", "stuck"}]
        /\ conn \in [Sessions -> 0 .. MaxConns]
        /\ tracked \in [Sessions -> BOOLEAN]
    BY ResponderAssumption DEF Init
  <2>2. made \in 0 .. MaxConns /\ rounds \in 0 .. MaxRounds
    BY ResponderAssumption DEF Init
  <2> QED BY <2>1, <2>2 DEF Init, TypeOK
<1>2. Phases /\ Stages
  BY DEF Init, Phases, Stages
<1>3. Open = {} /\ Accepting = {}
  BY DEF Init, Open, Accepting
<1>4. SessionOnce /\ StopComplete
  BY <1>3 DEF Init, SessionOnce, StopComplete
<1> QED BY <1>1, <1>2, <1>4 DEF IInv

(***************************************************************************)
(* A close, by whoever, keeps what is known of the sessions.               *)
(***************************************************************************)
LEMMA CloseKeeps ==
    ASSUME IInv, NEW s \in Sessions, CloseOpen(s) \/ CloseIdle(s) \/ CloseThrows(s),
           UNCHANGED <<used, ioPc, accepting>>
    PROVE  /\ state' \in [Sessions -> {"none", "connected", "stuck"}]
           /\ tracked' \in [Sessions -> BOOLEAN]
           /\ posted' \subseteq Sessions /\ leaked' = leaked
           /\ Stages' /\ SessionOnce'
           /\ Accepting' = Accepting
<1>1. CASE CloseIdle(s)
  BY <1>1 DEF IInv, TypeOK, Stages, SessionOnce, CloseIdle, sessionVars, Accepting, Open
<1>2. CASE CloseThrows(s)
  BY <1>2 DEF IInv, TypeOK, Stages, SessionOnce, CloseThrows, Accepting, Open
<1>3. CASE CloseOpen(s)
  <2>1. s \notin Accepting /\ s \in Open
    BY <1>3 DEF IInv, TypeOK, Stages, CloseOpen, Accepting, Open
  <2>2. /\ Open' = Open \ {s} /\ posted' = posted \cup {s}
        /\ leaked' = leaked /\ Accepting' = Accepting
    BY <1>3 DEF IInv, TypeOK, CloseOpen, Accepting, Open
  <2>3. Stages'
    BY <1>3, <2>1 DEF IInv, TypeOK, Stages, CloseOpen, Accepting
  <2>4. SessionOnce'
    BY <2>1, <2>2 DEF IInv, SessionOnce
  <2> QED BY <1>3, <2>1, <2>2, <2>3, <2>4 DEF IInv, TypeOK, CloseOpen
<1> QED BY <1>1, <1>2, <1>3

(***************************************************************************)
(* The steps of start() and stop().                                        *)
(***************************************************************************)
LEMMA OwnerKeeps ==
    ASSUME IInv, Start \/ BeginStop \/ StopStep
    PROVE  IInv'
<1> USE ResponderAssumption
<1>1. CASE Start
  BY <1>1 DEF Start, IInv, TypeOK, Phases, Stages, SessionOnce, StopComplete, Accepting, Open,
     sessionVars, ioVars, peerVars
<1>2. CASE BeginStop
  BY <1>2 DEF BeginStop, IInv, TypeOK, Phases, Stages, SessionOnce, StopComplete, Accepting, Open,
     sessionVars, ioVars, peerVars
<1>3. CASE Untrack
  BY <1>3 DEF Untrack, IInv, TypeOK, Phases, Stages, SessionOnce, StopComplete, Accepting, Open,
     sessionVars, ioVars, peerVars
<1>3a. CASE CloseAccepted
  BY <1>3a DEF CloseAccepted, IInv, TypeOK, Phases, Stages, SessionOnce, StopComplete, Accepting,
     Open, serverVars, ioVars, peerVars
<1>4. CASE Scan
  BY <1>4 DEF Scan, IInv, TypeOK, Phases, Stages, SessionOnce, StopComplete, Accepting, Open,
     serverVars, sessionVars, ioVars, peerVars
<1>5. ASSUME NEW s \in Sessions, CloseNext(s) PROVE IInv'
  <2>1. /\ CloseOpen(s) \/ CloseIdle(s) \/ CloseThrows(s)
        /\ UNCHANGED <<used, conn, accepted, serverVars, ioVars, peerVars>>
        /\ ownerPc = "close" /\ ownerPc' \in {"wait", "close", "threw"} /\ todo' = todo \ {s}
    BY <1>5 DEF CloseNext
  <2>2. UNCHANGED <<used, conn, running, listening, promise, rounds, ioPc, accepting, accepted,
                    batch, made, gone>>
    BY <2>1 DEF serverVars, ioVars, peerVars
  <2>3. Stages' /\ SessionOnce'
    BY <2>1, <2>2, CloseKeeps
  <2>4. TypeOK'
    BY <2>1, <2>2, CloseKeeps DEF IInv, TypeOK
  <2>5. Phases'
    BY <2>1, <2>2 DEF IInv, Phases
  <2>6. StopComplete'
    BY <2>1, <2>2 DEF IInv, Phases, StopComplete
  <2> QED BY <2>3, <2>4, <2>5, <2>6 DEF IInv
<1>6. CASE Wait
  <2>1. promise = "set" /\ used = {}
    BY <1>6 DEF Wait, IInv, TypeOK, StopComplete
  <2> QED BY <1>6, <2>1 DEF Wait, IInv, TypeOK, Phases, Stages, SessionOnce, StopComplete,
          Accepting, Open, serverVars, sessionVars, ioVars, peerVars
<1>7. CASE ClearPool
  BY <1>7 DEF ClearPool, IInv, TypeOK, Phases, Stages, SessionOnce, StopComplete, Accepting, Open,
     serverVars, sessionVars, ioVars, peerVars
<1> QED BY <1>1, <1>2, <1>3, <1>3a, <1>4, <1>5, <1>6, <1>7 DEF StopStep

(***************************************************************************)
(* The steps of the IO thread.                                             *)
(***************************************************************************)
LEMMA IoKeeps ==
    ASSUME IInv, Poll \/ Accept \/ IoStep
    PROVE  IInv'
<1> USE ResponderAssumption
<1>1. CASE Poll \/ EventsDone \/ AcceptEvent \/ AcceptDone
  <2>1. /\ UNCHANGED <<used, conn, accepting, serverVars, sessionVars, ownerVars, peerVars>>
        /\ batch' \subseteq Hangups \cup {Incoming} /\ accepted' \in BOOLEAN
        /\ ioPc' \in {"poll", "events", "accept"} /\ ioPc \notin {"connect", "track"}
    BY <1>1 DEF Poll, EventsDone, AcceptEvent, AcceptDone, Ready, IInv, TypeOK
  <2> QED BY <2>1 DEF IInv, TypeOK, Phases, Stages, SessionOnce, StopComplete, Accepting, Open,
          serverVars, sessionVars, ownerVars, peerVars
<1>2. CASE Accept
  <2>1. /\ UNCHANGED <<gone, used, conn, accepting, batch, running, listening, promise, rounds,
                       state, tracked, posted, leaked, ownerPc, todo>>
        /\ ioPc = "accept" /\ ioPc' \in {"take", "accept"} /\ accepted' \in BOOLEAN
        /\ made < MaxConns /\ made' = made + 1
    BY <1>2 DEF Accept, serverVars, sessionVars, ownerVars
  <2>2. Accepting = {} /\ Accepting' = {} /\ Open' = Open
    BY <2>1 DEF Accepting, Open
  <2>3. SessionOnce' /\ StopComplete'
    BY <2>1, <2>2 DEF IInv, SessionOnce, StopComplete
  <2>4. made' \in 0 .. MaxConns /\ gone' \subseteq 1 .. made'
    BY <2>1 DEF IInv, TypeOK
  <2>5. TypeOK'
    BY <2>1, <2>4 DEF IInv, TypeOK
  <2>6. Phases' /\ Stages'
    BY <2>1 DEF IInv, Phases, Stages
  <2> QED BY <2>3, <2>5, <2>6 DEF IInv
<1>3. ASSUME NEW e \in Hangups, Hangup(e) PROVE IInv'
  <2>1. PICK s \in Sessions : s = e.session
    BY DEF Hangups
  <2>2. /\ CloseOpen(s) \/ CloseIdle(s) \/ CloseThrows(s)
        /\ ioPc = "events" /\ ioPc' \in {"events", "threw"}
        /\ UNCHANGED <<used, conn, accepting, accepted, running, listening, promise, rounds,
                       ownerPc, todo, made, gone>>
        /\ batch' \subseteq batch
    BY <1>3, <2>1 DEF Hangup, serverVars, ownerVars, peerVars
  <2>3. CASE ioPc' = "events"
    <3>1. /\ Stages' /\ SessionOnce' /\ leaked' = leaked /\ Accepting' = Accepting
          /\ state' \in [Sessions -> {"none", "connected", "stuck"}]
          /\ tracked' \in [Sessions -> BOOLEAN] /\ posted' \subseteq Sessions
      BY <2>2, <2>3, CloseKeeps
    <3>2. TypeOK' /\ Phases'
      BY <2>2, <3>1 DEF IInv, TypeOK, Phases
    <3>3. StopComplete'
      BY <2>2, <3>1 DEF IInv, SessionOnce, StopComplete
    <3> QED BY <3>1, <3>2, <3>3 DEF IInv
  <2>4. CASE ioPc' = "threw"
    <3>1. /\ state[s] = "connected" /\ state' = [state EXCEPT ![s] = "stuck"]
          /\ UNCHANGED <<tracked, posted, leaked>>
      BY <1>3, <2>1, <2>2, <2>4 DEF Hangup, CloseThrows
    <3>2. Open' = Open /\ Accepting = {} /\ Accepting' = {}
      BY <2>2, <2>4, <3>1 DEF IInv, TypeOK, Open, Accepting
    <3>3. SessionOnce'
      BY <2>2, <3>1, <3>2 DEF IInv, SessionOnce
    <3>4. StopComplete'
      BY <2>2, <3>1, <3>2 DEF IInv, StopComplete
    <3>5. TypeOK' /\ Phases' /\ Stages'
      BY <2>2, <2>4, <3>1 DEF IInv, TypeOK, Phases, Stages
    <3> QED BY <3>3, <3>4, <3>5 DEF IInv
  <2> QED BY <2>2, <2>3, <2>4
<1>4. CASE GetSession
  <2>1. CASE ioPc' = "accept"
    BY <1>4, <2>1 DEF GetSession, IInv, TypeOK, Phases, Stages, SessionOnce, StopComplete,
       Accepting, Open, serverVars, sessionVars, ownerVars, peerVars
  <2>2. CASE ioPc' # "accept"
    <3>1. PICK s \in Sessions \ used : used' = used \cup {s} /\ accepting' = s
      BY <1>4, <2>2 DEF GetSession
    <3>2. /\ ioPc = "take" /\ ioPc' = "connect" /\ running
          /\ UNCHANGED <<conn, accepted, batch, running, listening, promise, rounds, state,
                         tracked, posted, leaked, ownerPc, todo, made, gone>>
      BY <1>4, <2>2 DEF GetSession, serverVars, sessionVars, ownerVars, peerVars
    <3>3. /\ s \notin Open /\ s \notin posted /\ s \notin leaked /\ Open' = Open
          /\ Accepting = {} /\ Accepting' = {s}
      BY <3>1, <3>2 DEF IInv, SessionOnce, Open, Accepting
    <3>4. SessionOnce'
      BY <3>1, <3>2, <3>3 DEF IInv, SessionOnce
    <3>5. Stages'
      <4>1. s \in Sessions /\ state[s] = "none"
        BY <3>1, <3>3 DEF Open
      <4>2. ~tracked[s]
        BY <4>1 DEF IInv, Stages
      <4> QED BY <3>1, <3>2, <4>1, <4>2 DEF IInv, Stages
    <3>6. Phases' /\ StopComplete'
      BY <3>1, <3>2 DEF IInv, Phases, StopComplete
    <3>7. TypeOK'
      BY <3>1, <3>2 DEF IInv, TypeOK
    <3> QED BY <3>4, <3>5, <3>6, <3>7 DEF IInv
  <2> QED BY <2>1, <2>2
<1>5. CASE SetConnected
  <2>1. /\ ioPc = "connect" /\ ioPc' = "track"
        /\ state' = [state EXCEPT ![accepting] = "connected"]
        /\ conn' = [conn EXCEPT ![accepting] = made]
        /\ UNCHANGED <<used, tracked, posted, leaked, accepting, accepted, batch, running,
                       listening, promise, rounds, ownerPc, todo, made, gone>>
        /\ accepting \in Sessions
    BY <1>5 DEF SetConnected, serverVars, ownerVars, peerVars, IInv, Stages
  <2>2. Accepting' = Accepting /\ Accepting = {accepting} /\ Open' = Open \cup {accepting}
    BY <2>1 DEF IInv, TypeOK, Accepting, Open
  <2>3. SessionOnce' /\ StopComplete'
    BY <2>1, <2>2 DEF IInv, SessionOnce, StopComplete
  <2>4. Stages' /\ Phases' /\ TypeOK'
    BY <2>1 DEF IInv, TypeOK, Stages, Phases
  <2> QED BY <2>3, <2>4 DEF IInv
<1>6. CASE TrackSession
  <2>1. /\ ioPc = "track" /\ ioPc' = "accept"
        /\ tracked' = [tracked EXCEPT ![accepting] = TRUE]
        /\ accepting' = NoSession
        /\ UNCHANGED <<used, conn, state, posted, leaked, accepted, batch, running, listening,
                       promise, rounds, ownerPc, todo, made, gone>>
        /\ accepting \in Sessions /\ accepting \in Open
    BY <1>6 DEF TrackSession, serverVars, ownerVars, peerVars, IInv, Stages, Open
  <2>2. Accepting' = {} /\ Accepting = {accepting} /\ Open' = Open
    BY <2>1 DEF Accepting, Open
  <2>3. SessionOnce' /\ StopComplete'
    BY <2>1, <2>2 DEF IInv, SessionOnce, StopComplete
  <2>4. Stages'
    BY <2>1 DEF IInv, TypeOK, Stages
  <2>5. Phases' /\ TypeOK'
    BY <2>1 DEF IInv, TypeOK, Phases
  <2> QED BY <2>3, <2>4, <2>5 DEF IInv
<1>7. CASE TrackFails
  <2>1. /\ ioPc = "track" /\ ioPc' = "threw" /\ accepting' = NoSession
        /\ UNCHANGED <<used, conn, accepted, tracked, posted, leaked, batch, running, listening,
                       promise, rounds, ownerPc, todo, made, gone>>
        /\ accepting \in Sessions /\ accepting \in Open
        /\ \/ state' = state
           \/ state' = [state EXCEPT ![accepting] = "stuck"]
    BY <1>7 DEF TrackFails, CloseThrows, CloseIdle, sessionVars, serverVars, ownerVars, peerVars,
       IInv, Stages, Open
  <2>2. Accepting' = {} /\ Accepting = {accepting} /\ Open' = Open
    BY <2>1 DEF IInv, TypeOK, Accepting, Open
  <2>3. SessionOnce' /\ StopComplete'
    BY <2>1, <2>2 DEF IInv, SessionOnce, StopComplete
  <2>4. Stages'
    BY <2>1 DEF IInv, TypeOK, Stages
  <2>5. Phases' /\ TypeOK'
    BY <2>1 DEF IInv, TypeOK, Phases
  <2> QED BY <2>3, <2>4, <2>5 DEF IInv
<1> QED BY <1>1, <1>2, <1>3, <1>4, <1>5, <1>6, <1>7 DEF IoStep

(***************************************************************************)
(* The steps of handlers, workers and peers.                               *)
(***************************************************************************)
LEMMA OthersKeep ==
    ASSUME IInv,
           \/ \E s \in Sessions : HandlerCloses(s) \/ HandlerFails(s) \/ OnCloseSession(s)
           \/ \E c \in Conns : PeerLeaves(c)
    PROVE  IInv'
<1>1. ASSUME NEW s \in Sessions, HandlerCloses(s) PROVE IInv'
  <2>1. /\ CloseOpen(s) \/ CloseThrows(s)
        /\ UNCHANGED <<used, conn, running, listening, promise, rounds, ownerPc, todo,
                       ioPc, accepting, accepted, batch, made, gone>>
    BY <1>1 DEF HandlerCloses, serverVars, ownerVars, ioVars, peerVars
  <2>2. /\ Stages' /\ SessionOnce' /\ leaked' = leaked /\ Accepting' = Accepting
        /\ state' \in [Sessions -> {"none", "connected", "stuck"}]
        /\ tracked' \in [Sessions -> BOOLEAN] /\ posted' \subseteq Sessions
    BY <2>1, CloseKeeps
  <2>3. TypeOK' /\ Phases'
    BY <2>1, <2>2 DEF IInv, TypeOK, Phases
  <2>4. StopComplete'
    BY <2>1, <2>2 DEF IInv, SessionOnce, StopComplete
  <2> QED BY <2>2, <2>3, <2>4 DEF IInv
<1>1a. ASSUME NEW s \in Sessions, HandlerFails(s) PROVE IInv'
  <2>1. /\ state' = [state EXCEPT ![s] = "none"] /\ tracked' = [tracked EXCEPT ![s] = FALSE]
        /\ posted' = posted \ {s} /\ leaked' = leaked \cup {s}
        /\ (state[s] = "connected" /\ tracked[s]) \/ s \in posted
        /\ UNCHANGED <<used, conn, running, listening, promise, rounds, ownerPc, todo,
                       ioPc, accepting, accepted, batch, made, gone>>
    BY <1>1a DEF HandlerFails, serverVars, ownerVars, ioVars, peerVars
  <2>2. s \notin Accepting /\ s \in Open \cup posted
    <3>1. CASE s \in posted
      BY <3>1 DEF IInv, SessionOnce
    <3>2. CASE state[s] = "connected" /\ tracked[s]
      BY <3>2 DEF IInv, TypeOK, Stages, Accepting, Open
    <3> QED BY <2>1, <3>1, <3>2
  <2>3. Open' = Open \ {s} /\ Accepting' = Accepting
    BY <2>1 DEF IInv, TypeOK, Open, Accepting
  <2>4. SessionOnce'
    BY <2>1, <2>2, <2>3 DEF IInv, SessionOnce
  <2>5. StopComplete' /\ Phases'
    BY <2>1, <2>2, <2>3, <2>4 DEF IInv, SessionOnce, StopComplete, Phases
  <2>6. TypeOK'
    BY <2>1 DEF IInv, TypeOK
  <2>7. Stages'
    BY <2>1, <2>2 DEF IInv, TypeOK, Stages, Accepting
  <2> QED BY <2>4, <2>5, <2>6, <2>7 DEF IInv
<1>2. ASSUME NEW s \in Sessions, OnCloseSession(s) PROVE IInv'
  <2>1. /\ s \in posted /\ posted' = posted \ {s} /\ used' = used \ {s}
        /\ promise' = IF running \/ used' # {} THEN promise
                      ELSE IF promise = "new" THEN "set" ELSE "twice"
        /\ UNCHANGED <<running, listening, rounds, state, tracked, leaked, conn, accepted, ownerPc,
                       todo, ioPc, accepting, batch, made, gone>>
    BY <1>2 DEF OnCloseSession, ownerVars, ioVars, peerVars
  <2>2. s \in used /\ promise = "new"
    BY <2>1 DEF IInv, TypeOK, SessionOnce, StopComplete
  <2>3. Open' = Open /\ Accepting' = Accepting /\ s \notin Open \cup Accepting
    BY <2>1 DEF IInv, SessionOnce, Open, Accepting
  <2>4. SessionOnce'
    BY <2>1, <2>3 DEF IInv, SessionOnce
  <2>5. StopComplete' /\ Phases'
    BY <2>1, <2>2, <2>3 DEF IInv, StopComplete, Phases
  <2>6. TypeOK' /\ Stages'
    BY <2>1, <2>2 DEF IInv, TypeOK, Stages
  <2> QED BY <2>4, <2>5, <2>6 DEF IInv
<1>3. ASSUME NEW c \in Conns, PeerLeaves(c) PROVE IInv'
  BY <1>3 DEF PeerLeaves, IInv, TypeOK, Phases, Stages, SessionOnce, StopComplete, Accepting, Open,
     serverVars, sessionVars, ownerVars, ioVars
<1> QED BY <1>1, <1>1a, <1>2, <1>3

(***************************************************************************)
(* The invariant holds throughout.                                         *)
(***************************************************************************)
LEMMA InvAlways == Spec => []IInv
<1>1. IInv /\ [Next]_vars => IInv'
  <2> SUFFICES ASSUME IInv, [Next]_vars PROVE IInv'
    OBVIOUS
  <2>1. CASE UNCHANGED vars
    BY <2>1 DEF vars, IInv, TypeOK, Phases, Stages, SessionOnce, StopComplete, Accepting, Open
  <2> QED BY <2>1, OwnerKeeps, IoKeeps, OthersKeep DEF Next
<1> QED BY InvInit, <1>1, PTL DEF Spec

(***************************************************************************)
(* Every variable keeps its range; in particular the promise stop() waits  *)
(* for is never set a second time, which would throw in a worker.          *)
(***************************************************************************)
THEOREM TypeCorrect == Spec => []TypeOK
<1>1. IInv => TypeOK
  BY DEF IInv
<1> QED BY InvAlways, <1>1, PTL

(***************************************************************************)
(* The session pool, the IO thread and the workers agree on who has which  *)
(* session.                                                                *)
(***************************************************************************)
THEOREM SessionsCorrect == Spec => []SessionOnce
<1>1. IInv => SessionOnce
  BY DEF IInv
<1> QED BY InvAlways, <1>1, PTL

(***************************************************************************)
(* A stop() that returns leaves no session in use, open, or on its way.    *)
(***************************************************************************)
THEOREM StopCorrect == Spec => []StopComplete
<1>1. IInv => StopComplete
  BY DEF IInv
<1> QED BY InvAlways, <1>1, PTL

-----------------------------------------------------------------------------
(* The digest *)

\* The numbers among the constants
LEMMA DigestSizes ==
    /\ Block \in Nat \ {0} /\ Unit \in Nat \ {0} /\ WordSize \in Nat \ {0}
    /\ MaxTotal \in Nat \ {0} /\ MaxLength \in Nat \ {0}
    /\ Block > 2 /\ LengthSize = 2
<1>1. {Block, Unit, WordSize, MaxTotal, MaxLength} \subseteq Nat \ {0} /\ 2 < Block
  BY DigestAssumption DEF LengthSize
<1>2. Block \in Nat \ {0} /\ Unit \in Nat \ {0} /\ WordSize \in Nat \ {0}
      /\ MaxTotal \in Nat \ {0} /\ MaxLength \in Nat \ {0}
  BY <1>1
<1> QED BY <1>1, <1>2 DEF LengthSize

(***************************************************************************)
(* Quotient and remainder are the numbers that belong together.            *)
(***************************************************************************)
LEMMA Quotient ==
    ASSUME NEW a \in Nat, NEW d \in Nat \ {0}
    PROVE  /\ a \div d \in Nat /\ a % d \in 0 .. d - 1
           /\ a = (a \div d) * d + (a % d)
<1> DEFINE q == a \div d  r == a % d
<1>1. q \in Int /\ r \in 0 .. d - 1 /\ a = q * d + r
  OBVIOUS
<1> HIDE DEF q, r
<1>2. ~(q < 0)
  <2>1. ASSUME q < 0 PROVE FALSE
    <3>1. PICK k : k = -q - 1
      OBVIOUS
    <3>2. k \in Nat /\ q = -k - 1
      BY <1>1, <2>1, <3>1
    <3>3. k * d \in Nat
      BY <3>2
    <3>4. q * d = -d - k * d
      BY <3>2
    <3> QED BY <1>1, <3>3, <3>4
  <2> QED BY <2>1
<1>3. q \in Nat
  BY <1>1, <1>2
<1> QED BY <1>1, <1>3 DEF q, r

LEMMA OneQuotient ==
    ASSUME NEW d \in Nat \ {0}, NEW q \in Nat, NEW r \in Nat, r < d,
           NEW a, a = q * d + r
    PROVE  a \div d = q /\ a % d = r
<1> DEFINE p == a \div d  s == a % d
<1>1. a \in Nat
  <2>1. q * d \in Nat
    OBVIOUS
  <2> QED BY <2>1
<1>2. p \in Nat /\ s \in 0 .. d - 1 /\ a = p * d + s
  BY <1>1, Quotient
<1> HIDE DEF p, s
<1>3. ASSUME NEW i \in Nat, NEW j \in Nat, i < j PROVE i * d + d <= j * d
  <2>1. PICK k : k = j - i - 1
    OBVIOUS
  <2>2. k \in Nat /\ j = i + 1 + k
    BY <1>3, <2>1
  <2>3. k * d \in Nat /\ j * d = i * d + d + k * d /\ i * d \in Nat
    BY <2>2
  <2> QED BY <2>3
<1>4. PICK pd, qd : pd = p * d /\ qd = q * d
  OBVIOUS
<1>5. pd \in Nat /\ qd \in Nat /\ pd + s = qd + r /\ s \in Nat /\ s < d
  BY <1>2, <1>4
<1>6. ~(p < q)
  <2>1. p < q => pd + d <= qd
    BY <1>2, <1>3, <1>4
  <2> QED BY <1>5, <2>1
<1>7. ~(q < p)
  <2>1. q < p => qd + d <= pd
    BY <1>2, <1>3, <1>4
  <2> QED BY <1>5, <2>1
<1>8. p = q
  BY <1>2, <1>6, <1>7
<1>9. r = s
  BY <1>4, <1>5, <1>8
<1> QED BY <1>8, <1>9 DEF p, s

\* A number below d is its own remainder, and a multiple has none.
LEMMA SmallRemainder ==
    ASSUME NEW d \in Nat \ {0}, NEW r \in Nat, r < d
    PROVE  r \div d = 0 /\ r % d = r
<1>1. r = 0 * d + r /\ 0 \in Nat
  OBVIOUS
<1> QED BY <1>1, OneQuotient

\* The number of bits of L units, in two words
Count(L) == <<(L * Unit) % WordSize, ((L * Unit) \div WordSize) % WordSize>>

(***************************************************************************)
(* Adding in two words: the low one wraps exactly when it is below what    *)
(* was added to it.                                                        *)
(***************************************************************************)
LEMMA AddWords ==
    ASSUME NEW W \in Nat \ {0}, NEW x \in Nat, NEW y \in Nat
    PROVE  \A bits, low, carry :
               /\ bits = y % W /\ low = ((x % W) + bits) % W
               /\ carry = IF low < bits THEN 1 ELSE 0
               => /\ low = (x + y) % W
                  /\ (((x \div W) % W) + carry + (y \div W)) % W = ((x + y) \div W) % W
<1>0. SUFFICES ASSUME NEW bits, NEW low, NEW carry, bits = y % W,
                      low = ((x % W) + bits) % W,
                      carry = IF low < bits THEN 1 ELSE 0
               PROVE  /\ low = (x + y) % W
                      /\ (((x \div W) % W) + carry + (y \div W)) % W = ((x + y) \div W) % W
  OBVIOUS
<1>1. PICK a, b, r : a = x \div W /\ b = y \div W /\ r = x % W
  OBVIOUS
<1>2. /\ a \in Nat /\ b \in Nat /\ r \in 0 .. W - 1 /\ bits \in 0 .. W - 1
      /\ x = a * W + r /\ y = b * W + bits
  BY <1>0, <1>1, Quotient
<1>3. low = (r + bits) % W /\ carry = IF low < bits THEN 1 ELSE 0
  BY <1>0, <1>1
<1>4. carry \in {0, 1} /\ low \in 0 .. W - 1 /\ r + bits = carry * W + low
  <2>1. CASE r + bits < W
    <3>1. r + bits \in Nat
      BY <1>2
    <3>2. low = r + bits
      BY <1>3, <2>1, <3>1, SmallRemainder
    <3>3. carry = 0
      BY <1>2, <1>3, <3>2
    <3> QED BY <1>2, <2>1, <3>2, <3>3
  <2>2. CASE ~(r + bits < W)
    <3>1. PICK s : s = r + bits - W
      OBVIOUS
    <3>2. s \in Nat /\ s < W /\ r + bits = 1 * W + s /\ 1 \in Nat /\ s < bits
      BY <1>2, <2>2, <3>1
    <3>3. low = s
      <4>1. PICK sum, one : sum = r + bits /\ one = 1
        OBVIOUS
      <4>2. one \in Nat /\ sum = one * W + s
        BY <3>2, <4>1
      <4>3. sum % W = s
        BY <3>2, <4>2, OneQuotient
      <4> QED BY <1>3, <4>1, <4>3
    <3>4. carry = 1
      BY <1>3, <3>2, <3>3
    <3> QED BY <3>2, <3>3, <3>4
  <2> QED BY <2>1, <2>2
<1>5. PICK h : h = a + b + carry
  OBVIOUS
<1>6. h \in Nat /\ x + y = h * W + low /\ low \in Nat /\ low < W
  <2>1. h \in Nat /\ h * W = a * W + b * W + carry * W
    BY <1>2, <1>4, <1>5
  <2>2. a * W \in Nat /\ b * W \in Nat /\ carry * W \in Nat
    BY <1>2, <1>4
  <2> QED BY <1>2, <1>4, <2>1, <2>2
<1>7. (x + y) \div W = h /\ (x + y) % W = low
  <2>1. PICK sum : sum = x + y
    OBVIOUS
  <2>2. sum = h * W + low
    BY <1>6, <2>1
  <2>3. sum \div W = h /\ sum % W = low
    <3>1. h \in Nat /\ low \in Nat /\ low < W
      BY <1>6
    <3> QED BY <2>2, <3>1, OneQuotient
  <2> QED BY <2>1, <2>3
<1>8. ((a % W) + carry + b) % W = h % W
  <2>1. PICK u, v : u = a \div W /\ v = a % W
    OBVIOUS
  <2>2. u \in Nat /\ v \in 0 .. W - 1 /\ a = u * W + v
    BY <1>2, <2>1, Quotient
  <2>3. PICK t : t = v + carry + b
    OBVIOUS
  <2>4. t \in Nat
    BY <1>2, <1>4, <2>2, <2>3
  <2>5. PICK e, f : e = t \div W /\ f = t % W
    OBVIOUS
  <2>6. e \in Nat /\ f \in 0 .. W - 1 /\ t = e * W + f
    BY <2>4, <2>5, Quotient
  <2>7. u + e \in Nat /\ f \in Nat /\ f < W /\ h = (u + e) * W + f
    <3>1. (u + e) * W = u * W + e * W /\ u * W \in Nat /\ e * W \in Nat
      BY <2>2, <2>6
    <3>2. h = u * W + t
      <4>1. u * W \in Nat
        BY <2>2
      <4> QED BY <1>2, <1>4, <1>5, <2>2, <2>3, <4>1
    <3> QED BY <2>2, <2>6, <3>1, <3>2
  <2>8. h % W = f
    BY <2>7, OneQuotient
  <2> QED BY <2>1, <2>3, <2>5, <2>8
<1> QED BY <1>1, <1>7, <1>8

LEMMA CountTyped ==
    ASSUME NEW L \in Nat
    PROVE  Count(L) \in [1 .. 2 -> 0 .. WordSize - 1]
<1>1. PICK x, W : x = L * Unit /\ W = WordSize
  OBVIOUS
<1>2. x \in Nat /\ W \in Nat \ {0}
  BY <1>1, DigestSizes
<1>3. x \div W \in Nat /\ x % W \in 0 .. W - 1
  BY <1>2, Quotient
<1>4. (x \div W) % W \in 0 .. W - 1
  BY <1>2, <1>3, Quotient
<1>5. PICK u, v : u = x % W /\ v = (x \div W) % W
  OBVIOUS
<1>6. <<u, v>> \in [1 .. 2 -> 0 .. W - 1]
  BY <1>3, <1>4, <1>5
<1> QED BY <1>1, <1>5, <1>6 DEF Count

(***************************************************************************)
(* The count says how far the block is filled: a word holds a whole number *)
(* of blocks, so the bits that left the low word do not matter.            *)
(***************************************************************************)
LEMMA IndexIs ==
    ASSUME NEW q \in Nat, NEW r \in Nat, r < Block,
           NEW L, L = q * Block + r
    PROVE  (((L * Unit) % WordSize) \div Unit) % Block = r
<1>1. PICK B, U, W : B = Block /\ U = Unit /\ W = WordSize
  OBVIOUS
<1>2. B \in Nat \ {0} /\ U \in Nat \ {0} /\ W \in Nat \ {0}
  BY <1>1, DigestSizes
<1>3. W % (U * B) = 0
  BY <1>1, DigestAssumption
<1>4. PICK w, a : w = W \div (U * B) /\ a = (L * U) \div W
  OBVIOUS
<1>5. w \in Nat /\ W = w * (U * B)
  <2>1. PICK ub : ub = U * B
    OBVIOUS
  <2>2. ub \in Nat \ {0}
    BY <1>2, <2>1
  <2>3. w = W \div ub /\ W % ub = 0
    BY <1>3, <1>4, <2>1
  <2>4. w \in Nat /\ W = w * ub + 0
    BY <1>2, <2>2, <2>3, Quotient
  <2>5. w * ub \in Nat
    BY <2>2, <2>4
  <2> QED BY <2>1, <2>4, <2>5
<1>6. L \in Nat
  <2>1. q * B \in Nat
    BY <1>2
  <2> QED BY <1>1, <2>1
<1>7. PICK low : low = (L * U) % W
  OBVIOUS
<1>8. a \in Nat /\ low \in Nat /\ L * U = a * W + low
  <2>1. PICK x : x = L * U
    OBVIOUS
  <2>2. x \in Nat
    BY <1>2, <1>6, <2>1
  <2>3. a = x \div W /\ low = x % W
    BY <1>4, <1>7, <2>1
  <2>4. a \in Nat /\ low \in 0 .. W - 1 /\ x = a * W + low
    BY <1>2, <2>2, <2>3, Quotient
  <2> QED BY <1>2, <2>1, <2>4
<1>9. PICK g, d : g = a * w /\ d = L - g * B
  OBVIOUS
<1>10. g \in Nat /\ d \in Int /\ low = d * U
  <2>1. g \in Nat /\ g * B \in Nat
    BY <1>2, <1>5, <1>8, <1>9
  <2>2. a * W = g * B * U
    BY <1>2, <1>5, <1>8, <1>9
  <2>3. d * U = L * U - g * B * U
    BY <1>2, <1>6, <1>9, <2>1
  <2>4. PICK aW, LU : aW = a * W /\ LU = L * U
    OBVIOUS
  <2>5. aW \in Int /\ LU \in Int
    BY <1>2, <1>6, <1>8, <2>4
  <2>6. d * U = LU - aW /\ LU = aW + low
    BY <1>8, <2>2, <2>3, <2>4
  <2> QED BY <1>6, <1>8, <1>9, <2>1, <2>5, <2>6
<1>11. d \in Nat
  <2>1. ASSUME d < 0 PROVE FALSE
    <3>1. PICK k : k = -d - 1
      OBVIOUS
    <3>2. k \in Nat /\ d = -k - 1
      BY <1>10, <2>1, <3>1
    <3>3. k * U \in Nat /\ d * U = -(k * U) - U
      BY <1>2, <3>2
    <3> QED BY <1>2, <1>8, <1>10, <3>3
  <2> QED BY <1>10, <2>1
<1>12. low \div U = d
  <2>1. low = d * U + 0
    BY <1>8, <1>10
  <2>2. 0 \in Nat /\ 0 < U
    BY <1>2
  <2> QED BY <1>2, <1>11, <2>1, <2>2, OneQuotient
<1>13. PICK e, f : e = d \div B /\ f = d % B
  OBVIOUS
<1>14. e \in Nat /\ f \in 0 .. B - 1 /\ d = e * B + f
  BY <1>2, <1>11, <1>13, Quotient
<1>15. L = (g + e) * B + f /\ g + e \in Nat
  <2>1. (g + e) * B = g * B + e * B /\ g * B \in Nat /\ e * B \in Nat
    BY <1>2, <1>10, <1>14
  <2> QED BY <1>6, <1>9, <1>10, <1>14, <2>1
<1>16. f = r
  <2>1. L % B = f
    <3>1. f \in Nat /\ f < B
      BY <1>2, <1>14
    <3> QED BY <1>2, <1>15, <3>1, OneQuotient
  <2>2. L % B = r
    BY <1>1, <1>2, OneQuotient
  <2> QED BY <2>1, <2>2
<1> QED BY <1>1, <1>7, <1>12, <1>13, <1>16

\* Counting n more units
LEMMA CountedIs ==
    ASSUME NEW L \in Nat, NEW n \in Nat
    PROVE  Counted(Count(L), n) = Count(L + n)
<1>1. PICK x, y, W : x = L * Unit /\ y = n * Unit /\ W = WordSize
  OBVIOUS
<1>2. x \in Nat /\ y \in Nat /\ W \in Nat \ {0}
  BY <1>1, DigestSizes
<1>3. PICK bits, low, carry :
          /\ bits = y % W /\ low = ((x % W) + bits) % W
          /\ carry = IF low < bits THEN 1 ELSE 0
  OBVIOUS
<1>4. /\ low = (x + y) % W
      /\ (((x \div W) % W) + carry + (y \div W)) % W = ((x + y) \div W) % W
  <2>1. W \in Nat \ {0}
    BY <1>2
  <2>2. \A bit, lo, one :
               /\ bit = y % W /\ lo = ((x % W) + bit) % W
               /\ one = IF lo < bit THEN 1 ELSE 0
               => /\ lo = (x + y) % W
                  /\ (((x \div W) % W) + one + (y \div W)) % W = ((x + y) \div W) % W
    BY <1>2, <2>1, AddWords
  <2> QED BY <1>3, <2>2, Zenon
<1>5. (L + n) * Unit = x + y
  BY <1>1, DigestSizes
<1>6. Count(L)[1] = x % W /\ Count(L)[2] = (x \div W) % W
  BY <1>1 DEF Count
<1>7. Counted(Count(L), n) = <<low, (((x \div W) % W) + carry + (y \div W)) % W>>
  BY <1>1, <1>3, <1>6 DEF Counted
<1> QED BY <1>1, <1>4, <1>5, <1>7 DEF Count

Contexts ==
    [state : Seq(Buffers), count : [1 .. 2 -> 0 .. WordSize - 1],
     buffer : Buffers, finished : BOOLEAN]

\* The context c has been given the message m: its q whole blocks are
\* hashed, the r units after them are at the start of the buffer.
HoldsAt(c, m, q, r) ==
    /\ q \in Nat /\ r \in Nat /\ r < Block /\ Len(m) = q * Block + r
    /\ c.count = Count(Len(m))
    /\ Len(c.state) = q
    /\ \A k \in 1 .. q : \A i \in 1 .. Block : c.state[k][i] = m[(k - 1) * Block + i]
    /\ \A i \in 1 .. r : c.buffer[i] = m[q * Block + i]

Holds(c, m) == \E q, r : HoldsAt(c, m, q, r)

LEMMA IndexTyped ==
    ASSUME NEW c \in Contexts
    PROVE  Index(c) \in Nat /\ Index(c) < Block
<1>1. PICK x : x = c.count[1]
  OBVIOUS
<1>2. x \in Nat
  <2>1. c.count \in [1 .. 2 -> 0 .. WordSize - 1]
    BY DEF Contexts
  <2>2. c.count[1] \in 0 .. WordSize - 1
    BY <2>1
  <2> QED BY <1>1, <2>2, DigestSizes
<1>3. PICK y : y = x \div Unit
  OBVIOUS
<1>4. y \in Nat
  BY <1>2, <1>3, DigestSizes, Quotient
<1>5. y % Block \in 0 .. Block - 1
  BY <1>4, DigestSizes, Quotient
<1> QED BY <1>1, <1>3, <1>5, DigestSizes DEF Index

LEMMA IndexOf ==
    ASSUME NEW c, NEW m, NEW q \in Nat, NEW r \in Nat, r < Block,
           Len(m) = q * Block + r, c.count = Count(Len(m))
    PROVE  Index(c) = r
<1>1. c.count[1] = (Len(m) * Unit) % WordSize
  BY DEF Count
<1>2. (((Len(m) * Unit) % WordSize) \div Unit) % Block = r
  BY IndexIs
<1> QED BY <1>1, <1>2 DEF Index

LEMMA CopiedTyped ==
    ASSUME NEW buffer \in Buffers, NEW at \in Nat, NEW input \in Seq(Units)
    PROVE  Copied(buffer, at, input) \in Buffers
<1>1. Len(input) \in Nat /\ input \in [1 .. Len(input) -> Units]
  BY LenProperties
<1>2. \A i \in 1 .. Block : i \in at + 1 .. at + Len(input) => input[i - at] \in Units
  BY <1>1, DigestSizes
<1>3. \A i \in 1 .. Block : buffer[i] \in Units
  BY DEF Buffers
<1> QED BY <1>2, <1>3 DEF Copied, Buffers

\* One count after another is a count again.
LEMMA CountedTyped ==
    ASSUME NEW count \in [1 .. 2 -> 0 .. WordSize - 1], NEW n \in Nat
    PROVE  Counted(count, n) \in [1 .. 2 -> 0 .. WordSize - 1]
<1>1. PICK y, W, x, h : y = n * Unit /\ W = WordSize /\ x = count[1] /\ h = count[2]
  OBVIOUS
<1>2. y \in Nat /\ W \in Nat \ {0}
  BY <1>1, DigestSizes
<1>3. x \in Nat /\ h \in Nat
  BY <1>1, DigestSizes
<1>4. PICK bits, low, carry, sum :
          /\ bits = y % W /\ low = (x + bits) % W
          /\ carry = IF low < bits THEN 1 ELSE 0
          /\ sum = h + carry + (y \div W)
  OBVIOUS
<1>5. bits \in Nat /\ y \div W \in Nat /\ carry \in {0, 1}
  <2>1. y \div W \in Nat /\ y % W \in 0 .. W - 1
    BY <1>2, Quotient
  <2>2. carry \in {0, 1}
    BY <1>4
  <2> QED BY <1>2, <1>4, <2>1, <2>2
<1>6. low \in 0 .. W - 1
  <2>1. x + bits \in Nat
    BY <1>3, <1>5
  <2> QED BY <1>2, <1>4, <2>1, Quotient
<1>7. sum % W \in 0 .. W - 1
  <2>1. sum \in Nat
    BY <1>3, <1>4, <1>5
  <2> QED BY <1>2, <2>1, Quotient
<1>8. Counted(count, n) = <<low, sum % W>>
  BY <1>1, <1>4 DEF Counted
<1>9. PICK u, v : u = low /\ v = sum % W
  OBVIOUS
<1>10. <<u, v>> \in [1 .. 2 -> 0 .. W - 1]
  BY <1>6, <1>7, <1>9
<1> QED BY <1>1, <1>8, <1>9, <1>10

(***************************************************************************)
(* The whole blocks of the input that follow the first part of it, and     *)
(* what is left after them.                                                *)
(***************************************************************************)
CutUp(input, part, whole, rest) ==
    /\ whole \in Nat /\ rest \in Nat /\ rest < Block /\ Len(input) = part + whole * Block + rest
    /\ \A k \in 1 .. whole :
         /\ SubSeq(input, part + (k - 1) * Block + 1, part + k * Block) \in Buffers
         /\ \A i \in 1 .. Block :
              SubSeq(input, part + (k - 1) * Block + 1, part + k * Block)[i]
                  = input[part + (k - 1) * Block + i]
    /\ LET tail == SubSeq(input, part + whole * Block + 1, Len(input)) IN
         /\ tail \in Seq(Units) /\ Len(tail) = rest
         /\ \A i \in 1 .. rest : tail[i] = input[part + whole * Block + i]

LEMMA Cut ==
    ASSUME NEW input \in Seq(Units), NEW part \in Nat, part <= Len(input),
           NEW whole, whole = (Len(input) - part) \div Block
    PROVE  \E rest : CutUp(input, part, whole, rest)
<1>1. PICK n, over : n = Len(input) /\ over = n - part
  OBVIOUS
<1>2. n \in Nat /\ over \in Nat /\ n = part + over /\ \A i \in 1 .. n : input[i] \in Units
  BY <1>1, LenProperties
<1>3. PICK rest : rest = over % Block
  OBVIOUS
<1>4. whole \in Nat /\ rest \in 0 .. Block - 1 /\ over = whole * Block + rest
  BY <1>1, <1>2, <1>3, DigestSizes, Quotient
<1>5. ASSUME NEW k \in 1 .. whole
      PROVE  /\ SubSeq(input, part + (k - 1) * Block + 1, part + k * Block) \in Buffers
             /\ \A i \in 1 .. Block :
                  SubSeq(input, part + (k - 1) * Block + 1, part + k * Block)[i]
                      = input[part + (k - 1) * Block + i]
  <2>1. PICK j, l : j = k - 1 /\ l = whole - k
    OBVIOUS
  <2>2. j \in Nat /\ l \in Nat /\ k = j + 1 /\ whole = k + l
    BY <1>4, <1>5, <2>1
  <2>3. PICK jB, lB, kB : jB = j * Block /\ lB = l * Block /\ kB = k * Block
    OBVIOUS
  <2>4. jB \in Nat /\ lB \in Nat /\ kB = jB + Block /\ whole * Block = kB + lB
    BY <2>2, <2>3, DigestSizes
  <2>5. PICK a, z : a = part + jB + 1 /\ z = part + kB
    OBVIOUS
  <2>6. a \in Int /\ z \in Int /\ z - a + 1 = Block /\ 1 <= a /\ z <= n
    BY <1>2, <1>4, <2>4, <2>5, DigestSizes
  <2>7. \A i \in a .. z : input[i] \in Units
    BY <1>2, <2>6
  <2>8. PICK s : s = SubSeq(input, a, z)
    OBVIOUS
  <2>9. /\ s \in Seq(Units) /\ Len(s) = Block
        /\ \A i \in 1 .. Block : s[i] = input[a + i - 1]
    BY <2>6, <2>7, <2>8, SubSeqProperties, DigestSizes
  <2>10. s \in Buffers
    <3>1. s \in [1 .. Len(s) -> Units]
      BY <2>9, LenProperties
    <3> QED BY <2>9, <3>1 DEF Buffers
  <2>11. \A i \in 1 .. Block : s[i] = input[part + jB + i]
    BY <2>5, <2>6, <2>9, <2>4
  <2> QED BY <2>1, <2>3, <2>5, <2>8, <2>10, <2>11
<1>6. PICK tail : tail = SubSeq(input, part + whole * Block + 1, Len(input))
  OBVIOUS
<1>7. /\ tail \in Seq(Units) /\ Len(tail) = rest
      /\ \A i \in 1 .. rest : tail[i] = input[part + whole * Block + i]
  <2>1. PICK wB, a : wB = whole * Block /\ a = part + wB + 1
    OBVIOUS
  <2>2. wB \in Nat
    BY <1>4, <2>1, DigestSizes
  <2>3. a \in Int /\ 1 <= a /\ n - a + 1 = rest /\ rest \in Nat /\ tail = SubSeq(input, a, n)
    <3>1. rest \in Nat /\ over = wB + rest
      BY <1>4, <2>1, DigestSizes
    <3>2. tail = SubSeq(input, a, n)
      BY <1>1, <1>6, <2>1
    <3>3. a \in Int /\ 1 <= a
      BY <2>1, <2>2
    <3>4. n - a + 1 = rest
      <4>1. n = part + over /\ n \in Int /\ over \in Int
        BY <1>2
      <4>2. a = part + wB + 1
        BY <2>1
      <4> QED BY <2>2, <3>1, <4>1, <4>2
    <3> QED BY <3>1, <3>2, <3>3, <3>4
  <2>4. \A i \in a .. n : input[i] \in Units
    BY <1>2, <2>3
  <2>5. /\ tail \in Seq(Units) /\ Len(tail) = IF a <= n THEN n - a + 1 ELSE 0
        /\ \A i \in 1 .. n - a + 1 : tail[i] = input[a + i - 1]
    BY <1>2, <2>3, <2>4, SubSeqProperties
  <2>6. \A i \in 1 .. rest : tail[i] = input[part + wB + i]
    <3>1. ASSUME NEW i \in 1 .. rest PROVE tail[i] = input[part + wB + i]
      <4>1. tail[i] = input[a + i - 1]
        BY <2>3, <2>5
      <4>2. a + i - 1 = part + wB + i
        BY <2>1, <2>2, <2>3
      <4> QED BY <4>1, <4>2
    <3> QED BY <3>1
  <2>7. Len(tail) = rest
    <3>1. CASE a <= n
      BY <2>3, <2>5, <3>1
    <3>2. CASE ~(a <= n)
      <4>1. rest = 0
        BY <1>2, <2>3, <3>2
      <4> QED BY <2>5, <3>2, <4>1
    <3> QED BY <3>1, <3>2
  <2> QED BY <2>1, <2>5, <2>6, <2>7
<1>8. rest \in Nat /\ rest < Block
  BY <1>4, DigestSizes
<1>9. Len(input) = part + whole * Block + rest
  <2>1. whole * Block \in Nat
    BY <1>4, DigestSizes
  <2> QED BY <1>1, <1>2, <1>4, <1>8, <2>1
<1> QED BY <1>4, <1>5, <1>6, <1>7, <1>8, <1>9 DEF CutUp

LEMMA FirstPart ==
    ASSUME NEW input \in Seq(Units), NEW part \in Nat, part <= Len(input)
    PROVE  LET s == SubSeq(input, 1, part) IN
             /\ s \in Seq(Units) /\ Len(s) = part
             /\ \A i \in 1 .. part : s[i] = input[i]
<1>1. Len(input) \in Nat /\ \A i \in 1 .. Len(input) : input[i] \in Units
  BY LenProperties
<1>2. \A i \in 1 .. part : input[i] \in Units
  BY <1>1
<1>3. PICK s : s = SubSeq(input, 1, part)
  OBVIOUS
<1>4. /\ s \in Seq(Units) /\ Len(s) = IF 1 <= part THEN part - 1 + 1 ELSE 0
      /\ \A i \in 1 .. part - 1 + 1 : s[i] = input[1 + i - 1]
  BY <1>2, <1>3, SubSeqProperties
<1>5. part - 1 + 1 = part
  OBVIOUS
<1>6. Len(s) = part
  BY <1>4
<1>7. \A i \in 1 .. part : s[i] = input[i]
  BY <1>4
<1> QED BY <1>3, <1>4, <1>6, <1>7

(***************************************************************************)
(* update() when the input fills the block, with names for its parts       *)
(***************************************************************************)
FilledUp(c, input, index, part, whole, rest, first, blocks, tail) ==
    /\ index = Index(c) /\ index \in Nat /\ index < Block
    /\ part \in Nat /\ part = Block - index
    /\ whole \in Nat /\ rest \in Nat /\ rest < Block
    /\ whole = (Len(input) - part) \div Block
    /\ Len(input) = part + whole * Block + rest
    /\ first \in Buffers
    /\ \A i \in 1 .. Block :
         first[i] = IF i <= index THEN c.buffer[i] ELSE input[i - index]
    /\ blocks \in Seq(Buffers) /\ Len(blocks) = whole
    /\ \A k \in 1 .. whole : \A i \in 1 .. Block :
         blocks[k][i] = input[part + (k - 1) * Block + i]
    /\ tail \in Seq(Units) /\ Len(tail) = rest
    /\ \A i \in 1 .. rest : tail[i] = input[part + whole * Block + i]
    /\ Updated(c, input) =
         [state |-> c.state \o <<first>> \o blocks,
          count |-> Counted(c.count, Len(input)), finished |-> FALSE,
          buffer |-> Copied(first, 0, tail)]
    /\ Copied(first, 0, tail) \in Buffers

LEMMA Filled ==
    ASSUME NEW c \in Contexts, NEW input \in Seq(Units),
           Fills(Len(input), Block - Index(c))
    PROVE  \E index, part, whole, rest, first, blocks, tail :
               FilledUp(c, input, index, part, whole, rest, first, blocks, tail)
<1>1. PICK index, part, n : index = Index(c) /\ part = Block - index /\ n = Len(input)
  OBVIOUS
<1>2. index \in Nat /\ index < Block
  BY <1>1, IndexTyped
<1>3. part \in Nat /\ part <= n /\ part >= 1 /\ n \in Nat
  <2>1. n \in Nat
    BY <1>1, LenProperties
  <2>2. n >= part
    BY <1>1 DEF Fills
  <2> QED BY <1>1, <1>2, <2>1, <2>2, DigestSizes
<1>4. PICK whole : whole = (n - part) \div Block
  OBVIOUS
<1>5. PICK rest : CutUp(input, part, whole, rest)
  <2>1. part \in Nat /\ part <= Len(input) /\ whole = (Len(input) - part) \div Block
    BY <1>1, <1>3, <1>4
  <2> QED BY <2>1, Cut
<1>6. PICK head, first, blocks, tail :
         /\ head = SubSeq(input, 1, part)
         /\ first = Copied(c.buffer, index, head)
         /\ blocks = [k \in 1 .. whole |->
                       SubSeq(input, part + (k - 1) * Block + 1, part + k * Block)]
         /\ tail = SubSeq(input, part + whole * Block + 1, n)
  OBVIOUS
<1>7. head \in Seq(Units) /\ Len(head) = part /\ \A i \in 1 .. part : head[i] = input[i]
  BY <1>1, <1>3, <1>6, FirstPart
<1>8. c.buffer \in Buffers /\ c.state \in Seq(Buffers)
  BY DEF Contexts
<1>9. first \in Buffers
  BY <1>2, <1>6, <1>7, <1>8, CopiedTyped
<1>10. ASSUME NEW i \in 1 .. Block
       PROVE  first[i] = IF i <= index THEN c.buffer[i] ELSE input[i - index]
  <2>1. first[i] = IF i \in index + 1 .. index + Len(head) THEN head[i - index] ELSE c.buffer[i]
    BY <1>6 DEF Copied
  <2>2. index + Len(head) = Block
    BY <1>1, <1>2, <1>7, DigestSizes
  <2>3. i \in index + 1 .. index + Len(head) <=> ~(i <= index)
    BY <1>2, <2>2, DigestSizes
  <2>4. CASE i <= index
    BY <2>1, <2>3, <2>4
  <2>5. CASE ~(i <= index)
    <3>1. i - index \in 1 .. part
      BY <1>1, <1>2, <2>5, DigestSizes
    <3> QED BY <1>7, <2>1, <2>3, <2>5, <3>1
  <2> QED BY <2>4, <2>5
<1>11. /\ blocks \in Seq(Buffers) /\ Len(blocks) = whole
       /\ \A k \in 1 .. whole : \A i \in 1 .. Block :
            blocks[k][i] = input[part + (k - 1) * Block + i]
  <2>1. blocks \in [1 .. whole -> Buffers]
    BY <1>5, <1>6 DEF CutUp
  <2>2. blocks \in Seq(Buffers) /\ Len(blocks) = whole
    <3>1. whole \in Nat
      BY <1>5 DEF CutUp
    <3> QED BY <2>1, <3>1
  <2>3. \A k \in 1 .. whole :
           blocks[k] = SubSeq(input, part + (k - 1) * Block + 1, part + k * Block)
    BY <1>6
  <2> QED BY <1>5, <2>2, <2>3 DEF CutUp
<1>12. /\ tail \in Seq(Units) /\ Len(tail) = rest
       /\ \A i \in 1 .. rest : tail[i] = input[part + whole * Block + i]
  BY <1>1, <1>5, <1>6 DEF CutUp
<1>13. Copied(first, 0, tail) \in Buffers
  BY <1>9, <1>12, CopiedTyped
<1>14. Updated(c, input) =
         [state |-> c.state \o <<first>> \o blocks,
          count |-> Counted(c.count, Len(input)), finished |-> FALSE,
          buffer |-> Copied(first, 0, tail)]
  BY <1>1, <1>4, <1>6 DEF Updated
<1> QED
  <2>1. /\ index = Index(c) /\ index \in Nat /\ index < Block
        /\ part \in Nat /\ part = Block - index
        /\ whole \in Nat /\ rest \in Nat /\ rest < Block
        /\ whole = (Len(input) - part) \div Block
        /\ Len(input) = part + whole * Block + rest
    BY <1>1, <1>2, <1>3, <1>4, <1>5 DEF CutUp
  <2>2. FilledUp(c, input, index, part, whole, rest, first, blocks, tail)
    BY <1>9, <1>10, <1>11, <1>12, <1>13, <1>14, <2>1 DEF FilledUp
  <2> QED BY <2>2

LEMMA UpdatedTyped ==
    ASSUME NEW c \in Contexts, NEW input \in Seq(Units)
    PROVE  Updated(c, input) \in Contexts
<1>1. /\ c.buffer \in Buffers /\ c.state \in Seq(Buffers)
      /\ c.count \in [1 .. 2 -> 0 .. WordSize - 1]
  BY DEF Contexts
<1>2. Counted(c.count, Len(input)) \in [1 .. 2 -> 0 .. WordSize - 1]
  BY <1>1, LenProperties, CountedTyped
<1>3. CASE ~Fills(Len(input), Block - Index(c))
  <2>1. Updated(c, input) =
          [c EXCEPT !.count = Counted(c.count, Len(input)), !.finished = FALSE,
                    !.buffer = Copied(c.buffer, Index(c), input)]
    BY <1>3 DEF Updated
  <2>2. Copied(c.buffer, Index(c), input) \in Buffers
    BY <1>1, IndexTyped, CopiedTyped
  <2> QED BY <1>2, <2>1, <2>2 DEF Contexts
<1>4. CASE Fills(Len(input), Block - Index(c))
  <2>1. PICK index, part, whole, rest, first, blocks, tail :
            FilledUp(c, input, index, part, whole, rest, first, blocks, tail)
    BY <1>4, Filled
  <2>10. /\ first \in Buffers /\ blocks \in Seq(Buffers)
         /\ Updated(c, input) =
              [state |-> c.state \o <<first>> \o blocks,
               count |-> Counted(c.count, Len(input)), finished |-> FALSE,
               buffer |-> Copied(first, 0, tail)]
         /\ Copied(first, 0, tail) \in Buffers
    BY <2>1 DEF FilledUp
  <2>2. <<first>> \in Seq(Buffers)
    BY <2>10
  <2>3. c.state \o <<first>> \in Seq(Buffers)
    BY <1>1, <2>2, ConcatProperties
  <2>4. c.state \o <<first>> \o blocks \in Seq(Buffers)
    BY <2>10, <2>3, ConcatProperties
  <2> QED BY <1>2, <2>10, <2>4 DEF Contexts
<1> QED BY <1>3, <1>4

(***************************************************************************)
(* update() goes on with the message, however it falls on the blocks.      *)
(***************************************************************************)
LEMMA UpdatedHolds ==
    ASSUME NEW c \in Contexts, NEW m \in Seq(Units), NEW input \in Seq(Units),
           Holds(c, m)
    PROVE  Holds(Updated(c, input), m \o input)
<1>1. PICK q, r : HoldsAt(c, m, q, r)
  BY DEF Holds
<1>2. /\ q \in Nat /\ r \in Nat /\ r < Block /\ Len(m) = q * Block + r
      /\ c.count = Count(Len(m)) /\ Len(c.state) = q
  BY <1>1 DEF HoldsAt
<1>3. \A k \in 1 .. q : \A i \in 1 .. Block : c.state[k][i] = m[(k - 1) * Block + i]
  BY <1>1 DEF HoldsAt
<1>4. \A i \in 1 .. r : c.buffer[i] = m[q * Block + i]
  BY <1>1 DEF HoldsAt
<1>5. PICK n, L, all : n = Len(input) /\ L = Len(m) /\ all = m \o input
  OBVIOUS
<1>6. n \in Nat /\ L \in Nat /\ Len(all) = L + n /\ L = q * Block + r
  BY <1>2, <1>5, LenProperties, ConcatProperties
<1>7. /\ \A i \in 1 .. L : all[i] = m[i]
      /\ \A i \in 1 .. n : all[L + i] = input[i]
  <2>1. \A i \in 1 .. L + n : all[i] = IF i <= L THEN m[i] ELSE input[i - L]
    BY <1>5, ConcatProperties
  <2>2. ASSUME NEW i \in 1 .. L PROVE all[i] = m[i]
    BY <1>6, <2>1
  <2>3. ASSUME NEW i \in 1 .. n PROVE all[L + i] = input[i]
    <3>1. PICK j : j = L + i
      OBVIOUS
    <3>2. j \in 1 .. L + n /\ ~(j <= L) /\ j - L = i
      BY <1>6, <3>1
    <3> QED BY <2>1, <3>1, <3>2
  <2> QED BY <2>2, <2>3
<1>8. Index(c) = r
  BY <1>2, IndexOf
<1>9. Counted(c.count, n) = Count(L + n)
  BY <1>2, <1>5, <1>6, CountedIs
<1>10. PICK qB : qB = q * Block
  OBVIOUS
<1>11. qB \in Nat /\ L = qB + r
  BY <1>2, <1>6, <1>10, DigestSizes
<1>12. c.state \in Seq(Buffers) /\ c.buffer \in Buffers
  BY DEF Contexts
<1>13. \A k \in 1 .. q : \A i \in 1 .. Block :
          c.state[k][i] = all[(k - 1) * Block + i]
  <2>1. ASSUME NEW k \in 1 .. q, NEW i \in 1 .. Block
        PROVE  c.state[k][i] = all[(k - 1) * Block + i]
    <3>1. PICK j, l : j = k - 1 /\ l = q - k
      OBVIOUS
    <3>2. j \in Nat /\ l \in Nat /\ q = j + 1 + l
      BY <1>2, <3>1
    <3>3. PICK jB, lB : jB = j * Block /\ lB = l * Block
      OBVIOUS
    <3>4. jB \in Nat /\ lB \in Nat /\ qB = jB + Block + lB
      BY <1>10, <3>2, <3>3, DigestSizes
    <3>5. jB + i \in 1 .. L
      BY <1>2, <1>11, <3>4, DigestSizes
    <3>6. c.state[k][i] = m[jB + i]
      BY <1>3, <3>1, <3>3
    <3> QED BY <1>7, <3>1, <3>3, <3>5, <3>6
  <2> QED BY <2>1
<1>14. \A i \in 1 .. r : c.buffer[i] = all[qB + i]
  <2>1. ASSUME NEW i \in 1 .. r PROVE c.buffer[i] = all[qB + i]
    <3>1. qB + i \in 1 .. L
      BY <1>2, <1>11
    <3>2. c.buffer[i] = m[qB + i]
      BY <1>4, <1>10
    <3> QED BY <1>7, <3>1, <3>2
  <2> QED BY <2>1
<1>15. CASE ~Fills(n, Block - Index(c))
  <2>1. Updated(c, input) =
          [c EXCEPT !.count = Counted(c.count, n), !.finished = FALSE,
                    !.buffer = Copied(c.buffer, r, input)]
    BY <1>5, <1>8, <1>15 DEF Updated
  <2>2. PICK d : d = Updated(c, input)
    OBVIOUS
  <2>3. d.count = Count(L + n) /\ d.state = c.state /\ d.buffer = Copied(c.buffer, r, input)
    BY <1>9, <2>1, <2>2 DEF Contexts
  <2>4. r + n \in Nat /\ r + n < Block
    <3>1. ~(n >= Block - r)
      BY <1>8, <1>15 DEF Fills
    <3> QED BY <1>2, <1>6, <3>1, DigestSizes
  <2>5. ASSUME NEW i \in 1 .. r + n PROVE d.buffer[i] = all[qB + i]
    <3>1. i \in 1 .. Block
      BY <1>2, <1>6, <2>4, DigestSizes
    <3>2. d.buffer[i] = IF i \in r + 1 .. r + n THEN input[i - r] ELSE c.buffer[i]
      BY <1>5, <2>3, <3>1 DEF Copied
    <3>3. CASE i <= r
      <4>1. i \in 1 .. r /\ ~(i \in r + 1 .. r + n)
        BY <1>2, <1>6, <3>3
      <4> QED BY <1>14, <3>2, <4>1
    <3>4. CASE ~(i <= r)
      <4>1. PICK j : j = i - r
        OBVIOUS
      <4>2. i \in r + 1 .. r + n /\ j \in 1 .. n
        <5>1. r \in Nat /\ n \in Nat
          BY <1>2, <1>6
        <5> QED BY <3>4, <4>1, <5>1
      <4>3. L + j = qB + i
        <5>1. r \in Nat /\ i \in Int
          BY <1>2, <1>6
        <5> QED BY <1>11, <4>1, <5>1
      <4> QED BY <1>7, <3>2, <4>1, <4>2, <4>3
    <3> QED BY <3>3, <3>4
  <2>6. HoldsAt(d, all, q, r + n)
    <3>1. Len(all) = q * Block + (r + n)
      BY <1>2, <1>6, <1>10, <1>11
    <3>2. d.count = Count(Len(all)) /\ Len(d.state) = q
      BY <1>2, <1>6, <2>3
    <3>3. \A k \in 1 .. q : \A i \in 1 .. Block : d.state[k][i] = all[(k - 1) * Block + i]
      BY <1>13, <2>3
    <3>4. \A i \in 1 .. r + n : d.buffer[i] = all[q * Block + i]
      BY <1>10, <2>5
    <3> QED BY <1>2, <2>4, <3>1, <3>2, <3>3, <3>4 DEF HoldsAt
  <2> QED BY <1>5, <2>2, <2>6 DEF Holds
<1>16. CASE Fills(n, Block - Index(c))
  <2>1. PICK index, part, whole, rest, first, blocks, tail :
            FilledUp(c, input, index, part, whole, rest, first, blocks, tail)
    BY <1>5, <1>16, Filled
  <2>2. /\ index = r /\ part \in Nat /\ part = Block - r
        /\ whole \in Nat /\ rest \in Nat /\ rest < Block
        /\ n = part + whole * Block + rest
    BY <1>5, <1>8, <2>1 DEF FilledUp
  <2>3. /\ first \in Buffers /\ blocks \in Seq(Buffers) /\ Len(blocks) = whole
        /\ tail \in Seq(Units) /\ Len(tail) = rest
    BY <2>1 DEF FilledUp
  <2>4. \A i \in 1 .. Block : first[i] = IF i <= r THEN c.buffer[i] ELSE input[i - r]
    BY <2>1, <2>2 DEF FilledUp
  <2>5. \A k \in 1 .. whole : \A i \in 1 .. Block :
           blocks[k][i] = input[part + (k - 1) * Block + i]
    BY <2>1 DEF FilledUp
  <2>6. \A i \in 1 .. rest : tail[i] = input[part + whole * Block + i]
    BY <2>1 DEF FilledUp
  <2>7. PICK d : d = Updated(c, input)
    OBVIOUS
  <2>8. /\ d.state = c.state \o <<first>> \o blocks /\ d.count = Count(L + n)
        /\ d.buffer = Copied(first, 0, tail)
    <3>1. d = [state |-> c.state \o <<first>> \o blocks,
               count |-> Counted(c.count, n), finished |-> FALSE,
               buffer |-> Copied(first, 0, tail)]
      BY <1>5, <2>1, <2>7 DEF FilledUp
    <3> QED BY <1>9, <3>1
  <2>9. PICK wB : wB = whole * Block
    OBVIOUS
  <2>10. wB \in Nat /\ n = part + wB + rest
    BY <2>2, <2>9, DigestSizes
  <2>11. \A i \in 1 .. Block : first[i] = all[qB + i]
    <3>1. ASSUME NEW i \in 1 .. Block PROVE first[i] = all[qB + i]
      <4>1. CASE i <= r
        BY <1>2, <1>14, <2>4, <4>1
      <4>2. CASE ~(i <= r)
        <5>1. PICK j : j = i - r
          OBVIOUS
        <5>2. j \in 1 .. n /\ L + j = qB + i
          BY <1>2, <1>6, <1>11, <2>2, <2>10, <4>2, <5>1, DigestSizes
        <5>3. first[i] = input[j]
          BY <2>4, <4>2, <5>1
        <5> QED BY <1>7, <5>2, <5>3
      <4> QED BY <4>1, <4>2
    <3> QED BY <3>1
  <2>12. ASSUME NEW k \in 1 .. whole, NEW i \in 1 .. Block
         PROVE  blocks[k][i] = all[qB + k * Block + i]
    <3>1. PICK j, l : j = k - 1 /\ l = whole - k
      OBVIOUS
    <3>2. j \in Nat /\ l \in Nat /\ whole = j + 1 + l /\ k = j + 1
      BY <2>2, <3>1
    <3>3. PICK jB, lB, kB : jB = j * Block /\ lB = l * Block /\ kB = k * Block
      OBVIOUS
    <3>4. jB \in Nat /\ lB \in Nat /\ wB = jB + Block + lB /\ kB = jB + Block
      BY <2>9, <3>2, <3>3, DigestSizes
    <3>5. PICK p : p = part + jB + i
      OBVIOUS
    <3>6. p \in 1 .. n /\ L + p = qB + kB + i
      BY <1>2, <1>6, <1>11, <2>2, <2>10, <3>4, <3>5, DigestSizes
    <3>7. blocks[k][i] = input[p]
      BY <2>5, <3>1, <3>3, <3>5
    <3> QED BY <1>7, <3>3, <3>6, <3>7
  <2>13. ASSUME NEW i \in 1 .. rest
         PROVE  d.buffer[i] = all[qB + Block + wB + i]
    <3>1. i \in 1 .. Block /\ i \in 0 + 1 .. 0 + rest /\ i - 0 = i
      BY <2>2, DigestSizes
    <3>2. d.buffer[i] = tail[i]
      BY <2>3, <2>8, <3>1 DEF Copied
    <3>3. PICK p : p = part + wB + i
      OBVIOUS
    <3>4. p \in 1 .. n /\ L + p = qB + Block + wB + i
      BY <1>2, <1>6, <1>11, <2>2, <2>10, <3>3, DigestSizes
    <3>5. tail[i] = input[p]
      BY <2>6, <2>9, <3>3
    <3> QED BY <1>7, <3>2, <3>4, <3>5
  <2>14. PICK q2, front : q2 = q + 1 + whole /\ front = c.state \o <<first>>
    OBVIOUS
  <2>15. /\ front \in Seq(Buffers) /\ Len(front) = q + 1
         /\ \A k \in 1 .. q : front[k] = c.state[k]
         /\ front[q + 1] = first
    <3>1. <<first>> \in Seq(Buffers) /\ Len(<<first>>) = 1 /\ <<first>>[1] = first
      BY <2>3
    <3>2. /\ front \in Seq(Buffers) /\ Len(front) = q + 1
          /\ \A k \in 1 .. q + 1 :
                front[k] = IF k <= q THEN c.state[k] ELSE <<first>>[k - q]
      BY <1>2, <1>12, <2>14, <3>1, ConcatProperties
    <3>3. PICK p : p = q + 1
      OBVIOUS
    <3>4. p \in 1 .. p /\ ~(p <= q) /\ p - q = 1
      BY <1>2, <3>3
    <3>5. front[p] = <<first>>[p - q]
      BY <3>2, <3>3, <3>4
    <3>6. front[q + 1] = first
      BY <3>1, <3>3, <3>4, <3>5
    <3> QED BY <1>2, <3>2, <3>6
  <2>16. /\ Len(d.state) = q2
         /\ \A k \in 1 .. q2 :
               d.state[k] = IF k <= q + 1 THEN front[k] ELSE blocks[k - (q + 1)]
    <3>1. d.state = front \o blocks
      BY <2>8, <2>14
    <3>2. /\ Len(front \o blocks) = Len(front) + Len(blocks)
          /\ \A k \in 1 .. Len(front) + Len(blocks) :
                (front \o blocks)[k] = IF k <= Len(front) THEN front[k] ELSE blocks[k - Len(front)]
      BY <2>3, <2>15, ConcatProperties
    <3> QED BY <2>3, <2>14, <2>15, <3>1, <3>2
  <2>17. q2 \in Nat /\ q2 * Block = qB + Block + wB
    BY <1>2, <1>10, <2>2, <2>9, <2>14, DigestSizes
  <2>18. ASSUME NEW k \in 1 .. q2, NEW i \in 1 .. Block
         PROVE  d.state[k][i] = all[(k - 1) * Block + i]
    <3>1. CASE k <= q
      <4>1. k \in 1 .. q /\ k <= q + 1
        BY <1>2, <3>1
      <4> QED BY <1>13, <2>15, <2>16, <4>1
    <3>2. CASE k = q + 1
      <4>1. (k - 1) * Block = qB
        BY <1>2, <1>10, <3>2
      <4>2. d.state[k] = first
        BY <1>2, <2>15, <2>16, <3>2
      <4> QED BY <2>11, <4>1, <4>2
    <3>3. CASE k > q + 1
      <4>1. PICK j : j = k - (q + 1)
        OBVIOUS
      <4>2. j \in 1 .. whole /\ k - 1 = q + j
        BY <1>2, <2>2, <2>14, <3>3, <4>1
      <4>3. (k - 1) * Block = qB + j * Block
        BY <1>2, <1>10, <4>2, DigestSizes
      <4>4. d.state[k] = blocks[j]
        BY <1>2, <2>16, <3>3, <4>1
      <4> QED BY <2>12, <4>2, <4>3, <4>4
    <3> QED BY <1>2, <2>17, <3>1, <3>2, <3>3
  <2>19. HoldsAt(d, all, q2, rest)
    <3>1. Len(all) = q2 * Block + rest
      BY <1>2, <1>6, <1>11, <2>2, <2>10, <2>17, DigestSizes
    <3>2. d.count = Count(Len(all))
      BY <1>6, <2>8
    <3>3. \A i \in 1 .. rest : d.buffer[i] = all[q2 * Block + i]
      BY <2>13, <2>17
    <3> QED BY <2>2, <2>16, <2>17, <2>18, <3>1, <3>2, <3>3 DEF HoldsAt
  <2> QED BY <1>5, <2>7, <2>19 DEF Holds
<1> QED BY <1>15, <1>16

LEMMA InputTyped ==
    ASSUME NEW n \in 0 .. MaxTotal
    PROVE  Input(n) \in Seq(Units) /\ Len(Input(n)) = n
<1>1. Input(n) \in [1 .. n -> Units] /\ n \in Nat
  BY DigestSizes DEF Input, Units
<1> QED BY <1>1

LEMMA PadLenIs ==
    ASSUME NEW index \in Nat, index < Block
    PROVE  /\ PadLen(index) \in Nat \ {0} /\ PadLen(index) <= Block
           /\ \/ index < Block - 2 /\ index + PadLen(index) = Block - 2
              \/ ~(index < Block - 2) /\ index + PadLen(index) = 2 * Block - 2
BY DigestSizes DEF PadLen

LEMMA PaddingTyped ==
    ASSUME NEW n \in Nat
    PROVE  Padding(n) \in Seq(Units) /\ Len(Padding(n)) = n
<1>1. Padding(n) \in [1 .. n -> Units]
  BY DEF Padding, Units
<1> QED BY <1>1

LEMMA EncodedTyped ==
    ASSUME NEW count \in [1 .. 2 -> 0 .. WordSize - 1]
    PROVE  Encoded(count) \in Seq(Units) /\ Len(Encoded(count)) = 2
<1>1. count[1] \in 0 .. WordSize - 1 /\ count[2] \in 0 .. WordSize - 1
  OBVIOUS
<1>2. <<"low", count[1]>> \in Units /\ <<"high", count[2]>> \in Units
  BY <1>1 DEF Units
<1> QED BY <1>2 DEF Encoded

LEMMA PaddedTyped ==
    ASSUME NEW c \in Contexts
    PROVE  Padded(c) \in Contexts
<1>1. Padding(PadLen(Index(c))) \in Seq(Units)
  BY IndexTyped, PadLenIs, PaddingTyped
<1>2. Updated(c, Padding(PadLen(Index(c)))) \in Contexts
  BY <1>1, UpdatedTyped
<1>3. Encoded(c.count) \in Seq(Units)
  BY EncodedTyped DEF Contexts
<1> QED BY <1>2, <1>3, UpdatedTyped DEF Padded

\* What final() has given the context when it is done
Whole(c, n) == Input(n) \o Padding(PadLen(Index(c))) \o Encoded(c.count)

LEMMA PaddedHolds ==
    ASSUME NEW c \in Contexts, NEW n \in 0 .. MaxTotal, Holds(c, Input(n))
    PROVE  /\ Holds(Padded(c), Whole(c, n)) /\ Whole(c, n) \in Seq(Units)
           /\ Len(Whole(c, n)) = n + PadLen(Index(c)) + 2
           /\ Holds(Updated(c, Padding(PadLen(Index(c)))), Input(n) \o Padding(PadLen(Index(c))))
           /\ Len(Input(n) \o Padding(PadLen(Index(c)))) = n + PadLen(Index(c))
<1>1. PICK p, pads, in, mid, enc, d :
         /\ p = PadLen(Index(c)) /\ pads = Padding(p) /\ in = Input(n) /\ mid = in \o pads
         /\ enc = Encoded(c.count) /\ d = Updated(c, pads)
  OBVIOUS
<1>2. p \in Nat
  BY <1>1, IndexTyped, PadLenIs
<1>3. pads \in Seq(Units) /\ Len(pads) = p
  BY <1>1, <1>2, PaddingTyped
<1>4. in \in Seq(Units) /\ Len(in) = n
  BY <1>1, InputTyped
<1>5. enc \in Seq(Units) /\ Len(enc) = 2
  BY <1>1, EncodedTyped DEF Contexts
<1>6. mid \in Seq(Units) /\ Len(mid) = n + p
  <2>1. in \o pads \in Seq(Units) /\ Len(in \o pads) = Len(in) + Len(pads)
    BY <1>3, <1>4, ConcatProperties
  <2> QED BY <1>1, <1>3, <1>4, <2>1
<1>7. d \in Contexts
  BY <1>1, <1>3, UpdatedTyped
<1>8. Holds(d, mid)
  <2>1. Holds(c, in)
    BY <1>1
  <2>2. Holds(Updated(c, pads), in \o pads)
    BY <1>3, <1>4, <2>1, UpdatedHolds
  <2> QED BY <1>1, <2>2
<1>9. Holds(Updated(d, enc), mid \o enc)
  BY <1>5, <1>6, <1>7, <1>8, UpdatedHolds
<1>10. mid \o enc \in Seq(Units) /\ Len(mid \o enc) = n + p + 2
  <2>1. mid \o enc \in Seq(Units) /\ Len(mid \o enc) = Len(mid) + Len(enc)
    BY <1>5, <1>6, ConcatProperties
  <2> QED BY <1>5, <1>6, <2>1
<1>11. Padded(c) = Updated(d, enc) /\ Whole(c, n) = mid \o enc
  BY <1>1 DEF Padded, Whole
<1> QED BY <1>1, <1>6, <1>8, <1>9, <1>10, <1>11

(***************************************************************************)
(* PADDING has the fewest zeros that leave room for the count: what final()*)
(* hashes is the padded message.                                           *)
(***************************************************************************)
LEMMA OneMultiple ==
    ASSUME NEW s \in Nat, NEW x \in 0 .. Block - 1, NEW y \in 0 .. Block - 1,
           (s + x) % Block = 0, (s + y) % Block = 0
    PROVE  x = y
<1>1. PICK B, u, v, a, b : /\ B = Block /\ u = s + x /\ v = s + y
                           /\ a = u \div B /\ b = v \div B
  OBVIOUS
<1>2. B \in Nat \ {0} /\ u \in Nat /\ v \in Nat
  BY <1>1, DigestSizes
<1>3. u % B = 0 /\ v % B = 0
  BY <1>1
<1>4. a \in Nat /\ u = a * B + 0
  BY <1>1, <1>2, <1>3, Quotient
<1>5. b \in Nat /\ v = b * B + 0
  BY <1>1, <1>2, <1>3, Quotient
<1>6. PICK aB, bB : aB = a * B /\ bB = b * B
  OBVIOUS
<1>7. ASSUME NEW i \in Nat, NEW j \in Nat, i < j PROVE i * B + B <= j * B
  <2>1. PICK k : k = j - i - 1
    OBVIOUS
  <2>2. k \in Nat /\ j = i + 1 + k
    BY <1>7, <2>1
  <2>3. PICK iB, kB, jB : iB = i * B /\ kB = k * B /\ jB = j * B
    OBVIOUS
  <2>4. kB \in Nat /\ iB \in Nat /\ jB = iB + B + kB
    BY <1>2, <2>2, <2>3
  <2>5. iB + B <= jB
    BY <1>2, <2>4
  <2> QED BY <2>3, <2>5
<1>8. aB \in Nat /\ bB \in Nat /\ u = aB /\ v = bB
  BY <1>2, <1>4, <1>5, <1>6
<1>9. ~(a < b)
  <2>1. ASSUME a < b PROVE FALSE
    <3>1. aB + B <= bB
      BY <1>4, <1>5, <1>6, <1>7, <2>1
    <3> QED BY <1>1, <1>2, <1>8, <3>1
  <2> QED BY <2>1
<1>10. ~(b < a)
  <2>1. ASSUME b < a PROVE FALSE
    <3>1. bB + B <= aB
      BY <1>4, <1>5, <1>6, <1>7, <2>1
    <3> QED BY <1>1, <1>2, <1>8, <3>1
  <2> QED BY <2>1
<1>11. a = b
  BY <1>4, <1>5, <1>9, <1>10
<1>12. u = v
  BY <1>4, <1>5, <1>11
<1> QED BY <1>1, <1>12

LEMMA WholeIsMessage ==
    ASSUME NEW c \in Contexts, NEW n \in 0 .. MaxTotal, Holds(c, Input(n))
    PROVE  /\ Whole(c, n) = Message(n)
           /\ \E q \in Nat : n + PadLen(Index(c)) + 2 = q * Block
<1>1. PICK q, r : HoldsAt(c, Input(n), q, r)
  BY DEF Holds
<1>2. n \in Nat /\ Input(n) \in Seq(Units) /\ Len(Input(n)) = n
  BY InputTyped, DigestSizes
<1>3. /\ q \in Nat /\ r \in Nat /\ r < Block /\ n = q * Block + r /\ c.count = Count(n)
      /\ Index(c) = r
  BY <1>1, <1>2, IndexOf DEF HoldsAt
<1>4. PICK p : p = PadLen(Index(c))
  OBVIOUS
<1>5. /\ p \in Nat \ {0} /\ p <= Block
      /\ r + p = Block - 2 \/ r + p = 2 * Block - 2
  BY <1>3, <1>4, PadLenIs
<1>6. \E h \in Nat : n + p + 2 = h * Block
  <2>1. PICK qB, B : qB = q * Block /\ B = Block
    OBVIOUS
  <2>2. qB \in Nat /\ n = qB + r /\ B \in Nat \ {0}
    BY <1>3, <2>1, DigestSizes
  <2>3. CASE r + p = Block - 2
    <3>1. n + p + 2 = qB + B
      BY <1>3, <1>5, <2>1, <2>2, <2>3
    <3>2. (q + 1) * B = qB + B /\ q + 1 \in Nat
      BY <1>3, <2>1, <2>2
    <3> QED BY <2>1, <3>1, <3>2
  <2>4. CASE r + p = 2 * Block - 2
    <3>1. n + p + 2 = qB + 2 * B
      BY <1>3, <1>5, <2>1, <2>2, <2>4
    <3>2. (q + 2) * B = qB + 2 * B /\ q + 2 \in Nat
      BY <1>3, <2>1, <2>2
    <3> QED BY <2>1, <3>1, <3>2
  <2> QED BY <1>5, <2>3, <2>4
<1>7. PICK zeros : zeros = CHOOSE z \in 0 .. Block - 1 : (n + 1 + z + LengthSize) % Block = 0
  OBVIOUS
<1>8. zeros = p - 1
  <2>1. PICK h \in Nat : n + p + 2 = h * Block
    BY <1>6
  <2>2. PICK y, s : y = p - 1 /\ s = n + 3
    OBVIOUS
  <2>3. y \in 0 .. Block - 1 /\ s \in Nat /\ s + y = n + p + 2
    BY <1>2, <1>5, <2>2, DigestSizes
  <2>4. (s + y) % Block = 0
    <3>1. PICK sum : sum = s + y
      OBVIOUS
    <3>2. sum = h * Block + 0 /\ 0 \in Nat /\ 0 < Block
      BY <2>1, <2>3, <3>1, DigestSizes
    <3>3. sum % Block = 0
      BY <3>2, OneQuotient, DigestSizes
    <3> QED BY <3>1, <3>3
  <2>5. \A z \in 0 .. Block - 1 : n + 1 + z + LengthSize = s + z
    BY <1>2, <2>2, DigestSizes
  <2>6. zeros = CHOOSE z \in 0 .. Block - 1 : (s + z) % Block = 0
    BY <1>7, <2>5
  <2>7. zeros \in 0 .. Block - 1 /\ (s + zeros) % Block = 0
    BY <2>3, <2>4, <2>6
  <2>8. zeros = y
    BY <2>3, <2>4, <2>7, OneMultiple
  <2> QED BY <2>2, <2>8
<1>9. PICK one, rest, in, pads :
         /\ one = <<<<"pad", 1>>>> /\ rest = [i \in 1 .. zeros |-> <<"pad", 0>>]
         /\ in = Input(n) /\ pads = Padding(p)
  OBVIOUS
<1>10. one \in Seq(Units) /\ Len(one) = 1 /\ one[1] = <<"pad", 1>>
  <2>1. <<"pad", 1>> \in Units
    BY DEF Units
  <2> QED BY <1>9, <2>1
<1>11. /\ rest \in Seq(Units) /\ Len(rest) = zeros /\ zeros \in Nat
       /\ \A i \in 1 .. zeros : rest[i] = <<"pad", 0>>
  <2>1. zeros \in Nat
    BY <1>5, <1>8
  <2>2. rest \in [1 .. zeros -> Units]
    BY <1>9 DEF Units
  <2>3. rest \in Seq(Units) /\ Len(rest) = zeros
    BY <2>1, <2>2
  <2>4. \A i \in 1 .. zeros : rest[i] = <<"pad", 0>>
    BY <1>9
  <2> QED BY <2>1, <2>3, <2>4
<1>12. in \o one \o rest = in \o pads
  <2>1. in \in Seq(Units) /\ Len(in) = n
    BY <1>2, <1>9
  <2>2. pads \in Seq(Units) /\ Len(pads) = p
    BY <1>5, <1>9, PaddingTyped
  <2>3. PICK over, both, right : over = in \o one /\ both = over \o rest /\ right = in \o pads
    OBVIOUS
  <2>4. /\ over \in Seq(Units) /\ Len(over) = n + 1
        /\ \A i \in 1 .. n + 1 : over[i] = IF i <= n THEN in[i] ELSE one[i - n]
    <3>1. /\ in \o one \in Seq(Units) /\ Len(in \o one) = Len(in) + Len(one)
          /\ \A i \in 1 .. Len(in) + Len(one) :
                (in \o one)[i] = IF i <= Len(in) THEN in[i] ELSE one[i - Len(in)]
      BY <1>10, <2>1, ConcatProperties
    <3> QED BY <1>10, <2>1, <2>3, <3>1
  <2>5. /\ both \in Seq(Units) /\ Len(both) = n + 1 + zeros
        /\ \A i \in 1 .. n + 1 + zeros :
              both[i] = IF i <= n + 1 THEN over[i] ELSE rest[i - (n + 1)]
    <3>1. /\ over \o rest \in Seq(Units) /\ Len(over \o rest) = Len(over) + Len(rest)
          /\ \A i \in 1 .. Len(over) + Len(rest) :
                (over \o rest)[i] = IF i <= Len(over) THEN over[i] ELSE rest[i - Len(over)]
      BY <1>11, <2>4, ConcatProperties
    <3> QED BY <1>11, <2>3, <2>4, <3>1
  <2>6. /\ right \in Seq(Units) /\ Len(right) = n + p
        /\ \A i \in 1 .. n + p : right[i] = IF i <= n THEN in[i] ELSE pads[i - n]
    BY <2>1, <2>2, <2>3, ConcatProperties
  <2>7. Len(both) = n + p
    BY <1>2, <1>5, <1>8, <2>5
  <2>8. ASSUME NEW i \in 1 .. n + p PROVE both[i] = right[i]
    <3>1. n \in Nat /\ p \in Nat /\ i \in 1 .. n + 1 + zeros /\ zeros = p - 1
      BY <1>2, <1>5, <1>8
    <3>2. \A j \in 1 .. p : pads[j] = <<"pad", IF j = 1 THEN 1 ELSE 0>>
      BY <1>9 DEF Padding
    <3>3. CASE i <= n
      <4>1. i \in 1 .. n + 1 /\ i <= n + 1
        BY <3>1, <3>3
      <4> QED BY <2>4, <2>5, <2>6, <3>1, <3>3, <4>1
    <3>4. CASE i = n + 1
      <4>1. i \in 1 .. n + 1 /\ i <= n + 1 /\ ~(i <= n) /\ i - n = 1 /\ 1 \in 1 .. p
        BY <1>5, <3>1, <3>4
      <4>2. both[i] = <<"pad", 1>>
        BY <1>10, <2>4, <2>5, <3>1, <4>1
      <4>3. right[i] = pads[1]
        BY <2>6, <4>1
      <4> QED BY <3>2, <4>1, <4>2, <4>3
    <3>5. CASE i > n + 1
      <4>1. PICK j, k : j = i - (n + 1) /\ k = i - n
        OBVIOUS
      <4>2. /\ ~(i <= n + 1) /\ ~(i <= n) /\ j \in 1 .. zeros /\ k \in 1 .. p /\ k # 1
        BY <3>1, <3>5, <4>1
      <4>3. both[i] = <<"pad", 0>>
        BY <1>11, <2>5, <3>1, <4>1, <4>2
      <4>4. right[i] = pads[k]
        BY <2>6, <4>1, <4>2
      <4> QED BY <3>2, <4>2, <4>3, <4>4
    <3> QED BY <3>1, <3>3, <3>4, <3>5
  <2>9. both = right
    BY <2>5, <2>6, <2>7, <2>8, SeqEqual
  <2> QED BY <2>3, <2>9
<1>13. Encoded(c.count)
         = <<<<"low", (n * Unit) % WordSize>>, <<"high", ((n * Unit) \div WordSize) % WordSize>>>>
  BY <1>3 DEF Encoded, Count
<1>14. Message(n) = in \o one \o rest \o Encoded(c.count)
  BY <1>7, <1>9, <1>13 DEF Message
<1> QED BY <1>4, <1>6, <1>9, <1>12, <1>14 DEF Whole

(***************************************************************************)
(* final() computes the digest of the message, and leaves the input in the *)
(* buffer when the last block had room for the count.                      *)
(***************************************************************************)
LEMMA FinalIs ==
    ASSUME NEW c \in Contexts, NEW n \in 0 .. MaxTotal, Holds(c, Input(n))
    PROVE  Padded(c).state = Reference(n)
<1>1. PICK m, d : m = Message(n) /\ d = Padded(c)
  OBVIOUS
<1>2. m = Whole(c, n) /\ \E q \in Nat : n + PadLen(Index(c)) + 2 = q * Block
  BY <1>1, WholeIsMessage
<1>3. Holds(d, m) /\ m \in Seq(Units) /\ Len(m) = n + PadLen(Index(c)) + 2
  BY <1>1, <1>2, PaddedHolds
<1>4. PICK q \in Nat : Len(m) = q * Block
  BY <1>2, <1>3
<1>5. PICK whole, rest : HoldsAt(d, m, whole, rest)
  BY <1>3 DEF Holds
<1>6. /\ whole \in Nat /\ rest \in Nat /\ rest < Block /\ Len(m) = whole * Block + rest
      /\ Len(d.state) = whole
      /\ \A k \in 1 .. whole : \A i \in 1 .. Block : d.state[k][i] = m[(k - 1) * Block + i]
  BY <1>5 DEF HoldsAt
<1>7. Len(m) \div Block = whole
  <2>1. PICK B, L : B = Block /\ L = Len(m)
    OBVIOUS
  <2>2. B \in Nat \ {0} /\ rest < B /\ L = whole * B + rest
    BY <1>6, <2>1, DigestSizes
  <2>3. L \div B = whole
    <3>1. whole \in Nat /\ rest \in Nat
      BY <1>6
    <3> QED BY <2>2, <3>1, OneQuotient
  <2> QED BY <2>1, <2>3
<1>8. d.state \in Seq(Buffers)
  BY <1>1, PaddedTyped DEF Contexts
<1>9. ASSUME NEW k \in 1 .. whole
      PROVE  d.state[k] = SubSeq(m, (k - 1) * Block + 1, k * Block)
  <2>1. PICK part : part = 0
    OBVIOUS
  <2>2. part \in Nat /\ part <= Len(m) /\ whole = (Len(m) - part) \div Block
    <3>1. Len(m) \in Nat /\ Len(m) - part = Len(m)
      BY <1>3, <2>1, LenProperties
    <3> QED BY <1>7, <2>1, <3>1
  <2>3. PICK over : CutUp(m, part, whole, over)
    BY <1>3, <2>2, Cut
  <2>4. PICK s, jB, kB : jB = (k - 1) * Block /\ kB = k * Block /\ s = SubSeq(m, jB + 1, kB)
    OBVIOUS
  <2>5. jB \in Int /\ kB \in Int
    BY <1>6, <2>4, DigestSizes
  <2>6. s = SubSeq(m, part + jB + 1, part + kB)
    <3>1. PICK x, y : x = part + jB + 1 /\ y = part + kB
      OBVIOUS
    <3>2. x = jB + 1 /\ y = kB
      BY <2>1, <2>5, <3>1
    <3>3. s = SubSeq(m, x, y)
      BY <2>4, <3>2
    <3> QED BY <3>1, <3>3
  <2>7. s \in Buffers /\ \A i \in 1 .. Block : s[i] = m[part + jB + i]
    BY <2>3, <2>4, <2>6 DEF CutUp
  <2>8. \A i \in 1 .. Block : s[i] = m[jB + i]
    BY <2>1, <2>5, <2>7
  <2>9. d.state[k] \in Buffers
    BY <1>6, <1>8, ElementOfSeq
  <2>10. \A i \in 1 .. Block : d.state[k][i] = s[i]
    BY <1>6, <2>4, <2>8
  <2>11. d.state[k] = s
    <3>1. PICK x : x = d.state[k]
      OBVIOUS
    <3>2. x \in [1 .. Block -> Units] /\ s \in [1 .. Block -> Units]
      BY <2>7, <2>9, <3>1 DEF Buffers
    <3>3. \A i \in 1 .. Block : x[i] = s[i]
      BY <2>10, <3>1
    <3>4. x = [i \in 1 .. Block |-> x[i]] /\ s = [i \in 1 .. Block |-> s[i]]
      BY <3>2
    <3>5. x = s
      BY <3>3, <3>4
    <3> QED BY <3>1, <3>5
  <2> QED BY <2>4, <2>11
<1>10. d.state \in [1 .. whole -> Buffers]
  BY <1>6, <1>8, LenProperties
<1>11. d.state = [k \in 1 .. whole |-> SubSeq(m, (k - 1) * Block + 1, k * Block)]
  BY <1>9, <1>10
<1>12. Reference(n) = [k \in 1 .. whole |-> SubSeq(m, (k - 1) * Block + 1, k * Block)]
  BY <1>1, <1>7 DEF Reference
<1> QED BY <1>1, <1>11, <1>12

LEMMA FinalKeeps ==
    ASSUME NEW c \in Contexts, NEW n \in 0 .. MaxTotal, Holds(c, Input(n)),
           Index(c) < Block - LengthSize
    PROVE  \A i \in 1 .. Index(c) : Padded(c).buffer[i] = c.buffer[i]
<1>1. PICK r, p, pads, d, enc :
         /\ r = Index(c) /\ p = PadLen(r) /\ pads = Padding(p) /\ d = Updated(c, pads)
         /\ enc = Encoded(c.count)
  OBVIOUS
<1>2. r \in Nat /\ r < Block /\ r < Block - 2
  BY <1>1, IndexTyped, DigestSizes
<1>3. p \in Nat /\ r + p = Block - 2
  BY <1>1, <1>2, PadLenIs
<1>4. pads \in Seq(Units) /\ Len(pads) = p
  BY <1>1, <1>3, PaddingTyped
<1>5. enc \in Seq(Units) /\ Len(enc) = 2
  BY <1>1, EncodedTyped DEF Contexts
<1>6. d \in Contexts
  BY <1>1, <1>4, UpdatedTyped
<1>7. \A i \in 1 .. r : d.buffer[i] = c.buffer[i]
  <2>1. ~Fills(Len(pads), Block - Index(c))
    BY <1>1, <1>2, <1>3, <1>4, DigestSizes DEF Fills
  <2>2. d = [c EXCEPT !.count = Counted(c.count, Len(pads)), !.finished = FALSE,
                      !.buffer = Copied(c.buffer, r, pads)]
    BY <1>1, <2>1 DEF Updated
  <2>3. d.buffer = Copied(c.buffer, r, pads)
    BY <2>2 DEF Contexts
  <2>4. ASSUME NEW i \in 1 .. r PROVE d.buffer[i] = c.buffer[i]
    <3>1. i \in 1 .. Block /\ ~(i \in r + 1 .. r + Len(pads))
      BY <1>2, <1>3, <1>4, DigestSizes
    <3> QED BY <2>3, <3>1 DEF Copied
  <2> QED BY <2>4
<1>8. Index(d) = Block - 2
  <2>1. PICK q, s : HoldsAt(c, Input(n), q, s)
    BY DEF Holds
  <2>2. q \in Nat /\ s = r /\ n = q * Block + r
    BY <1>1, <2>1, InputTyped, IndexOf DEF HoldsAt
  <2>3. PICK mid : mid = Input(n) \o pads
    OBVIOUS
  <2>4. Holds(d, mid) /\ Len(mid) = n + p
    BY <1>1, <2>3, PaddedHolds
  <2>5. d.count = Count(Len(mid))
    BY <2>4 DEF Holds, HoldsAt
  <2>6. PICK z : z = Block - 2
    OBVIOUS
  <2>7. z \in Nat /\ z < Block
    BY <2>6, DigestSizes
  <2>8. Len(mid) = q * Block + z
    <3>1. PICK qB : qB = q * Block
      OBVIOUS
    <3>2. qB \in Nat /\ n = qB + r
      BY <2>2, <3>1, DigestSizes
    <3>3. Len(mid) = n + p /\ z = r + p
      BY <1>3, <2>4, <2>6
    <3>4. n + p = qB + (r + p)
      BY <1>2, <1>3, <3>2
    <3> QED BY <3>1, <3>3, <3>4
  <2>9. Index(d) = z
    BY <2>2, <2>5, <2>7, <2>8, IndexOf
  <2> QED BY <2>6, <2>9
<1>9. Fills(Len(enc), Block - Index(d))
  BY <1>5, <1>8, DigestSizes DEF Fills
<1>10. PICK index, part, whole, rest, first, blocks, tail :
            FilledUp(d, enc, index, part, whole, rest, first, blocks, tail)
  BY <1>5, <1>6, <1>9, Filled
<1>11. /\ index = Index(d) /\ part = Block - index /\ whole \in Nat /\ rest \in Nat
       /\ Len(enc) = part + whole * Block + rest /\ Len(tail) = rest
       /\ \A i \in 1 .. Block :
              first[i] = IF i <= index THEN d.buffer[i] ELSE enc[i - index]
  BY <1>10 DEF FilledUp
<1>12. rest = 0
  <2>1. PICK wB : wB = whole * Block
    OBVIOUS
  <2>2. wB \in Nat
    BY <1>11, <2>1, DigestSizes
  <2>3. part = 2
    <3>1. part = Block - (Block - 2)
      BY <1>8, <1>11
    <3> QED BY <3>1, DigestSizes
  <2>4. 2 = part + wB + rest
    BY <1>5, <1>11, <2>1
  <2> QED BY <1>11, <2>2, <2>3, <2>4
<1>13. Padded(c).buffer = Copied(first, 0, tail)
  <2>1. Padded(c) = Updated(d, enc)
    BY <1>1 DEF Padded
  <2>2. Updated(d, enc).buffer = Copied(first, 0, tail)
    BY <1>10 DEF FilledUp
  <2> QED BY <2>1, <2>2
<1>14. ASSUME NEW i \in 1 .. r PROVE Padded(c).buffer[i] = c.buffer[i]
  <2>1. i \in 1 .. Block /\ ~(i \in 0 + 1 .. 0 + Len(tail)) /\ i <= index
    BY <1>2, <1>8, <1>11, <1>12, DigestSizes
  <2>2. Padded(c).buffer[i] = first[i]
    BY <1>13, <2>1 DEF Copied
  <2>3. first[i] = d.buffer[i]
    BY <1>11, <2>1
  <2> QED BY <1>7, <2>2, <2>3
<1> QED BY <1>1, <1>14

(***************************************************************************)
(* The inductive invariant: as long as no c_str() overwrote it, the        *)
(* context holds what was updated since the last reset.                    *)
(***************************************************************************)
DigestInv ==
    /\ DigestTypeOK
    /\ context \in Contexts
    /\ ~spoiled => Holds(context, Input(total))
    /\ DigestOfInput

LEMMA ClearedHolds ==
    ASSUME NEW buffer \in Buffers
    PROVE  Cleared(buffer) \in Contexts /\ Holds(Cleared(buffer), Input(0))
<1>1. PICK c, W : c = Cleared(buffer) /\ W = WordSize
  OBVIOUS
<1>2. W \in Nat \ {0} /\ WordSize = W
  BY <1>1, DigestSizes
<1>3. Count(0) = <<0, 0>>
  <2>1. 0 \in Nat /\ 0 < W
    BY <1>2
  <2>2. 0 \div W = 0 /\ 0 % W = 0
    BY <1>2, <2>1, SmallRemainder
  <2>3. 0 * Unit = 0
    BY DigestSizes
  <2> QED BY <1>2, <2>2, <2>3 DEF Count
<1>4. /\ c.state = <<>> /\ c.count = <<0, 0>> /\ c.buffer = buffer
      /\ c = [state |-> <<>>, count |-> <<0, 0>>, buffer |-> buffer, finished |-> FALSE]
  BY <1>1 DEF Cleared
<1>5. c \in Contexts
  <2>1. <<0, 0>> \in [1 .. 2 -> 0 .. WordSize - 1]
    BY <1>2
  <2>2. <<>> \in Seq(Buffers)
    BY EmptySeq
  <2> QED BY <1>4, <2>1, <2>2 DEF Contexts
<1>6. HoldsAt(c, Input(0), 0, 0)
  <2>1. Len(Input(0)) = 0
    BY InputTyped, DigestSizes
  <2>2. 0 = 0 * Block + 0 /\ 0 < Block
    BY DigestSizes
  <2>3. Len(c.state) = 0
    BY <1>4
  <2> QED BY <1>3, <1>4, <2>1, <2>2, <2>3 DEF HoldsAt
<1> QED BY <1>1, <1>5, <1>6 DEF Holds

LEMMA InitDigest == DigestInit => DigestInv
<1> SUFFICES ASSUME DigestInit PROVE DigestInv
  OBVIOUS
<1>1. PICK buffer : buffer = [i \in 1 .. Block |-> <<"junk", 0>>]
  OBVIOUS
<1>2. buffer \in Buffers
  BY <1>1 DEF Buffers, Units
<1>3. context = Cleared(buffer)
  BY <1>1 DEF DigestInit
<1>4. /\ total = 0 /\ spoiled = FALSE
      /\ answer = [of |-> 0, digest |-> Padded(context).state, sound |-> TRUE]
  BY DEF DigestInit
<1>5. context \in Contexts /\ Holds(context, Input(0))
  BY <1>2, <1>3, ClearedHolds
<1>6. 0 \in 0 .. MaxTotal
  BY DigestSizes
<1>7. Padded(context).state = Reference(0)
  BY <1>5, <1>6, FinalIs
<1>8. Padded(context).state \in Seq(Buffers)
  BY <1>5, PaddedTyped DEF Contexts
<1>9. answer.of = 0 /\ answer.digest = Padded(context).state /\ answer.sound = TRUE
  BY <1>4
<1>10. DigestTypeOK
  BY <1>4, <1>5, <1>6, <1>8, <1>9 DEF DigestTypeOK, Contexts
<1>11. DigestOfInput
  BY <1>7, <1>9 DEF DigestOfInput
<1> QED BY <1>4, <1>5, <1>10, <1>11 DEF DigestInv

LEMMA ResetKeeps == DigestInv /\ Reset => DigestInv'
<1> SUFFICES ASSUME DigestInv, Reset PROVE DigestInv'
  OBVIOUS
<1>1. PICK c : c = Cleared(context.buffer)
  OBVIOUS
<1>2. /\ context' = c /\ total' = 0 /\ spoiled' = FALSE /\ answer' = answer
  BY <1>1 DEF Reset
<1>3. context.buffer \in Buffers
  BY DEF DigestInv, DigestTypeOK
<1>4. c \in Contexts /\ Holds(c, Input(0))
  BY <1>1, <1>3, ClearedHolds
<1>5. DigestTypeOK'
  <2>1. total' \in 0 .. MaxTotal /\ spoiled' \in BOOLEAN
    <3>1. total' = 0 /\ spoiled' = FALSE
      BY <1>2
    <3>2. 0 \in 0 .. MaxTotal
      BY DigestSizes
    <3> QED BY <3>1, <3>2
  <2>2. answer.of \in 0 .. MaxTotal /\ answer.digest \in Seq(Buffers) /\ answer.sound \in BOOLEAN
    BY DEF DigestInv, DigestTypeOK
  <2>3. /\ context'.state \in Seq(Buffers) /\ context'.count \in [1 .. 2 -> 0 .. WordSize - 1]
        /\ context'.buffer \in Buffers /\ context'.finished \in BOOLEAN
    BY <1>2, <1>4 DEF Contexts
  <2> QED BY <1>2, <2>1, <2>2, <2>3 DEF DigestTypeOK
<1>6. DigestOfInput'
  BY <1>2 DEF DigestInv, DigestOfInput
<1>7. (~spoiled => Holds(context, Input(total)))'
  BY <1>2, <1>4
<1>8. (context \in Contexts)'
  BY <1>2, <1>4 DEF Contexts
<1> QED BY <1>5, <1>6, <1>7, <1>8 DEF DigestInv

LEMMA UpdateKeeps == DigestInv /\ (\E n \in 0 .. MaxLength : Update(n)) => DigestInv'
<1> SUFFICES ASSUME DigestInv, NEW n \in 0 .. MaxLength, Update(n) PROVE DigestInv'
  OBVIOUS
<1>1. PICK input, c, t : /\ input = [i \in 1 .. n |-> <<"in", total + i>>]
                         /\ c = Updated(context, input) /\ t = total + n
  OBVIOUS
<1>2. /\ t <= MaxTotal /\ context' = c /\ total' = t /\ spoiled' = spoiled /\ answer' = answer
  BY <1>1 DEF Update
<1>3. context \in Contexts /\ total \in 0 .. MaxTotal /\ (~spoiled => Holds(context, Input(total)))
  BY DEF DigestInv, DigestTypeOK
<1>4. n \in Nat /\ total \in Nat /\ t \in 0 .. MaxTotal
  BY <1>1, <1>2, <1>3, DigestSizes
<1>5. input \in Seq(Units) /\ Len(input) = n
  <2>1. \A i \in 1 .. n : total + i \in 1 .. MaxTotal
    BY <1>1, <1>2, <1>4, DigestSizes
  <2>2. input \in [1 .. n -> Units]
    BY <1>1, <2>1 DEF Units
  <2> QED BY <1>4, <2>2
<1>6. c \in Contexts
  BY <1>1, <1>3, <1>5, UpdatedTyped
<1>7. Input(total) \o input = Input(t)
  <2>1. PICK old, new, both : old = Input(total) /\ new = Input(t) /\ both = old \o input
    OBVIOUS
  <2>2. /\ old \in Seq(Units) /\ Len(old) = total
        /\ \A i \in 1 .. total : old[i] = <<"in", i>>
    BY <1>3, <2>1, InputTyped DEF Input
  <2>3. new \in Seq(Units) /\ Len(new) = t
    BY <1>4, <2>1, InputTyped
  <2>4. \A i \in 1 .. t : new[i] = <<"in", i>>
    BY <2>1 DEF Input
  <2>5. /\ old \o input \in Seq(Units) /\ Len(old \o input) = Len(old) + Len(input)
        /\ \A i \in 1 .. Len(old) + Len(input) :
              (old \o input)[i] = IF i <= Len(old) THEN old[i] ELSE input[i - Len(old)]
    BY <1>5, <2>2, ConcatProperties
  <2>6. /\ both \in Seq(Units) /\ Len(both) = t
        /\ \A i \in 1 .. t : both[i] = IF i <= total THEN old[i] ELSE input[i - total]
    BY <1>1, <1>5, <2>1, <2>2, <2>5
  <2>7. ASSUME NEW i \in 1 .. t PROVE both[i] = new[i]
    <3>1. CASE i <= total
      <4>1. i \in 1 .. total
        BY <1>4, <3>1
      <4> QED BY <2>2, <2>4, <2>6, <3>1, <4>1
    <3>2. CASE ~(i <= total)
      <4>1. PICK j : j = i - total
        OBVIOUS
      <4>2. j \in 1 .. n /\ total + j = i
        BY <1>1, <1>4, <3>2, <4>1
      <4>3. input[j] = <<"in", i>>
        BY <1>1, <4>2
      <4>4. both[i] = input[j]
        BY <2>6, <3>2, <4>1
      <4> QED BY <2>4, <4>3, <4>4
    <3> QED BY <3>1, <3>2
  <2>8. both = new
    BY <2>3, <2>6, <2>7, SeqEqual
  <2> QED BY <2>1, <2>8
<1>8. ASSUME ~spoiled PROVE Holds(c, Input(t))
  <2>1. Input(total) \in Seq(Units) /\ Holds(context, Input(total))
    BY <1>3, <1>8, InputTyped
  <2>2. Holds(Updated(context, input), Input(total) \o input)
    BY <1>3, <1>5, <2>1, UpdatedHolds
  <2> QED BY <1>1, <1>7, <2>2
<1>9. DigestTypeOK'
  BY <1>2, <1>4, <1>6 DEF DigestInv, DigestTypeOK, Contexts
<1>10. DigestOfInput'
  BY <1>2 DEF DigestInv, DigestOfInput
<1>11. (~spoiled => Holds(context, Input(total)))'
  BY <1>2, <1>8
<1>12. (context \in Contexts)'
  BY <1>2, <1>6 DEF Contexts
<1> QED BY <1>9, <1>10, <1>11, <1>12 DEF DigestInv

LEMMA CStrKeeps == DigestInv /\ CStr => DigestInv'
<1> SUFFICES ASSUME DigestInv, CStr PROVE DigestInv'
  OBVIOUS
<1>1. PICK c, padded : c = [context EXCEPT !.finished = TRUE] /\ padded = Padded(c)
  OBVIOUS
<1>2. /\ context' = [padded EXCEPT !.state = context.state, !.count = context.count]
      /\ answer' = [of |-> total, digest |-> padded.state, sound |-> ~spoiled]
      /\ spoiled' = (spoiled \/ Index(context) >= Block - LengthSize) /\ total' = total
  BY <1>1 DEF CStr
<1>3. /\ context \in Contexts /\ total \in 0 .. MaxTotal /\ spoiled \in BOOLEAN
      /\ (~spoiled => Holds(context, Input(total)))
  BY DEF DigestInv, DigestTypeOK
<1>4. /\ c \in Contexts /\ c.state = context.state /\ c.count = context.count
      /\ c.buffer = context.buffer
  BY <1>1, <1>3 DEF Contexts
<1>5. Index(c) = Index(context)
  BY <1>4 DEF Index
<1>6. padded \in Contexts
  BY <1>1, <1>4, PaddedTyped
<1>7. PICK d : d = [padded EXCEPT !.state = context.state, !.count = context.count]
  OBVIOUS
<1>8. /\ d \in Contexts /\ d.state = context.state /\ d.count = context.count
      /\ d.buffer = padded.buffer
  BY <1>3, <1>6, <1>7 DEF Contexts
<1>9. ASSUME ~spoiled PROVE Holds(c, Input(total)) /\ padded.state = Reference(total)
  <2>1. Holds(c, Input(total))
    BY <1>3, <1>4, <1>9 DEF Holds, HoldsAt
  <2> QED BY <1>1, <1>3, <1>4, <2>1, FinalIs
<1>10. ASSUME ~spoiled, ~(Index(context) >= Block - LengthSize)
       PROVE  Holds(d, Input(total))
  <2>1. PICK q, r : HoldsAt(context, Input(total), q, r)
    BY <1>3, <1>10 DEF Holds
  <2>2. Index(context) = r /\ r \in Nat
    BY <2>1, IndexOf DEF HoldsAt
  <2>3. Index(c) < Block - LengthSize
    BY <1>5, <1>10, <2>2, DigestSizes
  <2>4. \A i \in 1 .. Index(c) : padded.buffer[i] = c.buffer[i]
    BY <1>1, <1>3, <1>4, <1>9, <1>10, <2>3, FinalKeeps
  <2>5. \A i \in 1 .. r : d.buffer[i] = context.buffer[i]
    BY <1>4, <1>5, <1>8, <2>2, <2>4
  <2>6. HoldsAt(d, Input(total), q, r)
    BY <1>8, <2>1, <2>5 DEF HoldsAt
  <2> QED BY <2>6 DEF Holds
<1>11. DigestTypeOK'
  <2>1. padded.state \in Seq(Buffers)
    BY <1>6 DEF Contexts
  <2>2. answer'.of = total /\ answer'.digest = padded.state /\ answer'.sound = ~spoiled
    BY <1>2
  <2>3. spoiled' \in BOOLEAN /\ answer'.sound \in BOOLEAN
    BY <1>2, <2>2
  <2> QED BY <1>2, <1>3, <1>7, <1>8, <2>1, <2>2, <2>3 DEF DigestTypeOK, Contexts
<1>12. DigestOfInput'
  <2>1. answer'.of = total /\ answer'.digest = padded.state /\ (answer'.sound => ~spoiled)
    BY <1>2
  <2>2. answer'.sound => answer'.digest = Reference(answer'.of)
    BY <1>9, <2>1
  <2> QED BY <2>2 DEF DigestOfInput, Reference, Message, Input
<1>13. (~spoiled => Holds(context, Input(total)))'
  BY <1>2, <1>7, <1>10
<1>14. (context \in Contexts)'
  BY <1>2, <1>7, <1>8 DEF Contexts
<1> QED BY <1>11, <1>12, <1>13, <1>14 DEF DigestInv

LEMMA DigestStutters == DigestInv /\ UNCHANGED digestVars => DigestInv'
<1> SUFFICES ASSUME DigestInv, UNCHANGED digestVars PROVE DigestInv'
  OBVIOUS
<1>1. /\ context' = context /\ total' = total /\ spoiled' = spoiled /\ answer' = answer
  BY DEF digestVars
<1>2. DigestTypeOK'
  BY <1>1 DEF DigestInv, DigestTypeOK
<1>3. DigestOfInput'
  BY <1>1 DEF DigestInv, DigestOfInput
<1>4. (~spoiled => Holds(context, Input(total)))'
  BY <1>1 DEF DigestInv
<1>5. (context \in Contexts)'
  BY <1>1 DEF DigestInv, Contexts
<1> QED BY <1>2, <1>3, <1>4, <1>5 DEF DigestInv

LEMMA DigestAlways == DigestSpec => []DigestInv
<1>1. DigestInv /\ [DigestNext]_digestVars => DigestInv'
  BY ResetKeeps, UpdateKeeps, CStrKeeps, DigestStutters DEF DigestNext
<1> QED BY <1>1, InitDigest, PTL DEF DigestSpec

(***************************************************************************)
(* Every state of com::md5 has its types.                                  *)
(***************************************************************************)
THEOREM DigestTypes == DigestSpec => []DigestTypeOK
<1>1. DigestInv => DigestTypeOK
  BY DEF DigestInv
<1> QED BY <1>1, DigestAlways, PTL

THEOREM DigestCorrect == DigestSpec => []DigestOfInput
<1>1. DigestInv => DigestOfInput
  BY DEF DigestInv
<1> QED BY <1>1, DigestAlways, PTL
=============================================================================
