--------------------------- MODULE EbMemory_proofs ---------------------------
(***************************************************************************)
(* For every array size and for both builds: the allocator is type correct *)
(* and never hands out a cell that is still owned.                         *)
(***************************************************************************)
EXTENDS EbMemory, FiniteSetTheorems, NaturalsInduction, WellFoundedInduction, TLAPS

\* The arithmetic of growing: the new cells lie within the array and after
\* every cell of the old pool.
LEMMA GrowthStaysInArray ==
  ASSUME TypeOK, CanExpand
  PROVE  /\ NextSize \in Nat
         /\ NextSize \in IF Static THEN {0, MaxSize} ELSE Sizes
         /\ size < NextSize /\ NextSize <= MaxSize
         /\ size \in Cell /\ size # EbNull
         /\ Base <= size
         /\ EbNull \notin Base..NextSize-2
<1>1. CASE Static
  BY <1>1, MemoryAssumption DEF TypeOK, CanExpand, NextSize, Cell, Base
<1>2. CASE ~Static
  <2>1. size \in Sizes /\ 2*size \in Sizes /\ size >= InitSize
    BY <1>2, MemoryAssumption DEF TypeOK, CanExpand
  <2>2. 2*size \in 0..MaxSize
    BY <2>1, MemoryAssumption
  <2>3. QED
    BY <1>2, <2>1, <2>2, MemoryAssumption DEF TypeOK, CanExpand, NextSize, Cell, Base
<1>3. QED
  BY <1>1, <1>2, MemoryAssumption

\* The type invariant holds initially.
LEMMA InitType == Init => TypeOK
BY MemoryAssumption DEF Init, TypeOK, Base, Cell, Handle, Pool

\* Pool \in Cell: a handle that can be owned is a cell of the array.
LEMMA PoolIsCells ==
  ASSUME TypeOK
  PROVE  Pool \subseteq Cell /\ size <= MaxSize /\ Base \in Nat
BY MemoryAssumption DEF TypeOK, Pool, Cell, Base

\* Every step preserves the invariant; the type and the soundness of the free
\* list are proved together because a new handle is a pool cell only if the
\* head of the list is.
LEMMA StepSound ==
  ASSUME TypeOK, FreeListSound, [Next]_vars
  PROVE  TypeOK' /\ FreeListSound'
<1> USE DEF Loose
<1>0. Pool \subseteq Cell /\ size <= MaxSize /\ Base \in Nat
  BY PoolIsCells
<1>1. CASE New
  <2>1. free \in Pool /\ free \notin held /\ free \in Cell
    BY <1>0, <1>1 DEF New, FreeListSound
  <2>2. Pool' = Pool
    BY <1>1 DEF New, Pool
  <2>3. next[free] \in Loose \cup {EbNull} /\ next[free] # free
    BY <1>1, <2>1 DEF FreeListSound, New
  <2>4. TypeOK'
    BY <1>0, <1>1, <2>1, <2>2, <2>3, MemoryAssumption DEF New, Take, TypeOK, Handle
  <2>5. /\ free' = next[free] /\ next' = next /\ Loose' = Loose \ {free}
    BY <1>1, <2>2 DEF New, Take
  <2>6. FreeListSound'
    BY <2>1, <2>3, <2>5, <1>1 DEF FreeListSound, New
  <2>7. QED BY <2>4, <2>6
<1>2. CASE NewExpanding
  <2> DEFINE hi == NextSize
  <2>1. /\ hi \in Nat
        /\ hi \in IF Static THEN {0, MaxSize} ELSE Sizes
        /\ size < hi /\ hi <= MaxSize
        /\ size \in Cell /\ size # EbNull
        /\ Base <= size
        /\ EbNull \notin Base..hi-2
    BY <1>2, GrowthStaysInArray DEF NewExpanding
  <2>2. size \in Nat /\ held \subseteq Pool /\ free = EbNull /\ size' = hi
    BY <1>2 DEF TypeOK, NewExpanding
  <2>3. Pool' = (Base..hi-1) \ {EbNull} /\ Pool \subseteq Pool' /\ size \in Pool' /\ size \notin Pool
    BY <1>0, <2>1, <2>2 DEF Pool
  <2>4. /\ next' = Threaded(size, hi) /\ free' = next'[size] /\ ret' = size
        /\ held' = held \cup {size} /\ used' = used + 1
    BY <1>2 DEF NewExpanding, Take
  <2>5. \A i \in Cell : next'[i] = CASE i \in size..hi-2 -> i + 1
                                     [] i = hi - 1 -> EbNull
                                     [] OTHER -> next[i]
    BY <2>4 DEF Threaded
  <2>6. \A i \in Cell : i \in size..hi-2 => next'[i] = i + 1
    BY <2>1, <2>2, <2>5
  <2>7. hi - 1 \in Cell /\ next'[hi - 1] = EbNull
    BY <2>1, <2>2, <2>5, MemoryAssumption DEF Cell
  <2>8. \A i \in Cell : i \notin size..hi-1 => next'[i] = next[i]
    BY <2>1, <2>2, <2>5, MemoryAssumption DEF Cell
  <2>9. next' \in [Cell -> Handle]
    <3>1. next' = [i \in Cell |-> next'[i]]
      BY <2>4 DEF Threaded
    <3>2. ASSUME NEW i \in Cell PROVE next'[i] \in Handle
      <4>1. CASE i \in size..hi-2
        BY <4>1, <2>1, <2>2, <2>6, MemoryAssumption DEF Cell, Handle
      <4>2. CASE i = hi - 1
        BY <4>2, <2>7 DEF Handle
      <4>3. CASE i \notin size..hi-1
        BY <4>3, <2>8 DEF TypeOK
      <4>4. QED
        BY <4>1, <4>2, <4>3, <2>1, <2>2, MemoryAssumption DEF Cell
    <3>3. QED
      BY <3>1, <3>2
  <2>10. TypeOK'
    BY <2>1, <2>2, <2>3, <2>4, <2>9, MemoryAssumption DEF TypeOK, Handle
  <2>11. Loose' = (Loose \cup (size..hi-1)) \ {size, EbNull}
    BY <1>0, <2>1, <2>2, <2>3, <2>4 DEF Pool, TypeOK
  <2>12. \A i \in Loose : i < size /\ i \in Cell
    BY <1>0, <2>2, MemoryAssumption DEF Pool, Cell
  <2>13. \A i \in Loose' : /\ i \in Cell
                           /\ \/ i \in Loose /\ next'[i] = next[i]
                              \/ i \in size+1..hi-2 /\ next'[i] = i + 1 /\ i + 1 \in size+1..hi-1
                              \/ i = hi - 1 /\ next'[i] = EbNull
    <3> SUFFICES ASSUME NEW i \in Loose'
                 PROVE  /\ i \in Cell
                        /\ \/ i \in Loose /\ next'[i] = next[i]
                           \/ i \in size+1..hi-2 /\ next'[i] = i + 1 /\ i + 1 \in size+1..hi-1
                           \/ i = hi - 1 /\ next'[i] = EbNull
      OBVIOUS
    <3>1. CASE i \in Loose
      BY <3>1, <2>2, <2>8, <2>12 DEF Cell
    <3>2. CASE i \in size..hi-1 /\ i # size
      BY <3>2, <2>1, <2>2, <2>6, <2>7, MemoryAssumption DEF Cell
    <3>3. QED
      BY <3>1, <3>2, <2>11
  <2>14. free' = IF hi = size + 1 THEN EbNull ELSE size + 1
    BY <2>1, <2>2, <2>4, <2>6, <2>7
  <2>15. \A i \in Loose : next[i] \in Loose \cup {EbNull}
    BY DEF FreeListSound
  <2>16. \A i \in size+1..hi-1 : i = EbNull \/ i \in Loose'
    BY <2>1, <2>2, <2>11
  <2>17. FreeListSound'
    <3>1. free' \in Loose' \cup {EbNull}
      BY <2>1, <2>2, <2>14, <2>16
    <3>2. Loose \ {size, EbNull} = Loose
      BY <2>12, <2>2 DEF Pool
    <3>3. ASSUME NEW i \in Loose' PROVE next'[i] \in Loose' \cup {EbNull}
      BY <2>11, <2>13, <2>15, <2>16, <3>2, <3>3
    <3>4. ASSUME NEW i \in Loose', next'[i] # EbNull PROVE next'[i] # free'
      BY <2>1, <2>2, <2>12, <2>13, <2>14, <2>15, <3>4
    <3>5. ASSUME NEW i \in Loose', NEW j \in Loose', next'[i] = next'[j], next'[i] # EbNull
          PROVE  i = j
      <4>1. CASE i \in Loose /\ j \in Loose
        <5>1. next'[i] = next[i] /\ next'[j] = next[j]
          BY <4>1, <2>8, <2>12, <2>2
        <5>2. QED BY <4>1, <5>1, <3>5 DEF FreeListSound
      <4>2. CASE i \notin Loose /\ j \notin Loose
        BY <4>2, <2>1, <2>2, <2>13, <3>5
      <4>3. CASE i \in Loose /\ j \notin Loose
        BY <4>3, <2>1, <2>2, <2>12, <2>13, <2>15, <3>5
      <4>4. CASE i \notin Loose /\ j \in Loose
        BY <4>4, <2>1, <2>2, <2>12, <2>13, <2>15, <3>5
      <4>5. QED BY <4>1, <4>2, <4>3, <4>4
    <3>6. QED
      BY <3>1, <3>3, <3>4, <3>5 DEF FreeListSound
  <2>18. QED BY <2>10, <2>17
<1>3. CASE NewFails
  BY <1>3 DEF NewFails, TypeOK, FreeListSound, Pool, Handle
<1>4. ASSUME NEW x \in held, Free(x) PROVE TypeOK' /\ FreeListSound'
  <2>1. x \in Pool /\ x \in Cell /\ x # EbNull /\ x \notin Loose
    BY <1>0 DEF TypeOK, Pool
  <2>2. Pool' = Pool
    BY <1>4 DEF Free, Pool
  <2>3. Loose' = Loose \cup {x}
    BY <1>4, <2>1, <2>2 DEF Free, TypeOK
  <2>4. /\ free' = x /\ next'[x] = free
        /\ \A i \in Loose : next'[i] = next[i]
    BY <1>0, <1>4, <2>1 DEF Free, TypeOK
  <2>5. TypeOK'
    BY <1>4, <2>1, <2>2, MemoryAssumption DEF Free, TypeOK, Handle
  <2>6. free \in Loose \cup {EbNull}
    BY DEF FreeListSound
  <2>7. FreeListSound'
    BY <2>1, <2>3, <2>4, <2>6 DEF FreeListSound
  <2>8. QED BY <2>5, <2>7
<1>5. CASE UNCHANGED vars
  BY <1>5 DEF vars, TypeOK, FreeListSound, Pool
<1>6. QED
  BY <1>1, <1>2, <1>3, <1>4, <1>5 DEF Next

\* The free list is sound in the initial state, where it is empty.
LEMMA InitSound == Init => FreeListSound
BY DEF Init, FreeListSound, Loose, Pool, Base

\* Every reachable state is well typed: handles are cells of the array.
THEOREM TypeCorrect == Spec => []TypeOK
<1>1. TypeOK /\ FreeListSound /\ [Next]_vars => (TypeOK /\ FreeListSound)'
  BY StepSound
<1>2. QED
  BY <1>1, InitType, InitSound, PTL DEF Spec

\* No order of allocations and releases lets the free list run into a cell
\* that a client owns (array.c:38-57, dynamic.c:61-67).
THEOREM NoAliasing == Spec => []FreeListSound
<1>1. TypeOK /\ FreeListSound /\ [Next]_vars => (TypeOK /\ FreeListSound)'
  BY StepSound
<1>2. QED
  BY <1>1, InitType, InitSound, PTL DEF Spec

\* The consumption counter and the set of owned handles move together.
LEMMA StepUsed ==
  ASSUME TypeOK, FreeListSound, UsedExact, IsFiniteSet(held), [Next]_vars
  PROVE  UsedExact' /\ IsFiniteSet(held)'
<1>1. ASSUME NEW x, x \notin held, held' = held \cup {x}, used' = used + 1
      PROVE  UsedExact' /\ IsFiniteSet(held)'
  BY <1>1, FS_AddElement DEF UsedExact
<1>2. CASE New
  BY <1>1, <1>2 DEF New, Take, FreeListSound, Loose
<1>3. CASE NewExpanding
  <2>1. size \notin held
    BY <1>3, GrowthStaysInArray DEF NewExpanding, TypeOK, Pool
  <2>2. QED
    BY <1>1, <1>3, <2>1 DEF NewExpanding, Take
<1>4. CASE NewFails
  BY <1>4 DEF NewFails, UsedExact
<1>5. ASSUME NEW x \in held, Free(x) PROVE UsedExact' /\ IsFiniteSet(held)'
  BY <1>5, FS_RemoveElement DEF Free, UsedExact
<1>6. CASE UNCHANGED vars
  BY <1>6 DEF vars, UsedExact
<1>7. QED
  BY <1>2, <1>3, <1>4, <1>5, <1>6 DEF Next

\* eb_memory_used is the number of cells the clients own, in every reachable
\* state: each call that succeeds hands out one more cell.
THEOREM UsedIsExact == Spec => []UsedExact
<1>1. Init => UsedExact /\ IsFiniteSet(held)
  BY FS_EmptySet DEF Init, UsedExact
<1>2. TypeOK /\ FreeListSound /\ UsedExact /\ IsFiniteSet(held) /\ [Next]_vars
        => (UsedExact /\ IsFiniteSet(held))'
  BY StepUsed
<1>3. QED
  BY <1>1, <1>2, TypeCorrect, NoAliasing, PTL DEF Spec

-----------------------------------------------------------------------------
(* Nothing leaks.                                                          *)

Less == {ss \in Nat \X Nat : ss[1] < ss[2]}

LEMMA LessWellFounded == IsWellFoundedOn(Less, Nat)
  BY NatLessThanWellFounded, Zenon DEF OpToRel, Less

LEMMA Least ==
  ASSUME NEW T \in SUBSET Nat, T # {}
  PROVE  \E x \in T : \A y \in T : x <= y
<1>1. PICK x \in T : \A y \in T : ~ (<<y, x>> \in Less)
  BY LessWellFounded, WFMin, Zenon
<1>2. ASSUME NEW y \in T PROVE x <= y
  <2>1. <<y, x>> \notin Less
    BY <1>1
  <2> QED
    BY <2>1 DEF Less
<1> QED
  BY <1>2

\* A list threaded through the cells lo..hi-1 in ascending order comes to all
\* of them: the least one it left out would be the successor of another.
LEMMA ThreadVisitsAll ==
  ASSUME NEW lo \in Nat, NEW hi \in Nat, NEW S,
         lo < hi => lo \in S,
         \A i \in S : i \in lo..hi-2 => i + 1 \in S
  PROVE  lo..hi-1 \subseteq S
<1> SUFFICES ASSUME (lo..hi-1) \ S # {} PROVE FALSE
  OBVIOUS
<1>1. PICK x \in (lo..hi-1) \ S : \A y \in (lo..hi-1) \ S : x <= y
  <2>1. (lo..hi-1) \ S \in SUBSET Nat
    OBVIOUS
  <2> QED
    BY <2>1, Least
<1>2. x # lo
  BY <1>1
<1>3. x - 1 \in lo..hi-2 /\ ~ (x <= x - 1)
  BY <1>1, <1>2
<1>4. x - 1 \in S
  BY <1>1, <1>3
<1> QED
  BY <1>1, <1>3, <1>4

LEMMA StepLeaks ==
  ASSUME TypeOK, FreeListSound, NothingLeaks, [Next]_vars
  PROVE  NothingLeaks'
<1>0. Pool \subseteq Cell /\ size <= MaxSize /\ Base \in Nat /\ EbNull \notin Loose
  BY PoolIsCells DEF Loose, Pool
<1>1. ASSUME New PROVE NothingLeaks'
  <2>1. free \in Loose /\ next[free] \in Loose \cup {EbNull}
    BY <1>1 DEF New, FreeListSound
  <2>2. free' = next[free] /\ next' = next /\ Loose' = Loose \ {free}
    BY <1>1 DEF New, Take, Loose, Pool
  <2> SUFFICES ASSUME NEW S \in SUBSET Loose', FollowsLinks(S)' PROVE S = Loose'
    BY DEF NothingLeaks
  <2>3. S \cup {free} \in SUBSET Loose
    BY <2>1, <2>2
  <2>4. FollowsLinks(S \cup {free})
    BY <2>2 DEF FollowsLinks
  <2>5. S \cup {free} = Loose
    BY <2>3, <2>4 DEF NothingLeaks
  <2> QED
    BY <2>2, <2>5
<1>2. ASSUME NewExpanding PROVE NothingLeaks'
  <2> DEFINE hi == NextSize
  <2>1. /\ hi \in Nat /\ size < hi /\ hi <= MaxSize
        /\ Base <= size /\ EbNull \notin Base..hi-2
    BY <1>2, GrowthStaysInArray DEF NewExpanding
  <2>2. size \in Nat /\ held \subseteq Pool /\ free = EbNull /\ size' = hi
    BY <1>2 DEF TypeOK, NewExpanding
  <2>3. /\ next' = Threaded(size, hi) /\ free' = next'[size]
        /\ held' = held \cup {size}
    BY <1>2 DEF NewExpanding, Take
  <2>a. \A i \in Cell : next'[i] = CASE i \in size..hi-2 -> i + 1
                                     [] i = hi - 1 -> EbNull
                                     [] OTHER -> next[i]
    BY <2>3 DEF Threaded
  <2>b. size..hi-1 \subseteq Cell
    BY <2>1, <2>2, MemoryAssumption DEF Cell
  <2> HIDE DEF hi
  <2>4. \A i \in size..hi-2 : i \in Cell /\ next'[i] = i + 1
    BY ONLY <2>1, <2>2, <2>a, <2>b
  <2>5. size = hi - 1 => next'[size] = EbNull
    BY ONLY <2>1, <2>2, <2>a, <2>b
  <2>6. Loose = {}
    <3>1. {} \in SUBSET Loose /\ FollowsLinks({})
      BY <2>2 DEF FollowsLinks
    <3> QED
      BY ONLY <3>1, NothingLeaks DEF NothingLeaks
  <2>7. Loose' = (size+1..hi-1) \ {EbNull}
    BY <2>1, <2>2, <2>3, <2>6, <1>0 DEF Loose, Pool
  <2> SUFFICES ASSUME NEW S \in SUBSET Loose', FollowsLinks(S)' PROVE S = Loose'
    BY DEF NothingLeaks
  <2>8. \A i \in S : next'[i] \in S \cup {EbNull}
    BY DEF FollowsLinks
  <2>9. free' \in S \cup {EbNull}
    BY DEF FollowsLinks
  <2>10. size + 1 < hi => size + 1 \in S \cup {EbNull}
    BY <2>1, <2>2, <2>3, <2>4, <2>9
  <2>11. \A i \in S \cup {EbNull} : i \in size+1..hi-2 => i + 1 \in S \cup {EbNull}
    <3> SUFFICES ASSUME NEW i \in S \cup {EbNull}, i \in size+1..hi-2
                 PROVE  i + 1 \in S \cup {EbNull}
      OBVIOUS
    <3>1. i \in size..hi-2 /\ i \in Base..hi-2
      BY <1>0, <2>1, <2>2
    <3>2. i \in S /\ next'[i] = i + 1
      BY <2>1, <2>4, <3>1
    <3> QED
      BY <2>8, <3>2
  <2>12. size+1..hi-1 \subseteq S \cup {EbNull}
    <3>1. size + 1 \in Nat
      BY <2>2
    <3> QED
      BY ONLY <3>1, <2>1, <2>10, <2>11, ThreadVisitsAll
  <2> QED
    BY <2>7, <2>12
<1>3. ASSUME NewFails \/ UNCHANGED vars PROVE NothingLeaks'
  BY <1>3 DEF NewFails, vars, NothingLeaks, FollowsLinks, Loose, Pool
<1>4. ASSUME NEW x \in held, Free(x) PROVE NothingLeaks'
  <2>1. x \in Pool /\ x \in Cell /\ x # EbNull /\ x \notin Loose
    BY <1>0 DEF TypeOK, Pool, Loose
  <2>2. Loose' = Loose \cup {x}
    BY <1>4, <2>1 DEF Free, TypeOK, Loose, Pool
  <2>3. /\ free' = x /\ next'[x] = free
        /\ \A i \in Loose : next'[i] = next[i]
    BY <1>0, <1>4, <2>1 DEF Free, TypeOK, Loose
  <2>4. /\ free \in Loose \cup {EbNull}
        /\ \A i \in Loose : next[i] \in Loose \cup {EbNull}
    BY DEF FreeListSound
  <2> SUFFICES ASSUME NEW S \in SUBSET Loose', FollowsLinks(S)' PROVE S = Loose'
    BY DEF NothingLeaks
  <2>5. x \in S
    BY <2>1, <2>3 DEF FollowsLinks
  <2>6. S \ {x} \in SUBSET Loose
    BY <2>2
  <2>7. FollowsLinks(S \ {x})
    BY <2>1, <2>3, <2>4, <2>5, <2>6 DEF FollowsLinks
  <2>8. S \ {x} = Loose
    BY <2>6, <2>7 DEF NothingLeaks
  <2> QED
    BY <2>2, <2>5, <2>8
<1> QED
  BY <1>1, <1>2, <1>3, <1>4 DEF Next

\* Every cell that nobody owns stays within reach of eb_new_memory_item, for
\* every size of the array and in every order of the calls.
THEOREM NoLeak == Spec => []NothingLeaks
<1>1. Init => NothingLeaks
  <2> SUFFICES ASSUME Init PROVE Loose = {}
    BY DEF NothingLeaks
  <2>1. size = Base /\ Base \in Nat
    BY MemoryAssumption DEF Init, Base
  <2> QED
    BY <2>1 DEF Loose, Pool
<1>2. TypeOK /\ FreeListSound /\ NothingLeaks /\ [Next]_vars => NothingLeaks'
  BY StepLeaks
<1> QED
  BY <1>1, <1>2, TypeCorrect, NoAliasing, PTL DEF Spec

=============================================================================
