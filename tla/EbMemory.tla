------------------------------ MODULE EbMemory ------------------------------
(***************************************************************************)
(* The cell allocator behind every Etherbone handle (src/api/memory).      *)
(*                                                                         *)
(* Operations, cycles, devices, responses, links... all live in one array  *)
(* of equally sized cells and are named by 16-bit indices.  A free cell    *)
(* stores the index of the next free cell; eb_memory_free is the head of   *)
(* that list.  The array grows by doubling (dynamic.c) or is threaded once *)
(* on first use (static.c).                                                *)
(*                                                                         *)
(* The clients of the allocator are represented by the set held of the     *)
(* handles they have been given and have not yet returned.                 *)
(***************************************************************************)
EXTENDS Integers, FiniteSets

CONSTANTS
  Static,    \* TRUE: built with EB_USE_STATIC (static.c), FALSE: dynamic.c
  InitSize,  \* dynamic.c:39, value of eb_memory_array_size before any use (128)
  MaxSize,   \* largest number of cells (65536, or EB_USE_STATIC)
  Sizes,     \* the sizes the array goes through on its way to MaxSize
  EbNull     \* EB_NULL, which is also EB_END_OF_FREE (65535)

ASSUME MemoryAssumption ==
  /\ Static \in BOOLEAN
  /\ InitSize \in Nat \ {0, 1}
  /\ MaxSize \in Nat \ {0}
  /\ EbNull \in Nat
  /\ Sizes \subseteq 0..MaxSize
  /\ Static => EbNull >= MaxSize
  /\ ~Static => /\ InitSize \in Sizes
                /\ EbNull >= MaxSize - 1
                /\ \A s \in Sizes : s >= InitSize /\ (s # MaxSize => 2*s \in Sizes)

VARIABLES
  next,   \* next[i]: the free_item.next field of cell i
  free,   \* eb_memory_free
  size,   \* eb_memory_array_size; 0 in a static build that is not yet set up
  used,   \* eb_memory_used
  ret,    \* what the last call of eb_new_memory_item returned
  held    \* the handles the clients own

vars == <<next, free, size, used, ret, held>>

Cell == 0..MaxSize-1
Handle == Cell \cup {EbNull}

\* The first cell that can ever be handed out: dynamic.c never threads the
\* cells below the initial size.
Base == IF Static THEN 0 ELSE InitSize

Pool == (Base..size-1) \ {EbNull}
Loose == Pool \ held

Init ==
  /\ next = [i \in Cell |-> EbNull]
  /\ free = EbNull
  /\ size = Base
  /\ used = 0
  /\ ret = EbNull
  /\ held = {}

\* eb_expand_array may run: the array is below its limit, or not yet set up.
CanExpand == IF Static THEN size = 0 ELSE size # MaxSize

NextSize == IF Static THEN MaxSize ELSE 2 * size

\* A mutant carries the name of the definition it changes and stands before
\* it.  The last of the new cells is not made the end of the list.
Threaded_NoEnd(lo, hi) ==
  [i \in Cell |-> IF i \in lo..hi-1 THEN i + 1 ELSE next[i]]

\* The new cells lo..hi-1 linked into a list, the others as they were.
Threaded(lo, hi) ==
  [i \in Cell |-> CASE i \in lo..hi-2 -> i + 1
                    [] i = hi - 1     -> EbNull
                    [] OTHER          -> next[i]]

\* The head of the list `head' of the links `links' goes to the caller.
Take(links, head) ==
  /\ free' = links[head]
  /\ next' = links
  /\ used' = used + 1
  /\ ret' = head
  /\ held' = held \cup {head}

\* eb_new_memory_item with a free cell at hand
New ==
  /\ free # EbNull
  /\ Take(next, free)
  /\ UNCHANGED size

\* eb_new_memory_item that first grows the array
NewExpanding ==
  /\ free = EbNull
  /\ CanExpand
  /\ size' = NextSize
  /\ Take(Threaded(size, NextSize), size)

\* eb_new_memory_item that finds no memory: the array is at its limit, or
\* realloc fails (only the dynamic build calls it).
NewFails ==
  /\ free = EbNull
  /\ ~CanExpand \/ ~Static
  /\ ret' = EbNull
  /\ UNCHANGED <<next, free, size, used, held>>

\* eb_free_memory_item that does not store the old head
Free_NoLink(x) ==
  /\ free' = x
  /\ used' = used - 1
  /\ held' = held \ {x}
  /\ UNCHANGED <<next, size, ret>>

\* eb_free_memory_item, called once for each handle
Free(x) ==
  /\ next' = [next EXCEPT ![x] = free]
  /\ free' = x
  /\ used' = used - 1
  /\ held' = held \ {x}
  /\ UNCHANGED <<size, ret>>

Next ==
  \/ New
  \/ NewExpanding
  \/ NewFails
  \/ \E x \in held : Free(x)

Spec == Init /\ [][Next]_vars

-----------------------------------------------------------------------------

\* Type invariant: handles are cells, never the null index, and the size is
\* one of the sizes doubling goes through.
TypeOK ==
  /\ next \in [Cell -> Handle]
  /\ free \in Handle
  /\ size \in Nat
  /\ size \in IF Static THEN {0, MaxSize} ELSE Sizes
  /\ used \in Int
  /\ ret \in Handle
  /\ held \subseteq Pool

\* The free list stays inside the cells nobody owns: its head and every link
\* of a cell that is not handed out lead to such a cell or end the list, no
\* two of them lead to the same cell, and none leads back to the head.  So a
\* handle that is still owned cannot be handed out again (array.c:46-47, 54-55).
FreeListSound ==
  /\ free \in Loose \cup {EbNull}
  /\ \A i \in Loose :
       /\ next[i] \in Loose \cup {EbNull}
       /\ next[i] # EbNull => next[i] # free
       /\ \A j \in Loose : next[i] = next[j] /\ next[i] # EbNull => i = j

\* eb_memory_used, which the loopback test reads as the memory consumption,
\* is the number of cells owned: no call handed out a cell already owned.
UsedExact == used = Cardinality(held)

\* A set of loose cells that holds what eb_new_memory_item hands out next,
\* and with each cell what it hands out after that.
FollowsLinks(S) ==
  /\ free \in S \cup {EbNull}
  /\ \A i \in S : next[i] \in S \cup {EbNull}

\* A cell that was returned can be handed out again: whoever follows the free
\* list from its head comes to every cell that nobody owns, so no memory is
\* lost by any order of allocations, growth and releases (array.c:38-57,
\* dynamic.c:61-67).
NothingLeaks == \A S \in SUBSET Loose : FollowsLinks(S) => S = Loose

=============================================================================
