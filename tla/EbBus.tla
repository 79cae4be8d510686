-------------------------------- MODULE EbBus --------------------------------
(***************************************************************************)
(* The virtual bus of a socket: the devices an application attaches for    *)
(* others to read and write (glue/handler.c), the place eb_socket_attach   *)
(* finds for the SDB table that lists them, and who answers a read or a    *)
(* write (glue/readwrite.c).                                               *)
(*                                                                         *)
(* Addresses are unsigned and wrap at Top.  The handlers are a linked list *)
(* in ascending order of addresses; here a sequence of devices.            *)
(***************************************************************************)
EXTENDS Integers, Sequences

CONSTANTS
  Dev,         \* the devices (struct sdb_device) of the application
  addr_first,  \* their first and last addresses
  addr_last,
  Top,         \* 2^w, w the width of eb_address_t
  Align,       \* the SDB table is aligned to this (8)
  Required,    \* SDB_REQUIRED_SIZE (65536)
  MaxDevices,  \* SDB_REQUIRED_SIZE / sizeof(struct sdb_empty)
  None

ASSUME BusAssumption ==
  /\ Top \in Nat \ {0}
  /\ Align \in Nat \ {0} /\ Top % Align = 0
  /\ Required \in 1..Top-1
  /\ MaxDevices \in Nat
  /\ addr_first \in [Dev -> 0..Top-1]
  /\ addr_last \in [Dev -> 0..Top-1]
  /\ None \notin Dev

Address == 0..Top-1

VARIABLES
  handlers,  \* the list from eb_socket.first_handler on
  sdb,       \* eb_socket_aux.sdb_offset
  result,    \* what the last call of the application returned
  attached   \* devices attached, by what the application was told (history)

vars == <<handlers, sdb, result, attached>>

Init ==
  /\ handlers = <<>>
  /\ sdb = 0
  /\ result = "OK"
  /\ attached = {}

-----------------------------------------------------------------------------
(* Lists and places.                                                       *)

Overlap(d, e) == addr_first[d] <= addr_last[e] /\ addr_first[e] <= addr_last[d]

\* Where the walk of eb_socket_attach along the list may stop
Stops(d) ==
  {i \in DOMAIN handlers : Overlap(d, handlers[i]) \/ addr_first[d] < addr_last[handlers[i]]}

\* Where it does stop, or one past the end
Position(d, i) ==
  /\ i \in Stops(d) \cup {Len(handlers) + 1}
  /\ \A j \in Stops(d) : i <= j

\* A mutant carries the name of the definition it changes and stands before
\* it.  The new handler goes in behind the one before which it belongs.
Inserted_Behind(d, p) ==
  [i \in 1..Len(handlers)+1 |->
     CASE i < p + 1 /\ i <= Len(handlers) -> handlers[i]
       [] i > p + 1                       -> handlers[i-1]
       [] OTHER                           -> d]

\* The list with d at position p
Inserted(d, p) ==
  [i \in 1..Len(handlers)+1 |->
     IF i < p THEN handlers[i] ELSE IF i = p THEN d ELSE handlers[i-1]]

\* `(scan_last+7) & ~(eb_address_t)7'
AlignUp(a) == LET b == (a + Align - 1) % Top IN b - (b % Align)

\* scan_last when the first k handlers of the list s have been passed
ScanLast(s, k) == IF k = 0 THEN 0 ELSE AlignUp((addr_last[s[k]] + 1) % Top)

\* The SDB table fits between the first k handlers of s and the next one.
\* The difference is unsigned.
Gaps(s) ==
  {k \in 0..Len(s)-1 : (addr_first[s[k+1]] - ScanLast(s, k)) % Top >= Required}

\* There is no gap, and no place after the last handler either.
NoRoom(s) == Gaps(s) = {} /\ ScanLast(s, Len(s)) > Top - 1 - Required

\* The place that is found: after the first k handlers
Place(s, k) ==
  IF Gaps(s) = {} THEN k = Len(s) ELSE k \in Gaps(s) /\ \A j \in Gaps(s) : k <= j

-----------------------------------------------------------------------------
(* The application's calls.                                                *)

\* One device more than there may be
Full_OffByOne == Len(handlers) > MaxDevices

Full == Len(handlers) >= MaxDevices

\* eb_socket_attach refuses: no memory, a range that ends before it begins,
\* too many devices, or a range that overlaps that of another device
AttachRefused(d) ==
  /\ \/ result' = "OOM"
     \/ /\ addr_first[d] > addr_last[d]
        /\ result' = "ADDRESS"
     \/ /\ addr_first[d] <= addr_last[d]
        /\ ~Full
        /\ \E p \in DOMAIN handlers : Position(d, p) /\ Overlap(d, handlers[p])
        /\ result' = "ADDRESS"
  /\ UNCHANGED <<handlers, sdb, attached>>

\* The handler goes into the list at position p
Inserts(d, p) ==
  /\ addr_first[d] <= addr_last[d]
  /\ ~Full
  /\ Position(d, p)
  /\ p \in DOMAIN handlers => ~Overlap(d, handlers[p])

\* eb_socket_attach finds a place for the SDB table
Attach(d) ==
  /\ \E p \in 1..Len(handlers)+1 :
       /\ Inserts(d, p)
       /\ ~NoRoom(Inserted(d, p))
       /\ handlers' = Inserted(d, p)
       /\ \E k \in 0..Len(handlers)+1 :
            Place(Inserted(d, p), k) /\ sdb' = ScanLast(Inserted(d, p), k)
  /\ result' = "OK"
  /\ attached' = attached \cup {d}

\* The new handler stays linked.
AttachNoRoom_Linked(d) ==
  /\ \E p \in 1..Len(handlers)+1 :
       /\ Inserts(d, p)
       /\ NoRoom(Inserted(d, p))
       /\ handlers' = Inserted(d, p)
  /\ result' = "ADDRESS"
  /\ UNCHANGED <<sdb, attached>>

\* eb_socket_attach finds none: it links what is before the new handler to
\* what follows the last handler it looked at, which is nothing
AttachNoRoom(d) ==
  /\ \E p \in 1..Len(handlers)+1 :
       /\ Inserts(d, p)
       /\ NoRoom(Inserted(d, p))
       /\ handlers' = SubSeq(handlers, 1, p - 1)
  /\ result' = "ADDRESS"
  /\ UNCHANGED <<sdb, attached>>

\* eb_socket_detach
Detach(d) ==
  /\ \E i \in DOMAIN handlers :
       /\ handlers[i] = d
       /\ handlers' = [j \in 1..Len(handlers)-1 |-> IF j < i THEN handlers[j] ELSE handlers[j+1]]
  /\ result' = "OK"
  /\ attached' = attached \ {d}
  /\ UNCHANGED sdb

\* ... of a device that is not on the list
DetachUnknown(d) ==
  /\ \A i \in DOMAIN handlers : handlers[i] # d
  /\ result' = "ADDRESS"
  /\ UNCHANGED <<handlers, sdb, attached>>

Next ==
  \E d \in Dev :
    \/ AttachRefused(d)
    \/ Attach(d)
    \/ AttachNoRoom(d)
    \/ Detach(d)
    \/ DetachUnknown(d)

Spec == Init /\ [][Next]_vars

-----------------------------------------------------------------------------
(* Who answers.                                                            *)

Covers(d, a) == addr_first[d] <= a /\ a <= addr_last[d]

\* eb_socket_write: the first handler whose range has the address, or None
\* (an error)
WriteReaches(a, d) ==
  \/ \E i \in DOMAIN handlers :
       /\ handlers[i] = d /\ Covers(d, a)
       /\ \A j \in 1..i-1 : ~Covers(handlers[j], a)
  \/ d = None /\ \A i \in DOMAIN handlers : ~Covers(handlers[i], a)

\* One address too many
InTable_Inclusive(a) == a >= sdb /\ a <= (sdb + Required) % Top

\* `addr_b >= sdb && addr_b < sdb + SDB_REQUIRED_SIZE'
InTable(a) == a >= sdb /\ a < (sdb + Required) % Top

\* eb_socket_read looks at the SDB table first.
ReadReaches(a, d) == ~InTable(a) /\ WriteReaches(a, d)

-----------------------------------------------------------------------------
(* Properties.                                                             *)

\* Type invariant; there are never more devices than are allowed for
\* (handler.c:87).
TypeOK ==
  /\ handlers \in Seq(Dev) /\ Len(handlers) <= MaxDevices
  /\ sdb \in Address
  /\ result \in {"OK", "OOM", "ADDRESS"}
  /\ attached \subseteq Dev

\* The list stays in ascending order and its ranges disjoint, although a new
\* range is compared only with those up to its place (handler.c:109).
SortedDisjoint ==
  /\ \A i \in DOMAIN handlers : addr_first[handlers[i]] <= addr_last[handlers[i]]
  /\ \A i, j \in DOMAIN handlers : i < j => addr_last[handlers[i]] < addr_first[handlers[j]]

\* etherbone.h:386: the handler of a device that is attached receives all
\* reads and writes to its addresses, and nobody receives the others.
HandlerReceivesAll ==
  /\ \A d \in attached : \A a \in addr_first[d]..addr_last[d] :
       ReadReaches(a, d) /\ WriteReaches(a, d)
  /\ \A a \in Address :
       (\A d \in attached : ~Covers(d, a)) => WriteReaches(a, None)

\* The SDB table lies within the address space, so that all of it can be
\* read: eb_socket_attach gives up rather than let it wrap (handler.c:146).
TableWithinBus == sdb + Required <= Top

\* An attach or detach that returns an error has changed nothing: the
\* devices that were attached are still served (etherbone.h:391-394).
FailureChangesNothing ==
  [][result' # "OK" => UNCHANGED <<handlers, sdb>>]_vars

=============================================================================
