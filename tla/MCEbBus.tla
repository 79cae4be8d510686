------------------------------- MODULE MCEbBus -------------------------------
(***************************************************************************)
(* A bus of 44 addresses, with an SDB table of 4 that is aligned to 2, and *)
(* up to three devices.  A device is its range of addresses.               *)
(*                                                                         *)
(* Ordinary devices begin and end on even boundaries, do not reach the     *)
(* last address, and leave room for the table; with them are one that      *)
(* leaves none and one that ends before it begins.  Crowded is a pair that *)
(* leaves no room; Loopback is the device of test/loopback.cpp, from the   *)
(* end of the reserved range (a quarter of the table) to the last address. *)
(***************************************************************************)
EXTENDS EbBus

Ordinary ==
  {<<4*f, 4*f + n>> : f \in 0..9, n \in {1, 5}} \cup {<<0, 41>>, <<12, 3>>}
OrdinaryFirst == [d \in Ordinary |-> d[1]]
OrdinaryLast == [d \in Ordinary |-> d[2]]

Crowded == {<<0, 35>>, <<36, 41>>}
CrowdedFirst == [d \in Crowded |-> d[1]]
CrowdedLast == [d \in Crowded |-> d[2]]

Loopback == {<<1, 43>>}
LoopbackFirst == [d \in Loopback |-> d[1]]
LoopbackLast == [d \in Loopback |-> d[2]]

=============================================================================
