----------------------------- MODULE MCEbCycles -----------------------------
(***************************************************************************)
(* Small instances of the life of cycles.  The configurations name two or  *)
(* three cycles c1, c2, c3, a device udp on a datagram transport and a     *)
(* device tcp on a stream.                                                 *)
(***************************************************************************)
EXTENDS EbCycles, TLC

\* No definition of EbCycles tells one cycle from another.
CycleSymmetry == Permutations(Cycle)

=============================================================================
