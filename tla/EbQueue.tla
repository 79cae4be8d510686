------------------------------ MODULE EbQueue ------------------------------
(***************************************************************************)
(* What a FIFO of the gateware (hdl/eb_slave_core/eb_fifo.vhd) promises to *)
(* the logic around it, one value per clock period.                        *)
(*                                                                         *)
(* A queue is a record of the entries pushed and not yet popped and of the *)
(* register r_empty_o.  The register is computed from the write index of   *)
(* before the push, so that an entry is first seen one period after it has *)
(* been counted; w_full_o compares the newest indices and so is a function *)
(* of the entries.  EbCommitFifo models the indices and the memory behind  *)
(* the same interface.                                                     *)
(***************************************************************************)
EXTENDS Naturals, Sequences

NewQueue == [items |-> <<>>, empty |-> TRUE]

QueueOf(S) == [items : Seq(S), empty : BOOLEAN]

(* w_full_o: the write index is a whole turn ahead, neither less nor more. *)
IsFull(queue, size) == Len(queue.items) = size

(* r_dat_o, valid while r_empty_o is low (show ahead).                     *)
Front(queue) == Head(queue.items)

(* The queue after a clock edge; "pushed" is a sequence of at most one     *)
(* entry, popped says whether r_pop_i is high.                             *)
Clocked(queue, pushed, popped) ==
    LET rest == IF popped THEN Tail(queue.items) ELSE queue.items
    IN  [items |-> rest \o pushed, empty |-> rest = <<>>]

============================================================================
