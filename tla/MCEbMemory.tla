----------------------------- MODULE MCEbMemory -----------------------------
(***************************************************************************)
(* The allocator with sizes 2, 4, 8 in the place of 128, ..., 65536 and 7  *)
(* in the place of 65535: at the last doubling the cell with the index of  *)
(* EB_NULL exists, as it does in the code.                                 *)
(***************************************************************************)
EXTENDS EbMemory

MCSizes == {2, 4, 8}

=============================================================================
