--------------------------- MODULE MCEbMasterCore --------------------------
(* Two writes to neighbours, a read, and a write of half a word.           *)
EXTENDS EbMasterCore

Op(we, adr, dat, sel) == [we |-> we, adr |-> adr, dat |-> dat, sel |-> sel]

MCOps == {Op(TRUE, 0, 1, 15), Op(TRUE, 1, 0, 15), Op(FALSE, 0, 0, 15), Op(TRUE, 0, 1, 3)}
============================================================================
