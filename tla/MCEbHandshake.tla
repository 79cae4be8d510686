---------------------------- MODULE MCEbHandshake ----------------------------
(***************************************************************************)
(* A small instance of the handshake: a remote side u that is reached by   *)
(* datagrams, one t that is reached over a stream, and two sizes.          *)
(***************************************************************************)
EXTENDS EbHandshake

W(a, d) == [addr |-> a, data |-> d]

MCSize == {4, 8}
Full == W(MCSize, MCSize)
MCLocal == {Full, W({4}, MCSize)}
MCRemote == {Full, W({4}, MCSize), W(MCSize, {4})}
MCProposal == {Full, W(MCSize, {8}), W({4}, {8}), W({8}, {})}

=============================================================================
