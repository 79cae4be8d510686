---------------------------- MODULE MCEbEthernet ---------------------------
(* Short headers; requests that are answered and padded, skipped, cut off, *)
(* of a bad length, or not for the core.                                   *)
EXTENDS EbEthernet

Frame(h, p, n, k, s) == [host |-> h, port |-> p, ours |-> TRUE, udp |-> TRUE,
                         length |-> n, pieces |-> k, silent |-> s]

MCFrames == {Frame("a", "p", 4, 5, FALSE), Frame("b", "q", 6, 6, FALSE),
             Frame("a", "q", 6, 3, TRUE), [Frame("b", "q", 4, 1, FALSE) EXCEPT !.udp = FALSE]}
============================================================================
