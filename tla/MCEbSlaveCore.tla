--------------------------- MODULE MCEbSlaveCore ---------------------------
(* A core with FIFOs of two entries and short records.                     *)
EXTENDS EbSlaveCore

Header(w, r, wc, rc, l) ==
    [writes |-> w, reads |-> r, writeConfig |-> wc, readConfig |-> rc, last |-> l]

(* Records of which the first operation on the bus is not the last of a    *)
(* record that leaves the cycle open.                                      *)
MCRecords == {Header(0, 0, FALSE, FALSE, TRUE), Header(2, 0, FALSE, FALSE, FALSE),
              Header(1, 1, FALSE, FALSE, TRUE), Header(0, 2, FALSE, TRUE, TRUE),
              Header(1, 2, TRUE, FALSE, TRUE)}
============================================================================
