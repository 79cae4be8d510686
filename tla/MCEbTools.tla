------------------------------ MODULE MCEbTools ------------------------------
(* Small trees of tables for EbSdb, and commands for EbTools. *)
EXTENDS EbTools

CONSTANTS root, a, b, dev, net

Device(id, f, l) ==
  [type |-> "device", id |-> id, first |-> f, last |-> l, child |-> root, active |-> FALSE]
Bridge(id, f, l, c) ==
  [type |-> "bridge", id |-> id, first |-> f, last |-> l, child |-> c, active |-> FALSE]
Msi(f, l, on) ==
  [type |-> "msi", id |-> net, first |-> f, last |-> l, child |-> root, active |-> on]

Deep == root :> <<Msi(1, 9, TRUE), Bridge(net, 4, 9, a), Device(dev, 0, 5)>>
     @@ a :> <<Msi(2, 7, TRUE), Device(dev, 0, 1), Bridge(dev, 2, 5, b)>>
     @@ b :> <<Device(dev, 1, 2), Msi(1, 3, TRUE)>>
Wide == root :> <<Bridge(dev, 0, 3, a), Bridge(net, 4, 9, b)>>
     @@ a :> <<Device(dev, 0, 1), Msi(0, 3, FALSE)>>
     @@ b :> <<Device(net, 0, 2), Msi(0, 3, TRUE)>>
Broken == root :> <<Msi(1, 9, TRUE), Bridge(net, 0, 3, a), Bridge(dev, 4, 9, b)>>
       @@ a :> NoTable
       @@ b :> <<Msi(1, 2, TRUE), Msi(3, 4, TRUE), Device(dev, 0, 2)>>
Large == root :> <<Bridge(net, 0, 3, a), Device(dev, 4, 5), Bridge(net, 6, 9, b)>>
      @@ a :> <<Device(dev, 0, 0), Device(dev, 1, 1), Device(dev, 2, 2), Device(dev, 3, 3)>>
      @@ b :> <<>>

MCBus == {root, a, b}
MCTrees == {Deep, Wide, Broken, Large}
MCIds == {dev, net}

\* One device takes words and half words, big endian; the other words only.
MCPort == dev :> [endian |-> "big", sizes |-> {2, 4}]
       @@ net :> [endian |-> "little", sizes |-> {4}]

MCFirmware(j) == <<"file", j>>
MCMemory(at) == <<"memory", at>>
MCGiven(len, k) == <<"value", len, k>>

Of(tool, at, len) ==
  [tool |-> tool, at |-> at, len |-> len, endian |-> "none", probe |-> TRUE,
   quietly |-> FALSE, exact |-> FALSE, batch |-> 1]

\* Transfers aligned and not, shorter and longer than a batch, and such that are
\* not told the byte order, or do not want to hear of errors.
Move(tool) ==
  {Of(tool, at, len) : at \in {2, 4, 5}, len \in {2, 7, 12}}
    \cup {[Of(tool, at, 18) EXCEPT !.batch = 2, !.endian = "little", !.probe = FALSE]
            : at \in {2, 3}}
    \cup {[Of(tool, at, 8) EXCEPT !.quietly = TRUE, !.endian = "big"] : at \in {2, 4}}
    \cup {[Of(tool, 1, len) EXCEPT !.probe = FALSE, !.endian = "big", !.batch = 2]
            : len \in {2, 7}}
    \cup {[Of(tool, 4, 4) EXCEPT !.probe = FALSE]}

\* Accesses of every size and in both orders.
One(tool) ==
  {[Of(tool, x[1], x[2]) EXCEPT !.endian = e, !.quietly = q]
     : x \in {<<2, 1>>, <<4, 4>>, <<4, 2>>, <<5, 1>>}, e \in {"none", "big", "little"},
       q \in BOOLEAN}
    \cup {[Of(tool, 4, len) EXCEPT !.exact = TRUE] : len \in {2, 8}}
    \cup {[Of(tool, 8, len) EXCEPT !.probe = FALSE, !.endian = e]
            : len \in {4, 8}, e \in {"none", "big", "little"}}
MCCommands == Move("put") \cup Move("get") \cup One("read") \cup One("write")
=============================================================================
