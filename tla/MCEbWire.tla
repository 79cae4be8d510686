------------------------------ MODULE MCEbWire ------------------------------
(* Queues of one long cycle between two short ones for EbWire. *)
EXTENDS EbWire

CONSTANT Long   \* operations of the long cycle

BusWrite(a) == [read |-> FALSE, cfg |-> FALSE, addr |-> a, full |-> TRUE]
BusRead(a) == [read |-> TRUE, cfg |-> FALSE, addr |-> a, full |-> TRUE]
HalfWrite(a) == [read |-> FALSE, cfg |-> FALSE, addr |-> a, full |-> FALSE]
HalfRead(a) == [read |-> TRUE, cfg |-> FALSE, addr |-> a, full |-> FALSE]
CfgWrite(a) == [read |-> FALSE, cfg |-> TRUE, addr |-> a, full |-> TRUE]
CfgRead(a) == [read |-> TRUE, cfg |-> TRUE, addr |-> a, full |-> TRUE]

MCOps == {BusWrite(0), BusWrite(2), BusRead(0), BusRead(2), HalfWrite(1),
          HalfRead(1), CfgWrite(0), CfgRead(2)}
MCDead == {1, 2}

MCQueues ==
  {<<[ops |-> <<BusWrite(0)>>, check |-> FALSE],
     [ops |-> t, check |-> k],
     [ops |-> <<BusRead(2)>>, check |-> TRUE]>> :
       t \in BoundedSeq(MCOps, Long), k \in BOOLEAN}
=============================================================================
