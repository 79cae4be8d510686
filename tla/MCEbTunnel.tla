----------------------------- MODULE MCEbTunnel -----------------------------
(* Two programs behind the tunnel, each with a device of its own, and one *)
(* machine that sends what nobody asked for.                              *)
EXTENDS EbTunnel, TLC

CONSTANTS c1, c2, device, device6, other

MCTarget == c1 :> device @@ c2 :> device6
MCLoads == {c1 :> 2 @@ c2 :> 0, c1 :> 1 @@ c2 :> 1}
MCStray == {<<c1, other>>}
MCText == [h \in {device, device6, other, Nobody} |-> IF h = device6 THEN Nobody ELSE h]
=============================================================================
