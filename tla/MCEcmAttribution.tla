------------------------- MODULE MCEcmAttribution -------------------------
(***************************************************************************)
(* An instance of EcmAttribution: two devices on two monitored interfaces, *)
(* which may both claim an address, and an interface that is not           *)
(* monitored.  An IPv4 address is in one subnet, monitored or not, in two  *)
(* (and private), the router's own on the WAN, or anywhere else; an IPv6   *)
(* address is in one subnet.                                               *)
(***************************************************************************)
EXTENDS EcmAttribution, TLC

CONSTANTS a1, d1, d2, lan, guest, iot

At(v6, subnets, own, local) ==
  [v6 |-> v6, subnets |-> subnets, own |-> own, local |-> local]

MCIfaceOf == d1 :> lan @@ d2 :> guest
MCPlaces == {At(FALSE, {lan}, FALSE, TRUE), At(FALSE, {lan, guest}, FALSE, TRUE),
             At(FALSE, {iot}, FALSE, TRUE), At(FALSE, {}, TRUE, FALSE),
             At(FALSE, {}, FALSE, FALSE), At(TRUE, {lan}, FALSE, FALSE)}
=============================================================================
