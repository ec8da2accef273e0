---------------------------- MODULE MCConntrack ----------------------------
(* Instances of Conntrack for TLC. *)
EXTENDS Conntrack

CONSTANTS k1, k2, i1, i2, d1, d2, a1

\* Both connections come from the one address there is.
MCSource == [k \in Keys |-> a1]
=============================================================================
