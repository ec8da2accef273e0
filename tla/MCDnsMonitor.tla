---------------------------- MODULE MCDnsMonitor ----------------------------
(* Instances of DnsMonitor and DnsQueries for TLC. *)
EXTENDS DnsQueries

CONSTANTS k1, k2, k3

\* The keys are interchangeable.
KeySymmetry == Permutations(Keys)
=============================================================================
