-------------------------- MODULE MCDeviceCounters --------------------------
(* Instances of DeviceCounters for TLC: one device and one group MAC that  *)
(* compete for the map, on one processor or on two.                        *)
EXTENDS DeviceCounters

CONSTANTS d1, m1, c1, c2

OneCpu == {c1} \X Key
TwoCpus == {c1, c2} \X Key
=============================================================================
