---------------------------- MODULE MCLockOrder ----------------------------
(* Tasks that share locks, for TLC. *)
EXTENDS LockOrder

\* The tasks of the comment in run_service: two that nest runtime and
\* topology, the collector, and the only writer of topology.
Nesting == [t1 |-> "collector", t2 |-> "topology_updater", t3 |-> "dns_reader",
            t4 |-> "set_device_hostname"]

\* The tasks that remove devices, and the nested histogram reader.
Removal == [t1 |-> "collector", t2 |-> "delete_device", t3 |-> "usage_ranking"]
Cleanup == [t1 |-> "collector", t2 |-> "delete_device", t3 |-> "ttl_cleanup"]

\* The read-only API requests and the collector that writes what they read.
Readers == [t1 |-> "collector", t2 |-> "aggregate", t3 |-> "overview"]

\* DNS, conntrack and a history request.
Service == [t1 |-> "dns_reader", t2 |-> "dns_access", t3 |-> "conntrack_stats",
            t4 |-> "conntrack_update", t5 |-> "history"]

\* The table of connections: written by two, read by API requests.
Connections == [t1 |-> "collector", t2 |-> "conntrack_stats", t3 |-> "conntrack_update",
                t4 |-> "conntrack_request"]

MCMixes == {Nesting, Removal, Cleanup, Readers, Service, Connections}
=============================================================================
