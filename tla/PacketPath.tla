----------------------------- MODULE PacketPath -----------------------------
(***************************************************************************)
(* What the TC program counts on an interface, and how userspace steers    *)
(* and reads it.  Every IP packet of a monitored interface is either       *)
(* recognised as control-plane traffic (TCP to or from a management port   *)
(* of one of the router's own addresses) and ignored, or offered to the    *)
(* DNS ring buffer and added to IFACE_TRAFFIC_STATS.  The collector reads  *)
(* the counters every tick, every minute brings the map ROUTER_LOCAL_IPS   *)
(* in line with the topology, one system call at a time while packets keep *)
(* arriving, and books the increments of the interfaces it finds in the    *)
(* topology.                                                               *)
(*                                                                         *)
(* A packet is one of a connection between a client and a server; one      *)
(* packet is one byte.                                                     *)
(* MANAGEMENT_PORTS is a constant: loading fails unless the first sync     *)
(* installed it, and later syncs find nothing to change.                   *)
(***************************************************************************)
EXTENDS Integers, FiniteSets, Functions

CONSTANTS
  Ifaces,           \* monitored interfaces
  Configurations,   \* sets of addresses the router can be given
  MANAGEMENT_PORTS, \* 80, 443 and the API port
  Packets,          \* packets that can arrive, see Packet
  Cpus,             \* processors that run the eBPF program
  MaxIps,           \* capacity of ROUTER_LOCAL_IPS
  IFACE_MAX_ENTRIES, \* capacity of IFACE_TRAFFIC_STATS
  RingSize,         \* capacity of DNS_DATA, in events
  MaxPackets,       \* bound: packets that arrive
  MaxChanges,       \* bound: changes of addresses or interfaces
  MaxFailures       \* bound: map updates the kernel refuses

Address == UNION Configurations

\* An InterfaceTrafficKey: interface, IP version, direction.
Keys == Ifaces \X {4, 6} \X {"Ingress", "Egress"}

VARIABLES
  configured,       \* what the router has: addresses, interfaces that are up
  topology,         \* TopologySnapshot, as last discovered
  \* kernel
  ROUTER_LOCAL_IPS,
  IFACE_TRAFFIC_STATS,   \* 0: the key is absent
  DNS_DATA,         \* events waiting in the ring buffer
  cpu,              \* the packet a processor works on, and what it has read
  \* MonitorRuntime, and the locals of collect_snapshot
  pc,
  sync_due,         \* 60 s have passed since last_sync_tracking_ms
  tick,             \* the tick's clone of the topology, and iface_stats
  current,          \* sync_hash_map's copy of the map's keys
  todo,             \* keys the running loop of sync_hash_map has yet to visit
  prev_iface_bytes,
  cumulative_iface, \* what fill_quad has added from the key
  \* history
  settled,          \* addresses a sync installed and the topology kept since
  held,             \* addresses the router has had
  ignored,          \* packets that were ever ignored
  arrived,          \* packets of the key that were not ignored
  refused,          \* packets of the key that IFACE_TRAFFIC_STATS had no room for
  changes, failures

kernelVars == <<ROUTER_LOCAL_IPS, IFACE_TRAFFIC_STATS, DNS_DATA, cpu>>
runtimeVars == <<pc, sync_due, tick, current, todo,
                 prev_iface_bytes, cumulative_iface>>
ghostVars == <<settled, held, ignored, arrived, refused, changes, failures>>
vars == <<configured, topology, kernelVars, runtimeVars, ghostVars>>

Idle == [busy |-> FALSE]
NoTick == [topology |-> [addresses |-> {}, interfaces |-> {}],
           iface_stats |-> [k \in Keys |-> 0]]
Topology == [addresses : SUBSET Address, interfaces : SUBSET Ifaces]

\* toServer: the packet travels from client to server.  plain: its transport
\* header is where the filter looks for it (TCP, no later fragment, and in
\* IPv6 no extension header before it).  dns: it is a whole DNS message over
\* UDP or TCP port 53.
Packet == [iface : Ifaces, ip_version : {4, 6}, direction : {"Ingress", "Egress"},
           toServer : BOOLEAN, plain : BOOLEAN, dns : BOOLEAN,
           client : STRING, client_port : Nat, server : STRING, server_port : Nat]

ASSUME PacketsAssumption == Packets \subseteq Packet

\* A client connects from an ephemeral port, never from a port that the
\* router serves its pages on.
ASSUME ClientsAssumption == \A p \in Packets : p.client_port \notin MANAGEMENT_PORTS

TypeOK ==
  /\ configured \in Topology /\ topology \in Topology
  /\ ROUTER_LOCAL_IPS \subseteq Address /\ Cardinality(ROUTER_LOCAL_IPS) <= MaxIps
  /\ IFACE_TRAFFIC_STATS \in [Keys -> 0..MaxPackets]
  /\ DNS_DATA \in 0..RingSize
  /\ cpu \in [Cpus -> {Idle} \cup [busy : {TRUE}, key : Keys, read : 0..MaxPackets]]
  /\ pc \in {"idle", "sync", "remove", "insert", "book"}
  /\ sync_due \in BOOLEAN
  /\ tick.topology \in Topology /\ tick.iface_stats \in [Keys -> 0..MaxPackets]
  /\ current \subseteq Address /\ todo \subseteq Address
  /\ prev_iface_bytes \in [Keys -> 0..MaxPackets]
  /\ cumulative_iface \in [Keys -> Nat]
  /\ settled \subseteq Address /\ held \subseteq Address
  /\ ignored \subseteq Packets
  /\ arrived \in [Keys -> 0..MaxPackets]
  /\ refused \in [Keys -> 0..MaxPackets]
  /\ changes \in 0..MaxChanges /\ failures \in 0..MaxFailures

\* The programs are attached after load_ebpf filled the filter maps.
Init ==
  /\ configured \in [addresses : Configurations, interfaces : {Ifaces}]
  /\ topology = configured
  /\ ROUTER_LOCAL_IPS = topology.addresses
  /\ IFACE_TRAFFIC_STATS = [k \in Keys |-> 0]
  /\ DNS_DATA = 0
  /\ cpu = [c \in Cpus |-> Idle]
  /\ pc = "idle" /\ sync_due = TRUE
  /\ tick = NoTick
  /\ current = {} /\ todo = {}
  /\ prev_iface_bytes = [k \in Keys |-> 0]
  /\ cumulative_iface = [k \in Keys |-> 0]
  /\ settled = topology.addresses /\ held = topology.addresses
  /\ ignored = {}
  /\ arrived = [k \in Keys |-> 0] /\ refused = [k \in Keys |-> 0]
  /\ changes = 0 /\ failures = 0

-----------------------------------------------------------------------------
(* The router *)

Reconfigure ==
  /\ changes < MaxChanges
  /\ changes' = changes + 1
  /\ \/ \E a \in Configurations \ {configured.addresses} :
          /\ configured' = [configured EXCEPT !.addresses = a]
          /\ held' = held \cup a
     \/ \E i \in Ifaces :
          /\ configured' = [configured EXCEPT !.interfaces =
                              IF i \in @ THEN @ \ {i} ELSE @ \cup {i}]
          /\ UNCHANGED held
  /\ UNCHANGED <<topology, kernelVars, runtimeVars, settled, ignored, arrived,
                 refused, failures>>

\* The topology task; a failed discovery keeps the snapshot.
Discover ==
  /\ topology # configured
  /\ topology' = configured
  /\ settled' = settled \cap configured.addresses
  /\ UNCHANGED <<configured, kernelVars, runtimeVars, held, ignored, arrived, refused,
                 changes, failures>>

\* When getifaddrs fails, discover succeeds without any address.
DiscoverNoAddresses ==
  /\ failures < MaxFailures
  /\ failures' = failures + 1
  /\ topology' = [configured EXCEPT !.addresses = {}]
  /\ settled' = {}
  /\ UNCHANGED <<configured, kernelVars, runtimeVars, held, ignored, arrived,
                 refused, changes>>

-----------------------------------------------------------------------------
(* The TC program *)

Source(p) == IF p.toServer THEN [ip |-> p.client, port |-> p.client_port]
                           ELSE [ip |-> p.server, port |-> p.server_port]

Destination(p) == IF p.toServer THEN [ip |-> p.server, port |-> p.server_port]
                                ELSE [ip |-> p.client, port |-> p.client_port]

Local(p) == IF p.direction = "Ingress" THEN Destination(p) ELSE Source(p)

\* Mutant: both ports are compared.
AnyPortMatches(p) == {Source(p).port, Destination(p).port} \cap MANAGEMENT_PORTS # {}

management_port_matches(p) == Local(p).port \in MANAGEMENT_PORTS

is_management_packet(p) ==
  /\ p.plain
  /\ management_port_matches(p)
  /\ Local(p).ip \in ROUTER_LOCAL_IPS

is_dns_packet(p) == p.dns

\* A packet the ring buffer has no room for is not captured, but it counts.
capture_dns_packet(p) ==
  DNS_DATA' = IF is_dns_packet(p) /\ DNS_DATA < RingSize THEN DNS_DATA + 1 ELSE DNS_DATA

Key(p) == <<p.iface, p.ip_version, p.direction>>

Arrive(c, p) ==
  /\ cpu[c] = Idle
  /\ p.iface \in configured.interfaces
  /\ SumFunction(arrived) < MaxPackets

\* resolve_packet_meta returns None: the packet passes, and leaves no trace.
Ignore(c, p) ==
  /\ Arrive(c, p)
  /\ is_management_packet(p)
  /\ ignored' = ignored \cup {p}
  /\ UNCHANGED <<configured, topology, kernelVars, runtimeVars, settled, held,
                 arrived, refused, changes, failures>>

\* The first half of bump_iface_counter: the counter is read.
Accept(c, p) ==
  /\ Arrive(c, p)
  /\ ~is_management_packet(p)
  /\ capture_dns_packet(p)
  /\ cpu' = [cpu EXCEPT ![c] = [busy |-> TRUE, key |-> Key(p),
                               read |-> IFACE_TRAFFIC_STATS[Key(p)]]]
  /\ arrived' = [arrived EXCEPT ![Key(p)] = @ + 1]
  /\ UNCHANGED <<configured, topology, ROUTER_LOCAL_IPS, IFACE_TRAFFIC_STATS,
                 runtimeVars, settled, held, ignored, refused, changes, failures>>

Present == {k \in Keys : IFACE_TRAFFIC_STATS[k] > 0}

\* Every key that is present can be written; a new one needs a free entry.
HasRoom(k) == k \in Present \/ Cardinality(Present) < IFACE_MAX_ENTRIES

\* The second half: the sum is stored, or inserted for a key that was absent.
Store(c) ==
  /\ cpu[c] # Idle
  /\ HasRoom(cpu[c].key)
  /\ IFACE_TRAFFIC_STATS' = [IFACE_TRAFFIC_STATS EXCEPT ![cpu[c].key] = cpu[c].read + 1]
  /\ cpu' = [cpu EXCEPT ![c] = Idle]
  /\ UNCHANGED <<configured, topology, ROUTER_LOCAL_IPS, DNS_DATA, runtimeVars, ghostVars>>

\* The result of the insertion is dropped: the packet is not counted.
StoreFails(c) ==
  /\ cpu[c] # Idle
  /\ ~HasRoom(cpu[c].key)
  /\ cpu' = [cpu EXCEPT ![c] = Idle]
  /\ refused' = [refused EXCEPT ![cpu[c].key] = @ + 1]
  /\ UNCHANGED <<configured, topology, ROUTER_LOCAL_IPS, IFACE_TRAFFIC_STATS, DNS_DATA,
                 runtimeVars, settled, held, ignored, arrived, changes, failures>>

\* The DNS task drains the ring buffer (what it does next: module DnsMonitor).
Consume ==
  /\ DNS_DATA > 0
  /\ DNS_DATA' = DNS_DATA - 1
  /\ UNCHANGED <<configured, topology, ROUTER_LOCAL_IPS, IFACE_TRAFFIC_STATS, cpu,
                 runtimeVars, ghostVars>>

-----------------------------------------------------------------------------
(* The collector *)

\* The locals of collect_snapshot start afresh with every tick (NoTick).
\* The tick clones the topology, then reads the counters; a read that fails
\* ends the tick before anything was changed.
BeginTick ==
  /\ pc = "idle"
  /\ tick' = [topology |-> topology, iface_stats |-> IFACE_TRAFFIC_STATS]
  /\ pc' = IF sync_due THEN "sync" ELSE "book"
  /\ UNCHANGED <<configured, topology, kernelVars, sync_due, current, todo,
                 prev_iface_bytes, cumulative_iface, ghostVars>>

desired == tick.topology.addresses

\* Mutant: the map is emptied and filled again.
EveryKey(keys) == keys

Stale(keys) == keys \ desired

\* Mutant: new keys are inserted before stale ones are removed.
InsertsFirst == <<"insert", "remove">>

Loops == <<"remove", "insert">>

Work(loop, keys) == IF loop = "remove" THEN Stale(keys) ELSE desired \ keys

\* sync_hash_map copies the keys before it changes any.
BeginSync ==
  /\ pc = "sync"
  /\ current' = ROUTER_LOCAL_IPS
  /\ pc' = Loops[1]
  /\ todo' = Work(Loops[1], ROUTER_LOCAL_IPS)
  /\ UNCHANGED <<configured, topology, kernelVars, sync_due, tick,
                 prev_iface_bytes, cumulative_iface, ghostVars>>

Visit(loop, a) ==
  /\ pc = loop
  /\ a \in todo
  /\ todo' = todo \ {a}

RemoveKey(a) ==
  /\ Visit("remove", a)
  /\ ROUTER_LOCAL_IPS' = ROUTER_LOCAL_IPS \ {a}
  /\ UNCHANGED <<configured, topology, IFACE_TRAFFIC_STATS, DNS_DATA, cpu,
                 pc, sync_due, tick, current, prev_iface_bytes, cumulative_iface,
                 ghostVars>>

\* The result of a removal is dropped, and the loop goes on.
RemoveKeyFails(a) ==
  /\ failures < MaxFailures
  /\ Visit("remove", a)
  /\ failures' = failures + 1
  /\ UNCHANGED <<configured, topology, kernelVars, pc, sync_due, tick, current,
                 prev_iface_bytes, cumulative_iface, settled, held, ignored,
                 arrived, refused, changes>>

InsertKey(a) ==
  /\ Visit("insert", a)
  /\ Cardinality(ROUTER_LOCAL_IPS) < MaxIps
  /\ ROUTER_LOCAL_IPS' = ROUTER_LOCAL_IPS \cup {a}
  /\ UNCHANGED <<configured, topology, IFACE_TRAFFIC_STATS, DNS_DATA, cpu,
                 pc, sync_due, tick, current, prev_iface_bytes, cumulative_iface,
                 ghostVars>>

\* A full map, or an error of the kernel, ends the sync.  It counts as done:
\* the next attempt is a minute away.
InsertKeyFails(a) ==
  /\ Visit("insert", a)
  /\ \/ /\ Cardinality(ROUTER_LOCAL_IPS) = MaxIps
        /\ UNCHANGED failures
     \/ /\ failures < MaxFailures
        /\ failures' = failures + 1
  /\ sync_due' = FALSE
  /\ pc' = "book"
  /\ UNCHANGED <<configured, topology, kernelVars, tick, current,
                 prev_iface_bytes, cumulative_iface, settled, held, ignored,
                 arrived, refused, changes>>

NextLoop ==
  /\ pc = Loops[1] /\ todo = {}
  /\ pc' = Loops[2]
  /\ todo' = Work(Loops[2], current)
  /\ UNCHANGED <<configured, topology, kernelVars, sync_due, tick, current,
                 prev_iface_bytes, cumulative_iface, ghostVars>>

FinishSync ==
  /\ pc = Loops[2] /\ todo = {}
  /\ pc' = "book"
  /\ sync_due' = FALSE
  /\ settled' = settled \cup (desired \cap topology.addresses)
  /\ UNCHANGED <<configured, topology, kernelVars, tick, current, todo,
                 prev_iface_bytes, cumulative_iface, held, ignored, arrived, refused,
                 changes, failures>>

delta_bytes(now, prev) == IF now >= prev THEN now - prev ELSE now

\* Mutant: the baseline moves before the interface is looked up.
EveryIface == Ifaces

\* An interface that is not in the topology is skipped before its baseline
\* is replaced.
Booked == tick.topology.interfaces

Book ==
  /\ pc = "book"
  /\ prev_iface_bytes' = [k \in Keys |->
       IF k[1] \in Booked THEN tick.iface_stats[k] ELSE prev_iface_bytes[k]]
  /\ cumulative_iface' = [k \in Keys |->
       IF k[1] \in tick.topology.interfaces
       THEN cumulative_iface[k] + delta_bytes(tick.iface_stats[k], prev_iface_bytes[k])
       ELSE cumulative_iface[k]]
  /\ pc' = "idle"
  /\ tick' = NoTick
  /\ current' = {} /\ todo' = {}
  /\ UNCHANGED <<configured, topology, kernelVars, sync_due, ghostVars>>

MinutePasses ==
  /\ ~sync_due
  /\ sync_due' = TRUE
  /\ UNCHANGED <<configured, topology, kernelVars, pc, tick, current, todo,
                 prev_iface_bytes, cumulative_iface, ghostVars>>

Sync ==
  \/ BeginSync \/ NextLoop \/ FinishSync
  \/ \E a \in Address : \/ RemoveKey(a) \/ RemoveKeyFails(a)
                        \/ InsertKey(a) \/ InsertKeyFails(a)

Next ==
  \/ Reconfigure \/ Discover \/ DiscoverNoAddresses
  \/ \E c \in Cpus, p \in Packets : Ignore(c, p) \/ Accept(c, p)
  \/ \E c \in Cpus : Store(c) \/ StoreFails(c)
  \/ Consume
  \/ BeginTick \/ Sync \/ Book \/ MinutePasses

Spec == Init /\ [][Next]_vars

\* The collector and the topology task are loops over timers; an eBPF program
\* runs to its end.  Nothing else has to happen.
FairSpec ==
  /\ Spec
  /\ WF_vars(Discover)
  /\ WF_vars(BeginTick) /\ WF_vars(Sync) /\ WF_vars(Book) /\ WF_vars(MinutePasses)
  /\ \A c \in Cpus : WF_vars(Store(c) \/ StoreFails(c))

-----------------------------------------------------------------------------
(* Properties *)

\* The packet belongs to a connection with one of the router's own services:
\* the server's side is asked, whichever way the packet travels.
ControlPlane(p, addresses) ==
  p.server \in addresses /\ p.server_port \in MANAGEMENT_PORTS

\* While a sync rewrites ROUTER_LOCAL_IPS key by key, aborts or fails, an
\* address that an earlier sync installed and that the topology has kept
\* since is in the map: its LuCI and API packets are never counted
\* (is_management_packet).
ManagementStaysFiltered == settled \subseteq ROUTER_LOCAL_IPS

\* Only packets of connections with a management port of an address that the
\* router has or had are ignored; the router's own and the clients'
\* connections to a web server elsewhere are counted
\* (management_port_matches looks at the router's end only).
OnlyControlPlaneIgnored == \A p \in ignored : ControlPlane(p, held)

\* Every packet that was not ignored is booked on its key exactly once: it is
\* in the total, in the counter above the baseline, or still with the
\* processor; a full DNS ring buffer or an interface that is missing from
\* the topology for some ticks loses none.  Only bump_iface_counter can lose
\* it, and only of a key that IFACE_TRAFFIC_STATS never had room for.
EveryPacketBooked ==
  \A k \in Keys :
    /\ cumulative_iface[k] + delta_bytes(IFACE_TRAFFIC_STATS[k], prev_iface_bytes[k])
         + Cardinality({c \in Cpus : cpu[c].busy /\ cpu[c].key = k})
         + refused[k] = arrived[k]
    /\ refused[k] > 0 => ~HasRoom(k)

\* Why it stays: during a tick every settled address is among the desired
\* ones, the first loop visits no desired address, and the second leaves out
\* only desired addresses that the map had when it was copied.
FilterInv ==
  /\ settled \subseteq topology.addresses
  /\ settled \subseteq ROUTER_LOCAL_IPS
  /\ pc \in {"idle", "sync", "remove", "insert", "book"}
  /\ pc # "idle" => settled \subseteq desired
  /\ pc = "remove" => /\ todo \cap desired = {}
                      /\ desired \cap current \subseteq ROUTER_LOCAL_IPS
  /\ pc = "insert" => desired \ todo \subseteq ROUTER_LOCAL_IPS

\* Once the router's addresses stop changing the filter holds exactly these,
\* even if updates failed on the way, getifaddrs emptied the filter for a
\* while, or old and new addresses together do not fit the map:
\* sync_hash_map removes before it inserts, and a failed sync is tried again.
FilterConverges == <>[](ROUTER_LOCAL_IPS = configured.addresses)
=============================================================================
