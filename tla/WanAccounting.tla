--------------------------- MODULE WanAccounting ----------------------------
(***************************************************************************)
(* Which account a byte of a monitored interface is added to, given that   *)
(* the collector decides by the zone of the interface: the WAN interface   *)
(* feeds the device "WAN (External)" from IFACE_TRAFFIC_STATS, every other *)
(* interface feeds the devices behind it from DEVICE_TRAFFIC_STATS, which  *)
(* the eBPF program fills for interfaces that TRACK_DEVICES marks.  The    *)
(* two counters, the marks and the zones are read and written by different *)
(* tasks at different times, and a zone is unknown whenever ubus fails.    *)
(*                                                                         *)
(* Packets have an identity, so that a counter is the set of packets it    *)
(* counted and a baseline the set it was last seen with.  There is one     *)
(* neighbour behind each interface; the device key <<ifindex, mac>> is     *)
(* abstracted to the ifindex.                                              *)
(***************************************************************************)
EXTENDS Startup

CONSTANTS
  Provider,    \* interfaces that lead to the provider, as the configuration means it
  MaxPackets   \* bound: packets that arrive

\* The first zone section that lists a device is one of the provider's.
ProviderZone(d) ==
  \E i \in DOMAIN Firewall :
    /\ d \in ZoneDevices(Firewall[i], Network) /\ StartsWithWan(Firewall[i].name)
    /\ \A j \in DOMAIN Firewall : d \in ZoneDevices(Firewall[j], Network) => i <= j

\* The configuration puts such an interface, or the one below it, in a zone
\* of the provider.
ASSUME ProviderAssumption ==
  \A n \in Provider :
    \/ ProviderZone(n)
    \/ /\ \A i \in DOMAIN Firewall : n \notin ZoneDevices(Firewall[i], Network)
       /\ infer_parent_name(n) # None /\ ProviderZone(infer_parent_name(n))

VARIABLES
  \* kernel
  TRACK_DEVICES,         \* interfaces marked 1 (0 and absent are the same)
  IFACE_TRAFFIC_STATS,
  DEVICE_TRAFFIC_STATS,
  cpu,                   \* packets between the two counters
  \* the collector
  pc,
  tick,                  \* its clone of the topology, iface_stats, device_stats
  sync_due,              \* 60 s have passed since last_sync_tracking_ms
  prev_iface_bytes, prev_device_bytes,
  device_registry,
  \* accounts
  wan_device, lan_devices, unresolved,
  \* history
  iface_role, device_role   \* packet -> its interface's role when the counter was booked

kernelVars == <<TRACK_DEVICES, IFACE_TRAFFIC_STATS, DEVICE_TRAFFIC_STATS, cpu>>
accountVars == <<prev_iface_bytes, prev_device_bytes, device_registry,
                 wan_device, lan_devices, unresolved, iface_role, device_role>>
vars == <<startupVars, kernelVars, pc, tick, sync_due, accountVars>>

NoTick == [topology |-> discover([n \in {} |-> 0], {}, NoZones),
           iface_stats |-> {}, device_stats |-> {}]

Init ==
  /\ StartupInit
  /\ TRACK_DEVICES = {}
  /\ IFACE_TRAFFIC_STATS = {} /\ DEVICE_TRAFFIC_STATS = {} /\ cpu = {}
  /\ pc = "idle" /\ tick = NoTick /\ sync_due = TRUE
  /\ prev_iface_bytes = {} /\ prev_device_bytes = {}
  /\ device_registry = {}
  /\ wan_device = {} /\ lan_devices = {} /\ unresolved = {}
  /\ iface_role = [p \in {} |-> ""] /\ device_role = [p \in {} |-> ""]

-----------------------------------------------------------------------------
(* The TC program *)

\* bump_iface_counter
CountIface(i) ==
  /\ \E a \in attached : a.ifindex = i
  /\ Cardinality(IFACE_TRAFFIC_STATS) < MaxPackets
  /\ LET p == [id |-> Cardinality(IFACE_TRAFFIC_STATS) + 1, ifindex |-> i] IN
       /\ IFACE_TRAFFIC_STATS' = IFACE_TRAFFIC_STATS \cup {p}
       /\ cpu' = cpu \cup {p}
  /\ UNCHANGED <<startupVars, TRACK_DEVICES, DEVICE_TRAFFIC_STATS, pc, tick, sync_due,
                 accountVars>>

\* The lookup of TRACK_DEVICES and bump_device_counter.
CountDevice(p) ==
  /\ p \in cpu
  /\ cpu' = cpu \ {p}
  /\ DEVICE_TRAFFIC_STATS' =
       IF p.ifindex \in TRACK_DEVICES THEN DEVICE_TRAFFIC_STATS \cup {p}
                                      ELSE DEVICE_TRAFFIC_STATS
  /\ UNCHANGED <<startupVars, TRACK_DEVICES, IFACE_TRAFFIC_STATS, pc, tick, sync_due,
                 accountVars>>

-----------------------------------------------------------------------------
(* The collector *)

BeginTick ==
  /\ phase = "serving" /\ pc = "idle"
  /\ tick' = [NoTick EXCEPT !.topology = topology, !.iface_stats = IFACE_TRAFFIC_STATS]
  /\ pc' = "read_device_stats"
  /\ UNCHANGED <<startupVars, kernelVars, sync_due, accountVars>>

ReadDeviceStats ==
  /\ pc = "read_device_stats"
  /\ tick' = [tick EXCEPT !.device_stats = DEVICE_TRAFFIC_STATS]
  /\ pc' = "book"
  /\ UNCHANGED <<startupVars, kernelVars, sync_due, accountVars>>

\* The monitored interfaces of the tick's topology.
TickIfaces == {n \in DOMAIN tick.topology : Monitored(n)}
Index(names) == {tick.topology[n].ifindex : n \in names}

Upstream == {n \in TickIfaces : StartsWithWan(tick.topology[n].zone)}

\* Mutant: a mark is only ever set.
MarksOnly == TRACK_DEVICES \cup Index(TickIfaces \ Upstream)

\* What sync_device_tracking writes 1 for, and what it leaves at 1 because
\* the interface is not in the topology any more.
Marked == Index(TickIfaces \ Upstream) \cup (TRACK_DEVICES \ Index(TickIfaces))

\* An insert that fails is ignored: the mark stays as it was.
sync_device_tracking ==
  \/ TRACK_DEVICES' = Marked /\ UNCHANGED faults
  \/ /\ Fault
     /\ \E i \in Index(TickIfaces) :
          TRACK_DEVICES' = (Marked \ {i}) \cup (TRACK_DEVICES \cap {i})

\* Mutant: a device counter of the WAN interface is booked like any other.
NothingSkipped(i) == FALSE

\* "Already accounted for by the WAN interface counters."
Skipped(i) == i = wan_ifindex(tick.topology)

Role(i) == IF i = wan_ifindex(tick.topology) THEN "wan"
           ELSE IF i \in Index(TickIfaces) THEN "lan" ELSE "absent"

\* The rest of the tick.  neighbors: the interfaces whose neighbour is in the
\* ARP table.  A device counter that moves makes a registered device active;
\* the baselines of interfaces that are not in the topology stay.
Book(neighbors) ==
  /\ pc = "book"
  /\ neighbors \subseteq Index(TickIfaces \ Upstream)
  /\ IF sync_due THEN sync_device_tracking ELSE UNCHANGED <<TRACK_DEVICES, faults>>
  /\ sync_due' = FALSE
  /\ LET wan == wan_ifindex(tick.topology)
         iface_delta == {p \in tick.iface_stats \ prev_iface_bytes :
                           p.ifindex \in Index(TickIfaces)}
         device_delta == tick.device_stats \ prev_device_bytes
         active == {i \in device_registry : i # wan /\ \E p \in device_delta : p.ifindex = i}
         devices_group == neighbors \cup active
         credited == {p \in device_delta : p.ifindex \in devices_group}
         others == {p \in device_delta \ credited : ~Skipped(p.ifindex)}
     IN  /\ prev_iface_bytes' = prev_iface_bytes \cup iface_delta
         /\ prev_device_bytes' = prev_device_bytes \cup device_delta
         /\ wan_device' = wan_device \cup {p \in iface_delta : p.ifindex = wan}
         /\ lan_devices' = lan_devices \cup credited
         /\ unresolved' = unresolved \cup {p \in others : p.ifindex \in Index(TickIfaces)}
         /\ device_registry' = device_registry \cup devices_group
         /\ iface_role' = [p \in prev_iface_bytes' |->
              IF p \in iface_delta THEN Role(p.ifindex) ELSE iface_role[p]]
         /\ device_role' = [p \in prev_device_bytes' |->
              IF p \in device_delta THEN Role(p.ifindex) ELSE device_role[p]]
  /\ pc' = "idle" /\ tick' = NoTick
  /\ UNCHANGED <<systemVars, processVars, topology, zones_lost,
                 IFACE_TRAFFIC_STATS, DEVICE_TRAFFIC_STATS, cpu>>

MinutePasses ==
  /\ phase = "serving" /\ ~sync_due
  /\ sync_due' = TRUE
  /\ UNCHANGED <<startupVars, kernelVars, pc, tick, accountVars>>

Collect ==
  \/ BeginTick \/ ReadDeviceStats
  \/ \E neighbors \in SUBSET Index(TickIfaces) : Book(neighbors)

Beside(A) == A /\ UNCHANGED <<kernelVars, pc, tick, sync_due, accountVars>>

Next ==
  \/ Beside(StartupNext)
  \/ \E i \in 1..last_ifindex : CountIface(i)
  \/ \E p \in cpu : CountDevice(p)
  \/ Collect \/ MinutePasses

\* The start goes on, the tasks are loops over timers and a TC program runs to
\* its end; interfaces need not come back and packets need not arrive.
Spec ==
  /\ Init /\ [][Next]_vars
  /\ WF_vars(Beside(Run \/ RunService \/ LoadPrograms \/ Attach \/ AttachHooks
                      \/ StartServer))
  /\ WF_vars(Beside(RefreshTopology))
  /\ WF_vars(Collect) /\ WF_vars(MinutePasses)
  /\ WF_vars(\E p \in cpu : CountDevice(p))

-----------------------------------------------------------------------------
(* Properties *)

Accounts(p) == {a \in {"wan", "lan", "unresolved"} :
  p \in (CASE a = "wan" -> wan_device [] a = "lan" -> lan_devices [] a = "unresolved" -> unresolved)}

\* A byte that both counters counted is added to exactly one account, and a
\* byte that only the interface counter counted to none but WAN (External),
\* as long as the ticks that read the two counters agree on the role of the
\* interface; whether TRACK_DEVICES lags behind the zones, the zones were
\* lost for a while or the packet came between the two reads does not
\* matter (the loop over device_stats, and wan_tc_metrics).
AttributedOnce ==
  \A p \in prev_iface_bytes :
    /\ p \in prev_device_bytes /\ iface_role[p] = device_role[p] =>
         Cardinality(Accounts(p)) = 1
    /\ p \notin DEVICE_TRAFFIC_STATS => Accounts(p) \subseteq {"wan"}

\* Unless a snapshot was made without zones, what is behind an interface
\* of the provider, or a VLAN of one, is never registered as a device and
\* none of its bytes is an unresolved LAN byte (ZoneOf, sync_device_tracking
\* and the neighbour loop).
UpstreamNotADevice ==
  ~zones_lost =>
    \A links_of \in {InitLinks, links} : \A n \in Provider \cap DOMAIN links_of :
      /\ links_of[n] \notin device_registry
      /\ \A p \in unresolved : p.ifindex # links_of[n]

\* Once the system answers and the interfaces stay, the eBPF program counts
\* devices on exactly the monitored interfaces of the topology that are not
\* upstream: a mark that a lost zone or a failed insert left wrong is put
\* right by a later sync (sync_device_tracking).
TrackingSettles ==
  <>[](phase = "serving" =>
         \A n \in DOMAIN discover(links, Addressed, Zones) : Monitored(n) =>
           (links[n] \in TRACK_DEVICES <=> n \notin Provider))
=============================================================================
