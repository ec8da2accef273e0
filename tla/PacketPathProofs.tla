-------------------------- MODULE PacketPathProofs --------------------------
(***************************************************************************)
(* The filter of control-plane packets, for any set of addresses, any      *)
(* capacity of the map and any number of processors and failures: a sync   *)
(* never takes an address out of ROUTER_LOCAL_IPS that the topology kept,  *)
(* and what is ignored is control-plane traffic.  With one processor every *)
(* other packet is booked once.                                            *)
(***************************************************************************)
EXTENDS PacketPath, FiniteSetTheorems, TLAPS

LEMMA FilterInvInit == Init => FilterInv
  BY DEF Init, FilterInv, desired

\* The steps that leave the filter, the topology and the sync alone.
LEMMA FilterInvFrame ==
  ASSUME FilterInv,
         UNCHANGED <<topology, ROUTER_LOCAL_IPS, pc, tick, current, todo, settled>>
  PROVE  FilterInv'
  BY DEF FilterInv, desired

\* One step of sync_hash_map, and of the tick around it.
LEMMA FilterInvSync ==
  ASSUME FilterInv, Sync
  PROVE  FilterInv'
<1> USE DEF FilterInv, desired
<1>1. CASE BeginSync
  BY <1>1 DEF BeginSync, kernelVars, ghostVars, Work, Stale, Loops
<1>2. CASE NextLoop
  BY <1>2 DEF NextLoop, kernelVars, ghostVars, Work, Loops
<1>3. CASE FinishSync
  BY <1>3 DEF FinishSync, kernelVars, Loops
<1>4. ASSUME NEW a \in Address, RemoveKey(a)
      PROVE  FilterInv'
  BY <1>4 DEF RemoveKey, Visit, ghostVars
<1>5. ASSUME NEW a \in Address, RemoveKeyFails(a)
      PROVE  FilterInv'
  BY <1>5 DEF RemoveKeyFails, Visit, kernelVars
<1>6. ASSUME NEW a \in Address, InsertKey(a)
      PROVE  FilterInv'
  BY <1>6 DEF InsertKey, Visit, ghostVars
<1>7. ASSUME NEW a \in Address, InsertKeyFails(a)
      PROVE  FilterInv'
  BY <1>7 DEF InsertKeyFails, Visit, kernelVars
<1> QED
  BY <1>1, <1>2, <1>3, <1>4, <1>5, <1>6, <1>7 DEF Sync

LEMMA FilterInvStep ==
  ASSUME FilterInv, [Next]_vars
  PROVE  FilterInv'
<1>1. CASE Reconfigure
  BY <1>1, FilterInvFrame DEF Reconfigure, kernelVars, runtimeVars
<1>2. CASE Discover
  BY <1>2 DEF Discover, FilterInv, desired, kernelVars, runtimeVars
<1>3. ASSUME NEW c \in Cpus, NEW p \in Packets, Ignore(c, p)
      PROVE  FilterInv'
  BY <1>3, FilterInvFrame DEF Ignore, kernelVars, runtimeVars
<1>4. ASSUME NEW c \in Cpus, NEW p \in Packets, Accept(c, p)
      PROVE  FilterInv'
  BY <1>4, FilterInvFrame DEF Accept, runtimeVars
<1>5. ASSUME NEW c \in Cpus, Store(c) \/ StoreFails(c)
      PROVE  FilterInv'
  BY <1>5, FilterInvFrame DEF Store, StoreFails, runtimeVars, ghostVars
<1>6. CASE Consume
  BY <1>6, FilterInvFrame DEF Consume, runtimeVars, ghostVars
<1>7. CASE BeginTick
  BY <1>7 DEF BeginTick, FilterInv, desired, kernelVars, ghostVars
<1>8. CASE Sync
  BY <1>8, FilterInvSync
<1>9. CASE Book
  BY <1>9 DEF Book, FilterInv, kernelVars, ghostVars
<1>10. CASE MinutePasses
  BY <1>10, FilterInvFrame DEF MinutePasses, kernelVars, ghostVars
<1>11. CASE DiscoverNoAddresses
  BY <1>11 DEF DiscoverNoAddresses, FilterInv, desired, kernelVars, runtimeVars
<1>12. CASE UNCHANGED vars
  BY <1>12, FilterInvFrame DEF vars, kernelVars, runtimeVars, ghostVars
<1> QED
  BY <1>1, <1>2, <1>3, <1>4, <1>5, <1>6, <1>7, <1>8, <1>9, <1>10, <1>11, <1>12 DEF Next

\* Whatever the interleaving of sync_hash_map's system calls with packets,
\* topology changes and failures, an address that a sync installed and the
\* topology kept is in ROUTER_LOCAL_IPS when is_management_packet looks.
THEOREM ManagementStaysFilteredHolds == Spec => []ManagementStaysFiltered
<1>1. FilterInv => ManagementStaysFiltered
  BY DEF FilterInv, ManagementStaysFiltered
<1> QED
  BY FilterInvInit, FilterInvStep, <1>1, PTL DEF Spec

-----------------------------------------------------------------------------
(* What is ignored.                                                        *)

\* Every address on its way into the filter is one that the router had.
HeldInv ==
  /\ configured \in Topology
  /\ configured.addresses \subseteq held /\ topology.addresses \subseteq held
  /\ desired \subseteq held /\ todo \subseteq held
  /\ ROUTER_LOCAL_IPS \subseteq held
  /\ \A p \in ignored : ControlPlane(p, held)

LEMMA HeldInvInit == Init => HeldInv
  BY DEF Init, HeldInv, desired, NoTick, Topology, Address

LEMMA HeldInvFrame ==
  ASSUME HeldInv,
         UNCHANGED <<configured, topology, ROUTER_LOCAL_IPS, tick, todo, held, ignored>>
  PROVE  HeldInv'
  BY DEF HeldInv, desired, ControlPlane

LEMMA HeldInvSync ==
  ASSUME HeldInv, Sync
  PROVE  HeldInv'
<1> USE DEF HeldInv, desired, ControlPlane
<1>1. CASE BeginSync
  BY <1>1 DEF BeginSync, kernelVars, ghostVars, Work, Stale
<1>2. CASE NextLoop
  BY <1>2 DEF NextLoop, kernelVars, ghostVars, Work, Loops
<1>3. CASE FinishSync
  BY <1>3 DEF FinishSync, kernelVars
<1>4. ASSUME NEW a \in Address, RemoveKey(a) \/ RemoveKeyFails(a)
      PROVE  HeldInv'
  BY <1>4 DEF RemoveKey, RemoveKeyFails, Visit, kernelVars, ghostVars
<1>5. ASSUME NEW a \in Address, InsertKey(a) \/ InsertKeyFails(a)
      PROVE  HeldInv'
  BY <1>5 DEF InsertKey, InsertKeyFails, Visit, kernelVars, ghostVars
<1> QED
  BY <1>1, <1>2, <1>3, <1>4, <1>5 DEF Sync

\* The router's end of a packet on a management port is the server's.
LEMMA IgnoredIsControlPlane ==
  ASSUME NEW p \in Packets, is_management_packet(p)
  PROVE  ControlPlane(p, ROUTER_LOCAL_IPS)
<1>1. p.client_port \notin MANAGEMENT_PORTS
  BY ClientsAssumption
<1>2. Local(p) \in {[ip |-> p.client, port |-> p.client_port],
                    [ip |-> p.server, port |-> p.server_port]}
  BY DEF Local, Source, Destination
<1> QED
  BY <1>1, <1>2 DEF is_management_packet, management_port_matches, ControlPlane

LEMMA HeldInvStep ==
  ASSUME HeldInv, [Next]_vars
  PROVE  HeldInv'
<1>1. CASE Reconfigure
  <2>1. UNCHANGED <<topology, ROUTER_LOCAL_IPS, tick, todo, ignored>>
    BY <1>1 DEF Reconfigure, kernelVars, runtimeVars
  <2>2. held \subseteq held' /\ configured'.addresses \subseteq held'
        /\ configured' \in Topology
    BY <1>1 DEF Reconfigure, HeldInv, Topology, Address
  <2> QED BY <2>1, <2>2 DEF HeldInv, desired, ControlPlane
<1>2. CASE Discover \/ DiscoverNoAddresses
  <2>1. topology'.addresses \subseteq held
    BY <1>2 DEF Discover, DiscoverNoAddresses, HeldInv, Topology
  <2> QED BY <1>2, <2>1
             DEF Discover, DiscoverNoAddresses, HeldInv, desired, ControlPlane, kernelVars,
                 runtimeVars
<1>3. ASSUME NEW c \in Cpus, NEW p \in Packets, Ignore(c, p)
      PROVE  HeldInv'
  <2>1. ControlPlane(p, held)
    BY <1>3, IgnoredIsControlPlane DEF Ignore, HeldInv, ControlPlane
  <2> QED BY <1>3, <2>1 DEF Ignore, HeldInv, desired, ControlPlane, kernelVars, runtimeVars
<1>4. ASSUME NEW c \in Cpus, NEW p \in Packets, Accept(c, p)
      PROVE  HeldInv'
  BY <1>4, HeldInvFrame DEF Accept, runtimeVars
<1>5. ASSUME NEW c \in Cpus, Store(c) \/ StoreFails(c)
      PROVE  HeldInv'
  BY <1>5, HeldInvFrame DEF Store, StoreFails, runtimeVars, ghostVars
<1>6. CASE Consume \/ MinutePasses \/ UNCHANGED vars
  BY <1>6, HeldInvFrame
     DEF Consume, MinutePasses, vars, kernelVars, runtimeVars, ghostVars
<1>7. CASE BeginTick
  BY <1>7 DEF BeginTick, HeldInv, desired, ControlPlane, kernelVars, ghostVars
<1>8. CASE Sync
  BY <1>8, HeldInvSync
<1>9. CASE Book
  BY <1>9 DEF Book, HeldInv, desired, NoTick, ControlPlane, kernelVars, ghostVars
<1> QED
  BY <1>1, <1>2, <1>3, <1>4, <1>5, <1>6, <1>7, <1>8, <1>9 DEF Next

\* A packet that is_management_packet takes out of the accounts belongs to a
\* connection with a management port of an address the router has or had,
\* whatever the syncs, failures and renumberings before.
THEOREM OnlyControlPlaneIgnoredHolds == Spec => []OnlyControlPlaneIgnored
<1>1. HeldInv => OnlyControlPlaneIgnored
  BY DEF HeldInv, OnlyControlPlaneIgnored
<1> QED
  BY HeldInvInit, HeldInvStep, <1>1, PTL DEF Spec

-----------------------------------------------------------------------------
(* What is booked.                                                         *)

\* The two halves of bump_iface_counter are not atomic: two processors on
\* one counter lose packets.  This is the claim for one.
OneCpu == \A c, d \in Cpus : c = d

\* The processor's packet that is not in the counter yet.
Pending(k) == IF \E c \in Cpus : cpu[c].busy /\ cpu[c].key = k THEN 1 ELSE 0

BusyCpu == [busy : {TRUE}, key : Keys, read : Nat]

\* The counter only grows, so the total is the baseline, and the read of a
\* tick lies between the baseline and the counter.
BookedInv ==
  /\ IFACE_TRAFFIC_STATS \in [Keys -> Nat] /\ arrived \in [Keys -> Nat]
  /\ refused \in [Keys -> Nat]
  /\ prev_iface_bytes \in [Keys -> Nat] /\ cumulative_iface = prev_iface_bytes
  /\ cpu \in [Cpus -> {Idle} \cup BusyCpu]
  /\ \A k \in Keys : prev_iface_bytes[k] <= IFACE_TRAFFIC_STATS[k]
  /\ pc # "idle" =>
       /\ tick.iface_stats \in [Keys -> Nat]
       /\ \A k \in Keys : /\ prev_iface_bytes[k] <= tick.iface_stats[k]
                          /\ tick.iface_stats[k] <= IFACE_TRAFFIC_STATS[k]
  /\ \A c \in Cpus : cpu[c] # Idle => cpu[c].read = IFACE_TRAFFIC_STATS[cpu[c].key]
  /\ \A k \in Keys : arrived[k] = IFACE_TRAFFIC_STATS[k] + Pending(k) + refused[k]
  /\ \A k \in Keys : refused[k] > 0 => ~HasRoom(k)

LEMMA BookedInvInit == Init => BookedInv
  BY DEF Init, BookedInv, Pending, Idle

LEMMA BookedInvFrame ==
  ASSUME BookedInv,
         UNCHANGED <<IFACE_TRAFFIC_STATS, cpu, prev_iface_bytes, cumulative_iface, arrived,
                     refused>>,
         pc' # "idle" => pc # "idle" /\ tick' = tick
  PROVE  BookedInv'
  BY DEF BookedInv, Pending, HasRoom, Present

\* A key stays without room: the counter that grew was there already, or
\* there was room for it.
LEMMA FullStaysFull ==
  ASSUME BookedInv, NEW k \in Keys, NEW j \in Keys, HasRoom(j), ~HasRoom(k),
         IFACE_TRAFFIC_STATS' = [IFACE_TRAFFIC_STATS EXCEPT ![j] = @ + 1]
  PROVE  ~HasRoom(k)'
<1>1. j \in Present /\ k \notin Present
  BY DEF HasRoom
<1>2. Present' = Present
  BY <1>1 DEF Present, BookedInv
<1> QED BY <1>1, <1>2 DEF HasRoom

LEMMA BookedInvStep ==
  ASSUME OneCpu, BookedInv, [Next]_vars
  PROVE  BookedInv'
<1>1. CASE Reconfigure \/ Discover \/ DiscoverNoAddresses \/ Consume \/ MinutePasses
           \/ UNCHANGED vars
  BY <1>1, BookedInvFrame
     DEF Reconfigure, Discover, DiscoverNoAddresses, Consume, MinutePasses, vars,
         kernelVars, runtimeVars, ghostVars
<1>2. ASSUME NEW c \in Cpus, NEW p \in Packets, Ignore(c, p)
      PROVE  BookedInv'
  BY <1>2, BookedInvFrame DEF Ignore, kernelVars, runtimeVars
<1>3. ASSUME NEW c \in Cpus, NEW p \in Packets, Accept(c, p)
      PROVE  BookedInv'
  <2> DEFINE k == Key(p)
  <2>1. k \in Keys
    BY PacketsAssumption DEF Packet, Key, Keys
  <2> DEFINE work == [busy |-> TRUE, key |-> k, read |-> IFACE_TRAFFIC_STATS[k]]
  <2>2. cpu[c] = Idle /\ cpu' = [cpu EXCEPT ![c] = work]
        /\ arrived' = [arrived EXCEPT ![k] = @ + 1]
    BY <1>3 DEF Accept, Arrive
  <2> HIDE DEF k
  <2>3. work \in BusyCpu /\ work # Idle /\ work.busy /\ work.key = k
        /\ work.read = IFACE_TRAFFIC_STATS[k]
    BY <2>1 DEF BusyCpu, Idle, BookedInv
  <2> HIDE DEF work
  <2>4. UNCHANGED <<IFACE_TRAFFIC_STATS, prev_iface_bytes, cumulative_iface, refused, pc, tick>>
    BY <1>3 DEF Accept, runtimeVars
  <2>5. \A d \in Cpus : d = c
    BY DEF OneCpu
  <2>6. \A j \in Keys : Pending(j) = 0 /\ Pending(j)' = IF j = k THEN 1 ELSE 0
    BY <2>2, <2>3, <2>5 DEF Pending, Idle, BookedInv
  <2>7. \A j \in Keys : HasRoom(j)' <=> HasRoom(j)
    BY <2>4 DEF HasRoom, Present
  <2> QED BY <2>1, <2>2, <2>3, <2>4, <2>5, <2>6, <2>7 DEF BookedInv
<1>4. ASSUME NEW c \in Cpus, Store(c) \/ StoreFails(c)
      PROVE  BookedInv'
  <2>1. cpu[c] \in BusyCpu /\ cpu[c].read = IFACE_TRAFFIC_STATS[cpu[c].key]
    BY <1>4 DEF Store, StoreFails, BookedInv
  <2> DEFINE k == cpu[c].key
  <2>2. k \in Keys /\ cpu[c].busy /\ cpu' = [cpu EXCEPT ![c] = Idle]
    BY <1>4, <2>1 DEF Store, StoreFails, BusyCpu, BookedInv
  <2>3. UNCHANGED <<arrived, prev_iface_bytes, cumulative_iface, pc, tick>>
    BY <1>4 DEF Store, StoreFails, runtimeVars, ghostVars
  <2>4. \A d \in Cpus : d = c
    BY DEF OneCpu
  <2>5. \A j \in Keys : Pending(j) = (IF j = k THEN 1 ELSE 0) /\ Pending(j)' = 0
    BY <2>2, <2>4 DEF Pending, Idle, BookedInv
  <2>6. CASE Store(c)
    <3>1. /\ HasRoom(k) /\ UNCHANGED refused
          /\ IFACE_TRAFFIC_STATS' = [IFACE_TRAFFIC_STATS EXCEPT ![k] = @ + 1]
      BY <2>1, <2>2, <2>6 DEF Store, ghostVars, BookedInv
    <3> HIDE DEF k
    <3>2. \A j \in Keys : ~HasRoom(j) => ~HasRoom(j)'
      BY <2>2, <3>1, FullStaysFull
    <3> QED BY <2>2, <2>3, <2>4, <2>5, <3>1, <3>2 DEF BookedInv
  <2>7. CASE StoreFails(c)
    <3>1. /\ ~HasRoom(k) /\ UNCHANGED IFACE_TRAFFIC_STATS
          /\ refused' = [refused EXCEPT ![k] = @ + 1]
      BY <2>7 DEF StoreFails
    <3> HIDE DEF k
    <3>2. \A j \in Keys : HasRoom(j)' <=> HasRoom(j)
      BY <3>1 DEF HasRoom, Present
    <3>3. \A j \in Keys : arrived'[j] = IFACE_TRAFFIC_STATS'[j] + Pending(j)' + refused'[j]
      <4>1. ASSUME NEW j \in Keys
            PROVE refused'[j] = refused[j] + (IF j = k THEN 1 ELSE 0)
                  /\ refused[j] \in Nat /\ IFACE_TRAFFIC_STATS[j] \in Nat
                  /\ arrived[j] = IFACE_TRAFFIC_STATS[j] + Pending(j) + refused[j]
        BY <2>2, <3>1 DEF BookedInv
      <4>2. ASSUME NEW j \in Keys PROVE Pending(j)' = 0 /\ Pending(j) = IF j = k THEN 1 ELSE 0
        BY <2>5
      <4> QED BY <2>3, <3>1, <4>1, <4>2
    <3>4. \A j \in Keys : refused'[j] > 0 => ~HasRoom(j)'
      BY <2>2, <3>1, <3>2 DEF BookedInv
    <3>5. \A d \in Cpus : cpu'[d] = Idle
      BY <2>2, <2>4 DEF BookedInv
    <3>6. cpu' \in [Cpus -> {Idle} \cup BusyCpu] /\ refused' \in [Keys -> Nat]
      BY <2>2, <3>1 DEF BookedInv
    <3> QED BY <2>3, <3>1, <3>3, <3>4, <3>5, <3>6 DEF BookedInv
  <2> QED BY <1>4, <2>6, <2>7
<1>5. CASE BeginTick
  BY <1>5 DEF BeginTick, BookedInv, Pending, HasRoom, Present, kernelVars, ghostVars
<1>6. CASE Sync
  <2>1. pc # "idle" /\ UNCHANGED <<IFACE_TRAFFIC_STATS, cpu, prev_iface_bytes,
                                   cumulative_iface, arrived, refused, tick>>
    BY <1>6 DEF Sync, BeginSync, NextLoop, FinishSync, RemoveKey, RemoveKeyFails, InsertKey,
                InsertKeyFails, Visit, Loops, kernelVars, ghostVars
  <2> QED BY <2>1, BookedInvFrame
<1>7. CASE Book
  <2>1. pc = "book" /\ pc' = "idle" /\ UNCHANGED <<IFACE_TRAFFIC_STATS, cpu, arrived, refused>>
    BY <1>7 DEF Book, kernelVars, ghostVars
  <2> DEFINE booked == [k \in Keys |-> IF k[1] \in tick.topology.interfaces
                                       THEN tick.iface_stats[k] ELSE prev_iface_bytes[k]]
  <2>2. prev_iface_bytes' = booked /\ booked \in [Keys -> Nat]
        /\ \A k \in Keys : booked[k] <= IFACE_TRAFFIC_STATS[k]
    BY <1>7, <2>1 DEF Book, Booked, BookedInv
  <2>3. cumulative_iface' = booked
    <3>1. \A k \in Keys : tick.iface_stats[k] \in Nat /\ prev_iface_bytes[k] \in Nat
                           /\ prev_iface_bytes[k] <= tick.iface_stats[k]
      BY <2>1 DEF BookedInv
    <3>2. \A k \in Keys :
            prev_iface_bytes[k] + delta_bytes(tick.iface_stats[k], prev_iface_bytes[k])
              = tick.iface_stats[k]
      BY <3>1 DEF delta_bytes
    <3>3. cumulative_iface = prev_iface_bytes
      BY DEF BookedInv
    <3> QED BY <1>7, <3>2, <3>3 DEF Book
  <2>4. \A k \in Keys : Pending(k)' = Pending(k) /\ (HasRoom(k)' <=> HasRoom(k))
    BY <2>1 DEF Pending, HasRoom, Present
  <2> HIDE DEF booked
  <2> QED BY <2>1, <2>2, <2>3, <2>4 DEF BookedInv
<1> QED
  BY <1>1, <1>2, <1>3, <1>4, <1>5, <1>6, <1>7 DEF Next

\* The packets with a processor, counted.
LEMMA PendingIsCount ==
  ASSUME OneCpu, NEW k \in Keys
  PROVE  Cardinality({c \in Cpus : cpu[c].busy /\ cpu[c].key = k}) = Pending(k)
<1> DEFINE S == {c \in Cpus : cpu[c].busy /\ cpu[c].key = k}
<1>1. CASE S = {}
  BY <1>1, FS_EmptySet DEF Pending
<1>2. ASSUME NEW c \in S PROVE Cardinality(S) = Pending(k)
  <2>1. S = {c}
    BY <1>2 DEF OneCpu
  <2> QED BY <1>2, <2>1, FS_Singleton DEF Pending
<1> QED BY <1>1, <1>2

LEMMA BookedExactly ==
  ASSUME OneCpu, BookedInv
  PROVE  EveryPacketBooked
<1> SUFFICES ASSUME NEW k \in Keys
             PROVE /\ cumulative_iface[k]
                        + delta_bytes(IFACE_TRAFFIC_STATS[k], prev_iface_bytes[k])
                        + Cardinality({c \in Cpus : cpu[c].busy /\ cpu[c].key = k})
                        + refused[k] = arrived[k]
                   /\ refused[k] > 0 => ~HasRoom(k)
  BY DEF EveryPacketBooked
<1> DEFINE count == Cardinality({c \in Cpus : cpu[c].busy /\ cpu[c].key = k})
<1>1. count = Pending(k)
  BY PendingIsCount
<1> HIDE DEF count
<1>2. cumulative_iface[k] + delta_bytes(IFACE_TRAFFIC_STATS[k], prev_iface_bytes[k])
        + count + refused[k] = arrived[k]
  BY <1>1 DEF BookedInv, delta_bytes, Pending
<1>3. refused[k] > 0 => ~HasRoom(k)
  BY DEF BookedInv
<1> QED BY <1>2, <1>3 DEF count

\* No packet is left uncounted.
NoneRefused == \A k \in Keys : refused[k] = 0

\* As long as all keys fit, four for each interface.
AllFit == IsFiniteSet(Keys) /\ IFACE_MAX_ENTRIES \in Nat
            /\ Cardinality(Keys) <= IFACE_MAX_ENTRIES

LEMMA NoneRefusedIfAllFit ==
  ASSUME AllFit, BookedInv
  PROVE  NoneRefused
<1> SUFFICES ASSUME NEW k \in Keys, refused[k] # 0
             PROVE FALSE
  BY DEF NoneRefused
<1>1. k \notin Present /\ ~(Cardinality(Present) < IFACE_MAX_ENTRIES)
  BY DEF BookedInv, HasRoom
<1>2. Present \in SUBSET Keys /\ Present # Keys
  BY <1>1 DEF Present
<1>3. Cardinality(Present) \in Nat /\ Cardinality(Keys) \in Nat
      /\ Cardinality(Present) < Cardinality(Keys)
  BY <1>2, FS_Subset, FS_CardinalityType DEF AllFit
<1> QED BY <1>1, <1>3 DEF AllFit

\* With one processor every packet that was not ignored is in the total of
\* its counter, above the baseline or still being counted, exactly once, for
\* any interleaving of packets, ticks, syncs and topology changes and any
\* number of interfaces, unless bump_iface_counter found no entry for its
\* key; with an entry for every key (64 interfaces in the code) none is lost.
THEOREM EveryPacketBookedHolds ==
  ASSUME OneCpu
  PROVE  /\ Spec => []EveryPacketBooked
         /\ AllFit => (Spec => []NoneRefused)
<1>1. BookedInv /\ [Next]_vars => BookedInv'
  BY BookedInvStep
<1>2. Spec => []BookedInv
  BY BookedInvInit, <1>1, PTL DEF Spec
<1>3. BookedInv => EveryPacketBooked
  BY BookedExactly
<1>4. Spec => []EveryPacketBooked
  BY <1>2, <1>3, PTL
<1>5. ASSUME AllFit PROVE Spec => []NoneRefused
  <2>1. BookedInv => NoneRefused
    BY <1>5, NoneRefusedIfAllFit
  <2> QED BY <1>2, <2>1, PTL
<1> QED BY <1>4, <1>5
=============================================================================
