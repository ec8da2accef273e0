--------------------------- MODULE EcmAttribution ---------------------------
(***************************************************************************)
(* Traffic offloaded to the ECM accelerator never passes TC: kprobes count *)
(* it per IP address, and every tick of the collector (monitor.rs,         *)
(* collect_snapshot) attributes what an address gained to the device that  *)
(* the neighbour table says owns it, to the unresolved share of the only   *)
(* interface whose subnet matches, or to the WAN.  Of interfaces only      *)
(* those the snapshot lists have an account.                               *)
(*                                                                         *)
(* An address stands for an ECM key, with one direction; the addresses of  *)
(* the interfaces do not change.  The neighbours of an IPv4 address are    *)
(* read every tick, those of an IPv6 address from the table that           *)
(* `ip -6 neigh show' last printed, which is asked for again only after a  *)
(* while (list_neighbors_filtered).                                        *)
(* A tick is split where the kernel's counters may move under it: the read *)
(* and the attribution, the second look at an idle key, its removal.       *)
(* Wall-clock time advances in units in which an address gains at most one *)
(* byte (the line rate).                                                   *)
(***************************************************************************)
EXTENDS Integers, Sequences, FiniteSets, Functions, SequencesExt

CONSTANTS
  Addresses, Devices, Ifaces,
  IfaceOf,        \* the logical interface of a device
  Monitored,      \* the LAN interfaces that are monitored, which the snapshot lists
  WanListed,      \* it lists the first WAN: that is monitored, or no WAN is
  Places,         \* where an address may belong (see Place)
  Idle,           \* ECM_IDLE_TIMEOUT_MS, in units
  Fallback,       \* ECM_HISTORY_FALLBACK_MS, in units
  PollInterval,   \* IPV6_NEIGHBOR_POLL_INTERVAL_MS, in units
  FastPoll,       \* IPV6_NEIGHBOR_FAST_POLL_INTERVAL_MS, in units
  MaxTime,        \* bound: the clock stops here
  NoDevice        \* no owner (a conflict)

\* v6: an IPv6 address; subnets: the LAN interfaces whose subnets contain it;
\* own: it is the router's on the WAN; local: it is private (v4, not of the WAN's
\* subnet), unique local or link-local (v6).
Place == [v6 : BOOLEAN, subnets : SUBSET Ifaces, own : BOOLEAN, local : BOOLEAN]

ASSUME AttributionAssumption ==
  /\ IsFiniteSet(Addresses) /\ IsFiniteSet(Devices) /\ IsFiniteSet(Ifaces)
  /\ IfaceOf \in [Devices -> Ifaces]
  /\ Monitored \subseteq Ifaces /\ WanListed \in BOOLEAN
  /\ Places \subseteq Place
  /\ Idle \in Nat \ {0} /\ Fallback \in Nat \ {0} /\ MaxTime \in Nat \ {0}
  /\ FastPoll \in Nat \ {0} /\ PollInterval \in Nat /\ FastPoll <= PollInterval
  /\ NoDevice \notin Devices

None == -1   \* an absent key, an absent time

VARIABLES
  now,           \* the clock
  place,         \* the place of every address, by the topology snapshot
  neighbors,     \* the kernel's neighbours: the devices that claim an address
  cached,        \* cached_ipv6_neighbors_raw: the claims on IPv6 addresses
  last_fetch,    \* last_ipv6_neigh_fetch_ms
  refresh_pending, \* ipv6_neighbor_refresh_pending
  kernel,        \* ECM_TRAFFIC_STATS: bytes of an address, or None
  owner,         \* neighbor_ownership: [device, observed]; observed may be None
  registry,      \* device_registry
  prev,          \* prev_ecm_bytes
  last_active,   \* ecm_last_active_ms
  last_ecm,      \* last_ecm_snapshot_ms
  last_snapshot, \* last_snapshot_ms
  cum_device,    \* cumulative_device, the ECM share
  cum_lan,       \* cumulative_iface of LAN interfaces, the ECM share
  cum_unresolved,\* cumulative_unresolved, the ECM share
  cum_wan,       \* cumulative_iface of the WAN interface, the ECM share
  prune,         \* keys the tick found idle and has not handled yet
  removing,      \* the key it is about to remove, if any, and the bytes seen
  claims,        \* history: the last non-empty claims read on an address
  unmapped,      \* history: when a new IPv6 address of a LAN had no owner
  total,         \* history: bytes an address ever had
  unbooked,      \* history: bytes attributed to nobody
  lost,          \* history: bytes that came between recheck and removal
  forgotten,     \* history: an interface's bytes of devices since removed
  too_fast       \* history: a rate above the line rate was reported

kernelVars == <<now, place, neighbors, kernel, total>>
pollVars == <<cached, last_fetch, refresh_pending, unmapped>>
baseVars == <<prev, last_active>>
cumVars == <<cum_device, cum_lan, cum_unresolved, cum_wan>>
tickVars == <<prune, removing>>
vars == <<kernelVars, pollVars, owner, registry, baseVars, last_ecm, last_snapshot, cumVars,
          tickVars, claims, unbooked, lost, forgotten, too_fast>>

Time == 0..MaxTime
NoOwner == [device |-> NoDevice, observed |-> None]

TypeOK ==
  /\ now \in Time /\ place \in [Addresses -> Places]
  /\ neighbors \in [Addresses -> SUBSET Devices]
  /\ kernel \in [Addresses -> Time \cup {None}]
  /\ owner \in [Addresses -> [device : Devices \cup {NoDevice},
                              observed : Time \cup {None}]]
  /\ cached \in [Addresses -> SUBSET Devices]
  /\ last_fetch \in Time \cup {None} /\ refresh_pending \in BOOLEAN
  /\ unmapped \in [Addresses -> Time \cup {None}]
  /\ registry \subseteq Devices
  /\ \A d \in registry : IfaceOf[d] \in Monitored
  /\ \A a \in Addresses :
       owner[a].device # NoDevice => IfaceOf[owner[a].device] \in Monitored
  /\ prev \in [Addresses -> Time \cup {None}]
  /\ last_active \in [Addresses -> Time \cup {None}]
  /\ \A a \in Addresses : prev[a] = None <=> last_active[a] = None
  /\ last_ecm \in Time \cup {None} /\ last_snapshot \in Time \cup {None}
  /\ cum_device \in [Devices -> Nat] /\ cum_lan \in [Ifaces -> Nat]
  /\ cum_unresolved \in [Ifaces -> Nat] /\ cum_wan \in Nat
  /\ prune \subseteq Addresses
  /\ removing \subseteq [key : prune, seen : Time] /\ Cardinality(removing) <= 1

Init ==
  /\ now = 1 /\ place \in [Addresses -> Places]
  /\ neighbors = [a \in Addresses |-> {}] /\ cached = neighbors
  /\ last_fetch = None /\ refresh_pending = FALSE
  /\ unmapped = [a \in Addresses |-> None]
  /\ kernel = [a \in Addresses |-> None]
  /\ total = [a \in Addresses |-> 0]
  /\ owner = [a \in Addresses |-> NoOwner]
  /\ claims = [a \in Addresses |-> [by |-> {}, at |-> None]]
  /\ registry = {}
  /\ prev = [a \in Addresses |-> None] /\ last_active = prev
  /\ last_ecm = None /\ last_snapshot = None
  /\ cum_device = [d \in Devices |-> 0]
  /\ cum_lan = [i \in Ifaces |-> 0] /\ cum_unresolved = cum_lan /\ cum_wan = 0
  /\ prune = {} /\ removing = {}
  /\ unbooked = 0 /\ lost = 0 /\ forgotten = [i \in Ifaces |-> 0]
  /\ too_fast = FALSE

-----------------------------------------------------------------------------
(* The kernel.                                                             *)

\* ecm_bandix_sync_hook: the counter of an address is created or increased.
\* The service makes its first tick at once after it attached the probes.
Advance ==
  /\ now < MaxTime
  /\ last_snapshot # None \/ now = 1
  /\ now' = now + 1
  /\ \E S \in SUBSET Addresses :
       /\ kernel' = [a \in Addresses |->
            IF a \notin S THEN kernel[a]
            ELSE IF kernel[a] = None THEN 1 ELSE kernel[a] + 1]
       /\ total' = [a \in Addresses |-> total[a] + (IF a \in S THEN 1 ELSE 0)]
  /\ UNCHANGED <<place, neighbors, pollVars, owner, registry, baseVars, last_ecm, last_snapshot,
                 cumVars, tickVars, claims, unbooked, lost, forgotten, too_fast>>

\* The neighbour table changes between ticks.
NeighborChange ==
  /\ prune = {}
  /\ \E a \in Addresses, S \in SUBSET Devices :
       /\ S # neighbors[a]
       /\ neighbors' = [neighbors EXCEPT ![a] = S]
  /\ UNCHANGED <<now, place, kernel, total, pollVars, owner, registry, baseVars, last_ecm, last_snapshot,
                 cumVars, tickVars, claims, unbooked, lost, forgotten, too_fast>>

-----------------------------------------------------------------------------
(* Which neighbours a tick sees.                                           *)

\* The time since a poll; before the first one it is longer than any interval.
SincePoll == IF last_fetch = None THEN PollInterval ELSE now - last_fetch

\* ipv6_neighbor_poll_due
PollDue(force) == SincePoll >= PollInterval \/ (force /\ SincePoll >= FastPoll)

\* valid_owner
ValidOwner(entry) ==
  /\ entry.observed # None /\ now - entry.observed < Fallback
  /\ entry.device # NoDevice

\* is_new_unmapped_lan_ipv6_ecm: a key that was not there at the last read,
\* of an address that has no owner and lies in the subnet of a LAN.
NewUnmapped(a) ==
  /\ kernel[a] # None /\ prev[a] = None
  /\ place[a].v6 /\ place[a].subnets # {}
  /\ ~ValidOwner(owner[a])

\* Mutant: a request that comes too early for a poll is not kept.
OnlyThisTick(flagged) == flagged

\* The request for a poll, kept until one is due.
Requested(flagged) == refresh_pending \/ flagged

\* The IPv6 part of list_neighbors_filtered: when a poll is due the table is
\* asked for; if that fails the old answer is dropped, and the time of the
\* poll and the request behind it are used up all the same.
Poll(flagged, answered) ==
  LET force == Requested(flagged) IN
  /\ cached' = IF ~PollDue(force) THEN cached
               ELSE [a \in Addresses |->
                       IF answered /\ place[a].v6 THEN neighbors[a] ELSE {}]
  /\ last_fetch' = IF PollDue(force) THEN now ELSE last_fetch
  /\ refresh_pending' = (force /\ ~PollDue(TRUE))

\* The entries of an address that pass the filter: on a monitored interface
\* and, for IPv4, in the interface's subnet.
Listed(a) ==
  {d \in IF place[a].v6 THEN cached'[a] ELSE neighbors[a] :
     /\ IfaceOf[d] \in Monitored
     /\ place[a].v6 \/ IfaceOf[d] \in place[a].subnets}

-----------------------------------------------------------------------------
(* Who owns an address.                                                    *)

\* When an entry was seen: now, or when the IPv6 table was asked for.
SeenAt(a) == IF place[a].v6 THEN last_fetch' ELSE now

\* Mutant: the neighbour that is listed last wins.
LastClaimWins(entry, device) == [device |-> device, in_tick |-> TRUE]

\* observe_neighbor: a second claimant in the same tick makes a conflict, a
\* claim in a later tick replaces the owner.  in_tick: observation_tick is
\* this tick.
Observe(entry, device) ==
  [device |-> IF entry.in_tick /\ entry.device # device THEN NoDevice ELSE device,
   in_tick |-> TRUE]

\* An entry older than the fallback is dropped before the table is read.
Retained(entry) ==
  IF entry.observed # None /\ now - entry.observed < Fallback
  THEN entry ELSE NoOwner

\* The entry after the devices of a list, in the order in which it lists them.
ObserveAll(start, order) ==
  LET entry[n \in 0..Len(order)] ==
        IF n = 0 THEN start ELSE Observe(entry[n - 1], order[n])
  IN entry[Len(order)]

\* The entry of an address after the neighbours of this tick.
Observed(a, order) ==
  LET kept == Retained(owner[a])
      start == [device |-> kept.device, in_tick |-> FALSE]
  IN IF order = <<>> THEN kept
     ELSE [device |-> ObserveAll(start, order).device, observed |-> SeenAt(a)]

-----------------------------------------------------------------------------
(* The attribution of one tick.                                            *)

\* ecm_delta: the first value of a key is traffic since attachment or since
\* the key was pruned; a counter below its baseline was reset.
EcmDelta(a) ==
  LET before == IF prev[a] = None THEN 0 ELSE prev[a] IN
  IF kernel[a] >= before THEN kernel[a] - before ELSE kernel[a]

\* Mutant: the interval of a tick is the time since the last tick.
SinceLastTick(sec) == sec

\* ecm_interval_seconds: the time since the last read that succeeded.
EcmSeconds(sec) == IF last_ecm = None THEN sec ELSE now - last_ecm

\* Where the bytes of an address without a valid owner go: nowhere for the
\* router's own WAN address, to the interface whose subnet alone matches, to
\* the global unresolved share, which no interface shows, or to the WAN.
\* What goes to an interface that the snapshot does not list is dropped.
Share(a) ==
  IF place[a].own THEN "own"
  ELSE IF Cardinality(place[a].subnets) = 1
    THEN IF place[a].subnets \subseteq Monitored THEN "iface" ELSE "dropped"
  ELSE IF place[a].subnets # {} \/ place[a].local THEN "global"
  ELSE IF WanListed THEN "wan" ELSE "dropped"

\* Mutant: the unresolved share is left out of the interface's total.
OnlyDevices(to_devices, unresolved) == to_devices

\* What a LAN interface gains: the traffic of its devices and its unresolved.
LanGain(to_devices, unresolved) == to_devices + unresolved

\* The ECM part of a tick whose read succeeded: owners are the entries after
\* the neighbour table was observed, online the devices the table shows.  A
\* device has its account wherever it is, an interface only if it is listed.
Attribute(owners, online, sec) ==
  LET read == {a \in Addresses : kernel[a] # None}
      delta == [a \in read |-> EcmDelta(a)]
      active == {a \in read : delta[a] > 0}
      owned == {a \in active : ValidOwner(owners[a])}
      \* activate_known_device: a registered owner comes online.
      group == online \cup ({owners[a].device : a \in owned} \cap registry)
      booked == {a \in owned : owners[a].device \in group}
      share(s) == {a \in active \ owned : Share(a) = s}
      Bytes(S) == SumFunctionOnSet(delta, S)
      ofDevice(d) == Bytes({a \in booked : owners[a].device = d})
      ofIface(i) == Bytes({a \in booked : IfaceOf[owners[a].device] = i})
      unresolved(i) == Bytes({a \in share("iface") : i \in place[a].subnets})
  IN
  /\ registry' = registry \cup group
  /\ prev' = kernel
  /\ last_active' = [a \in Addresses |->
       IF a \in active \/ (a \in read /\ last_active[a] = None) THEN now
       ELSE last_active[a]]
  /\ cum_device' = [d \in Devices |-> cum_device[d] + ofDevice(d)]
  /\ cum_unresolved' = [i \in Ifaces |-> cum_unresolved[i] + unresolved(i)]
  /\ cum_lan' = [i \in Ifaces |->
       IF i \in Monitored THEN cum_lan[i] + LanGain(ofIface(i), unresolved(i))
       ELSE cum_lan[i]]
  /\ cum_wan' = cum_wan + Bytes(share("wan"))
  /\ unbooked' = unbooked + Bytes(share("own") \cup share("global") \cup share("dropped"))
                          + Bytes(owned \ booked)
  /\ too_fast' = (too_fast \/ \E a \in active : delta[a] > EcmSeconds(sec))
  /\ prune' = {a \in read \ active : /\ last_active[a] # None
                                     /\ now - last_active[a] >= Idle}
  /\ last_ecm' = now

\* A read that met an error is not used: nothing is attributed, no baseline
\* moves, and the next interval reaches back to the last good read.
Skip(online, sec) ==
  /\ registry' = registry \cup online
  /\ last_ecm' = IF last_ecm = None THEN now - sec ELSE last_ecm
  /\ UNCHANGED <<baseVars, cumVars, unbooked, too_fast, prune>>

\* The tick up to the second look at idle keys; ticks differ in time.
Collect ==
  /\ prune = {} /\ last_snapshot # now
  /\ \E read_ok, answered \in BOOLEAN,
        order \in [Addresses -> UNION {SetToSeqs(S) : S \in SUBSET Devices}] :
       LET sec == IF last_snapshot = None THEN 1 ELSE now - last_snapshot
           new == {a \in Addresses : read_ok /\ NewUnmapped(a)}
           online == UNION {Listed(a) : a \in Addresses}
       IN
       /\ Poll(new # {}, answered)
       /\ unmapped' = [a \in Addresses |-> IF a \in new THEN now ELSE unmapped[a]]
       /\ \A a \in Addresses : order[a] \in SetToSeqs(Listed(a))
       /\ owner' = [a \in Addresses |-> Observed(a, order[a])]
       /\ IF read_ok THEN Attribute(owner', online, sec) ELSE Skip(online, sec)
  /\ last_snapshot' = now
  /\ claims' = [a \in Addresses |->
       IF Listed(a) # {} /\ (place[a].v6 => last_fetch' = now)
       THEN [by |-> Listed(a), at |-> now] ELSE claims[a]]
  /\ UNCHANGED <<kernelVars, removing, lost, forgotten>>

\* Mutant: an idle key is removed without a second look.
NoSecondLook(a) == TRUE

\* The key is removed only if it did not move since it was read.
StillIdle(a) == kernel[a] = prev[a]

Recheck ==
  /\ removing = {}
  /\ \E a \in prune :
       IF StillIdle(a)
       THEN removing' = {[key |-> a, seen |-> kernel[a]]} /\ prune' = prune
       ELSE removing' = {} /\ prune' = prune \ {a}
  /\ lost' = lost
  /\ UNCHANGED <<kernelVars, pollVars, owner, registry, baseVars, last_ecm, last_snapshot,
                 cumVars, claims, unbooked, forgotten, too_fast>>

\* The baseline and the time of the last activity go with the key.
Forget(a) ==
  /\ prev' = [prev EXCEPT ![a] = None]
  /\ last_active' = [last_active EXCEPT ![a] = None]

\* hash_map.remove; when it fails the baseline stays.
RemoveKey ==
  /\ \E r \in removing :
       /\ \/ /\ kernel' = [kernel EXCEPT ![r.key] = None]
             /\ lost' = lost + (kernel[r.key] - r.seen)
             /\ Forget(r.key)
          \/ UNCHANGED <<kernel, lost, baseVars>>
       /\ prune' = prune \ {r.key}
  /\ removing' = {}
  /\ UNCHANGED <<now, place, neighbors, total, pollVars, owner, registry, last_ecm, last_snapshot,
                 cumVars, claims, unbooked, forgotten, too_fast>>

\* MonitorRuntime::remove_device, between two ticks.
RemoveDevice ==
  /\ prune = {}
  /\ \E d \in registry :
       /\ registry' = registry \ {d}
       /\ owner' = [a \in Addresses |->
            IF owner[a].device = d THEN NoOwner ELSE owner[a]]
       /\ cum_device' = [cum_device EXCEPT ![d] = 0]
       /\ forgotten' = [forgotten EXCEPT ![IfaceOf[d]] = @ + cum_device[d]]
  /\ UNCHANGED <<kernelVars, pollVars, baseVars, last_ecm, last_snapshot, cum_lan,
                 cum_unresolved, cum_wan, tickVars, claims, unbooked, lost, too_fast>>

Next == Advance \/ NeighborChange \/ Collect \/ Recheck \/ RemoveKey \/ RemoveDevice

Spec == Init /\ [][Next]_vars

-----------------------------------------------------------------------------
(* Properties.                                                             *)

\* What the kernel counted and no tick has read yet.
Pending(a) ==
  IF kernel[a] = None THEN 0
  ELSE kernel[a] - (IF prev[a] = None THEN 0 ELSE prev[a])

(* Every byte the kprobes counted is attributed exactly once, across reads *)
(* that fail, keys that are pruned and return and devices that are         *)
(* removed.  Nobody gets the router's own bytes, those of a local address  *)
(* that no single subnet matches, of an owner neither online nor known,    *)
(* and of an interface that the snapshot does not list; the only other     *)
(* bytes lost arrive between the second look at an idle key and its        *)
(* removal.                                                                *)
EveryEcmByteOnce ==
  SumFunction(total) =
    SumFunction(cum_device) + SumFunction(forgotten) + SumFunction(cum_unresolved)
    + cum_wan + unbooked + lost + SumFunction([a \in Addresses |-> Pending(a)])

(* An interface's total is the sum of its parts: the devices on it, also   *)
(* those that were removed, and its unresolved share.                      *)
InterfaceIsSumOfParts ==
  \A i \in Ifaces :
    cum_lan[i] = SumFunctionOnSet(cum_device, {d \in Devices : IfaceOf[d] = i})
                 + cum_unresolved[i] + forgotten[i]

(* Traffic of an address is never booked to a device that had to share the *)
(* address: the owner was the only claimant when a neighbour table that    *)
(* lists the address was last read, in whatever order it listed it, and    *)
(* the age of the ownership counts from that read, however often the       *)
(* cached IPv6 table was looked at since.                                  *)
OwnerIsSoleClaimant ==
  \A a \in Addresses :
    owner[a].device # NoDevice =>
      claims[a] = [by |-> {owner[a].device}, at |-> owner[a].observed]

(* A new IPv6 address of a LAN that nobody owns is looked up soon: no tick *)
(* later than the fast poll interval after the read that first showed it   *)
(* passes without the neighbour table having been asked for since, also    *)
(* when reads fail, polls came shortly before and other addresses asked.   *)
NewAddressPolled ==
  \A a \in Addresses :
    unmapped[a] # None /\ last_snapshot >= unmapped[a] + FastPoll
      => last_fetch >= unmapped[a]

(* No reported rate exceeds the line rate: the bytes that accumulated over *)
(* failed reads are divided by the time over which they accumulated.       *)
RateWithinLine == ~too_fast
=============================================================================
