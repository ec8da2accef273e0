--------------------------- MODULE DeviceCounters ---------------------------
(***************************************************************************)
(* Per-device TC accounting.  The eBPF program counts the bytes of every   *)
(* tracked MAC in the shared map DEVICE_TRAFFIC_STATS; once per tick the   *)
(* collector reads the map, turns counters into increments against the     *)
(* baselines it kept, credits the increments to devices or to the          *)
(* interface's multicast / broadcast / unresolved totals, and removes      *)
(* counters that have been idle for a day.  The delete handler and the TTL *)
(* task call remove_device between two ticks.                              *)
(*                                                                         *)
(* A DeviceTrafficKey is abstracted to its MAC on one LAN interface: IP    *)
(* version and direction only multiply the keys, which never interact.     *)
(* Times are abstracted to ages that saturate at the threshold they are    *)
(* compared with.  One byte stands for one packet.                         *)
(***************************************************************************)
EXTENDS Integers, FiniteSets

CONSTANTS
  Devices,     \* unicast MACs
  GroupMacs,   \* multicast and broadcast MACs
  Cpus,        \* processors that run the eBPF program
  Steering,    \* <<c, k>>: packets of key k may be handled by processor c
  MaxEntries,  \* capacity of DEVICE_TRAFFIC_STATS
  IdleAge,     \* DEVICE_COUNTER_IDLE_MS
  PruneAge,    \* DEVICE_COUNTER_PRUNE_INTERVAL_MS
  MaxPackets   \* bound: packets of one key

Key == Devices \cup GroupMacs

ASSUME SteeringAssumption == Steering \subseteq Cpus \X Key
ASSUME BoundsAssumption ==
  /\ MaxEntries \in Nat /\ IdleAge \in Nat /\ PruneAge \in Nat
  /\ MaxPackets \in Nat

VARIABLES
  \* kernel
  entries,     \* keys present in DEVICE_TRAFFIC_STATS
  bytes,       \* their counters (0 for a key that is absent)
  element,     \* identity of the map element that holds the key
  cpu,         \* what each processor read before it stores
  \* MonitorRuntime, and the locals of collect_snapshot
  pc,
  device_stats,
  inactive_device_keys,
  prev_device_bytes,
  idle,        \* age of device_last_active_ms
  since_prune, \* age of last_device_prune_ms
  prune_device_counters,
  device_registry,
  cumulative_device,
  cumulative_other,  \* multicast + broadcast + unresolved totals, by key
  \* history
  counted,     \* bytes the eBPF program stored for the key
  forgotten,   \* increments that left the books on purpose: the device was
               \* removed, or its interface was not in the topology
  pruned       \* keys whose counter was ever removed from the map

kernelVars == <<entries, bytes, element, cpu, counted>>
runtimeVars == <<device_stats, inactive_device_keys, prev_device_bytes, idle,
                 since_prune, prune_device_counters, device_registry,
                 cumulative_device, cumulative_other, forgotten>>
vars == <<kernelVars, runtimeVars, pc, pruned>>

Idle == [busy |-> FALSE]
Busy == [busy : {TRUE}, key : Key, hit : BOOLEAN, read : Nat, element : Nat]

TypeOK ==
  /\ entries \subseteq Key
  /\ bytes \in [Key -> Nat]
  /\ element \in [Key -> Nat]
  /\ cpu \in [Cpus -> {Idle} \cup Busy]
  /\ pc \in {"idle", "account", "prune"}
  /\ DOMAIN device_stats \subseteq Key
  /\ \A k \in DOMAIN device_stats : device_stats[k] \in Nat
  /\ inactive_device_keys \subseteq Key
  /\ prev_device_bytes \in [Key -> Nat]
  /\ idle \in [Key -> 0..IdleAge]
  /\ since_prune \in 0..PruneAge
  /\ prune_device_counters \in BOOLEAN
  /\ device_registry \subseteq Devices
  /\ cumulative_device \in [Key -> Nat]
  /\ cumulative_other \in [Key -> Nat]
  /\ counted \in [Key -> Nat]
  /\ forgotten \in [Key -> Nat]
  /\ pruned \subseteq Key

Init ==
  /\ entries = {}
  /\ bytes = [k \in Key |-> 0]
  /\ element = [k \in Key |-> 0]
  /\ cpu = [c \in Cpus |-> Idle]
  /\ pc = "idle"
  /\ device_stats = [k \in {} |-> 0]
  /\ inactive_device_keys = {}
  /\ prev_device_bytes = [k \in Key |-> 0]
  /\ idle = [k \in Key |-> 0]
  /\ since_prune = PruneAge
  /\ prune_device_counters = FALSE
  /\ device_registry = {}
  /\ cumulative_device = [k \in Key |-> 0]
  /\ cumulative_other = [k \in Key |-> 0]
  /\ counted = [k \in Key |-> 0]
  /\ forgotten = [k \in Key |-> 0]
  /\ pruned = {}

-----------------------------------------------------------------------------
(***************************************************************************)
(* The eBPF program.  bump_device_counter looks the key up, loads the      *)
(* counter and stores it back without atomics; when the key is absent it   *)
(* inserts with BPF_ANY, which replaces an element another processor may   *)
(* have inserted meanwhile.  A store through a pointer to an element that  *)
(* was removed or replaced changes no counter.                             *)
(***************************************************************************)
Lookup(c, k) ==
  /\ <<c, k>> \in Steering
  /\ cpu[c] = Idle
  /\ counted[k] < MaxPackets
  /\ cpu' = [cpu EXCEPT ![c] = [busy |-> TRUE, key |-> k, hit |-> k \in entries,
                                read |-> bytes[k], element |-> element[k]]]
  /\ UNCHANGED <<entries, bytes, element, counted, runtimeVars, pc, pruned>>

\* (*value).bytes = (*value).bytes.saturating_add(bytes)
Store(c) ==
  LET k == cpu[c].key IN
  /\ cpu[c] # Idle
  /\ cpu[c].hit
  /\ cpu' = [cpu EXCEPT ![c] = Idle]
  /\ counted' = [counted EXCEPT ![k] = @ + 1]
  /\ bytes' = IF k \in entries /\ element[k] = cpu[c].element
                THEN [bytes EXCEPT ![k] = cpu[c].read + 1]
                ELSE bytes
  /\ UNCHANGED <<entries, element, runtimeVars, pc, pruned>>

\* DEVICE_TRAFFIC_STATS.insert(key, &value, 0) succeeds
Insert(c) ==
  LET k == cpu[c].key IN
  /\ cpu[c] # Idle
  /\ ~cpu[c].hit
  /\ k \in entries \/ Cardinality(entries) < MaxEntries
  /\ cpu' = [cpu EXCEPT ![c] = Idle]
  /\ counted' = [counted EXCEPT ![k] = @ + 1]
  /\ entries' = entries \cup {k}
  /\ element' = [element EXCEPT ![k] = @ + 1]
  /\ bytes' = [bytes EXCEPT ![k] = 1]
  /\ UNCHANGED <<runtimeVars, pc, pruned>>

\* ... or fails because the map is full: the packet is not counted, only
\* the failure is.
InsertFails(c) ==
  /\ cpu[c] # Idle
  /\ ~cpu[c].hit
  /\ cpu[c].key \notin entries
  /\ Cardinality(entries) >= MaxEntries
  /\ cpu' = [cpu EXCEPT ![c] = Idle]
  /\ UNCHANGED <<entries, bytes, element, counted, runtimeVars, pc, pruned>>

-----------------------------------------------------------------------------
(***************************************************************************)
(* collect_snapshot.  The runtime write lock is held from ReadStats to the *)
(* end of the pruning; only the kernel runs in between.                    *)
(***************************************************************************)

\* Mutant: every tick restarts the pruning interval.
EveryTickRestartsInterval == 0

\* last_device_prune_ms moves only when the interval has elapsed.
SincePruneAfterRead == IF since_prune = PruneAge THEN 0 ELSE since_prune

\* read_device_stats and the decision whether this tick prunes.
ReadStats ==
  /\ pc = "idle"
  /\ pc' = "account"
  /\ device_stats' = [k \in entries |-> bytes[k]]
  /\ prune_device_counters' = (since_prune = PruneAge)
  /\ since_prune' = SincePruneAfterRead
  /\ UNCHANGED <<kernelVars, inactive_device_keys, prev_device_bytes, idle,
                 device_registry, cumulative_device, cumulative_other,
                 forgotten, pruned>>

\* Mutant: a key seen for the first time only sets its baseline.
FirstValueIsBaseline(current, prev) ==
  IF prev = 0 THEN 0 ELSE IF current >= prev THEN current - prev ELSE current

delta_bytes(current, prev) ==
  IF current >= prev THEN current - prev ELSE current

Delta(k) ==
  IF k \in DOMAIN device_stats
    THEN delta_bytes(device_stats[k], prev_device_bytes[k])
    ELSE 0

\* Mutant: only the neighbour table makes a device online.
NoActivation == {}

\* activate_known_device: traffic of a registered MAC makes the device
\* online even when its neighbour entry has gone.
Activated == {d \in device_registry : Delta(d) > 0}

\* The accounting loop and the totals.  neigh is what the neighbour table
\* lists; present says whether the interface is in the topology snapshot.
Account(neigh, present) ==
  LET online == neigh \cup Activated IN
  /\ pc = "account"
  /\ present \/ neigh = {}
  /\ pc' = "prune"
  /\ prev_device_bytes' = [k \in Key |-> IF k \in DOMAIN device_stats
                             THEN device_stats[k] ELSE prev_device_bytes[k]]
  /\ idle' = [k \in Key |-> IF Delta(k) > 0 THEN 0 ELSE idle[k]]
  /\ inactive_device_keys' = {k \in DOMAIN device_stats :
       prune_device_counters /\ Delta(k) = 0 /\ idle[k] = IdleAge}
  /\ cumulative_device' = [k \in Key |->
       cumulative_device[k] + IF k \in online THEN Delta(k) ELSE 0]
  /\ cumulative_other' = [k \in Key |->
       cumulative_other[k] + IF k \notin online /\ present THEN Delta(k) ELSE 0]
  /\ forgotten' = [k \in Key |->
       forgotten[k] + IF k \notin online /\ ~present THEN Delta(k) ELSE 0]
  /\ device_registry' = device_registry \cup online
  /\ UNCHANGED <<kernelVars, device_stats, since_prune, prune_device_counters,
                 pruned>>

\* map.remove(&key) succeeds: the baseline goes with the counter.
PruneKey(k) ==
  /\ pc = "prune"
  /\ k \in inactive_device_keys
  /\ inactive_device_keys' = inactive_device_keys \ {k}
  /\ entries' = entries \ {k}
  /\ bytes' = [bytes EXCEPT ![k] = 0]
  /\ prev_device_bytes' = [prev_device_bytes EXCEPT ![k] = 0]
  /\ idle' = [idle EXCEPT ![k] = 0]
  /\ pruned' = pruned \cup {k}
  /\ UNCHANGED <<element, cpu, counted, pc, device_stats, since_prune,
                 prune_device_counters, device_registry, cumulative_device,
                 cumulative_other, forgotten>>

\* map.remove(&key) fails: counter and baseline both stay.
PruneKeyFails(k) ==
  /\ pc = "prune"
  /\ k \in inactive_device_keys
  /\ inactive_device_keys' = inactive_device_keys \ {k}
  /\ UNCHANGED <<kernelVars, pc, device_stats, prev_device_bytes, idle,
                 since_prune, prune_device_counters, device_registry,
                 cumulative_device, cumulative_other, forgotten, pruned>>

FinishTick ==
  /\ pc = "prune"
  /\ inactive_device_keys = {}
  /\ pc' = "idle"
  /\ UNCHANGED <<kernelVars, runtimeVars, pruned>>

-----------------------------------------------------------------------------
\* Mutant: removing the device also drops the counter baseline.
BaselineDropped(d) == [prev_device_bytes EXCEPT ![d] = 0]

\* Kernel counters outlive device metadata: the baseline stays.
BaselineAfterRemove(d) == prev_device_bytes

\* MonitorRuntime::remove_device, called by the delete handler and by the
\* TTL task under the runtime write lock.
RemoveDevice(d) ==
  /\ pc = "idle"
  /\ device_registry' = device_registry \ {d}
  /\ cumulative_device' = [cumulative_device EXCEPT ![d] = 0]
  /\ forgotten' = [forgotten EXCEPT ![d] = @ + cumulative_device[d]]
  /\ prev_device_bytes' = BaselineAfterRemove(d)
  /\ UNCHANGED <<kernelVars, pc, device_stats, inactive_device_keys, idle,
                 since_prune, prune_device_counters, cumulative_other, pruned>>

\* Wall-clock time passes between two ticks.
TimePasses ==
  /\ pc = "idle"
  /\ idle' = [k \in Key |-> IF k \in entries /\ idle[k] < IdleAge
                THEN idle[k] + 1 ELSE idle[k]]
  /\ since_prune' = IF since_prune < PruneAge THEN since_prune + 1 ELSE PruneAge
  /\ UNCHANGED <<kernelVars, pc, device_stats, inactive_device_keys,
                 prev_device_bytes, prune_device_counters, device_registry,
                 cumulative_device, cumulative_other, forgotten, pruned>>

Kernel == \E c \in Cpus :
  \/ \E k \in Key : Lookup(c, k)
  \/ Store(c)
  \/ Insert(c)
  \/ InsertFails(c)

Collector ==
  \/ ReadStats
  \/ \E neigh \in SUBSET Devices, present \in BOOLEAN : Account(neigh, present)
  \/ \E k \in Key : PruneKey(k) \/ PruneKeyFails(k)
  \/ FinishTick

Next ==
  \/ Kernel
  \/ Collector
  \/ \E d \in Devices : RemoveDevice(d)
  \/ TimePasses

Spec == Init /\ [][Next]_vars

(***************************************************************************)
(* The collector loop is driven by a timer and runs for ever; wall-clock   *)
(* time passes.  Deleting an existing map key can fail for a moment only.  *)
(* Nothing is assumed of the traffic or of the users.                      *)
(***************************************************************************)
Fairness ==
  /\ WF_vars(Collector)
  /\ SF_vars(TimePasses)
  /\ \A k \in Key : SF_vars(PruneKey(k))

FairSpec == Spec /\ Fairness

-----------------------------------------------------------------------------
Booked(k) == cumulative_device[k] + cumulative_other[k] + forgotten[k]

\* What the collector has booked for a key, in whatever column and even if
\* it was deleted since, never exceeds what the eBPF program counted: a
\* deleted device that reappears, a pruned key that returns and a failed
\* map.remove replay nothing.
NeverOverbooked == \A k \in Key : Booked(k) <= counted[k]

\* While the counter of a key has not been pruned every counted byte is
\* booked exactly once, or still waits in the kernel above the baseline.
EveryByteOnce ==
  \A k \in Key \ pruned :
    Booked(k) + (bytes[k] - prev_device_bytes[k]) = counted[k]

\* Traffic of a registered MAC goes to the device, never to the unresolved
\* total of the interface, whether or not the neighbour table lists it.
KnownDeviceNeverUnresolved ==
  [][\A d \in device_registry : cumulative_other'[d] = cumulative_other[d]]_vars

\* The traffic of the model is finite, so every counter falls idle: each is
\* then pruned and its slot in the bounded map is free again.
IdleCountersDrain == \A k \in Key : <>[](k \notin entries)
=============================================================================
