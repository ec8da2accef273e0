------------------------ MODULE DeviceCountersProofs ------------------------
(***************************************************************************)
(* Proofs about DeviceCounters, for any number of devices, processors and  *)
(* packets, when no two processors handle the packets of the same key.     *)
(*                                                                         *)
(* NeverOverbooked and EveryByteOnce are not inductive: they need to know  *)
(* that the value a processor has loaded is still the current one          *)
(* (PendingStores), that what the collector has read lies between the      *)
(* baseline and the counter (StatsBetween) and that a baseline never       *)
(* outlives its counter (BaselineBelow).                                   *)
(***************************************************************************)
EXTENDS DeviceCounters, TLAPS

\* The packets of a key are handled by one processor.
SoleWriter == \A c, e \in Cpus, k \in Key :
  <<c, k>> \in Steering /\ <<e, k>> \in Steering => c = e

PendingStores == \A c \in Cpus : cpu[c] # Idle =>
  /\ <<c, cpu[c].key>> \in Steering
  /\ cpu[c].element = element[cpu[c].key]
  /\ cpu[c].hit => \/ cpu[c].key \in entries /\ cpu[c].read = bytes[cpu[c].key]
                   \/ cpu[c].key \in pruned \ entries
  /\ ~cpu[c].hit => cpu[c].key \notin entries

BaselineBelow == \A k \in Key :
  /\ prev_device_bytes[k] <= bytes[k]
  /\ k \notin entries => bytes[k] = 0

StatsBetween == pc = "account" => \A k \in DOMAIN device_stats :
  /\ k \in entries
  /\ prev_device_bytes[k] <= device_stats[k]
  /\ device_stats[k] <= bytes[k]

Books == \A k \in Key :
  /\ Booked(k) + (bytes[k] - prev_device_bytes[k]) <= counted[k]
  /\ k \notin pruned => Booked(k) + (bytes[k] - prev_device_bytes[k]) = counted[k]

IInv == TypeOK /\ PendingStores /\ BaselineBelow /\ StatsBetween /\ Books

-----------------------------------------------------------------------------
LEMMA TypeInit == Init => TypeOK
<1> SUFFICES ASSUME Init PROVE TypeOK
  OBVIOUS
<1>1. DOMAIN device_stats \subseteq Key
      /\ \A k \in DOMAIN device_stats : device_stats[k] \in Nat
  BY DEF Init
<1>2. idle \in [Key -> 0..IdleAge] /\ since_prune \in 0..PruneAge
  BY BoundsAssumption DEF Init
<1>3. cpu \in [Cpus -> {Idle} \cup Busy]
  BY DEF Init
<1> QED BY <1>1, <1>2, <1>3 DEF Init, TypeOK

LEMMA DeltaType ==
  ASSUME TypeOK, NEW k \in Key
  PROVE  Delta(k) \in Nat
  BY DEF TypeOK, Delta, delta_bytes

LEMMA TypeNext == TypeOK /\ [Next]_vars => TypeOK'
<1> SUFFICES ASSUME TypeOK, [Next]_vars PROVE TypeOK'
  OBVIOUS
<1> USE BoundsAssumption DEF TypeOK
<1>1. ASSUME NEW c \in Cpus, NEW k \in Key, Lookup(c, k) PROVE TypeOK'
  <2>1. [busy |-> TRUE, key |-> k, hit |-> k \in entries, read |-> bytes[k],
         element |-> element[k]] \in Busy
    BY DEF Busy
  <2>2. cpu' \in [Cpus -> {Idle} \cup Busy]
    BY <1>1, <2>1 DEF Lookup
  <2> QED BY <1>1, <2>2 DEF Lookup, runtimeVars
<1>2. ASSUME NEW c \in Cpus, Store(c) PROVE TypeOK'
  <2>1. cpu[c] \in Busy
    BY <1>2 DEF Store
  <2>2. cpu[c].key \in Key /\ cpu[c].read \in Nat
    BY <2>1 DEF Busy
  <2> QED BY <1>2, <2>2 DEF Store, runtimeVars
<1>3. ASSUME NEW c \in Cpus, Insert(c) PROVE TypeOK'
  <2>1. cpu[c] \in Busy
    BY <1>3 DEF Insert
  <2>2. cpu[c].key \in Key
    BY <2>1 DEF Busy
  <2> QED BY <1>3, <2>2 DEF Insert, runtimeVars
<1>4. ASSUME NEW c \in Cpus, InsertFails(c) PROVE TypeOK'
  BY <1>4 DEF InsertFails, runtimeVars
<1>5. CASE ReadStats
  BY <1>5 DEF ReadStats, SincePruneAfterRead, kernelVars
<1>6. ASSUME NEW neigh \in SUBSET Devices, NEW present \in BOOLEAN,
             Account(neigh, present)
      PROVE  TypeOK'
  <2>1. \A k \in Key : Delta(k) \in Nat
    BY DeltaType
  <2>2. Activated \subseteq Devices
    BY DEF Activated
  <2> HIDE DEF TypeOK
  <2>3. cumulative_device' \in [Key -> Nat] /\ cumulative_other' \in [Key -> Nat]
        /\ forgotten' \in [Key -> Nat]
    BY <1>6, <2>1 DEF Account, TypeOK
  <2>4. prev_device_bytes' \in [Key -> Nat] /\ idle' \in [Key -> 0..IdleAge]
    BY <1>6, <2>1 DEF Account, TypeOK
  <2>5. device_registry' \subseteq Devices /\ inactive_device_keys' \subseteq Key
    BY <1>6, <2>2 DEF Account, TypeOK
  <2> QED BY <1>6, <2>3, <2>4, <2>5 DEF Account, TypeOK, kernelVars
<1>7. ASSUME NEW k \in Key, PruneKey(k) PROVE TypeOK'
  BY <1>7 DEF PruneKey
<1>8. ASSUME NEW k \in Key, PruneKeyFails(k) PROVE TypeOK'
  BY <1>8 DEF PruneKeyFails, kernelVars
<1>9. CASE FinishTick
  BY <1>9 DEF FinishTick, kernelVars, runtimeVars
<1>10. ASSUME NEW d \in Devices, RemoveDevice(d) PROVE TypeOK'
  BY <1>10 DEF RemoveDevice, BaselineAfterRemove, kernelVars, Key
<1>11. CASE TimePasses
  BY <1>11 DEF TimePasses, kernelVars
<1>12. CASE UNCHANGED vars
  BY <1>12 DEF vars, kernelVars, runtimeVars
<1> QED
  BY <1>1, <1>2, <1>3, <1>4, <1>5, <1>6, <1>7, <1>8, <1>9, <1>10, <1>11, <1>12
     DEF Next, Kernel, Collector

\* Every reachable state is well typed: the ages stay within their
\* thresholds and no total goes below zero.
THEOREM TypeCorrect == Spec => []TypeOK
  BY TypeInit, TypeNext, PTL DEF Spec

-----------------------------------------------------------------------------
LEMMA IInvInit == Init => IInv
<1> SUFFICES ASSUME Init PROVE IInv
  OBVIOUS
<1>1. TypeOK
  BY TypeInit
<1>2. PendingStores
  BY DEF Init, PendingStores
<1>3. BaselineBelow /\ StatsBetween /\ Books
  BY DEF Init, BaselineBelow, StatsBetween, Books, Booked
<1> QED BY <1>1, <1>2, <1>3 DEF IInv

LEMMA IInvNext ==
  ASSUME SoleWriter, IInv, [Next]_vars
  PROVE  IInv'
<1> USE DEF IInv
<1>0. TypeOK'
  BY TypeNext
<1>1. ASSUME NEW c \in Cpus, NEW k \in Key, Lookup(c, k) PROVE IInv'
  <2>1. UNCHANGED <<entries, bytes, element, counted, runtimeVars, pc, pruned>>
    BY <1>1 DEF Lookup
  <2>2. BaselineBelow' /\ StatsBetween' /\ Books'
    BY <2>1 DEF runtimeVars, BaselineBelow, StatsBetween, Books, Booked
  <2>3. PendingStores'
    BY <1>1, <2>1 DEF Lookup, PendingStores, TypeOK
  <2> QED BY <1>0, <2>2, <2>3
<1>2. ASSUME NEW c \in Cpus, Store(c) PROVE IInv'
  <2> DEFINE k == cpu[c].key
  <2>1. cpu[c] \in Busy /\ cpu[c] # Idle
    BY <1>2 DEF Store, TypeOK
  <2>2. k \in Key /\ cpu[c].read \in Nat /\ cpu[c].hit
    BY <1>2, <2>1 DEF Busy, Store
  <2>3. \A q \in Key : q # k => bytes'[q] = bytes[q] /\ counted'[q] = counted[q]
    BY <1>2, <2>2 DEF Store, TypeOK
  <2>4. counted'[k] = counted[k] + 1
    BY <1>2, <2>2 DEF Store, TypeOK
  <2>5. \/ k \in entries /\ bytes'[k] = bytes[k] + 1
        \/ k \in pruned \ entries /\ bytes' = bytes
    BY <1>2, <2>1, <2>2 DEF Store, TypeOK, PendingStores
  <2>6. UNCHANGED <<entries, element, runtimeVars, pc, pruned>>
    BY <1>2 DEF Store
  <2>7. BaselineBelow'
    BY <2>2, <2>3, <2>5, <2>6 DEF BaselineBelow, runtimeVars, TypeOK
  <2>8. StatsBetween'
    BY <2>2, <2>3, <2>5, <2>6 DEF StatsBetween, runtimeVars, TypeOK
  <2>9. Books'
    <3> SUFFICES ASSUME NEW q \in Key
                 PROVE  /\ (Booked(q) + (bytes[q] - prev_device_bytes[q]) <= counted[q])'
                        /\ q \notin pruned' =>
                           (Booked(q) + (bytes[q] - prev_device_bytes[q]) = counted[q])'
      BY DEF Books
    <3>1. Booked(q)' = Booked(q) /\ Booked(q) \in Nat
      BY <2>6 DEF Booked, runtimeVars, TypeOK
    <3>2. CASE q = k
      BY <2>2, <2>4, <2>5, <2>6, <3>1, <3>2 DEF Books, runtimeVars, TypeOK
    <3>3. CASE q # k
      BY <2>3, <2>6, <3>1, <3>3 DEF Books, runtimeVars, TypeOK
    <3> QED BY <3>2, <3>3
  <2>10. PendingStores'
    <3> SUFFICES ASSUME NEW e \in Cpus, cpu'[e] # Idle
                 PROVE  /\ <<e, cpu'[e].key>> \in Steering
                        /\ cpu'[e].element = element'[cpu'[e].key]
                        /\ cpu'[e].hit => \/ /\ cpu'[e].key \in entries'
                                             /\ cpu'[e].read = bytes'[cpu'[e].key]
                                          \/ cpu'[e].key \in pruned' \ entries'
                        /\ ~cpu'[e].hit => cpu'[e].key \notin entries'
      BY DEF PendingStores
    <3>1. e # c /\ cpu'[e] = cpu[e]
      BY <1>2 DEF Store, TypeOK
    <3>2. cpu[e] \in Busy
      BY <3>1 DEF TypeOK
    <3>3. cpu[e].key \in Key
      BY <3>2 DEF Busy
    <3>4. cpu[e].key # k
      BY <2>1, <2>2, <3>1, <3>3 DEF PendingStores, SoleWriter
    <3> QED BY <2>3, <2>6, <3>1, <3>3, <3>4 DEF PendingStores
  <2> QED BY <1>0, <2>7, <2>8, <2>9, <2>10
<1>3. ASSUME NEW c \in Cpus, Insert(c) PROVE IInv'
  <2> DEFINE k == cpu[c].key
  <2>1. cpu[c] \in Busy /\ cpu[c] # Idle /\ ~cpu[c].hit
    BY <1>3 DEF Insert, TypeOK
  <2>2. k \in Key /\ k \notin entries
    BY <2>1 DEF Busy, PendingStores
  <2>3. \A q \in Key : q # k => bytes'[q] = bytes[q] /\ counted'[q] = counted[q]
                                 /\ element'[q] = element[q]
    BY <1>3, <2>2 DEF Insert, TypeOK
  <2>4. counted'[k] = counted[k] + 1 /\ bytes'[k] = 1 /\ entries' = entries \cup {k}
    BY <1>3, <2>2 DEF Insert, TypeOK
  <2>5. bytes[k] = 0 /\ prev_device_bytes[k] = 0
    BY <2>2 DEF BaselineBelow, TypeOK
  <2>6. UNCHANGED <<runtimeVars, pc, pruned>>
    BY <1>3 DEF Insert
  <2>7. BaselineBelow'
    BY <2>2, <2>3, <2>4, <2>5, <2>6 DEF BaselineBelow, runtimeVars, TypeOK
  <2>8. StatsBetween'
    BY <2>2, <2>3, <2>4, <2>6 DEF StatsBetween, runtimeVars, TypeOK
  <2>9. Books'
    <3> SUFFICES ASSUME NEW q \in Key
                 PROVE  /\ (Booked(q) + (bytes[q] - prev_device_bytes[q]) <= counted[q])'
                        /\ q \notin pruned' =>
                           (Booked(q) + (bytes[q] - prev_device_bytes[q]) = counted[q])'
      BY DEF Books
    <3>1. Booked(q)' = Booked(q) /\ Booked(q) \in Nat
      BY <2>6 DEF Booked, runtimeVars, TypeOK
    <3>2. CASE q = k
      BY <2>2, <2>4, <2>5, <2>6, <3>1, <3>2 DEF Books, runtimeVars, TypeOK
    <3>3. CASE q # k
      BY <2>3, <2>6, <3>1, <3>3 DEF Books, runtimeVars, TypeOK
    <3> QED BY <3>2, <3>3
  <2>10. PendingStores'
    <3> SUFFICES ASSUME NEW e \in Cpus, cpu'[e] # Idle
                 PROVE  /\ <<e, cpu'[e].key>> \in Steering
                        /\ cpu'[e].element = element'[cpu'[e].key]
                        /\ cpu'[e].hit => \/ /\ cpu'[e].key \in entries'
                                             /\ cpu'[e].read = bytes'[cpu'[e].key]
                                          \/ cpu'[e].key \in pruned' \ entries'
                        /\ ~cpu'[e].hit => cpu'[e].key \notin entries'
      BY DEF PendingStores
    <3>1. e # c /\ cpu'[e] = cpu[e]
      BY <1>3 DEF Insert, TypeOK
    <3>2. cpu[e] \in Busy
      BY <3>1 DEF TypeOK
    <3>3. cpu[e].key \in Key
      BY <3>2 DEF Busy
    <3>4. cpu[e].key # k
      BY <2>1, <2>2, <3>1, <3>3 DEF PendingStores, SoleWriter
    <3> QED BY <2>3, <2>4, <2>6, <3>1, <3>3, <3>4 DEF PendingStores
  <2> QED BY <1>0, <2>7, <2>8, <2>9, <2>10
<1>4. ASSUME NEW c \in Cpus, InsertFails(c) PROVE IInv'
  <2>1. UNCHANGED <<entries, bytes, element, counted, runtimeVars, pc, pruned>>
    BY <1>4 DEF InsertFails
  <2>2. BaselineBelow' /\ StatsBetween' /\ Books'
    BY <2>1 DEF runtimeVars, BaselineBelow, StatsBetween, Books, Booked
  <2>3. PendingStores'
    BY <1>4, <2>1 DEF InsertFails, PendingStores, TypeOK
  <2> QED BY <1>0, <2>2, <2>3
<1>5. CASE ReadStats
  <2>1. UNCHANGED <<kernelVars, prev_device_bytes, cumulative_device,
                    cumulative_other, forgotten, pruned>>
        /\ device_stats' = [k \in entries |-> bytes[k]]
    BY <1>5 DEF ReadStats
  <2>2. PendingStores' /\ BaselineBelow' /\ Books'
    BY <2>1 DEF kernelVars, PendingStores, BaselineBelow, Books, Booked
  <2>3. StatsBetween'
    BY <2>1 DEF StatsBetween, BaselineBelow, kernelVars, TypeOK
  <2> QED BY <1>0, <2>2, <2>3
<1>6. ASSUME NEW neigh \in SUBSET Devices, NEW present \in BOOLEAN,
             Account(neigh, present)
      PROVE  IInv'
  <2>1. UNCHANGED <<kernelVars, pruned>> /\ pc = "account" /\ pc' = "prune"
    BY <1>6 DEF Account
  <2>2. PendingStores' /\ StatsBetween'
    BY <2>1 DEF kernelVars, PendingStores, StatsBetween
  <2>3. ASSUME NEW k \in Key
        PROVE  /\ Delta(k) \in Nat
               /\ prev_device_bytes'[k] = prev_device_bytes[k] + Delta(k)
               /\ prev_device_bytes'[k] <= bytes[k]
    BY <1>6, <2>1 DEF Account, StatsBetween, BaselineBelow, Delta, delta_bytes, TypeOK
  <2>4. BaselineBelow'
    BY <2>1, <2>3 DEF BaselineBelow, kernelVars
  <2>5. ASSUME NEW k \in Key
        PROVE  Booked(k)' = Booked(k) + Delta(k) /\ Booked(k) \in Nat
    BY <1>6, <2>3 DEF Account, Booked, TypeOK
  <2>6. Books'
    BY <2>1, <2>3, <2>5 DEF Books, kernelVars, TypeOK
  <2> QED BY <1>0, <2>2, <2>4, <2>6
<1>7. ASSUME NEW k \in Key, PruneKey(k) PROVE IInv'
  <2>1. /\ UNCHANGED <<element, cpu, counted, pc, device_stats, cumulative_device,
                       cumulative_other, forgotten>>
        /\ pc = "prune"
        /\ entries' = entries \ {k} /\ pruned' = pruned \cup {k}
        /\ bytes'[k] = 0 /\ prev_device_bytes'[k] = 0
        /\ \A q \in Key : q # k => /\ bytes'[q] = bytes[q]
                                    /\ prev_device_bytes'[q] = prev_device_bytes[q]
    BY <1>7 DEF PruneKey, TypeOK
  <2>2. BaselineBelow' /\ StatsBetween'
    BY <2>1 DEF BaselineBelow, StatsBetween, TypeOK
  <2>3. Books'
    BY <2>1 DEF Books, Booked, BaselineBelow, TypeOK
  <2>4. ASSUME NEW c \in Cpus, cpu[c] # Idle PROVE cpu[c].key \in Key
    BY <2>4 DEF TypeOK, Busy
  <2>5. PendingStores'
    BY <2>1, <2>4 DEF PendingStores
  <2> QED BY <1>0, <2>2, <2>3, <2>5
<1>8. ASSUME NEW k \in Key, PruneKeyFails(k) PROVE IInv'
  BY <1>0, <1>8 DEF PruneKeyFails, kernelVars, PendingStores, BaselineBelow,
     StatsBetween, Books, Booked
<1>9. CASE FinishTick
  BY <1>0, <1>9 DEF FinishTick, kernelVars, runtimeVars, PendingStores,
     BaselineBelow, StatsBetween, Books, Booked
<1>10. ASSUME NEW d \in Devices, RemoveDevice(d) PROVE IInv'
  <2>1. /\ UNCHANGED <<kernelVars, pc, device_stats, prev_device_bytes, pruned>>
        /\ pc = "idle"
    BY <1>10 DEF RemoveDevice, BaselineAfterRemove
  <2>2. PendingStores' /\ BaselineBelow' /\ StatsBetween'
    BY <2>1 DEF kernelVars, PendingStores, BaselineBelow, StatsBetween
  <2>3. ASSUME NEW k \in Key PROVE Booked(k)' = Booked(k)
    BY <1>10 DEF RemoveDevice, Booked, TypeOK, Key
  <2>4. Books'
    BY <2>1, <2>3 DEF Books, kernelVars
  <2> QED BY <1>0, <2>2, <2>4
<1>11. CASE TimePasses
  BY <1>0, <1>11 DEF TimePasses, kernelVars, PendingStores, BaselineBelow,
     StatsBetween, Books, Booked
<1>12. CASE UNCHANGED vars
  BY <1>0, <1>12 DEF vars, kernelVars, runtimeVars, PendingStores, BaselineBelow,
     StatsBetween, Books, Booked
<1> QED
  BY <1>1, <1>2, <1>3, <1>4, <1>5, <1>6, <1>7, <1>8, <1>9, <1>10, <1>11, <1>12
     DEF Next, Kernel, Collector

LEMMA BooksImply == IInv => NeverOverbooked /\ EveryByteOnce
<1> SUFFICES ASSUME IInv PROVE NeverOverbooked /\ EveryByteOnce
  OBVIOUS
<1>1. \A k \in Key : Booked(k) \in Nat
  BY DEF IInv, TypeOK, Booked
<1>2. NeverOverbooked
  BY <1>1 DEF IInv, NeverOverbooked, Books, BaselineBelow, TypeOK
<1>3. EveryByteOnce
  BY DEF IInv, EveryByteOnce, Books
<1> QED BY <1>2, <1>3

\* When each key has one writer, no sequence of packets, ticks, deletions,
\* prunings and failed removals makes the collector book a byte twice.
THEOREM NeverOverbookedHolds ==
  ASSUME SoleWriter PROVE Spec => []NeverOverbooked
<1>1. IInv /\ [Next]_vars => IInv'
  BY IInvNext
<1> QED BY <1>1, IInvInit, BooksImply, PTL DEF Spec

\* Under the same condition a counter that was never pruned loses nothing.
THEOREM EveryByteOnceHolds ==
  ASSUME SoleWriter PROVE Spec => []EveryByteOnce
<1>1. IInv /\ [Next]_vars => IInv'
  BY IInvNext
<1> QED BY <1>1, IInvInit, BooksImply, PTL DEF Spec

\* A registered device's increments never reach the unresolved total, for
\* any neighbour table and any number of writers.
THEOREM KnownDeviceHolds == Spec => KnownDeviceNeverUnresolved
<1>1. TypeOK /\ [Next]_vars =>
        [\A d \in device_registry : cumulative_other'[d] = cumulative_other[d]]_vars
  <2> SUFFICES ASSUME TypeOK, Next,
                      NEW d \in device_registry
               PROVE  cumulative_other'[d] = cumulative_other[d]
    OBVIOUS
  <2>1. ASSUME NEW neigh \in SUBSET Devices, NEW present \in BOOLEAN,
               Account(neigh, present)
        PROVE  cumulative_other'[d] = cumulative_other[d]
    <3>1. d \in Key /\ Delta(d) \in Nat
      BY DeltaType DEF TypeOK, Key
    <3>2. Delta(d) > 0 => d \in Activated
      BY DEF Activated
    <3> QED BY <2>1, <3>1, <3>2 DEF Account, TypeOK
  <2>2. CASE Kernel
    BY <2>2 DEF Kernel, Lookup, Store, Insert, InsertFails, runtimeVars
  <2>3. CASE ReadStats \/ FinishTick \/ TimePasses
    BY <2>3 DEF ReadStats, FinishTick, TimePasses, runtimeVars
  <2>4. CASE \E k \in Key : PruneKey(k) \/ PruneKeyFails(k)
    BY <2>4 DEF PruneKey, PruneKeyFails
  <2>5. CASE \E e \in Devices : RemoveDevice(e)
    BY <2>5 DEF RemoveDevice
  <2> QED BY <2>1, <2>2, <2>3, <2>4, <2>5 DEF Next, Collector
<1> QED BY <1>1, TypeCorrect, PTL DEF Spec, KnownDeviceNeverUnresolved
=============================================================================
