# A TLA+ model of bandix-plus

bandix-plus measures the traffic of a router per interface and per device. An
eBPF program counts packets in kernel maps, a userspace service reads the maps
every second, keeps totals, an hourly histogram and a device registry, stores
them in files, logs DNS queries, mirrors the kernel's connection table and
answers an HTTP API. This directory holds TLA+ modules for the parts of it that
carry state, the TLC runs that check them on small instances, and TLAPS proofs
for any instance. `PROJECT.json` lists the runs, the source lines each
definition stands for, the mutants that show each property can fail, and the
hazards the properties are about.

## 1. Inventory

| Component | State | Operations | What is hard | What makes it correct |
|---|---|---|---|---|
| Packet path and filter (`bandix-plus-ebpf/src/main.rs`, `ebpf/shared.rs`) | `IFACE_TRAFFIC_STATS`, `ROUTER_LOCAL_IPS`, `MANAGEMENT_PORTS`, the DNS ring buffer | classify, capture, count; sync of the filter maps; interface accounting | packets arrive while the filter is rewritten key by key; a full map; an interface that comes and goes | control-plane packets of a known address are never counted, others always; every packet is booked once; the filter converges |
| Device accounting (`main.rs`, `monitor.rs`) | `DEVICE_TRAFFIC_STATS`, baselines, totals, registry | count, tick (read, book, prune), `remove_device` | non-atomic counters on several processors, pruning, deletion under a live counter | no byte booked twice, none lost, none credited to "unresolved" if the device is known |
| ECM accounting (`main.rs`, `monitor.rs`, `utils.rs`) | per-address counters, baselines, address ownership, the cached IPv6 neighbours | read, poll, attribute, prune | conflicting neighbour entries, a table that is older than the tick, failed reads and polls, keys that return | every byte attributed once; a shared address has no owner; a new address is looked up soon; interface = sum of parts; rates within the line rate |
| Hourly histogram (`monitor.rs`, `persistence.rs`) | current and completed buckets, current-hour file, ring | ingest, complete, flush, save, restore | hour changes, kills between the two files, failed appends, clock steps, an hour whose local time is ambiguous | bytes conserved, nothing restored twice, ring = memory less the appends that failed |
| Histogram queries (`monitor.rs`, `api.rs`) | none: functions of the histogram | by hour, by day, by period | boundaries of hours and days while the histogram changes | ranges partition, days and hours add up to the same total, a period shows the cumulative counter |
| Ring file (`persistence.rs`) | header, slots | open, create, quarantine, migrate, append, load | kills, torn writes, power loss between steps | always accepted on open, chronological, keeps the newest records |
| Device lifecycle (`monitor.rs`, `api.rs`, `command.rs`, `persistence.rs`) | registry, snapshot, history, histogram, ring, `devices_state.json` | tick, DELETE, PUT hostname, TTL cleanup, restart | four tasks, one lock at a time, over six copies of the truth; memory is keyed by ifindex, disk by name | acknowledged deletions and names hold; the snapshot settles |
| DNS log (`dns.rs`) | records, open queries, duplicate filters | ingest, evict, save, restore, pages | copies, late and reordered packets, eviction of open queries, a log that changes between two pages | index exact, newest kept, oldest query answered first, answers final, a reader of pages misses nothing |
| Conntrack view (`conntrack.rs`) | flows, id index, statistics | event, dump, overflow, reopen, refresh of the statistics | a dump that races events, id reuse, lost events, addresses read under an earlier lock | index complete, bounded, view and statistics converge |
| Lock discipline (`command.rs`, `api.rs`, `dns.rs`, `conntrack.rs`) | seven tokio `RwLock`s | one sequence per task | nested reads with FIFO queues | no wait cycle, every request served |
| Topology, start and attachment (`topology.rs`, `utils.rs`, `options.rs`, `command.rs`, `ebpf/shared.rs`) | interfaces with their zones; attached programs | validate, discover, choose a backend, attach, refresh | ubus or ifaddrs that fail, interfaces that go while programs are attached, options that the kernel cannot serve | a serving process has its programs where the command line asks for them, one that gave up has none |
| WAN and LAN accounts (`main.rs`, `monitor.rs`) | `TRACK_DEVICES`, both counters and their baselines | mark, count, read, book | two counters of one packet, a mark and a zone, all read at different times | a byte is in one account; the provider's router is no device; the marks settle |
| HTTP/TLS/auth, key layouts | – | – | – | not modelled, see section 7 |

The components interact through shared state. Kernel maps connect the eBPF
programs with the collector (which reads and removes entries while packets are
counted). The collector's tick feeds histogram, history and snapshot in turn,
each under its own lock, and appends completed hours to ring files. API handlers
and the TTL cleanup change the same structures between the collector's steps.
Files connect one run of the service with the next.

## 2. Modules

| Module | Models | Actions and the code they stand for |
|---|---|---|
| `DeviceCounters` | device accounting | `Lookup`/`Store`/`Insert` are the two halves of `bump_device_counter`; `ReadStats`, `Account`, `PruneKey`, `FinishTick` are `collect_snapshot` cut where the kernel's map can move under it; `RemoveDevice` |
| `RingFile` | one ring file | `Open*`, `Migrate*`, `StartAppend` → `WriteRecord` → `WriteHeader` → `SyncData`, each with its failure (`ShortWrite`: part of the record was written); `Load`; `Kill`, `PowerLoss` |
| `RecentRecords` | the promise of a ring file | abstract: a committed record leaves only when newer ones fill the ring. `RingFile` implements it (`KeepsNewest`) until a torn write or a power loss |
| `HourlyHistogram` | the histogram of one device and its two files | `ingest_snapshot_collect_completed`, its panic in an ambiguous hour, offline flush, append and its failure, ten-minute save, restart with `LoadRing` and `LoadCurrentHour`, which skip a missing interface and go on after an error |
| `HistogramQueries` | the queries over it | no action of its own: `query_aggregate`, `merge_hourly_to_daily` and the bytes of a period as functions of every state of `HourlyHistogram`, which it extends |
| `DeviceLifecycle` | one device in its six places, under every ifindex its interface has had | one action per lock section of the tick, the two handlers and the cleanup; saves hold the runtime's read lock and go to disk under the interface's name; the interface goes and is created again, the topology follows; restart, which maps names to the present ifindex |
| `EcmAttribution` | ECM accounting | `Collect` is a tick up to the attribution, with the IPv6 poll and the filter of `list_neighbors_filtered`; second look, removal; `remove_device` |
| `DnsMonitor` | DNS log | `ingest` for queries and responses, save, restart |
| `DnsQueries` | the pages of the log | no action of its own: `queries` as a function of every state of `DnsMonitor`, which it extends |
| `Conntrack` | conntrack view | kernel changes, event thread, dump read and applied, overflow, reopen; the two lock sections of `refresh_stats` |
| `LockOrder` | lock acquisitions of all tasks | request, grant in order of arrival, drop; the sequences are data, one operator per task. Left out: what runs before the tasks are started, and the one `try_read`, which never waits |
| `PacketPath` | packet path, filter, interface accounting | `Ignore`, `Accept`, `Store` or `StoreFails` for the TC program; `Discover` with and without addresses; `BeginTick`, the two loops of `sync_hash_map` one system call at a time, `Book` |
| `Topology` | `TopologySnapshot::discover` | operators only: zones from the firewall and network configuration, the zone of a port or VLAN, what is included |
| `Startup` | from the command line to a serving process | `Run`, `RunService`, `LoadPrograms`, `Attach` (one program on one interface), `AttachHooks`, `StartServer`, each with its failure; `RefreshTopology`; `LinkDown`, `LinkUp` |
| `WanAccounting` | which account a byte goes to; composes `Startup` and `Topology` with the collector | `CountIface` and `CountDevice` are the two counters of one packet; `BeginTick`, `ReadDeviceStats`, `Book` with `sync_device_tracking` |
| `MC*` | instances | constants for the runs |
| `*Proofs` | theorems | section 5 |

`HourlyHistogram` and `DeviceLifecycle` use the ring file at the level of
`RecentRecords`; `DeviceLifecycle` uses series at the level of "exists".

`HistogramQueries`, `DnsQueries` and `WanAccounting` extend the modules they
build on, so that their runs check the lower modules as well.

Control is kept, data is abstracted: a counter key is a MAC, an address or an
interface; times are ages or hours; a bucket is its hour and its bytes; DNS and
conntrack keys are opaque. Each module's header says what was abstracted.
Variables that record the past (what was counted, what was acknowledged, which
addresses a sync installed) are listed under "history" and guard nothing except
the bounds.

## 3. Runs

One run per component, which checks all of its properties together, and two
`violation` runs that show disagreements between code and comments (section 4).
All of them together take about twenty minutes with two workers; the number of distinct
states is given for orientation.

| Run | Instance | Shows |
|---|---|---|
| `MCDeviceCounters` (64 000) | one writer per key, a map with one slot for two keys, two packets per key | nothing booked twice (`NeverOverbooked`), nothing lost (`EveryByteOnce`), no known device unresolved (`KnownDeviceNeverUnresolved`), idle counters leave a full map (`IdleCountersDrain`) |
| `MCDeviceCounters_race` | two processors | violation |
| `MCRingFile` (449 000) | capacities 2 and 3, six appends, kills at any step, one fault: a torn write or a power loss that keeps any part of what was not synced | wraps around twice and migrates both ways; the header is accepted (`HeaderAccepted`), records are in order (`Chronological`), up to the fault the file implements `RecentRecords` (`KeepsNewest`), and the fault damages only what was not synced (`PowerLossIsLocal`) |
| `MCHourlyHistogram` (269 000) | five hours for a histogram of two, days of two hours, the third and fourth hour ambiguous, two bytes, one step back of the clock, appends that fail, two restarts at any step, each with or without the interface, the ring and the current-hour file | bytes are conserved across all of it, but for the tick that panics (`Conserved`), none is restored twice (`NeverCountedTwice`), no hour has two buckets unless the clock went back (`OneBucketPerHour`), the ring ends with the memory less what failed to be appended, and is just that once a start restored it (`RingMirrorsMemory`), and all answers of the API agree (`QueriesAddUp`) |
| `MCDeviceLifecycle` (1 074 000) | two events (neighbour changes, expiries, an interface that goes and is created again under a second ifindex, restarts) and one request of each kind over any interleaving of all tasks; the interface is named by `--iface` or not | `DeletedOffDisk`, `AckedNameKept`, `DeletedTrafficGone`, and eventually `SnapshotSettles` |
| `MCDeviceLifecycle_ttl` | the same | violation |
| `MCEcmAttribution` (1 042 000) | two devices on two monitored interfaces that claim an address, and an interface that is not monitored; the address is IPv4 in one subnet, monitored or not, in two, the router's own or elsewhere, or IPv6 in one subnet; six units of time, a key is idle after two, the IPv6 table is read every four or, on request, every two, an owner is forgotten after five | `EveryEcmByteOnce`, `InterfaceIsSumOfParts`, `OwnerIsSoleClaimant`, `NewAddressPolled`, `RateWithinLine` |
| `MCDnsMonitor` (735 000, up to renaming of keys) | three keys, logs of one and two records, pages of one, four units of time, a capture skew of one, expiry after two, a restart with the same or the other limit | `PendingExact`, `NewestRetained` (with a log of one, three live keys overflow the duplicate filters, whose bound is part of it), `OldestAnsweredFirst`, `CopiesCountOnce`, `AnswersAreFinal`, `PagesMoveBack` |
| `MCConntrack` (987 000) | two keys, two ids (reused), a view of one, a socket buffer of two, three kernel changes, two devices that share or give up an address | the view is bounded and its index complete (`IndexComplete`); after lost events and races, once table and registry are quiet, view and statistics equal them (`ViewConverges`). Eventually and not always: a dump that was read before a flow was destroyed and installed after its DESTROY event shows the flow again until the next dump |
| `MCLockOrder` (151 000) | six mixes of three to five tasks; every lock sequence of `LockOrder` is in one | `NoWaitCycle`, `EveryRequestServed` |
| `MCPacketPath` (893 000) | both ends of LuCI, web and DNS connections, a filter map of two, a counter map with room for one direction of the interface, a ring buffer of one, two changes (renumbering, an interface that goes away or returns), one failing update or read of the addresses | `ManagementStaysFiltered`, `OnlyControlPlaneIgnored`, `EveryPacketBooked`, `FilterConverges` |
| `MCWanAccounting` (372 000) | a bridge and a VLAN on an upstream port whose zone it inherits; thirty command lines that differ in what is accepted and attached, kernels with and without TCX; one interface that goes and comes back, one failing request at any step, one packet | `ServingAsAsked`, `AttributedOnce`, `UpstreamNotADevice`, and eventually `TrackingSettles` |

Each module has a type invariant. It is not a property of a run: six are
theorems (section 5), the others hold on the instances above.

Bounds. Every bound is a named constant. Capacities are the smallest at which a
structure overflows, wraps or is shared; thresholds keep the order the code's
constants have (for example both windows for repeated DNS messages are shorter
than the age up to which a query is matched); two or three keys suffice because the code never relates
more than two of them, except in the duplicate filters, which three overflow.
The bounds on packets, changes, events and restarts are large enough for each
action to happen before and after each other one; several changes of one kind
(three renumberings, two renames at once) are beyond them. In
`MCWanAccounting` one packet is enough because the properties speak of one
packet at a time and packets do not influence each other; a second interface
change or a second failure is beyond it.

Symmetry is used only where no liveness property is checked.

### Fairness

Only where something in the code drives the step, and weak fairness with two
exceptions. In `DeviceCounters` the passage of time is strongly fair: it is
enabled only between two ticks, and ticks alternate with the timer's interval
for ever. So is the removal of an idle key there: a tick can attempt it only
now and then, and `map.remove` of a key that exists does not fail every time.

- the collector, topology, reconciliation and persistence tasks are loops over
  timers: their next step is always eventually taken;
- in `DeviceLifecycle` only the collector's tick is assumed to go on, so that
  `SnapshotSettles` starts from requests that are over; requests are nowhere
  assumed to come;
- the start goes on from step to step until it fails or serves; interfaces that
  went need not come back;
- an eBPF program runs to its end; packets are not assumed to come;
- tokio's `RwLock` grants requests in order of arrival, and code under a lock
  ends, so a lock at the head of its queue is granted;
- failures, kernel changes and reconfigurations are bounded, never required; in
  `Conntrack` dumps do not fail for ever.

Deadlock checking is on except in two runs. In `MCHourlyHistogram` the clock
stops at its bound and the collector may have panicked; in `MCWanAccounting` a
process that failed or was told not to monitor has ended.

## 4. Where code and comments disagree

1. `MCDeviceCounters_race`: `bump_device_counter` loads, adds and stores a
   counter that all processors share. A delayed store can move the counter below
   a value the collector has already read; `delta_bytes` treats this as a reset
   and books the whole counter again, contrary to the comment in
   `MonitorRuntime::remove_device` that history is not replayed. With packets of
   a key confined to one processor (`SoleWriter`) it cannot happen, which is
   what `NeverOverbookedHolds` proves.
2. `MCDeviceLifecycle_ttl`: the cleanup decides under one lock and removes under
   another; a device seen in between is removed although it has been seen.

Behaviour that no comment contradicts, and that the properties therefore except
by name, each stated in the comment of its property: a panic of the collector
in an ambiguous hour (`HourlyHistogram`); a device whose interface is missing
at a start is forgotten (`AckedNameKept`); the ECM bytes of an interface that
is not monitored are dropped (`EveryEcmByteOnce`); packets of an interface are
not counted when `IFACE_TRAFFIC_STATS` has no entry left for their key
(`EveryPacketBooked`); after a snapshot without zones the
provider's router may be registered as a device (`UpstreamNotADevice`), and a
byte whose two counters were read under different zones may be booked twice or
not at all (`AttributedOnce`); an interface that is recreated stays without
programs until the service is restarted (`ServingAsAsked`); a deletion does not
rewrite the current-hour file (`DeletedTrafficGone`).

An interface that is created again while the service runs splits a device. The
registry, the histogram and the history are keyed by ifindex and MAC
(monitor.rs:174), the handlers resolve the name to the present ifindex
(api.rs:583, 693), and the export writes what is left under the old one with
the name it remembers (monitor.rs:191), so both entries go to disk under one
name and the next start imports both into one. A deletion or a hostname that
was acknowledged after the re-creation does not reach the old entry, which is
still exported and comes back at the next start.
`DeletedOffDisk`, `AckedNameKept` and `DeletedTrafficGone` speak of the entry
that the request reached, and say that the old one is all that is left. It is
not listed as a disagreement: the comments promise the removal of "one
logical-interface/device pair" (monitor.rs:173), which may be read either way.

A key that was pruned is bounded from above only: `NeverOverbooked` says that
nothing of it is booked twice, but not how much of it is lost between the last
read and the removal, or would be if its baseline outlived the counter.

## 5. Proofs

Eight `*Proofs` modules extend the modules they are about (`ServiceProofs`
three of them: `DeviceLifecycle`, `LockOrder` and `Conntrack`). Their theorems hold
for every value of the constants that satisfies the named assumptions of the
model, so for any number of devices, keys, capacities, packets, faults and
restarts. `PROJECT.json` lists the theorems, each with the property of a run that
it states.

Three theorems have a hypothesis of their own, about the kernel:
`NeverOverbookedHolds` and `EveryByteOnceHolds` assume `SoleWriter`, and
`EveryPacketBookedHolds` assumes `OneCpu`. Two processors that count into one
key at once do lose increments, which `MCDeviceCounters_race` shows.

- `DeviceCountersProofs`. `TypeCorrect` and `KnownDeviceHolds` need only
  `BoundsAssumption` and `SteeringAssumption`. `NeverOverbookedHolds` and
  `EveryByteOnceHolds` assume `SoleWriter`. Neither property is inductive. The
  invariant adds: what a processor loaded is still current, or its key was
  pruned under it (`PendingStores`); a baseline never exceeds its counter and an
  absent key counts zero (`BaselineBelow`); what a tick read lies between
  baseline and counter (`StatsBetween`); and `Books`, the ledger itself: booked
  plus unread equals counted, or is at most that once the key was pruned. One
  lemma per conjunct, one step per action.
- `RingFileProofs`. `HeaderAcceptedHolds` rests on `HeaderInv`: both the header
  in the file and the last synced header are consistent (position below the
  slot count, and equal to the record count until the ring is full) and agree on
  the slot count, so that a power loss that brings back the old header brings
  back an acceptable one; a migration never carries more records than fit.
  `ChronologicalHolds` needs `OrderInv`: as long as no write was torn or lost,
  the places of the valid records (`Place`, the reader's index without the
  modulus) hold committed records in increasing order, except that the oldest
  may be one whose append was interrupted; no other slot holds a number as high
  as the append in progress; what a migration read is still what the file holds.
  From this every step is a `Commit`, a `DropOldest`, a `Resize` or no step of
  `RecentRecords` (`RingSimulates`), which is the refinement
  (`KeepsNewestHolds`); the *n* newest records are those at the last *n* places
  (`NewestByPlace`), by counting. `PowerLossIsLocalHolds` needs only `SyncInv`:
  the synced header never counts more records than the one in memory.
- `PacketPathProofs`. `ManagementStaysFilteredHolds` rests on `FilterInv`:
  during a tick every settled address is among the desired ones, the removing
  loop visits no desired address, and the inserting loop leaves out only desired
  addresses that were in the map when it was copied.
  `OnlyControlPlaneIgnoredHolds` rests on `HeldInv`: whatever a sync copied,
  wants or has still to do consists of addresses the router has or had; it uses
  `ClientsAssumption`, that a client's port is no management port.
  `EveryPacketBookedHolds` rests on `BookedInv`: baseline, what the tick read and
  the kernel's counter are in this order, a counter plus the increment a
  processor holds plus what was refused is what arrived, and a key that was ever
  refused still finds the map full. When every key has an entry (`AllFit`, four
  for each interface: 64 interfaces) nothing is refused, which is the theorem's
  second half.
- `HourlyHistogramProofs`. `Conserved` is inductive by itself, given the types.
  `NeverCountedTwiceHolds` and `OneBucketPerHourHolds` need `ClockInv`: while the
  clock was never set back, the completed buckets, the one to append and the
  current one are in strict order of hours, the ring holds no byte that one of
  the other two holds as well, and a saved bucket of the present hour is an
  earlier state of the current one. `RingMirrorsMemoryHolds` needs
  `MirrorInv`: a bucket that waits to be appended is the last completed one. A
  start that does not restore the ring leaves memory empty, which any ring ends
  with, and from there both grow by the same buckets (`Mirrors`). For
  `NeverCountedTwice` a start may also restore either file without the other:
  `FilesOnce` bounds the ring with the current-hour file, whatever the present
  bucket holds.
  Sums over buckets, and the buckets that were appended, are recursive over
  sequences of any length. The induction theorems of the library take an
  operator, which no installed prover instantiates; `Induction` (for a set of
  numbers) and `RunExists` (for a recursive function) are therefore derived from
  the well-foundedness of the natural numbers and used instead.
  `QueriesAddUpHolds`: what a query selects, what it sorts and what it merges are
  recursive over buckets, hours and days. Sets of sequences closed under
  `Append` give an induction over the buckets. A sort of all buckets is the sort
  of those before an hour followed by the sort of the others (`ByStartSplits`),
  likewise for a merge at the start of a day (`MergeSplits`), and neither changes
  the sum (`ByStartKeeps`, `MergeKeeps`). A period that ends in the current hour
  leaves no bucket out while the clock was not set back (`ClockInv`), and
  `Conserved` does the rest.
- `ServiceProofs`, three parts.
  *The life of a device.* A task between export and rename has exported what
  the registry still is, because it holds the runtime's read lock
  (`SavedIsCurrent`); a deletion that passed the registry has emptied it
  (`RemovedFromRegistry`). With these `DeletedOffDisk` and `AckedNameKept` are
  inductive. Every store is a function of the ifindex, and a deletion leaves the
  entries of the others (`gone.left`), which only a start may merge. `DeletedTrafficGoneHolds` needs one conjunct per store that the
  deletion passes (`HistoryEmptied`, `HistogramEmptied`, `RingEmptied`): once
  passed, it is empty and no tick under way carries the device towards it.
  *The locks.* `TasksNeverDeadlock` holds for every set of mixes, also of
  infinitely many tasks. Every program is shown to be `Disciplined`: it drops
  what it takes, and takes a lock while it holds none, or while it holds only
  `runtime` and the lock is another one. `LocksOK` says that what is left of a
  task's program is disciplined, that it holds exactly the locks the rest drops
  before taking them (`HoldsFrom`), and that a task waits for the lock its
  program names next, in one place of one queue. So a holder of a lock other
  than `runtime` never waits, and in a set of waiting tasks one at the front of
  such a lock's queue, or of `runtime`'s when there is no other, waits for none
  of the set.
  *The conntrack view.* `ConntrackOK`: the view is `Sound` (its index takes the
  id of every flow back to the flow, and it is within its capacity), the queued
  events and the flows of a dump in progress are flows, and the kernel has one
  flow for a key. `insert_flow` keeps a sound view sound also when the id is
  indexed and the flow then rejected, since the flow that the id stood for goes
  first. `replace_flows` is a fold over a sequence of any length; that the fold
  exists and yields a sound view is an induction over sets of places.
- `EcmAttributionProofs`. `Basic` (types, a counter grows with the clock and is not
  below its baseline) is inductive by itself. `RatesStayWithinLine` needs
  `IntervalOK`: what is unread came since the last read that succeeded.
  `NewAddressesPolled` needs `RequestOK`: a new address was looked up since, or
  the request is pending and the last tick was still too early for a poll.
  `OwnersAreSoleClaimants` needs `ClaimsOK`: the cached IPv6 table says what was
  claimed when it was read; the entry after a list in any order names a device
  only if the list has no other, by induction over the list. `InterfacesAddUp`
  and `EveryByteAttributedOnce` are about sums over the finite sets of
  addresses, devices and interfaces; the lemmas on such sums (additive, changed
  by what one term changes, the same by groups) are proved by an induction over
  subsets.
- `DnsMonitorProofs`. `LogInv`: the ids of the log are consecutive and its order
  lists them, so the evicted record is the least id and stands at the front of
  its queue. `PendingInv`: queues and records agree. `CopyInv`: a filter that has
  not overflowed remembers the latest capture of every key.
  `PagesMoveBackHolds`: what a filter finds lists the passing ids in decreasing
  order (`Newest`), by induction over the places of the log, and the pages cut
  it at the multiples of the page size (`Cut`). Eviction takes the least id and
  ingest adds a greater one, so a record that stays has all the newer ones still
  before it (`PlaceMovesBack`).
- `WanAccountingProofs`, which also proves `ServingAsAsked` of `Startup`.
  `LinksInv` says that an ifindex is never used again: an interface that comes
  back has a number above all before it, so no attachment, mark, packet or
  snapshot of the past can mean it. `AttachInv`: every monitored interface that
  is still the one of the start has its program or has it on the list;
  `AccountInv`: the accounts partition what was booked by the role it was booked
  under; `UpstreamInv`: unless a snapshot was made without zones, no number of a
  provider's interface is marked, registered or counted.

Only model-checked are the liveness properties (`IdleCountersDrain`,
`SnapshotSettles`, `ViewConverges`, `EveryRequestServed`, `FilterConverges`,
`TrackingSettles`): the prover does not handle fairness and `ENABLED`. Every
invariant and every action property that a passing run checks, and the
refinement of `RecentRecords`, is a theorem.

## 6. Plan

In order:

1. done: device counters, ring file with its abstraction, histogram, DNS log,
   conntrack view, lock order, device lifecycle, ECM attribution, packet path;
   first theorems.
2. done: the IPv6 neighbour cache and its polls; queries over histogram and DNS
   log; failed appends and ambiguous hours; statistics of the conntrack view;
   topology, start and attachment; WAN and LAN accounts with
   `sync_device_tracking`; failures of ubus and ifaddrs.
3. done: the safety properties of device counters, ring file (with the
   refinement of `RecentRecords`), histogram, lifecycle, DNS log, packet path,
   start and WAN accounting, for every value of the constants.
4. done: those of the ECM accounting, the lock order, the conntrack view, the
   pages of the DNS log and the API's answers from the histogram.
5. done: an interface that is created again while the service runs; starts
   that restore one file and not the other; interfaces that are not monitored;
   a full `IFACE_TRAFFIC_STATS`.
6. left: the parts of section 7 that other state depends on.

## 7. Not modelled

- Parsing: Ethernet, VLAN, PPPoE, IP and DNS headers, netlink messages, JSON.
  Packets, messages and flows enter the models already classified.
- HTTP routing, TLS, authentication, sorting and formatting; the filters of the
  conntrack API, and the filter of the DNS API on the result of a query, which a
  response changes.
- Statistics of the DNS log, rate statistics of a bucket, the ranking's order,
  the calendar (weeks, months, years) and the window of the recent history:
  pure functions that no other state depends on.
- Ranges and dependencies that the argument parser checks; the logger.
- Leases and hostnames they give: inputs that may change at any time.
- EWMA smoothing of rates (floating point). Only the interval that rates are
  divided by is modelled (`RateWithinLine`).
- An interface that is given twice on the command line: with the netlink
  backend its programs are attached, and count, twice.
- The configuration of network and firewall changes only between runs of the
  service (`Network` and `Firewall` are constants): an answer of ubus is the whole
  configuration or none, and a registry from an earlier run is not part of
  `WanAccounting`. `TrackingSettles` is about the marks; an interface that is
  created again is marked, and has no programs that would read the mark.
- The connection statistics of a MAC that is on two interfaces, which
  `calculate_stats` merges into one: a device of `Conntrack` is a MAC.
- Overflow of 64-bit byte counters (saturating in the code, out of reach in
  practice) and of 32-bit DNS record ids.
- Clocks that are turned forward. By whole hours no instant lies in the missing
  hour, so no tick meets it; time zones that shift by half an hour, or at
  midnight (the start of a day in a query), are left out.
