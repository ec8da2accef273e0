-------------------------- MODULE DeviceLifecycle --------------------------
(***************************************************************************)
(* What happens to one device (a logical interface and a MAC) in the six   *)
(* places that know it: the registry of the monitor runtime, the published *)
(* snapshot, the recent history, the histogram, its ring file and          *)
(* devices_state.json.  Four tasks change them concurrently, each taking   *)
(* one lock at a time: the collector's tick (command.rs), the handlers     *)
(* DELETE /api/devices and PUT /api/devices/hostname (api.rs) and the      *)
(* hourly cleanup of stale devices (command.rs).  An action is what a task *)
(* does under one lock.                                                    *)
(*                                                                         *)
(* In memory the device is known by the ifindex of its interface, on disk  *)
(* by the interface's name.  An interface that is created again has a new  *)
(* ifindex, which the service learns when it refreshes its topology: what  *)
(* it kept under the old one stays, and both go to disk under one name.    *)
(*                                                                         *)
(* Traffic is abstracted to whether a series of the device exists; what is *)
(* in the series is the subject of DeviceCounters and HourlyHistogram.     *)
(* Storage of traffic is enabled.  The interface is a LAN interface and is *)
(* not renamed.                                                            *)
(***************************************************************************)
EXTENDS FiniteSets, Naturals

CONSTANTS
  Names,        \* hostnames a user may set
  Requests,     \* concurrent PUT /api/devices/hostname requests
  MaxIndex,     \* bound: the interface is created this often
  MaxEvents     \* bound: requests, neighbour changes, lost interfaces, expiries, restarts

CONSTANTS
  NoName,  \* the hostname "-"
  Leases   \* what cached_hostnames may say: a name of a lease, or NoName

ASSUME NamesAssumption == NoName \notin Names /\ Leases \cap Names = {}
ASSUME RequestsAssumption == Requests \cap {"tick", "delete"} = {}
ASSUME BoundsAssumption == MaxEvents \in Nat /\ MaxIndex \in Nat \ {0}

Indexes == 1..MaxIndex
NoIndex == 0

Absent == [name |-> NoName, seen |-> "never"]
Known == [name : Names \cup Leases \cup {NoName}, seen : {"recently", "long_ago"}]

\* device_registry.entries, at this device: an entry for every ifindex.
Registries == [Indexes -> Known \cup {Absent}]
NoEntries == [i \in Indexes |-> Absent]
Entries(reg) == {i \in Indexes : reg[i] # Absent}

\* An item of the snapshot a tick builds, and the one that stands for "none".
NoItem == [name |-> NoName, online |-> FALSE, listed |-> FALSE]

\* How the published snapshot lists the device: its hostname, if it does.
Unlisted == [name |-> NoName, listed |-> FALSE]
Listed(name) == [name |-> name, listed |-> TRUE]
NoItems == [i \in Indexes |-> NoItem]

NoTick == [pc |-> "idle", topo |-> NoIndex, items |-> NoItems, completed |-> FALSE]

Savers == Requests \cup {"tick", "delete"}
NoPut == [pc |-> "idle", at |-> NoIndex, name |-> NoName, known |-> FALSE]
NoDelete == [pc |-> "idle", at |-> NoIndex]
NoCleanup == [pc |-> "idle", keys |-> {}, named |-> FALSE]
NotSaving == [i \in Indexes |-> [name |-> NoName, seen |-> "not_saving"]]

\* The deletion and the hostname a property speaks of.
NoDeletion == [stage |-> "no", at |-> NoIndex, left |-> {}, carried |-> FALSE]
NoAck == [name |-> NoName, at |-> NoIndex]

VARIABLES
  link,       \* the interface's ifindex in the kernel, NoIndex when it is gone
  last_link,  \* the greatest ifindex it had
  selected,   \* --iface names the interface
  topology,   \* its ifindex in the topology, NoIndex when that lacks it
  unread,     \* interfaces that are gone, with packets no tick has read
  present,    \* the neighbour table lists the device
  registry,   \* device_registry.entries, at this device
  snapshot,   \* the published snapshot, at this device
  history,    \* the ifindexes for which TrafficHistory holds a series
  histogram,  \* for each ifindex, which of the histogram's maps hold it
  ring,       \* the device's ring file exists
  hour_file,  \* the current-hour file lists the device
  file,       \* devices_state.json, at this device, as the registry it was
  tick,       \* the collector: [pc, topo, items, completed]
  delete,     \* the DELETE handler: [pc, at]
  put,        \* the PUT handlers: [pc, at, name, known]
  cleanup,    \* the hourly cleanup: [pc, keys, named]
  saving,     \* what each task exported and has not renamed into place yet
  events,     \* what MaxEvents bounds, so far
  gone,       \* history: how far a deletion got with no registration since, and
              \* whether a tick or a file carried traffic across it
  acked       \* history: the hostname acknowledged last, while it stands

linkVars == <<link, last_link, selected, unread, present>>
memVars == <<registry, snapshot, history, histogram>>
fileVars == <<ring, hour_file, file>>
taskVars == <<tick, delete, put, cleanup, saving>>
ghostVars == <<gone, acked>>
vars == <<linkVars, topology, memVars, fileVars, taskVars, events, ghostVars>>

Items == [name : Names \cup Leases \cup {NoName}, online : BOOLEAN, listed : BOOLEAN]
Listings == {Unlisted} \cup [name : Names \cup Leases \cup {NoName}, listed : {TRUE}]

Ticks == [pc : {"idle", "collect", "history", "histogram", "append", "publish",
                "persist", "saving", "hour"},
          topo : Indexes \cup {NoIndex}, items : [Indexes -> Items], completed : BOOLEAN]
Deletes == [pc : {"idle", "snapshot", "runtime", "history", "histogram", "disk",
                  "persist", "saving"},
            at : Indexes \cup {NoIndex}]
Puts == [pc : {"idle", "snapshot", "runtime", "persist", "saving"},
         at : Indexes \cup {NoIndex}, name : Names \cup {NoName}, known : BOOLEAN]
Cleanups == [pc : {"idle", "topology", "runtime", "history", "histogram", "disk"},
             keys : SUBSET Indexes, named : BOOLEAN]

TypeOK ==
  /\ link \in Indexes \cup {NoIndex} /\ last_link \in Indexes
  /\ selected \in BOOLEAN /\ topology \in Indexes \cup {NoIndex}
  /\ unread \subseteq Indexes /\ present \in BOOLEAN
  /\ registry \in Registries /\ file \in Registries
  /\ snapshot \in [Indexes -> Listings]
  /\ history \subseteq Indexes
  /\ histogram \in [Indexes -> SUBSET {"current", "completed"}]
  /\ ring \in BOOLEAN /\ hour_file \in BOOLEAN
  /\ tick \in Ticks /\ delete \in Deletes /\ cleanup \in Cleanups
  /\ put \in [Requests -> Puts]
  /\ saving \in [Savers -> Registries \cup {NotSaving}]
  /\ events \in 0..MaxEvents
  /\ gone \in [stage : {"no", "removed", "deleted"}, at : Indexes \cup {NoIndex},
               left : SUBSET Indexes, carried : BOOLEAN]
  /\ acked \in {NoAck} \cup [name : Names, at : Indexes]

\* What build_recovered_snapshot lists.
Recovered(reg) ==
  [i \in Indexes |-> IF reg[i] = Absent THEN Unlisted ELSE Listed(reg[i].name)]

\* The registry with one entry, or none.
Only(at, dev) == [i \in Indexes |-> IF i = at THEN dev ELSE Absent]

\* The service has started with the state an earlier run left: the device
\* unknown, or known with its traffic in the ring.  The interface may have been
\* created again since.
Init ==
  /\ \/ link = 1 /\ file = NoEntries /\ ring = FALSE
     \/ /\ link \in Indexes /\ ring = TRUE
        /\ file \in {Only(1, [name |-> n, seen |-> "recently"]) : n \in Leases}
  /\ last_link = link /\ topology = link /\ selected = TRUE
  /\ unread = {}
  /\ present \in BOOLEAN
  /\ registry = file /\ snapshot = Recovered(file)
  /\ history = {} /\ hour_file = FALSE
  /\ histogram = [i \in Indexes |-> IF i = 1 /\ ring THEN {"completed"} ELSE {}]
  /\ tick = NoTick
  /\ delete = NoDelete /\ cleanup = NoCleanup
  /\ put = [r \in Requests |-> NoPut]
  /\ saving = [s \in Savers |-> NotSaving]
  /\ events = 0
  /\ gone = NoDeletion /\ acked = NoAck

Event == events < MaxEvents /\ events' = events + 1

-----------------------------------------------------------------------------
(* The registry and its file.                                              *)

\* Mutant: a save that does not hold the lock.
UnlockedSave == TRUE

\* Writers of the runtime wait for every save: a save holds the read lock
\* from the export until the new file is in place.
RuntimeFree == \A s \in Savers : saving[s] = NotSaving

\* export_runtime_state, under the read lock: every entry, under the name its
\* ifindex has in the topology or else the one it was registered with.
BeginSave(s) == saving' = [saving EXCEPT ![s] = registry]

\* write_json_atomic: the rename puts the exported state in place.
EndSave(s) == file' = saving[s] /\ saving' = [saving EXCEPT ![s] = NotSaving]

FailSave(s) == file' = file /\ saving' = [saving EXCEPT ![s] = NotSaving]

\* A registration ends what a deletion established, unless it renews an entry
\* that the deletion did not concern.
AfterRegistration(at) == IF at \subseteq gone.left THEN gone ELSE NoDeletion

\* MonitorRuntime::remove_device
Deregistered(keys) ==
  /\ registry' = [i \in Indexes |-> IF i \in keys THEN Absent ELSE registry[i]]
  /\ acked' = IF acked.at \in keys THEN NoAck ELSE acked

-----------------------------------------------------------------------------
(* The collector's tick.                                                   *)

\* The tick copies the topology before it waits for the runtime.
BeginTick ==
  /\ tick.pc = "idle"
  /\ tick' = [tick EXCEPT !.pc = "collect", !.topo = topology]
  /\ UNCHANGED <<linkVars, topology, memVars, fileVars, delete, put, cleanup, saving,
                 events, ghostVars>>

\* Mutant: the lease wins over the registry.
LeaseFirst(i, lease) == IF lease # NoName THEN lease ELSE registry[i].name

\* The hostname of an online device: the registry's unless blank, then the
\* one of the lease, then "-".
Hostname(i, lease) ==
  IF registry[i].name # NoName THEN registry[i].name ELSE lease

\* The tick's topology has the interface as i, and --iface names it.
Monitored(i) == selected /\ i = tick.topo

\* A device is online when it is a neighbour or when a registered device has
\* traffic (activate_known_device).
Online(i, traffic) == (present /\ Monitored(i)) \/ (i \in traffic /\ registry[i] # Absent)

OnlineItem(i, lease) ==
  [name |-> Hostname(i, IF present /\ Monitored(i) THEN lease ELSE NoName),
   online |-> TRUE, listed |-> TRUE]

\* Mutant: an offline device is left out.
OnlineOnly(i, traffic, lease) ==
  IF Online(i, traffic) THEN OnlineItem(i, lease) ELSE NoItem

\* The item of the new snapshot: an online device, or an offline one that is
\* still registered on a monitored interface.
Collected(i, traffic, lease) ==
  IF Online(i, traffic) THEN OnlineItem(i, lease)
  ELSE IF registry[i] # Absent /\ Monitored(i)
       THEN [name |-> registry[i].name, online |-> FALSE, listed |-> TRUE]
       ELSE NoItem

\* What a tick may find counted: packets or accelerated flows of the
\* interface in its topology, and packets left from one that is gone.
Countable == {i \in Indexes : Monitored(i)} \cup unread

\* collect_snapshot, under the runtime's write lock.
Collect ==
  /\ tick.pc = "collect" /\ RuntimeFree
  /\ \E traffic \in SUBSET Countable, lease \in Leases :
       LET items == [i \in Indexes |-> Collected(i, traffic, lease)]
           online == {i \in Indexes : items[i].online}
       IN  /\ tick' = [pc |-> "history", topo |-> NoIndex, items |-> items,
                       completed |-> FALSE]
           /\ registry' = [i \in Indexes |->
                IF i \in online THEN [name |-> items[i].name, seen |-> "recently"]
                ELSE registry[i]]
           /\ gone' = AfterRegistration(online)
  /\ unread' = {}
  /\ UNCHANGED <<link, last_link, selected, present, topology, snapshot, history,
                 histogram, fileVars, delete, put, cleanup, saving, events, acked>>

\* TrafficHistory::ingest_snapshot
RecordHistory ==
  /\ tick.pc = "history"
  /\ history' = history \cup {i \in Indexes : tick.items[i].online}
  /\ tick' = [tick EXCEPT !.pc = "histogram"]
  /\ UNCHANGED <<linkVars, topology, registry, snapshot, histogram, fileVars, delete,
                 put, cleanup, saving, events, ghostVars>>

\* HistogramHistory::ingest_snapshot_collect_completed: an online device's
\* bucket is replaced when its hour is over, an offline one's only flushed.
Aggregated(flushed) ==
  /\ histogram' = [i \in Indexes |->
       (IF i \in flushed THEN (histogram[i] \ {"current"}) \cup {"completed"}
                         ELSE histogram[i])
       \cup (IF tick.items[i].online THEN {"current"} ELSE {})]
  /\ tick' = [tick EXCEPT !.pc = "append", !.completed = flushed # {}]

RecordHistogram ==
  /\ tick.pc = "histogram"
  /\ \E flushed \in SUBSET {i \in Indexes : tick.items[i].listed /\ "current" \in histogram[i]} :
       Aggregated(flushed)
  /\ UNCHANGED <<linkVars, topology, registry, snapshot, history, fileVars, delete, put,
                 cleanup, saving, events, ghostVars>>

\* append_device_bucket for what the histogram completed, under the name of
\* the interface; a failure is logged.
AppendToRing ==
  /\ tick.pc = "append"
  /\ \/ ring' = (ring \/ tick.completed)
     \/ ring' = ring
  /\ tick' = [tick EXCEPT !.pc = "publish"]
  /\ UNCHANGED <<linkVars, topology, memVars, hour_file, file, delete, put, cleanup,
                 saving, events, ghostVars>>

\* The tick ends with the new snapshot in place, unless a save is due.
Publish ==
  /\ tick.pc = "publish"
  /\ snapshot' = [i \in Indexes |->
       IF tick.items[i].listed THEN Listed(tick.items[i].name) ELSE Unlisted]
  /\ \/ tick' = NoTick
     \/ tick' = [NoTick EXCEPT !.pc = "persist"]
  /\ UNCHANGED <<linkVars, topology, registry, history, histogram, fileVars, delete, put,
                 cleanup, saving, events, ghostVars>>

\* The save copies the topology for both files.
PersistRegistry ==
  /\ tick.pc = "persist"
  /\ BeginSave("tick")
  /\ tick' = [tick EXCEPT !.pc = "saving", !.topo = topology]
  /\ UNCHANGED <<linkVars, topology, memVars, fileVars, delete, put, cleanup, events,
                 ghostVars>>

RegistryPersisted ==
  /\ tick.pc = "saving"
  /\ EndSave("tick") \/ FailSave("tick")
  /\ tick' = [tick EXCEPT !.pc = "hour"]
  /\ UNCHANGED <<linkVars, topology, memVars, ring, hour_file, delete, put, cleanup,
                 events, ghostVars>>

\* save_current_hour_histogram, under the histogram's read lock: only the
\* bucket of an interface in the topology has a name.
PersistHour ==
  /\ tick.pc = "hour"
  /\ hour_file' \in {\E i \in Indexes : i = tick.topo /\ "current" \in histogram[i],
                     hour_file}
  /\ tick' = NoTick
  /\ UNCHANGED <<linkVars, topology, memVars, ring, file, delete, put, cleanup, saving,
                 events, ghostVars>>

Tick ==
  \/ BeginTick \/ Collect \/ RecordHistory \/ RecordHistogram \/ AppendToRing
  \/ Publish \/ PersistRegistry \/ RegistryPersisted \/ PersistHour

-----------------------------------------------------------------------------
(* DELETE /api/devices.                                                    *)

\* The request names the interface; every step uses the ifindex this had in
\* the topology.  A name the topology lacks is an error.
ResolveDelete ==
  /\ delete.pc = "idle" /\ topology # NoIndex
  /\ Event
  /\ delete' = [pc |-> "snapshot", at |-> topology]
  /\ UNCHANGED <<linkVars, topology, memVars, fileVars, tick, put, cleanup, saving,
                 ghostVars>>

DeleteFromSnapshot ==
  /\ delete.pc = "snapshot"
  /\ snapshot' = [snapshot EXCEPT ![delete.at] = Unlisted]
  /\ delete' = [delete EXCEPT !.pc = "runtime"]
  /\ UNCHANGED <<linkVars, topology, registry, history, histogram, fileVars, tick, put,
                 cleanup, saving, events, ghostVars>>

DeleteFromRuntime ==
  /\ delete.pc = "runtime" /\ RuntimeFree
  /\ Deregistered({delete.at})
  /\ gone' = [stage |-> "removed", at |-> delete.at,
              left |-> Entries(registry) \ {delete.at}, carried |-> FALSE]
  /\ delete' = [delete EXCEPT !.pc = "history"]
  /\ UNCHANGED <<linkVars, topology, snapshot, history, histogram, fileVars, tick, put,
                 cleanup, saving, events>>

\* A tick or a file takes traffic of the device across the deletion.
Carried(across) ==
  IF gone.stage = "removed" /\ across THEN [gone EXCEPT !.carried = TRUE] ELSE gone

\* The tick under way takes the device to a store that this deletion empties.
Carries(stores) == tick.pc \in stores /\ tick.items[delete.at].online

DeleteFromHistory ==
  /\ delete.pc = "history"
  /\ history' = history \ {delete.at}
  /\ gone' = Carried(Carries({"history"}))
  /\ delete' = [delete EXCEPT !.pc = "histogram"]
  /\ UNCHANGED <<linkVars, topology, registry, snapshot, histogram, fileVars, tick, put,
                 cleanup, saving, events, acked>>

\* Mutant: the completed hours stay.
OnlyCurrentRemoved(keys) ==
  [i \in Indexes |-> IF i \in keys THEN histogram[i] \ {"current"} ELSE histogram[i]]

\* HistogramHistory::remove_device drops the current hour and the completed.
HistogramAfterRemove(keys) ==
  [i \in Indexes |-> IF i \in keys THEN {} ELSE histogram[i]]

DeleteFromHistogram ==
  /\ delete.pc = "histogram"
  /\ histogram' = HistogramAfterRemove({delete.at})
  /\ gone' = Carried(Carries({"history", "histogram"}))
  /\ delete' = [delete EXCEPT !.pc = "disk"]
  /\ UNCHANGED <<linkVars, topology, registry, snapshot, history, fileVars, tick, put,
                 cleanup, saving, events, acked>>

\* A tick under way appends to the ring of this name what it completed, or
\* may complete for another ifindex that it lists.
Appends ==
  \/ tick.pc = "append" /\ tick.completed
  \/ /\ tick.pc \in {"history", "histogram"}
     /\ \E i \in Indexes \ {delete.at} : tick.items[i].listed

\* delete_device_traffic; when it fails the request ends with an error.
DeleteFromDisk ==
  /\ delete.pc = "disk"
  /\ \/ /\ ring' = FALSE /\ gone' = Carried(Appends)
        /\ delete' = [delete EXCEPT !.pc = "persist"]
     \/ ring' = ring /\ gone' = NoDeletion /\ delete' = NoDelete
  /\ UNCHANGED <<linkVars, topology, memVars, hour_file, file, tick, put, cleanup, saving,
                 events, acked>>

PersistDeletion ==
  /\ delete.pc = "persist"
  /\ BeginSave("delete")
  /\ delete' = [delete EXCEPT !.pc = "saving"]
  /\ UNCHANGED <<linkVars, topology, memVars, fileVars, tick, put, cleanup, events,
                 ghostVars>>

\* The answer is OK only after the rename.
DeletionPersisted ==
  /\ delete.pc = "saving"
  /\ \/ /\ EndSave("delete")
        /\ gone' = IF gone.stage = "removed" THEN [gone EXCEPT !.stage = "deleted"] ELSE gone
     \/ FailSave("delete") /\ gone' = NoDeletion
  /\ delete' = NoDelete
  /\ UNCHANGED <<linkVars, topology, memVars, ring, hour_file, tick, put, cleanup, events,
                 acked>>

Delete ==
  \/ ResolveDelete \/ DeleteFromSnapshot \/ DeleteFromRuntime \/ DeleteFromHistory
  \/ DeleteFromHistogram \/ DeleteFromDisk \/ PersistDeletion \/ DeletionPersisted

-----------------------------------------------------------------------------
(* PUT /api/devices/hostname.                                              *)

ResolvePut(r) ==
  /\ put[r].pc = "idle" /\ topology # NoIndex
  /\ Event
  /\ \E n \in Names :
       put' = [put EXCEPT ![r] =
                [pc |-> "snapshot", at |-> topology, name |-> n, known |-> FALSE]]
  /\ UNCHANGED <<linkVars, topology, memVars, fileVars, tick, delete, cleanup, saving,
                 ghostVars>>

\* The snapshot is renamed first and remembered, should the registry not
\* know the device.
RenameInSnapshot(r) ==
  /\ put[r].pc = "snapshot"
  /\ LET old == snapshot[put[r].at]
     IN  /\ snapshot' = [snapshot EXCEPT ![put[r].at] =
                           IF old.listed THEN Listed(put[r].name) ELSE old]
         /\ put' = [put EXCEPT ![r].pc = "runtime", ![r].known = old.listed]
  /\ UNCHANGED <<linkVars, topology, registry, history, histogram, fileVars, tick, delete,
                 cleanup, saving, events, ghostVars>>

\* A registered device is renamed, one only the snapshot lists registered; a
\* device neither knows is an error.
Renamed(r) ==
  LET i == put[r].at IN
  \/ /\ registry[i] # Absent
     /\ registry' = [registry EXCEPT ![i].name = put[r].name]
     /\ gone' = gone
     /\ put' = [put EXCEPT ![r].pc = "persist"]
  \/ /\ registry[i] = Absent /\ put[r].known
     /\ registry' = [registry EXCEPT ![i] = [name |-> put[r].name, seen |-> "recently"]]
     /\ gone' = AfterRegistration({i})
     /\ put' = [put EXCEPT ![r].pc = "persist"]
  \/ /\ registry[i] = Absent /\ ~put[r].known
     /\ put' = [put EXCEPT ![r] = NoPut]
     /\ UNCHANGED <<registry, gone>>

RenameInRuntime(r) ==
  /\ put[r].pc = "runtime" /\ RuntimeFree
  /\ Renamed(r)
  /\ acked' = IF registry'[put[r].at] # registry[put[r].at] /\ acked.at = put[r].at
              THEN NoAck ELSE acked
  /\ UNCHANGED <<linkVars, topology, snapshot, history, histogram, fileVars, tick, delete,
                 cleanup, saving, events>>

PersistRename(r) ==
  /\ put[r].pc = "persist"
  /\ BeginSave(r)
  /\ put' = [put EXCEPT ![r].pc = "saving"]
  /\ UNCHANGED <<linkVars, topology, memVars, fileVars, tick, delete, cleanup, events,
                 ghostVars>>

\* The acknowledged name stands unless another task has replaced it since.
RenamePersisted(r) ==
  /\ put[r].pc = "saving"
  /\ \/ /\ EndSave(r)
        /\ acked' = IF registry[put[r].at].name = put[r].name
                    THEN [name |-> put[r].name, at |-> put[r].at] ELSE acked
     \/ FailSave(r) /\ acked' = acked
  /\ put' = [put EXCEPT ![r] = NoPut]
  /\ UNCHANGED <<linkVars, topology, memVars, ring, hour_file, tick, delete, cleanup,
                 events, gone>>

Put(r) ==
  \/ ResolvePut(r) \/ RenameInSnapshot(r) \/ RenameInRuntime(r) \/ PersistRename(r)
  \/ RenamePersisted(r)

-----------------------------------------------------------------------------
(* The hourly cleanup of devices not seen for device_ttl_days.             *)

FindStale ==
  /\ cleanup.pc = "idle"
  /\ LET stale == {i \in Indexes : registry[i].seen = "long_ago"} IN
     /\ stale # {}
     /\ cleanup' = [pc |-> "topology", keys |-> stale, named |-> FALSE]
  /\ UNCHANGED <<linkVars, topology, memVars, fileVars, tick, delete, put, saving, events,
                 ghostVars>>

\* An ifindex that the topology lacks has no name.
NameStale ==
  /\ cleanup.pc = "topology"
  /\ cleanup' = [cleanup EXCEPT !.pc = "runtime", !.named = topology \in cleanup.keys]
  /\ UNCHANGED <<linkVars, topology, memVars, fileVars, tick, delete, put, saving, events,
                 ghostVars>>

\* The list of stale devices is used as it was read.
RemoveStale ==
  /\ cleanup.pc = "runtime" /\ RuntimeFree
  /\ Deregistered(cleanup.keys)
  /\ cleanup' = [cleanup EXCEPT !.pc = "history"]
  /\ UNCHANGED <<linkVars, topology, snapshot, history, histogram, fileVars, tick, delete,
                 put, saving, events, gone>>

\* The ring goes only if its interface has a name.
RemoveStaleTraffic ==
  /\ \/ cleanup.pc = "history" /\ history' = history \ cleanup.keys
        /\ cleanup' = [cleanup EXCEPT !.pc = "histogram"] /\ UNCHANGED <<histogram, ring>>
     \/ cleanup.pc = "histogram" /\ histogram' = HistogramAfterRemove(cleanup.keys)
        /\ cleanup' = [cleanup EXCEPT !.pc = "disk"] /\ UNCHANGED <<history, ring>>
     \/ cleanup.pc = "disk" /\ ring' \in {ring, ring /\ ~cleanup.named}
        /\ cleanup' = NoCleanup /\ UNCHANGED <<history, histogram>>
  /\ UNCHANGED <<linkVars, topology, registry, snapshot, hour_file, file, tick, delete,
                 put, saving, events, ghostVars>>

Cleanup == FindStale \/ NameStale \/ RemoveStale \/ RemoveStaleTraffic

-----------------------------------------------------------------------------
(* The environment and the process.                                        *)

\* The neighbour table gains or loses the device.
NeighborChange ==
  /\ Event
  /\ present' = ~present
  /\ UNCHANGED <<link, last_link, selected, unread, topology, memVars, fileVars, taskVars,
                 ghostVars>>

\* The interface goes; what its program counted is still in the kernel's map.
LinkDown ==
  /\ link # NoIndex
  /\ Event
  /\ link' = NoIndex
  /\ unread' = IF selected THEN unread \cup {link} ELSE unread
  /\ UNCHANGED <<last_link, selected, present, topology, memVars, fileVars, taskVars,
                 ghostVars>>

\* It is created again, under a number that was not used before.
LinkUp ==
  /\ link = NoIndex /\ last_link < MaxIndex
  /\ link' = last_link + 1 /\ last_link' = last_link + 1
  /\ UNCHANGED <<selected, unread, present, topology, memVars, fileVars, taskVars,
                 events, ghostVars>>

\* The minutely TopologySnapshot::discover, when it succeeds.
RefreshTopology ==
  /\ topology # link
  /\ topology' = link
  /\ UNCHANGED <<linkVars, memVars, fileVars, taskVars, events, ghostVars>>

Quiet ==
  /\ tick.pc = "idle" /\ delete.pc = "idle" /\ cleanup.pc = "idle"
  /\ \A r \in Requests : put[r].pc = "idle"

\* device_ttl_days pass without a sign of the device; no request, tick or
\* change of the topology takes that long to be seen.
DaysPass ==
  /\ Event
  /\ Quiet /\ topology = link /\ unread = {}
  /\ LET unseen == {i \in Entries(registry) : ~(present /\ selected /\ i = topology)} IN
     /\ \E i \in unseen : registry[i].seen = "recently"
     /\ registry' = [i \in Indexes |->
          IF i \in unseen THEN [registry[i] EXCEPT !.seen = "long_ago"] ELSE registry[i]]
  /\ UNCHANGED <<linkVars, topology, snapshot, history, histogram, fileVars, taskVars,
                 ghostVars>>

\* import_runtime_state: all entries of the interface's name go to the ifindex
\* it has now, one replaces the other, and their order in the file is that of
\* a hash map.
Imported(reg, at) ==
  IF at = NoIndex \/ Entries(reg) = {} THEN {NoEntries}
  ELSE {Only(at, reg[i]) : i \in Entries(reg)}

\* The acknowledged name is in every entry that may have been imported.
AckAfterRestart ==
  IF /\ acked # NoAck /\ registry' # NoEntries
     /\ \A i \in Entries(file) : file[i].name = acked.name
  THEN [acked EXCEPT !.at = topology'] ELSE NoAck

\* A deletion that was acknowledged stands as long as no entry comes back; the
\* current-hour file carries traffic across it, and the ring of one that left
\* entries of another ifindex.
DeletionAfterRestart ==
  IF gone.stage = "deleted" /\ registry' = NoEntries
  THEN [gone EXCEPT !.carried = \/ @
                                \/ \E i \in Indexes : "current" \in histogram'[i]
                                \/ gone.left # {} /\ \E i \in Indexes : histogram'[i] # {}]
  ELSE NoDeletion

\* The files that can be read when the service starts.  One that cannot is put
\* aside or left alone, as the reason is, and the service goes on without it.
\* So is the current-hour file of an hour that is over.
LoadsFiles(loads) ==
  /\ registry' \in (IF "devices" \in loads THEN Imported(file, topology') ELSE {NoEntries})
  /\ file' \in (IF "devices" \in loads THEN {file} ELSE {file, NoEntries})
  /\ ring' \in (IF "ring" \in loads THEN {ring} ELSE {ring, FALSE})
  /\ hour_file' \in (IF "hour" \in loads THEN {hour_file} ELSE {hour_file, FALSE})
  /\ histogram' = [i \in Indexes |->
       IF i # topology' THEN {}
       ELSE (IF "ring" \in loads /\ ring THEN {"completed"} ELSE {}) \cup
            (IF "hour" \in loads /\ hour_file THEN {"current"} ELSE {})]

\* The process stops and starts again: the registry comes from its file, the
\* histogram from the ring and, within the same hour, the current-hour file;
\* the recovered snapshot lists the registry.  A device whose interface the
\* topology of the start does not have is skipped by all three.  The service
\* does not start while an interface of --iface is missing.
Restart ==
  /\ Event
  /\ topology' \in {link, NoIndex}
  /\ selected' \in (IF link = NoIndex THEN {FALSE} ELSE BOOLEAN)
  /\ \E loads \in SUBSET {"devices", "ring", "hour"} :
       LoadsFiles(loads)
  /\ snapshot' = Recovered(registry')
  /\ history' = {} /\ unread' = {}
  /\ acked' = AckAfterRestart
  /\ gone' = DeletionAfterRestart
  /\ tick' = NoTick
  /\ delete' = NoDelete /\ cleanup' = NoCleanup
  /\ put' = [r \in Requests |-> NoPut]
  /\ saving' = [s \in Savers |-> NotSaving]
  /\ UNCHANGED <<link, last_link, present>>

Next ==
  \/ Tick \/ Delete \/ Cleanup
  \/ \E r \in Requests : Put(r)
  \/ NeighborChange \/ LinkDown \/ LinkUp \/ RefreshTopology
  \/ DaysPass \/ Restart

Spec == Init /\ [][Next]_vars

(* The collector's loop runs every second, and tokio serves the locks it   *)
(* waits for in order of arrival.                                          *)
Fairness == WF_vars(Tick)

FairSpec == Spec /\ Fairness

-----------------------------------------------------------------------------
(* Properties.                                                             *)

(* A deletion that was answered OK holds on disk: as long as nothing       *)
(* registers the device again, neither the registry nor devices_state.json *)
(* lists it, also across a restart.  A save of an older registry, by the   *)
(* collector or by another request, would bring it back.  The deletion     *)
(* concerns the ifindex the interface has: an entry that was left under an *)
(* earlier one stays, in memory and on disk, and is the only one that      *)
(* does.                                                                   *)
DeletedOffDisk ==
  gone.stage = "deleted" =>
    Entries(file) \subseteq gone.left /\ Entries(registry) \subseteq gone.left

(* A hostname that was answered OK is in the registry and in the file      *)
(* until another request, a deletion or the cleanup replaces it, or a      *)
(* start cannot read the file, does not find the interface or finds an     *)
(* entry of another ifindex beside it: neither the collector, which        *)
(* rewrites the entry every tick, nor a concurrent save nor any other      *)
(* restart undoes it.                                                      *)
AckedNameKept ==
  acked # NoAck =>
    registry[acked.at].name = acked.name /\ \E i \in Entries(file) : file[i].name = acked.name

(* A deletion answered OK leaves no traffic of the device in memory, at    *)
(* the ifindex the interface has, nor in its ring when no entry of another *)
(* ifindex was left, unless a tick under way carried the device past the   *)
(* removal or a restart restored the current-hour file, which a deletion   *)
(* does not rewrite.                                                       *)
DeletedTrafficGone ==
  gone.stage = "deleted" /\ ~gone.carried =>
    /\ gone.at \notin history /\ histogram[gone.at] = {}
    /\ gone.left = {} => ~ring

(* The published snapshot settles on the registry: once requests and the   *)
(* cleanup have stopped, it lists the device exactly when the registry     *)
(* does, for an interface that is in the topology and monitored, and under *)
(* the same name, whatever a late tick published.                          *)
SameDevice ==
  \A i \in Indexes :
    /\ snapshot[i].listed <=> registry[i] # Absent /\ selected /\ i = topology
    /\ snapshot[i].listed => snapshot[i].name = registry[i].name

RequestsOver ==
  /\ delete.pc = "idle" /\ cleanup.pc = "idle"
  /\ \A r \in Requests : put[r].pc = "idle"

SnapshotSettles == <>[]RequestsOver => <>[]SameDevice

(* The option device_ttl_days: the cleanup removes a device only when it   *)
(* has not been seen for that many days.                                   *)
OnlyUnseenRemoved ==
  [][cleanup.pc = "runtime" /\ cleanup'.pc = "history" =>
       \A i \in cleanup.keys : registry[i].seen # "recently"]_vars
=============================================================================
