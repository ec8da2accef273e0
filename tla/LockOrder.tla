----------------------------- MODULE LockOrder -----------------------------
(***************************************************************************)
(* The shared state of the service is a handful of tokio RwLocks.  Each    *)
(* task (collector, topology updater, TTL cleanup, DNS reader, conntrack   *)
(* workers, one per API request) takes them in the order its code says;    *)
(* what it does under a lock never blocks for ever and is left out.        *)
(*                                                                         *)
(* tokio's RwLock is fair: requests are served in order of arrival, so a   *)
(* reader that arrives after a waiting writer waits for it, and two nested *)
(* read locks can take part in a deadlock.                                 *)
(***************************************************************************)
EXTENDS Integers, Sequences, FiniteSets

CONSTANTS
  Mixes   \* sets of tasks that run together, as functions from a task to
          \* what it runs

Tasks == UNION {DOMAIN mix : mix \in Mixes}

Locks == {"topology", "runtime", "snapshot", "history", "histogram", "dns",
          "conntrack"}

Read(l) == [op |-> "read", lock |-> l]
Write(l) == [op |-> "write", lock |-> l]
Drop(l) == [op |-> "drop", lock |-> l]

\* A lock taken, used and dropped before the next await.
Reading(l) == <<Read(l), Drop(l)>>
Writing(l) == <<Write(l), Drop(l)>>
\* A read lock taken while another is held.
NestedRead(l, m) == <<Read(l), Read(m), Drop(m), Drop(l)>>

-----------------------------------------------------------------------------
(* The lock sequences, one operator per task. *)

\* save_monitor_runtime and, with storage, save_current_hour_histogram.
PeriodicPersist == Reading("topology") \o Reading("runtime") \o Reading("histogram")

\* Mutant: topology stays locked while the collector waits for runtime.
KeepsTopology == <<Read("topology"), Write("runtime"), Drop("runtime"), Drop("topology")>>

\* Topology is cloned and released before runtime is requested.
CollectLocks == Reading("topology") \o Writing("runtime")

\* A tick fails in collect_snapshot, or publishes its data, and every ten
\* minutes persists.
collector ==
  LET publish == Writing("history") \o Writing("histogram") \o Writing("snapshot")
  IN {CollectLocks, CollectLocks \o publish, CollectLocks \o publish \o PeriodicPersist}

topology_updater == {Writing("topology")}

ttl_cleanup ==
  {Reading("runtime"),
   Reading("runtime") \o Reading("topology") \o Writing("runtime")
     \o Writing("history") \o Writing("histogram")}

\* Both persist_* functions hold runtime while they wait for topology.
persist_monitor_runtime_state == NestedRead("runtime", "topology")

\* Unknown interface; device not found or no persistence; persisted.
set_device_hostname ==
  {Reading("topology"),
   Reading("topology") \o Writing("snapshot") \o Writing("runtime"),
   Reading("topology") \o Writing("snapshot") \o Writing("runtime")
     \o persist_monitor_runtime_state}

delete_device ==
  LET removed == Reading("topology") \o Writing("snapshot") \o Writing("runtime")
                   \o Writing("history") \o Writing("histogram")
  IN {Reading("topology"), removed, removed \o persist_monitor_runtime_state}

\* Found in the topology, or else looked for in the snapshot.
resolve_query_iface == {Reading("topology"), Reading("topology") \o Reading("snapshot")}

usage_ranking ==
  {r \o NestedRead("runtime", "histogram") : r \in resolve_query_iface \cup {<<>>}}

aggregate ==
  {r \o Reading("histogram") : r \in resolve_query_iface}
  \cup {r \o Reading("runtime") \o Reading("histogram") : r \in resolve_query_iface}

history_request == {r \o Reading("history") : r \in resolve_query_iface}

\* overview and devices; without a period only the snapshot is read.
overview == {Reading("snapshot"), Reading("snapshot") \o Reading("histogram")}

\* One message resolved under runtime and topology, then the batch ingested.
dns_reader == {NestedRead("runtime", "topology") \o Writing("dns")}

\* The persistence task and the DNS handlers.
dns_access == {Reading("dns")}

\* refresh_stats
conntrack_stats == {Reading("runtime") \o Writing("conntrack")}

\* The event thread, replace_flows and note_error.
conntrack_update == {Writing("conntrack")}

\* summary and filtered_flows
conntrack_request == {Reading("conntrack")}

Programs ==
  [collector |-> collector, topology_updater |-> topology_updater,
   ttl_cleanup |-> ttl_cleanup, set_device_hostname |-> set_device_hostname,
   delete_device |-> delete_device, usage_ranking |-> usage_ranking,
   aggregate |-> aggregate, history |-> history_request, overview |-> overview,
   dns_reader |-> dns_reader, dns_access |-> dns_access,
   conntrack_stats |-> conntrack_stats, conntrack_update |-> conntrack_update,
   conntrack_request |-> conntrack_request]

ASSUME MixesAssumption == \A mix \in Mixes : \A t \in DOMAIN mix : mix[t] \in DOMAIN Programs

-----------------------------------------------------------------------------
VARIABLES
  kind,   \* the mix that runs
  todo,   \* what is left of the program a task runs; <<>> while it is idle
  held,   \* lock -> tasks that hold it, with the mode
  queue   \* lock -> requests in order of arrival

lockVars == <<kind, todo, held, queue>>

LockInit ==
  /\ kind \in Mixes
  /\ todo = [t \in Tasks |-> <<>>]
  /\ held = [l \in Locks |-> {}]
  /\ queue = [l \in Locks |-> <<>>]

Queued(t) == \E l \in Locks : \E i \in DOMAIN queue[l] : queue[l][i].task = t

\* A timer fires, a packet or a request arrives.
Start(t) ==
  /\ t \in DOMAIN kind
  /\ todo[t] = <<>>
  /\ todo' \in {[todo EXCEPT ![t] = p] : p \in Programs[kind[t]]}
  /\ UNCHANGED <<kind, held, queue>>

\* The task awaits the next lock.
Await(t) ==
  LET next == Head(todo[t]) IN
  /\ todo[t] # <<>> /\ next.op # "drop" /\ ~Queued(t)
  /\ queue' = [queue EXCEPT ![next.lock] = Append(@, [task |-> t, op |-> next.op])]
  /\ UNCHANGED <<kind, todo, held>>

Release(t) ==
  LET next == Head(todo[t]) IN
  /\ todo[t] # <<>> /\ next.op = "drop"
  /\ held' = [held EXCEPT ![next.lock] = {h \in @ : h.task # t}]
  /\ todo' = [todo EXCEPT ![t] = Tail(@)]
  /\ UNCHANGED <<kind, queue>>

Compatible(l, request) ==
  IF request.op = "write" THEN held[l] = {} ELSE \A h \in held[l] : h.op = "read"

\* Mutant: readers overtake a waiting writer.
ReaderFirst(l) ==
  {i \in DOMAIN queue[l] :
     /\ Compatible(l, queue[l][i])
     /\ i = 1 \/ queue[l][i].op = "read"}

\* Only the oldest request may be served.
Servable(l) == {i \in DOMAIN queue[l] : i = 1 /\ Compatible(l, queue[l][i])}

\* tokio hands the lock over.
Grant(l) ==
  \E i \in Servable(l) :
    LET request == queue[l][i] IN
    /\ held' = [held EXCEPT ![l] = @ \cup {request}]
    /\ queue' = [queue EXCEPT ![l] = SubSeq(@, 1, i - 1) \o SubSeq(@, i + 1, Len(@))]
    /\ todo' = [todo EXCEPT ![request.task] = Tail(@)]
    /\ UNCHANGED kind

LockNext ==
  \/ \E t \in Tasks : Start(t) \/ Await(t) \/ Release(t)
  \/ \E l \in Locks : Grant(l)

LockSpec == LockInit /\ [][LockNext]_lockVars

(***************************************************************************)
(* A task that is not waiting for a lock is scheduled again, and a lock    *)
(* that can be handed over is.  No task is assumed ever to start.          *)
(***************************************************************************)
LockFairness ==
  /\ \A t \in Tasks : WF_lockVars(Await(t)) /\ WF_lockVars(Release(t))
  /\ \A l \in Locks : WF_lockVars(Grant(l))

FairLockSpec == LockSpec /\ LockFairness

-----------------------------------------------------------------------------
Waiting == {t \in Tasks : Queued(t)}

\* Who must go on before the request at place i of the lock's queue is
\* served: the holders of the lock and the requests ahead.
Ahead(l, i) == {h.task : h \in held[l]} \cup {queue[l][j].task : j \in 1..(i - 1)}

\* Who must go on before t can.
Blockers(t) ==
  UNION {UNION {Ahead(l, i) : i \in {i \in DOMAIN queue[l] : queue[l][i].task = t}} :
           l \in Locks}

\* No set of tasks wait for one another: the collector, an API request that
\* persists, the DNS reader and the topology updater can all be suspended
\* at their locks and one of them can still go on.
NoWaitCycle ==
  \A S \in SUBSET Waiting : S # {} => \E t \in S : Blockers(t) \cap S = {}

\* Every task that waits for a lock gets it: no reader or writer starves,
\* however often the others come back.
EveryRequestServed == \A t \in Tasks : Queued(t) ~> ~Queued(t)
=============================================================================
