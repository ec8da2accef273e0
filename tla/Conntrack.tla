----------------------------- MODULE Conntrack -----------------------------
(***************************************************************************)
(* The conntrack view of conntrack.rs.  A thread applies the kernel's NEW, *)
(* UPDATE and DESTROY events one by one; every 30 seconds a dump of the    *)
(* kernel's table, taken without a lock and not atomically, replaces the   *)
(* view.  The event socket overflows, fails and is opened again.           *)
(*                                                                         *)
(* A third task counts the connections of every registered device, with    *)
(* the addresses it read from the registry under an earlier lock.          *)
(*                                                                         *)
(* A flow is its id (NoId when the message carries none) and its key, a    *)
(* TCP or UDP tuple; the counters and states it also carries are replaced  *)
(* with it.  A device has one address.  The count of lost event streams    *)
(* that the API reports is left out.                                       *)
(***************************************************************************)
EXTENDS Integers, Sequences, FiniteSets, SequencesExt

CONSTANTS
  Keys,        \* connection tuples
  Ids,         \* CTA_ID values; the kernel may use one again
  NoId,        \* a message without CTA_ID
  MaxTracked,  \* MAX_TRACKED_FLOWS
  MaxQueue,    \* events the socket buffer holds
  MaxChanges,  \* bound: changes of the kernel's table
  Devices,     \* devices that may be registered
  Addresses,   \* their addresses
  Source,      \* the address a connection comes from
  NoAddress,   \* the device is not registered
  MaxMoves     \* bound: changes of the registry

ASSUME TrackingAssumption ==
  MaxTracked \in Nat /\ MaxQueue \in Nat /\ MaxChanges \in Nat
ASSUME NoIdAssumption == NoId \notin Ids
ASSUME RegistryAssumption ==
  /\ Source \in [Keys -> Addresses] /\ NoAddress \notin Addresses
  /\ MaxMoves \in Nat

VARIABLES
  kernel,      \* the kernel's table: a set of flows
  changes,     \* number of changes so far
  open,        \* the event socket is open
  messages,    \* its queue of events
  overrun,     \* the kernel had to drop an event: recv returns ENOBUFS
  view,        \* ConntrackState: flows and flow_ids
  last_error,  \* there is one
  dump,        \* the dump in progress: keys not visited yet, flows read
  device_registry,  \* the address of every device
  moves,       \* number of its changes so far
  identities,  \* the addresses refresh_stats read and has not used yet
  stats        \* global and devices: the connections that were counted

kernelVars == <<kernel, changes>>
socketVars == <<open, messages, overrun>>
statsVars == <<device_registry, moves, identities, stats>>
conntrackVars == <<kernelVars, socketVars, view, last_error, dump, statsVars>>

Flow == [id : Ids \cup {NoId}, key : Keys]
NoDump == [busy |-> FALSE, unvisited |-> {}, flows |-> <<>>]
NoFlows == [k \in {} |-> NoId]

ConntrackTypeOK ==
  /\ kernel \subseteq Flow
  /\ changes \in 0..MaxChanges
  /\ open \in BOOLEAN /\ overrun \in BOOLEAN
  /\ messages \in Seq([kind : {"new", "delete"}, flow : Flow])
  /\ Len(messages) <= MaxQueue
  /\ DOMAIN view.flows \subseteq Keys
  /\ \A k \in DOMAIN view.flows : view.flows[k] \in Ids \cup {NoId}
  /\ DOMAIN view.flow_ids \subseteq Ids
  /\ \A id \in DOMAIN view.flow_ids : view.flow_ids[id] \in Keys
  /\ last_error \in BOOLEAN
  /\ dump.busy \in BOOLEAN /\ dump.unvisited \subseteq Keys
  /\ dump.flows \in Seq(Flow) /\ Len(dump.flows) <= MaxTracked
  /\ device_registry \in [Devices -> Addresses \cup {NoAddress}] /\ moves \in 0..MaxMoves
  /\ identities \subseteq [Devices -> Addresses \cup {NoAddress}]
  /\ stats \in [total : Nat, of : [Devices -> Nat]]

ConntrackInit ==
  /\ kernel = {} /\ changes = 0
  /\ open = FALSE /\ messages = <<>> /\ overrun = FALSE
  /\ view = [flows |-> NoFlows, flow_ids |-> NoFlows]
  /\ dump = NoDump /\ last_error = FALSE
  /\ device_registry = [d \in Devices |-> NoAddress] /\ moves = 0
  /\ identities = {}
  /\ stats = [total |-> 0, of |-> [d \in Devices |-> 0]]

-----------------------------------------------------------------------------
(* insert_flow and remove_flow *)

Without(f, x) == [y \in DOMAIN f \ {x} |-> f[y]]
With(f, x, v) == [y \in DOMAIN f \cup {x} |-> IF y = x THEN v ELSE f[y]]

\* The id is indexed, and the flow it stood for goes, before the capacity
\* is looked at.
Indexed(v, f) ==
  IF f.id = NoId THEN v
  ELSE [flows |-> IF f.id \in DOMAIN v.flow_ids
                    THEN Without(v.flows, v.flow_ids[f.id]) ELSE v.flows,
        flow_ids |-> With(v.flow_ids, f.id, f.key)]

insert_flow(v, f) ==
  LET w == Indexed(v, f) IN
  IF Cardinality(DOMAIN w.flows) >= MaxTracked /\ f.key \notin DOMAIN w.flows
    THEN w
    ELSE [w EXCEPT !.flows = With(@, f.key, f.id)]

\* Mutant: the flow is looked for by the key of the event.
RemovedByKey(v, f) ==
  [flows |-> Without(v.flows, f.key), flow_ids |-> Without(v.flow_ids, f.id)]

remove_flow(v, f) ==
  IF f.id \in DOMAIN v.flow_ids
    THEN [flows |-> Without(v.flows, v.flow_ids[f.id]),
          flow_ids |-> Without(v.flow_ids, f.id)]
    ELSE [v EXCEPT !.flows = Without(@, f.key)]

-----------------------------------------------------------------------------
(* The kernel *)

Emit(kind, f) ==
  IF open /\ Len(messages) < MaxQueue
    THEN messages' = Append(messages, [kind |-> kind, flow |-> f]) /\ UNCHANGED overrun
    ELSE overrun' = open /\ UNCHANGED messages

Changed ==
  /\ changes < MaxChanges
  /\ changes' = changes + 1
  /\ UNCHANGED <<open, view, last_error, dump, statsVars>>

KernelNew(f) ==
  /\ \A g \in kernel : g.key # f.key /\ (g.id # f.id \/ f.id = NoId)
  /\ kernel' = kernel \cup {f}
  /\ Emit("new", f)
  /\ Changed

KernelUpdate(f) ==
  /\ f \in kernel
  /\ UNCHANGED kernel
  /\ Emit("new", f)
  /\ Changed

KernelDestroy(f) ==
  /\ f \in kernel
  /\ kernel' = kernel \ {f}
  /\ Emit("delete", f)
  /\ Changed

-----------------------------------------------------------------------------
(* event_loop *)

OpenSocket ==
  /\ ~open
  /\ open' = TRUE
  /\ UNCHANGED <<kernelVars, messages, overrun, view, last_error, dump,
                 statsVars>>

CloseSocket == open' = FALSE /\ messages' = <<>> /\ overrun' = FALSE

\* apply_event_messages
RecvEvent ==
  /\ open /\ ~overrun /\ messages # <<>>
  /\ LET e == Head(messages) IN
     view' = IF e.kind = "delete" THEN remove_flow(view, e.flow)
                                  ELSE insert_flow(view, e.flow)
  /\ messages' = Tail(messages)
  /\ UNCHANGED <<kernelVars, open, overrun, last_error, dump, statsVars>>

\* ENOBUFS: what is still queued is lost with the socket, which is opened
\* again; the next dump makes up for it.
RecvOverflow ==
  /\ open /\ overrun
  /\ CloseSocket
  /\ last_error' = TRUE
  /\ UNCHANGED <<kernelVars, view, dump, statsVars>>

\* Any other error of recv, or end of file.
RecvFails ==
  /\ open /\ ~overrun
  /\ CloseSocket
  /\ UNCHANGED <<kernelVars, view, last_error, dump, statsVars>>

-----------------------------------------------------------------------------
(* The dump task *)

DumpStart ==
  /\ ~dump.busy
  /\ dump' = [busy |-> TRUE, unvisited |-> Keys, flows |-> <<>>]
  /\ UNCHANGED <<kernelVars, socketVars, view, last_error, statsVars>>

\* The kernel walks its table while it changes; dump_conntrack keeps at
\* most MAX_TRACKED_FLOWS of what it sends.
DumpVisit(k) ==
  /\ dump.busy /\ k \in dump.unvisited
  /\ LET found == {f \in kernel : f.key = k} IN
     dump' = [dump EXCEPT
       !.unvisited = @ \ {k},
       !.flows = IF Len(@) < MaxTracked THEN @ \o SetToSeq(found) ELSE @]
  /\ UNCHANGED <<kernelVars, socketVars, view, last_error, statsVars>>

\* note_error: the view stays as it is.
DumpFails ==
  /\ dump.busy
  /\ dump' = NoDump
  /\ last_error' = TRUE
  /\ UNCHANGED <<kernelVars, socketVars, view, statsVars>>

\* Mutant: the dump is merged into the view.
MergedView(flows) == FoldLeft(insert_flow, view, flows)

\* The view is cleared, then every flow of the dump is inserted.
DumpedView(flows) ==
  FoldLeft(insert_flow, [flows |-> NoFlows, flow_ids |-> NoFlows], flows)

replace_flows ==
  /\ dump.busy /\ dump.unvisited = {}
  /\ view' = DumpedView(dump.flows)
  /\ last_error' = FALSE
  /\ dump' = NoDump
  /\ UNCHANGED <<kernelVars, socketVars, statsVars>>

-----------------------------------------------------------------------------
(* The statistics of the devices *)

\* A device is seen, moves to another address or is removed.
RegistryChange ==
  /\ moves < MaxMoves
  /\ \E d \in Devices, a \in Addresses \cup {NoAddress} :
       a # device_registry[d] /\ device_registry' = [device_registry EXCEPT ![d] = a]
  /\ moves' = moves + 1
  /\ UNCHANGED <<kernelVars, socketVars, view, last_error, dump, identities, stats>>

\* Mutant: of several devices with the address, each gets the connection.
EveryIdentity(ids, d, k) == ids[d] = Source[k]

\* unique_identity_for_ip: only the one device that has the address.
UniqueIdentity(ids, d, k) == {e \in Devices : ids[e] = Source[k]} = {d}

calculate_stats(keys, ids) ==
  [total |-> Cardinality(keys),
   of |-> [d \in Devices |-> Cardinality({k \in keys : UniqueIdentity(ids, d, k)})]]

\* refresh_stats reads the addresses and releases the registry ...
ReadIdentities ==
  /\ identities = {}
  /\ identities' = {device_registry}
  /\ UNCHANGED <<kernelVars, socketVars, view, last_error, dump, device_registry, moves, stats>>

\* ... and counts once it has the lock of the view.
RefreshStats ==
  /\ \E ids \in identities : stats' = calculate_stats(DOMAIN view.flows, ids)
  /\ identities' = {}
  /\ UNCHANGED <<kernelVars, socketVars, view, last_error, dump, device_registry, moves>>

Kernel == \E f \in Flow : KernelNew(f) \/ KernelUpdate(f) \/ KernelDestroy(f)
EventThread == OpenSocket \/ RecvEvent \/ RecvOverflow \/ RecvFails
DumpTask == DumpStart \/ (\E k \in Keys : DumpVisit(k)) \/ DumpFails \/ replace_flows

StatsTask == ReadIdentities \/ RefreshStats

ConntrackNext == Kernel \/ EventThread \/ DumpTask \/ RegistryChange \/ StatsTask

ConntrackSpec == ConntrackInit /\ [][ConntrackNext]_conntrackVars

(***************************************************************************)
(* The timers of the dump and of the statistics fire for ever and dumps do *)
(* not fail for ever; the event thread reads what is queued.  The kernel's *)
(* table and the registry may stop changing.                               *)
(***************************************************************************)
ConntrackFairness ==
  /\ WF_conntrackVars(DumpTask) /\ <>[][~DumpFails]_conntrackVars
  /\ WF_conntrackVars(RecvEvent) /\ WF_conntrackVars(RecvOverflow)
  /\ WF_conntrackVars(StatsTask)

FairConntrackSpec == ConntrackSpec /\ ConntrackFairness

-----------------------------------------------------------------------------
\* The view stays within its capacity, and every flow shown is the one its id
\* stands for in the index, so the DESTROY event of the id finds it, after any
\* mixture of id reuse, lost events, a full table and dumps.
IndexComplete ==
  /\ Cardinality(DOMAIN view.flows) <= MaxTracked
  /\ \A k \in DOMAIN view.flows : LET id == view.flows[k] IN
       id # NoId => id \in DOMAIN view.flow_ids /\ view.flow_ids[id] = k

Shown == {[id |-> view.flows[k], key |-> k] : k \in DOMAIN view.flows}
Connections(d) ==
  IF \E e \in Devices \ {d} : device_registry[e] = device_registry[d] THEN {}
  ELSE {f \in kernel : Source[f.key] = device_registry[d]}

\* The dump repairs missed events: once the kernel's table and the registry
\* stop changing the view becomes that table and stays so, whatever events
\* were lost, dropped or applied to a view that a dump had overtaken; and the
\* statistics become those of the table, with a connection counted for the
\* device that alone has its address.
ViewConverges ==
  <>[](Cardinality(kernel) <= MaxTracked =>
         /\ Shown = kernel
         /\ stats.total = Cardinality(kernel)
         /\ \A d \in Devices : stats.of[d] = Cardinality(Connections(d)))
=============================================================================
