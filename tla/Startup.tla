------------------------------ MODULE Startup -------------------------------
(***************************************************************************)
(* From the command line to a serving process: run, validate_arguments,    *)
(* the steps of run_service that can end it, and load_ebpf_programs, which *)
(* puts the TC programs on every monitored interface in both directions;   *)
(* then the task that discovers the topology again every minute.  All the  *)
(* while interfaces come and go, and ubus, ifaddrs or the kernel may       *)
(* refuse to answer.                                                       *)
(*                                                                         *)
(* run_service also restores state from disk (modules HourlyHistogram,     *)
(* DeviceLifecycle, DnsMonitor); a failure to do so only warns.  When it   *)
(* returns an error the Ebpf value is dropped and its programs leave the   *)
(* interfaces.                                                             *)
(***************************************************************************)
EXTENDS Topology

CONSTANTS
  OptionSets,  \* command lines
  Firewall,    \* the zone sections of the firewall configuration
  Network,     \* the logical networks
  Addressed,   \* interfaces that have an address
  InitLinks,   \* interfaces at the start
  MaxChanges,  \* bound: interfaces that go or come back
  MaxFaults    \* bound: requests to the system that fail

\* tc_order and tc_backend may be strings that do not parse.
Order == {"first", "default", "last", "before", "after"}
Backend == {"auto", "tcx", "netlink"}

\* A netlink priority is a u16; nothing is computed with the u32 that names a program.
Priority == 0..65535
ProgramId == Nat

\* The options that decide whether and how the service starts.
Options ==
  [enable_traffic : BOOLEAN, enable_ecm : BOOLEAN,
   iface : Seq(STRING), log_level : STRING, host : STRING,
   tc_order : STRING, tc_backend : STRING,
   netlink_priority : Priority \cup {None},
   tcx_anchor_ingress_id : ProgramId \cup {None}, tcx_anchor_egress_id : ProgramId \cup {None}]

ASSUME OptionsAssumption == OptionSets \subseteq Options

ASSUME FirewallAssumption ==
  Firewall \in Seq([name : STRING, network : SUBSET STRING, device : SUBSET STRING])

\* The kernel numbers interfaces from 1, no two alike; there are finitely
\* many, so one has the greatest number.
ASSUME LinksAssumption ==
  /\ InitLinks \in [DOMAIN InitLinks -> Nat \ {0}]
  /\ \A n, m \in DOMAIN InitLinks : InitLinks[n] = InitLinks[m] => n = m
  /\ \E n \in DOMAIN InitLinks : \A m \in DOMAIN InitLinks : InitLinks[m] <= InitLinks[n]

VARIABLES
  \* the system
  links,       \* name -> ifindex
  last_ifindex,
  kernel_supports_tcx,
  \* the process
  options, phase,
  topology,
  to_attach,   \* what the loop over the interfaces has yet to attach
  attached,    \* programs on interfaces: [ifindex, direction, options]
  hooks,       \* ECM kprobes
  \* history and bounds
  zones_lost,  \* a snapshot was made without zones
  changes, faults

systemVars == <<links, last_ifindex, kernel_supports_tcx, changes>>
processVars == <<options, phase, to_attach, attached, hooks>>
startupVars == <<systemVars, processVars, topology, zones_lost, faults>>

StartupInit ==
  /\ links = InitLinks
  /\ last_ifindex = Max({InitLinks[n] : n \in DOMAIN InitLinks})
  /\ kernel_supports_tcx \in BOOLEAN
  /\ options \in OptionSets
  /\ phase = "run"
  /\ topology = discover([n \in {} |-> 0], {}, NoZones)
  /\ to_attach = <<>> /\ attached = {} /\ hooks = {}
  /\ zones_lost = FALSE
  /\ changes = 0 /\ faults = 0

Fault == faults < MaxFaults /\ faults' = faults + 1

Enter(p) == phase' = p /\ UNCHANGED <<options, to_attach, attached, hooks>>

-----------------------------------------------------------------------------
(* The system *)

\* An interface goes, and takes the programs on it along; it comes back with
\* a new ifindex (a PPPoE session, a tunnel, an unplugged adapter).
LinkDown(n) ==
  /\ changes < MaxChanges
  /\ n \in DOMAIN links /\ Link[n].role # "Loopback"
  /\ links' = [m \in DOMAIN links \ {n} |-> links[m]]
  /\ attached' = {a \in attached : a.ifindex # links[n]}
  /\ changes' = changes + 1
  /\ UNCHANGED <<last_ifindex, kernel_supports_tcx, options, phase, to_attach, hooks,
                 topology, zones_lost, faults>>

LinkUp(n) ==
  /\ n \in DOMAIN InitLinks \ DOMAIN links
  /\ last_ifindex' = last_ifindex + 1
  /\ links' = [m \in DOMAIN links \cup {n} |-> IF m = n THEN last_ifindex' ELSE links[m]]
  /\ UNCHANGED <<kernel_supports_tcx, changes, processVars, topology, zones_lost, faults>>

-----------------------------------------------------------------------------
(* run and run_service *)

check_interface_exist == \A i \in DOMAIN options.iface : options.iface[i] \in DOMAIN links

Anchors == {options.tcx_anchor_ingress_id, options.tcx_anchor_egress_id} \ {None}

validate_arguments ==
  /\ options.enable_traffic =>
       /\ options.iface # <<>>
       /\ check_interface_exist
       /\ options.tc_order \in Order
       /\ options.tc_backend \in Backend
       /\ options.netlink_priority # None => options.tc_backend # "tcx"
       /\ IF options.tc_order \in {"before", "after"}
          THEN Anchors # {} /\ options.tc_backend # "netlink"
          ELSE Anchors = {}
  /\ options.host # ""

\* A bad log level is found after the arguments.  Without --enable-traffic
\* the process ends here.
Run ==
  /\ phase = "run"
  /\ IF validate_arguments /\ options.log_level # "invalid"
     THEN Enter(IF options.enable_traffic THEN "run_service" ELSE "exited")
     ELSE Enter("failed")
  /\ UNCHANGED <<systemVars, topology, zones_lost, faults>>

\* What TopologySnapshot::discover can return: without zones if ubus fails,
\* without addresses if getifaddrs fails, Err if sysfs cannot be listed.
Zones == parse_firewall_zones_by_device(Firewall, Network)

Discovered ==
  \/ /\ topology' = discover(links, Addressed, Zones)
     /\ UNCHANGED <<zones_lost, faults>>
  \/ /\ Fault
     /\ \/ /\ topology' = discover(links, Addressed, NoZones)
           /\ zones_lost' = TRUE
        \/ /\ topology' = discover(links, {}, Zones)
           /\ UNCHANGED zones_lost

RunService ==
  /\ phase = "run_service"
  /\ \/ Discovered /\ Enter("load")
     \/ Fault /\ Enter("failed") /\ UNCHANGED <<topology, zones_lost>>
  /\ UNCHANGED systemVars

\* The sections of load_ebpf_programs before the attachments.
resolved_backend ==
  IF options.tc_backend = "tcx" \/ (options.tc_backend = "auto" /\ kernel_supports_tcx)
  THEN "tcx" ELSE "netlink"

BackendAccepted ==
  /\ options.tc_backend = "tcx" => kernel_supports_tcx
  /\ resolved_backend = "tcx" => options.netlink_priority = None
  /\ resolved_backend = "netlink" => options.tc_order \notin {"before", "after"}

\* Every monitored interface, ingress before egress.
Attachments ==
  [k \in 1..(2 * Len(options.iface)) |->
     [name |-> options.iface[(k + 1) \div 2],
      direction |-> IF k % 2 = 1 THEN "Ingress" ELSE "Egress"]]

\* Loading, the first sync of the filter maps and the verifier may fail.
LoadPrograms ==
  /\ phase = "load"
  /\ \/ /\ BackendAccepted
        /\ phase' = "attach"
        /\ to_attach' = Attachments
        /\ UNCHANGED <<options, attached, hooks, faults>>
     \/ ~BackendAccepted /\ Enter("failed") /\ UNCHANGED faults
     \/ Fault /\ Enter("failed")
  /\ UNCHANGED <<systemVars, topology, zones_lost>>

Anchor(direction) ==
  IF direction = "Ingress" THEN options.tcx_anchor_ingress_id ELSE options.tcx_anchor_egress_id

\* The priority that stands for an order; BackendAccepted excludes the others.
nl_priority(order) ==
  CASE order = "first" -> 1 [] order = "default" -> 0 [] order = "last" -> 65535

\* Mutant: before and after take the anchor that was given, whichever it is.
OptsOfAnyAnchor(direction) ==
  IF resolved_backend = "tcx"
  THEN [order |-> options.tc_order, anchor |-> CHOOSE a \in Anchors \cup {None} :
                                               Anchors # {} => a # None]
  ELSE [priority |-> options.netlink_priority]

\* The options of an attachment; None stands for the error that one of the
\* two anchors is missing.
Opts(direction) ==
  IF resolved_backend = "tcx"
  THEN IF options.tc_order \in {"before", "after"} /\ Anchor(direction) = None
       THEN None
       ELSE [order |-> options.tc_order, anchor |-> Anchor(direction)]
  ELSE [priority |-> IF options.netlink_priority # None THEN options.netlink_priority
                     ELSE nl_priority(options.tc_order)]

AttachFails == phase' = "failed" /\ attached' = {} /\ to_attach' = <<>>

\* One attach_with_options.  An interface that has gone since it was
\* validated fails it, and so may the kernel.
Attach ==
  /\ phase = "attach" /\ to_attach # <<>>
  /\ LET next == Head(to_attach) IN
     \/ /\ Opts(next.direction) # None
        /\ next.name \in DOMAIN links
        /\ attached' = attached \cup {[ifindex |-> links[next.name],
                                       direction |-> next.direction,
                                       options |-> Opts(next.direction)]}
        /\ to_attach' = Tail(to_attach)
        /\ UNCHANGED <<phase, faults>>
     \/ /\ Opts(next.direction) = None \/ next.name \notin DOMAIN links
        /\ AttachFails
        /\ UNCHANGED faults
     \/ Fault /\ AttachFails
  /\ UNCHANGED <<systemVars, options, hooks, topology, zones_lost>>

\* The kprobes are optional: what cannot be attached is left out.
AttachHooks ==
  /\ phase = "attach" /\ to_attach = <<>>
  /\ hooks' \in SUBSET (IF options.enable_ecm THEN {"ipv4", "ipv6"} ELSE {})
  /\ phase' = "start_server"
  /\ UNCHANGED <<systemVars, options, to_attach, attached, topology,
                 zones_lost, faults>>

StartServer ==
  /\ phase = "start_server"
  /\ \/ Enter("serving") /\ UNCHANGED faults
     \/ Fault /\ AttachFails /\ UNCHANGED <<options, hooks>>
  /\ UNCHANGED <<systemVars, topology, zones_lost>>

\* The topology task; when discover fails the snapshot stays.
RefreshTopology ==
  /\ phase = "serving"
  /\ Discovered
  /\ UNCHANGED <<systemVars, processVars>>

StartupNext ==
  \/ \E n \in DOMAIN InitLinks : LinkDown(n) \/ LinkUp(n)
  \/ Run \/ RunService \/ LoadPrograms \/ Attach \/ AttachHooks \/ StartServer
  \/ RefreshTopology

-----------------------------------------------------------------------------
(* Properties *)

\* What the help texts promise of an attachment.
AsAsked(a) ==
  IF "order" \in DOMAIN a.options
  THEN /\ options.tc_backend # "netlink" /\ kernel_supports_tcx
       /\ options.netlink_priority = None
       /\ a.options.order = options.tc_order
       /\ options.tc_order \in {"before", "after"} =>
            a.options.anchor = Anchor(a.direction) /\ a.options.anchor # None
  ELSE /\ options.tc_backend # "tcx"
       /\ options.tc_order \notin {"before", "after"}
       /\ options.netlink_priority \in {None, a.options.priority}

Monitored(n) == \E i \in DOMAIN options.iface : options.iface[i] = n

\* A process that serves has its programs on every monitored interface that
\* was not recreated since, in both directions, each at the place the command
\* line asks for, although validate_arguments accepts combinations that the
\* kernel cannot serve and interfaces go while the programs are attached; a
\* process that gave up has none anywhere (load_ebpf_programs).
ServingAsAsked ==
  /\ phase = "serving" =>
       /\ \A a \in attached : AsAsked(a)
       /\ \A n \in DOMAIN links, d \in {"Ingress", "Egress"} :
            Monitored(n) /\ links[n] = InitLinks[n] =>
              \E a \in attached : a.ifindex = links[n] /\ a.direction = d
  /\ phase \in {"exited", "failed"} => attached = {}
=============================================================================
