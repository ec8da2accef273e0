------------------------ MODULE WanAccountingProofs -------------------------
(***************************************************************************)
(* For every command line, kernel, firewall configuration and set of       *)
(* interfaces: a process that serves has its programs where the command    *)
(* line asks for them, no byte is attributed twice, and the provider's     *)
(* side never becomes a LAN device.                                        *)
(*                                                                         *)
(* What carries the proofs is that an ifindex is never used again: an      *)
(* interface that comes back has one above all numbers before, so that no  *)
(* attachment, mark, packet or snapshot of the past can mean it.           *)
(***************************************************************************)
EXTENDS WanAccounting, FiniteSetTheorems, WellFoundedInduction, TLAPS

\* A set of natural numbers that is not empty has a least element.
LEMMA LeastNumber ==
  ASSUME NEW T \in SUBSET Nat, T # {}
  PROVE  \E x \in T : \A y \in T : x <= y
<1> DEFINE R == OpToRel(<, Nat)
<1>1. IsWellFoundedOn(R, Nat)
  BY NatLessThanWellFounded
<1> HIDE DEF R
<1>2. PICK x \in T : \A y \in T : ~(<<y, x>> \in R)
  BY <1>1, WFMin
<1>3. \A y \in T : y < x => <<y, x>> \in R
  BY DEF R, OpToRel
<1>4. \A y \in T : ~(y < x)
  BY <1>2, <1>3
<1> QED BY ONLY <1>4, x \in T, T \in SUBSET Nat

LEMMA MinIsLeast ==
  ASSUME NEW T \in SUBSET Nat, T # {}
  PROVE  Min(T) \in T /\ \A y \in T : Min(T) <= y
<1>1. PICK x \in T : \A y \in T : x <= y
  BY LeastNumber
<1> QED BY <1>1, Zenon DEF Min

-----------------------------------------------------------------------------
(* The interfaces.                                                         *)

\* An interface has the number it had at the start, or one that was given
\* later and is above all of those.
LinksInv ==
  /\ DOMAIN links \subseteq DOMAIN InitLinks
  /\ last_ifindex \in Nat
  /\ \A n \in DOMAIN InitLinks : InitLinks[n] <= last_ifindex
  /\ \A n \in DOMAIN links :
       /\ links[n] \in Nat \ {0} /\ links[n] <= last_ifindex
       /\ \/ links[n] = InitLinks[n]
          \/ \A m \in DOMAIN InitLinks : InitLinks[m] < links[n]
  /\ \A n, m \in DOMAIN links : links[n] = links[m] => n = m

LEMMA LinksInit == StartupInit => LinksInv
<1> SUFFICES ASSUME StartupInit PROVE LinksInv
  OBVIOUS
<1> DEFINE S == {InitLinks[n] : n \in DOMAIN InitLinks}
<1>1. PICK g \in DOMAIN InitLinks : \A m \in DOMAIN InitLinks : InitLinks[m] <= InitLinks[g]
  BY LinksAssumption
<1>2. S \subseteq Nat
  BY LinksAssumption
<1>3. \E x \in S : \A y \in S : x >= y
  BY <1>1, <1>2
<1>4. Max(S) \in S /\ \A y \in S : Max(S) >= y
  BY <1>3, Zenon DEF Max
<1>5. last_ifindex = Max(S) /\ links = InitLinks
  BY DEF StartupInit
<1> HIDE DEF S
<1>6. last_ifindex \in Nat /\ \A n \in DOMAIN InitLinks : InitLinks[n] <= last_ifindex
  BY <1>2, <1>4, <1>5, LinksAssumption DEF S
<1> QED BY <1>5, <1>6, LinksAssumption DEF LinksInv

LEMMA LinksDown ==
  ASSUME LinksInv, NEW n, LinkDown(n)
  PROVE  LinksInv'
BY DEF LinksInv, LinkDown

LEMMA LinksUp ==
  ASSUME LinksInv, NEW n, LinkUp(n)
  PROVE  LinksInv' /\ n \in DOMAIN links' /\ links'[n] = last_ifindex + 1
         /\ last_ifindex' = last_ifindex + 1
         /\ DOMAIN links' = DOMAIN links \cup {n}
         /\ \A m \in DOMAIN links : links'[m] = links[m]
<1>1. last_ifindex' = last_ifindex + 1 /\ n \in DOMAIN InitLinks /\ n \notin DOMAIN links
      /\ links' = [m \in DOMAIN links \cup {n} |-> IF m = n THEN last_ifindex + 1 ELSE links[m]]
  BY DEF LinkUp
<1>2. \A m \in DOMAIN links : m # n
  BY <1>1
<1>3. DOMAIN links' = DOMAIN links \cup {n} /\ links'[n] = last_ifindex + 1
      /\ \A m \in DOMAIN links : links'[m] = links[m]
  BY <1>1, <1>2
<1>4. /\ last_ifindex' \in Nat
      /\ \A m \in DOMAIN InitLinks : InitLinks[m] < last_ifindex + 1
      /\ \A m \in DOMAIN links : links[m] < last_ifindex + 1 /\ links[m] # last_ifindex + 1
  BY <1>1, LinksAssumption DEF LinksInv
<1> QED BY <1>1, <1>3, <1>4, LinksAssumption DEF LinksInv

LEMMA LinksNext == LinksInv /\ [Next]_vars => LinksInv'
<1> SUFFICES ASSUME LinksInv, [Next]_vars PROVE LinksInv'
  OBVIOUS
<1>1. ASSUME NEW n \in DOMAIN InitLinks, LinkDown(n) \/ LinkUp(n)
      PROVE  LinksInv'
  BY <1>1, LinksDown, LinksUp
<1>2. CASE UNCHANGED <<links, last_ifindex>>
  BY <1>2 DEF LinksInv
<1> QED BY <1>1, <1>2
   DEF Next, Beside, StartupNext, Run, RunService, LoadPrograms, Attach, AttachHooks,
       StartServer, RefreshTopology, CountIface, CountDevice, Collect, BeginTick,
       ReadDeviceStats, Book, MinutePasses, vars, startupVars, systemVars

-----------------------------------------------------------------------------
(* The attachments.                                                        *)

Attaching == {"attach", "start_server", "serving"}
Attachment == [name : STRING, direction : {"Ingress", "Egress"}]

\* The program for the interface and direction is in place or still to come.
Covered(n, d) ==
  \/ \E a \in attached : a.ifindex = links[n] /\ a.direction = d
  \/ phase = "attach"
     /\ \E k \in DOMAIN to_attach : to_attach[k].name = n /\ to_attach[k].direction = d

AttachInv ==
  /\ options \in OptionSets
  /\ to_attach \in Seq(Attachment)
  /\ phase \notin Attaching => attached = {}
  /\ phase \in Attaching => BackendAccepted
  /\ \A a \in attached : a.options = Opts(a.direction) /\ a.options # None
  /\ phase \in {"start_server", "serving"} => to_attach = <<>>
  /\ phase \in Attaching =>
       \A n \in DOMAIN links, d \in {"Ingress", "Egress"} :
         Monitored(n) /\ links[n] = InitLinks[n] => Covered(n, d)

LEMMA AttachInit == StartupInit => AttachInv
BY DEF StartupInit, AttachInv, Attaching

LEMMA AllAttachments ==
  ASSUME options \in OptionSets
  PROVE  /\ Attachments \in Seq(Attachment)
         /\ \A n, d : Monitored(n) /\ d \in {"Ingress", "Egress"} =>
              \E k \in DOMAIN Attachments :
                Attachments[k].name = n /\ Attachments[k].direction = d
<1> DEFINE ifs == options.iface
           len == Len(ifs)
<1>1. ifs \in Seq(STRING) /\ len \in Nat /\ DOMAIN ifs = 1..len
  <2>1. options \in Options
    BY OptionsAssumption, Zenon
  <2>2. ifs \in Seq(STRING)
    BY <2>1 DEF Options
  <2> HIDE DEF ifs
  <2> QED BY <2>2
<1> HIDE DEF len
<1>2. \A k \in 1..(2 * len) : (k + 1) \div 2 \in 1..len
  BY <1>1
<1>3. \A k \in 1..(2 * len) : ifs[(k + 1) \div 2] \in STRING
  BY <1>1, <1>2
<1> HIDE DEF ifs
<1>4. Attachments = [k \in 1..(2 * len) |->
        [name |-> ifs[(k + 1) \div 2], direction |-> IF k % 2 = 1 THEN "Ingress" ELSE "Egress"]]
  BY DEF Attachments, len, ifs
<1>5. Attachments \in [1..(2 * len) -> Attachment] /\ 2 * len \in Nat
  BY <1>1, <1>3, <1>4 DEF Attachment
<1>6. Attachments \in Seq(Attachment)
  BY <1>5
<1>7. ASSUME NEW n, NEW d \in {"Ingress", "Egress"}, Monitored(n)
      PROVE  \E k \in DOMAIN Attachments :
               Attachments[k].name = n /\ Attachments[k].direction = d
  <2>1. PICK i \in 1..len : ifs[i] = n
    BY <1>1, <1>7 DEF Monitored, ifs
  <2>2. CASE d = "Ingress"
    <3> DEFINE k == 2 * i - 1
    <3>1. k \in 1..(2 * len) /\ (k + 1) \div 2 = i /\ k % 2 = 1
      BY <1>1
    <3> QED BY <1>4, <2>1, <2>2, <3>1
  <2>3. CASE d = "Egress"
    <3> DEFINE k == 2 * i
    <3>1. k \in 1..(2 * len) /\ (k + 1) \div 2 = i /\ k % 2 = 0
      BY <1>1
    <3>2. Attachments[k].name = ifs[i] /\ Attachments[k].direction = "Egress"
      BY <1>4, <3>1
    <3> QED BY <1>5, <2>1, <2>3, <3>1, <3>2
  <2> QED BY <2>2, <2>3
<1> QED BY <1>6, <1>7

\* The place of an attachment depends on the command line and the kernel.
LEMMA PlaceKept ==
  ASSUME UNCHANGED <<options, kernel_supports_tcx>>
  PROVE  /\ BackendAccepted' = BackendAccepted
         /\ \A d : Opts(d)' = Opts(d)
         /\ \A n : Monitored(n)' = Monitored(n)
<1>1. options' = options /\ kernel_supports_tcx' = kernel_supports_tcx
  OBVIOUS
<1>2. BackendAccepted' = BackendAccepted
  BY <1>1 DEF BackendAccepted, resolved_backend
<1>3. \A d : Opts(d)' = Opts(d)
  <2>1. resolved_backend' = resolved_backend
    BY <1>1 DEF resolved_backend
  <2>2. \A d : Anchor(d)' = Anchor(d)
    BY <1>1 DEF Anchor
  <2> QED BY <1>1, <2>1, <2>2 DEF Opts
<1>4. \A n : Monitored(n)' = Monitored(n)
  BY <1>1 DEF Monitored
<1> QED BY <1>2, <1>3, <1>4

LEMMA AttachNext == LinksInv /\ AttachInv /\ [Next]_vars => AttachInv'
<1> SUFFICES ASSUME LinksInv, AttachInv, [Next]_vars PROVE AttachInv'
  OBVIOUS
<1> USE DEF Attaching
<1>1. CASE UNCHANGED <<links, kernel_supports_tcx, processVars>>
  BY <1>1, PlaceKept DEF AttachInv, Covered, processVars
<1>2. ASSUME NEW n \in DOMAIN InitLinks, LinkDown(n)
      PROVE  AttachInv'
  <2>1. /\ links' = [m \in DOMAIN links \ {n} |-> links[m]] /\ n \in DOMAIN links
        /\ attached' = {a \in attached : a.ifindex # links[n]}
        /\ UNCHANGED <<kernel_supports_tcx, options, phase, to_attach>>
    BY <1>2 DEF LinkDown
  <2>2. \A m \in DOMAIN links' : m \in DOMAIN links /\ links'[m] = links[m] /\ links[m] # links[n]
    BY <2>1 DEF LinksInv
  <2>3. phase \in Attaching =>
          \A m \in DOMAIN links', d \in {"Ingress", "Egress"} :
            Monitored(m)' /\ links'[m] = InitLinks[m] => Covered(m, d)'
    <3> SUFFICES ASSUME phase \in Attaching, NEW m \in DOMAIN links',
                        NEW d \in {"Ingress", "Egress"}, Monitored(m)',
                        links'[m] = InitLinks[m]
                 PROVE Covered(m, d)'
      OBVIOUS
    <3>1. Covered(m, d)
      BY <2>1, <2>2 DEF AttachInv, Monitored
    <3> QED BY <2>1, <2>2, <3>1 DEF Covered
  <2>4. \A a \in attached' : a.options = Opts(a.direction)' /\ a.options # None
    BY <2>1, PlaceKept DEF AttachInv
  <2> QED BY <2>1, <2>3, <2>4, PlaceKept DEF AttachInv
<1>3. ASSUME NEW n \in DOMAIN InitLinks, LinkUp(n)
      PROVE  AttachInv'
  <2>1. /\ links'[n] = last_ifindex + 1 /\ DOMAIN links' = DOMAIN links \cup {n}
        /\ \A m \in DOMAIN links : links'[m] = links[m]
    BY <1>3, LinksUp
  <2>2. links'[n] # InitLinks[n]
    BY <2>1, LinksAssumption DEF LinksInv
  <2>3. UNCHANGED <<kernel_supports_tcx, options, phase, to_attach, attached>>
    BY <1>3 DEF LinkUp, processVars
  <2>4. phase \in Attaching =>
          \A m \in DOMAIN links', d \in {"Ingress", "Egress"} :
            Monitored(m)' /\ links'[m] = InitLinks[m] => Covered(m, d)'
    BY <2>1, <2>2, <2>3 DEF AttachInv, Covered, Monitored
  <2> QED BY <2>3, <2>4, PlaceKept DEF AttachInv
<1>4. CASE Run
  BY <1>4 DEF Run, Enter, AttachInv
<1>5. CASE RunService
  BY <1>5 DEF RunService, Enter, AttachInv
<1>6. CASE LoadPrograms
  <2>1. UNCHANGED <<links, kernel_supports_tcx, options, attached>> /\ attached = {}
    BY <1>6 DEF LoadPrograms, Enter, systemVars, AttachInv
  <2>2. CASE BackendAccepted /\ phase' = "attach" /\ to_attach' = Attachments
    <3>1. options \in OptionSets
      BY DEF AttachInv
    <3>2. to_attach' \in Seq(Attachment) /\ \A n, d : Monitored(n) /\ d \in {"Ingress", "Egress"} =>
              \E k \in DOMAIN to_attach' :
                to_attach'[k].name = n /\ to_attach'[k].direction = d
      BY <2>2, <3>1, AllAttachments
    <3>3. ASSUME NEW n, NEW d, Monitored(n)', d \in {"Ingress", "Egress"}
          PROVE  Covered(n, d)'
      <4>1. Monitored(n)
        BY <2>1, <3>3, PlaceKept
      <4>2. \E k \in DOMAIN to_attach' :
              to_attach'[k].name = n /\ to_attach'[k].direction = d
        BY <3>2, <3>3, <4>1
      <4> QED BY <2>2, <4>2 DEF Covered
    <3> QED BY <2>1, <2>2, <3>2, <3>3, PlaceKept DEF AttachInv
  <2>3. CASE Enter("failed")
    BY <2>1, <2>3 DEF Enter, AttachInv
  <2> QED BY <1>6, <2>2, <2>3 DEF LoadPrograms
<1>7. CASE Attach
  <2> DEFINE next == Head(to_attach)
  <2>1. phase = "attach" /\ to_attach # <<>> /\ to_attach \in Seq(Attachment)
        /\ UNCHANGED <<links, kernel_supports_tcx, options>>
    BY <1>7 DEF Attach, systemVars, AttachInv
  <2>2. CASE AttachFails
    BY <2>1, <2>2 DEF AttachFails, AttachInv
  <2>3. CASE /\ Opts(next.direction) # None
             /\ next.name \in DOMAIN links
             /\ attached' = attached \cup {[ifindex |-> links[next.name],
                                            direction |-> next.direction,
                                            options |-> Opts(next.direction)]}
             /\ to_attach' = Tail(to_attach)
             /\ UNCHANGED <<phase, faults>>
    <3>1. \A a \in attached' : a.options = Opts(a.direction)' /\ a.options # None
      BY <2>1, <2>3, PlaceKept DEF AttachInv
    <3>2. to_attach' \in Seq(Attachment)
      BY <2>1, <2>3
    <3>3. \A k \in DOMAIN to_attach : k = 1 \/ (k - 1 \in DOMAIN to_attach'
                                              /\ to_attach'[k - 1] = to_attach[k])
      BY <2>1, <2>3
    <3>4. ASSUME NEW n \in DOMAIN links, NEW d \in {"Ingress", "Egress"}, Covered(n, d)
          PROVE  Covered(n, d)'
      <4>1. CASE \E a \in attached : a.ifindex = links[n] /\ a.direction = d
        BY <2>1, <2>3, <4>1 DEF Covered
      <4>2. ASSUME NEW k \in DOMAIN to_attach, to_attach[k].name = n,
                   to_attach[k].direction = d
            PROVE  Covered(n, d)'
        <5>1. CASE k = 1
          <6>1. next.name = n /\ next.direction = d
            BY <2>1, <4>2, <5>1
          <6> DEFINE b == [ifindex |-> links[n], direction |-> d, options |-> Opts(d)]
          <6>2. b \in attached' /\ b.ifindex = links'[n] /\ b.direction = d
            BY <2>1, <2>3, <6>1
          <6> QED BY <6>2 DEF Covered
        <5>2. CASE k # 1
          BY <2>1, <2>3, <3>3, <4>2, <5>2 DEF Covered
        <5> QED BY <5>1, <5>2
      <4> QED BY <3>4, <4>1, <4>2 DEF Covered
    <3>5. \A n \in DOMAIN links', d \in {"Ingress", "Egress"} :
            Monitored(n)' /\ links'[n] = InitLinks[n] => Covered(n, d)'
      BY <2>1, <3>4, PlaceKept DEF AttachInv
    <3> QED BY <2>1, <2>3, <3>1, <3>2, <3>5, PlaceKept DEF AttachInv
  <2> QED BY <1>7, <2>2, <2>3 DEF Attach
<1>8. CASE AttachHooks
  BY <1>8, PlaceKept DEF AttachHooks, systemVars, AttachInv, Covered
<1>9. CASE StartServer
  <2>1. CASE Enter("serving")
    BY <1>9, <2>1, PlaceKept DEF StartServer, Enter, systemVars, AttachInv, Covered
  <2>2. CASE AttachFails /\ UNCHANGED options
    BY <2>2 DEF AttachFails, AttachInv
  <2> QED BY <1>9, <2>1, <2>2 DEF StartServer
<1>10. CASE RefreshTopology
  BY <1>1, <1>10 DEF RefreshTopology, systemVars
<1>11. CASE (\E i \in 1..last_ifindex : CountIface(i)) \/ (\E p \in cpu : CountDevice(p))
            \/ Collect \/ MinutePasses \/ UNCHANGED vars
  BY <1>1, <1>11
     DEF CountIface, CountDevice, Collect, BeginTick, ReadDeviceStats, Book, MinutePasses,
         vars, startupVars, systemVars
<1> QED BY <1>2, <1>3, <1>4, <1>5, <1>6, <1>7, <1>8, <1>9, <1>10, <1>11
           DEF Next, Beside, StartupNext

LEMMA AttachedAsAsked ==
  ASSUME AttachInv
  PROVE  ServingAsAsked
<1>1. ASSUME phase = "serving", NEW a \in attached
      PROVE  AsAsked(a)
  <2>1. BackendAccepted /\ a.options = Opts(a.direction) /\ a.options # None
    BY <1>1 DEF AttachInv, Attaching
  <2>2. CASE resolved_backend = "tcx"
    <3>1. /\ a.options = [order |-> options.tc_order, anchor |-> Anchor(a.direction)]
          /\ options.tc_order \in {"before", "after"} => Anchor(a.direction) # None
      BY <2>1, <2>2 DEF Opts
    <3> QED BY <2>1, <2>2, <3>1 DEF AsAsked, BackendAccepted, resolved_backend
  <2>3. CASE resolved_backend # "tcx"
    <3> DEFINE pr == IF options.netlink_priority # None THEN options.netlink_priority
                     ELSE nl_priority(options.tc_order)
    <3>1. a.options = [priority |-> pr]
      BY <2>1, <2>3 DEF Opts
    <3>3. options.netlink_priority # None => pr = options.netlink_priority
      OBVIOUS
    <3> HIDE DEF pr
    <3>2. "order" \notin DOMAIN a.options /\ a.options.priority = pr
      BY <3>1
    <3> QED BY <2>1, <2>3, <3>1, <3>2, <3>3 DEF AsAsked, BackendAccepted, resolved_backend
  <2> QED BY <2>2, <2>3
<1>2. ASSUME phase = "serving", NEW n \in DOMAIN links, NEW d \in {"Ingress", "Egress"},
             Monitored(n), links[n] = InitLinks[n]
      PROVE  \E a \in attached : a.ifindex = links[n] /\ a.direction = d
  BY <1>2 DEF AttachInv, Attaching, Covered
<1> QED BY <1>1, <1>2 DEF ServingAsAsked, AttachInv, Attaching

(* A process that serves has its programs on every monitored interface     *)
(* that was not recreated since, in both directions, each at the place the *)
(* command line asks for; one that gave up has none (load_ebpf_programs).  *)
THEOREM ServingAsAskedHolds == Spec => []ServingAsAsked
<1>1. Init => LinksInv /\ AttachInv
  BY LinksInit, AttachInit DEF Init
<1>2. LinksInv /\ AttachInv /\ [Next]_vars => (LinksInv /\ AttachInv)'
  BY LinksNext, AttachNext
<1> QED BY <1>1, <1>2, AttachedAsAsked, PTL DEF Spec

-----------------------------------------------------------------------------
(* Snapshots of the topology.                                              *)

\* Numbers of interfaces, no two alike, all of them given already.
Snapshot(T) ==
  /\ \A n \in DOMAIN T : T[n].ifindex \in Nat \ {0} /\ T[n].ifindex <= last_ifindex
  /\ \A n, m \in DOMAIN T : T[n].ifindex = T[m].ifindex => n = m

NumbersInv ==
  /\ Snapshot(topology) /\ Snapshot(tick.topology)
  /\ tick = [topology |-> tick.topology, iface_stats |-> tick.iface_stats,
             device_stats |-> tick.device_stats]
  /\ TRACK_DEVICES \subseteq 1..last_ifindex
  /\ device_registry \subseteq 1..last_ifindex
  /\ \A p \in DEVICE_TRAFFIC_STATS \cup cpu : p.ifindex \in 1..last_ifindex

LEMMA DiscoverIs ==
  ASSUME NEW l, NEW A, NEW z
  PROVE  /\ DOMAIN discover(l, A, z) \subseteq DOMAIN l
         /\ \A n \in DOMAIN discover(l, A, z) :
              discover(l, A, z)[n].ifindex = l[n] /\ discover(l, A, z)[n].zone = ZoneOf(n, z)
BY DEF discover

LEMMA DiscoverSnapshot ==
  ASSUME LinksInv, NEW A, NEW z
  PROVE  Snapshot(discover(links, A, z))
<1>1. /\ DOMAIN discover(links, A, z) \subseteq DOMAIN links
      /\ \A n \in DOMAIN discover(links, A, z) : discover(links, A, z)[n].ifindex = links[n]
  BY DiscoverIs
<1> QED BY <1>1 DEF Snapshot, LinksInv

LEMMA NoTickIs ==
  /\ DOMAIN NoTick.topology = {} /\ NoTick.iface_stats = {} /\ NoTick.device_stats = {}
  /\ NoTick = [topology |-> NoTick.topology, iface_stats |-> NoTick.iface_stats,
               device_stats |-> NoTick.device_stats]
BY DEF NoTick, discover

\* The interface the collector takes for the WAN is one of zone wan.
LEMMA WanIsUpstream ==
  ASSUME NEW T, Snapshot(T)
  PROVE  \/ wan_ifindex(T) = 0
         \/ \E n \in DOMAIN T : T[n].zone = "wan" /\ T[n].ifindex = wan_ifindex(T)
<1> DEFINE wan == {T[n].ifindex : n \in {n \in DOMAIN T : T[n].zone = "wan"}}
<1>1. wan \in SUBSET Nat
  BY DEF Snapshot
<1>2. CASE wan = {}
  BY <1>2 DEF wan_ifindex
<1>3. CASE wan # {}
  <2>1. wan_ifindex(T) = Min(wan)
    BY <1>3 DEF wan_ifindex
  <2>2. Min(wan) \in wan
    BY <1>1, <1>3, MinIsLeast
  <2> QED BY <2>1, <2>2
<1> QED BY <1>2, <1>3

\* No neighbour is looked for on the WAN interface.
LEMMA WanHasNoNeighbors ==
  ASSUME Snapshot(tick.topology)
  PROVE  wan_ifindex(tick.topology) \notin Index(TickIfaces \ Upstream)
<1> SUFFICES ASSUME NEW m \in TickIfaces \ Upstream,
                    tick.topology[m].ifindex = wan_ifindex(tick.topology)
             PROVE  FALSE
  BY DEF Index
<1>1. m \in DOMAIN tick.topology
  BY DEF TickIfaces
<1>2. wan_ifindex(tick.topology) # 0
  BY <1>1 DEF Snapshot
<1>3. PICK n \in DOMAIN tick.topology : tick.topology[n].zone = "wan"
                     /\ tick.topology[n].ifindex = wan_ifindex(tick.topology)
  BY <1>2, WanIsUpstream
<1>4. n = m
  BY <1>1, <1>3 DEF Snapshot
<1> QED BY <1>3, <1>4 DEF Upstream, StartsWithWan

LEMMA IndexBound ==
  ASSUME LinksInv, Snapshot(tick.topology), NEW N \in SUBSET TickIfaces
  PROVE  Index(N) \subseteq 1..last_ifindex
BY DEF Index, TickIfaces, Snapshot, LinksInv

\* Every step of sync_device_tracking leaves marks on interfaces that had
\* one or that are monitored and not upstream.
LEMMA TrackingIs ==
  ASSUME sync_device_tracking
  PROVE  TRACK_DEVICES' \subseteq TRACK_DEVICES \cup Index(TickIfaces \ Upstream)
BY DEF sync_device_tracking, Marked

LEMMA NumbersInit == Init => NumbersInv
<1> SUFFICES ASSUME Init PROVE NumbersInv
  OBVIOUS
<1>1. DOMAIN topology = {}
  BY DEF Init, StartupInit, discover
<1> QED BY <1>1, NoTickIs DEF Init, NumbersInv, Snapshot

collectorVars == <<kernelVars, pc, tick, sync_due, accountVars>>

\* A discovery that succeeds: with the zones, or with a note that they are
\* lost.
LEMMA DiscoveredIs ==
  ASSUME Discovered
  PROVE  \/ /\ \E A : topology' = discover(links, A, Zones)
            /\ zones_lost' = zones_lost
         \/ /\ topology' = discover(links, Addressed, NoZones)
            /\ zones_lost' = TRUE
BY DEF Discovered

\* What a step is, as far as numbers, zones and accounts are concerned.
LEMMA StepCases ==
  ASSUME [Next]_vars
  PROVE  \/ \E n \in DOMAIN InitLinks :
              /\ LinkDown(n) \/ LinkUp(n)
              /\ UNCHANGED <<topology, zones_lost, collectorVars>>
         \/ Discovered /\ UNCHANGED <<links, last_ifindex, collectorVars>>
         \/ \E i \in 1..last_ifindex : CountIface(i)
         \/ \E p \in cpu : CountDevice(p)
         \/ BeginTick \/ ReadDeviceStats
         \/ \E neighbors \in SUBSET Index(TickIfaces) : Book(neighbors)
         \/ /\ UNCHANGED <<links, last_ifindex, topology, zones_lost, kernelVars, tick>>
            /\ UNCHANGED accountVars
<1>1. ASSUME NEW n \in DOMAIN InitLinks, Beside(LinkDown(n) \/ LinkUp(n))
      PROVE  (LinkDown(n) \/ LinkUp(n)) /\ UNCHANGED <<topology, zones_lost, collectorVars>>
  BY <1>1 DEF Beside, LinkDown, LinkUp, collectorVars
<1>2. CASE Beside(Run \/ LoadPrograms \/ Attach \/ AttachHooks \/ StartServer)
  BY <1>2 DEF Beside, Run, LoadPrograms, Attach, AttachHooks, StartServer, systemVars
<1>3. CASE Beside(RunService \/ RefreshTopology)
  <2>1. CASE Discovered
    BY <1>3, <2>1 DEF Beside, RunService, RefreshTopology, systemVars, collectorVars
  <2>2. CASE ~Discovered
    BY <1>3, <2>2 DEF Beside, RunService, RefreshTopology, systemVars
  <2> QED BY <2>1, <2>2
<1>4. CASE MinutePasses \/ UNCHANGED vars
  BY <1>4 DEF MinutePasses, vars, startupVars, systemVars
<1> QED BY <1>1, <1>2, <1>3, <1>4 DEF Next, Beside, StartupNext, Collect

LEMMA NumbersNext == LinksInv /\ NumbersInv /\ [Next]_vars => NumbersInv'
<1> SUFFICES ASSUME LinksInv, NumbersInv, [Next]_vars PROVE NumbersInv'
  OBVIOUS
<1>1. ASSUME NEW n \in DOMAIN InitLinks, LinkDown(n) \/ LinkUp(n),
             UNCHANGED <<topology, zones_lost, collectorVars>>
      PROVE  NumbersInv'
  <2>1. last_ifindex \in Nat /\ last_ifindex' \in Nat /\ last_ifindex <= last_ifindex'
    <3>1. CASE LinkDown(n)
      BY <3>1 DEF LinkDown, LinksInv
    <3>2. CASE LinkUp(n)
      BY <3>2 DEF LinkUp, LinksInv
    <3> QED BY <1>1, <3>1, <3>2
  <2> QED BY <1>1, <2>1
             DEF NumbersInv, Snapshot, collectorVars, kernelVars, accountVars
<1>2. CASE Discovered /\ UNCHANGED <<links, last_ifindex, collectorVars>>
  <2>1. PICK A, z : topology' = discover(links, A, z)
    BY <1>2, DiscoveredIs
  <2>2. Snapshot(topology)'
    BY <1>2, <2>1, DiscoverSnapshot DEF Snapshot
  <2> QED BY <1>2, <2>2 DEF NumbersInv, Snapshot, collectorVars, kernelVars, accountVars
<1>3. ASSUME NEW i \in 1..last_ifindex, CountIface(i)
      PROVE  NumbersInv'
  <2> DEFINE p == [id |-> Cardinality(IFACE_TRAFFIC_STATS) + 1, ifindex |-> i]
  <2>1. cpu' = cpu \cup {p} /\ p.ifindex = i
    BY <1>3 DEF CountIface
  <2> HIDE DEF p
  <2> QED BY <1>3, <2>1
             DEF CountIface, NumbersInv, Snapshot, startupVars, systemVars, accountVars
<1>4. ASSUME NEW p \in cpu, CountDevice(p)
      PROVE  NumbersInv'
  BY <1>4 DEF CountDevice, NumbersInv, Snapshot, startupVars, systemVars, accountVars
<1>5. CASE BeginTick
  <2>1. tick' = [topology |-> topology, iface_stats |-> IFACE_TRAFFIC_STATS, device_stats |-> {}]
    BY <1>5 DEF BeginTick, NoTick
  <2> QED BY <1>5, <2>1
             DEF BeginTick, NumbersInv, Snapshot, startupVars, systemVars, kernelVars, accountVars
<1>6. CASE ReadDeviceStats
  <2>1. tick' = [topology |-> tick.topology, iface_stats |-> tick.iface_stats,
                 device_stats |-> DEVICE_TRAFFIC_STATS]
    BY <1>6 DEF ReadDeviceStats, NumbersInv
  <2> QED BY <1>6, <2>1
             DEF ReadDeviceStats, NumbersInv, Snapshot, startupVars, systemVars, kernelVars,
                 accountVars
<1>7. ASSUME NEW neighbors \in SUBSET Index(TickIfaces), Book(neighbors)
      PROVE  NumbersInv'
  <2>1. UNCHANGED <<topology, last_ifindex, DEVICE_TRAFFIC_STATS, cpu>> /\ tick' = NoTick
    BY <1>7 DEF Book, systemVars
  <2>2. Index(TickIfaces) \subseteq 1..last_ifindex
        /\ Index(TickIfaces \ Upstream) \subseteq 1..last_ifindex
    BY IndexBound DEF NumbersInv
  <2>3. TRACK_DEVICES' \subseteq 1..last_ifindex
    BY <1>7, <2>2, TrackingIs DEF Book, NumbersInv
  <2>4. device_registry' \subseteq device_registry \cup neighbors
    BY <1>7 DEF Book
  <2> QED BY <2>1, <2>2, <2>3, <2>4, NoTickIs DEF NumbersInv, Snapshot
<1>8. CASE UNCHANGED <<links, last_ifindex, topology, zones_lost, kernelVars, tick>>
           /\ UNCHANGED accountVars
  BY <1>8 DEF NumbersInv, Snapshot, kernelVars, accountVars
<1> QED BY <1>1, <1>2, <1>3, <1>4, <1>5, <1>6, <1>7, <1>8, StepCases

-----------------------------------------------------------------------------
(* The accounts.                                                           *)

\* A packet goes to the account that the role of its interface says, each
\* time a counter that has it is booked.
AccountInv ==
  /\ prev_device_bytes \subseteq DEVICE_TRAFFIC_STATS
  /\ tick.device_stats \subseteq DEVICE_TRAFFIC_STATS
  /\ lan_devices \subseteq prev_device_bytes /\ unresolved \subseteq prev_device_bytes
  /\ wan_device \subseteq prev_iface_bytes
  /\ \A p \in prev_iface_bytes : /\ iface_role[p] \in {"wan", "lan"}
                                 /\ p \in wan_device <=> iface_role[p] = "wan"
  /\ \A p \in prev_device_bytes :
       /\ device_role[p] = "wan" => p \notin lan_devices /\ p \notin unresolved
       /\ device_role[p] = "lan" => (p \in lan_devices <=> p \notin unresolved)

LEMMA AccountInit == Init => AccountInv
BY NoTickIs DEF Init, AccountInv

LEMMA AccountBook ==
  ASSUME NumbersInv, AccountInv, NEW neighbors, Book(neighbors)
  PROVE  AccountInv'
<1> DEFINE wan == wan_ifindex(tick.topology)
           iface_delta == {p \in tick.iface_stats \ prev_iface_bytes :
                             p.ifindex \in Index(TickIfaces)}
           device_delta == tick.device_stats \ prev_device_bytes
           active == {i \in device_registry : i # wan /\ \E p \in device_delta : p.ifindex = i}
           devices_group == neighbors \cup active
           credited == {p \in device_delta : p.ifindex \in devices_group}
           others == {p \in device_delta \ credited : ~Skipped(p.ifindex)}
<1>1. /\ prev_iface_bytes' = prev_iface_bytes \cup iface_delta
      /\ prev_device_bytes' = prev_device_bytes \cup device_delta
      /\ wan_device' = wan_device \cup {p \in iface_delta : p.ifindex = wan}
      /\ lan_devices' = lan_devices \cup credited
      /\ unresolved' = unresolved \cup {p \in others : p.ifindex \in Index(TickIfaces)}
      /\ iface_role' = [p \in prev_iface_bytes' |->
           IF p \in iface_delta THEN Role(p.ifindex) ELSE iface_role[p]]
      /\ device_role' = [p \in prev_device_bytes' |->
           IF p \in device_delta THEN Role(p.ifindex) ELSE device_role[p]]
      /\ tick' = NoTick /\ DEVICE_TRAFFIC_STATS' = DEVICE_TRAFFIC_STATS
      /\ neighbors \subseteq Index(TickIfaces \ Upstream)
  BY DEF Book
<1>2. wan \notin devices_group
  BY <1>1, WanHasNoNeighbors DEF NumbersInv
<1>3. \A p \in device_delta :
        /\ p \notin prev_device_bytes
        /\ Role(p.ifindex) = "wan" => p \notin credited /\ p \notin others
        /\ Role(p.ifindex) = "lan" =>
             (p \in credited <=> ~(p \in others /\ p.ifindex \in Index(TickIfaces)))
  BY <1>2 DEF Role, Skipped
<1>4. \A p \in iface_delta : /\ p \notin prev_iface_bytes
                             /\ Role(p.ifindex) \in {"wan", "lan"}
                             /\ Role(p.ifindex) = "wan" <=> p.ifindex = wan
  BY DEF Role
<1>5. iface_delta \cap prev_iface_bytes = {} /\ device_delta \cap prev_device_bytes = {}
      /\ credited \subseteq device_delta /\ others \subseteq device_delta
  OBVIOUS
<1> HIDE DEF wan, iface_delta, device_delta, active, devices_group, credited, others
<1>6. prev_device_bytes' \subseteq DEVICE_TRAFFIC_STATS' /\ tick'.device_stats = {}
      /\ lan_devices' \subseteq prev_device_bytes' /\ unresolved' \subseteq prev_device_bytes'
      /\ wan_device' \subseteq prev_iface_bytes'
  BY <1>1, <1>5, NoTickIs DEF AccountInv, device_delta
<1>7. ASSUME NEW p \in prev_iface_bytes'
      PROVE  /\ iface_role'[p] \in {"wan", "lan"}
             /\ p \in wan_device' <=> iface_role'[p] = "wan"
  <2>1. iface_role'[p] = IF p \in iface_delta THEN Role(p.ifindex) ELSE iface_role[p]
    BY <1>1
  <2>2. CASE p \in iface_delta
    BY <1>1, <1>4, <1>5, <2>1, <2>2 DEF AccountInv
  <2>3. CASE p \notin iface_delta
    BY <1>1, <2>1, <2>3 DEF AccountInv
  <2> QED BY <2>2, <2>3
<1>8. ASSUME NEW p \in prev_device_bytes'
      PROVE  /\ device_role'[p] = "wan" => p \notin lan_devices' /\ p \notin unresolved'
             /\ device_role'[p] = "lan" => (p \in lan_devices' <=> p \notin unresolved')
  <2>1. device_role'[p] = IF p \in device_delta THEN Role(p.ifindex) ELSE device_role[p]
    BY <1>1
  <2>2. CASE p \in device_delta
    BY <1>1, <1>3, <1>5, <2>1, <2>2 DEF AccountInv
  <2>3. CASE p \notin device_delta
    BY <1>1, <1>5, <2>1, <2>3 DEF AccountInv
  <2> QED BY <2>2, <2>3
<1> QED BY <1>6, <1>7, <1>8 DEF AccountInv

LEMMA AccountNext == NumbersInv /\ AccountInv /\ [Next]_vars => AccountInv'
<1> SUFFICES ASSUME NumbersInv, AccountInv, [Next]_vars PROVE AccountInv'
  OBVIOUS
<1>1. CASE UNCHANGED <<DEVICE_TRAFFIC_STATS, tick, accountVars>>
  BY <1>1 DEF AccountInv, accountVars
<1>2. ASSUME NEW p \in cpu, CountDevice(p)
      PROVE  AccountInv'
  BY <1>2 DEF CountDevice, AccountInv, accountVars
<1>3. CASE BeginTick
  <2>1. tick'.device_stats = {}
    BY <1>3, NoTickIs DEF BeginTick
  <2> QED BY <1>3, <2>1 DEF BeginTick, AccountInv, kernelVars, accountVars
<1>4. CASE ReadDeviceStats
  <2>1. tick'.device_stats = DEVICE_TRAFFIC_STATS
    BY <1>4 DEF ReadDeviceStats, NumbersInv
  <2> QED BY <1>4, <2>1 DEF ReadDeviceStats, AccountInv, kernelVars, accountVars
<1>5. ASSUME NEW neighbors, Book(neighbors)
      PROVE  AccountInv'
  BY <1>5, AccountBook
<1>6. ASSUME NEW i, CountIface(i)
      PROVE  AccountInv'
  BY <1>1, <1>6 DEF CountIface
<1> QED BY <1>1, <1>2, <1>3, <1>4, <1>5, <1>6, StepCases DEF collectorVars, kernelVars

LEMMA ExactlyOnce ==
  ASSUME AccountInv
  PROVE  AttributedOnce
<1>1. \A p : /\ "wan" \in Accounts(p) <=> p \in wan_device
             /\ "lan" \in Accounts(p) <=> p \in lan_devices
             /\ "unresolved" \in Accounts(p) <=> p \in unresolved
             /\ Accounts(p) \subseteq {"wan", "lan", "unresolved"}
  BY DEF Accounts
<1>2. ASSUME NEW p \in prev_iface_bytes, p \in prev_device_bytes, iface_role[p] = device_role[p]
      PROVE  Cardinality(Accounts(p)) = 1
  <2>1. iface_role[p] \in {"wan", "lan"}
    BY DEF AccountInv
  <2>2. \/ p \in wan_device /\ p \notin lan_devices /\ p \notin unresolved
        \/ p \notin wan_device /\ (p \in lan_devices <=> p \notin unresolved)
    BY <1>2, <2>1 DEF AccountInv
  <2>3. Accounts(p) \in {{"wan"}, {"lan"}, {"unresolved"}}
    BY <1>1, <2>2
  <2> QED BY <2>3, FS_Singleton
<1>3. ASSUME NEW p \in prev_iface_bytes, p \notin DEVICE_TRAFFIC_STATS
      PROVE  Accounts(p) \subseteq {"wan"}
  BY <1>1, <1>3 DEF AccountInv
<1> QED BY <1>2, <1>3 DEF AttributedOnce

LEMMA AlwaysAccounted == Spec => []LinksInv /\ []NumbersInv /\ []AccountInv
<1>1. Init => LinksInv
  BY LinksInit DEF Init
<1>2. Spec => []LinksInv
  BY <1>1, LinksNext, PTL DEF Spec
<1>3. Spec => []NumbersInv
  BY <1>2, NumbersInit, NumbersNext, PTL DEF Spec
<1> QED BY <1>2, <1>3, AccountInit, AccountNext, PTL DEF Spec

(* A byte that both counters counted is added to exactly one account when  *)
(* the two bookings agree on the role of the interface, one that only the  *)
(* interface counter has to none but WAN (External), for any history of    *)
(* zones, marks, ticks and recreated interfaces.                           *)
THEOREM AttributedOnceHolds == Spec => []AttributedOnce
BY AlwaysAccounted, ExactlyOnce, PTL

-----------------------------------------------------------------------------
(* The provider's side.                                                    *)

\* The number of an interface of the provider, at the start or now.
UpIndex(i) ==
  \E n \in Provider : \/ n \in DOMAIN InitLinks /\ i = InitLinks[n]
                      \/ n \in DOMAIN links /\ i = links[n]

\* A snapshot with zones shows every interface of the provider as upstream,
\* and no other interface under one of its numbers.
ShowsProvider(T) ==
  \A n \in DOMAIN T : IF n \in Provider THEN StartsWithWan(T[n].zone)
                                        ELSE ~UpIndex(T[n].ifindex)

UpstreamInv ==
  ~zones_lost =>
    /\ ShowsProvider(topology) /\ ShowsProvider(tick.topology)
    /\ \A i \in TRACK_DEVICES \cup device_registry : ~UpIndex(i)
    /\ \A p \in DEVICE_TRAFFIC_STATS : ~UpIndex(p.ifindex)

\* What the firewall configuration says of an interface is the zone that
\* build_interface gives it.
LEMMA ZoneOfProvider == \A n \in Provider : StartsWithWan(ZoneOf(n, Zones))
<1> DEFINE sections(d) == {i \in DOMAIN Firewall : d \in ZoneDevices(Firewall[i], Network)}
<1>1. DOMAIN Zones = UNION {ZoneDevices(Firewall[i], Network) : i \in DOMAIN Firewall}
      /\ \A d \in DOMAIN Zones : Zones[d] = Firewall[Min(sections(d))].name
  BY DEF Zones, parse_firewall_zones_by_device
<1>2. ASSUME NEW d, ProviderZone(d)
      PROVE  d \in DOMAIN Zones /\ StartsWithWan(Zones[d])
  <2>1. PICK i \in DOMAIN Firewall :
          /\ d \in ZoneDevices(Firewall[i], Network) /\ StartsWithWan(Firewall[i].name)
          /\ \A j \in DOMAIN Firewall : d \in ZoneDevices(Firewall[j], Network) => i <= j
    BY <1>2 DEF ProviderZone
  <2>2. sections(d) \in SUBSET Nat /\ i \in sections(d) /\ \A j \in sections(d) : i <= j
    BY <2>1, FirewallAssumption
  <2>3. Min(sections(d)) \in sections(d) /\ Min(sections(d)) <= i
    BY <2>2, MinIsLeast
  <2>4. Min(sections(d)) = i
    BY <2>2, <2>3
  <2> QED BY <1>1, <2>1, <2>4
<1> SUFFICES ASSUME NEW n \in Provider PROVE StartsWithWan(ZoneOf(n, Zones))
  OBVIOUS
<1>3. CASE ProviderZone(n)
  BY <1>2, <1>3 DEF ZoneOf
<1>4. CASE /\ \A i \in DOMAIN Firewall : n \notin ZoneDevices(Firewall[i], Network)
           /\ infer_parent_name(n) # None /\ ProviderZone(infer_parent_name(n))
  <2>1. n \notin DOMAIN Zones
    BY <1>1, <1>4
  <2> QED BY <1>2, <1>4, <2>1 DEF ZoneOf
<1> QED BY <1>3, <1>4, ProviderAssumption

LEMMA UpstreamInit == Init => UpstreamInv
<1> SUFFICES ASSUME Init PROVE UpstreamInv
  OBVIOUS
<1>1. DOMAIN topology = {}
  BY DEF Init, StartupInit, discover
<1> QED BY <1>1, NoTickIs DEF Init, UpstreamInv, ShowsProvider

LEMMA UpIndexKept ==
  ASSUME UNCHANGED links
  PROVE  \A i : UpIndex(i)' = UpIndex(i)
BY DEF UpIndex

LEMMA UpstreamNext ==
  LinksInv /\ NumbersInv /\ UpstreamInv /\ [Next]_vars => UpstreamInv'
<1> SUFFICES ASSUME LinksInv, NumbersInv, UpstreamInv, [Next]_vars, ~zones_lost'
             PROVE  UpstreamInv'
  BY DEF UpstreamInv
<1>1. ASSUME NEW n \in DOMAIN InitLinks, LinkDown(n) \/ LinkUp(n),
             UNCHANGED <<topology, zones_lost, collectorVars>>
      PROVE  UpstreamInv'
  <2>1. last_ifindex \in Nat
    BY DEF LinksInv
  <2>2. \A i \in 1..last_ifindex : UpIndex(i)' => UpIndex(i)
    <3>1. CASE LinkDown(n)
      BY <3>1 DEF LinkDown, UpIndex
    <3>2. CASE LinkUp(n)
      <4>1. /\ links'[n] = last_ifindex + 1 /\ DOMAIN links' = DOMAIN links \cup {n}
            /\ \A m \in DOMAIN links : links'[m] = links[m]
        BY <3>2, LinksUp
      <4> QED BY <2>1, <4>1 DEF UpIndex
    <3> QED BY <1>1, <3>1, <3>2
  <2>3. UNCHANGED <<topology, zones_lost, tick, TRACK_DEVICES, device_registry,
                    DEVICE_TRAFFIC_STATS>>
    BY <1>1 DEF collectorVars, kernelVars, accountVars
  <2>4. ASSUME NEW T, Snapshot(T), ShowsProvider(T)
        PROVE  \A m \in DOMAIN T : IF m \in Provider THEN StartsWithWan(T[m].zone)
                                                     ELSE ~UpIndex(T[m].ifindex)'
    BY <2>1, <2>2, <2>4 DEF Snapshot, ShowsProvider
  <2>5. ~zones_lost /\ ShowsProvider(topology) /\ ShowsProvider(tick.topology)
    BY <2>3 DEF UpstreamInv
  <2>6. ShowsProvider(topology)' /\ ShowsProvider(tick.topology)'
    BY <2>3, <2>4, <2>5 DEF ShowsProvider, NumbersInv
  <2> QED BY <2>2, <2>3, <2>6 DEF UpstreamInv, NumbersInv
<1>2. CASE Discovered /\ UNCHANGED <<links, last_ifindex, collectorVars>>
  <2>1. PICK A : topology' = discover(links, A, Zones) /\ zones_lost' = zones_lost
    BY <1>2, DiscoveredIs
  <2>2. \A n \in DOMAIN links : n \notin Provider => ~UpIndex(links[n])
    BY LinksAssumption DEF LinksInv, UpIndex
  <2>3. ShowsProvider(topology)'
    BY <1>2, <2>1, <2>2, DiscoverIs, ZoneOfProvider, UpIndexKept DEF ShowsProvider
  <2> QED BY <1>2, <2>1, <2>3, UpIndexKept
             DEF UpstreamInv, ShowsProvider, collectorVars, kernelVars, accountVars
<1>3. ASSUME NEW i \in 1..last_ifindex, CountIface(i)
      PROVE  UpstreamInv'
  BY <1>3, UpIndexKept
     DEF CountIface, UpstreamInv, ShowsProvider, startupVars, systemVars, accountVars
<1>4. ASSUME NEW p \in cpu, CountDevice(p)
      PROVE  UpstreamInv'
  <2>1. UNCHANGED <<links, topology, zones_lost, tick, TRACK_DEVICES, device_registry>>
    BY <1>4 DEF CountDevice, startupVars, systemVars, accountVars
  <2>2. \A q \in DEVICE_TRAFFIC_STATS' : q \in DEVICE_TRAFFIC_STATS \/ q.ifindex \in TRACK_DEVICES
    BY <1>4 DEF CountDevice
  <2> QED BY <2>1, <2>2, UpIndexKept DEF UpstreamInv, ShowsProvider
<1>5. CASE BeginTick
  <2>1. tick'.topology = topology
    BY <1>5 DEF BeginTick, NoTick
  <2> QED BY <1>5, <2>1, UpIndexKept
             DEF BeginTick, UpstreamInv, ShowsProvider, startupVars, systemVars, kernelVars,
                 accountVars
<1>6. CASE ReadDeviceStats
  <2>1. tick'.topology = tick.topology
    BY <1>6 DEF ReadDeviceStats, NumbersInv
  <2> QED BY <1>6, <2>1, UpIndexKept
             DEF ReadDeviceStats, UpstreamInv, ShowsProvider, startupVars, systemVars,
                 kernelVars, accountVars
<1>7. ASSUME NEW neighbors \in SUBSET Index(TickIfaces), Book(neighbors)
      PROVE  UpstreamInv'
  <2>1. UNCHANGED <<links, topology, zones_lost, DEVICE_TRAFFIC_STATS>> /\ tick' = NoTick
        /\ neighbors \subseteq Index(TickIfaces \ Upstream)
    BY <1>7 DEF Book, systemVars
  <2>2. \A i \in Index(TickIfaces \ Upstream) : ~UpIndex(i)
    BY <2>1 DEF Index, Upstream, TickIfaces, UpstreamInv, ShowsProvider
  <2>3. \A i \in TRACK_DEVICES' : i \in TRACK_DEVICES \/ i \in Index(TickIfaces \ Upstream)
    BY <1>7, TrackingIs DEF Book
  <2>4. device_registry' \subseteq device_registry \cup neighbors
    BY <1>7 DEF Book
  <2> QED BY <2>1, <2>2, <2>3, <2>4, NoTickIs, UpIndexKept DEF UpstreamInv, ShowsProvider
<1>8. CASE UNCHANGED <<links, last_ifindex, topology, zones_lost, kernelVars, tick>>
           /\ UNCHANGED accountVars
  BY <1>8, UpIndexKept DEF UpstreamInv, ShowsProvider, kernelVars, accountVars
<1> QED BY <1>1, <1>2, <1>3, <1>4, <1>5, <1>6, <1>7, <1>8, StepCases

(* Unless a snapshot was made without zones, what is behind an interface   *)
(* the configuration gives to the provider is never registered and none of *)
(* its bytes becomes an unresolved LAN byte (ZoneOf, sync_device_tracking, *)
(* the neighbour loop).                                                    *)
THEOREM UpstreamNotADeviceHolds == Spec => []UpstreamNotADevice
<1>1. Spec => []UpstreamInv
  BY AlwaysAccounted, UpstreamInit, UpstreamNext, PTL DEF Spec
<1>2. AccountInv /\ UpstreamInv => UpstreamNotADevice
  <2> SUFFICES ASSUME AccountInv, UpstreamInv, ~zones_lost,
                      NEW links_of \in {InitLinks, links}, NEW n \in Provider \cap DOMAIN links_of
               PROVE  /\ links_of[n] \notin device_registry
                      /\ \A p \in unresolved : p.ifindex # links_of[n]
    BY DEF UpstreamNotADevice
  <2>1. UpIndex(links_of[n])
    BY DEF UpIndex
  <2> QED BY <2>1 DEF UpstreamInv, AccountInv
<1> QED BY <1>1, <1>2, AlwaysAccounted, PTL
=============================================================================
