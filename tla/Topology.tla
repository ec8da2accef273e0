------------------------------ MODULE Topology ------------------------------
(***************************************************************************)
(* TopologySnapshot::discover as a function of what the system answers:    *)
(* the interfaces the kernel has, their addresses, and the zones that ubus *)
(* reports from the firewall and network configuration.                    *)
(*                                                                         *)
(* Names are strings.  What sysfs tells of an interface is the record      *)
(* Link[name]: its role, the bridge it is a port of (master) and the part  *)
(* of its name before a dot (base), None where there is no such thing.     *)
(***************************************************************************)
EXTENDS Integers, FiniteSets, Sequences, FiniteSetsExt

CONSTANTS
  Link,      \* name of an interface -> [role, master, base]
  None

\* devices_by_network: what the name of a logical network stands for.
DevicesOf(network, n) == IF n \in DOMAIN network THEN {n} \cup network[n] ELSE {n}

ZoneDevices(zone, network) ==
  zone.device \cup UNION {DevicesOf(network, n) : n \in zone.network}

\* firewall is the list of zone sections, network the dump of the logical
\* networks: a name -> its l3_device and device.  A device that two zones
\* name belongs to the first.
parse_firewall_zones_by_device(firewall, network) ==
  LET sections(d) == {i \in DOMAIN firewall : d \in ZoneDevices(firewall[i], network)}
      devices == UNION {ZoneDevices(firewall[i], network) : i \in DOMAIN firewall}
  IN  [d \in devices |-> firewall[Min(sections(d))].name]

\* No zone for any device: what discover uses when ubus cannot be read.
NoZones == [d \in {} |-> "unknown"]

infer_parent_name(name) ==
  IF Link[name].master # None THEN Link[name].master ELSE Link[name].base

\* Mutant: the zone of a port or VLAN is its own or none.
OwnZone(name, zones) == IF name \in DOMAIN zones THEN zones[name] ELSE "unknown"

\* The zone build_interface gives an interface: its own, else its parent's.
ZoneOf(name, zones) ==
  LET parent == infer_parent_name(name) IN
  IF name \in DOMAIN zones THEN zones[name]
  ELSE IF parent # None /\ parent \in DOMAIN zones THEN zones[parent]
  ELSE "unknown"

is_included_in_topology(role, has_ip) ==
  CASE role = "Loopback" -> FALSE
    [] role = "Other" -> has_ip
    [] OTHER -> TRUE

\* links: name -> ifindex of the interfaces the kernel has; addressed: the
\* interfaces with an address.
discover(links, addressed, zones) ==
  [n \in {n \in DOMAIN links : is_included_in_topology(Link[n].role, n \in addressed)} |->
     [ifindex |-> links[n], zone |-> ZoneOf(n, zones)]]

\* The first interface by ifindex in zone wan, as the collector looks it up.
wan_ifindex(topology) ==
  LET wan == {topology[n].ifindex : n \in {n \in DOMAIN topology : topology[n].zone = "wan"}}
  IN  IF wan = {} THEN 0 ELSE Min(wan)

\* zone.starts_with("wan"), for the names the instances use.
StartsWithWan(zone) == zone \in {"wan", "wan6", "wanb"}
=============================================================================
