---------------------------- MODULE MCPacketPath ----------------------------
(***************************************************************************)
(* Instances of PacketPath.  The router is renumbered from wan1 to wan2 or *)
(* back; with lan either fills the filter map.  The connections: a browser *)
(* and LuCI, a LAN client and a web server elsewhere (seen on the LAN      *)
(* side), the router itself and a web server, and a DNS exchange.  The     *)
(* counter map has room for one of the two directions of the interface.    *)
(***************************************************************************)
EXTENDS PacketPath

MCConfigurations == {{"lan", "wan1"}, {"lan", "wan2"}}
MCPorts == {443}

Flow(iface, direction, toServer, dns, client, server, port) ==
  [iface |-> iface, ip_version |-> 4, direction |-> direction, toServer |-> toServer,
   plain |-> ~dns, dns |-> dns, client |-> client, client_port |-> 5000,
   server |-> server, server_port |-> port]

\* Both directions of a connection on an interface the request enters
\* through, or leaves through.
Inbound(iface, client, server, port) ==
  {Flow(iface, "Ingress", TRUE, FALSE, client, server, port),
   Flow(iface, "Egress", FALSE, FALSE, client, server, port)}
Outbound(iface, client, server, port) ==
  {Flow(iface, "Egress", TRUE, FALSE, client, server, port),
   Flow(iface, "Ingress", FALSE, FALSE, client, server, port)}

MCPackets ==
  Inbound("br", "pc", "lan", 443)
    \cup Inbound("br", "pc", "web", 443)
    \cup Outbound("br", "wan1", "web", 443)
    \cup {Flow("br", "Ingress", FALSE, TRUE, "wan1", "resolver", 53)}

OneIface == {"br"}
=============================================================================
