--------------------------- MODULE MCWanAccounting --------------------------
(***************************************************************************)
(* Instances of WanAccounting: a bridge, an upstream port with a VLAN on   *)
(* top that carries the traffic, and a tunnel; the firewall names the      *)
(* logical networks, and the zone of the VLAN is that of its parent.       *)
(***************************************************************************)
EXTENDS WanAccounting, TLC

L(role, master, base) == [role |-> role, master |-> master, base |-> base]
MCLink ==
  ("br-lan" :> L("Bridge", None, None)) @@ ("eth1" :> L("Ethernet", None, None))
    @@ ("eth1.2" :> L("Ethernet", None, "eth1")) @@ ("lo" :> L("Loopback", None, None))
MCInitLinks == ("lo" :> 1) @@ ("eth1.2" :> 2) @@ ("br-lan" :> 3)
MCProvider == {"eth1.2"}
MCAddressed == {"lo", "br-lan", "eth1.2"}
MCFirewall == <<[name |-> "lan", network |-> {"lan"}, device |-> {}],
                [name |-> "wan", network |-> {"wan"}, device |-> {"br-lan"}]>>
MCNetwork == ("lan" :> {"br-lan"}) @@ ("wan" :> {"eth1"})

\* A command line, and what it is given apart from the defaults.
Default == [enable_traffic |-> TRUE, enable_ecm |-> FALSE, iface |-> <<"br-lan", "eth1.2">>,
            tc_order |-> "default", tc_backend |-> "auto", netlink_priority |-> None,
            tcx_anchor_ingress_id |-> None, tcx_anchor_egress_id |-> None,
            host |-> "0.0.0.0", log_level |-> "info"]
Given(given) == given @@ Default

\* The combinations that differ in what is accepted and attached, most of them
\* on the loopback interface, which has no traffic to book.
MCOptionSets ==
  {Default}
    \cup {Given(("tc_order" :> o) @@ ("tcx_anchor_ingress_id" :> i)
                 @@ ("tcx_anchor_egress_id" :> e) @@ ("iface" :> <<"lo">>)) :
            o \in {"first", "last", "before", "after"}, i \in {None, 7}, e \in {None, 8}}
    \cup {Given(("tc_backend" :> b) @@ ("netlink_priority" :> n) @@ ("iface" :> <<"lo">>)
                 @@ ("enable_ecm" :> TRUE)) :
            b \in {"auto", "tcx", "netlink"}, n \in {None, 5}}
    \cup {Given("enable_traffic" :> FALSE), Given("host" :> ""), Given("log_level" :> "invalid"),
          Given("iface" :> <<>>), Given("iface" :> <<"br-lan", "eth9">>),
          Given("tc_order" :> "middle"), Given("tc_backend" :> "xdp")}
=============================================================================
