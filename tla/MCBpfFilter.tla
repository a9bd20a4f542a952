---------------------------- MODULE MCBpfFilter -----------------------------
(***************************************************************************)
(* Instances of BpfFilter for TLC: frames of every EtherType and protocol  *)
(* the programs tell apart and one they do not know, with and without IP   *)
(* options, and of the lengths around every bounds check of the loads and  *)
(* of the parsers; the port asked for as source, destination, both or none.*)
(***************************************************************************)
EXTENDS BpfFilter

Lengths == {14, 23, 24, 34, 35, 36, 37, 38, 40, 42, 54, 58, 60, 74}

AllFrames ==
  [len : Lengths, ethertype : {ETH_IPV4, ETH_ARP, ETH_IPV6, 35020}, ihl : {4, 5, 6},
   proto : {ICMP, TCP, UDP, ICMPV6}, sport : {53, 443}, dport : {53, 443}, doff : {4, 5}]

\* Frames as they come from hosts that speak IPv4 and ARP, of full length.
LanFrames ==
  [len : {60}, ethertype : {ETH_IPV4, ETH_ARP}, ihl : {5}, proto : {ICMP, TCP, UDP},
   sport : {443, 51000}, dport : {53}, doff : {5}]

PortFilter == [kind : {"port"}, port : {443}]
ProtoFilters == [kind : {"tcp", "udp", "icmp", "arp"}, port : {0}]
AllFilters == PortFilter \cup ProtoFilters

=============================================================================
