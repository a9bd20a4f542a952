----------------------------- MODULE Dissector ------------------------------
(***************************************************************************)
(* How process_packet takes a frame apart: the length checks of the        *)
(* parsers of netzer-core (ethernet, ipv4, ipv6, arp, tcp, udp, icmp) and  *)
(* the dispatch of main.rs, down to the handler that shows the packet.     *)
(*                                                                         *)
(* A frame is a record of what the parsers look at: its length, the        *)
(* EtherType, the header length and protocol of its network header, the    *)
(* two halfwords behind that header (the ports, for TCP and UDP) and the   *)
(* data offset of a TCP header.                                            *)
(***************************************************************************)
EXTENDS Integers

ETH_IPV4 == 2048    \* 0x0800
ETH_ARP  == 2054    \* 0x0806
ETH_IPV6 == 34525   \* 0x86DD

ICMP   == 1
TCP    == 6
UDP    == 17
ICMPV6 == 58

ETHERNET_HEADER_LEN == 14
IPV4_HEADER_MIN_LEN == 20
IPV6_HEADER_LEN == 40
ARP_HEADER_LEN == 28
TCP_HEADER_MIN_LEN == 20
UDP_HEADER_LEN == 8
ICMP_HEADER_LEN == 8

EthernetParses(f) == f.len >= ETHERNET_HEADER_LEN

\* Bytes behind the Ethernet header.
PacketLen(f) == f.len - ETHERNET_HEADER_LEN

Ipv4Parses(f) ==
  /\ PacketLen(f) >= IPV4_HEADER_MIN_LEN
  /\ 4 * f.ihl >= IPV4_HEADER_MIN_LEN
  /\ PacketLen(f) >= 4 * f.ihl

Ipv6Parses(f) == PacketLen(f) >= IPV6_HEADER_LEN

ArpParses(f) == PacketLen(f) >= ARP_HEADER_LEN

\* The parsers of what is behind an IP header: n bytes.
TcpParses(f, n) ==
  /\ n >= TCP_HEADER_MIN_LEN
  /\ 4 * f.doff >= TCP_HEADER_MIN_LEN
  /\ n >= 4 * f.doff

UdpParses(n) == n >= UDP_HEADER_LEN

IcmpParses(n) == n >= ICMP_HEADER_LEN

\* The handlers behind an IPv4 header, in an ip_payload of n bytes.
ShownIpv4(f, n) ==
  CASE f.proto = TCP /\ TcpParses(f, n) -> "TCP"
    [] f.proto = UDP /\ UdpParses(n) -> "UDP"
    [] f.proto = ICMP /\ IcmpParses(n) -> "ICMP"
    [] OTHER -> "none"

ShownIpv6(f, n) ==
  CASE f.proto = TCP /\ TcpParses(f, n) -> "TCP"
    [] f.proto = UDP /\ UdpParses(n) -> "UDP"
    [] f.proto = ICMPV6 /\ IcmpParses(n) -> "ICMP6"
    [] OTHER -> "none"

\* The handler of process_packet that gets to the end, or "none".
Shown(f) ==
  CASE ~EthernetParses(f) -> "none"
    [] EthernetParses(f) /\ f.ethertype = ETH_IPV4 /\ Ipv4Parses(f) ->
         ShownIpv4(f, PacketLen(f) - 4 * f.ihl)
    [] EthernetParses(f) /\ f.ethertype = ETH_IPV6 /\ Ipv6Parses(f) ->
         ShownIpv6(f, PacketLen(f) - IPV6_HEADER_LEN)
    [] EthernetParses(f) /\ f.ethertype = ETH_ARP /\ ArpParses(f) -> "ARP"
    [] OTHER -> "none"

=============================================================================
