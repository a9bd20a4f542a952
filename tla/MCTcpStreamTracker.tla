------------------------ MODULE MCTcpStreamTracker --------------------------
(***************************************************************************)
(* Instances of TcpStreamTracker for TLC.  Two processes of one host and   *)
(* one of another: three connections, one of them inside a host, every     *)
(* pair of them sharing an endpoint; and one connection over IPv6.         *)
(***************************************************************************)
EXTENDS TcpStreamTracker

Hosts == {<<1, 80>>, <<1, 443>>, <<2, 80>>}
Ipv6Hosts == {<<6, 80>>, <<7, 80>>}
AllHosts == Hosts \cup Ipv6Hosts
OneConnection == {<<1, 80>>, <<2, 80>>}

=============================================================================
