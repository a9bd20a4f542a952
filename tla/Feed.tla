-------------------------------- MODULE Feed --------------------------------
(***************************************************************************)
(* The messages process_packet broadcasts to the dashboards, as far as     *)
(* their readers tell them apart: the packet they are about, the protocol  *)
(* and size they give for it, and whether their info field holds a control *)
(* character, which JSON does not allow in a string.                       *)
(***************************************************************************)
EXTENDS Integers, Sequences

VARIABLE feed    \* every message broadcast so far, in order

Protocols == {"TCP", "TLS", "HTTP", "UDP", "DNS", "ICMP", "ICMP6", "ARP"}

Message ==
  [packet : Nat, proto : Protocols, size : Nat, control : BOOLEAN]

=============================================================================
