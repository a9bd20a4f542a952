----------------------------- MODULE BpfFilter ------------------------------
(***************************************************************************)
(* The socket filters of netzer-socket (src/netzer-socket/src/socket.rs,   *)
(* attach_filter_port and attach_filter_proto): hand-assembled classic BPF *)
(* programs that the kernel runs on every frame before it reaches the      *)
(* socket.  The kernel's machine is external; the programs are the code's, *)
(* instruction by instruction, because every jump offset in them matters.  *)
(***************************************************************************)
EXTENDS Dissector, Sequences

CONSTANTS
  Frames,      \* frames the network may carry
  Filters      \* [kind, port] records: the filters a user may ask for

ASSUME BpfAssumption ==
  /\ Frames \subseteq [len : Nat, ethertype : Nat, ihl : Nat, proto : Nat,
                       sport : Nat, dport : Nat, doff : Nat]
  /\ Filters \subseteq [kind : {"port", "tcp", "udp", "icmp", "arp"}, port : Nat]

VARIABLES
  filter,      \* the filter attached to the socket
  frame,       \* the frame the kernel runs it on
  pc,          \* index of the next instruction, from 0
  A, X,        \* the registers of the machine
  verdict      \* "running", then "accept" or "drop"

vars == <<filter, frame, pc, A, X, verdict>>

\* One sock_filter.  LDH, LDB: halfword, byte at k; LDXB: X becomes four times
\* the low nibble of the byte at k; LDHX: halfword at X + k; JEQ: compare A to k;
\* RET: accept k bytes, or drop for 0.
Insn(code, jt, jf, k) == [code |-> code, jt |-> jt, jf |-> jf, k |-> k]

-----------------------------------------------------------------------------
(* The programs. *)

\* seeded fault: only the source port is compared
PortProgram_NoDestination(port) ==
  << Insn("LDH", 0, 8, 12),
     Insn("JEQ", 0, 8, ETH_IPV4),
     Insn("LDB", 0, 0, 23),
     Insn("JEQ", 1, 0, TCP),
     Insn("JEQ", 0, 5, UDP),
     Insn("LDXB", 0, 0, 14),
     Insn("LDHX", 0, 0, 14),
     Insn("JEQ", 2, 3, port),
     Insn("LDHX", 0, 0, 16),
     Insn("JEQ", 0, 1, port),
     Insn("RET", 0, 0, 65535),
     Insn("RET", 0, 0, 0) >>

\* seeded fault: a port that differs jumps one instruction short
PortProgram_ShortJump(port) ==
  << Insn("LDH", 0, 8, 12),
     Insn("JEQ", 0, 8, ETH_IPV4),
     Insn("LDB", 0, 0, 23),
     Insn("JEQ", 1, 0, TCP),
     Insn("JEQ", 0, 5, UDP),
     Insn("LDXB", 0, 0, 14),
     Insn("LDHX", 0, 0, 14),
     Insn("JEQ", 2, 0, port),
     Insn("LDHX", 0, 0, 16),
     Insn("JEQ", 0, 0, port),
     Insn("RET", 0, 0, 65535),
     Insn("RET", 0, 0, 0) >>

\* attach_filter_port.
PortProgram(port) ==
  << Insn("LDH", 0, 8, 12),
     Insn("JEQ", 0, 8, ETH_IPV4),
     Insn("LDB", 0, 0, 23),
     Insn("JEQ", 1, 0, TCP),
     Insn("JEQ", 0, 5, UDP),
     Insn("LDXB", 0, 0, 14),
     Insn("LDHX", 0, 0, 14),
     Insn("JEQ", 2, 0, port),
     Insn("LDHX", 0, 0, 16),
     Insn("JEQ", 0, 1, port),
     Insn("RET", 0, 0, 65535),
     Insn("RET", 0, 0, 0) >>

\* seeded fault: the jump of a protocol that differs is one too long
IpProtoProgram_LongJump(proto) ==
  << Insn("LDH", 0, 3, 12),
     Insn("JEQ", 0, 2, ETH_IPV4),
     Insn("LDB", 0, 0, 23),
     Insn("JEQ", 0, 2, proto),
     Insn("RET", 0, 0, 65535),
     Insn("RET", 0, 0, 0) >>

\* attach_filter_proto for tcp, udp and icmp, which differ in one operand.
IpProtoProgram(proto) ==
  << Insn("LDH", 0, 3, 12),
     Insn("JEQ", 0, 2, ETH_IPV4),
     Insn("LDB", 0, 0, 23),
     Insn("JEQ", 0, 1, proto),
     Insn("RET", 0, 0, 65535),
     Insn("RET", 0, 0, 0) >>

\* attach_filter_proto for arp.
ArpProgram ==
  << Insn("LDH", 0, 1, 12),
     Insn("JEQ", 0, 1, ETH_ARP),
     Insn("RET", 0, 0, 65535),
     Insn("RET", 0, 0, 0) >>

ProtoNumber == [tcp |-> TCP, udp |-> UDP, icmp |-> ICMP]

Program(flt) ==
  CASE flt.kind = "port" -> PortProgram(flt.port)
    [] flt.kind \in DOMAIN ProtoNumber -> IpProtoProgram(ProtoNumber[flt.kind])
    [] flt.kind = "arp" -> ArpProgram

-----------------------------------------------------------------------------
(* The machine. *)

Init ==
  /\ filter \in Filters
  /\ frame \in Frames
  /\ pc = 0
  /\ A = 0
  /\ X = 0
  /\ verdict = "running"

insn == Program(filter)[pc + 1]

\* The halfword at an offset the programs use: the EtherType, or a port.
Half(offset) ==
  IF offset = 12 THEN frame.ethertype
  ELSE IF offset = ETHERNET_HEADER_LEN + 4 * frame.ihl THEN frame.sport
  ELSE frame.dport

Runs(code) == verdict = "running" /\ insn.code = code

\* A load outside the frame drops it.
Load(offset, width, value, register, other) ==
  /\ IF offset + width <= frame.len
       THEN /\ register' = value
            /\ pc' = pc + 1
            /\ UNCHANGED verdict
       ELSE /\ verdict' = "drop"
            /\ UNCHANGED <<register, pc>>
  /\ UNCHANGED <<filter, frame, other>>

LoadHalf == Runs("LDH") /\ Load(insn.k, 2, Half(insn.k), A, X)

LoadByte == Runs("LDB") /\ Load(insn.k, 1, frame.proto, A, X)

LoadHeaderLen == Runs("LDXB") /\ Load(insn.k, 1, 4 * frame.ihl, X, A)

LoadHalfIndexed == Runs("LDHX") /\ Load(X + insn.k, 2, Half(X + insn.k), A, X)

JumpIfEqual ==
  /\ Runs("JEQ")
  /\ pc' = pc + 1 + (IF A = insn.k THEN insn.jt ELSE insn.jf)
  /\ UNCHANGED <<filter, frame, A, X, verdict>>

Return ==
  /\ Runs("RET")
  /\ verdict' = IF insn.k > 0 THEN "accept" ELSE "drop"
  /\ UNCHANGED <<filter, frame, pc, A, X>>

Next ==
  \/ LoadHalf \/ LoadByte \/ LoadHeaderLen \/ LoadHalfIndexed
  \/ JumpIfEqual \/ Return

Spec == Init /\ [][Next]_vars

-----------------------------------------------------------------------------
(* Properties. *)

\* Every variable has its type; no jump leaves the program (socket.rs:81, :117):
\* the kernel would refuse to attach it.
TypeOK ==
  /\ filter \in Filters
  /\ frame \in Frames
  /\ pc \in 0 .. Len(Program(filter)) - 1
  /\ A \in Nat
  /\ X \in Nat
  /\ verdict \in {"running", "accept", "drop"}

\* The packets the user asks for, as process_packet would show them.
AskedFor(flt, f) ==
  CASE flt.kind = "port" -> Shown(f) \in {"TCP", "UDP"} /\ flt.port \in {f.sport, f.dport}
    [] flt.kind = "tcp" -> Shown(f) = "TCP"
    [] flt.kind = "udp" -> Shown(f) = "UDP"
    [] flt.kind = "icmp" -> Shown(f) = "ICMP"
    [] flt.kind = "arp" -> Shown(f) = "ARP"

\* No filter costs the user a packet that the parsers behind it would have
\* shown as a match: IPv4 with options and IPv6 included (socket.rs:80, :116).
NoMatchDropped == verdict = "drop" => ~AskedFor(filter, frame)

\* What a filter accepts matches it, as far as it looks: the arp filter at every
\* frame, the others at IPv4 frames, and the port filter at those of TCP and UDP.
ExactWhereItLooks ==
  verdict = "accept" =>
    CASE filter.kind = "arp" -> frame.ethertype = ETH_ARP
      [] filter.kind = "port" ->
           frame.ethertype = ETH_IPV4 /\ frame.proto \in {TCP, UDP} =>
             filter.port \in {frame.sport, frame.dport}
      [] OTHER -> frame.ethertype = ETH_IPV4 => frame.proto = ProtoNumber[filter.kind]

\* README.md:19 says that the filters ensure that only matching packets reach
\* userspace: none that process_packet would show as something else.
OnlyMatchingReachUserspace ==
  verdict = "accept" => Shown(frame) = "none" \/ AskedFor(filter, frame)

-----------------------------------------------------------------------------
(* What the machine knows of the frame at each instruction. *)

PortKnows ==
  /\ pc = 1 => A = frame.ethertype
  /\ pc \in (2 .. 9) \cup {11} => frame.ethertype = ETH_IPV4
  /\ pc \in {3, 4} => A = frame.proto
  /\ pc = 4 => frame.proto # TCP
  /\ pc \in (5 .. 9) \cup {11} => frame.proto \in {TCP, UDP}
  /\ pc \in 6 .. 9 => X = 4 * frame.ihl
  /\ pc = 7 => A = frame.sport
  /\ pc = 9 => A = frame.dport
  /\ pc \in {8, 9, 11} => frame.sport # filter.port
  /\ pc = 11 => frame.dport # filter.port
  /\ pc = 10 /\ frame.ethertype = ETH_IPV4 /\ frame.proto \in {TCP, UDP} =>
       filter.port \in {frame.sport, frame.dport}

IpProtoKnows(proto) ==
  /\ pc = 1 => A = frame.ethertype
  /\ pc \in {2, 3, 5} => frame.ethertype = ETH_IPV4
  /\ pc = 3 => A = frame.proto
  /\ pc = 4 /\ frame.ethertype = ETH_IPV4 => frame.proto = proto
  /\ pc = 5 => frame.proto # proto

ArpKnows ==
  /\ pc = 1 => A = frame.ethertype
  /\ pc = 2 => frame.ethertype = ETH_ARP
  /\ pc = 3 => frame.ethertype # ETH_ARP

Knows ==
  CASE filter.kind = "port" -> PortKnows
    [] filter.kind = "arp" -> ArpKnows
    [] OTHER -> IpProtoKnows(ProtoNumber[filter.kind])

BpfInv ==
  /\ TypeOK
  /\ verdict = "running" => Knows
  /\ NoMatchDropped
  /\ ExactWhereItLooks

=============================================================================
