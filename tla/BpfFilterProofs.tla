-------------------------- MODULE BpfFilterProofs ---------------------------
(***************************************************************************)
(* Proofs about BpfFilter, for every frame and every port: no filter drops *)
(* a packet that was asked for, and what it accepts matches as far as it   *)
(* looks.  One lemma per program, one step per instruction.                *)
(***************************************************************************)
EXTENDS BpfFilter, TLAPS

EtherTypes == ETH_IPV4 = 2048 /\ ETH_ARP = 2054 /\ ETH_IPV6 = 34525

FrameType == [len : Nat, ethertype : Nat, ihl : Nat, proto : Nat,
              sport : Nat, dport : Nat, doff : Nat]

LEMMA Numbers == EtherTypes
BY DEF EtherTypes, ETH_IPV4, ETH_ARP, ETH_IPV6

(* A frame shown with ports has an IP header and eight bytes behind it. *)
LEMMA ShownLength ==
  ASSUME NEW f \in FrameType
  PROVE  /\ Shown(f) # "none" => f.len >= 14
         /\ Shown(f) \in {"TCP", "UDP", "ICMP"} =>
              /\ f.ethertype \in {ETH_IPV4, ETH_IPV6}
              /\ f.ethertype = ETH_IPV4 => f.len >= 34 /\ f.len >= 14 + 4 * f.ihl + 8
         /\ Shown(f) = "TCP" => f.proto = TCP
         /\ Shown(f) = "UDP" => f.proto = UDP
         /\ Shown(f) = "ICMP" => f.proto = ICMP
         /\ Shown(f) = "ARP" => f.ethertype = ETH_ARP
BY Numbers, SMTT(60) DEF EtherTypes, FrameType, Shown, ShownIpv4, ShownIpv6,
   EthernetParses, PacketLen, Ipv4Parses, Ipv6Parses, ArpParses, TcpParses, UdpParses,
   IcmpParses, TCP, UDP, ICMP, ICMPV6, ETHERNET_HEADER_LEN, IPV4_HEADER_MIN_LEN,
   IPV6_HEADER_LEN, ARP_HEADER_LEN, TCP_HEADER_MIN_LEN, UDP_HEADER_LEN, ICMP_HEADER_LEN

LEMMA PortInsn ==
  ASSUME filter.kind = "port", TypeOK
  PROVE  /\ pc \in 0 .. 11
         /\ pc = 0 => insn = Insn("LDH", 0, 8, 12)
         /\ pc = 1 => insn = Insn("JEQ", 0, 8, ETH_IPV4)
         /\ pc = 2 => insn = Insn("LDB", 0, 0, 23)
         /\ pc = 3 => insn = Insn("JEQ", 1, 0, TCP)
         /\ pc = 4 => insn = Insn("JEQ", 0, 5, UDP)
         /\ pc = 5 => insn = Insn("LDXB", 0, 0, 14)
         /\ pc = 6 => insn = Insn("LDHX", 0, 0, 14)
         /\ pc = 7 => insn = Insn("JEQ", 2, 0, filter.port)
         /\ pc = 8 => insn = Insn("LDHX", 0, 0, 16)
         /\ pc = 9 => insn = Insn("JEQ", 0, 1, filter.port)
         /\ pc = 10 => insn = Insn("RET", 0, 0, 65535)
         /\ pc = 11 => insn = Insn("RET", 0, 0, 0)
<1>1. Program(filter) = PortProgram(filter.port)
  BY DEF Program, ProtoNumber
<1>2. Len(PortProgram(filter.port)) = 12
  BY DEF PortProgram
<1>. QED  BY <1>1, <1>2 DEF TypeOK, insn, PortProgram

LEMMA IpProtoInsn ==
  ASSUME filter.kind \in {"tcp", "udp", "icmp"}, TypeOK
  PROVE  /\ pc \in 0 .. 5
         /\ pc = 0 => insn = Insn("LDH", 0, 3, 12)
         /\ pc = 1 => insn = Insn("JEQ", 0, 2, ETH_IPV4)
         /\ pc = 2 => insn = Insn("LDB", 0, 0, 23)
         /\ pc = 3 => insn = Insn("JEQ", 0, 1, ProtoNumber[filter.kind])
         /\ pc = 4 => insn = Insn("RET", 0, 0, 65535)
         /\ pc = 5 => insn = Insn("RET", 0, 0, 0)
<1>1. Program(filter) = IpProtoProgram(ProtoNumber[filter.kind])
  BY DEF Program, ProtoNumber
<1>2. Len(IpProtoProgram(ProtoNumber[filter.kind])) = 6
  BY DEF IpProtoProgram
<1>. QED  BY <1>1, <1>2 DEF TypeOK, insn, IpProtoProgram

LEMMA ArpInsn ==
  ASSUME filter.kind = "arp", TypeOK
  PROVE  /\ pc \in 0 .. 3
         /\ pc = 0 => insn = Insn("LDH", 0, 1, 12)
         /\ pc = 1 => insn = Insn("JEQ", 0, 1, ETH_ARP)
         /\ pc = 2 => insn = Insn("RET", 0, 0, 65535)
         /\ pc = 3 => insn = Insn("RET", 0, 0, 0)
<1>1. Program(filter) = ArpProgram
  BY DEF Program, ProtoNumber
<1>2. Len(ArpProgram) = 4
  BY DEF ArpProgram
<1>. QED  BY <1>1, <1>2 DEF TypeOK, insn, ArpProgram

-----------------------------------------------------------------------------
(* What an instruction does, once its operands are known. *)

LEMMA InsnFields ==
  ASSUME NEW c, NEW jt, NEW jf, NEW k
  PROVE  LET i == Insn(c, jt, jf, k)
         IN  i.code = c /\ i.jt = jt /\ i.jf = jf /\ i.k = k
BY DEF Insn

\* The opcode of the instruction says which action it is.
LEMMA Decode ==
  ASSUME Next
  PROVE  /\ verdict = "running"
         /\ insn.code = "LDH" => LoadHalf
         /\ insn.code = "LDB" => LoadByte
         /\ insn.code = "LDXB" => LoadHeaderLen
         /\ insn.code = "LDHX" => LoadHalfIndexed
         /\ insn.code = "JEQ" => JumpIfEqual
         /\ insn.code = "RET" => Return
BY DEF Next, LoadHalf, LoadByte, LoadHeaderLen, LoadHalfIndexed, JumpIfEqual, Return, Runs

\* No action changes the filter or the frame.
LEMMA Fixed ==
  ASSUME Next
  PROVE  filter' = filter /\ frame' = frame
BY DEF Next, LoadHalf, LoadByte, LoadHeaderLen, LoadHalfIndexed, JumpIfEqual,
   Return, Load

LEMMA LDH ==
  ASSUME Next, NEW k, NEW jt, NEW jf, insn = Insn("LDH", jt, jf, k)
  PROVE  /\ X' = X
         /\ IF k + 2 <= frame.len
              THEN A' = Half(k) /\ pc' = pc + 1 /\ verdict' = "running"
              ELSE verdict' = "drop" /\ A' = A /\ pc' = pc
<1>1. insn.code = "LDH" /\ insn.k = k
  BY InsnFields
<1>2. LoadHalf /\ verdict = "running"
  BY <1>1, Decode
<1>. QED  BY <1>1, <1>2 DEF LoadHalf, Load

LEMMA LDB ==
  ASSUME Next, NEW k, NEW jt, NEW jf, insn = Insn("LDB", jt, jf, k)
  PROVE  /\ X' = X
         /\ IF k + 1 <= frame.len
              THEN A' = frame.proto /\ pc' = pc + 1 /\ verdict' = "running"
              ELSE verdict' = "drop" /\ A' = A /\ pc' = pc
<1>1. insn.code = "LDB" /\ insn.k = k
  BY InsnFields
<1>2. LoadByte /\ verdict = "running"
  BY <1>1, Decode
<1>. QED  BY <1>1, <1>2 DEF LoadByte, Load

LEMMA LDXB ==
  ASSUME Next, NEW k, NEW jt, NEW jf, insn = Insn("LDXB", jt, jf, k)
  PROVE  /\ A' = A
         /\ IF k + 1 <= frame.len
              THEN X' = 4 * frame.ihl /\ pc' = pc + 1 /\ verdict' = "running"
              ELSE verdict' = "drop" /\ X' = X /\ pc' = pc
<1>1. insn.code = "LDXB" /\ insn.k = k
  BY InsnFields
<1>2. LoadHeaderLen /\ verdict = "running"
  BY <1>1, Decode
<1>. QED  BY <1>1, <1>2 DEF LoadHeaderLen, Load

LEMMA LDHX ==
  ASSUME Next, NEW k, NEW jt, NEW jf, insn = Insn("LDHX", jt, jf, k)
  PROVE  /\ X' = X
         /\ IF X + k + 2 <= frame.len
              THEN A' = Half(X + k) /\ pc' = pc + 1 /\ verdict' = "running"
              ELSE verdict' = "drop" /\ A' = A /\ pc' = pc
<1>1. insn.code = "LDHX" /\ insn.k = k
  BY InsnFields
<1>2. LoadHalfIndexed /\ verdict = "running"
  BY <1>1, Decode
<1>. QED  BY <1>1, <1>2 DEF LoadHalfIndexed, Load

LEMMA JEQ ==
  ASSUME Next, NEW k, NEW jt, NEW jf, insn = Insn("JEQ", jt, jf, k)
  PROVE  /\ A' = A /\ X' = X /\ verdict' = "running"
         /\ pc' = pc + 1 + (IF A = k THEN jt ELSE jf)
<1>1. insn.code = "JEQ" /\ insn.k = k /\ insn.jt = jt /\ insn.jf = jf
  BY InsnFields
<1>2. JumpIfEqual /\ verdict = "running"
  BY <1>1, Decode
<1>. QED  BY <1>1, <1>2 DEF JumpIfEqual

LEMMA RET ==
  ASSUME Next, NEW k, NEW jt, NEW jf, insn = Insn("RET", jt, jf, k)
  PROVE  /\ A' = A /\ X' = X /\ pc' = pc
         /\ verdict' = IF k > 0 THEN "accept" ELSE "drop"
<1>1. insn.code = "RET" /\ insn.k = k
  BY InsnFields
<1>2. Return /\ verdict = "running"
  BY <1>1, Decode
<1>. QED  BY <1>1, <1>2 DEF Return

-----------------------------------------------------------------------------
(* The invariant, instruction by instruction of each program. *)

\* What is left to show of an instruction in a program of n instructions.
Fine(n) ==
  /\ pc' \in 0 .. n - 1 /\ A' \in Nat /\ X' \in Nat
  /\ verdict' \in {"running", "drop", "accept"}
  /\ verdict' = "drop" => ~AskedFor(filter, frame)

LEMMA PortStep ==
  ASSUME BpfInv, filter.kind = "port", Next
  PROVE  /\ Fine(12)
         /\ verdict' = "running" => PortKnows'
         /\ verdict' = "accept" =>
              (frame.ethertype = ETH_IPV4 /\ frame.proto \in {TCP, UDP} =>
                 filter.port \in {frame.sport, frame.dport})
<1>0. /\ TypeOK /\ PortKnows
      /\ filter' = filter /\ frame' = frame
      /\ A \in Nat /\ X \in Nat /\ pc \in 0 .. 11 /\ frame \in FrameType
      /\ filter.port \in Nat
  <2>1. TypeOK /\ PortKnows
    BY Decode DEF BpfInv, Knows
  <2>2. pc \in 0 .. 11
    BY <2>1, PortInsn
  <2>. QED  BY <2>1, <2>2, Fixed, BpfAssumption DEF TypeOK, FrameType
<1>a. AskedFor(filter, frame) => /\ Shown(frame) \in {"TCP", "UDP"}
               /\ filter.port \in {frame.sport, frame.dport}
  BY DEF AskedFor
<1>b. /\ AskedFor(filter, frame) => frame.len >= 14
      /\ AskedFor(filter, frame) /\ frame.ethertype = ETH_IPV4 =>
           frame.len >= 34 /\ frame.len >= 14 + 4 * frame.ihl + 8
      /\ AskedFor(filter, frame) => frame.ethertype \in {ETH_IPV4, ETH_IPV6} /\ frame.proto \in {TCP, UDP}
  BY <1>0, <1>a, ShownLength
<1>c. /\ Half(12) = frame.ethertype
      /\ Half(4 * frame.ihl + 14) = frame.sport
      /\ Half(4 * frame.ihl + 16) = frame.dport
  BY <1>0 DEF Half, FrameType, ETHERNET_HEADER_LEN
<1>d. /\ frame.len \in Nat /\ frame.ethertype \in Nat /\ frame.ihl \in Nat
      /\ frame.proto \in Nat /\ frame.sport \in Nat /\ frame.dport \in Nat
  BY <1>0 DEF FrameType
<1>1. CASE pc = 0
  <2>1. insn = Insn("LDH", 0, 8, 12)
    BY <1>0, <1>1, PortInsn
  <2>2. /\ X' = X
        /\ IF 12 + 2 <= frame.len
             THEN A' = Half(12) /\ pc' = pc + 1 /\ verdict' = "running"
             ELSE verdict' = "drop" /\ A' = A /\ pc' = pc
    BY <2>1, LDH
  <2>. QED  BY <1>0, <1>1, <2>2, <1>a, <1>b, <1>c, <1>d, Numbers DEF Fine, PortKnows, EtherTypes, TCP, UDP
<1>2. CASE pc = 1
  <2>1. insn = Insn("JEQ", 0, 8, ETH_IPV4)
    BY <1>0, <1>2, PortInsn
  <2>2. /\ A' = A /\ X' = X /\ verdict' = "running"
        /\ pc' = pc + 1 + (IF A = ETH_IPV4 THEN 0 ELSE 8)
    BY <2>1, JEQ
  <2>. QED  BY <1>0, <1>2, <2>2, <1>a, <1>b, <1>c, <1>d, Numbers DEF Fine, PortKnows, EtherTypes, TCP, UDP
<1>3. CASE pc = 2
  <2>1. insn = Insn("LDB", 0, 0, 23)
    BY <1>0, <1>3, PortInsn
  <2>2. /\ X' = X
        /\ IF 23 + 1 <= frame.len
             THEN A' = frame.proto /\ pc' = pc + 1 /\ verdict' = "running"
             ELSE verdict' = "drop" /\ A' = A /\ pc' = pc
    BY <2>1, LDB
  <2>. QED  BY <1>0, <1>3, <2>2, <1>a, <1>b, <1>c, <1>d, Numbers DEF Fine, PortKnows, EtherTypes, TCP, UDP
<1>4. CASE pc = 3
  <2>1. insn = Insn("JEQ", 1, 0, TCP)
    BY <1>0, <1>4, PortInsn
  <2>2. /\ A' = A /\ X' = X /\ verdict' = "running"
        /\ pc' = pc + 1 + (IF A = TCP THEN 1 ELSE 0)
    BY <2>1, JEQ
  <2>. QED  BY <1>0, <1>4, <2>2, <1>a, <1>b, <1>c, <1>d, Numbers DEF Fine, PortKnows, EtherTypes, TCP, UDP
<1>5. CASE pc = 4
  <2>1. insn = Insn("JEQ", 0, 5, UDP)
    BY <1>0, <1>5, PortInsn
  <2>2. /\ A' = A /\ X' = X /\ verdict' = "running"
        /\ pc' = pc + 1 + (IF A = UDP THEN 0 ELSE 5)
    BY <2>1, JEQ
  <2>. QED  BY <1>0, <1>5, <2>2, <1>a, <1>b, <1>c, <1>d, Numbers DEF Fine, PortKnows, EtherTypes, TCP, UDP
<1>6. CASE pc = 5
  <2>1. insn = Insn("LDXB", 0, 0, 14)
    BY <1>0, <1>6, PortInsn
  <2>2. /\ A' = A
        /\ IF 14 + 1 <= frame.len
             THEN X' = 4 * frame.ihl /\ pc' = pc + 1 /\ verdict' = "running"
             ELSE verdict' = "drop" /\ X' = X /\ pc' = pc
    BY <2>1, LDXB
  <2>. QED  BY <1>0, <1>6, <2>2, <1>a, <1>b, <1>c, <1>d, Numbers DEF Fine, PortKnows, EtherTypes, TCP, UDP
<1>7. CASE pc = 6
  <2>1. insn = Insn("LDHX", 0, 0, 14)
    BY <1>0, <1>7, PortInsn
  <2>2. /\ X' = X
        /\ IF X + 14 + 2 <= frame.len
             THEN A' = Half(X + 14) /\ pc' = pc + 1 /\ verdict' = "running"
             ELSE verdict' = "drop" /\ A' = A /\ pc' = pc
    BY <2>1, LDHX
  <2>. QED  BY <1>0, <1>7, <2>2, <1>a, <1>b, <1>c, <1>d, Numbers DEF Fine, PortKnows, EtherTypes, TCP, UDP
<1>8. CASE pc = 7
  <2>1. insn = Insn("JEQ", 2, 0, filter.port)
    BY <1>0, <1>8, PortInsn
  <2>2. /\ A' = A /\ X' = X /\ verdict' = "running"
        /\ pc' = pc + 1 + (IF A = filter.port THEN 2 ELSE 0)
    BY <2>1, JEQ
  <2>. QED  BY <1>0, <1>8, <2>2, <1>a, <1>b, <1>c, <1>d, Numbers DEF Fine, PortKnows, EtherTypes, TCP, UDP
<1>9. CASE pc = 8
  <2>1. insn = Insn("LDHX", 0, 0, 16)
    BY <1>0, <1>9, PortInsn
  <2>2. /\ X' = X
        /\ IF X + 16 + 2 <= frame.len
             THEN A' = Half(X + 16) /\ pc' = pc + 1 /\ verdict' = "running"
             ELSE verdict' = "drop" /\ A' = A /\ pc' = pc
    BY <2>1, LDHX
  <2>. QED  BY <1>0, <1>9, <2>2, <1>a, <1>b, <1>c, <1>d, Numbers DEF Fine, PortKnows, EtherTypes, TCP, UDP
<1>10. CASE pc = 9
  <2>1. insn = Insn("JEQ", 0, 1, filter.port)
    BY <1>0, <1>10, PortInsn
  <2>2. /\ A' = A /\ X' = X /\ verdict' = "running"
        /\ pc' = pc + 1 + (IF A = filter.port THEN 0 ELSE 1)
    BY <2>1, JEQ
  <2>. QED  BY <1>0, <1>10, <2>2, <1>a, <1>b, <1>c, <1>d, Numbers DEF Fine, PortKnows, EtherTypes, TCP, UDP
<1>11. CASE pc = 10
  <2>1. insn = Insn("RET", 0, 0, 65535)
    BY <1>0, <1>11, PortInsn
  <2>2. A' = A /\ X' = X /\ pc' = pc /\ verdict' = "accept"
    BY <2>1, RET
  <2>. QED  BY <1>0, <1>11, <2>2, <1>a, <1>b, <1>c, <1>d, Numbers DEF Fine, PortKnows, EtherTypes, TCP, UDP
<1>12. CASE pc = 11
  <2>1. insn = Insn("RET", 0, 0, 0)
    BY <1>0, <1>12, PortInsn
  <2>2. A' = A /\ X' = X /\ pc' = pc /\ verdict' = "drop"
    BY <2>1, RET
  <2>. QED  BY <1>0, <1>12, <2>2, <1>a, <1>b, <1>c, <1>d, Numbers DEF Fine, PortKnows, EtherTypes, TCP, UDP
<1>. QED  BY <1>0, <1>1, <1>2, <1>3, <1>4, <1>5, <1>6, <1>7, <1>8, <1>9, <1>10, <1>11, <1>12

LEMMA IpProtoStep ==
  ASSUME BpfInv, filter.kind \in {"tcp", "udp", "icmp"}, Next
  PROVE  /\ Fine(6)
         /\ verdict' = "running" => IpProtoKnows(ProtoNumber[filter.kind])'
         /\ verdict' = "accept" =>
              (frame.ethertype = ETH_IPV4 => frame.proto = ProtoNumber[filter.kind])
<1>0. /\ TypeOK /\ IpProtoKnows(ProtoNumber[filter.kind])
      /\ filter' = filter /\ frame' = frame
      /\ A \in Nat /\ X \in Nat /\ pc \in 0 .. 5 /\ frame \in FrameType
  <2>1. TypeOK /\ IpProtoKnows(ProtoNumber[filter.kind])
    BY Decode DEF BpfInv, Knows
  <2>2. pc \in 0 .. 5
    BY <2>1, IpProtoInsn
  <2>. QED  BY <2>1, <2>2, Fixed, BpfAssumption DEF TypeOK, FrameType
<1>a. ProtoNumber[filter.kind] \in Nat
  BY DEF ProtoNumber, TCP, UDP, ICMP
<1>b. AskedFor(filter, frame) =>
        /\ frame.len >= 14
        /\ frame.ethertype = ETH_IPV4 => frame.len >= 34
        /\ frame.ethertype \in {ETH_IPV4, ETH_IPV6}
        /\ frame.proto = ProtoNumber[filter.kind]
  <2>1. CASE filter.kind = "tcp"
    BY <1>0, <2>1, ShownLength DEF AskedFor, ProtoNumber
  <2>2. CASE filter.kind = "udp"
    BY <1>0, <2>2, ShownLength DEF AskedFor, ProtoNumber
  <2>3. CASE filter.kind = "icmp"
    BY <1>0, <2>3, ShownLength DEF AskedFor, ProtoNumber
  <2>. QED  BY <2>1, <2>2, <2>3
<1>d. /\ frame.len \in Nat /\ frame.ethertype \in Nat /\ frame.proto \in Nat
      /\ Half(12) = frame.ethertype
  BY <1>0 DEF FrameType, Half
<1>1. CASE pc = 0
  <2>1. insn = Insn("LDH", 0, 3, 12)
    BY <1>0, <1>1, IpProtoInsn
  <2>2. /\ X' = X
        /\ IF 12 + 2 <= frame.len
             THEN A' = Half(12) /\ pc' = pc + 1 /\ verdict' = "running"
             ELSE verdict' = "drop" /\ A' = A /\ pc' = pc
    BY <2>1, LDH
  <2>. QED  BY <1>0, <1>1, <2>2, <1>a, <1>b, <1>d, Numbers DEF Fine, IpProtoKnows, EtherTypes
<1>2. CASE pc = 1
  <2>1. insn = Insn("JEQ", 0, 2, ETH_IPV4)
    BY <1>0, <1>2, IpProtoInsn
  <2>2. /\ A' = A /\ X' = X /\ verdict' = "running"
        /\ pc' = pc + 1 + (IF A = ETH_IPV4 THEN 0 ELSE 2)
    BY <2>1, JEQ
  <2>. QED  BY <1>0, <1>2, <2>2, <1>a, <1>b, <1>d, Numbers DEF Fine, IpProtoKnows, EtherTypes
<1>3. CASE pc = 2
  <2>1. insn = Insn("LDB", 0, 0, 23)
    BY <1>0, <1>3, IpProtoInsn
  <2>2. /\ X' = X
        /\ IF 23 + 1 <= frame.len
             THEN A' = frame.proto /\ pc' = pc + 1 /\ verdict' = "running"
             ELSE verdict' = "drop" /\ A' = A /\ pc' = pc
    BY <2>1, LDB
  <2>. QED  BY <1>0, <1>3, <2>2, <1>a, <1>b, <1>d, Numbers DEF Fine, IpProtoKnows, EtherTypes
<1>4. CASE pc = 3
  <2>1. insn = Insn("JEQ", 0, 1, ProtoNumber[filter.kind])
    BY <1>0, <1>4, IpProtoInsn
  <2>2. /\ A' = A /\ X' = X /\ verdict' = "running"
        /\ pc' = pc + 1 + (IF A = ProtoNumber[filter.kind] THEN 0 ELSE 1)
    BY <2>1, JEQ
  <2>. QED  BY <1>0, <1>4, <2>2, <1>a, <1>b, <1>d, Numbers DEF Fine, IpProtoKnows, EtherTypes
<1>5. CASE pc = 4
  <2>1. insn = Insn("RET", 0, 0, 65535)
    BY <1>0, <1>5, IpProtoInsn
  <2>2. A' = A /\ X' = X /\ pc' = pc /\ verdict' = "accept"
    BY <2>1, RET
  <2>. QED  BY <1>0, <1>5, <2>2, <1>a, <1>b, <1>d, Numbers DEF Fine, IpProtoKnows, EtherTypes
<1>6. CASE pc = 5
  <2>1. insn = Insn("RET", 0, 0, 0)
    BY <1>0, <1>6, IpProtoInsn
  <2>2. A' = A /\ X' = X /\ pc' = pc /\ verdict' = "drop"
    BY <2>1, RET
  <2>. QED  BY <1>0, <1>6, <2>2, <1>a, <1>b, <1>d, Numbers DEF Fine, IpProtoKnows, EtherTypes
<1>. QED  BY <1>0, <1>1, <1>2, <1>3, <1>4, <1>5, <1>6

LEMMA ArpStep ==
  ASSUME BpfInv, filter.kind = "arp", Next
  PROVE  /\ Fine(4)
         /\ verdict' = "running" => ArpKnows'
         /\ verdict' = "accept" => frame.ethertype = ETH_ARP
<1>0. /\ TypeOK /\ ArpKnows
      /\ filter' = filter /\ frame' = frame
      /\ A \in Nat /\ X \in Nat /\ pc \in 0 .. 3 /\ frame \in FrameType
  <2>1. TypeOK /\ ArpKnows
    BY Decode DEF BpfInv, Knows
  <2>2. pc \in 0 .. 3
    BY <2>1, ArpInsn
  <2>. QED  BY <2>1, <2>2, Fixed, BpfAssumption DEF TypeOK, FrameType
<1>b. AskedFor(filter, frame) => frame.len >= 14 /\ frame.ethertype = ETH_ARP
  BY <1>0, ShownLength DEF AskedFor
<1>d. /\ frame.len \in Nat /\ frame.ethertype \in Nat /\ frame.proto \in Nat
      /\ Half(12) = frame.ethertype
  BY <1>0 DEF FrameType, Half
<1>1. CASE pc = 0
  <2>1. insn = Insn("LDH", 0, 1, 12)
    BY <1>0, <1>1, ArpInsn
  <2>2. /\ X' = X
        /\ IF 12 + 2 <= frame.len
             THEN A' = Half(12) /\ pc' = pc + 1 /\ verdict' = "running"
             ELSE verdict' = "drop" /\ A' = A /\ pc' = pc
    BY <2>1, LDH
  <2>. QED  BY <1>0, <1>1, <2>2, <1>b, <1>d, Numbers DEF Fine, ArpKnows, EtherTypes
<1>2. CASE pc = 1
  <2>1. insn = Insn("JEQ", 0, 1, ETH_ARP)
    BY <1>0, <1>2, ArpInsn
  <2>2. /\ A' = A /\ X' = X /\ verdict' = "running"
        /\ pc' = pc + 1 + (IF A = ETH_ARP THEN 0 ELSE 1)
    BY <2>1, JEQ
  <2>. QED  BY <1>0, <1>2, <2>2, <1>b, <1>d, Numbers DEF Fine, ArpKnows, EtherTypes
<1>3. CASE pc = 2
  <2>1. insn = Insn("RET", 0, 0, 65535)
    BY <1>0, <1>3, ArpInsn
  <2>2. A' = A /\ X' = X /\ pc' = pc /\ verdict' = "accept"
    BY <2>1, RET
  <2>. QED  BY <1>0, <1>3, <2>2, <1>b, <1>d, Numbers DEF Fine, ArpKnows, EtherTypes
<1>4. CASE pc = 3
  <2>1. insn = Insn("RET", 0, 0, 0)
    BY <1>0, <1>4, ArpInsn
  <2>2. A' = A /\ X' = X /\ pc' = pc /\ verdict' = "drop"
    BY <2>1, RET
  <2>. QED  BY <1>0, <1>4, <2>2, <1>b, <1>d, Numbers DEF Fine, ArpKnows, EtherTypes
<1>. QED  BY <1>0, <1>1, <1>2, <1>3, <1>4

\* The length of each program, which no step changes.
LEMMA ProgramLength ==
  ASSUME filter \in Filters
  PROVE  /\ filter.kind \in {"port", "tcp", "udp", "icmp", "arp"}
         /\ filter.kind = "port" => Len(Program(filter)) = 12
         /\ filter.kind \in {"tcp", "udp", "icmp"} => Len(Program(filter)) = 6
         /\ filter.kind = "arp" => Len(Program(filter)) = 4
<1>1. filter.kind \in {"port", "tcp", "udp", "icmp", "arp"}
  BY BpfAssumption
<1>2. ASSUME filter.kind = "port"
      PROVE  Len(Program(filter)) = 12
  BY <1>2 DEF Program, ProtoNumber, PortProgram
<1>3. ASSUME filter.kind \in {"tcp", "udp", "icmp"}
      PROVE  Len(Program(filter)) = 6
  BY <1>3 DEF Program, ProtoNumber, IpProtoProgram
<1>4. ASSUME filter.kind = "arp"
      PROVE  Len(Program(filter)) = 4
  BY <1>4 DEF Program, ProtoNumber, ArpProgram
<1>. QED  BY <1>1, <1>2, <1>3, <1>4

LEMMA InitBpfInv == Init => BpfInv
<1>. SUFFICES ASSUME Init  PROVE  BpfInv
  OBVIOUS
<1>1. TypeOK
  <2>1. filter \in Filters
    BY DEF Init
  <2>2. Len(Program(filter)) \in {4, 6, 12}
    BY <2>1, ProgramLength
  <2>3. 0 \in 0 .. Len(Program(filter)) - 1
    BY <2>2
  <2>. QED  BY <2>1, <2>3 DEF Init, TypeOK
<1>2. Knows
  BY BpfAssumption DEF Init, Knows, PortKnows, IpProtoKnows, ArpKnows
<1>. QED  BY <1>1, <1>2 DEF Init, BpfInv, NoMatchDropped, ExactWhereItLooks

LEMMA StepBpfInv == BpfInv /\ [Next]_vars => BpfInv'
<1>. SUFFICES ASSUME BpfInv, [Next]_vars  PROVE  BpfInv'
  OBVIOUS
<1>1. CASE UNCHANGED vars
  BY <1>1 DEF vars, BpfInv, TypeOK, Knows, PortKnows, IpProtoKnows, ArpKnows,
     NoMatchDropped, ExactWhereItLooks
<1>2. CASE Next
  <2>1. /\ filter \in Filters /\ frame \in Frames
        /\ filter' = filter /\ frame' = frame
    BY <1>2, Fixed DEF BpfInv, TypeOK
  <2>2. CASE filter.kind = "port"
    <3>1. /\ Fine(12)
          /\ verdict' = "running" => PortKnows'
          /\ verdict' = "accept" =>
               (frame.ethertype = ETH_IPV4 /\ frame.proto \in {TCP, UDP} =>
                  filter.port \in {frame.sport, frame.dport})
      BY <1>2, <2>2, PortStep
    <3>2. TypeOK'
      BY <2>1, <2>2, <3>1, ProgramLength DEF Fine, TypeOK
    <3>. QED  BY <2>1, <2>2, <3>1, <3>2 DEF Fine, BpfInv, Knows, NoMatchDropped, ExactWhereItLooks
  <2>3. CASE filter.kind \in {"tcp", "udp", "icmp"}
    <3>1. /\ Fine(6)
          /\ verdict' = "running" => IpProtoKnows(ProtoNumber[filter.kind])'
          /\ verdict' = "accept" =>
               (frame.ethertype = ETH_IPV4 => frame.proto = ProtoNumber[filter.kind])
      BY <1>2, <2>3, IpProtoStep
    <3>2. TypeOK'
      BY <2>1, <2>3, <3>1, ProgramLength DEF Fine, TypeOK
    <3>. QED  BY <2>1, <2>3, <3>1, <3>2 DEF Fine, BpfInv, Knows, NoMatchDropped, ExactWhereItLooks
  <2>4. CASE filter.kind = "arp"
    <3>1. /\ Fine(4)
          /\ verdict' = "running" => ArpKnows'
          /\ verdict' = "accept" => frame.ethertype = ETH_ARP
      BY <1>2, <2>4, ArpStep
    <3>2. TypeOK'
      BY <2>1, <2>4, <3>1, ProgramLength DEF Fine, TypeOK
    <3>. QED  BY <2>1, <2>4, <3>1, <3>2 DEF Fine, BpfInv, Knows, NoMatchDropped, ExactWhereItLooks
  <2>. QED  BY <2>1, <2>2, <2>3, <2>4, ProgramLength
<1>. QED  BY <1>1, <1>2

-----------------------------------------------------------------------------
(* The theorems. *)

LEMMA BpfInvariance == Spec => []BpfInv
BY InitBpfInv, StepBpfInv, PTL DEF Spec

\* No jump of attach_filter_port or attach_filter_proto leaves its program,
\* whatever the frame and the port.
THEOREM ProgramsAreClosed == Spec => []TypeOK
<1>1. BpfInv => TypeOK
  BY DEF BpfInv
<1>. QED  BY <1>1, BpfInvariance, PTL

\* No filter drops a frame that process_packet would have shown as a match, for
\* every frame (IP options and padding included) and every port.
THEOREM FilterDropsNoMatch == Spec => []NoMatchDropped
<1>1. BpfInv => NoMatchDropped
  BY DEF BpfInv
<1>. QED  BY <1>1, BpfInvariance, PTL

\* What a filter accepts matches it, as far as it looks at the frame.
THEOREM FilterExactWhereItLooks == Spec => []ExactWhereItLooks
<1>1. BpfInv => ExactWhereItLooks
  BY DEF BpfInv
<1>. QED  BY <1>1, BpfInvariance, PTL

=============================================================================
