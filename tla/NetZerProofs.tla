---------------------------- MODULE NetZerProofs ----------------------------
(***************************************************************************)
(* Proofs about NetZer, for any traffic, options, page and table size, and *)
(* number of failed writes: NetZerInv is an inductive invariant.  Part by  *)
(* part: induction and the laws of SequenceOps; the handlers' types and    *)
(* routes, InStep, the pcap file, panics, the JSON file; the page shown,   *)
(* the connection, the statistics, the table; the two together.            *)
(***************************************************************************)
EXTENDS NetZer, SequenceTheorems, WellFoundedInduction, TLAPS

(* Induction over the numbers, said of a set: the least number that is not in it
   would follow one that is. *)
LEMMA LeastNat ==
  ASSUME NEW T, T \subseteq Nat, T # {}
  PROVE  \E x \in T : \A y \in T : x <= y
<1>. DEFINE R == OpToRel(<, Nat)
<1>1. IsWellFoundedOn(R, Nat)
  BY NatLessThanWellFounded
<1>2. \A x, y \in Nat : <<y, x>> \in R <=> y < x
  BY DEF OpToRel
<1>. HIDE DEF R
<1>3. \E x \in T : \A y \in T : ~(<<y, x>> \in R)
  BY <1>1, WFMin
<1>4. \A x, y \in T : x <= y \/ y < x
  OBVIOUS
<1>. QED  BY <1>2, <1>3, <1>4

(* Induction, over a set: the library's theorem takes an operator. *)
LEMMA SetInduction ==
  ASSUME NEW T, 0 \in T, \A n \in Nat : n \in T => n + 1 \in T
  PROVE  \A n \in Nat : n \in T
<1>. SUFFICES ASSUME Nat \ T # {} PROVE FALSE
  OBVIOUS
<1>1. PICK x \in Nat \ T : \A y \in Nat \ T : x <= y
  BY LeastNat
<1>2. x # 0 /\ x - 1 \in Nat
  BY <1>1
<1>3. x - 1 \in T
  BY <1>1, <1>2
<1>4. (x - 1) + 1 \in T
  BY <1>2, <1>3
<1>. QED  BY <1>1, <1>4

(* The recursion of Total has a solution: one for n numbers gives one for n + 1. *)
IsSum(f, ns, n) ==
  f = [i \in 0 .. n |-> IF i = 0 THEN 0 ELSE f[i - 1] + ns[i]]

(* The recursion of Total has a solution for any sequence and length. *)
LEMMA SumExists ==
  ASSUME NEW ns, NEW n \in Nat
  PROVE  \E f : IsSum(f, ns, n)
<1>. DEFINE T == {k \in Nat : \E f : IsSum(f, ns, k)}
<1>1. 0 \in T
  <2>. DEFINE f == [i \in 0 .. 0 |-> 0]
  <2>1. IsSum(f, ns, 0)
    BY DEF IsSum
  <2>. QED  BY <2>1
<1>2. ASSUME NEW k \in Nat, k \in T PROVE k + 1 \in T
  <2>1. PICK f : IsSum(f, ns, k)
    BY <1>2
  <2>. DEFINE g == [i \in 0 .. k + 1 |-> IF i = k + 1 THEN f[k] + ns[k + 1] ELSE f[i]]
  <2>2. ASSUME NEW i \in 0 .. k + 1
        PROVE  g[i] = IF i = 0 THEN 0 ELSE g[i - 1] + ns[i]
    <3>1. CASE i = k + 1
      <4>1. i # 0 /\ i - 1 = k /\ k \in 0 .. k + 1 /\ k # k + 1
        BY <3>1
      <4>. QED  BY <3>1, <4>1
    <3>2. CASE i # k + 1 /\ i # 0
      <4>1. i \in 0 .. k /\ i - 1 \in 0 .. k + 1 /\ i - 1 # k + 1
        BY <3>2
      <4>2. f[i] = f[i - 1] + ns[i]
        BY <2>1, <3>2, <4>1 DEF IsSum
      <4>. QED  BY <3>2, <4>1, <4>2
    <3>3. CASE i = 0
      <4>1. i \in 0 .. k /\ i # k + 1
        BY <3>3
      <4>2. f[i] = 0
        BY <2>1, <3>3, <4>1 DEF IsSum
      <4>. QED  BY <3>3, <4>1, <4>2
    <3>. QED  BY <3>1, <3>2, <3>3
  <2>3. IsSum(g, ns, k + 1)
    BY <2>2 DEF IsSum
  <2>. HIDE DEF g
  <2>. QED  BY <2>3
<1>. HIDE DEF T
<1>3. n \in T
  BY <1>1, <1>2, SetInduction
<1>. QED  BY <1>3 DEF T

(* Total is the last value of that solution. *)
LEMMA TotalSum ==
  ASSUME NEW S, NEW ns \in Seq(S)
  PROVE  \E f : IsSum(f, ns, Len(ns)) /\ Total(ns) = f[Len(ns)]
<1>. DEFINE f == CHOOSE sum : sum = [i \in 0 .. Len(ns) |-> IF i = 0 THEN 0 ELSE sum[i - 1] + ns[i]]
<1>1. Total(ns) = f[Len(ns)]
  BY DEF Total
<1>2. \E g : IsSum(g, ns, Len(ns))
  BY SumExists, LenProperties
<1>3. f = [i \in 0 .. Len(ns) |-> IF i = 0 THEN 0 ELSE f[i - 1] + ns[i]]
  BY <1>2 DEF IsSum
<1>. HIDE DEF f
<1>. QED  BY <1>1, <1>3 DEF IsSum

(* Sums of naturals are naturals. *)
LEMMA SumNat ==
  ASSUME NEW f, NEW ns, NEW n \in Nat, IsSum(f, ns, n), \A i \in 1 .. n : ns[i] \in Nat
  PROVE  \A i \in 0 .. n : f[i] \in Nat
<1>. DEFINE T == {i \in Nat : i <= n => f[i] \in Nat}
<1>1. 0 \in T
  BY DEF IsSum
<1>2. ASSUME NEW i \in Nat, i \in T PROVE i + 1 \in T
  <2>. SUFFICES ASSUME i + 1 <= n PROVE f[i + 1] \in Nat
    OBVIOUS
  <2>1. i + 1 \in 1 .. n /\ i + 1 \in 0 .. n /\ i + 1 # 0 /\ (i + 1) - 1 = i
    OBVIOUS
  <2>2. f[i + 1] = f[i] + ns[i + 1]
    BY <2>1 DEF IsSum
  <2>3. f[i] \in Nat /\ ns[i + 1] \in Nat
    BY <1>2, <2>1
  <2>. QED  BY <2>2, <2>3
<1>. HIDE DEF T
<1>3. \A i \in Nat : i \in T
  BY <1>1, <1>2, SetInduction
<1>. QED  BY <1>3 DEF T

LEMMA SeqElements ==
  ASSUME NEW S, NEW s \in Seq(S)
  PROVE  Len(s) \in Nat /\ \A i \in 1 .. Len(s) : s[i] \in S
BY LenProperties, ElementOfSeq

(* From k on, the sum of u goes on by the sum of what begins there. *)
LEMMA SumOfPart ==
  ASSUME NEW u \in Seq(Nat), NEW v \in Seq(Nat), NEW k \in Nat, k + Len(v) <= Len(u),
         \A j \in 1 .. Len(v) : u[k + j] = v[j],
         NEW f, IsSum(f, u, Len(u))
  PROVE  f[k + Len(v)] = f[k] + Total(v)
<1>1. PICK g : IsSum(g, v, Len(v)) /\ Total(v) = g[Len(v)]
  BY TotalSum
<1>. DEFINE a == Len(u)
            b == Len(v)
            T == {j \in Nat : j <= b => f[k + j] = f[k] + g[j]}
<1>2. /\ a \in Nat /\ \A i \in 1 .. a : u[i] \in Nat
      /\ b \in Nat /\ \A i \in 1 .. b : v[i] \in Nat
  BY SeqElements
<1>3. /\ \A i \in 0 .. a : f[i] \in Nat
      /\ \A i \in 0 .. b : g[i] \in Nat
  BY <1>1, <1>2, SumNat
<1>4. 0 \in T
  <2>1. g[0] = 0 /\ k + 0 = k /\ f[k] \in Nat
    BY <1>1, <1>2, <1>3 DEF IsSum
  <2>. QED  BY <2>1
<1>5. ASSUME NEW j \in Nat, j \in T PROVE j + 1 \in T
  <2>. SUFFICES ASSUME j + 1 <= b PROVE f[k + (j + 1)] = f[k] + g[j + 1]
    OBVIOUS
  <2>1. /\ j + 1 \in 1 .. b /\ j + 1 \in 0 .. b /\ j \in 0 .. b /\ j + 1 # 0 /\ (j + 1) - 1 = j
        /\ k + (j + 1) \in 0 .. a /\ k + (j + 1) \in 1 .. a /\ k + (j + 1) # 0
        /\ (k + (j + 1)) - 1 = k + j /\ k \in 0 .. a
    BY <1>2
  <2>2. g[j + 1] = g[j] + v[j + 1]
    BY <1>1, <2>1 DEF IsSum
  <2>3. f[k + (j + 1)] = f[k + j] + u[k + (j + 1)]
    BY <2>1 DEF IsSum
  <2>4. f[k] \in Nat /\ g[j] \in Nat /\ v[j + 1] \in Nat /\ u[k + (j + 1)] = v[j + 1]
    BY <1>2, <1>3, <2>1
  <2>5. f[k + j] = f[k] + g[j]
    BY <1>2, <1>5, <2>1
  <2>. DEFINE F == f[k + (j + 1)]
              Fk == f[k]
              G == g[j + 1]
              Gj == g[j]
              V == v[j + 1]
  <2>6. /\ F = f[k + j] + V /\ f[k + j] = Fk + Gj /\ G = Gj + V
        /\ Fk \in Nat /\ Gj \in Nat /\ V \in Nat
    BY <2>2, <2>3, <2>4, <2>5
  <2>7. F = Fk + G
    <3>. HIDE DEF F, Fk, G, Gj, V
    <3>. QED  BY <2>6
  <2>. QED  BY <2>7
<1>. HIDE DEF T
<1>6. b \in T
  BY <1>2, <1>4, <1>5, SetInduction
<1>. QED  BY <1>1, <1>2, <1>6 DEF T

(* The laws of Total that the rest cites. *)
LEMMA TotalNat ==
  ASSUME NEW ns \in Seq(Nat)
  PROVE  Total(ns) \in Nat
<1>1. PICK f : IsSum(f, ns, Len(ns)) /\ Total(ns) = f[Len(ns)]
  BY TotalSum
<1>2. Len(ns) \in Nat /\ \A i \in 1 .. Len(ns) : ns[i] \in Nat
  BY LenProperties, ElementOfSeq
<1>3. f[Len(ns)] \in Nat
  BY <1>1, <1>2, SumNat
<1>. QED  BY <1>1, <1>3

LEMMA TotalEmpty == Total(<<>>) = 0
<1>1. <<>> \in Seq(Nat) /\ Len(<<>>) = 0
  OBVIOUS
<1>2. PICK f : IsSum(f, <<>>, 0) /\ Total(<<>>) = f[0]
  BY <1>1, TotalSum
<1>. QED  BY <1>2 DEF IsSum

LEMMA TotalConcat ==
  ASSUME NEW s \in Seq(Nat), NEW t \in Seq(Nat)
  PROVE  Total(s \o t) = Total(s) + Total(t)
<1>. DEFINE u == s \o t
            a == Len(s)
            b == Len(t)
<1>1. /\ u \in Seq(Nat) /\ Len(u) = a + b /\ a \in Nat /\ b \in Nat
      /\ \A i \in 1 .. a + b : u[i] = IF i <= a THEN s[i] ELSE t[i - a]
  BY ConcatProperties, LenProperties
<1>. HIDE DEF u
<1>2. PICK f : IsSum(f, u, Len(u)) /\ Total(u) = f[Len(u)]
  BY <1>1, TotalSum
<1>3. PICK z \in Nat : z = 0
  OBVIOUS
<1>4. f[z + a] = f[z] + Total(s)
  <2>1. \A i \in 1 .. a : u[z + i] = s[i]
    <3>. TAKE i \in 1 .. a
    <3>1. z + i = i /\ i \in 1 .. a + b /\ i <= a
      BY <1>1, <1>3
    <3>. QED  BY <1>1, <3>1
  <2>2. z + Len(s) <= Len(u)
    BY <1>1, <1>3
  <2>3. u \in Seq(Nat)
    BY <1>1
  <2>. QED  BY <1>2, <2>1, <2>2, <2>3, SumOfPart
<1>5. f[a + b] = f[a] + Total(t)
  <2>1. \A i \in 1 .. b : u[a + i] = t[i]
    <3>. TAKE i \in 1 .. b
    <3>1. a + i \in 1 .. a + b /\ ~(a + i <= a) /\ (a + i) - a = i
      BY <1>1
    <3>. QED  BY <1>1, <3>1
  <2>. HIDE DEF a
  <2>2. a + Len(t) <= Len(u)
    BY <1>1
  <2>3. u \in Seq(Nat) /\ a \in Nat
    BY <1>1
  <2>. QED  BY <1>2, <2>1, <2>2, <2>3, SumOfPart
<1>6. f[z] = 0
  BY <1>1, <1>2, <1>3 DEF IsSum
<1>7. Total(s) \in Nat /\ z + a = a
  BY <1>1, <1>3, TotalNat
<1>. HIDE DEF a, b
<1>8. f[a] = Total(s)
  BY <1>6, <1>7, <1>4
<1>9. Total(u) = f[a + b]
  BY <1>1, <1>2
<1>. QED  BY <1>5, <1>8, <1>9 DEF u

(* As many ones add up to their number. *)
LEMMA TotalOnes ==
  ASSUME NEW ns \in Seq(Nat), \A i \in 1 .. Len(ns) : ns[i] = 1
  PROVE  Total(ns) = Len(ns)
<1>1. PICK f : IsSum(f, ns, Len(ns)) /\ Total(ns) = f[Len(ns)]
  BY TotalSum
<1>. DEFINE T == {i \in Nat : i <= Len(ns) => f[i] = i}
<1>0. Len(ns) \in Nat
  BY LenProperties
<1>2. 0 \in T
  BY <1>0, <1>1 DEF IsSum
<1>3. ASSUME NEW i \in Nat, i \in T PROVE i + 1 \in T
  <2>. SUFFICES ASSUME i + 1 <= Len(ns) PROVE f[i + 1] = i + 1
    OBVIOUS
  <2>1. i + 1 \in 1 .. Len(ns) /\ i + 1 \in 0 .. Len(ns) /\ i + 1 # 0 /\ (i + 1) - 1 = i
    BY <1>0
  <2>2. f[i + 1] = f[i] + ns[i + 1]
    BY <1>1, <2>1 DEF IsSum
  <2>3. f[i] = i
    BY <1>0, <1>3
  <2>. QED  BY <2>1, <2>2, <2>3
<1>. HIDE DEF T
<1>4. Len(ns) \in T
  BY <1>0, <1>2, <1>3, SetInduction
<1>. QED  BY <1>0, <1>1, <1>4 DEF T

-----------------------------------------------------------------------------
(* The same for Keep. *)

IsKept(f, s, S, n) ==
  f = [i \in 0 .. n |-> IF i = 0 THEN <<>>
                        ELSE IF s[i] \in S THEN Append(f[i - 1], s[i]) ELSE f[i - 1]]

(* The recursion of Keep has a solution, and Keep is its last value. *)
LEMMA KeptExists ==
  ASSUME NEW s, NEW S, NEW n \in Nat
  PROVE  \E f : IsKept(f, s, S, n)
<1>. DEFINE T == {k \in Nat : \E f : IsKept(f, s, S, k)}
            Next1(q, e) == IF e \in S THEN Append(q, e) ELSE q
<1>1. 0 \in T
  <2>. DEFINE f == [i \in 0 .. 0 |-> <<>>]
  <2>1. IsKept(f, s, S, 0)
    BY DEF IsKept
  <2>. QED  BY <2>1
<1>2. ASSUME NEW k \in Nat, k \in T PROVE k + 1 \in T
  <2>1. PICK f : IsKept(f, s, S, k)
    BY <1>2
  <2>. DEFINE g == [i \in 0 .. k + 1 |-> IF i = k + 1 THEN Next1(f[k], s[k + 1]) ELSE f[i]]
  <2>2. ASSUME NEW i \in 0 .. k + 1
        PROVE  g[i] = IF i = 0 THEN <<>> ELSE Next1(g[i - 1], s[i])
    <3>. HIDE DEF Next1
    <3>1. CASE i = k + 1
      <4>1. i # 0 /\ i - 1 = k /\ k \in 0 .. k + 1 /\ k # k + 1
        BY <3>1
      <4>. QED  BY <3>1, <4>1
    <3>2. CASE i # k + 1 /\ i # 0
      <4>1. i \in 0 .. k /\ i - 1 \in 0 .. k + 1 /\ i - 1 # k + 1
        BY <3>2
      <4>2. f[i] = Next1(f[i - 1], s[i])
        BY <2>1, <3>2, <4>1 DEF IsKept, Next1
      <4>. QED  BY <3>2, <4>1, <4>2
    <3>3. CASE i = 0
      <4>1. i \in 0 .. k /\ i # k + 1
        BY <3>3
      <4>2. f[i] = <<>>
        BY <2>1, <3>3, <4>1 DEF IsKept
      <4>. QED  BY <3>3, <4>1, <4>2
    <3>. QED  BY <3>1, <3>2, <3>3
  <2>3. IsKept(g, s, S, k + 1)
    BY <2>2 DEF IsKept
  <2>. HIDE DEF g
  <2>. QED  BY <2>3
<1>. HIDE DEF T
<1>3. n \in T
  BY <1>1, <1>2, SetInduction
<1>. QED  BY <1>3 DEF T

LEMMA KeepKept ==
  ASSUME NEW R, NEW s \in Seq(R), NEW S
  PROVE  \E f : IsKept(f, s, S, Len(s)) /\ Keep(s, S) = f[Len(s)]
<1>. DEFINE f == CHOOSE kept : kept =
                   [i \in 0 .. Len(s) |-> IF i = 0 THEN <<>>
                       ELSE IF s[i] \in S THEN Append(kept[i - 1], s[i]) ELSE kept[i - 1]]
<1>1. Keep(s, S) = f[Len(s)]
  BY DEF Keep
<1>2. \E g : IsKept(g, s, S, Len(s))
  BY KeptExists, LenProperties
<1>3. IsKept(f, s, S, Len(s))
  BY <1>2 DEF IsKept
<1>. HIDE DEF f
<1>. QED  BY <1>1, <1>3

(* What is kept of s are elements of s that are in S. *)
LEMMA KeepType ==
  ASSUME NEW R, NEW s \in Seq(R), NEW S
  PROVE  Keep(s, S) \in Seq(R \cap S)
<1>1. PICK f : IsKept(f, s, S, Len(s)) /\ Keep(s, S) = f[Len(s)]
  BY KeepKept
<1>. DEFINE T == {i \in Nat : i <= Len(s) => f[i] \in Seq(R \cap S)}
<1>0. Len(s) \in Nat
  BY LenProperties
<1>2. 0 \in T
  BY <1>0, <1>1 DEF IsKept
<1>3. ASSUME NEW i \in Nat, i \in T PROVE i + 1 \in T
  <2>. SUFFICES ASSUME i + 1 <= Len(s) PROVE f[i + 1] \in Seq(R \cap S)
    OBVIOUS
  <2>1. i + 1 \in 1 .. Len(s) /\ i + 1 \in 0 .. Len(s) /\ i + 1 # 0 /\ (i + 1) - 1 = i
    BY <1>0
  <2>2. f[i + 1] = IF s[i + 1] \in S THEN Append(f[i], s[i + 1]) ELSE f[i]
    BY <1>1, <2>1 DEF IsKept
  <2>3. f[i] \in Seq(R \cap S) /\ s[i + 1] \in R
    BY <1>0, <1>3, <2>1, ElementOfSeq
  <2>4. CASE s[i + 1] \in S
    BY <2>2, <2>3, <2>4, AppendProperties
  <2>. QED  BY <2>2, <2>3, <2>4
<1>. HIDE DEF T
<1>4. Len(s) \in T
  BY <1>0, <1>2, <1>3, SetInduction
<1>. QED  BY <1>0, <1>1, <1>4 DEF T

(* Functions on 1 .. n are sequences. *)
LEMMA FunctionIsSeq ==
  ASSUME NEW S, NEW n \in Nat, NEW f \in [1 .. n -> S]
  PROVE  f \in Seq(S) /\ Len(f) = n
<1>1. f \in Seq(S)
  BY SeqDef
<1>2. DOMAIN f = 1 .. n /\ DOMAIN f = 1 .. Len(f) /\ Len(f) \in Nat
  BY <1>1, LenProperties
<1>. QED  BY <1>1, <1>2

-----------------------------------------------------------------------------
(* What a frame is shown as. *)

ShownAs == {"TCP", "UDP", "ICMP", "ICMP6", "ARP", "none"}

LEMMA ShownType ==
  ASSUME NEW f
  PROVE  Shown(f) \in ShownAs
<1>1. \A n : ShownIpv4(f, n) \in ShownAs
  BY DEF ShownIpv4, ShownAs
<1>2. \A n : ShownIpv6(f, n) \in ShownAs
  BY DEF ShownIpv6, ShownAs
<1>. QED  BY <1>1, <1>2 DEF Shown, ShownAs

LEMMA ProtoType ==
  ASSUME NEW f, Shown(f) # "none"
  PROVE  Proto(f) \in Protocols
<1>1. TcpProto(f) \in {"TLS", "HTTP", "TCP"}
  BY DEF TcpProto
<1>2. Shown(f) \in {"TCP", "UDP", "ICMP", "ICMP6", "ARP"}
  BY ShownType DEF ShownAs
<1>. QED  BY <1>1, <1>2 DEF Proto, Protocols

LEMMA MessageType ==
  ASSUME NEW n \in Nat, NEW f \in Frame, Shown(f) # "none"
  PROVE  MessageOf(n, f) \in Message
<1>1. Proto(f) \in Protocols /\ f.len \in Nat
  BY ProtoType DEF Frame
<1>2. HasBreak(f) \in BOOLEAN
  BY DEF HasBreak
<1>. HIDE DEF Message
<1>. QED  BY <1>1, <1>2 DEF MessageOf, Message

-----------------------------------------------------------------------------
(* The handlers: where the program is, and why. *)

Routes ==
  /\ pc \in {"pcap_header", "pcap_data"} => "pcap" \in outputs
  /\ pc = "json" => "json" \in outputs
  /\ pc = "broadcast" => "feed" \in outputs
  /\ "feed" \notin outputs => feed = <<>>
  /\ pc # "idle" => taken >= 1
  /\ pc \in {"json", "broadcast"} => Visible(taken)
  /\ pc = "panicked" => Panics(traffic[taken])

(* The packet in progress is a frame that arrived. *)
LEMMA TakenFrame ==
  ASSUME HandlersTypeOK, taken >= 1
  PROVE  /\ taken \in Nat /\ taken \in 1 .. taken
         /\ traffic[taken] \in Frame
<1>1. traffic \in Seq(Frame) /\ taken \in 0 .. Len(traffic)
  BY HandlersAssumption DEF HandlersTypeOK
<1>2. Len(traffic) \in Nat
  BY <1>1, LenProperties
<1>3. taken \in 1 .. Len(traffic)
  BY <1>1, <1>2
<1>. QED  BY <1>1, <1>2, <1>3, ElementOfSeq

LEMMA PieceType ==
  ASSUME NEW n \in Nat, n >= 1, taken = n, NEW W, NEW what \in W
  PROVE  Piece(what) \in Seq([packet : 1 .. n, is : W]) /\ Len(Piece(what)) = 1
BY DEF Piece

LEMMA InitHandlers == HandlersInit => HandlersTypeOK /\ Routes
<1>. SUFFICES ASSUME HandlersInit PROVE HandlersTypeOK /\ Routes
  OBVIOUS
<1>1. traffic \in Seq(Frame)
  BY HandlersAssumption DEF HandlersInit
<1>2. 0 \in 0 .. Len(traffic)
  BY <1>1, LenProperties
<1>. QED  BY <1>2, HandlersAssumption DEF HandlersInit, HandlersTypeOK, Routes

(* A piece behind a sequence. *)
LEMMA OneMore ==
  ASSUME NEW S, NEW s \in Seq(S), NEW t \in Seq(S), Len(t) = 1
  PROVE  /\ s \o t \in Seq(S)
         /\ Len(s) \in Nat /\ Len(s \o t) = Len(s) + 1
         /\ \A i \in 1 .. Len(s) : (s \o t)[i] = s[i]
         /\ (s \o t)[Len(s) + 1] = t[1]
<1>1. Len(s) \in Nat
  BY LenProperties
<1>2. \A i \in 1 .. Len(s) + 1 : (s \o t)[i] = IF i <= Len(s) THEN s[i] ELSE t[i - Len(s)]
  BY ConcatProperties
<1>3. (s \o t)[Len(s) + 1] = t[1]
  <2>1. Len(s) + 1 \in 1 .. Len(s) + 1 /\ ~(Len(s) + 1 <= Len(s)) /\ (Len(s) + 1) - Len(s) = 1
    BY <1>1
  <2>. QED  BY <1>2, <2>1
<1>4. \A i \in 1 .. Len(s) : i \in 1 .. Len(s) + 1 /\ i <= Len(s)
  BY <1>1
<1>. QED  BY <1>1, <1>2, <1>3, <1>4, ConcatProperties

(* A line, of one text or of two, ends with a newline. *)
LEMMA JsonLineType ==
  ASSUME HandlersTypeOK, taken >= 1
  PROVE  /\ JsonLine \in Seq([packet : 1 .. taken, is : {"text", "newline"}])
         /\ Len(JsonLine) \in {2, 4}
         /\ JsonLine[1] = [packet |-> taken, is |-> "text"]
         /\ JsonLine[Len(JsonLine)] = [packet |-> taken, is |-> "newline"]
         /\ ~HasBreak(traffic[taken]) => Len(JsonLine) = 2
<1>. DEFINE P == [packet : 1 .. taken, is : {"text", "newline"}]
            t == [packet |-> taken, is |-> "text"]
            n == [packet |-> taken, is |-> "newline"]
            text == Piece("text")
            newline == Piece("newline")
            line == text \o newline
            two == line \o text
            lines == two \o newline
<1>1. t \in P /\ n \in P
  BY TakenFrame
<1>2. /\ text \in Seq(P) /\ Len(text) = 1 /\ text[1] = t
      /\ newline \in Seq(P) /\ Len(newline) = 1 /\ newline[1] = n
  <2>. HIDE DEF P, t, n
  <2>. QED  BY <1>1 DEF Piece, t, n
<1>3. JsonLine = IF HasBreak(traffic[taken]) THEN lines ELSE line
  BY DEF JsonLine
<1>. HIDE DEF P, t, n, text, newline, line, two, lines
<1>4. line \in Seq(P) /\ Len(line) = 2 /\ line[1] = t /\ line[2] = n
  BY <1>2, OneMore DEF line
<1>5. two \in Seq(P) /\ Len(two) = 3 /\ two[1] = t
  <2>1. /\ two \in Seq(P) /\ Len(two) = Len(line) + 1
        /\ \A i \in 1 .. Len(line) : two[i] = line[i]
    BY <1>2, <1>4, OneMore DEF two
  <2>2. 1 \in 1 .. Len(line)
    BY <1>4
  <2>. QED  BY <1>4, <2>1, <2>2
<1>6. lines \in Seq(P) /\ Len(lines) = 4 /\ lines[1] = t /\ lines[4] = n
  <2>0. two \in Seq(P) /\ newline \in Seq(P) /\ Len(newline) = 1
    BY <1>2, <1>5
  <2>1. /\ lines \in Seq(P) /\ Len(lines) = Len(two) + 1
        /\ \A i \in 1 .. Len(two) : lines[i] = two[i]
        /\ lines[Len(two) + 1] = newline[1]
    BY <2>0, OneMore DEF lines
  <2>2. 1 \in 1 .. Len(two)
    BY <1>5
  <2>. QED  BY <1>2, <1>5, <2>1, <2>2
<1>7. /\ JsonLine \in Seq(P) /\ Len(JsonLine) \in {2, 4}
      /\ JsonLine[1] = t /\ JsonLine[Len(JsonLine)] = n
      /\ ~HasBreak(traffic[taken]) => Len(JsonLine) = 2
  <2>1. CASE HasBreak(traffic[taken])
    <3>1. JsonLine = lines
      BY <1>3, <2>1
    <3>. QED  BY <1>6, <2>1, <3>1
  <2>2. CASE ~HasBreak(traffic[taken])
    <3>1. JsonLine = line
      BY <1>3, <2>2
    <3>. QED  BY <1>4, <3>1
  <2>. QED  BY <2>1, <2>2
<1>. QED  BY <1>7 DEF P, t, n

(* Packets that are known stay known. *)
LEMMA TypesGrow ==
  ASSUME NEW m \in Nat, NEW n \in Nat, m <= n
  PROVE  /\ Seq(1 .. m) \subseteq Seq(1 .. n)
         /\ \A W : Seq([packet : 1 .. m, is : W]) \subseteq Seq([packet : 1 .. n, is : W])
         /\ Seq([packet : 1 .. m, ok : BOOLEAN]) \subseteq Seq([packet : 1 .. n, ok : BOOLEAN])
<1>1. 1 .. m \subseteq 1 .. n
  OBVIOUS
<1>2. \A W : [packet : 1 .. m, is : W] \subseteq [packet : 1 .. n, is : W]
  BY <1>1
<1>3. [packet : 1 .. m, ok : BOOLEAN] \subseteq [packet : 1 .. n, ok : BOOLEAN]
  BY <1>1
<1>. QED  BY <1>1, <1>2, <1>3, SeqMonotonic

(* HandlersTypeOK and Routes, action by action. *)
LEMMA CaptureTypes ==
  ASSUME HandlersTypeOK, Routes, Capture
  PROVE  HandlersTypeOK' /\ Routes'
<1>1. /\ traffic \in Seq(Frame) /\ Len(traffic) \in Nat
      /\ taken \in 0 .. Len(traffic) /\ taken < Len(traffic) /\ taken' = taken + 1
      /\ UNCHANGED <<traffic, outputs, tracked, pcap, json, logged, faults, feed>>
  BY HandlersAssumption, LenProperties DEF HandlersTypeOK, Capture, files
<1>2. /\ taken' \in 0 .. Len(traffic') /\ taken \in Nat /\ taken' \in Nat /\ taken <= taken'
      /\ taken' >= 1
  BY <1>1
<1>3. pc' = IF "pcap" \in outputs THEN "pcap_header" ELSE "dissect"
  BY DEF Capture
<1>4. /\ tracked' \in Seq(1 .. taken')
      /\ pcap' \in Seq([packet : 1 .. taken', is : {"header", "data", "cut"}])
      /\ json' \in Seq([packet : 1 .. taken', is : {"text", "newline"}])
      /\ logged' \in Seq([packet : 1 .. taken', ok : BOOLEAN])
  BY <1>1, <1>2, TypesGrow DEF HandlersTypeOK
<1>5. HandlersTypeOK'
  BY <1>1, <1>2, <1>3, <1>4 DEF HandlersTypeOK
<1>6. Routes'
  BY <1>1, <1>2, <1>3 DEF Routes
<1>. QED  BY <1>5, <1>6

LEMMA PcapTypes ==
  ASSUME HandlersTypeOK, Routes, WritePcapHeader \/ WritePcapData
  PROVE  HandlersTypeOK' /\ Routes'
<1>1. /\ taken >= 1 /\ taken \in Nat
      /\ UNCHANGED <<traffic, outputs, taken, tracked, json, logged, feed>>
      /\ pc' \in {"pcap_data", "dissect"}
      /\ pc' = "pcap_data" => pc = "pcap_header"
  BY TakenFrame DEF Routes, WritePcapHeader, WritePcapData
<1>. DEFINE P == [packet : 1 .. taken, is : {"header", "data", "cut"}]
<1>2. pcap \in Seq(P) /\ faults \in 0 .. MaxFaults /\ MaxFaults \in Nat
  BY HandlersAssumption DEF HandlersTypeOK
<1>3. faults' \in 0 .. MaxFaults
  BY <1>2 DEF WritePcapHeader, WritePcapData, Fail
<1>4. PICK what \in {"header", "data", "cut"} : pcap' = pcap \o Piece(what)
  BY DEF WritePcapHeader, WritePcapData
<1>5. Piece(what) \in Seq(P)
  BY <1>1, PieceType
<1>6. pcap' \in Seq(P)
  <2>. HIDE DEF P
  <2>. QED  BY <1>2, <1>4, <1>5, ConcatProperties
<1>7. HandlersTypeOK'
  BY <1>1, <1>3, <1>6 DEF HandlersTypeOK
<1>8. Routes'
  BY <1>1 DEF Routes
<1>. QED  BY <1>7, <1>8

LEMMA DissectTypes ==
  ASSUME HandlersTypeOK, Routes, Dissect
  PROVE  HandlersTypeOK' /\ Routes'
<1>1. /\ taken >= 1 /\ taken \in 1 .. taken
      /\ UNCHANGED <<traffic, outputs, taken, pcap, json, logged, faults, feed>>
  BY TakenFrame DEF Routes, Dissect, files
<1>2. tracked' \in Seq(1 .. taken)
  <2>1. tracked \in Seq(1 .. taken)
    BY DEF HandlersTypeOK
  <2>2. Append(tracked, taken) \in Seq(1 .. taken)
    BY <1>1, <2>1, AppendProperties
  <2>. QED  BY <2>1, <2>2 DEF Dissect
<1>3. pc' = IF Shown(traffic[taken]) = "none" THEN "idle"
            ELSE IF Panics(traffic[taken]) THEN "panicked" ELSE AfterPrint
  BY DEF Dissect
<1>4. AfterPrint = IF "json" \in outputs THEN "json"
                   ELSE IF "feed" \in outputs THEN "broadcast" ELSE "idle"
  BY DEF AfterPrint, AfterJson
<1>5. HandlersTypeOK'
  BY <1>1, <1>2, <1>3, <1>4 DEF HandlersTypeOK
<1>6. Routes'
  <2>1. Panics(traffic'[taken']) <=> Panics(traffic[taken])
    BY <1>1
  <2>2. Visible(taken)' <=> Shown(traffic[taken]) # "none"
    BY <1>1 DEF Visible
  <2>3. pc' = "panicked" => Panics(traffic[taken])
    BY <1>3, <1>4
  <2>4. pc' \in {"json", "broadcast"} => Shown(traffic[taken]) # "none"
    BY <1>3
  <2>. QED  BY <1>1, <1>3, <1>4, <2>1, <2>2, <2>3, <2>4 DEF Routes
<1>. QED  BY <1>5, <1>6

LEMMA JsonTypes ==
  ASSUME HandlersTypeOK, Routes, WriteJson
  PROVE  HandlersTypeOK' /\ Routes'
<1>1. /\ taken >= 1 /\ taken \in 1 .. taken /\ pc = "json"
      /\ UNCHANGED <<traffic, outputs, taken, tracked, pcap, feed>>
      /\ pc' = IF "feed" \in outputs THEN "broadcast" ELSE "idle"
  BY TakenFrame DEF Routes, WriteJson, AfterJson
<1>. DEFINE P == [packet : 1 .. taken, is : {"text", "newline"}]
            L == [packet : 1 .. taken, ok : BOOLEAN]
<1>2. /\ json \in Seq(P) /\ logged \in Seq(L)
      /\ faults \in 0 .. MaxFaults /\ MaxFaults \in Nat
  BY HandlersAssumption DEF HandlersTypeOK
<1>3. faults' \in 0 .. MaxFaults
  BY <1>2 DEF WriteJson, Fail
<1>4. PICK n \in 0 .. Len(JsonLine) : json' = json \o SubSeq(JsonLine, 1, n)
  <2>1. JsonLine \in Seq(P)
    BY <1>1, JsonLineType
  <2>2. Len(JsonLine) \in Nat /\ SubSeq(JsonLine, 1, Len(JsonLine)) = JsonLine
    <3>. HIDE DEF P
    <3>. QED  BY <2>1, LenProperties, SubSeqFull
  <2>3. CASE json' = json \o JsonLine
    BY <2>2, <2>3
  <2>4. CASE \E n \in 0 .. Len(JsonLine) - 1 : json' = json \o SubSeq(JsonLine, 1, n)
    <3>1. 0 .. Len(JsonLine) - 1 \subseteq 0 .. Len(JsonLine)
      BY <2>2
    <3>. QED  BY <2>4, <3>1
  <2>. QED  BY <2>3, <2>4 DEF WriteJson
<1>5. json' \in Seq(P)
  <2>1. JsonLine \in Seq(P)
    BY <1>1, JsonLineType
  <2>. HIDE DEF P
  <2>2. SubSeq(JsonLine, 1, n) \in Seq(P)
    BY <2>1, LenProperties, SubSeqProperties
  <2>. QED  BY <1>2, <1>4, <2>2, ConcatProperties
<1>6. logged' \in Seq(L)
  <2>1. PICK ok \in BOOLEAN : logged' = Append(logged, [packet |-> taken, ok |-> ok])
    BY DEF WriteJson
  <2>2. [packet |-> taken, ok |-> ok] \in L
    BY <1>1
  <2>. HIDE DEF L
  <2>. QED  BY <1>2, <2>1, <2>2, AppendProperties
<1>7. HandlersTypeOK'
  BY <1>1, <1>3, <1>5, <1>6 DEF HandlersTypeOK
<1>8. Routes'
  BY <1>1 DEF Routes, Visible
<1>. QED  BY <1>7, <1>8

LEMMA BroadcastTypes ==
  ASSUME HandlersTypeOK, Routes, BroadcastMessage
  PROVE  HandlersTypeOK' /\ Routes'
<1>1. /\ taken >= 1 /\ pc' = "idle" /\ "feed" \in outputs /\ Shown(traffic[taken]) # "none"
      /\ UNCHANGED <<traffic, outputs, taken, tracked, pcap, json, logged, faults>>
      /\ feed' = Append(feed, MessageOf(taken, traffic[taken]))
  BY DEF Routes, BroadcastMessage, files, Visible
<1>2. MessageOf(taken, traffic[taken]) \in Message
  BY <1>1, TakenFrame, MessageType
<1>3. feed' \in Seq(Message)
  <2>1. feed \in Seq(Message)
    BY DEF HandlersTypeOK
  <2>. QED  BY <1>1, <1>2, <2>1, AppendProperties
<1>4. HandlersTypeOK'
  BY <1>1, <1>3 DEF HandlersTypeOK
<1>5. Routes'
  BY <1>1 DEF Routes
<1>. QED  BY <1>4, <1>5

-----------------------------------------------------------------------------
(* InStep. *)

(* A number larger than those listed goes to the end of the list. *)
LEMMA ListsAppend ==
  ASSUME NEW ns \in Seq(Nat), NEW S, Lists(ns, S), NEW n \in Nat, \A m \in S : m < n
  PROVE  Lists(Append(ns, n), S \cup {n})
<1>. DEFINE b == Append(ns, n)
<1>1. /\ Len(ns) \in Nat /\ DOMAIN ns = 1 .. Len(ns)
      /\ b \in Seq(Nat) /\ Len(b) = Len(ns) + 1 /\ DOMAIN b = 1 .. Len(ns) + 1
  BY AppendProperties, LenProperties
<1>2. /\ \A i \in DOMAIN ns : b[i] = ns[i]
      /\ b[Len(ns) + 1] = n
  BY AppendProperties
<1>3. /\ \A i, j \in DOMAIN ns : i < j => ns[i] < ns[j]
      /\ {ns[i] : i \in DOMAIN ns} = S
  BY DEF Lists
<1>. HIDE DEF b
<1>4. \A i, j \in DOMAIN b : i < j => b[i] < b[j]
  <2>. SUFFICES ASSUME NEW i \in DOMAIN b, NEW j \in DOMAIN b, i < j PROVE b[i] < b[j]
    OBVIOUS
  <2>1. i \in DOMAIN ns
    BY <1>1
  <2>2. CASE j \in DOMAIN ns
    BY <1>2, <1>3, <2>1, <2>2
  <2>3. CASE j = Len(ns) + 1
    BY <1>2, <1>3, <2>1, <2>3
  <2>. QED  BY <1>1, <2>2, <2>3
<1>5. {b[i] : i \in DOMAIN b} = S \cup {n}
  <2>1. \A x \in S : \E i \in DOMAIN b : b[i] = x
    BY <1>1, <1>2, <1>3
  <2>2. \E i \in DOMAIN b : b[i] = n
    BY <1>1, <1>2
  <2>3. \A i \in DOMAIN b : b[i] \in S \cup {n}
    <3>. TAKE i \in DOMAIN b
    <3>1. CASE i \in DOMAIN ns
      BY <1>2, <1>3, <3>1
    <3>2. CASE i = Len(ns) + 1
      BY <1>2, <3>2
    <3>. QED  BY <1>1, <3>1, <3>2
  <2>. QED  BY <2>1, <2>2, <2>3
<1>. QED  BY <1>4, <1>5 DEF Lists, b

(* The packets of a log or of the feed, in order. *)
LEMMA PacketsType ==
  ASSUME NEW E, NEW es \in Seq(E), \A e \in E : e.packet \in Nat
  PROVE  /\ Packets(es) \in Seq(Nat) /\ Len(Packets(es)) = Len(es)
         /\ \A i \in 1 .. Len(es) : Packets(es)[i] = es[i].packet
<1>1. /\ Len(es) \in Nat /\ DOMAIN es = 1 .. Len(es)
      /\ \A i \in 1 .. Len(es) : es[i] \in E
  BY LenProperties, ElementOfSeq
<1>2. Packets(es) = [i \in 1 .. Len(es) |-> es[i].packet]
  BY <1>1 DEF Packets
<1>3. Packets(es) \in [1 .. Len(es) -> Nat]
  BY <1>1, <1>2
<1>. QED  BY <1>1, <1>2, <1>3, FunctionIsSeq

LEMMA PacketsAppend ==
  ASSUME NEW E, NEW es \in Seq(E), \A e \in E : e.packet \in Nat, NEW e \in E
  PROVE  Packets(Append(es, e)) = Append(Packets(es), e.packet)
<1>. DEFINE b == Append(es, e)
            ps == Packets(es)
            qs == Append(ps, e.packet)
<1>1. /\ Len(es) \in Nat
      /\ b \in Seq(E) /\ Len(b) = Len(es) + 1
      /\ \A i \in 1 .. Len(es) : b[i] = es[i]
      /\ b[Len(es) + 1] = e
  BY AppendProperties, LenProperties
<1>2. /\ ps \in Seq(Nat) /\ Len(ps) = Len(es)
      /\ \A i \in 1 .. Len(es) : ps[i] = es[i].packet
  BY PacketsType
<1>. HIDE DEF b, ps
<1>3. /\ Packets(b) \in Seq(Nat) /\ Len(Packets(b)) = Len(es) + 1
      /\ \A i \in 1 .. Len(es) + 1 : Packets(b)[i] = b[i].packet
  BY <1>1, PacketsType
<1>4. /\ qs \in Seq(Nat) /\ Len(qs) = Len(es) + 1
      /\ \A i \in 1 .. Len(es) : qs[i] = ps[i]
      /\ qs[Len(es) + 1] = e.packet
  BY <1>2, AppendProperties
<1>. HIDE DEF qs
<1>5. ASSUME NEW i \in 1 .. Len(es) + 1 PROVE Packets(b)[i] = qs[i]
  <2>1. CASE i \in 1 .. Len(es)
    BY <1>1, <1>2, <1>3, <1>4, <2>1
  <2>2. CASE i = Len(es) + 1
    BY <1>1, <1>3, <1>4, <2>2
  <2>. QED  BY <1>1, <2>1, <2>2
<1>6. Packets(b) = qs
  BY <1>3, <1>4, <1>5, SeqEqual
<1>. QED  BY <1>6 DEF b, ps, qs

LEMMA InitInStep == HandlersInit => InStep
<1>. SUFFICES ASSUME HandlersInit PROVE InStep
  OBVIOUS
<1>1. \A V : Lists(<<>>, {n \in 1 .. 0 : V[n]})
  BY DEF Lists
<1>2. Lists(<<>>, {})
  BY DEF Lists
<1>3. Packets(<<>>) = <<>>
  BY DEF Packets
<1>4. /\ VisibleUpTo(0) = {}
      /\ {n \in 1 .. 0 : FeedsTracker(traffic[n])} = {}
  BY DEF VisibleUpTo
<1>5. pc = "idle" /\ taken = 0 /\ logged = <<>> /\ feed = <<>> /\ tracked = <<>>
  BY DEF HandlersInit
<1>. QED  BY <1>2, <1>3, <1>4, <1>5 DEF InStep, Printed

(* How far the parts of InStep have got, by pc. *)
LoggedUpTo == IF pc \in {"broadcast", "idle"} THEN taken ELSE taken - 1
FedUpTo == IF pc = "idle" THEN taken ELSE taken - 1
TrackedUpTo == IF pc \in {"json", "broadcast", "idle", "panicked"} THEN taken ELSE taken - 1

Tracked(n) == {i \in 1 .. n : FeedsTracker(traffic[i])}

(* InStep, as what each output has been given so far. *)
LEMMA InStepUpTo ==
  InStep <=> /\ "json" \in outputs => Lists(Packets(logged), VisibleUpTo(LoggedUpTo))
             /\ "feed" \in outputs => Lists(Packets(feed), VisibleUpTo(FedUpTo))
             /\ Lists(tracked, Tracked(TrackedUpTo))
<1>1. (IF pc = "json" THEN Printed - 1 ELSE Printed) = LoggedUpTo
  BY DEF Printed, LoggedUpTo
<1>2. (IF pc \in {"json", "broadcast"} THEN Printed - 1 ELSE Printed) = FedUpTo
  BY DEF Printed, FedUpTo
<1>3. (IF pc = "panicked" THEN taken ELSE Printed) = TrackedUpTo
  BY DEF Printed, TrackedUpTo
<1>. QED  BY <1>1, <1>2, <1>3 DEF InStep, Tracked

(* One packet more, shown or not. *)
LEMMA VisibleNext ==
  ASSUME NEW n \in Nat, n >= 1
  PROVE  /\ Visible(n) => VisibleUpTo(n) = VisibleUpTo(n - 1) \cup {n}
         /\ ~Visible(n) => VisibleUpTo(n) = VisibleUpTo(n - 1)
         /\ FeedsTracker(traffic[n]) => Tracked(n) = Tracked(n - 1) \cup {n}
         /\ ~FeedsTracker(traffic[n]) => Tracked(n) = Tracked(n - 1)
         /\ \A m \in VisibleUpTo(n - 1) \cup Tracked(n - 1) : m < n
<1>1. 1 .. n = (1 .. n - 1) \cup {n}
  OBVIOUS
<1>2. \A m \in 1 .. n - 1 : m < n
  OBVIOUS
<1>. QED  BY <1>1, <1>2 DEF VisibleUpTo, Tracked

(* Each output is given the packet in progress, or pc goes past it with nothing
   to give. *)
LEMMA HandlersInStep ==
  ASSUME HandlersTypeOK, Routes, InStep, HandlersNext
  PROVE  InStep'
<1>. DEFINE L == [packet : 1 .. taken, ok : BOOLEAN]
<1>1. /\ "json" \in outputs => Lists(Packets(logged), VisibleUpTo(LoggedUpTo))
      /\ "feed" \in outputs => Lists(Packets(feed), VisibleUpTo(FedUpTo))
      /\ Lists(tracked, Tracked(TrackedUpTo))
  BY InStepUpTo
<1>2. /\ taken \in Nat /\ logged \in Seq(L) /\ feed \in Seq(Message)
      /\ tracked \in Seq(Nat)
      /\ \A e \in L : e.packet \in Nat
      /\ \A e \in Message : e.packet \in Nat
  <2>1. taken \in 0 .. Len(traffic) /\ traffic \in Seq(Frame)
    BY HandlersAssumption DEF HandlersTypeOK
  <2>2. tracked \in Seq(1 .. taken) /\ taken \in Nat
    BY <2>1, LenProperties DEF HandlersTypeOK
  <2>3. 1 .. taken \subseteq Nat
    OBVIOUS
  <2>. QED  BY <2>2, <2>3, SeqMonotonic DEF HandlersTypeOK, Message
<1>3. traffic' = traffic /\ outputs' = outputs
  BY DEF HandlersNext, Capture, WritePcapHeader, WritePcapData, Dissect, WriteJson,
         BroadcastMessage
<1>4. /\ \A n : VisibleUpTo(n)' = VisibleUpTo(n)
      /\ \A n : Tracked(n)' = Tracked(n)
  BY <1>3 DEF VisibleUpTo, Visible, Tracked
<1>5. InStep' <=> /\ "json" \in outputs => Lists(Packets(logged'), VisibleUpTo(LoggedUpTo'))
                  /\ "feed" \in outputs => Lists(Packets(feed'), VisibleUpTo(FedUpTo'))
                  /\ Lists(tracked', Tracked(TrackedUpTo'))
  <2>1. (IF pc = "json" THEN Printed - 1 ELSE Printed)' = LoggedUpTo'
    BY DEF Printed, LoggedUpTo
  <2>2. (IF pc \in {"json", "broadcast"} THEN Printed - 1 ELSE Printed)' = FedUpTo'
    BY DEF Printed, FedUpTo
  <2>3. (IF pc = "panicked" THEN taken ELSE Printed)' = TrackedUpTo'
    BY DEF Printed, TrackedUpTo
  <2>. QED  BY <1>3, <2>1, <2>2, <2>3 DEF InStep, VisibleUpTo, Visible, Tracked
<1>6. CASE Capture
  <2>1. /\ LoggedUpTo' = LoggedUpTo /\ FedUpTo' = FedUpTo /\ TrackedUpTo' = TrackedUpTo
    BY <1>2, <1>6 DEF Capture, LoggedUpTo, FedUpTo, TrackedUpTo
  <2>2. UNCHANGED <<logged, feed, tracked>>
    BY <1>6 DEF Capture, files
  <2>. QED  BY <1>1, <1>5, <2>1, <2>2
<1>7. CASE WritePcapHeader \/ WritePcapData
  <2>1. /\ LoggedUpTo' = LoggedUpTo /\ FedUpTo' = FedUpTo /\ TrackedUpTo' = TrackedUpTo
    BY <1>2, <1>7 DEF WritePcapHeader, WritePcapData, LoggedUpTo, FedUpTo, TrackedUpTo
  <2>2. UNCHANGED <<logged, feed, tracked>>
    BY <1>7 DEF WritePcapHeader, WritePcapData
  <2>. QED  BY <1>1, <1>5, <2>1, <2>2
<1>8. CASE Dissect
  <2>1. /\ pc = "dissect" /\ taken >= 1
        /\ UNCHANGED <<taken, logged, feed>>
        /\ tracked' = IF FeedsTracker(traffic[taken]) THEN Append(tracked, taken) ELSE tracked
        /\ pc' = IF Shown(traffic[taken]) = "none" THEN "idle"
                 ELSE IF Panics(traffic[taken]) THEN "panicked" ELSE AfterPrint
    BY <1>8 DEF Dissect, files, Routes
  <2>2. /\ LoggedUpTo = taken - 1 /\ FedUpTo = taken - 1 /\ TrackedUpTo = taken - 1
    BY <2>1 DEF LoggedUpTo, FedUpTo, TrackedUpTo
  <2>3. /\ Visible(taken) <=> Shown(traffic[taken]) # "none"
        /\ ~Visible(taken) => VisibleUpTo(taken) = VisibleUpTo(taken - 1)
    BY <1>2, <2>1, VisibleNext DEF Visible
  <2>4. AfterPrint = IF "json" \in outputs THEN "json"
                     ELSE IF "feed" \in outputs THEN "broadcast" ELSE "idle"
    BY DEF AfterPrint, AfterJson
  <2>5. TrackedUpTo' = taken /\ Lists(tracked', Tracked(taken))
    <3>1. TrackedUpTo' = taken
      BY <2>1, <2>4 DEF TrackedUpTo
    <3>2. CASE FeedsTracker(traffic[taken])
      <4>1. Tracked(taken) = Tracked(taken - 1) \cup {taken}
        BY <1>2, <2>1, <3>2, VisibleNext
      <4>2. \A m \in Tracked(taken - 1) : m < taken
        BY <1>2, <2>1, VisibleNext
      <4>3. Lists(tracked, Tracked(taken - 1))
        BY <1>1, <2>2
      <4>4. Lists(Append(tracked, taken), Tracked(taken - 1) \cup {taken})
        BY <1>2, <4>2, <4>3, ListsAppend
      <4>. QED  BY <2>1, <3>1, <3>2, <4>1, <4>4
    <3>3. CASE ~FeedsTracker(traffic[taken])
      BY <1>1, <1>2, <2>1, <2>2, <3>1, <3>3, VisibleNext
    <3>. QED  BY <3>2, <3>3
  <2>6. "json" \in outputs => Lists(Packets(logged'), VisibleUpTo(LoggedUpTo'))
    <3>1. "json" \in outputs =>
            (LoggedUpTo' = IF Shown(traffic[taken]) = "none" THEN taken ELSE taken - 1)
      BY <2>1, <2>4 DEF LoggedUpTo
    <3>. QED  BY <1>1, <2>1, <2>2, <2>3, <3>1
  <2>7. "feed" \in outputs => Lists(Packets(feed'), VisibleUpTo(FedUpTo'))
    <3>1. "feed" \in outputs =>
            (FedUpTo' = IF Shown(traffic[taken]) = "none" THEN taken ELSE taken - 1)
      BY <2>1, <2>4 DEF FedUpTo
    <3>. QED  BY <1>1, <2>1, <2>2, <2>3, <3>1
  <2>. QED  BY <1>5, <2>5, <2>6, <2>7
<1>9. CASE WriteJson
  <2>1. /\ pc = "json" /\ taken >= 1 /\ taken \in 1 .. taken /\ Visible(taken) /\ "json" \in outputs
        /\ UNCHANGED <<taken, feed, tracked>>
        /\ pc' = IF "feed" \in outputs THEN "broadcast" ELSE "idle"
    BY <1>9, TakenFrame DEF WriteJson, Routes, AfterJson
  <2>2. /\ LoggedUpTo = taken - 1 /\ FedUpTo = taken - 1 /\ TrackedUpTo = taken
        /\ LoggedUpTo' = taken /\ TrackedUpTo' = taken
        /\ "feed" \in outputs => FedUpTo' = taken - 1
    BY <2>1 DEF LoggedUpTo, FedUpTo, TrackedUpTo
  <2>3. PICK ok \in BOOLEAN : logged' = Append(logged, [packet |-> taken, ok |-> ok])
    BY <1>9 DEF WriteJson
  <2>4. Packets(logged') = Append(Packets(logged), taken) /\ Packets(logged) \in Seq(Nat)
    <3>. DEFINE e == [packet |-> taken, ok |-> ok]
    <3>1. e \in L /\ e.packet = taken
      BY <2>1
    <3>. HIDE DEF e, L
    <3>2. Packets(Append(logged, e)) = Append(Packets(logged), e.packet)
      BY <1>2, <3>1, PacketsAppend
    <3>3. Packets(logged) \in Seq(Nat)
      BY <1>2, PacketsType
    <3>. QED  BY <2>3, <3>1, <3>2, <3>3 DEF e
  <2>5. Lists(Append(Packets(logged), taken), VisibleUpTo(taken - 1) \cup {taken})
    <3>1. \A m \in VisibleUpTo(taken - 1) : m < taken
      BY <1>2, <2>1, VisibleNext
    <3>2. Lists(Packets(logged), VisibleUpTo(taken - 1))
      BY <1>1, <2>1, <2>2
    <3>. QED  BY <1>2, <2>4, <3>1, <3>2, ListsAppend
  <2>6. VisibleUpTo(taken) = VisibleUpTo(taken - 1) \cup {taken}
    BY <1>2, <2>1, VisibleNext
  <2>. QED  BY <1>1, <1>5, <2>1, <2>2, <2>4, <2>5, <2>6
<1>10. CASE BroadcastMessage
  <2>1. /\ pc = "broadcast" /\ pc' = "idle" /\ taken >= 1 /\ Visible(taken)
        /\ "feed" \in outputs
        /\ UNCHANGED <<taken, logged, tracked>>
        /\ feed' = Append(feed, MessageOf(taken, traffic[taken]))
    BY <1>10 DEF BroadcastMessage, Routes, files
  <2>2. /\ LoggedUpTo = taken /\ FedUpTo = taken - 1 /\ TrackedUpTo = taken
        /\ LoggedUpTo' = taken /\ TrackedUpTo' = taken /\ FedUpTo' = taken
    BY <2>1 DEF LoggedUpTo, FedUpTo, TrackedUpTo
  <2>3. Packets(feed') = Append(Packets(feed), taken) /\ Packets(feed) \in Seq(Nat)
    <3>. DEFINE e == MessageOf(taken, traffic[taken])
    <3>1. e \in Message
      BY <2>1, TakenFrame, MessageType DEF Visible
    <3>2. e.packet = taken
      BY DEF MessageOf
    <3>. HIDE DEF e
    <3>3. Packets(Append(feed, e)) = Append(Packets(feed), e.packet)
      BY <1>2, <3>1, PacketsAppend
    <3>4. Packets(feed) \in Seq(Nat)
      BY <1>2, PacketsType
    <3>. QED  BY <2>1, <3>2, <3>3, <3>4 DEF e
  <2>4. Lists(Append(Packets(feed), taken), VisibleUpTo(taken - 1) \cup {taken})
    <3>1. \A m \in VisibleUpTo(taken - 1) : m < taken
      BY <1>2, <2>1, VisibleNext
    <3>2. Lists(Packets(feed), VisibleUpTo(taken - 1))
      BY <1>1, <2>1, <2>2
    <3>. QED  BY <1>2, <2>3, <3>1, <3>2, ListsAppend
  <2>5. VisibleUpTo(taken) = VisibleUpTo(taken - 1) \cup {taken}
    BY <1>2, <2>1, VisibleNext
  <2>. QED  BY <1>1, <1>5, <2>1, <2>2, <2>3, <2>4, <2>5
<1>. QED  BY <1>6, <1>7, <1>8, <1>9, <1>10 DEF HandlersNext

-----------------------------------------------------------------------------
(* The pcap file. *)

PcapEntry(i) == IF i % 2 = 1 THEN [packet |-> (i + 1) \div 2, is |-> "header"]
                             ELSE [packet |-> i \div 2, is |-> "data"]

\* The length of the file as long as no write has failed, by pc.
PcapEnd == IF pc = "pcap_header" THEN 2 * taken - 2
           ELSE IF pc = "pcap_data" THEN 2 * taken - 1 ELSE 2 * taken

IntactIn(s, i) == \A j \in 1 .. i : s[j].is # "cut"

\* PcapFaithful, with the length at every step, and what ShownIsExported needs:
\* a packet past the header has left a piece, cut or not.
PcapWhole ==
  /\ \A i \in 1 .. Len(pcap) : IntactIn(pcap, i) => pcap[i] = PcapEntry(i)
  /\ "pcap" \in outputs /\ IntactIn(pcap, Len(pcap)) => Len(pcap) = PcapEnd
  /\ "pcap" \in outputs =>
       \A n \in 1 .. (IF pc = "pcap_header" THEN taken - 1 ELSE taken) :
         \E i \in 1 .. Len(pcap) : pcap[i].packet = n

(* PcapWhole is enough. *)
LEMMA PcapFaithfulFollows == PcapWhole => PcapFaithful
BY DEF PcapWhole, PcapFaithful, PcapEntry, PcapEnd, Intact, IntactIn

LEMMA InitPcapWhole == HandlersInit => PcapWhole
<1>. SUFFICES ASSUME HandlersInit PROVE PcapWhole
  OBVIOUS
<1>1. pcap = <<>> /\ Len(pcap) = 0 /\ taken = 0 /\ pc = "idle"
  BY DEF HandlersInit
<1>2. 1 .. 0 = {}
  OBVIOUS
<1>. QED  BY <1>1, <1>2 DEF PcapWhole, PcapEnd

(* A piece is written behind the others. *)
LEMMA PcapGrows ==
  ASSUME HandlersTypeOK, PcapWhole, taken >= 1, taken' = taken, outputs' = outputs,
         pc \in {"pcap_header", "pcap_data"}, "pcap" \in outputs,
         NEW w \in {"header", "data", "cut"}, pcap' = pcap \o Piece(w),
         \/ /\ pc = "pcap_header" /\ w = "header" /\ pc' = "pcap_data"
         \/ /\ pc = "pcap_data" /\ w = "data" /\ pc' = "dissect"
         \/ /\ w = "cut" /\ pc' = "dissect"
  PROVE  PcapWhole'
<1>. DEFINE P == [packet : 1 .. taken, is : {"header", "data", "cut"}]
            k == Len(pcap)
            e == [packet |-> taken, is |-> w]
<1>1. taken \in Nat /\ taken \in 1 .. taken
  BY TakenFrame
<1>2. /\ pcap' \in Seq(P) /\ k \in Nat /\ Len(pcap') = k + 1
      /\ \A i \in 1 .. k : pcap'[i] = pcap[i]
      /\ pcap'[k + 1] = e
  <2>1. pcap \in Seq(P)
    BY DEF HandlersTypeOK
  <2>2. Piece(w) \in Seq(P) /\ Len(Piece(w)) = 1
    BY <1>1, PieceType
  <2>3. Piece(w)[1] = e
    BY DEF Piece
  <2>. HIDE DEF P, e
  <2>. QED  BY <2>1, <2>2, <2>3, OneMore
<1>. HIDE DEF P
<1>3. \A i \in 1 .. k : IntactIn(pcap', i) => IntactIn(pcap, i)
  <2>. TAKE i \in 1 .. k
  <2>1. \A j \in 1 .. i : j \in 1 .. k
    BY <1>2
  <2>. QED  BY <1>2, <2>1 DEF IntactIn
<1>4. IntactIn(pcap', k + 1) => IntactIn(pcap, k) /\ w # "cut"
  <2>. SUFFICES ASSUME \A j \in 1 .. k + 1 : pcap'[j].is # "cut"
                PROVE  IntactIn(pcap, k) /\ w # "cut"
    BY DEF IntactIn
  <2>1. k + 1 \in 1 .. k + 1 /\ \A j \in 1 .. k : j \in 1 .. k + 1
    BY <1>2
  <2>2. e.is # "cut"
    BY <1>2, <2>1
  <2>3. \A j \in 1 .. k : pcap[j].is # "cut"
    BY <1>2, <2>1
  <2>. QED  BY <2>2, <2>3 DEF IntactIn
<1>5. ASSUME NEW i \in 1 .. k + 1, IntactIn(pcap', i)
      PROVE  pcap'[i] = PcapEntry(i)
  <2>1. CASE i \in 1 .. k
    BY <1>2, <1>3, <1>5, <2>1 DEF PcapWhole
  <2>2. CASE i = k + 1
    <3>1. IntactIn(pcap, k) /\ w # "cut"
      BY <1>4, <1>5, <2>2
    <3>2. k = PcapEnd
      BY <3>1 DEF PcapWhole
    <3>3. CASE pc = "pcap_header"
      <4>1. k = 2 * taken - 2 /\ i = 2 * taken - 1 /\ w = "header"
        BY <3>1, <3>2, <3>3, <2>2, <1>1 DEF PcapEnd
      <4>2. i % 2 = 1 /\ (i + 1) \div 2 = taken
        BY <4>1, <1>1
      <4>3. PcapEntry(i) = [packet |-> taken, is |-> "header"]
        BY <4>2 DEF PcapEntry
      <4>. QED  BY <1>2, <2>2, <4>1, <4>3
    <3>4. CASE pc = "pcap_data"
      <4>1. k = 2 * taken - 1 /\ i = 2 * taken /\ w = "data"
        BY <3>1, <3>2, <3>4, <2>2, <1>1 DEF PcapEnd
      <4>2. i % 2 = 0 /\ i \div 2 = taken
        BY <4>1, <1>1
      <4>3. PcapEntry(i) = [packet |-> taken, is |-> "data"]
        BY <4>2 DEF PcapEntry
      <4>. QED  BY <1>2, <2>2, <4>1, <4>3
    <3>. QED  BY <3>3, <3>4
  <2>. QED  BY <1>2, <2>1, <2>2
<1>6. IntactIn(pcap', k + 1) => k + 1 = PcapEnd'
  <2>1. IntactIn(pcap', k + 1) => w # "cut" /\ k = PcapEnd
    BY <1>4 DEF PcapWhole
  <2>. QED  BY <1>1, <2>1 DEF PcapEnd
<1>7. ASSUME NEW n \in 1 .. taken
      PROVE  \E i \in 1 .. k + 1 : pcap'[i].packet = n
  <2>1. CASE n = taken
    <3>1. k + 1 \in 1 .. k + 1 /\ pcap'[k + 1].packet = taken
      BY <1>2
    <3>. QED  BY <2>1, <3>1
  <2>2. CASE n # taken
    <3>1. n \in 1 .. taken - 1 /\ n \in 1 .. (IF pc = "pcap_header" THEN taken - 1 ELSE taken)
      BY <1>1, <2>2
    <3>2. PICK i \in 1 .. k : pcap[i].packet = n
      BY <3>1 DEF PcapWhole
    <3>3. i \in 1 .. k + 1
      BY <1>2
    <3>. QED  BY <1>2, <3>2, <3>3
  <2>. QED  BY <2>1, <2>2
<1>8. \A i \in 1 .. Len(pcap') : IntactIn(pcap', i) => pcap'[i] = PcapEntry(i)
  BY <1>2, <1>5
<1>9. \A n \in 1 .. taken' : \E i \in 1 .. Len(pcap') : pcap'[i].packet = n
  BY <1>2, <1>7
<1>10. IntactIn(pcap', Len(pcap')) => Len(pcap') = PcapEnd'
  BY <1>2, <1>6
<1>11. pc' # "pcap_header"
  OBVIOUS
<1>. QED  BY <1>8, <1>9, <1>10, <1>11 DEF PcapWhole

(* Only two actions write to the pcap file. *)
LEMMA HandlersPcapWhole ==
  ASSUME HandlersTypeOK, Routes, PcapWhole, HandlersNext
  PROVE  PcapWhole'
<1>1. CASE Capture
  <2>1. /\ taken \in Nat /\ pc = "idle" /\ taken' = taken + 1
        /\ pc' = IF "pcap" \in outputs THEN "pcap_header" ELSE "dissect"
        /\ pcap' = pcap /\ outputs' = outputs
    <3>1. traffic \in Seq(Frame) /\ taken \in 0 .. Len(traffic)
      BY HandlersAssumption DEF HandlersTypeOK
    <3>. QED  BY <1>1, <3>1, LenProperties DEF Capture, files
  <2>3. "pcap" \in outputs => PcapEnd' = PcapEnd
    BY <2>1 DEF PcapEnd
  <2>5. "pcap" \in outputs => taken' - 1 = taken /\ pc' = "pcap_header" /\ pc # "pcap_header"
    BY <2>1
  <2>. QED  BY <2>1, <2>3, <2>5 DEF PcapWhole
<1>2. CASE WritePcapHeader \/ WritePcapData
  <2>1. /\ taken >= 1 /\ taken' = taken /\ outputs' = outputs
        /\ pc \in {"pcap_header", "pcap_data"} /\ "pcap" \in outputs
    BY <1>2 DEF WritePcapHeader, WritePcapData, Routes
  <2>2. PICK w \in {"header", "data", "cut"} :
          /\ pcap' = pcap \o Piece(w)
          /\ \/ /\ pc = "pcap_header" /\ w = "header" /\ pc' = "pcap_data"
             \/ /\ pc = "pcap_data" /\ w = "data" /\ pc' = "dissect"
             \/ /\ w = "cut" /\ pc' = "dissect"
    BY <1>2 DEF WritePcapHeader, WritePcapData
  <2>. QED  BY <2>1, <2>2, PcapGrows
<1>3. CASE Dissect \/ WriteJson \/ BroadcastMessage
  <2>1. /\ pcap' = pcap /\ outputs' = outputs /\ taken' = taken
        /\ pc \notin {"pcap_header", "pcap_data"} /\ pc' \notin {"pcap_header", "pcap_data"}
    BY <1>3 DEF Dissect, WriteJson, BroadcastMessage, files, AfterPrint, AfterJson
  <2>3. PcapEnd' = PcapEnd
    BY <2>1 DEF PcapEnd
  <2>. QED  BY <2>1, <2>3 DEF PcapWhole
<1>. QED  BY <1>1, <1>2, <1>3 DEF HandlersNext

-----------------------------------------------------------------------------
(* Panics. *)

(* In a name of narrow characters, characters are bytes. *)
LEMMA AsciiIndex ==
  ASSUME NEW name \in Seq(1 .. 4), Ascii(name), NEW n \in Nat, n <= Len(name)
  PROVE  ByteIndex(name, n) = n
<1>. DEFINE s == SubSeq(name, 1, n)
<1>1. Len(name) \in Nat /\ DOMAIN name = 1 .. Len(name)
  BY LenProperties
<1>2. s \in Seq(1 .. 4) /\ Len(s) = n /\ \A i \in 1 .. n : s[i] = name[i]
  <2>1. 1 \in 1 .. Len(name) + 1 /\ n \in 1 - 1 .. Len(name)
    BY <1>1
  <2>2. /\ s \in Seq(1 .. 4)
        /\ Len(s) = IF 1 <= n THEN n - 1 + 1 ELSE 0
        /\ \A i \in 1 .. n - 1 + 1 : s[i] = name[1 + i - 1]
    BY <2>1, SubSeqProperties
  <2>3. \A i \in 1 .. n : i \in 1 .. n - 1 + 1 /\ 1 + i - 1 = i
    OBVIOUS
  <2>4. Len(s) = n
    BY <2>2
  <2>. HIDE DEF s
  <2>. QED  BY <2>2, <2>3, <2>4
<1>. HIDE DEF s
<1>3. s \in Seq(Nat)
  <2>1. 1 .. 4 \subseteq Nat
    OBVIOUS
  <2>. QED  BY <1>2, <2>1, SeqMonotonic
<1>4. \A i \in 1 .. Len(s) : s[i] = 1
  <2>1. \A i \in 1 .. n : i \in 1 .. Len(name)
    BY <1>1
  <2>. QED  BY <1>1, <1>2, <2>1 DEF Ascii
<1>5. Total(s) = n
  BY <1>2, <1>3, <1>4, TotalOnes
<1>. QED  BY <1>5 DEF ByteIndex, s

(* A cut of such a name has room for the dots: INFO_CHARS leaves it three bytes. *)
LEMMA OnlyWideNames ==
  ASSUME HandlersTypeOK, Routes
  PROVE  OnlyWideNamesPanic
<1>. SUFFICES ASSUME pc = "panicked", Ascii(traffic[taken].name),
                     NameChars(traffic[taken]) > 0,
                     Len(traffic[taken].name) > NameChars(traffic[taken]),
                     Cuts(traffic[taken].name, NameChars(traffic[taken])) = {}
              PROVE  FALSE
  BY DEF OnlyWideNamesPanic, Routes, Panics
<1>. DEFINE name == traffic[taken].name
            m == NameChars(traffic[taken])
<1>1. name \in Seq(1 .. 4) /\ Len(name) \in Nat
  <2>1. traffic[taken] \in Frame
    BY TakenFrame DEF Routes
  <2>2. name \in Seq(1 .. 4)
    BY <2>1 DEF Frame
  <2>. QED  BY <2>2, LenProperties
<1>2. m \in {INFO_CHARS, INFO_CHARS - 5}
  BY DEF NameChars, DNS_PREFIX
<1>3. m \in Nat /\ m - 3 \in Nat /\ m - 3 \in 0 .. m /\ m <= Len(name) /\ m - 3 <= Len(name)
  BY <1>1, <1>2, HandlersAssumption
<1>. HIDE DEF m
<1>4. ByteIndex(name, m) = m /\ ByteIndex(name, m - 3) = m - 3
  BY <1>1, <1>3, AsciiIndex
<1>5. m - 3 \in Cuts(name, m)
  BY <1>3, <1>4 DEF Cuts
<1>. QED  BY <1>5 DEF m

-----------------------------------------------------------------------------
(* The JSON file. *)

LineIn(s, n) ==
  \E i \in 1 .. Len(s) - 1 :
    /\ s[i] = [packet |-> n, is |-> "text"]
    /\ s[i + 1] = [packet |-> n, is |-> "newline"]
    /\ i = 1 \/ s[i - 1].is = "newline"

\* A packet whose line is to be whole: neither its write nor the one before it failed.
Whole(ls, i) == ls[i].ok /\ (i = 1 \/ ls[i - 1].ok) /\ ~HasBreak(traffic[ls[i].packet])

\* JsonDamageBounded, and behind a write that did not fail a line begins.
JsonWhole ==
  /\ \A i \in 1 .. Len(logged) : Whole(logged, i) => LineIn(json, logged[i].packet)
  /\ Len(logged) = 0 => Len(json) = 0
  /\ Len(logged) # 0 /\ logged[Len(logged)].ok => json[Len(json)].is = "newline"

(* JsonWhole is enough. *)
LEMMA JsonDamageFollows ==
  ASSUME HandlersTypeOK, JsonWhole
  PROVE  JsonDamageBounded
<1>1. DOMAIN logged = 1 .. Len(logged)
  BY LenProperties DEF HandlersTypeOK
<1>. QED  BY <1>1 DEF JsonWhole, JsonDamageBounded, LineIn, OnItsLine, Whole

LEMMA InitJsonWhole == HandlersInit => JsonWhole
<1>. SUFFICES ASSUME HandlersInit PROVE JsonWhole
  OBVIOUS
<1>1. Len(logged) = 0 /\ Len(json) = 0
  BY DEF HandlersInit
<1>. QED  BY <1>1 DEF JsonWhole

(* Lines in the file stay when it grows. *)
LEMMA LineStays ==
  ASSUME NEW P, NEW s \in Seq(P), NEW t \in Seq(P), NEW n, LineIn(s, n)
  PROVE  LineIn(s \o t, n)
<1>. DEFINE u == s \o t
<1>1. /\ Len(s) \in Nat /\ Len(t) \in Nat /\ Len(u) = Len(s) + Len(t)
      /\ \A i \in 1 .. Len(s) + Len(t) : u[i] = IF i <= Len(s) THEN s[i] ELSE t[i - Len(s)]
  BY LenProperties, ConcatProperties
<1>. HIDE DEF u
<1>2. \A i \in 1 .. Len(s) : u[i] = s[i]
  <2>. TAKE i \in 1 .. Len(s)
  <2>1. i \in 1 .. Len(s) + Len(t) /\ i <= Len(s)
    BY <1>1
  <2>. QED  BY <1>1, <2>1
<1>3. PICK i \in 1 .. Len(s) - 1 : /\ s[i] = [packet |-> n, is |-> "text"]
                                   /\ s[i + 1] = [packet |-> n, is |-> "newline"]
                                   /\ i = 1 \/ s[i - 1].is = "newline"
  BY DEF LineIn
<1>4. /\ i \in 1 .. Len(s) /\ i + 1 \in 1 .. Len(s) /\ i \in 1 .. Len(u) - 1
      /\ i = 1 \/ i - 1 \in 1 .. Len(s)
  BY <1>1
<1>5. u[i] = s[i] /\ u[i + 1] = s[i + 1] /\ (i = 1 \/ u[i - 1] = s[i - 1])
  BY <1>2, <1>4
<1>6. LineIn(u, n)
  BY <1>3, <1>4, <1>5 DEF LineIn
<1>. QED  BY <1>6 DEF u

(* A line that is written whole begins behind a newline unless the write before it
   failed. *)
LEMMA HandlersJsonWhole ==
  ASSUME HandlersTypeOK, Routes, JsonWhole, HandlersNext
  PROVE  JsonWhole'
<1>1. CASE Capture \/ WritePcapHeader \/ WritePcapData \/ Dissect \/ BroadcastMessage
  <2>1. UNCHANGED <<json, logged, traffic>>
    BY <1>1 DEF Capture, WritePcapHeader, WritePcapData, Dissect, BroadcastMessage, files
  <2>. QED  BY <2>1 DEF JsonWhole, Whole
<1>2. CASE WriteJson
  <2>. DEFINE P == [packet : 1 .. taken, is : {"text", "newline"}]
              L == [packet : 1 .. taken, ok : BOOLEAN]
              k == Len(json)
              l == Len(logged)
              line == JsonLine
  <2>1. taken >= 1 /\ taken \in 1 .. taken /\ traffic' = traffic
    BY <1>2, TakenFrame DEF WriteJson, Routes
  <2>2. json \in Seq(P) /\ logged \in Seq(L) /\ k \in Nat /\ l \in Nat
    BY LenProperties DEF HandlersTypeOK
  <2>3. /\ line \in Seq(P) /\ Len(line) \in {2, 4}
        /\ line[1] = [packet |-> taken, is |-> "text"]
        /\ line[Len(line)] = [packet |-> taken, is |-> "newline"]
        /\ ~HasBreak(traffic[taken]) => Len(line) = 2
    BY <2>1, JsonLineType
  <2>4. PICK ok \in BOOLEAN :
          /\ logged' = Append(logged, [packet |-> taken, ok |-> ok])
          /\ ok => json' = json \o line
          /\ \E n \in 0 .. Len(line) : json' = json \o SubSeq(line, 1, n)
    <3>1. Len(line) \in Nat /\ SubSeq(line, 1, Len(line)) = line
      <4>. HIDE DEF P, line
      <4>. QED  BY <2>3, LenProperties, SubSeqFull
    <3>2. Len(line) \in 0 .. Len(line) /\ 0 .. Len(line) - 1 \subseteq 0 .. Len(line)
      BY <3>1
    <3>3. CASE /\ json' = json \o line
               /\ logged' = Append(logged, [packet |-> taken, ok |-> TRUE])
      <4>1. json' = json \o SubSeq(line, 1, Len(line))
        BY <3>1, <3>3
      <4>. QED  BY <3>2, <3>3, <4>1
    <3>4. CASE /\ \E n \in 0 .. Len(line) - 1 : json' = json \o SubSeq(line, 1, n)
               /\ logged' = Append(logged, [packet |-> taken, ok |-> FALSE])
      BY <3>2, <3>4
    <3>. QED  BY <1>2, <3>3, <3>4 DEF WriteJson
  <2>. DEFINE e == [packet |-> taken, ok |-> ok]
  <2>5. /\ Len(logged') = l + 1
        /\ \A i \in 1 .. l : logged'[i] = logged[i]
        /\ logged'[l + 1] = e /\ e.packet = taken /\ e.ok = ok
    <3>1. e \in L /\ e.packet = taken /\ e.ok = ok
      BY <2>1
    <3>2. logged' = Append(logged, e)
      BY <2>4
    <3>. HIDE DEF e, L
    <3>. QED  BY <2>2, <3>1, <3>2, AppendProperties
  <2>. HIDE DEF P, L, e, line
  <2>6. \A n : LineIn(json, n) => LineIn(json', n)
    <3>1. PICK n \in 0 .. Len(line) : json' = json \o SubSeq(line, 1, n)
      BY <2>4
    <3>2. SubSeq(line, 1, n) \in Seq(P)
      BY <2>3, LenProperties, SubSeqProperties
    <3>. QED  BY <2>2, <3>1, <3>2, LineStays
  <2>7. ok => /\ Len(json') = k + Len(line)
              /\ \A i \in 1 .. k : json'[i] = json[i]
              /\ \A j \in 1 .. Len(line) : json'[k + j] = line[j]
    <3>. SUFFICES ASSUME ok PROVE /\ Len(json') = k + Len(line)
                                  /\ \A i \in 1 .. k : json'[i] = json[i]
                                  /\ \A j \in 1 .. Len(line) : json'[k + j] = line[j]
      OBVIOUS
    <3>0. Len(line) \in Nat
      BY <2>3
    <3>1. /\ Len(json') = k + Len(line)
          /\ \A i \in 1 .. k + Len(line) :
               json'[i] = IF i <= k THEN json[i] ELSE line[i - k]
      BY <2>2, <2>3, <2>4, ConcatProperties
    <3>. HIDE DEF k
    <3>2. ASSUME NEW i \in 1 .. k PROVE json'[i] = json[i]
      <4>1. i \in 1 .. k + Len(line) /\ i <= k
        BY <2>2, <3>0
      <4>. QED  BY <3>1, <4>1
    <3>3. ASSUME NEW j \in 1 .. Len(line) PROVE json'[k + j] = line[j]
      <4>1. k + j \in 1 .. k + Len(line) /\ ~(k + j <= k) /\ (k + j) - k = j
        BY <2>2, <3>0
      <4>. QED  BY <3>1, <4>1
    <3>. QED  BY <3>1, <3>2, <3>3
  <2>8. ok => json'[Len(json')].is = "newline"
    <3>1. Len(line) \in 1 .. Len(line)
      BY <2>3
    <3>2. ok => json'[k + Len(line)] = line[Len(line)]
      BY <2>7, <3>1
    <3>. QED  BY <2>3, <2>7, <3>2
  <2>9. Whole(logged', l + 1) => LineIn(json', taken)
    <3>. SUFFICES ASSUME Whole(logged', l + 1) PROVE LineIn(json', taken)
      OBVIOUS
    <3>1. ok /\ (l + 1 = 1 \/ logged'[l + 1 - 1].ok) /\ ~HasBreak(traffic[taken])
      BY <2>5 DEF Whole
    <3>2. Len(line) = 2 /\ line[1] = [packet |-> taken, is |-> "text"]
          /\ line[2] = [packet |-> taken, is |-> "newline"]
      BY <2>3, <3>1
    <3>3. /\ Len(json') = k + 2
          /\ json'[k + 1] = [packet |-> taken, is |-> "text"]
          /\ json'[k + 2] = [packet |-> taken, is |-> "newline"]
      <4>1. 1 \in 1 .. Len(line) /\ 2 \in 1 .. Len(line)
        BY <3>2
      <4>. QED  BY <2>7, <3>1, <3>2, <4>1
    <3>4. k = 0 \/ json'[k].is = "newline"
      <4>1. CASE l = 0
        BY <4>1 DEF JsonWhole
      <4>2. CASE l # 0
        <5>1. l \in 1 .. l /\ l + 1 - 1 = l /\ l + 1 # 1
          BY <2>2, <4>2
        <5>2. logged[l].ok
          BY <2>5, <3>1, <5>1
        <5>3. json[k].is = "newline"
          BY <4>2, <5>2 DEF JsonWhole
        <5>4. k = 0 \/ k \in 1 .. k
          BY <2>2
        <5>. QED  BY <2>7, <3>1, <5>3, <5>4
      <4>. QED  BY <4>1, <4>2
    <3>. HIDE DEF k
    <3>5. PICK i : i = k + 1
      OBVIOUS
    <3>6. /\ i \in 1 .. Len(json') - 1
          /\ i - 1 = k /\ i + 1 = k + 2
          /\ k = 0 => i = 1
      BY <2>2, <3>3, <3>5
    <3>7. /\ json'[i] = [packet |-> taken, is |-> "text"]
          /\ json'[i + 1] = [packet |-> taken, is |-> "newline"]
          /\ i = 1 \/ json'[i - 1].is = "newline"
      BY <3>3, <3>4, <3>5, <3>6
    <3>. QED  BY <3>6, <3>7 DEF LineIn
  <2>10. ASSUME NEW i \in 1 .. l + 1, Whole(logged', i)
         PROVE  LineIn(json', logged'[i].packet)
    <3>1. CASE i = l + 1
      BY <2>1, <2>5, <2>9, <2>10, <3>1 DEF Whole
    <3>2. CASE i \in 1 .. l
      <4>1. i = 1 \/ i - 1 \in 1 .. l
        BY <2>2, <3>2
      <4>2. Whole(logged, i)
        BY <2>5, <2>10, <3>2, <4>1 DEF Whole
      <4>3. LineIn(json, logged[i].packet)
        BY <3>2, <4>2 DEF JsonWhole
      <4>. QED  BY <2>5, <2>6, <3>2, <4>3
    <3>. QED  BY <2>2, <3>1, <3>2
  <2>11. \A i \in 1 .. Len(logged') : Whole(logged', i) => LineIn(json', logged'[i].packet)
    BY <2>5, <2>10
  <2>12. Len(logged') # 0 /\ (logged'[Len(logged')].ok => json'[Len(json')].is = "newline")
    BY <2>2, <2>5, <2>8
  <2>. QED  BY <2>1, <2>11, <2>12 DEF JsonWhole, Whole
<1>. QED  BY <1>1, <1>2 DEF HandlersNext

-----------------------------------------------------------------------------
(* The page of the table that is shown. *)

(* A page up to the last one begins within the list. *)
LEMMA PagesBound ==
  ASSUME NEW n \in Nat, n # 0
  PROVE  /\ Pages(n) \in Nat \ {0}
         /\ \A p \in Nat \ {0} : p <= Pages(n) =>
              (p - 1) * itemsPerPage \in Nat /\ (p - 1) * itemsPerPage < n
<1>. DEFINE k == itemsPerPage
            a == n + k - 1
            q == a \div k
<1>1. k \in Nat /\ k # 0 /\ a \in Nat /\ a >= k
  BY DashboardAssumption
<1>2. q \in Int /\ q * k <= a /\ a < q * k + k
  BY <1>1
<1>3. q >= 1
  <2>. SUFFICES ASSUME q <= 0 PROVE FALSE
    BY <1>2
  <2>. HIDE DEF q, k, a
  <2>1. q * k <= 0
    BY <1>1, <1>2
  <2>. QED  BY <1>1, <1>2, <2>1
<1>4. ASSUME NEW p \in Nat \ {0}, p <= q
      PROVE  (p - 1) * k \in Nat /\ (p - 1) * k < n
  <2>0. k \in Nat /\ p - 1 \in Nat /\ q - 1 \in Nat /\ p - 1 <= q - 1
    BY <1>1, <1>2, <1>3, <1>4
  <2>. HIDE DEF q, k
  <2>1. (p - 1) * k \in Nat
    BY <2>0
  <2>2. (p - 1) * k <= (q - 1) * k
    BY <2>0
  <2>3. (q - 1) * k = q * k - k
    BY <2>0, <1>2
  <2>4. q * k - k < n
    BY <1>1, <1>2
  <2>5. (q - 1) * k \in Int
    BY <2>0
  <2>. QED  BY <2>1, <2>2, <2>3, <2>4, <2>5
<1>5. Pages(n) = q
  BY DEF Pages
<1>. QED  BY <1>2, <1>3, <1>4, <1>5

(* Filters leave out, and add nothing. *)
LEMMA MatchingType ==
  ASSUME NEW S, NEW ps \in Seq(S), NEW filter
  PROVE  Matching(ps, filter) \in Seq(S)
<1>. DEFINE T == {n \in ToSet(ps) : Matches(filter, n)}
<1>1. Keep(ps, T) \in Seq(S \cap T)
  BY KeepType
<1>2. S \cap T \subseteq S
  OBVIOUS
<1>3. Keep(ps, T) \in Seq(S)
  BY <1>1, <1>2, SeqMonotonic
<1>. QED  BY <1>3 DEF Matching

(* refreshList shows a page there is, and something on it. *)
LEMMA RefreshShows ==
  ASSUME NEW S, NEW ps \in Seq(S), NEW filter, NEW page \in Nat \ {0},
         Refresh(ps, filter, page)
  PROVE  /\ currentPage' \in Nat \ {0}
         /\ rows' \in Seq(S)
         /\ Matching(ps, filter) # <<>> =>
              /\ rows' # <<>>
              /\ currentPage' <= Pages(Len(Matching(ps, filter)))
<1>. DEFINE m == Matching(ps, filter)
            last == Pages(Len(m))
            shown == IF m # <<>> /\ page > last THEN last ELSE page
            start == (shown - 1) * itemsPerPage
            end == IF start + itemsPerPage < Len(m) THEN start + itemsPerPage ELSE Len(m)
<1>1. currentPage' = shown /\ rows' = SubSeq(m, start + 1, end)
  BY DEF Refresh
<1>. HIDE DEF m
<1>2. m \in Seq(S) /\ Len(m) \in Nat /\ (m # <<>> <=> Len(m) # 0)
  <2>1. m \in Seq(S)
    BY MatchingType DEF m
  <2>. QED  BY <2>1, LenProperties, EmptySeq
<1>3. m # <<>> => /\ last \in Nat \ {0}
                  /\ \A p \in Nat \ {0} : p <= last =>
                       (p - 1) * itemsPerPage \in Nat /\ (p - 1) * itemsPerPage < Len(m)
  BY <1>2, PagesBound
<1>. HIDE DEF last
<1>4. shown \in Nat \ {0} /\ (m # <<>> => shown <= last)
  BY <1>3
<1>. HIDE DEF shown
<1>5. start \in Nat /\ (m # <<>> => start < Len(m))
  <2>1. CASE m # <<>>
    BY <1>3, <1>4, <2>1
  <2>2. CASE m = <<>>
    <3>1. shown - 1 \in Nat /\ itemsPerPage \in Nat
      BY <1>4, DashboardAssumption
    <3>. QED  BY <2>2, <3>1
  <2>. QED  BY <2>1, <2>2
<1>. HIDE DEF start
<1>6. end \in Int /\ end <= Len(m) /\ (m # <<>> => start + 1 <= end)
  <2>1. itemsPerPage \in Nat /\ itemsPerPage # 0
    BY DashboardAssumption
  <2>. QED  BY <1>2, <1>5, <2>1
<1>. HIDE DEF end
<1>7. \A i \in start + 1 .. end : m[i] \in S
  <2>1. \A i \in start + 1 .. end : i \in 1 .. Len(m)
    BY <1>2, <1>5, <1>6
  <2>. QED  BY <1>2, <2>1, ElementOfSeq
<1>8. /\ rows' \in Seq(S)
      /\ Len(rows') = IF start + 1 <= end THEN end - (start + 1) + 1 ELSE 0
  <2>1. start + 1 \in Int
    BY <1>5
  <2>. QED  BY <1>1, <1>6, <1>7, <2>1, SubSeqProperties
<1>9. m # <<>> => rows' # <<>>
  <2>1. m # <<>> => Len(rows') # 0
    BY <1>5, <1>6, <1>8
  <2>. QED  BY <2>1
<1>. QED  BY <1>1, <1>4, <1>8, <1>9 DEF m, last

-----------------------------------------------------------------------------
(* The page in the browser: types, and how its connection stands to the feed. *)

\* A member is connected; whatever was heard, a connection has been sent, and what
\* the open one is sent next none has been.
Linked ==
  /\ socket = "open" => connection \in Connections
  /\ \A c \in Connections : member[c] = "in" <=> (socket = "open" /\ c = connection)
  /\ \A n \in heard : \E c \in Connections : n <= pos[c]
  /\ socket = "open" => \A c \in Connections : pos[c] <= pos[connection]

(* Messages in the feed, by their index. *)
LEMMA FeedLen ==
  ASSUME feed \in Seq(Message)
  PROVE  /\ Len(feed) \in Nat
         /\ \A n \in 1 .. Len(feed) :
              feed[n].proto \in Protocols /\ feed[n].size \in Nat /\ n \in DOMAIN feed
         /\ \A n \in DOMAIN feed : n \in 1 .. Len(feed)
<1>1. /\ Len(feed) \in Nat /\ DOMAIN feed = 1 .. Len(feed)
      /\ \A n \in 1 .. Len(feed) : feed[n] \in Message
  BY LenProperties, ElementOfSeq
<1>2. \A m \in Message : m.proto \in Protocols /\ m.size \in Nat
  BY DEF Message
<1>. QED  BY <1>1, <1>2

(* Nothing matches in an empty table. *)
LEMMA MatchingEmpty ==
  ASSUME NEW filter
  PROVE  Matching(<<>>, filter) = <<>>
<1>1. <<>> \in Seq({})
  OBVIOUS
<1>2. Matching(<<>>, filter) \in Seq({})
  BY <1>1, MatchingType
<1>. HIDE DEF Matching
<1>3. Len(Matching(<<>>, filter)) \in Nat
      /\ \A i \in 1 .. Len(Matching(<<>>, filter)) : Matching(<<>>, filter)[i] \in {}
  BY <1>2, LenProperties, ElementOfSeq
<1>4. Len(Matching(<<>>, filter)) = 0
  <2>1. ~(1 \in 1 .. Len(Matching(<<>>, filter)))
    BY <1>3
  <2>. QED  BY <1>3, <2>1
<1>. QED  BY <1>2, <1>4, EmptySeq

LEMMA InitDashboard ==
  ASSUME DashboardInit, feed = <<>>
  PROVE  DashboardTypeOK /\ Linked /\ PageExists
<1>1. /\ feed \in Seq(Message) /\ Len(feed) = 0 /\ <<>> \in Seq(1 .. 0)
      /\ 0 \in 0 .. MaxConnections /\ 0 \in 0 .. 0
  BY DashboardAssumption
<1>2. DashboardTypeOK
  BY <1>1 DEF DashboardInit, DashboardTypeOK
<1>3. Linked
  BY DEF DashboardInit, Linked
<1>4. PageExists
  BY MatchingEmpty DEF DashboardInit, PageExists
<1>. QED  BY <1>2, <1>3, <1>4

(* The steps of the connection. *)
LEMMA LinkStep ==
  ASSUME feed \in Seq(Message), DashboardTypeOK, Linked, OnOpen \/ OnClose \/ Retry \/ OnMessage
  PROVE  /\ Linked'
         /\ socket' \in {"closed", "connecting", "open"}
         /\ connection' \in 0 .. MaxConnections
         /\ member' \in [Connections -> {"out", "in", "left"}]
         /\ pos' \in [Connections -> 0 .. Len(feed)]
         /\ heard' \subseteq 1 .. Len(feed)
<1>1. /\ MaxConnections \in Nat /\ Len(feed) \in Nat
      /\ member \in [Connections -> {"out", "in", "left"}]
      /\ pos \in [Connections -> 0 .. Len(feed)]
      /\ connection \in 0 .. MaxConnections
      /\ heard \subseteq 1 .. Len(feed)
  BY DashboardAssumption, FeedLen DEF DashboardTypeOK
<1>2. CASE OnOpen
  <2>. DEFINE d == connection + 1
  <2>1. /\ socket = "connecting" /\ socket' = "open" /\ connection' = d /\ heard' = heard
        /\ d \in Connections
    BY <1>1, <1>2 DEF OnOpen, Connections
  <2>2. PICK k \in 0 .. Len(feed) :
          /\ member' = [member EXCEPT ![d] = "in"]
          /\ \A c \in Connections : pos[c] <= k
          /\ pos' = [pos EXCEPT ![d] = k]
    BY <1>2 DEF OnOpen, PS!Join
  <2>. HIDE DEF d
  <2>3. /\ member' \in [Connections -> {"out", "in", "left"}]
        /\ pos' \in [Connections -> 0 .. Len(feed)]
        /\ pos'[d] = k
        /\ \A c \in Connections : c # d => pos'[c] = pos[c] /\ member'[c] = member[c]
        /\ member'[d] = "in"
    BY <1>1, <2>1, <2>2
  <2>4. \A c \in Connections : member[c] # "in"
    BY <2>1 DEF Linked
  <2>5. \A c \in Connections : pos'[c] <= k /\ pos[c] <= pos'[c]
    <3>. TAKE c \in Connections
    <3>1. pos[c] \in Int /\ k \in Int
      BY <1>1
    <3>. QED  BY <2>2, <2>3, <3>1
  <2>6. \A n \in heard : \E c \in Connections : n <= pos'[c]
    <3>. TAKE n \in heard
    <3>1. PICK c \in Connections : n <= pos[c]
      BY DEF Linked
    <3>2. n \in Int /\ pos[c] \in Int /\ pos'[c] \in Int
      BY <1>1, <2>3
    <3>. QED  BY <2>5, <3>1, <3>2
  <2>7. Linked'
    BY <2>1, <2>3, <2>4, <2>5, <2>6 DEF Linked, Connections
  <2>8. connection' \in 0 .. MaxConnections
    BY <1>1, <2>1 DEF Connections
  <2>. QED  BY <1>1, <2>1, <2>3, <2>7, <2>8
<1>3. CASE OnClose
  <2>1. /\ socket' = "closed" /\ connection' = connection /\ heard' = heard /\ pos' = pos
        /\ socket \in {"connecting", "open"}
        /\ \/ socket # "open" /\ member' = member
           \/ socket = "open" /\ member' = [member EXCEPT ![connection] = "left"]
    BY <1>3 DEF OnClose, PS!Leave
  <2>2. member' \in [Connections -> {"out", "in", "left"}]
    BY <1>1, <2>1
  <2>3. \A c \in Connections : member'[c] # "in"
    BY <1>1, <2>1 DEF Linked
  <2>. QED  BY <1>1, <2>1, <2>2, <2>3 DEF Linked, Connections
<1>4. CASE Retry
  BY <1>1, <1>4 DEF Retry, Linked, Connections
<1>5. CASE OnMessage
  <2>. DEFINE n == pos[connection] + 1
  <2>1. /\ socket = "open" /\ socket' = socket /\ connection' = connection /\ member' = member
        /\ heard' = heard \cup {n}
        /\ pos' = [pos EXCEPT ![connection] = n]
        /\ pos[connection] < Len(feed)
        /\ connection \in Connections
    BY <1>5 DEF OnMessage, PS!Deliver, Linked
  <2>2. n \in 1 .. Len(feed) /\ pos[connection] \in Nat
    BY <1>1, <2>1
  <2>3. \A c \in Connections : pos[c] <= pos[connection]
    BY <2>1 DEF Linked
  <2>4. pos' \in [Connections -> 0 .. Len(feed)]
    BY <1>1, <2>1, <2>2
  <2>5. pos'[connection] = n /\ \A c \in Connections : c # connection => pos'[c] = pos[c]
    BY <1>1, <2>1
  <2>6. \A c \in Connections : pos[c] \in Int /\ pos[c] <= pos'[c] /\ pos'[c] <= pos'[connection]
    BY <1>1, <2>2, <2>3, <2>5
  <2>7. \A x \in heard' : \E c \in Connections : x <= pos'[c]
    <3>. TAKE x \in heard'
    <3>1. CASE x = n
      BY <2>1, <2>2, <2>5, <3>1
    <3>2. CASE x \in heard
      <4>1. PICK c \in Connections : x <= pos[c]
        BY <3>2 DEF Linked
      <4>2. x \in Int /\ pos[c] \in Int /\ pos'[c] \in Int
        BY <1>1, <2>4, <3>2
      <4>. QED  BY <2>6, <4>1, <4>2
    <3>. QED  BY <2>1, <3>1, <3>2
  <2>8. Linked'
    BY <2>1, <2>6, <2>7 DEF Linked, Connections
  <2>. QED  BY <1>1, <2>1, <2>2, <2>4, <2>8 DEF DashboardTypeOK
<1>. QED  BY <1>2, <1>3, <1>4, <1>5

(* What comes next was not heard yet. *)
LEMMA NextIsNew ==
  ASSUME feed \in Seq(Message), DashboardTypeOK, Linked, socket = "open",
         pos[connection] < Len(feed)
  PROVE  /\ pos[connection] + 1 \in 1 .. Len(feed)
         /\ \A n \in heard : n < pos[connection] + 1
<1>1. /\ Len(feed) \in Nat /\ pos \in [Connections -> 0 .. Len(feed)]
      /\ heard \subseteq 1 .. Len(feed) /\ connection \in Connections
      /\ \A c \in Connections : pos[c] <= pos[connection]
  BY FeedLen DEF DashboardTypeOK, Linked
<1>2. \A c \in Connections : pos[c] \in Nat
  BY <1>1
<1>3. ASSUME NEW n \in heard PROVE n < pos[connection] + 1
  <2>1. PICK c \in Connections : n <= pos[c]
    BY DEF Linked
  <2>. QED  BY <1>1, <1>2, <2>1
<1>. QED  BY <1>1, <1>2, <1>3

-----------------------------------------------------------------------------
(* Sums over what was counted. *)

SumOf(F, ns) == Total([i \in DOMAIN ns |-> F[ns[i]]])

(* Sums of what a function says of each element. *)
LEMMA SumOfType ==
  ASSUME NEW D, NEW F \in [D -> Nat], NEW ns \in Seq(D)
  PROVE  /\ SumOf(F, ns) \in Nat
         /\ [i \in DOMAIN ns |-> F[ns[i]]] \in Seq(Nat)
         /\ Len([i \in DOMAIN ns |-> F[ns[i]]]) = Len(ns)
<1>. DEFINE f == [i \in DOMAIN ns |-> F[ns[i]]]
<1>1. Len(ns) \in Nat /\ DOMAIN ns = 1 .. Len(ns) /\ \A i \in 1 .. Len(ns) : ns[i] \in D
  BY LenProperties, ElementOfSeq
<1>2. f \in [1 .. Len(ns) -> Nat]
  BY <1>1
<1>. HIDE DEF f
<1>3. f \in Seq(Nat) /\ Len(f) = Len(ns)
  BY <1>1, <1>2, FunctionIsSeq
<1>4. Total(f) \in Nat
  BY <1>3, TotalNat
<1>. QED  BY <1>3, <1>4 DEF SumOf, f

LEMMA SumOfConcat ==
  ASSUME NEW D, NEW F \in [D -> Nat], NEW s \in Seq(D), NEW t \in Seq(D)
  PROVE  SumOf(F, s \o t) = SumOf(F, s) + SumOf(F, t)
<1>. DEFINE u == s \o t
            f == [i \in DOMAIN s |-> F[s[i]]]
            g == [i \in DOMAIN t |-> F[t[i]]]
            h == [i \in DOMAIN u |-> F[u[i]]]
            a == Len(s)
            b == Len(t)
<1>1. /\ u \in Seq(D) /\ Len(u) = a + b /\ a \in Nat /\ b \in Nat
      /\ \A i \in 1 .. a + b : u[i] = IF i <= a THEN s[i] ELSE t[i - a]
  BY LenProperties, ConcatProperties
<1>. HIDE DEF u
<1>2. DOMAIN u = 1 .. a + b /\ DOMAIN s = 1 .. a /\ DOMAIN t = 1 .. b
  BY <1>1, LenProperties
<1>3. /\ f \in Seq(Nat) /\ Len(f) = a
      /\ g \in Seq(Nat) /\ Len(g) = b
      /\ h \in Seq(Nat) /\ Len(h) = a + b
  BY <1>1, SumOfType
<1>4. /\ \A i \in 1 .. a : f[i] = F[s[i]]
      /\ \A i \in 1 .. b : g[i] = F[t[i]]
      /\ \A i \in 1 .. a + b : h[i] = F[u[i]]
  BY <1>2
<1>. HIDE DEF f, g, h
<1>. HIDE DEF a, b
<1>. DEFINE fg == f \o g
<1>5. /\ fg \in Seq(Nat) /\ Len(fg) = a + b
      /\ \A i \in 1 .. a + b : fg[i] = IF i <= a THEN f[i] ELSE g[i - a]
  <2>1. f \in Seq(Nat) /\ g \in Seq(Nat)
    BY <1>3
  <2>2. /\ fg \in Seq(Nat) /\ Len(fg) = Len(f) + Len(g)
        /\ \A i \in 1 .. Len(f) + Len(g) : fg[i] = IF i <= Len(f) THEN f[i] ELSE g[i - Len(f)]
    BY <2>1, ConcatProperties
  <2>. HIDE DEF fg
  <2>. QED  BY <1>3, <2>2
<1>. HIDE DEF fg
<1>6. ASSUME NEW i \in 1 .. a + b PROVE h[i] = fg[i]
  <2>0. a \in Nat /\ b \in Nat /\ h[i] = F[u[i]]
    BY <1>1, <1>4
  <2>1. CASE i <= a
    <3>1. i \in 1 .. a
      BY <2>0, <2>1
    <3>2. u[i] = s[i] /\ fg[i] = f[i]
      BY <1>1, <1>5, <2>1
    <3>. QED  BY <1>4, <2>0, <3>1, <3>2
  <2>2. CASE ~(i <= a)
    <3>1. i - a \in 1 .. b
      BY <2>0, <2>2
    <3>2. u[i] = t[i - a] /\ fg[i] = g[i - a]
      BY <1>1, <1>5, <2>2
    <3>. QED  BY <1>4, <2>0, <3>1, <3>2
  <2>. QED  BY <2>1, <2>2
<1>7. h = f \o g
  BY <1>3, <1>5, <1>6, SeqEqual DEF fg
<1>8. Total(h) = Total(f) + Total(g)
  BY <1>3, <1>7, TotalConcat
<1>. QED  BY <1>8 DEF SumOf, f, g, h, u

LEMMA SumOfEmpty ==
  ASSUME NEW F
  PROVE  SumOf(F, <<>>) = 0
<1>1. [i \in DOMAIN <<>> |-> F[<<>>[i]]] = <<>>
  OBVIOUS
<1>. QED  BY <1>1, TotalEmpty DEF SumOf

ProtoIs(p) == [n \in 1 .. Len(feed) |-> IF feed[n].proto = p THEN 1 ELSE 0]
Sizes == [n \in 1 .. Len(feed) |-> feed[n].size]

(* Counts and bytes are such sums. *)
LEMMA CountIsSum ==
  ASSUME NEW ns \in Seq(1 .. Len(feed)), NEW p
  PROVE  /\ Count(p, ns) = SumOf(ProtoIs(p), ns)
         /\ Bytes(ns) = SumOf(Sizes, ns)
<1>1. \A i \in DOMAIN ns : ns[i] \in 1 .. Len(feed)
  BY LenProperties, ElementOfSeq
<1>2. [i \in DOMAIN ns |-> IF feed[ns[i]].proto = p THEN 1 ELSE 0]
        = [i \in DOMAIN ns |-> ProtoIs(p)[ns[i]]]
  BY <1>1 DEF ProtoIs
<1>3. [i \in DOMAIN ns |-> feed[ns[i]].size] = [i \in DOMAIN ns |-> Sizes[ns[i]]]
  BY <1>1 DEF Sizes
<1>. QED  BY <1>2, <1>3 DEF Count, Bytes, SumOf

(* Statistics of two lists one behind the other add up. *)
LEMMA StatisticsAdd ==
  ASSUME feed \in Seq(Message), NEW s \in Seq(1 .. Len(feed)), NEW t \in Seq(1 .. Len(feed)), NEW p
  PROVE  /\ Count(p, s) \in Nat /\ Bytes(s) \in Nat
         /\ Count(p, s \o t) = Count(p, s) + Count(p, t)
         /\ Bytes(s \o t) = Bytes(s) + Bytes(t)
<1>1. ProtoIs(p) \in [1 .. Len(feed) -> Nat] /\ Sizes \in [1 .. Len(feed) -> Nat]
  BY FeedLen DEF ProtoIs, Sizes
<1>2. s \o t \in Seq(1 .. Len(feed))
  BY ConcatProperties
<1>3. /\ Count(p, s) = SumOf(ProtoIs(p), s) /\ Bytes(s) = SumOf(Sizes, s)
      /\ Count(p, t) = SumOf(ProtoIs(p), t) /\ Bytes(t) = SumOf(Sizes, t)
      /\ Count(p, s \o t) = SumOf(ProtoIs(p), s \o t) /\ Bytes(s \o t) = SumOf(Sizes, s \o t)
  BY <1>2, CountIsSum
<1>4. /\ SumOf(ProtoIs(p), s) \in Nat /\ SumOf(Sizes, s) \in Nat
      /\ SumOf(ProtoIs(p), s \o t) = SumOf(ProtoIs(p), s) + SumOf(ProtoIs(p), t)
      /\ SumOf(Sizes, s \o t) = SumOf(Sizes, s) + SumOf(Sizes, t)
  BY <1>1, SumOfType, SumOfConcat
<1>. QED  BY <1>3, <1>4

LEMMA StatisticsEmpty ==
  ASSUME NEW p
  PROVE  Count(p, <<>>) = 0 /\ Bytes(<<>>) = 0
<1>1. <<>> \in Seq(1 .. Len(feed))
  OBVIOUS
<1>. QED  BY <1>1, CountIsSum, SumOfEmpty

-----------------------------------------------------------------------------
(* The table has the newest of those counted. *)

TopOf(ps, ns) ==
  /\ Len(ps) <= Len(ns)
  /\ \A i \in 1 .. Len(ps) : ps[i] = ns[Len(ns) + 1 - i]

(* Reverse, element by element. *)
LEMMA ReverseType ==
  ASSUME NEW S, NEW s \in Seq(S)
  PROVE  /\ Reverse(s) \in Seq(S) /\ Len(Reverse(s)) = Len(s) /\ Len(s) \in Nat
         /\ \A i \in 1 .. Len(s) : Reverse(s)[i] = s[Len(s) + 1 - i]
<1>1. Len(s) \in Nat /\ \A i \in 1 .. Len(s) : s[i] \in S
  BY SeqElements
<1>2. \A i \in 1 .. Len(s) : /\ Len(s) - i + 1 \in 1 .. Len(s)
                             /\ Len(s) - i + 1 = Len(s) + 1 - i
  BY <1>1
<1>3. /\ Reverse(s) \in [1 .. Len(s) -> S]
      /\ \A i \in 1 .. Len(s) : Reverse(s)[i] = s[Len(s) - i + 1]
  BY <1>1, <1>2 DEF Reverse
<1>4. Reverse(s) \in Seq(S) /\ Len(Reverse(s)) = Len(s)
  BY <1>1, <1>3, FunctionIsSeq
<1>. QED  BY <1>1, <1>2, <1>3, <1>4

(* To be a prefix of the reversed list, element by element. *)
LEMMA PrefixTop ==
  ASSUME NEW S, NEW ps \in Seq(S), NEW ns \in Seq(S)
  PROVE  IsPrefix(ps, Reverse(ns)) <=> TopOf(ps, ns)
<1>. DEFINE r == Reverse(ns)
            p == SubSeq(r, 1, Len(ps))
<1>1. /\ r \in Seq(S) /\ Len(r) = Len(ns) /\ Len(ns) \in Nat
      /\ \A i \in 1 .. Len(ns) : r[i] = ns[Len(ns) + 1 - i]
  BY ReverseType
<1>. HIDE DEF r
<1>2. Len(ps) \in Nat /\ SubSeq(ps, 1, Len(ps)) = ps
  BY LenProperties, SubSeqFull
<1>3. CASE Len(ps) <= Len(ns)
  <2>1. /\ p \in Seq(S) /\ Len(p) = Len(ps)
        /\ \A i \in 1 .. Len(ps) : p[i] = r[i]
    <3>0. \A i \in 1 .. Len(ps) : r[i] \in S
      <4>1. \A i \in 1 .. Len(ps) : i \in 1 .. Len(r)
        BY <1>1, <1>2, <1>3
      <4>. QED  BY <1>1, <4>1, SeqElements
    <3>1. /\ p \in Seq(S)
          /\ Len(p) = IF 1 <= Len(ps) THEN Len(ps) - 1 + 1 ELSE 0
          /\ \A i \in 1 .. Len(ps) - 1 + 1 : p[i] = r[1 + i - 1]
      BY <1>2, <3>0, SubSeqProperties
    <3>2. \A i \in 1 .. Len(ps) : i \in 1 .. Len(ps) - 1 + 1 /\ 1 + i - 1 = i
      BY <1>2
    <3>3. Len(p) = Len(ps)
      BY <1>2, <3>1
    <3>. HIDE DEF p
    <3>. QED  BY <3>1, <3>2, <3>3
  <2>. HIDE DEF p
  <2>2. \A i \in 1 .. Len(ps) : p[i] = ns[Len(ns) + 1 - i]
    <3>. TAKE i \in 1 .. Len(ps)
    <3>1. i \in 1 .. Len(ns)
      BY <1>1, <1>2, <1>3
    <3>. QED  BY <1>1, <2>1, <3>1
  <2>3. TopOf(ps, ns) => ps = p
    <3>. SUFFICES ASSUME TopOf(ps, ns) PROVE ps = p
      OBVIOUS
    <3>1. \A i \in 1 .. Len(ps) : ps[i] = p[i]
      BY <2>2 DEF TopOf
    <3>. QED  BY <2>1, <3>1, SeqEqual
  <2>4. ps = p => TopOf(ps, ns)
    BY <1>3, <2>2 DEF TopOf
  <2>5. IsPrefix(ps, r) <=> ps = p
    BY <1>1, <1>2, <1>3 DEF IsPrefix, p
  <2>. QED  BY <2>3, <2>4, <2>5 DEF r
<1>4. CASE ~(Len(ps) <= Len(ns))
  BY <1>1, <1>4 DEF IsPrefix, TopOf, r
<1>. QED  BY <1>3, <1>4

(* What comes off the queue goes on top, and what falls off is the oldest. *)
LEMMA NewestTop ==
  ASSUME NEW S, NEW ps \in Seq(S), NEW ns \in Seq(S), NEW q \in Seq(S), q # <<>>,
         TopOf(ps, ns), Len(ps) = PACKET_LIMIT \/ Len(ps) = Len(ns)
  PROVE  LET new == Newest(Reverse(q) \o ps) IN
           /\ new \in Seq(S)
           /\ TopOf(new, ns \o q)
           /\ Len(new) = PACKET_LIMIT \/ Len(new) = Len(ns \o q)
<1>. DEFINE r == Reverse(q)
            t == r \o ps
            u == ns \o q
            a == Len(q)
            b == Len(ps)
            c == Len(ns)
            k == IF Len(t) > PACKET_LIMIT THEN PACKET_LIMIT ELSE Len(t)
            new == SubSeq(t, 1, k)
<1>1. /\ r \in Seq(S) /\ Len(r) = a /\ a \in Nat /\ a # 0
      /\ \A i \in 1 .. a : r[i] = q[a + 1 - i]
  BY ReverseType, EmptySeq
<1>2. b \in Nat /\ c \in Nat /\ PACKET_LIMIT \in Nat
  BY LenProperties, DashboardAssumption
<1>. HIDE DEF r
<1>3. /\ t \in Seq(S) /\ Len(t) = a + b
      /\ \A i \in 1 .. a + b : t[i] = IF i <= a THEN r[i] ELSE ps[i - a]
  <2>0. r \in Seq(S)
    BY <1>1
  <2>1. /\ t \in Seq(S) /\ Len(t) = Len(r) + b
        /\ \A i \in 1 .. Len(r) + b : t[i] = IF i <= Len(r) THEN r[i] ELSE ps[i - Len(r)]
    BY <2>0, ConcatProperties
  <2>. HIDE DEF t
  <2>. QED  BY <1>1, <2>1
<1>4. /\ u \in Seq(S) /\ Len(u) = c + a
      /\ \A i \in 1 .. c + a : u[i] = IF i <= c THEN ns[i] ELSE q[i - c]
  BY ConcatProperties
<1>5. b <= c /\ (\A i \in 1 .. b : ps[i] = ns[c + 1 - i]) /\ (b = PACKET_LIMIT \/ b = c)
  BY DEF TopOf
<1>. HIDE DEF t, u, a, b, c
<1>6. ASSUME NEW i \in 1 .. a + b PROVE t[i] = u[c + a + 1 - i]
  <2>1. c + a + 1 - i \in 1 .. c + a
    BY <1>1, <1>2, <1>5
  <2>2. CASE i <= a
    <3>1. i \in 1 .. a /\ ~(c + a + 1 - i <= c) /\ (c + a + 1 - i) - c = a + 1 - i
      BY <1>1, <1>2, <2>2
    <3>2. t[i] = q[a + 1 - i]
      BY <1>1, <1>3, <2>2, <3>1
    <3>3. u[c + a + 1 - i] = q[(c + a + 1 - i) - c]
      BY <1>4, <2>1, <3>1
    <3>. QED  BY <3>1, <3>2, <3>3
  <2>3. CASE ~(i <= a)
    <3>1. i - a \in 1 .. b /\ c + a + 1 - i <= c /\ c + 1 - (i - a) = c + a + 1 - i
      BY <1>1, <1>2, <2>3
    <3>2. t[i] = ps[i - a]
      BY <1>3, <2>3
    <3>3. ps[i - a] = ns[c + 1 - (i - a)]
      BY <1>5, <3>1
    <3>4. u[c + a + 1 - i] = ns[c + a + 1 - i]
      BY <1>4, <2>1, <3>1
    <3>. QED  BY <3>1, <3>2, <3>3, <3>4
  <2>. QED  BY <2>2, <2>3
<1>7. k \in Nat /\ k <= a + b /\ k <= c + a /\ (k = PACKET_LIMIT \/ k = c + a)
  BY <1>1, <1>2, <1>3, <1>5
<1>. HIDE DEF k
<1>8. /\ new \in Seq(S) /\ Len(new) = k
      /\ \A i \in 1 .. k : new[i] = t[i]
  <2>0. \A i \in 1 .. k : t[i] \in S
    <3>1. \A i \in 1 .. k : i \in 1 .. Len(t)
      BY <1>1, <1>2, <1>3, <1>7
    <3>. QED  BY <1>3, <3>1, SeqElements
  <2>1. /\ new \in Seq(S)
        /\ Len(new) = IF 1 <= k THEN k - 1 + 1 ELSE 0
        /\ \A i \in 1 .. k - 1 + 1 : new[i] = t[1 + i - 1]
    BY <1>7, <2>0, SubSeqProperties
  <2>2. \A i \in 1 .. k : i \in 1 .. k - 1 + 1 /\ 1 + i - 1 = i
    BY <1>7
  <2>3. Len(new) = k
    BY <1>7, <2>1
  <2>. HIDE DEF new
  <2>. QED  BY <2>1, <2>2, <2>3
<1>9. new = Newest(Reverse(q) \o ps)
  BY DEF Newest, k, t, r
<1>. HIDE DEF new
<1>10. \A i \in 1 .. k : new[i] = u[c + a + 1 - i]
  <2>1. \A i \in 1 .. k : i \in 1 .. a + b
    BY <1>1, <1>2, <1>7
  <2>. QED  BY <1>6, <1>8, <2>1
<1>11. TopOf(new, u)
  BY <1>4, <1>7, <1>8, <1>10 DEF TopOf
<1>12. Len(new) = PACKET_LIMIT \/ Len(new) = Len(u)
  BY <1>4, <1>7, <1>8
<1>. QED  BY <1>8, <1>9, <1>11, <1>12 DEF u

-----------------------------------------------------------------------------
(* Messages broadcast stay what they are. *)

MatchingIn(fd, ps, filter) ==
  Keep(ps, {n \in ToSet(ps) : filter = "all" \/ fd[n].proto = filter})
CountIn(fd, p, ns) == Total([i \in DOMAIN ns |-> IF fd[ns[i]].proto = p THEN 1 ELSE 0])
BytesIn(fd, ns) == Total([i \in DOMAIN ns |-> fd[ns[i]].size])

(* The operators of Dashboard, with the feed as a parameter. *)
LEMMA InFeed ==
  ASSUME NEW ps, NEW filter, NEW p
  PROVE  /\ Matching(ps, filter) = MatchingIn(feed, ps, filter)
         /\ Count(p, ps) = CountIn(feed, p, ps)
         /\ Bytes(ps) = BytesIn(feed, ps)
BY DEF Matching, Matches, MatchingIn, Count, CountIn, Bytes, BytesIn

Agree(fd, gd, n) == \A i \in 1 .. n : gd[i] = fd[i]

(* Lists of old messages mean the same when the feed has grown. *)
LEMMA SameMessages ==
  ASSUME NEW n, NEW fd, NEW gd, Agree(fd, gd, n),
         NEW ps \in Seq(1 .. n), NEW filter, NEW p
  PROVE  /\ MatchingIn(gd, ps, filter) = MatchingIn(fd, ps, filter)
         /\ CountIn(gd, p, ps) = CountIn(fd, p, ps)
         /\ BytesIn(gd, ps) = BytesIn(fd, ps)
<1>1. \A i \in DOMAIN ps : ps[i] \in 1 .. n
  BY LenProperties, ElementOfSeq
<1>2. \A i \in DOMAIN ps : gd[ps[i]] = fd[ps[i]]
  BY <1>1 DEF Agree
<1>3. {i \in ToSet(ps) : filter = "all" \/ gd[i].proto = filter}
        = {i \in ToSet(ps) : filter = "all" \/ fd[i].proto = filter}
  BY <1>2 DEF ToSet
<1>4. [i \in DOMAIN ps |-> IF gd[ps[i]].proto = p THEN 1 ELSE 0]
        = [i \in DOMAIN ps |-> IF fd[ps[i]].proto = p THEN 1 ELSE 0]
  BY <1>2
<1>5. [i \in DOMAIN ps |-> gd[ps[i]].size] = [i \in DOMAIN ps |-> fd[ps[i]].size]
  BY <1>2
<1>. QED  BY <1>3, <1>4, <1>5 DEF MatchingIn, CountIn, BytesIn

FeedKept ==
  /\ Len(feed) \in Nat /\ Len(feed') \in Nat /\ Len(feed) <= Len(feed')
  /\ \A n \in 1 .. Len(feed) : feed'[n] = feed[n]

(* A broadcast is at the end of the feed. *)
LEMMA FeedKeeps ==
  ASSUME feed \in Seq(Message), feed' \in Seq(Message),
         feed' = feed \/ \E m \in Message : feed' = Append(feed, m)
  PROVE  FeedKept
<1>1. Len(feed) \in Nat
  BY LenProperties
<1>2. CASE feed' = feed
  BY <1>1, <1>2 DEF FeedKept
<1>3. CASE \E m \in Message : feed' = Append(feed, m)
  <2>1. PICK m \in Message : feed' = Append(feed, m)
    BY <1>3
  <2>2. Len(feed') = Len(feed) + 1 /\ \A n \in 1 .. Len(feed) : feed'[n] = feed[n]
    BY <2>1, AppendProperties
  <2>. QED  BY <1>1, <2>2 DEF FeedKept
<1>. QED  BY <1>2, <1>3

(* What the page has stays what it is while the feed grows. *)
LEMMA TypesStay ==
  ASSUME FeedKept, DashboardTypeOK, UNCHANGED dashboardVars
  PROVE  DashboardTypeOK'
<1>1. 0 .. Len(feed) \subseteq 0 .. Len(feed') /\ 1 .. Len(feed) \subseteq 1 .. Len(feed')
  BY DEF FeedKept
<1>2. UNCHANGED <<socket, connection, member, pos, heard, packetQueue, packets, packetCounts,
                  totalBytes, counted, activeFilter, currentPage, rows>>
  BY DEF dashboardVars, connecting, table, view
<1>3. Seq(1 .. Len(feed)) \subseteq Seq(1 .. Len(feed'))
  BY <1>1, SeqMonotonic
<1>4. pos \in [Connections -> 0 .. Len(feed')]
  BY <1>1 DEF DashboardTypeOK
<1>5. heard \subseteq 1 .. Len(feed')
  BY <1>1 DEF DashboardTypeOK
<1>6. {packetQueue, packets, rows, counted} \subseteq Seq(1 .. Len(feed'))
  BY <1>3 DEF DashboardTypeOK
<1>. QED  BY <1>2, <1>4, <1>5, <1>6 DEF DashboardTypeOK, Connections

LEMMA ViewStays ==
  ASSUME FeedKept, DashboardTypeOK, PageExists,
         UNCHANGED <<packets, activeFilter, currentPage, rows>>
  PROVE  PageExists'
<1>1. packets \in Seq(1 .. Len(feed))
  BY DEF DashboardTypeOK
<1>2. MatchingIn(feed', packets, activeFilter) = MatchingIn(feed, packets, activeFilter)
  <2>1. Agree(feed, feed', Len(feed))
    BY DEF FeedKept, Agree
  <2>. QED  BY <1>1, <2>1, SameMessages
<1>3. Matching(packets, activeFilter)' = MatchingIn(feed', packets', activeFilter')
  BY DEF Matching, Matches, MatchingIn
<1>4. Matching(packets, activeFilter)' = Matching(packets, activeFilter)
  BY <1>2, <1>3, InFeed
<1>5. Pages(Len(Matching(packets, activeFilter)))' = Pages(Len(Matching(packets, activeFilter)))
  BY <1>4 DEF Pages
<1>. QED  BY <1>4, <1>5 DEF PageExists

\* The parts of Accounted: the queue, the table and the statistics.
Queued == Lists(counted \o packetQueue, {n \in heard : ~feed[n].control})
Kept ==
  /\ IsPrefix(packets, Reverse(counted))
  /\ Len(packets) = PACKET_LIMIT \/ Len(packets) = Len(counted)
Summed ==
  /\ \A p \in Protocols : packetCounts[p] = Count(p, counted)
  /\ totalBytes = Bytes(counted)

(* Accounted, part by part. *)
LEMMA AccountedParts == Accounted <=> Queued /\ Kept /\ Summed
BY DEF Accounted, Queued, Kept, Summed

(* A broadcast changes none of it. *)
LEMMA QueueStays ==
  ASSUME FeedKept, DashboardTypeOK, Queued, UNCHANGED <<counted, packetQueue, heard>>
  PROVE  Queued'
<1>1. heard \subseteq 1 .. Len(feed)
  BY DEF DashboardTypeOK
<1>2. {n \in heard : ~feed'[n].control} = {n \in heard : ~feed[n].control}
  BY <1>1 DEF FeedKept
<1>. QED  BY <1>2 DEF Queued

LEMMA BooksStay ==
  ASSUME FeedKept, DashboardTypeOK, Kept, Summed,
         UNCHANGED <<packets, counted, packetCounts, totalBytes>>
  PROVE  Kept' /\ Summed'
<1>1. counted \in Seq(1 .. Len(feed))
  BY DEF DashboardTypeOK
<1>2. /\ \A p : CountIn(feed', p, counted) = CountIn(feed, p, counted)
      /\ BytesIn(feed', counted) = BytesIn(feed, counted)
  <2>1. Agree(feed, feed', Len(feed))
    BY DEF FeedKept, Agree
  <2>. QED  BY <1>1, <2>1, SameMessages
<1>3. Kept'
  BY DEF Kept
<1>4. /\ \A p : Count(p, counted)' = CountIn(feed', p, counted')
      /\ Bytes(counted)' = BytesIn(feed', counted')
  BY DEF Count, Bytes, CountIn, BytesIn
<1>5. /\ \A p \in Protocols : packetCounts'[p] = Count(p, counted)'
      /\ totalBytes' = Bytes(counted)'
  BY <1>2, <1>4, InFeed DEF Summed
<1>. QED  BY <1>3, <1>5 DEF Summed

-----------------------------------------------------------------------------
(* The steps of the page. *)

(* The page only reads the feed. *)
LEMMA DashboardKeepsFeed ==
  ASSUME DashboardNext
  PROVE  feed' = feed
BY DEF DashboardNext, OnOpen, OnClose, Retry, OnMessage, Render, SetFilter, NextPage, PrevPage

(* OnOpen, OnClose, Retry and OnMessage: of the books, only the queue changes. *)
LEMMA ConnectionStep ==
  ASSUME feed \in Seq(Message), DashboardTypeOK, Linked, PageExists, Accounted,
         OnOpen \/ OnClose \/ Retry \/ OnMessage
  PROVE  DashboardTypeOK' /\ Linked' /\ PageExists' /\ Accounted'
<1>. DEFINE N == 1 .. Len(feed)
<1>1. /\ feed' = feed /\ FeedKept
      /\ UNCHANGED <<packets, packetCounts, totalBytes, counted, activeFilter, currentPage, rows>>
  <2>1. feed' = feed
    BY DEF OnOpen, OnClose, Retry, OnMessage
  <2>2. FeedKept
    BY <2>1, FeedKeeps
  <2>3. UNCHANGED <<packets, packetCounts, totalBytes, counted, activeFilter, currentPage, rows>>
    BY DEF OnOpen, OnClose, Retry, OnMessage, table, view
  <2>. QED  BY <2>1, <2>2, <2>3
<1>2. counted \in Seq(N) /\ packetQueue \in Seq(N) /\ N \subseteq Nat
  BY DEF DashboardTypeOK
<1>3. packetQueue' \in Seq(N) /\ Queued'
  <2>1. CASE OnOpen \/ OnClose \/ Retry
    <3>1. packetQueue' = packetQueue /\ heard' = heard
      BY <2>1 DEF OnOpen, OnClose, Retry
    <3>2. Queued'
      BY <1>1, <3>1, QueueStays, AccountedParts
    <3>. QED  BY <1>2, <3>1, <3>2
  <2>2. CASE OnMessage
    <3>. DEFINE n == pos[connection] + 1
                q == packetQueue
    <3>1. /\ socket = "open" /\ pos[connection] < Len(feed)
          /\ heard' = heard \cup {n}
          /\ packetQueue' = IF feed[n].control THEN q ELSE Append(q, n)
      BY <2>2 DEF OnMessage, PS!Deliver
    <3>2. n \in N /\ \A m \in heard : m < n
      BY <3>1, NextIsNew
    <3>. HIDE DEF n, N
    <3>3. Append(q, n) \in Seq(N)
      BY <1>2, <3>2, AppendProperties
    <3>4. Lists(counted \o q, {m \in heard : ~feed[m].control})
      BY AccountedParts DEF Queued
    <3>5. CASE feed[n].control
      <4>1. {m \in heard' : ~feed[m].control} = {m \in heard : ~feed[m].control}
        BY <3>1, <3>5
      <4>. QED  BY <1>1, <1>2, <3>1, <3>4, <3>5, <4>1 DEF Queued
    <3>6. CASE ~feed[n].control
      <4>1. {m \in heard' : ~feed[m].control} = {m \in heard : ~feed[m].control} \cup {n}
        BY <3>1, <3>6
      <4>2. counted \o Append(q, n) = Append(counted \o q, n)
        <5>1. counted \o q \in Seq(N)
          BY <1>2, ConcatProperties
        <5>2. Append(q, n) = q \o <<n>> /\ Append(counted \o q, n) = (counted \o q) \o <<n>>
          BY <1>2, <3>2, <5>1, AppendIsConcat
        <5>3. <<n>> \in Seq(N)
          BY <3>2
        <5>4. (counted \o q) \o <<n>> = counted \o (q \o <<n>>)
          BY <1>2, <5>3, ConcatAssociative
        <5>. QED  BY <5>2, <5>4
      <4>3. Lists(Append(counted \o q, n), {m \in heard : ~feed[m].control} \cup {n})
        <5>1. counted \o q \in Seq(N)
          BY <1>2, ConcatProperties
        <5>2. counted \o q \in Seq(Nat)
          BY <1>2, <5>1, SeqMonotonic
        <5>3. n \in Nat /\ \A m \in {m \in heard : ~feed[m].control} : m < n
          BY <1>2, <3>2
        <5>. QED  BY <3>4, <5>2, <5>3, ListsAppend
      <4>4. Queued'
        BY <1>1, <3>1, <3>6, <4>1, <4>2, <4>3 DEF Queued
      <4>. QED  BY <3>1, <3>3, <3>6, <4>4
    <3>. QED  BY <3>5, <3>6
  <2>. QED  BY <2>1, <2>2
<1>4. Kept' /\ Summed'
  BY <1>1, BooksStay, AccountedParts
<1>5. PageExists'
  BY <1>1, ViewStays
<1>6. Accounted'
  BY <1>3, <1>4 DEF Accounted, Queued, Kept, Summed
<1>7. /\ Linked'
      /\ socket' \in {"closed", "connecting", "open"}
      /\ connection' \in 0 .. MaxConnections
      /\ member' \in [Connections -> {"out", "in", "left"}]
      /\ pos' \in [Connections -> 0 .. Len(feed)]
      /\ heard' \subseteq 1 .. Len(feed)
  BY LinkStep
<1>8. DashboardTypeOK'
  BY <1>1, <1>3, <1>7 DEF DashboardTypeOK, Connections
<1>. QED  BY <1>5, <1>6, <1>7, <1>8

(* Render moves the queue into the table and the statistics. *)
LEMMA RenderBooks ==
  ASSUME feed \in Seq(Message), DashboardTypeOK, Accounted, Render
  PROVE  /\ Accounted'
         /\ {packetQueue', packets', counted'} \subseteq Seq(1 .. Len(feed))
         /\ packetCounts' \in [Protocols -> Nat] /\ totalBytes' \in Nat
<1>. DEFINE N == 1 .. Len(feed)
            q == packetQueue
            c == counted
<1>1. q \in Seq(N) /\ c \in Seq(N) /\ packets \in Seq(N) /\ q # <<>>
  BY DEF DashboardTypeOK, Render
<1>2. /\ feed' = feed /\ heard' = heard /\ packetQueue' = <<>>
      /\ packets' = Newest(Reverse(q) \o packets)
      /\ packetCounts' = [p \in Protocols |-> packetCounts[p] + Count(p, q)]
      /\ totalBytes' = totalBytes + Bytes(q)
      /\ counted' = c \o q
  BY DEF Render
<1>3. Queued /\ Kept /\ Summed
  BY AccountedParts
<1>4. c \o q \in Seq(N) /\ <<>> \in Seq(N) /\ (c \o q) \o <<>> = c \o q
  BY <1>1, ConcatProperties, ConcatEmptySeq
<1>5. Queued'
  BY <1>2, <1>3, <1>4 DEF Queued
<1>6. /\ packets' \in Seq(N) /\ TopOf(packets', counted')
      /\ Len(packets') = PACKET_LIMIT \/ Len(packets') = Len(counted')
  <2>1. TopOf(packets, c) /\ (Len(packets) = PACKET_LIMIT \/ Len(packets) = Len(c))
    BY <1>1, <1>3, PrefixTop DEF Kept
  <2>. HIDE DEF N
  <2>. QED  BY <1>1, <1>2, <2>1, NewestTop
<1>7. Kept'
  <2>1. IsPrefix(packets', Reverse(counted'))
    BY <1>2, <1>4, <1>6, PrefixTop
  <2>. QED  BY <1>6, <2>1 DEF Kept
<1>8. \A p \in Protocols : /\ Count(p, c) \in Nat /\ Count(p, q) \in Nat
                           /\ Count(p, c \o q) = Count(p, c) + Count(p, q)
                           /\ packetCounts'[p] = packetCounts[p] + Count(p, q)
                           /\ packetCounts[p] = Count(p, c)
  BY <1>1, <1>2, <1>3, StatisticsAdd DEF Summed
<1>9. /\ Bytes(c) \in Nat /\ Bytes(q) \in Nat
      /\ Bytes(c \o q) = Bytes(c) + Bytes(q)
      /\ totalBytes = Bytes(c)
  BY <1>1, <1>3, StatisticsAdd DEF Summed
<1>10. Summed'
  <2>1. \A p : Count(p, counted)' = CountIn(feed, p, c \o q)
    BY <1>2 DEF Count, CountIn
  <2>2. Bytes(counted)' = BytesIn(feed, c \o q)
    BY <1>2 DEF Bytes, BytesIn
  <2>3. \A p \in Protocols : packetCounts'[p] = Count(p, counted)'
    BY <1>8, <2>1, InFeed
  <2>4. totalBytes' = Bytes(counted)'
    BY <1>2, <1>9, <2>2, InFeed
  <2>. QED  BY <2>3, <2>4 DEF Summed
<1>11. Accounted'
  BY <1>5, <1>7, <1>10 DEF Accounted, Queued, Kept, Summed
<1>12. packetCounts' \in [Protocols -> Nat] /\ totalBytes' \in Nat
  <2>1. \A p \in Protocols : packetCounts[p] + Count(p, q) \in Nat
    BY <1>8
  <2>. QED  BY <1>2, <1>9, <2>1
<1>. QED  BY <1>2, <1>4, <1>6, <1>11, <1>12

(* The actions that refresh the list. *)
LEMMA TableStep ==
  ASSUME feed \in Seq(Message), DashboardTypeOK, Linked, PageExists, Accounted,
         Render \/ SetFilter \/ NextPage \/ PrevPage
  PROVE  DashboardTypeOK' /\ Linked' /\ PageExists' /\ Accounted'
<1>1. /\ feed' = feed
      /\ UNCHANGED <<socket, connection, member, pos, heard>>
  BY DEF Render, SetFilter, NextPage, PrevPage, connecting
<1>2. Linked'
  BY <1>1 DEF Linked, Connections
<1>3. /\ Accounted'
      /\ {packetQueue', packets', counted'} \subseteq Seq(1 .. Len(feed))
      /\ packetCounts' \in [Protocols -> Nat] /\ totalBytes' \in Nat
  <2>1. CASE Render
    BY <2>1, RenderBooks
  <2>2. CASE SetFilter \/ NextPage \/ PrevPage
    <3>1. UNCHANGED <<packetQueue, packets, packetCounts, totalBytes, counted, heard>>
      BY <2>2 DEF SetFilter, NextPage, PrevPage, table
    <3>2. FeedKept
      BY <1>1, FeedKeeps
    <3>3. Queued'
      BY <3>1, <3>2, QueueStays, AccountedParts
    <3>4. Kept' /\ Summed'
      BY <3>1, <3>2, BooksStay, AccountedParts
    <3>5. Accounted'
      BY <3>3, <3>4 DEF Accounted, Queued, Kept, Summed
    <3>. QED  BY <3>1, <3>5 DEF DashboardTypeOK
  <2>. QED  BY <2>1, <2>2
<1>4. activeFilter' \in {"all"} \cup Protocols
  <2>1. CASE SetFilter
    <3>1. \A i \in DOMAIN feed : feed[i].proto \in Protocols
      BY FeedLen
    <3>. QED  BY <2>1, <3>1 DEF SetFilter
  <2>2. CASE Render \/ NextPage \/ PrevPage
    BY <2>2 DEF Render, NextPage, PrevPage, DashboardTypeOK
  <2>. QED  BY <2>1, <2>2
<1>5. \E page \in Nat \ {0} : Refresh(packets', activeFilter', page)
  <2>0. currentPage \in Nat \ {0}
    BY DEF DashboardTypeOK
  <2>1. CASE Render
    BY <2>0, <2>1 DEF Render
  <2>2. CASE SetFilter
    <3>1. packets' = packets /\ Refresh(packets, activeFilter', 1)
      BY <2>2 DEF SetFilter, table
    <3>. QED  BY <3>1
  <2>3. CASE NextPage
    <3>1. /\ packets' = packets /\ activeFilter' = activeFilter
          /\ Refresh(packets, activeFilter, currentPage + 1)
      BY <2>3 DEF NextPage, table
    <3>2. currentPage + 1 \in Nat \ {0}
      BY <2>0
    <3>. QED  BY <3>1, <3>2
  <2>4. CASE PrevPage
    <3>1. /\ packets' = packets /\ activeFilter' = activeFilter /\ currentPage > 1
          /\ Refresh(packets, activeFilter, currentPage - 1)
      BY <2>4 DEF PrevPage, table
    <3>2. currentPage - 1 \in Nat \ {0}
      BY <2>0, <3>1
    <3>. QED  BY <3>1, <3>2
  <2>. QED  BY <2>1, <2>2, <2>3, <2>4
<1>6. /\ currentPage' \in Nat \ {0}
      /\ rows' \in Seq(1 .. Len(feed))
      /\ Matching(packets', activeFilter') # <<>> =>
           /\ rows' # <<>>
           /\ currentPage' <= Pages(Len(Matching(packets', activeFilter')))
  <2>1. packets' \in Seq(1 .. Len(feed))
    BY <1>3
  <2>. QED  BY <1>5, <2>1, RefreshShows
<1>7. PageExists'
  <2>1. Matching(packets, activeFilter)' = MatchingIn(feed', packets', activeFilter')
    BY DEF Matching, Matches, MatchingIn
  <2>2. Matching(packets, activeFilter)' = Matching(packets', activeFilter')
    BY <1>1, <2>1, InFeed
  <2>3. Pages(Len(Matching(packets, activeFilter)))'
          = Pages(Len(Matching(packets', activeFilter')))
    BY <2>2 DEF Pages
  <2>. QED  BY <1>6, <2>2, <2>3 DEF PageExists
<1>8. DashboardTypeOK'
  BY <1>1, <1>3, <1>4, <1>6 DEF DashboardTypeOK, Connections
<1>. QED  BY <1>2, <1>3, <1>7, <1>8

-----------------------------------------------------------------------------
(* The two together. *)

(* What the page was told of is behind the outputs. *)
LEMMA Exported ==
  ASSUME HandlersTypeOK, Routes, InStep, PcapWhole, DashboardTypeOK
  PROVE  ShownIsExported
<1>. SUFFICES ASSUME NEW n \in heard
              PROVE  /\ "pcap" \in outputs =>
                          \E i \in DOMAIN pcap : pcap[i].packet = feed[n].packet
                     /\ "json" \in outputs =>
                          \E i \in DOMAIN logged : logged[i].packet = feed[n].packet
  BY DEF ShownIsExported
<1>. DEFINE L == [packet : 1 .. taken, ok : BOOLEAN]
            p == feed[n].packet
<1>1. /\ feed \in Seq(Message) /\ Len(feed) \in Nat /\ n \in 1 .. Len(feed)
      /\ logged \in Seq(L) /\ DOMAIN logged = 1 .. Len(logged)
      /\ DOMAIN pcap = 1 .. Len(pcap)
  BY LenProperties DEF HandlersTypeOK, DashboardTypeOK
<1>2. "feed" \in outputs
  <2>1. feed # <<>>
    BY <1>1
  <2>. QED  BY <2>1 DEF Routes
<1>3. taken \in Nat
  <2>1. traffic \in Seq(Frame) /\ taken \in 0 .. Len(traffic)
    BY HandlersAssumption DEF HandlersTypeOK
  <2>. QED  BY <2>1, LenProperties
<1>4. \A e \in L : e.packet \in Nat
  BY <1>3
<1>5. \A e \in Message : e.packet \in Nat
  BY DEF Message
<1>6. p \in VisibleUpTo(FedUpTo)
  <2>1. /\ Packets(feed) \in Seq(Nat) /\ Len(Packets(feed)) = Len(feed)
        /\ Packets(feed)[n] = p
    BY <1>1, <1>5, PacketsType
  <2>2. n \in DOMAIN Packets(feed)
    BY <1>1, <2>1, LenProperties
  <2>3. Lists(Packets(feed), VisibleUpTo(FedUpTo))
    BY <1>2, InStepUpTo
  <2>. QED  BY <2>1, <2>2, <2>3 DEF Lists
<1>7. ASSUME "pcap" \in outputs
      PROVE  \E i \in DOMAIN pcap : pcap[i].packet = p
  <2>1. p \in 1 .. (IF pc = "pcap_header" THEN taken - 1 ELSE taken)
    BY <1>3, <1>6 DEF VisibleUpTo, FedUpTo
  <2>2. PICK i \in 1 .. Len(pcap) : pcap[i].packet = p
    BY <1>7, <2>1 DEF PcapWhole
  <2>. QED  BY <1>1, <2>2
<1>8. ASSUME "json" \in outputs
      PROVE  \E i \in DOMAIN logged : logged[i].packet = p
  <2>1. p \in VisibleUpTo(LoggedUpTo)
    BY <1>3, <1>6 DEF VisibleUpTo, FedUpTo, LoggedUpTo
  <2>2. Lists(Packets(logged), VisibleUpTo(LoggedUpTo))
    BY <1>8, InStepUpTo
  <2>3. PICK i \in DOMAIN Packets(logged) : Packets(logged)[i] = p
    BY <2>1, <2>2 DEF Lists
  <2>4. /\ Packets(logged) \in Seq(Nat) /\ Len(Packets(logged)) = Len(logged)
        /\ \A j \in 1 .. Len(logged) : Packets(logged)[j] = logged[j].packet
    <3>. HIDE DEF L
    <3>. QED  BY <1>1, <1>4, PacketsType
  <2>5. i \in 1 .. Len(logged)
    BY <2>3, <2>4, LenProperties
  <2>. QED  BY <1>1, <2>3, <2>4, <2>5
<1>. QED  BY <1>7, <1>8

\* The inductive invariant: what the runs check, and what it takes to keep it.
NetZerInv ==
  /\ HandlersTypeOK /\ Routes /\ InStep /\ PcapWhole /\ JsonWhole
  /\ DashboardTypeOK /\ Linked /\ PageExists /\ Accounted

LEMMA InitAccounted ==
  ASSUME DashboardInit
  PROVE  Accounted
<1>1. /\ counted = <<>> /\ packetQueue = <<>> /\ packets = <<>> /\ heard = {}
      /\ packetCounts = [p \in Protocols |-> 0] /\ totalBytes = 0
  BY DEF DashboardInit
<1>2. <<>> \in Seq({}) /\ Len(<<>>) = 0 /\ <<>> \o <<>> = <<>>
  OBVIOUS
<1>3. Lists(<<>>, {})
  BY DEF Lists
<1>4. {n \in heard : ~feed[n].control} = {}
  BY <1>1
<1>5. Queued
  BY <1>1, <1>2, <1>3, <1>4 DEF Queued
<1>6. Kept
  <2>1. TopOf(<<>>, <<>>)
    BY DEF TopOf
  <2>2. IsPrefix(<<>>, Reverse(<<>>))
    BY <1>2, <2>1, PrefixTop
  <2>. QED  BY <1>1, <2>2 DEF Kept
<1>7. Summed
  BY <1>1, StatisticsEmpty DEF Summed
<1>. QED  BY <1>5, <1>6, <1>7, AccountedParts

(* NetZerInv is inductive. *)
LEMMA InitNetZer == Init => NetZerInv
<1>. SUFFICES ASSUME HandlersInit, DashboardInit PROVE NetZerInv
  BY DEF Init
<1>1. feed = <<>>
  BY DEF HandlersInit
<1>. QED  BY <1>1, InitHandlers, InitInStep, InitPcapWhole, InitJsonWhole, InitDashboard,
             InitAccounted DEF NetZerInv

LEMMA HandlersTypes ==
  ASSUME HandlersTypeOK, Routes, HandlersNext
  PROVE  HandlersTypeOK' /\ Routes'
BY CaptureTypes, PcapTypes, DissectTypes, JsonTypes, BroadcastTypes DEF HandlersNext

(* Steps of the handlers, while the page stands still but the feed may grow. *)
LEMMA HandlersStep ==
  ASSUME NetZerInv, HandlersNext, UNCHANGED dashboardVars
  PROVE  NetZerInv'
<1>1. HandlersTypeOK' /\ Routes' /\ InStep' /\ PcapWhole' /\ JsonWhole'
  BY HandlersTypes, HandlersInStep, HandlersPcapWhole, HandlersJsonWhole DEF NetZerInv
<1>2. feed \in Seq(Message) /\ feed' \in Seq(Message)
  BY <1>1 DEF NetZerInv, HandlersTypeOK
<1>3. feed' = feed \/ \E m \in Message : feed' = Append(feed, m)
  <2>1. CASE Capture \/ WritePcapHeader \/ WritePcapData \/ Dissect \/ WriteJson
    BY <2>1 DEF Capture, WritePcapHeader, WritePcapData, Dissect, WriteJson
  <2>2. CASE BroadcastMessage
    <3>1. pc = "broadcast" /\ feed' = Append(feed, MessageOf(taken, traffic[taken]))
      BY <2>2 DEF BroadcastMessage
    <3>2. taken >= 1 /\ Visible(taken)
      BY <3>1 DEF NetZerInv, Routes
    <3>3. MessageOf(taken, traffic[taken]) \in Message
      BY <3>2, TakenFrame, MessageType DEF NetZerInv, Visible
    <3>. QED  BY <3>1, <3>3
  <2>. QED  BY <2>1, <2>2 DEF HandlersNext
<1>4. FeedKept
  BY <1>2, <1>3, FeedKeeps
<1>5. UNCHANGED <<socket, connection, member, pos, heard, packetQueue, packets, packetCounts,
                  totalBytes, counted, activeFilter, currentPage, rows>>
  BY DEF dashboardVars, connecting, table, view
<1>6. DashboardTypeOK'
  BY <1>4, TypesStay DEF NetZerInv
<1>7. Linked'
  BY <1>5 DEF NetZerInv, Linked, Connections
<1>8. PageExists'
  BY <1>4, <1>5, ViewStays DEF NetZerInv
<1>9. Accounted'
  <2>1. Queued'
    BY <1>4, <1>5, QueueStays, AccountedParts DEF NetZerInv
  <2>2. Kept' /\ Summed'
    BY <1>4, <1>5, BooksStay, AccountedParts DEF NetZerInv
  <2>. QED  BY <2>1, <2>2 DEF Accounted, Queued, Kept, Summed
<1>. QED  BY <1>1, <1>6, <1>7, <1>8, <1>9 DEF NetZerInv

(* The handlers see nothing of the page. *)
LEMMA HandlersStay ==
  ASSUME HandlersTypeOK, Routes, InStep, PcapWhole, JsonWhole,
         feed' = feed, UNCHANGED handlerVars
  PROVE  HandlersTypeOK' /\ Routes' /\ InStep' /\ PcapWhole' /\ JsonWhole'
<1>1. UNCHANGED <<traffic, outputs, taken, pc, tracked, pcap, json, logged, faults>>
  BY DEF handlerVars, files
<1>2. HandlersTypeOK'
  BY <1>1 DEF HandlersTypeOK
<1>3. Routes'
  BY <1>1 DEF Routes, Visible
<1>4. InStep'
  BY <1>1 DEF InStep, Printed, VisibleUpTo, Visible
<1>5. PcapWhole'
  BY <1>1 DEF PcapWhole, PcapEnd
<1>6. JsonWhole'
  BY <1>1 DEF JsonWhole, Whole
<1>. QED  BY <1>2, <1>3, <1>4, <1>5, <1>6

(* Steps of the page, while the handlers stand still. *)
LEMMA DashboardStep ==
  ASSUME NetZerInv, DashboardNext, UNCHANGED handlerVars
  PROVE  NetZerInv'
<1>1. feed \in Seq(Message)
  BY DEF NetZerInv, HandlersTypeOK
<1>2. HandlersTypeOK' /\ Routes' /\ InStep' /\ PcapWhole' /\ JsonWhole'
  BY DashboardKeepsFeed, HandlersStay DEF NetZerInv
<1>3. DashboardTypeOK' /\ Linked' /\ PageExists' /\ Accounted'
  <2>1. CASE OnOpen \/ OnClose \/ Retry \/ OnMessage
    BY <1>1, <2>1, ConnectionStep DEF NetZerInv
  <2>2. CASE Render \/ SetFilter \/ NextPage \/ PrevPage
    BY <1>1, <2>2, TableStep DEF NetZerInv
  <2>. QED  BY <2>1, <2>2 DEF DashboardNext
<1>. QED  BY <1>2, <1>3 DEF NetZerInv

LEMMA Stutters ==
  ASSUME NetZerInv, UNCHANGED vars
  PROVE  NetZerInv'
<1>1. feed' = feed /\ UNCHANGED handlerVars /\ UNCHANGED dashboardVars
  BY DEF vars
<1>2. HandlersTypeOK' /\ Routes' /\ InStep' /\ PcapWhole' /\ JsonWhole'
  BY <1>1, HandlersStay DEF NetZerInv
<1>3. UNCHANGED <<socket, connection, member, pos, heard, packetQueue, packets, packetCounts,
                  totalBytes, counted, activeFilter, currentPage, rows>>
  BY <1>1 DEF dashboardVars, connecting, table, view
<1>4. FeedKept
  <2>1. feed \in Seq(Message)
    BY DEF NetZerInv, HandlersTypeOK
  <2>. QED  BY <1>1, <2>1, FeedKeeps
<1>5. DashboardTypeOK' /\ Linked' /\ PageExists'
  BY <1>1, <1>3, <1>4, TypesStay, ViewStays DEF NetZerInv, Linked, Connections
<1>6. Accounted'
  <2>1. Queued'
    BY <1>3, <1>4, QueueStays, AccountedParts DEF NetZerInv
  <2>2. Kept' /\ Summed'
    BY <1>3, <1>4, BooksStay, AccountedParts DEF NetZerInv
  <2>. QED  BY <2>1, <2>2 DEF Accounted, Queued, Kept, Summed
<1>. QED  BY <1>2, <1>5, <1>6 DEF NetZerInv

(* NetZerInv holds in every reachable state of handlers and page together. *)
THEOREM NetZerInvariant == Spec => []NetZerInv
<1>1. NetZerInv /\ [Next]_vars => NetZerInv'
  BY HandlersStep, DashboardStep, Stutters DEF Next
<1>. QED  BY <1>1, InitNetZer, PTL DEF Spec

(* Every variable has its type: the outputs refer to packets captured, the page to
   messages broadcast (main.rs:541, index.html:1191). *)
THEOREM NetZerTypes == Spec => []TypeOK
<1>1. NetZerInv => TypeOK
  BY DEF NetZerInv, TypeOK
<1>. QED  BY <1>1, NetZerInvariant, PTL

(* Whatever writes fail and wherever the program stops or panics, log, feed and tracker
   have been given the packets they should have, once and in order (main.rs:289, :311,
   :589). *)
THEOREM OutputsInStep == Spec => []InStep
<1>1. NetZerInv => InStep
  BY DEF NetZerInv
<1>. QED  BY <1>1, NetZerInvariant, PTL

(* Up to the first write that fails the pcap file is a header and the data of each frame
   captured, in order, and none is missing (main.rs:552). *)
THEOREM PcapIsFaithful == Spec => []PcapFaithful
<1>1. NetZerInv => PcapFaithful
  BY PcapFaithfulFollows DEF NetZerInv
<1>. QED  BY <1>1, NetZerInvariant, PTL

(* A failed write spoils its line and the next one, a line break its own line, and none
   any other (main.rs:175, :134). *)
THEOREM JsonDamageIsBounded == Spec => []JsonDamageBounded
<1>1. NetZerInv => JsonDamageBounded
  BY JsonDamageFollows DEF NetZerInv
<1>. QED  BY <1>1, NetZerInvariant, PTL

(* The capture ends at an empty TLS record or a wide name that is too long, and at no
   other frame (main.rs:171, tls.rs:28). *)
THEOREM PanicsAreOfWideNames == Spec => []OnlyWideNamesPanic
<1>1. NetZerInv => OnlyWideNamesPanic
  BY OnlyWideNames DEF NetZerInv
<1>. QED  BY <1>1, NetZerInvariant, PTL

(* While something matches, a page that exists is shown, and something is on it
   (index.html:1590). *)
THEOREM PageIsThere == Spec => []PageExists
<1>1. NetZerInv => PageExists
  BY DEF NetZerInv
<1>. QED  BY <1>1, NetZerInvariant, PTL

(* Each message received that is JSON is counted once or queued, in the order of the
   feed; the table has the newest, the statistics all of those counted
   (index.html:1325, :1356). *)
THEOREM AllAccounted == Spec => []Accounted
<1>1. NetZerInv => Accounted
  BY DEF NetZerInv
<1>. QED  BY <1>1, NetZerInvariant, PTL

(* What the page was told of is in the pcap file and past the JSON file (main.rs:552,
   :589). *)
THEOREM ShownExported == Spec => []ShownIsExported
<1>1. NetZerInv => ShownIsExported
  BY Exported DEF NetZerInv
<1>. QED  BY <1>1, NetZerInvariant, PTL

=============================================================================
