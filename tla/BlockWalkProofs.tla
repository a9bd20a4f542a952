-------------------------- MODULE BlockWalkProofs ---------------------------
(***************************************************************************)
(* Proofs about BlockWalk: for a block of any size with any contents, the  *)
(* slices made of the mapping stay inside the block, and for one laid out  *)
(* by the kernel they are its frames.                                      *)
(***************************************************************************)
EXTENDS BlockWalk, SequenceTheorems, TLAPS

(* A header is a header, whether the kernel wrote it or it is a leftover. *)
LEMMA ReadType ==
  ASSUME block \in Blocks, NEW o, NEW h \in Read(o)
  PROVE  h \in Tpacket3Hdr
BY WalkAssumption DEF Read

(* At most one slice, and that one is inside the block. *)
LEMMA SliceInBlock ==
  ASSUME pkt_offset \in Nat, NEW h \in Tpacket3Hdr
  PROVE  /\ Slice(h) \in Seq([start : Nat, len : Nat])
         /\ \A i \in 1 .. Len(Slice(h)) :
              /\ Slice(h)[i].len > 0
              /\ Slice(h)[i].start + Slice(h)[i].len <= BLOCK_SIZE
<1>0. h.tp_mac \in Nat /\ h.tp_snaplen \in Nat
  BY DEF Tpacket3Hdr
<1>1. CASE pkt_offset + h.tp_mac + h.tp_snaplen <= BLOCK_SIZE /\ h.tp_snaplen > 0
  <2>1. Slice(h) = <<[start |-> pkt_offset + h.tp_mac, len |-> h.tp_snaplen]>>
    BY <1>1 DEF Slice
  <2>2. [start |-> pkt_offset + h.tp_mac, len |-> h.tp_snaplen] \in [start : Nat, len : Nat]
    BY <1>0
  <2>. QED  BY <1>0, <1>1, <2>1, <2>2
<1>2. CASE ~(pkt_offset + h.tp_mac + h.tp_snaplen <= BLOCK_SIZE /\ h.tp_snaplen > 0)
  <2>1. Slice(h) = <<>>
    BY <1>2 DEF Slice
  <2>. QED  BY <2>1
<1>. QED  BY <1>1, <1>2

LEMMA WalkType ==
  ASSUME TypeOK, [Next]_vars
  PROVE  TypeOK'
<1>0. block \in Blocks /\ block.num_pkts \in Nat /\ count \in Nat
      /\ count <= block.num_pkts /\ pkt_offset \in Nat
  BY WalkAssumption DEF TypeOK
<1>1. CASE Visit
  <2>1. PICK h \in Read(pkt_offset) :
          /\ slices' = slices \o Slice(h)
          /\ count' = count + 1
          /\ IF h.tp_next_offset = 0
               THEN pc' = "done" /\ UNCHANGED pkt_offset
               ELSE pkt_offset' = pkt_offset + h.tp_next_offset /\ UNCHANGED pc
    BY <1>1 DEF Visit
  <2>2. h \in Tpacket3Hdr
    BY <1>0, <2>1, ReadType
  <2>3. pkt_offset' \in Nat /\ pc' \in {"walk", "done"}
    BY <1>0, <2>1, <2>2 DEF TypeOK, Tpacket3Hdr
  <2>4. count' \in 0 .. block.num_pkts /\ block' = block
    BY <1>0, <1>1, <2>1 DEF Visit
  <2>5. slices' \in Seq([start : Nat, len : Nat])
    BY <1>0, <2>1, <2>2, SliceInBlock DEF TypeOK
  <2>. QED  BY <1>0, <2>3, <2>4, <2>5 DEF TypeOK
<1>2. CASE Stop
  BY <1>2 DEF Stop, TypeOK
<1>3. CASE UNCHANGED vars
  BY <1>3 DEF vars, TypeOK
<1>. QED  BY <1>1, <1>2, <1>3 DEF Next

(* Every variable keeps its type, and the loop of recv_block takes at most
   num_pkts turns, for any headers. *)
THEOREM WalkTypeCorrect == Spec => []TypeOK
<1>1. Init => TypeOK
  BY WalkAssumption DEF Init, TypeOK
<1>2. TypeOK /\ [Next]_vars => TypeOK'
  BY WalkType
<1>. QED  BY <1>1, <1>2, PTL DEF Spec

(* No slice recv_block makes with from_raw_parts reaches outside its block, for
   any size of block and any values of the headers it reads. *)
THEOREM SlicesStayInBlock == Spec => []SlicesInBlock
<1>1. Init => SlicesInBlock
  BY DEF Init, SlicesInBlock
<1>2. TypeOK /\ SlicesInBlock /\ [Next]_vars => SlicesInBlock'
  <2>. SUFFICES ASSUME TypeOK, SlicesInBlock, [Next]_vars PROVE SlicesInBlock'
    OBVIOUS
  <2>1. CASE Visit
    <3>1. PICK h \in Read(pkt_offset) : slices' = slices \o Slice(h)
      BY <2>1 DEF Visit
    <3>2. h \in Tpacket3Hdr /\ pkt_offset \in Nat /\ slices \in Seq([start : Nat, len : Nat])
      BY <3>1, ReadType DEF TypeOK
    <3>3. /\ Slice(h) \in Seq([start : Nat, len : Nat])
          /\ \A i \in 1 .. Len(Slice(h)) :
               /\ Slice(h)[i].len > 0
               /\ Slice(h)[i].start + Slice(h)[i].len <= BLOCK_SIZE
      BY <3>2, SliceInBlock
    <3>4. ASSUME NEW i \in 1 .. Len(slices')
          PROVE  slices'[i].len > 0 /\ slices'[i].start + slices'[i].len <= BLOCK_SIZE
      <4>1. CASE i \in 1 .. Len(slices)
        <5>1. slices'[i] = slices[i]
          BY <3>1, <3>2, <3>3, <4>1
        <5>. QED  BY <4>1, <5>1 DEF SlicesInBlock
      <4>2. CASE i \notin 1 .. Len(slices)
        <5>1. /\ i - Len(slices) \in 1 .. Len(Slice(h))
              /\ slices'[i] = Slice(h)[i - Len(slices)]
          BY <3>1, <3>2, <3>3, <4>2
        <5>. QED  BY <3>3, <5>1
      <4>. QED  BY <4>1, <4>2
    <3>. QED  BY <3>4 DEF SlicesInBlock
  <2>2. CASE Stop \/ UNCHANGED vars
    BY <2>2 DEF Stop, vars, SlicesInBlock
  <2>. QED  BY <2>1, <2>2 DEF Next
<1>. QED  BY <1>1, <1>2, WalkTypeCorrect, PTL DEF Spec

-----------------------------------------------------------------------------
(* Blocks laid out by the kernel: after each turn the walk is at the header of
   the next frame, and has shown those in front of it. *)

AtHeader(at) ==
  /\ LaidOut(block, at)
  /\ at \in [1 .. Len(block.frames) -> DOMAIN block.headers]
  /\ Len(slices) = count
  /\ \A i \in 1 .. count : slices[i] = block.frames[i]
  /\ pc = "walk" => count < Len(block.frames) /\ pkt_offset = at[count + 1]
  /\ pc = "done" => count = Len(block.frames)

Places == [1 .. Len(block.frames) -> DOMAIN block.headers]

Progress == block.laid_out => \E at \in Places : AtHeader(at)

(* What is known of a block that has been laid out. *)
LEMMA BlockFacts ==
  ASSUME TypeOK, NEW at \in Places, LaidOut(block, at)
  PROVE  /\ block.frames \in Seq([start : Nat, len : Nat])
         /\ Len(block.frames) \in Nat \ {0} /\ block.num_pkts = Len(block.frames)
         /\ \A i \in 1 .. Len(block.frames) :
              /\ at[i] \in Nat /\ at[i] \in DOMAIN block.headers
              /\ block.headers[at[i]] \in Tpacket3Hdr
<1>1. block \in Blocks
  BY DEF TypeOK
<1>2. block.frames \in Seq([start : Nat, len : Nat])
  BY <1>1, WalkAssumption
<1>3. block.frames # <<>> /\ block.num_pkts = Len(block.frames)
  BY DEF LaidOut
<1>4. Len(block.frames) \in Nat \ {0}
  BY <1>2, <1>3, EmptySeq
<1>5. ASSUME NEW i \in 1 .. Len(block.frames)
      PROVE  /\ at[i] \in Nat /\ at[i] \in DOMAIN block.headers
             /\ block.headers[at[i]] \in Tpacket3Hdr
  <2>1. at[i] \in DOMAIN block.headers
    BY DEF Places
  <2>2. at[i] \in Nat
    BY DEF LaidOut
  <2>. QED  BY <1>1, <2>1, <2>2, WalkAssumption
<1>. QED  BY <1>2, <1>3, <1>4, <1>5

LEMMA InitProgress == Init => Progress
<1>. SUFFICES ASSUME Init, block.laid_out PROVE \E at \in Places : AtHeader(at)
  BY DEF Progress
<1>0. TypeOK
  BY WalkAssumption DEF Init, TypeOK
<1>1. PICK at \in Places : LaidOut(block, at)
  BY <1>0, WalkAssumption DEF TypeOK, Places
<1>2. Len(block.frames) \in Nat \ {0}
  BY <1>0, <1>1, BlockFacts
<1>3. count = 0 /\ slices = <<>> /\ pc = "walk" /\ pkt_offset = at[1]
  BY <1>1 DEF Init, LaidOut
<1>4. Len(slices) = 0 /\ 0 + 1 = 1
  BY <1>3
<1>5. AtHeader(at)
  BY <1>1, <1>2, <1>3, <1>4 DEF AtHeader, Places
<1>. QED  BY <1>5

(* A turn shows the frame of the header it is at, and goes on to the next. *)
LEMMA VisitProgress ==
  ASSUME TypeOK, NEW at \in Places, AtHeader(at), Visit
  PROVE  AtHeader(at)'
<1>. DEFINE n == Len(block.frames)
            o == at[count + 1]
            f == block.frames[count + 1]
<1>0. /\ LaidOut(block, at) /\ pc = "walk" /\ count < n /\ pkt_offset = o
      /\ Len(slices) = count /\ \A i \in 1 .. count : slices[i] = block.frames[i]
      /\ block' = block
  BY DEF AtHeader, Visit
<1>1. /\ n \in Nat \ {0} /\ count \in Nat /\ count + 1 \in 1 .. n
      /\ slices \in Seq([start : Nat, len : Nat])
      /\ o \in Nat /\ o \in DOMAIN block.headers /\ block.headers[o] \in Tpacket3Hdr
      /\ f \in [start : Nat, len : Nat]
  <2>1. count \in Nat /\ slices \in Seq([start : Nat, len : Nat])
    BY WalkAssumption DEF TypeOK
  <2>2. /\ block.frames \in Seq([start : Nat, len : Nat]) /\ n \in Nat \ {0}
        /\ \A i \in 1 .. n : /\ at[i] \in Nat /\ at[i] \in DOMAIN block.headers
                            /\ block.headers[at[i]] \in Tpacket3Hdr
    BY <1>0, BlockFacts
  <2>3. count + 1 \in 1 .. n
    BY <1>0, <2>1, <2>2
  <2>. QED  BY <2>1, <2>2, <2>3, ElementOfSeq
<1>. DEFINE h == block.headers[o]
<1>2. /\ f = [start |-> o + h.tp_mac, len |-> h.tp_snaplen]
      /\ f.len > 0 /\ f.start + f.len <= BLOCK_SIZE
      /\ \A j \in (count + 1) + 1 .. n : f.start + f.len <= at[j]
      /\ h.tp_next_offset = IF count + 1 < n THEN at[(count + 1) + 1] - o ELSE 0
  BY <1>0, <1>1 DEF LaidOut
<1>3. h.tp_mac \in Nat /\ h.tp_snaplen \in Nat
  BY <1>1 DEF Tpacket3Hdr
<1>. HIDE DEF h, o, f, n
<1>4. Slice(h) = <<f>>
  BY <1>0, <1>2, <1>3 DEF Slice
<1>5. /\ slices' = slices \o Slice(h) /\ count' = count + 1
      /\ IF h.tp_next_offset = 0
           THEN pc' = "done" /\ UNCHANGED pkt_offset
           ELSE pkt_offset' = pkt_offset + h.tp_next_offset /\ UNCHANGED pc
  <2>1. Read(pkt_offset) = {h}
    BY <1>0, <1>1 DEF Read, h
  <2>. QED  BY <2>1 DEF Visit
<1>6. /\ Len(slices') = count + 1 /\ slices'[count + 1] = f
      /\ \A i \in 1 .. count : slices'[i] = slices[i]
  BY <1>0, <1>1, <1>4, <1>5
<1>7. \A i \in 1 .. count' : slices'[i] = block.frames[i]
  <2>1. \A i \in 1 .. count + 1 : i \in 1 .. count \/ i = count + 1
    BY <1>1
  <2>. QED  BY <1>0, <1>5, <1>6, <2>1 DEF f
<1>8. CASE count + 1 < n
  <2>1. (count + 1) + 1 \in 1 .. n /\ (count + 1) + 1 \in (count + 1) + 1 .. n
    BY <1>1, <1>8
  <2>2. at[(count + 1) + 1] \in Nat
    BY <1>0, <2>1, BlockFacts DEF n
  <2>3. f.start >= o
    BY <1>1, <1>2, <1>3
  <2>4. f.start \in Nat /\ f.len \in Nat
    BY <1>1
  <2>5. h.tp_next_offset = at[(count + 1) + 1] - o /\ at[(count + 1) + 1] > o
    BY <1>1, <1>2, <1>8, <2>1, <2>2, <2>3, <2>4
  <2>6. pc' = "walk" /\ pkt_offset' = at[count' + 1]
    BY <1>0, <1>1, <1>5, <2>2, <2>5
  <2>. QED  BY <1>0, <1>5, <1>6, <1>7, <1>8, <2>6 DEF AtHeader, n, Places
<1>9. CASE ~(count + 1 < n)
  <2>1. h.tp_next_offset = 0 /\ count + 1 = n
    BY <1>1, <1>2, <1>9
  <2>2. pc' = "done"
    BY <1>5, <2>1
  <2>. QED  BY <1>0, <1>5, <1>6, <1>7, <2>1, <2>2 DEF AtHeader, n, Places
<1>. QED  BY <1>8, <1>9

LEMMA StepProgress ==
  ASSUME TypeOK, Progress, [Next]_vars
  PROVE  Progress'
<1>. SUFFICES ASSUME block'.laid_out PROVE \E at \in Places' : AtHeader(at)'
  BY DEF Progress
<1>0. block' = block /\ Places' = Places
  BY DEF Next, Visit, Stop, vars, Places
<1>1. PICK at \in Places : AtHeader(at)
  BY <1>0 DEF Progress
<1>2. CASE Visit
  BY <1>0, <1>1, <1>2, VisitProgress
<1>3. ~Stop
  <2>1. SUFFICES ASSUME Stop PROVE FALSE
    OBVIOUS
  <2>2. count < Len(block.frames) /\ pkt_offset = at[count + 1] /\ LaidOut(block, at)
    BY <1>1, <2>1 DEF AtHeader, Stop
  <2>3. count \in Nat /\ Len(block.frames) \in Nat /\ block.num_pkts = Len(block.frames)
    BY <1>1, <2>2, BlockFacts, WalkAssumption DEF TypeOK
  <2>4. count + 1 \in 1 .. Len(block.frames) /\ count # block.num_pkts
    BY <2>2, <2>3
  <2>5. at[count + 1] \in Nat /\ at[count + 1] + HDR_SIZE <= BLOCK_SIZE
    BY <2>2, <2>4 DEF LaidOut
  <2>. QED  BY <2>1, <2>2, <2>4, <2>5, WalkAssumption DEF Stop
<1>4. CASE UNCHANGED vars
  BY <1>0, <1>1, <1>4 DEF vars, AtHeader
<1>. QED  BY <1>2, <1>3, <1>4 DEF Next

LEMMA AlwaysProgress == Spec => [](TypeOK /\ Progress)
BY InitProgress, StepProgress, WalkTypeCorrect, PTL DEF Spec

(* A block laid out by the kernel is walked to its end, whatever the number and
   the lengths of its frames: the callback gets each of them (socket.rs:435). *)
THEOREM LaidOutBlocksWalked == Spec => []WalkComplete
<1>1. ASSUME TypeOK, Progress PROVE WalkComplete
  <2>. SUFFICES ASSUME block.laid_out, pc = "done" PROVE slices = block.frames
    BY DEF WalkComplete
  <2>1. PICK at \in Places : AtHeader(at)
    BY <1>1 DEF Progress
  <2>2. /\ Len(slices) = Len(block.frames)
        /\ \A i \in 1 .. Len(block.frames) : slices[i] = block.frames[i]
    BY <2>1 DEF AtHeader
  <2>3. /\ slices \in Seq([start : Nat, len : Nat])
        /\ block.frames \in Seq([start : Nat, len : Nat])
    BY <1>1, <2>1, BlockFacts DEF TypeOK, AtHeader
  <2>. QED  BY <2>2, <2>3, SeqEqual
<1>. QED  BY <1>1, AlwaysProgress, PTL

(* At no point of the walk do two slices of such a block overlap, and they come
   in the order of the block. *)
THEOREM SlicesNeverOverlap == Spec => []SlicesDisjoint
<1>1. ASSUME TypeOK, Progress PROVE SlicesDisjoint
  <2>. SUFFICES ASSUME block.laid_out,
                       NEW i \in 1 .. Len(slices), NEW j \in 1 .. Len(slices), i < j
                PROVE  slices[i].start + slices[i].len <= slices[j].start
    BY DEF SlicesDisjoint
  <2>1. PICK at \in Places : AtHeader(at)
    BY <1>1 DEF Progress
  <2>2. LaidOut(block, at) /\ Len(slices) = count
    BY <2>1 DEF AtHeader
  <2>3. count \in Nat /\ Len(block.frames) \in Nat /\ count <= Len(block.frames)
    BY <1>1, <2>1, <2>2, BlockFacts, WalkAssumption DEF TypeOK
  <2>4. /\ i \in 1 .. Len(block.frames) /\ j \in 1 .. Len(block.frames)
        /\ j \in i + 1 .. Len(block.frames)
    BY <2>2, <2>3
  <2>5. slices[i] = block.frames[i] /\ slices[j] = block.frames[j]
    BY <2>1, <2>2 DEF AtHeader
  <2>6. block.frames[i].start + block.frames[i].len <= at[j]
    BY <2>2, <2>4 DEF LaidOut
  <2>7. /\ block.frames[j] = [start |-> at[j] + block.headers[at[j]].tp_mac,
                             len |-> block.headers[at[j]].tp_snaplen]
        /\ at[j] \in Nat
    BY <2>2, <2>4 DEF LaidOut
  <2>8. block.headers[at[j]].tp_mac \in Nat
    BY <1>1, <2>2, <2>4, BlockFacts DEF Tpacket3Hdr
  <2>9. /\ block.frames[i] \in [start : Nat, len : Nat]
        /\ block.frames[j].start >= at[j] /\ block.frames[j].start \in Nat
    <3>1. block.frames \in Seq([start : Nat, len : Nat])
      BY <1>1, <2>2, BlockFacts
    <3>2. block.frames[i] \in [start : Nat, len : Nat]
      BY <2>4, <3>1, ElementOfSeq
    <3>3. block.frames[j].start = at[j] + block.headers[at[j]].tp_mac
      BY <2>7
    <3>. QED  BY <2>7, <2>8, <3>2, <3>3
  <2>. QED  BY <2>5, <2>6, <2>7, <2>9
<1>. QED  BY <1>1, AlwaysProgress, PTL

=============================================================================
