----------------------------- MODULE BlockWalk ------------------------------
(***************************************************************************)
(* The inside of a ring block: how recv_block (src/netzer-socket/src/      *)
(* socket.rs) finds the frames of a block it owns.  The kernel (external)  *)
(* lays headers and frames out behind one another; the walk follows        *)
(* tp_next_offset and hands slices of the mapping to the callback.         *)
(* RingSocket takes the result for granted: a block is its frames, in      *)
(* order.  Offsets are usize, 64 bits wide: sums of u32 do not overflow.   *)
(***************************************************************************)
EXTENDS Integers, Sequences

CONSTANTS
  BLOCK_SIZE,   \* bytes of a block (4 MiB in the code)
  HDR_SIZE,     \* size_of::<Tpacket3Hdr>()
  Headers,      \* [tp_mac, tp_snaplen, tp_next_offset] records
  Blocks        \* blocks the walk may be given

Tpacket3Hdr == [tp_mac : Nat, tp_snaplen : Nat, tp_next_offset : Nat]

\* How the kernel lays out the frames of a block: at[i] is where the header of the
\* i-th is.  Each frame is in the block behind its header and in front of the next
\* one, and the headers are linked, up to the last.
LaidOut(b, at) ==
  /\ b.num_pkts = Len(b.frames) /\ b.frames # <<>>
  /\ at[1] = b.offset_to_first_pkt
  /\ \A i \in 1 .. Len(b.frames) :
       LET h == b.headers[at[i]]
           f == b.frames[i]
       IN /\ at[i] \in Nat /\ at[i] + HDR_SIZE <= BLOCK_SIZE
          /\ f = [start |-> at[i] + h.tp_mac, len |-> h.tp_snaplen]
          /\ f.len > 0 /\ f.start + f.len <= BLOCK_SIZE
          /\ \A j \in i + 1 .. Len(b.frames) : f.start + f.len <= at[j]
          /\ h.tp_next_offset = IF i < Len(b.frames) THEN at[i + 1] - at[i] ELSE 0

ASSUME WalkAssumption ==
  /\ BLOCK_SIZE \in Nat
  /\ HDR_SIZE \in Nat
  /\ Headers \subseteq Tpacket3Hdr
  /\ \A b \in Blocks :
       /\ b.num_pkts \in Nat /\ b.offset_to_first_pkt \in Nat
       /\ \A o \in DOMAIN b.headers : b.headers[o] \in Tpacket3Hdr
       /\ b.frames \in Seq([start : Nat, len : Nat])
       /\ b.laid_out \in BOOLEAN    \* did the kernel lay it out, frames in it?
       /\ b.laid_out =>
            \E at \in [1 .. Len(b.frames) -> DOMAIN b.headers] : LaidOut(b, at)

VARIABLES
  block,        \* the block: its descriptor and its headers, by offset
  count,        \* turns of the loop so far
  pkt_offset,   \* where the next header is
  pc,           \* "walk" or "done"
  slices        \* the [start, len] slices given to the callback

vars == <<block, count, pkt_offset, pc, slices>>

Init ==
  /\ block \in Blocks
  /\ count = 0
  /\ pkt_offset = block.offset_to_first_pkt
  /\ pc = "walk"
  /\ slices = <<>>

\* What may be read at an offset: the header the kernel put there, or whatever
\* bytes are left there from earlier frames.
Read(offset) ==
  IF offset \in DOMAIN block.headers THEN {block.headers[offset]} ELSE Headers

\* seeded fault: the length of the frame is checked without its offset
Slice_Unchecked(h) ==
  IF h.tp_mac + h.tp_snaplen <= BLOCK_SIZE /\ h.tp_snaplen > 0
    THEN <<[start |-> pkt_offset + h.tp_mac, len |-> h.tp_snaplen]>> ELSE <<>>

\* seeded fault: a frame starts where its header does
Slice_AtHeader(h) ==
  IF pkt_offset + h.tp_mac + h.tp_snaplen <= BLOCK_SIZE /\ h.tp_snaplen > 0
    THEN <<[start |-> pkt_offset, len |-> h.tp_snaplen]>> ELSE <<>>

\* The frame of a header, if it is inside the block and not empty.
Slice(h) ==
  IF pkt_offset + h.tp_mac + h.tp_snaplen <= BLOCK_SIZE /\ h.tp_snaplen > 0
    THEN <<[start |-> pkt_offset + h.tp_mac, len |-> h.tp_snaplen]>> ELSE <<>>

\* seeded fault: the offset of the next header is taken from the block's start
Visit_Absolute ==
  /\ pc = "walk"
  /\ count < block.num_pkts
  /\ pkt_offset + HDR_SIZE <= BLOCK_SIZE
  /\ \E h \in Read(pkt_offset) :
       /\ slices' = slices \o Slice(h)
       /\ count' = count + 1
       /\ IF h.tp_next_offset = 0
            THEN pc' = "done" /\ UNCHANGED pkt_offset
            ELSE pkt_offset' = h.tp_next_offset /\ UNCHANGED pc
  /\ UNCHANGED block

\* seeded fault: the walk follows tp_next_offset and forgets num_pkts
Visit_Uncounted ==
  /\ pc = "walk"
  /\ pkt_offset + HDR_SIZE <= BLOCK_SIZE
  /\ \E h \in Read(pkt_offset) :
       /\ slices' = slices \o Slice(h)
       /\ count' = count + 1
       /\ IF h.tp_next_offset = 0
            THEN pc' = "done" /\ UNCHANGED pkt_offset
            ELSE pkt_offset' = pkt_offset + h.tp_next_offset /\ UNCHANGED pc
  /\ UNCHANGED block

\* One turn of the loop over num_pkts.
Visit ==
  /\ pc = "walk"
  /\ count < block.num_pkts
  /\ pkt_offset + HDR_SIZE <= BLOCK_SIZE
  /\ \E h \in Read(pkt_offset) :
       /\ slices' = slices \o Slice(h)
       /\ count' = count + 1
       /\ IF h.tp_next_offset = 0
            THEN pc' = "done" /\ UNCHANGED pkt_offset
            ELSE pkt_offset' = pkt_offset + h.tp_next_offset /\ UNCHANGED pc
  /\ UNCHANGED block

\* The loop ends: every packet has been visited, or no header fits any more.
Stop ==
  /\ pc = "walk"
  /\ count = block.num_pkts \/ pkt_offset + HDR_SIZE > BLOCK_SIZE
  /\ pc' = "done"
  /\ UNCHANGED <<block, count, pkt_offset, slices>>

Next == Visit \/ Stop

Spec == Init /\ [][Next]_vars

-----------------------------------------------------------------------------
(* Properties. *)

\* Every variable has its type, and no more turns are taken than num_pkts.
TypeOK ==
  /\ block \in Blocks
  /\ count \in 0 .. block.num_pkts
  /\ pkt_offset \in Nat
  /\ pc \in {"walk", "done"}
  /\ slices \in Seq([start : Nat, len : Nat])

\* Whatever the headers say, a slice made with from_raw_parts is inside the
\* block, and not empty (socket.rs:444): the callback reads no other memory.
SlicesInBlock ==
  \A i \in 1 .. Len(slices) :
    /\ slices[i].len > 0
    /\ slices[i].start + slices[i].len <= BLOCK_SIZE

\* Slices are in the order of the block and do not overlap: as long as headers
\* are where the kernel put them, no byte is shown as part of two frames.
SlicesDisjoint ==
  block.laid_out =>
    \A i, j \in 1 .. Len(slices) :
      i < j => slices[i].start + slices[i].len <= slices[j].start

\* A block laid out by the kernel is walked to its end: the callback gets the
\* frames that are in it, each at its place with its length (socket.rs:435).
WalkComplete ==
  block.laid_out /\ pc = "done" => slices = block.frames

=============================================================================
