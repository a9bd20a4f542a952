---------------------------- MODULE MCBlockWalk ----------------------------
(***************************************************************************)
(* Instances of BlockWalk for TLC.  KernelBlocks are all blocks the kernel *)
(* can lay out: frames behind one another, each behind its header, rounded *)
(* up to an alignment of 2, and room left at the end, as tpacket_rcv keeps *)
(* it.  GarbledBlocks have a descriptor and nothing the walk can rely on.  *)
(***************************************************************************)
EXTENDS BlockWalk, SequencesExt

First == 2                  \* size of the block descriptor
Mac == HDR_SIZE + 1         \* where a frame is, from its header
Align(n) == n + (n % 2)

\* Where the headers of frames of the lengths given are, and where they end.
Offsets(lens) ==
  [i \in 1 .. Len(lens) + 1 |->
     FoldLeft(LAMBDA a, n : a + Align(Mac + n), First, SubSeq(lens, 1, i - 1))]

KernelBlock(lens) ==
  LET at == Offsets(lens)
      n == Len(lens)
      At(o) == CHOOSE i \in 1 .. n : at[i] = o
  IN [num_pkts |-> n,
      offset_to_first_pkt |-> First,
      laid_out |-> TRUE,
      headers |-> [o \in {at[i] : i \in 1 .. n} |->
                     [tp_mac |-> Mac,
                      tp_snaplen |-> lens[At(o)],
                      tp_next_offset |-> IF At(o) = n THEN 0 ELSE at[At(o) + 1] - o]],
      frames |-> [i \in 1 .. n |-> [start |-> at[i] + Mac, len |-> lens[i]]]]

KernelBlocks ==
  {KernelBlock(lens) : lens \in
     {l \in BoundedSeq(1 .. 5, 4) : l # <<>> /\ Offsets(l)[Len(l) + 1] < BLOCK_SIZE}}

GarbledBlocks ==
  {[num_pkts |-> n, offset_to_first_pkt |-> o, headers |-> <<>>, frames |-> <<>>,
    laid_out |-> FALSE] : n \in 0 .. 3, o \in {0, 5, BLOCK_SIZE}}

AllBlocks == KernelBlocks \cup GarbledBlocks

SmallHeaders ==
  [tp_mac : {0, 3, 6}, tp_snaplen : {0, 1, 9, 27}, tp_next_offset : {0, 1, 4, 30}]

=============================================================================
