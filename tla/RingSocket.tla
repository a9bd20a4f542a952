----------------------------- MODULE RingSocket -----------------------------
(***************************************************************************)
(* The TPACKET_V3 receive ring of netzer-socket (src/netzer-socket/src/    *)
(* socket.rs, RingSocket) together with the capture loop of main.rs that   *)
(* drives it, against the kernel that fills the ring.                      *)
(*                                                                         *)
(* A ring of BLOCK_NR blocks is shared by mmap.  The word block_status of  *)
(* a block says who may touch it: the kernel fills the block at its own    *)
(* cursor kblk and retires it (KERNEL -> USER) when it is full or 10 ms    *)
(* old; recv_block walks the block at current_block and releases it        *)
(* (USER -> KERNEL).  Neither side ever tells the other its cursor: that   *)
(* they agree on it is what this module is about.                          *)
(*                                                                         *)
(* A frame is the number the kernel gave it, 1, 2, 3, ...; a block is the  *)
(* sequence of the frames in it.  How the walk finds the frames of a block *)
(* by their offsets is BlockWalk's subject.  The kernel's steps are        *)
(* external: they are what tpacket_rcv and its retire timer do.            *)
(***************************************************************************)
EXTENDS Integers, Sequences

CONSTANTS
  BLOCK_NR,    \* number of blocks in the ring (8 in the code)
  BlockCap,    \* frames a block has room for (4 MiB of them in the code)
  MaxFrames,   \* bound: frames the kernel ever accepts
  MaxDrops     \* bound: frames the kernel ever drops

ASSUME RingAssumption ==
  /\ BLOCK_NR \in Nat \ {0}
  /\ BlockCap \in Nat \ {0}
  /\ MaxFrames \in Nat
  /\ MaxDrops \in Nat

VARIABLES
  block_status,   \* TP_STATUS_KERNEL or TP_STATUS_USER, per block
  block,          \* the frames in each block (stale once it is released)
  kblk,           \* the kernel's cursor
  opened,         \* has the kernel opened the block at its cursor?
  stored,         \* number of frames the kernel has accepted
  drops,          \* number of frames the kernel has dropped
  current_block,  \* the cursor of RingSocket
  pc,             \* where the capture thread is in recv_block
  num_pkts,       \* header word read when the walk starts
  walked,         \* frames of the block the walk has passed
  last            \* history: the last frame handed to the callback

kernelVars == <<kblk, opened, stored, drops>>
threadVars == <<current_block, pc, num_pkts, walked, last>>
vars == <<block_status, block, kernelVars, threadVars>>

Blocks == 0 .. BLOCK_NR - 1

KERNEL == "TP_STATUS_KERNEL"
USER == "TP_STATUS_USER"

\* The block after b; the kernel's cursor wraps around in the same way.
NextBlock(b) == (b + 1) % BLOCK_NR

Init ==
  /\ block_status = [b \in Blocks |-> KERNEL]
  /\ block = [b \in Blocks |-> <<>>]
  /\ kblk = 0
  /\ opened = TRUE
  /\ stored = 0
  /\ drops = 0
  /\ current_block = 0
  /\ pc = "check"
  /\ num_pkts = 0
  /\ walked = 0
  /\ last = 0

-----------------------------------------------------------------------------
(* The kernel. *)

\* What the next frame is appended to: a block not yet opened is emptied first.
OpenContents == IF opened THEN block[kblk] ELSE <<>>

\* A frame arrives and there is room for it at the kernel's cursor.
KernelStore ==
  /\ stored < MaxFrames
  /\ block_status[kblk] = KERNEL
  /\ Len(OpenContents) < BlockCap
  /\ block' = [block EXCEPT ![kblk] = Append(OpenContents, stored + 1)]
  /\ opened' = TRUE
  /\ stored' = stored + 1
  /\ UNCHANGED <<block_status, kblk, drops, threadVars>>

\* The open block is full, or its timer expires while it holds a frame: it is
\* handed to user space, and the next one is opened unless it is still there.
KernelRetire ==
  /\ block_status[kblk] = KERNEL
  /\ opened
  /\ block[kblk] # <<>>
  /\ block_status' = [block_status EXCEPT ![kblk] = USER]
  /\ kblk' = NextBlock(kblk)
  /\ opened' = (block_status'[kblk'] = KERNEL)
  /\ block' = IF opened' THEN [block EXCEPT ![kblk'] = <<>>] ELSE block
  /\ UNCHANGED <<stored, drops, threadVars>>

\* A frame arrives while user space holds the block at the kernel's cursor:
\* the queue is frozen and the frame is only counted.
KernelDrop ==
  /\ drops < MaxDrops
  /\ block_status[kblk] = USER
  /\ drops' = drops + 1
  /\ UNCHANGED <<block_status, block, kblk, opened, stored, threadVars>>

Kernel == KernelStore \/ KernelRetire \/ KernelDrop

-----------------------------------------------------------------------------
(* The capture thread: recv_block, called again and again by main. *)

\* seeded fault: the walk starts without looking at block_status
CheckReady_Unchecked ==
  /\ pc = "check"
  /\ num_pkts' = Len(block[current_block])
  /\ walked' = 0
  /\ pc' = "walk"
  /\ UNCHANGED <<block_status, block, kernelVars, current_block, last>>

\* block_status has the USER bit: leave the poll loop, read num_pkts.
CheckReady ==
  /\ pc = "check"
  /\ block_status[current_block] = USER
  /\ num_pkts' = Len(block[current_block])
  /\ walked' = 0
  /\ pc' = "walk"
  /\ UNCHANGED <<block_status, block, kernelVars, current_block, last>>

\* The block is still the kernel's: poll.
CheckNotReady ==
  /\ pc = "check"
  /\ block_status[current_block] = KERNEL
  /\ pc' = "poll"
  /\ UNCHANGED <<block_status, block, kernelVars, current_block, num_pkts,
                 walked, last>>

\* poll returns, for a retired block or after 20 ms: look at the status again.
PollReturns ==
  /\ pc = "poll"
  /\ pc' = "check"
  /\ UNCHANGED <<block_status, block, kernelVars, current_block, num_pkts,
                 walked, last>>

\* seeded fault: the error path moves on to the next block
PollFails_Advances ==
  /\ pc = "poll"
  /\ pc' = "check"
  /\ current_block' = NextBlock(current_block)
  /\ UNCHANGED <<block_status, block, kernelVars, num_pkts, walked, last>>

\* poll fails (a signal): recv_block returns Err, main reports it and calls
\* recv_block again, which starts over at the same block.
PollFails ==
  /\ pc = "poll"
  /\ pc' = "check"
  /\ UNCHANGED <<block_status, block, kernelVars, current_block, num_pkts,
                 walked, last>>

\* The next frame of the block goes to the callback, which runs process_packet
\* to its end before the walk goes on.
Callback ==
  /\ pc = "walk"
  /\ walked < num_pkts
  /\ last' = block[current_block][walked + 1]
  /\ walked' = walked + 1
  /\ UNCHANGED <<block_status, block, kernelVars, current_block, pc, num_pkts>>

\* seeded fault: the loop ends one frame early
Release_Early ==
  /\ pc = "walk"
  /\ walked + 1 >= num_pkts
  /\ block_status' = [block_status EXCEPT ![current_block] = KERNEL]
  /\ current_block' = NextBlock(current_block)
  /\ pc' = "check"
  /\ UNCHANGED <<block, kernelVars, num_pkts, walked, last>>

\* seeded fault: the cursor does not wrap around
Release_NoWrap ==
  /\ pc = "walk"
  /\ walked = num_pkts
  /\ block_status' = [block_status EXCEPT ![current_block] = KERNEL]
  /\ current_block' = current_block + 1
  /\ pc' = "check"
  /\ UNCHANGED <<block, kernelVars, num_pkts, walked, last>>

\* The walk is over: give the block back, move to the next one, return Ok.
Release ==
  /\ pc = "walk"
  /\ walked = num_pkts
  /\ block_status' = [block_status EXCEPT ![current_block] = KERNEL]
  /\ current_block' = NextBlock(current_block)
  /\ pc' = "check"
  /\ UNCHANGED <<block, kernelVars, num_pkts, walked, last>>

Thread ==
  CheckReady \/ CheckNotReady \/ PollReturns \/ PollFails \/ Callback \/ Release

-----------------------------------------------------------------------------
Next == Kernel \/ Thread

Spec == Init /\ [][Next]_vars

\* The capture thread is a loop with nothing else to do, and the retire timer
\* fires every 10 ms; nothing makes frames arrive.
FairSpec == Spec /\ WF_vars(Thread) /\ WF_vars(KernelRetire)

-----------------------------------------------------------------------------
(* Properties. *)

\* Every variable has its type; in particular both cursors stay inside the
\* mapping, whatever the number of times they go around (socket.rs:410, :462).
TypeOK ==
  /\ block_status \in [Blocks -> {KERNEL, USER}]
  /\ block \in [Blocks -> Seq(Nat)]
  /\ kblk \in Blocks
  /\ opened \in BOOLEAN
  /\ stored \in Nat
  /\ drops \in Nat
  /\ current_block \in Blocks
  /\ pc \in {"check", "poll", "walk"}
  /\ num_pkts \in Nat
  /\ walked \in Nat
  /\ last \in Nat

\* recv_block waits for one block only, the one at current_block.  So whenever
\* some block is ready, that one must be: had the cursors drifted apart, the
\* thread would sleep in its poll loop over frames that are there to be read.
CursorAtOldest ==
  (\E b \in Blocks : block_status[b] = USER) => block_status[current_block] = USER

\* From the moment num_pkts is read until the block is released, nobody changes
\* the block: the slices handed to the callback point into it (socket.rs:445).
WalkedBlockStable ==
  [][pc = "walk" => block'[current_block] = block[current_block]]_vars

\* The ring is a lossless FIFO queue as long as it has a free block: frames
\* reach the callback in arrival order, each exactly once, and the kernel drops
\* one only with a backlog of at least BLOCK_NR - 1 frames.
FQ == INSTANCE FrameQueue
        WITH accepted <- stored, delivered <- last, lost <- drops,
             Backlog <- BLOCK_NR - 1

ImplementsFrameQueue == FQ!Spec

\* Every frame the kernel accepts reaches the callback, even when poll fails
\* any number of times: no frame is forgotten in a block nobody looks at.
EveryFrameDelivered == \A n \in 1 .. MaxFrames : (stored >= n) ~> (last >= n)

-----------------------------------------------------------------------------
(* The inductive invariant. *)

\* How far ahead of the thread's cursor a block is.
Dist(b) ==
  IF b >= current_block THEN b - current_block ELSE b - current_block + BLOCK_NR

\* Number of the first frame a block holds, or will hold.
Start(b) ==
  IF block_status[b] = USER THEN block[b][1]
  ELSE IF opened /\ block[b] # <<>> THEN block[b][1]
  ELSE stored + 1

\* The blocks in user space are those from the thread's cursor up to the
\* kernel's; the cursors meet when the ring is empty or when it is full.
Ownership ==
  IF block_status[kblk] = USER
  THEN /\ kblk = current_block
       /\ ~opened
       /\ \A b \in Blocks : block_status[b] = USER
  ELSE \A b \in Blocks : block_status[b] = USER <=> Dist(b) < Dist(kblk)

\* What the walk has read of its block is still true of it.
Walk ==
  pc = "walk" =>
    /\ block_status[current_block] = USER
    /\ num_pkts = Len(block[current_block])
    /\ walked <= num_pkts

\* A block that holds frames holds consecutive ones, up to its capacity.
Filled(b) ==
  /\ \A i \in 1 .. Len(block[b]) : block[b][i] = block[b][1] + i - 1
  /\ block_status[b] = USER => block[b] # <<>>

\* The frames of the ring, in the order of the walk, are last+1 .. stored.
Numbering ==
  /\ \A b \in Blocks :
       block_status[b] = USER \/ (b = kblk /\ opened) => Filled(b)
  /\ \A b \in Blocks :
       /\ block_status[b] = USER
       /\ NextBlock(b) # current_block
       => Start(NextBlock(b)) = block[b][1] + Len(block[b])
  /\ \A b \in Blocks :
       \/ block_status[b] = USER /\ NextBlock(b) = kblk /\ block_status[kblk] = USER
       \/ b = kblk /\ block_status[b] = KERNEL /\ opened /\ block[b] # <<>>
       => block[b][1] + Len(block[b]) = stored + 1
  /\ Start(current_block) + (IF pc = "walk" THEN walked ELSE 0) = last + 1

\* How many blocks are in user space, and the number after their frames.
Retired == IF block_status[kblk] = USER THEN BLOCK_NR ELSE Dist(kblk)
Top == IF block_status[kblk] = USER THEN stored + 1 ELSE Start(kblk)

\* Every retired block behind b accounts for one frame at least.
Backlogged ==
  \A b \in Blocks : block_status[b] = USER =>
    block[b][1] + Len(block[b]) + (Retired - Dist(b) - 1) <= Top

RingInv == TypeOK /\ Ownership /\ Walk /\ Numbering /\ Backlogged

=============================================================================
