-------------------------- MODULE RingSocketProofs --------------------------
(***************************************************************************)
(* Proofs about RingSocket, for every number and size of blocks: RingInv   *)
(* is an inductive invariant, so TypeOK, CursorAtOldest and                *)
(* WalkedBlockStable hold, and the ring implements FrameQueue.             *)
(***************************************************************************)
EXTENDS RingSocket, TLAPS

(* The block after b, without the modulo. *)
LEMMA NextBlockIs ==
  ASSUME NEW b \in Blocks
  PROVE  /\ NextBlock(b) \in Blocks
         /\ b + 1 = BLOCK_NR => NextBlock(b) = 0
         /\ b + 1 # BLOCK_NR => NextBlock(b) = b + 1
<1>1. CASE b + 1 = BLOCK_NR
  <2>1. BLOCK_NR % BLOCK_NR = 0
    BY RingAssumption
  <2>. QED  BY <1>1, <2>1, RingAssumption DEF NextBlock, Blocks
<1>2. CASE b + 1 # BLOCK_NR
  <2>1. b + 1 \in 0 .. BLOCK_NR - 1
    BY <1>2, RingAssumption DEF Blocks
  <2>2. (b + 1) % BLOCK_NR = b + 1
    BY <2>1, RingAssumption
  <2>. QED  BY <1>2, <2>1, <2>2 DEF NextBlock, Blocks
<1>. QED  BY <1>1, <1>2

(* Two blocks have different successors. *)
LEMMA NextBlockInjective ==
  ASSUME NEW b \in Blocks, NEW c \in Blocks, NextBlock(b) = NextBlock(c)
  PROVE  b = c
BY NextBlockIs, RingAssumption DEF Blocks

(* Distances from the thread's cursor: they tell blocks apart, and grow by
   one from a block to the next until the cursor is reached again. *)
LEMMA DistFacts ==
  ASSUME current_block \in Blocks
  PROVE  /\ Dist(current_block) = 0
         /\ \A b \in Blocks :
              /\ Dist(b) \in Blocks
              /\ Dist(b) = 0 => b = current_block
              /\ NextBlock(b) # current_block => Dist(NextBlock(b)) = Dist(b) + 1
              /\ NextBlock(b) = current_block => Dist(b) = BLOCK_NR - 1
              /\ \A c \in Blocks : Dist(b) = Dist(c) => b = c
BY NextBlockIs, RingAssumption DEF Dist, Blocks

(* What the ownership of the ring says of single blocks. *)
LEMMA OwnershipFacts ==
  ASSUME TypeOK, Ownership
  PROVE  /\ block_status[kblk] = KERNEL =>
              \A b \in Blocks :
                 /\ block_status[b] = USER /\ NextBlock(b) # kblk
                      => block_status[NextBlock(b)] = USER
                 /\ block_status[b] = USER => NextBlock(b) # current_block
         /\ block_status[current_block] = KERNEL => kblk = current_block
<1>1. USER # KERNEL
  BY DEF USER, KERNEL
<1>2. ASSUME block_status[kblk] = KERNEL, NEW b \in Blocks,
             block_status[b] = USER
      PROVE  /\ NextBlock(b) # current_block
             /\ NextBlock(b) # kblk => block_status[NextBlock(b)] = USER
  <2>1. /\ Dist(b) < Dist(kblk)
        /\ Dist(b) \in Nat /\ Dist(kblk) \in Nat /\ Dist(kblk) <= BLOCK_NR - 1
    BY <1>1, <1>2, DistFacts, RingAssumption DEF Ownership, TypeOK, Blocks
  <2>2. NextBlock(b) # current_block
    BY <2>1, DistFacts, RingAssumption DEF TypeOK
  <2>3. Dist(NextBlock(b)) = Dist(b) + 1
    BY <2>2, DistFacts DEF TypeOK
  <2>4. ASSUME NextBlock(b) # kblk
        PROVE  block_status[NextBlock(b)] = USER
    <3>1. NextBlock(b) \in Blocks
      BY NextBlockIs
    <3>2. Dist(NextBlock(b)) # Dist(kblk)
      BY <2>4, <3>1, DistFacts DEF TypeOK
    <3>3. Dist(NextBlock(b)) < Dist(kblk)
      BY <2>1, <2>3, <3>2
    <3>. QED  BY <1>1, <1>2, <3>1, <3>3 DEF Ownership
  <2>. QED  BY <2>2, <2>4
<1>3. ASSUME block_status[current_block] = KERNEL
      PROVE  kblk = current_block
  <2>1. block_status[kblk] # USER
    BY <1>1, <1>3 DEF Ownership, TypeOK
  <2>2. ~(Dist(current_block) < Dist(kblk))
    BY <1>1, <1>3, <2>1 DEF Ownership, TypeOK
  <2>3. /\ Dist(current_block) = 0
        /\ Dist(kblk) \in Nat
        /\ Dist(kblk) = 0 => kblk = current_block
    BY DistFacts DEF TypeOK, Blocks
  <2>. QED  BY <2>2, <2>3
<1>. QED  BY <1>2, <1>3

-----------------------------------------------------------------------------
(* RingInv is inductive: one lemma per action of the specification. *)

LEMMA InitRing == Init => RingInv
<1>. SUFFICES ASSUME Init PROVE RingInv
  OBVIOUS
<1>1. TypeOK
  BY RingAssumption DEF Init, TypeOK, Blocks
<1>2. Ownership
  BY <1>1, RingAssumption, DistFacts DEF Init, Ownership, TypeOK, USER, KERNEL, Blocks
<1>3. Walk
  BY DEF Init, Walk
<1>4. Numbering
  BY <1>1, RingAssumption DEF Init, Numbering, Filled, Start, TypeOK, USER, KERNEL, Blocks
<1>5. Backlogged
  BY DEF Init, Backlogged, USER, KERNEL
<1>. QED  BY <1>1, <1>2, <1>3, <1>4, <1>5 DEF RingInv

LEMMA StoreRing ==
  ASSUME RingInv, KernelStore
  PROVE  RingInv'
<1>. USE DEF USER, KERNEL
<1>0. TypeOK /\ Ownership /\ Walk /\ Numbering /\ Backlogged
  BY DEF RingInv
<1>a. OpenContents \in Seq(Nat) /\ Len(OpenContents) \in Nat
  BY <1>0 DEF OpenContents, TypeOK
<1>b. /\ Len(block'[kblk]) = Len(OpenContents) + 1
      /\ block'[kblk][Len(OpenContents) + 1] = stored + 1
      /\ \A i \in 1 .. Len(OpenContents) : block'[kblk][i] = OpenContents[i]
      /\ block'[kblk] \in Seq(Nat)
  BY <1>0, <1>a DEF KernelStore, TypeOK
<1>c. \A b \in Blocks : b # kblk => block'[b] = block[b]
  BY <1>0 DEF KernelStore, TypeOK
<1>d. block'[kblk] # <<>>
  BY <1>a, <1>b
<1>e. block'[kblk][1] = Start(kblk)
  BY <1>0, <1>a, <1>b DEF KernelStore, Start, OpenContents, TypeOK
<1>f. block'[kblk][1] + Len(block'[kblk]) = stored + 2
  BY <1>0, <1>a, <1>b, <1>e DEF Numbering, KernelStore, Start, OpenContents, TypeOK
<1>1. TypeOK'
  BY <1>0, <1>b DEF TypeOK, KernelStore, threadVars
<1>2. Ownership'
  BY <1>0 DEF Ownership, KernelStore, threadVars, Dist
<1>3. Walk'
  BY <1>0, <1>c DEF Walk, KernelStore, threadVars, TypeOK
<1>4. \A b \in Blocks : b = kblk \/ block_status[b] = USER => Start(b)' = Start(b)
  BY <1>0, <1>c, <1>d, <1>e DEF Start, KernelStore
<1>5. Numbering'
  <2>1. ASSUME NEW b \in Blocks,
               block_status'[b] = USER \/ (b = kblk' /\ opened')
        PROVE  Filled(b)'
    <3>1. CASE b = kblk
      <4>1. Filled(kblk) \/ OpenContents = <<>>
        BY <1>0 DEF Numbering, OpenContents, TypeOK
      <4>2. ASSUME NEW i \in 1 .. Len(block'[kblk])
            PROVE  block'[kblk][i] = block'[kblk][1] + i - 1
        <5>1. CASE i = Len(OpenContents) + 1
          BY <5>1, <1>0, <1>a, <1>b, <1>e, <1>f DEF TypeOK
        <5>2. CASE i \in 1 .. Len(OpenContents)
          <6>1. OpenContents = block[kblk]
            BY <5>2, <1>a DEF OpenContents
          <6>2. Filled(kblk)
            BY <5>2, <4>1, <1>a
          <6>3. block[kblk][i] = block[kblk][1] + i - 1
            BY <5>2, <6>1, <6>2 DEF Filled
          <6>4. 1 \in 1 .. Len(OpenContents)
            BY <5>2, <1>a
          <6>. QED  BY <5>2, <6>1, <6>3, <6>4, <1>b
        <5>. QED  BY <5>1, <5>2, <1>a, <1>b
      <4>. QED  BY <3>1, <4>2, <1>d DEF Filled
    <3>2. CASE b # kblk
      BY <1>0, <1>c, <2>1, <3>2 DEF Filled, Numbering, KernelStore
    <3>. QED  BY <3>1, <3>2
  <2>2. ASSUME NEW b \in Blocks, block_status'[b] = USER,
               NextBlock(b) # current_block'
        PROVE  Start(NextBlock(b))' = block'[b][1] + Len(block'[b])
    <3>1. b # kblk /\ block_status[b] = USER /\ NextBlock(b) # current_block
      BY <2>2 DEF KernelStore, threadVars
    <3>2. NextBlock(b) = kblk \/ block_status[NextBlock(b)] = USER
      BY <1>0, <3>1, OwnershipFacts DEF KernelStore
    <3>. QED  BY <1>0, <1>4, <1>c, <3>1, <3>2, NextBlockIs DEF Numbering
  <2>3. ASSUME NEW b \in Blocks,
               \/ /\ block_status'[b] = USER
                  /\ NextBlock(b) = kblk'
                  /\ block_status'[kblk'] = USER
               \/ b = kblk' /\ block_status'[b] = KERNEL /\ opened' /\ block'[b] # <<>>
        PROVE  block'[b][1] + Len(block'[b]) = stored' + 1
    BY <1>0, <1>f, <2>3 DEF KernelStore, TypeOK
  <2>4. Start(current_block)' + (IF pc' = "walk" THEN walked' ELSE 0) = last' + 1
    <3>1. current_block = kblk \/ block_status[current_block] = USER
      BY <1>0, OwnershipFacts DEF TypeOK
    <3>. QED  BY <1>0, <1>4, <3>1 DEF Numbering, KernelStore, threadVars, TypeOK, Start
  <2>. QED  BY <2>1, <2>2, <2>3, <2>4, Zenon DEF Numbering
<1>6. Backlogged'
  <2>1. Retired' = Retired /\ Top' = Top
    BY <1>0, <1>4 DEF Retired, Top, Dist, KernelStore, threadVars, TypeOK
  <2>2. \A b \in Blocks : Dist(b)' = Dist(b)
    BY DEF Dist, KernelStore, threadVars
  <2>. QED  BY <1>0, <1>c, <2>1, <2>2 DEF Backlogged, KernelStore
<1>. QED  BY <1>1, <1>2, <1>3, <1>5, <1>6 DEF RingInv

(* The arithmetic of a block retired with l frames: x first number after block
   b's frames, k and b distances, t the first number of the retired block. *)
LEMMA OneMoreRetired ==
  ASSUME NEW x \in Int, NEW m \in Int, NEW k \in Int, NEW b \in Int,
         NEW t \in Int, NEW l \in Int, NEW s \in Int,
         x + m + (k - b - 1) <= t, l >= 1, t + l = s + 1
  PROVE  x + m + (k + 1 - b - 1) <= s + 1
OBVIOUS

LEMMA RetireRing ==
  ASSUME RingInv, KernelRetire
  PROVE  RingInv'
<1>. USE DEF USER, KERNEL
<1>0. TypeOK /\ Ownership /\ Walk /\ Numbering /\ Backlogged
  BY DEF RingInv
<1>k. PICK k \in Blocks : k = kblk
  BY <1>0 DEF TypeOK
<1>n. PICK n \in Blocks : n = NextBlock(k)
  BY NextBlockIs
<1>a. /\ k = kblk /\ n = NextBlock(k)
      /\ block_status[k] = KERNEL /\ opened /\ block[k] # <<>>
      /\ kblk' = n
      /\ UNCHANGED threadVars
  BY <1>k, <1>n DEF KernelRetire
<1>b. /\ block_status'[k] = USER
      /\ \A b \in Blocks : b # k => block_status'[b] = block_status[b]
      /\ block_status' \in [Blocks -> {KERNEL, USER}]
  BY <1>0, <1>a DEF KernelRetire, TypeOK
<1>c. opened' = (block_status'[n] = KERNEL)
  BY <1>a DEF KernelRetire
<1>d. /\ \A b \in Blocks : b # n \/ block_status'[n] = USER => block'[b] = block[b]
      /\ block_status'[n] = KERNEL => block'[n] = <<>>
      /\ block' \in [Blocks -> Seq(Nat)]
  <2>1. CASE block_status'[n] = KERNEL
    <3>1. block' = [block EXCEPT ![n] = <<>>]
      BY <1>a, <1>c, <2>1 DEF KernelRetire
    <3>. QED  BY <1>0, <2>1, <3>1 DEF TypeOK
  <2>2. CASE block_status'[n] = USER
    <3>1. block' = block
      BY <1>a, <1>c, <2>2 DEF KernelRetire
    <3>. QED  BY <1>0, <2>2, <3>1 DEF TypeOK
  <2>. QED  BY <1>b, <2>1, <2>2
<1>e. block_status'[n] = KERNEL => n # k /\ n # current_block
  <2>1. n = current_block /\ n # k => block_status[n] = USER
    BY <1>0, <1>a, OwnershipFacts DEF TypeOK
  <2>. QED  BY <2>1, <1>a, <1>b
<1>f. block_status'[n] = USER => n = current_block
  <2>1. CASE n = k
    <3>1. BLOCK_NR = 1
      <4>1. (k + 1 = BLOCK_NR => n = 0) /\ (k + 1 # BLOCK_NR => n = k + 1)
        BY <1>n, NextBlockIs
      <4>. QED  BY <2>1, <4>1, RingAssumption DEF Blocks
    <3>. QED  BY <1>0, <1>a, <3>1 DEF TypeOK, Blocks
  <2>2. CASE n # k
    <3>1. ASSUME block_status[n] = USER, n # current_block PROVE FALSE
      <4>1. Dist(n) < Dist(k)
        BY <1>0, <1>a, <3>1 DEF Ownership
      <4>2. Dist(n) = Dist(k) + 1 /\ Dist(k) \in Nat
        BY <1>0, <1>a, <3>1, DistFacts DEF TypeOK, Blocks
      <4>. QED  BY <4>1, <4>2
    <3>. QED  BY <2>2, <3>1, <1>a, <1>b
  <2>. QED  BY <2>1, <2>2
<1>1. TypeOK'
  BY <1>0, <1>a, <1>b, <1>c, <1>d DEF TypeOK, KernelRetire, threadVars
<1>2. Ownership'
  <2>0. \A b \in Blocks : Dist(b)' = Dist(b)
    BY <1>a DEF Dist, threadVars
  <2>1. CASE block_status'[n] = USER
    <3>1. n = current_block
      BY <1>f, <2>1
    <3>2. Dist(k) = BLOCK_NR - 1
      BY <1>0, <1>a, <3>1, DistFacts DEF TypeOK
    <3>3. ASSUME NEW b \in Blocks, b # k PROVE block_status'[b] = USER
      <4>1. Dist(b) # Dist(k) /\ Dist(b) \in Blocks
        BY <1>0, <1>a, <3>3, DistFacts DEF TypeOK
      <4>2. Dist(b) < Dist(k)
        BY <3>2, <4>1, RingAssumption DEF Blocks
      <4>. QED  BY <1>0, <1>a, <1>b, <3>3, <4>2 DEF Ownership
    <3>. QED  BY <1>a, <1>b, <1>c, <2>1, <3>1, <3>3 DEF Ownership, threadVars
  <2>2. CASE block_status'[n] = KERNEL
    <3>1. Dist(n) = Dist(k) + 1
      BY <1>0, <1>a, <1>e, <2>2, DistFacts DEF TypeOK
    <3>2. ASSUME NEW b \in Blocks
          PROVE  block_status'[b] = USER <=> Dist(b) < Dist(n)
      <4>1. Dist(b) \in Nat /\ Dist(k) \in Nat /\ (Dist(b) = Dist(k) => b = k)
        BY <1>0, <1>a, DistFacts DEF TypeOK, Blocks
      <4>2. CASE b = k
        BY <1>b, <3>1, <4>1, <4>2
      <4>3. CASE b # k
        <5>1. block_status[b] = USER <=> Dist(b) < Dist(k)
          BY <1>0, <1>a DEF Ownership
        <5>. QED  BY <1>b, <3>1, <4>1, <4>3, <5>1
      <4>. QED  BY <4>2, <4>3
    <3>. QED  BY <1>a, <2>0, <2>2, <3>2 DEF Ownership
  <2>. QED  BY <2>1, <2>2, <1>a, <1>b
<1>3. Walk'
  <2>1. pc = "walk" => current_block # k
    BY <1>0, <1>a DEF Walk
  <2>2. block'[current_block] = block[current_block]
    BY <1>0, <1>a, <1>b, <1>d, <1>e DEF TypeOK
  <2>. QED  BY <1>0, <1>a, <1>b, <2>1, <2>2 DEF Walk, TypeOK, threadVars
<1>4. \A b \in Blocks : b = k \/ block_status[b] = USER =>
        /\ block'[b] = block[b]
        /\ block_status'[b] = USER
        /\ Start(b)' = Start(b)
  BY <1>a, <1>b, <1>d, <1>e DEF Start
<1>5. block[k][1] + Len(block[k]) = stored + 1
  BY <1>0, <1>a DEF Numbering
<1>6. Numbering'
  <2>1. ASSUME NEW b \in Blocks,
               block_status'[b] = USER \/ (b = kblk' /\ opened')
        PROVE  Filled(b)'
    <3>1. CASE block_status'[b] = USER
      <4>1. b = k \/ block_status[b] = USER
        BY <1>b, <3>1
      <4>2. Filled(b) /\ block[b] # <<>>
        BY <1>0, <1>a, <4>1 DEF Numbering, Filled
      <4>. QED  BY <1>4, <4>1, <4>2 DEF Filled
    <3>2. CASE block_status'[b] # USER
      <4>1. block'[b] = <<>>
        BY <1>a, <1>c, <1>d, <2>1, <3>2
      <4>. QED  BY <3>2, <4>1 DEF Filled
    <3>. QED  BY <3>1, <3>2
  <2>2. ASSUME NEW b \in Blocks, block_status'[b] = USER,
               NextBlock(b) # current_block'
        PROVE  Start(NextBlock(b))' = block'[b][1] + Len(block'[b])
    <3>0. NextBlock(b) # current_block /\ NextBlock(b) \in Blocks
      BY <1>a, <2>2, NextBlockIs DEF threadVars
    <3>1. CASE b = k
      <4>1. block_status'[n] = KERNEL /\ block'[n] = <<>>
        BY <1>a, <1>b, <1>d, <1>f, <3>0, <3>1
      <4>2. Start(n)' = stored + 1
        BY <4>1 DEF Start, KernelRetire
      <4>. QED  BY <1>4, <1>5, <3>1, <4>2, <1>a
    <3>2. CASE b # k
      <4>1. block_status[b] = USER
        BY <1>b, <2>2, <3>2
      <4>2. NextBlock(b) = k \/ block_status[NextBlock(b)] = USER
        BY <1>0, <1>a, <4>1, OwnershipFacts
      <4>3. Start(NextBlock(b)) = block[b][1] + Len(block[b])
        BY <1>0, <3>0, <4>1 DEF Numbering
      <4>. QED  BY <1>4, <3>0, <4>1, <4>2, <4>3
    <3>. QED  BY <3>1, <3>2
  <2>3. ASSUME NEW b \in Blocks,
               \/ /\ block_status'[b] = USER
                  /\ NextBlock(b) = kblk'
                  /\ block_status'[kblk'] = USER
               \/ b = kblk' /\ block_status'[b] = KERNEL /\ opened' /\ block'[b] # <<>>
        PROVE  block'[b][1] + Len(block'[b]) = stored' + 1
    <3>1. b = k
      BY <2>3, <1>a, <1>d, NextBlockInjective
    <3>. QED  BY <1>4, <1>5, <1>a, <3>1 DEF KernelRetire
  <2>4. Start(current_block)' + (IF pc' = "walk" THEN walked' ELSE 0) = last' + 1
    <3>1. current_block = k \/ block_status[current_block] = USER
      BY <1>0, <1>a, OwnershipFacts DEF TypeOK
    <3>2. Start(current_block)' = Start(current_block)
      <4>1. current_block \in Blocks /\ current_block' = current_block
        BY <1>0, <1>a DEF TypeOK, threadVars
      <4>. QED  BY <1>4, <3>1, <4>1 DEF Start
    <3>. QED  BY <1>0, <1>a, <3>2 DEF Numbering, threadVars
  <2>. QED  BY <2>1, <2>2, <2>3, <2>4, Zenon DEF Numbering
<1>7. Backlogged'
  <2>0. \A b \in Blocks : Dist(b)' = Dist(b) /\ Dist(b) \in Int
    BY <1>0, <1>a, RingAssumption DEF Dist, threadVars, TypeOK, Blocks
  <2>1. Top' = stored + 1
    <3>1. CASE block_status'[n] = USER
      BY <1>a, <3>1 DEF Top, KernelRetire
    <3>2. CASE block_status'[n] = KERNEL
      <4>1. Start(kblk)' = stored + 1
        BY <1>a, <1>d, <3>2 DEF Start, KernelRetire
      <4>. QED  BY <1>a, <3>2, <4>1 DEF Top
    <3>. QED  BY <1>b, <3>1, <3>2
  <2>2. Retired' = Dist(k) + 1
    <3>1. CASE block_status'[n] = USER
      <4>1. NextBlock(k) = current_block
        BY <1>f, <1>n, <3>1
      <4>2. Dist(k) = BLOCK_NR - 1
        BY <1>0, <4>1, DistFacts DEF TypeOK
      <4>. QED  BY <1>a, <3>1, <4>2, RingAssumption DEF Retired
    <3>2. CASE block_status'[n] = KERNEL
      <4>1. NextBlock(k) # current_block
        BY <1>e, <1>n, <3>2
      <4>2. Dist(n) = Dist(k) + 1
        BY <1>0, <1>n, <4>1, DistFacts DEF TypeOK
      <4>. QED  BY <1>a, <2>0, <3>2, <4>2 DEF Retired
    <3>. QED  BY <1>b, <3>1, <3>2
  <2>3. Retired = Dist(k) /\ Top = block[k][1]
    BY <1>a DEF Retired, Top, Start
  <2>4. Top \in Int /\ Len(block[k]) >= 1 /\ Top + Len(block[k]) = stored + 1
    BY <1>0, <1>a, <1>5, <2>3 DEF TypeOK
  <2>6. stored \in Int /\ Len(block[k]) \in Int
    BY <1>0, <1>a DEF TypeOK
  <2>5. ASSUME NEW b \in Blocks, block_status'[b] = USER
        PROVE  block'[b][1] + Len(block'[b]) + (Retired' - Dist(b)' - 1) <= Top'
    <3>0. Dist(b)' = Dist(b) /\ Dist(b) \in Int /\ Dist(k) \in Int
      BY <2>0
    <3>1. CASE b = k
      <4>1. block'[b] = block[k]
        BY <1>4, <3>1
      <4>. QED  BY <1>0, <1>5, <2>1, <2>2, <3>0, <3>1, <4>1 DEF TypeOK
    <3>2. CASE b # k
      <4>1. block_status[b] = USER /\ block'[b] = block[b]
        BY <1>4, <1>b, <2>5, <3>2
      <4>2. block[b][1] + Len(block[b]) + (Retired - Dist(b) - 1) <= Top
        BY <1>0, <4>1 DEF Backlogged
      <4>3. block[b][1] \in Int /\ Len(block[b]) \in Int
        BY <1>0, <4>1 DEF TypeOK, Numbering, Filled
      <4>4. block[b][1] + Len(block[b]) + (Dist(k) - Dist(b) - 1) <= Top
        BY <2>3, <4>2
      <4>5. block[b][1] + Len(block[b]) + (Dist(k) + 1 - Dist(b) - 1) <= stored + 1
        BY <2>4, <2>6, <3>0, <4>3, <4>4, OneMoreRetired
      <4>. QED  BY <2>1, <2>2, <3>0, <4>1, <4>5
    <3>. QED  BY <3>1, <3>2
  <2>. QED  BY <2>5 DEF Backlogged
<1>. QED  BY <1>1, <1>2, <1>3, <1>6, <1>7 DEF RingInv

LEMMA DropRing ==
  ASSUME RingInv, KernelDrop
  PROVE  RingInv'
BY DEF RingInv, TypeOK, Ownership, Walk, Numbering, Filled, Start, Dist,
       Backlogged, Retired, Top, KernelDrop, threadVars

LEMMA PollRing ==
  ASSUME RingInv, CheckNotReady \/ PollReturns \/ PollFails
  PROVE  RingInv'
<1>1. UNCHANGED <<block_status, block, kernelVars, current_block, num_pkts,
                  walked, last>>
  BY DEF CheckNotReady, PollReturns, PollFails
<1>2. pc \in {"check", "poll"} /\ pc' \in {"check", "poll"}
  BY DEF CheckNotReady, PollReturns, PollFails
<1>. QED
  BY <1>1, <1>2 DEF RingInv, TypeOK, Ownership, Walk, Numbering, Filled, Start,
     Dist, Backlogged, Retired, Top, kernelVars

LEMMA ReadyRing ==
  ASSUME RingInv, CheckReady
  PROVE  RingInv'
<1>0. TypeOK /\ Ownership /\ Walk /\ Numbering /\ Backlogged
  BY DEF RingInv
<1>1. UNCHANGED <<block_status, block, kernelVars, current_block, last>>
  BY DEF CheckReady
<1>2. pc' = "walk" /\ walked' = 0 /\ num_pkts' = Len(block[current_block])
      /\ num_pkts' \in Nat /\ pc # "walk"
  BY <1>0 DEF CheckReady, TypeOK
<1>3. TypeOK' /\ Ownership' /\ Walk'
  BY <1>0, <1>1, <1>2 DEF TypeOK, Ownership, Walk, Dist, kernelVars, CheckReady
<1>4. Numbering'
  BY <1>0, <1>1, <1>2 DEF Numbering, Filled, Start, kernelVars
<1>5. Backlogged'
  BY <1>0, <1>1 DEF Backlogged, Retired, Top, Start, Dist, kernelVars
<1>. QED  BY <1>3, <1>4, <1>5 DEF RingInv

(* At least one frame fewer is in the ring than blocks are in user space. *)
LEMMA BacklogBound ==
  ASSUME RingInv, block_status[current_block] = USER
  PROVE  /\ stored - last >= Retired - 1
         /\ block[current_block][1] + Len(block[current_block]) <= stored + 1
<1>0. TypeOK /\ Ownership /\ Walk /\ Numbering /\ Backlogged
  BY DEF RingInv
<1>1. /\ block[current_block][1] + Len(block[current_block]) + (Retired - 1) <= Top
      /\ block[current_block][1] \in Nat
      /\ Len(block[current_block]) \in Nat \ {0}
  <2>1. current_block \in Blocks /\ block[current_block] \in Seq(Nat)
    BY <1>0 DEF TypeOK
  <2>2. block[current_block] # <<>>
    BY <1>0, <2>1 DEF Numbering, Filled
  <2>3. Dist(current_block) = 0
    BY <2>1, DistFacts
  <2>4. Retired \in Int
    BY <1>0, RingAssumption, DistFacts DEF Retired, TypeOK, Blocks
  <2>5. block[current_block][1] + Len(block[current_block])
          + (Retired - Dist(current_block) - 1) <= Top
    BY <1>0, <2>1 DEF Backlogged
  <2>6. Retired - 0 - 1 = Retired - 1
    BY <2>4
  <2>. QED  BY <2>1, <2>2, <2>3, <2>5, <2>6
<1>2. Top \in Int /\ Top <= stored + 1
  <2>1. CASE block_status[kblk] = KERNEL /\ opened /\ block[kblk] # <<>>
    BY <1>0, <2>1 DEF Top, Start, Numbering, TypeOK, USER, KERNEL
  <2>2. CASE ~(block_status[kblk] = KERNEL /\ opened /\ block[kblk] # <<>>)
    BY <1>0, <2>2 DEF Top, Start, TypeOK
  <2>. QED  BY <2>1, <2>2
<1>3. Retired \in Nat \ {0}
  <2>1. CASE block_status[kblk] = USER
    BY <2>1, RingAssumption DEF Retired
  <2>2. CASE block_status[kblk] # USER
    BY <1>0, <2>2, DistFacts DEF Retired, Ownership, TypeOK, Blocks
  <2>. QED  BY <2>1, <2>2
<1>4. last + 1 <= block[current_block][1] + Len(block[current_block])
  BY <1>0, <1>1 DEF Numbering, Start, Walk, TypeOK
<1>. QED  BY <1>0, <1>1, <1>2, <1>3, <1>4 DEF TypeOK

(* The frame handed to the callback is the one after the last. *)
LEMMA CallbackNext ==
  ASSUME RingInv, Callback
  PROVE  last' = last + 1 /\ last' <= stored
<1>0. TypeOK /\ Ownership /\ Walk /\ Numbering
  BY DEF RingInv
<1>1. block_status[current_block] = USER /\ walked + 1 \in 1 .. Len(block[current_block])
  BY <1>0 DEF Walk, Callback, TypeOK
<1>2. block[current_block][walked + 1] = block[current_block][1] + walked
  BY <1>0, <1>1 DEF Numbering, Filled, TypeOK
<1>3. Start(current_block) = block[current_block][1]
  BY <1>1 DEF Start
<1>4. Start(current_block) + walked = last + 1
  BY <1>0 DEF Numbering, Callback
<1>5. /\ block[current_block][1] + Len(block[current_block]) <= stored + 1
      /\ Len(block[current_block]) \in Nat /\ block[current_block][1] \in Nat
  BY <1>0, <1>1, BacklogBound DEF TypeOK
<1>. QED  BY <1>0, <1>1, <1>2, <1>3, <1>4, <1>5 DEF Callback, TypeOK

LEMMA CallbackRing ==
  ASSUME RingInv, Callback
  PROVE  RingInv'
<1>0. TypeOK /\ Ownership /\ Walk /\ Numbering /\ Backlogged
  BY DEF RingInv
<1>1. /\ UNCHANGED <<block_status, block, kernelVars, current_block, pc, num_pkts>>
      /\ pc = "walk" /\ walked' = walked + 1 /\ walked < num_pkts
  BY DEF Callback
<1>2. last' = last + 1
  BY CallbackNext
<1>3. TypeOK' /\ Ownership' /\ Walk'
  BY <1>0, <1>1, <1>2 DEF TypeOK, Ownership, Walk, Dist, kernelVars
<1>4. Start(current_block)' = Start(current_block) /\ Start(current_block) \in Int
  <2>1. block_status[current_block] = USER
    BY <1>0, <1>1 DEF Walk
  <2>2. block[current_block] \in Seq(Nat) /\ block[current_block] # <<>>
    BY <1>0, <2>1 DEF TypeOK, Numbering, Filled
  <2>3. block[current_block][1] \in Nat
    BY <2>2
  <2>4. Start(current_block) = block[current_block][1]
    BY <2>1 DEF Start
  <2>. QED  BY <1>1, <2>3, <2>4 DEF Start, kernelVars
<1>5. Numbering'
  <2>1. Start(current_block) + walked = last + 1 /\ walked \in Int /\ last \in Int
    BY <1>0, <1>1 DEF Numbering, TypeOK
  <2>2. Start(current_block)' + (IF pc' = "walk" THEN walked' ELSE 0) = last' + 1
    BY <1>1, <1>2, <1>4, <2>1
  <2>. QED  BY <1>0, <1>1, <2>2 DEF Numbering, Filled, Start, kernelVars
<1>6. Backlogged'
  BY <1>0, <1>1 DEF Backlogged, Retired, Top, Start, Dist, kernelVars
<1>. QED  BY <1>3, <1>5, <1>6 DEF RingInv
LEMMA ReleaseRing ==
  ASSUME RingInv, Release
  PROVE  RingInv'
<1>. USE DEF USER, KERNEL
<1>0. TypeOK /\ Ownership /\ Walk /\ Numbering /\ Backlogged
  BY DEF RingInv
<1>c. PICK c \in Blocks : c = current_block
  BY <1>0 DEF TypeOK
<1>n. PICK n \in Blocks : n = NextBlock(c)
  BY NextBlockIs
<1>a. /\ c = current_block /\ n = NextBlock(c) /\ current_block' = n
      /\ block_status[c] = USER /\ pc = "walk" /\ pc' = "check"
      /\ walked = Len(block[c])
      /\ UNCHANGED <<block, kernelVars, num_pkts, walked, last>>
  BY <1>0, <1>c, <1>n DEF Release, Walk
<1>b. /\ block_status'[c] = KERNEL
      /\ \A b \in Blocks : b # c => block_status'[b] = block_status[b]
      /\ block_status' \in [Blocks -> {KERNEL, USER}]
  BY <1>0, <1>a DEF Release, TypeOK
<1>d. /\ Dist(c)' = BLOCK_NR - 1
      /\ \A b \in Blocks : b # c => Dist(b)' = Dist(b) - 1
      /\ \A b \in Blocks : Dist(b) \in 0 .. BLOCK_NR - 1
  <2>1. /\ n \in Blocks
        /\ c + 1 = BLOCK_NR => n = 0
        /\ c + 1 # BLOCK_NR => n = c + 1
    BY <1>n, NextBlockIs
  <2>2. \A b \in Blocks : Dist(b)' = IF b >= n THEN b - n ELSE b - n + BLOCK_NR
    BY <1>a DEF Dist
  <2>3. \A b \in Blocks : Dist(b) = IF b >= c THEN b - c ELSE b - c + BLOCK_NR
    BY <1>a DEF Dist
  <2>4. Dist(c)' = BLOCK_NR - 1
    BY <2>1, <2>2, RingAssumption DEF Blocks
  <2>5. ASSUME NEW b \in Blocks
        PROVE  Dist(b) \in 0 .. BLOCK_NR - 1 /\ (b # c => Dist(b)' = Dist(b) - 1)
    BY <2>1, <2>2, <2>3, RingAssumption DEF Blocks
  <2>. QED  BY <2>4, <2>5
<1>e. block_status[kblk] = USER => kblk = c /\ ~opened
  BY <1>0, <1>a DEF Ownership
<1>f. /\ block_status'[kblk] = KERNEL
      /\ kblk \in Blocks /\ kblk' = kblk /\ opened' = opened /\ stored' = stored
      /\ block' = block /\ stored \in Nat /\ opened \in BOOLEAN
  BY <1>0, <1>a, <1>b, <1>e DEF TypeOK, kernelVars
<1>s. \A b \in Blocks : b # c => Start(b)' = Start(b)
  BY <1>b, <1>f DEF Start
<1>1. TypeOK'
  BY <1>0, <1>a, <1>b DEF TypeOK, kernelVars
<1>2. Ownership'
  <2>1. ASSUME NEW b \in Blocks
        PROVE  block_status'[b] = USER <=> Dist(b)' < Dist(kblk)'
    <3>1. CASE block_status[kblk] = USER
      <4>1. block_status[b] = USER
        BY <1>0, <3>1 DEF Ownership
      <4>2. kblk = c /\ Dist(c)' = BLOCK_NR - 1
        BY <1>d, <1>e, <3>1
      <4>3. Dist(kblk)' = BLOCK_NR - 1
        BY <1>a, <1>f, <4>2 DEF Dist
      <4>4. CASE b = c
        BY <1>b, <1>d, <4>3, <4>4, RingAssumption
      <4>5. CASE b # c
        <5>1. Dist(b)' = Dist(b) - 1 /\ Dist(b) \in 0 .. BLOCK_NR - 1
          BY <1>d, <4>5
        <5>2. Dist(b)' < BLOCK_NR - 1
          BY <5>1, RingAssumption
        <5>. QED  BY <1>b, <4>1, <4>3, <4>5, <5>2
      <4>. QED  BY <4>4, <4>5
    <3>2. CASE block_status[kblk] = KERNEL
      <4>1. kblk # c /\ (block_status[b] = USER <=> Dist(b) < Dist(kblk))
        BY <1>0, <1>a, <3>2 DEF Ownership
      <4>2. Dist(kblk)' = Dist(kblk) - 1 /\ Dist(kblk) \in 0 .. BLOCK_NR - 1
        <5>1. PICK k \in Blocks : k = kblk
          BY <1>f
        <5>2. Dist(k)' = Dist(k) - 1 /\ Dist(k) \in 0 .. BLOCK_NR - 1
          BY <1>d, <4>1, <5>1
        <5>3. Dist(kblk)' = Dist(k)' /\ Dist(kblk) = Dist(k)
          BY <1>f, <5>1 DEF Dist
        <5>. QED  BY <5>2, <5>3
      <4>3. CASE b = c
        BY <1>b, <1>d, <4>2, <4>3, RingAssumption
      <4>4. CASE b # c
        <5>1. Dist(b)' = Dist(b) - 1 /\ Dist(b) \in 0 .. BLOCK_NR - 1
          BY <1>d, <4>4
        <5>2. Dist(b)' < Dist(kblk)' <=> Dist(b) < Dist(kblk)
          BY <4>2, <5>1
        <5>. QED  BY <1>b, <4>1, <4>4, <5>2
      <4>. QED  BY <4>3, <4>4
    <3>. QED  BY <1>0, <3>1, <3>2 DEF TypeOK
  <2>. QED  BY <1>f, <2>1 DEF Ownership
<1>3. Walk'
  BY <1>a DEF Walk
<1>4. Numbering'
  <2>1. ASSUME NEW b \in Blocks,
               block_status'[b] = USER \/ (b = kblk' /\ opened')
        PROVE  Filled(b)'
    <3>1. b # c /\ (block_status[b] = USER \/ (b = kblk /\ opened))
      BY <1>0, <1>a, <1>b, <1>e, <1>f, <2>1
    <3>. QED  BY <1>0, <1>b, <1>f, <3>1 DEF Numbering, Filled
  <2>2. ASSUME NEW b \in Blocks, block_status'[b] = USER,
               NextBlock(b) # current_block'
        PROVE  Start(NextBlock(b))' = block'[b][1] + Len(block'[b])
    <3>0. b # c /\ block_status[b] = USER /\ NextBlock(b) \in Blocks
      BY <1>b, <2>2, NextBlockIs
    <3>1. CASE NextBlock(b) = c
      <4>1. block_status[kblk] = USER
        BY <1>0, <1>a, <3>0, <3>1, OwnershipFacts DEF TypeOK
      <4>2. block[b][1] + Len(block[b]) = stored + 1
        BY <1>0, <1>e, <3>0, <3>1, <4>1 DEF Numbering
      <4>3. Start(c)' = stored + 1
        BY <1>b, <1>e, <1>f, <4>1 DEF Start
      <4>. QED  BY <1>f, <3>1, <4>2, <4>3
    <3>2. CASE NextBlock(b) # c
      <4>1. Start(NextBlock(b)) = block[b][1] + Len(block[b])
        BY <1>0, <1>a, <3>0, <3>2 DEF Numbering
      <4>. QED  BY <1>f, <1>s, <3>0, <3>2, <4>1
    <3>. QED  BY <3>1, <3>2
  <2>3. ASSUME NEW b \in Blocks,
               \/ /\ block_status'[b] = USER
                  /\ NextBlock(b) = kblk'
                  /\ block_status'[kblk'] = USER
               \/ b = kblk' /\ block_status'[b] = KERNEL /\ opened' /\ block'[b] # <<>>
        PROVE  block'[b][1] + Len(block'[b]) = stored' + 1
    <3>1. b = kblk /\ opened /\ block[b] # <<>>
      BY <1>f, <2>3
    <3>2. block_status[b] = KERNEL
      BY <1>0, <1>e, <3>1 DEF TypeOK
    <3>. QED  BY <1>0, <1>f, <3>1, <3>2 DEF Numbering
  <2>4. Start(n)' = last + 1
    <3>1. block[c][1] + Len(block[c]) = last + 1
      BY <1>0, <1>a DEF Numbering, Start
    <3>2. CASE n = c
      <4>1. block_status[kblk] = USER
        BY <1>0, <1>a, <3>2, OwnershipFacts DEF TypeOK
      <4>2. block[c][1] + Len(block[c]) = stored + 1
        BY <1>0, <1>a, <1>e, <3>2, <4>1 DEF Numbering
      <4>3. Start(c)' = stored + 1
        BY <1>b, <1>e, <1>f, <4>1 DEF Start
      <4>. QED  BY <3>1, <3>2, <4>2, <4>3
    <3>3. CASE n # c
      <4>1. Start(n) = block[c][1] + Len(block[c])
        BY <1>0, <1>a, <3>3 DEF Numbering
      <4>. QED  BY <1>s, <3>1, <3>3, <4>1
    <3>. QED  BY <3>2, <3>3
  <2>5. Start(current_block)' + (IF pc' = "walk" THEN walked' ELSE 0) = last' + 1
    <3>1. Start(current_block)' = Start(n)'
      BY <1>a DEF Start
    <3>2. last \in Nat /\ last' = last /\ pc' # "walk"
      BY <1>0, <1>a DEF TypeOK
    <3>. QED  BY <2>4, <3>1, <3>2
  <2>. QED  BY <2>1, <2>2, <2>3, <2>5, Zenon DEF Numbering
<1>5. Backlogged'
  <2>1. Retired' = Retired - 1 /\ Retired \in Int
    BY <1>a, <1>d, <1>e, <1>f, RingAssumption DEF Retired
  <2>2. Top' = Top
    BY <1>e, <1>f, <1>s DEF Top, Start
  <2>3. ASSUME NEW b \in Blocks, block_status'[b] = USER
        PROVE  block'[b][1] + Len(block'[b]) + (Retired' - Dist(b)' - 1) <= Top'
    <3>1. b # c /\ block_status[b] = USER
      BY <1>b, <2>3
    <3>2. block[b][1] + Len(block[b]) + (Retired - Dist(b) - 1) <= Top
      BY <1>0, <3>1 DEF Backlogged
    <3>3. Dist(b)' = Dist(b) - 1 /\ Dist(b) \in Int
      BY <1>d, <3>1
    <3>4. Retired' - Dist(b)' - 1 = Retired - Dist(b) - 1
      BY <2>1, <3>3
    <3>. QED  BY <1>f, <2>2, <3>2, <3>4
  <2>. QED  BY <2>3 DEF Backlogged
<1>. QED  BY <1>1, <1>2, <1>3, <1>4, <1>5 DEF RingInv

-----------------------------------------------------------------------------
(* The theorems. *)

LEMMA RingStep ==
  ASSUME RingInv, [Next]_vars
  PROVE  RingInv'
<1>1. CASE Kernel
  BY <1>1, StoreRing, RetireRing, DropRing DEF Kernel
<1>2. CASE Thread
  BY <1>2, ReadyRing, PollRing, CallbackRing, ReleaseRing DEF Thread
<1>3. CASE UNCHANGED vars
  BY <1>3 DEF vars, kernelVars, threadVars, RingInv, TypeOK, Ownership, Walk,
     Numbering, Filled, Start, Dist, Backlogged, Retired, Top
<1>. QED  BY <1>1, <1>2, <1>3 DEF Next

(* The bookkeeping of the two cursors, of the frames between them and of the
   walk (recv_block against the kernel) is right in every reachable state. *)
THEOREM RingInvariance == Spec => []RingInv
<1>1. Init => RingInv
  BY InitRing
<1>2. RingInv /\ [Next]_vars => RingInv'
  BY RingStep
<1>. QED  BY <1>1, <1>2, PTL DEF Spec

(* Every variable keeps its type: current_block, and the kernel's cursor, stay
   inside the mapping for any number of blocks (recv_block's modulo). *)
THEOREM TypeCorrect == Spec => []TypeOK
<1>1. RingInv => TypeOK
  BY DEF RingInv
<1>. QED  BY <1>1, RingInvariance, PTL

(* recv_block never sleeps on its block while another one is ready. *)
THEOREM CursorCorrect == Spec => []CursorAtOldest
<1>1. RingInv => CursorAtOldest
  <2>. SUFFICES ASSUME RingInv, NEW b \in Blocks, block_status[b] = USER
                PROVE  block_status[current_block] = USER
    BY DEF CursorAtOldest
  <2>0. TypeOK /\ Ownership /\ current_block \in Blocks /\ kblk \in Blocks
    BY DEF RingInv, TypeOK
  <2>1. CASE block_status[kblk] = USER
    BY <2>0, <2>1 DEF Ownership
  <2>2. CASE block_status[kblk] # USER
    <3>1. Dist(b) < Dist(kblk)
      BY <2>0, <2>2 DEF Ownership
    <3>2. Dist(b) \in Nat /\ Dist(kblk) \in Nat /\ Dist(current_block) = 0
      BY <2>0, DistFacts DEF Blocks
    <3>3. Dist(current_block) < Dist(kblk)
      BY <3>1, <3>2
    <3>. QED  BY <2>0, <2>2, <3>3 DEF Ownership
  <2>. QED  BY <2>1, <2>2
<1>. QED  BY <1>1, RingInvariance, PTL

(* While recv_block walks a block, between its read of num_pkts and its write of
   block_status, the contents of the block do not change. *)
THEOREM WalkedBlockUntouched == Spec => WalkedBlockStable
<1>1. RingInv /\ [Next]_vars
        => [pc = "walk" => block'[current_block] = block[current_block]]_vars
  <2>. SUFFICES ASSUME RingInv, Next, pc = "walk"
                PROVE  block'[current_block] = block[current_block]
    OBVIOUS
  <2>0. TypeOK /\ Ownership /\ block_status[current_block] = USER
    BY DEF RingInv, Walk
  <2>1. CASE KernelStore
    <3>1. current_block # kblk
      BY <2>0, <2>1 DEF KernelStore, USER, KERNEL
    <3>. QED  BY <2>0, <2>1, <3>1 DEF KernelStore, TypeOK
  <2>2. CASE KernelRetire
    <3>1. kblk' = NextBlock(kblk) /\ (opened' => block_status'[kblk'] = KERNEL)
      BY <2>2 DEF KernelRetire
    <3>2. CASE opened'
      <4>1. current_block # kblk /\ block_status'[current_block] = USER
        BY <2>0, <2>2 DEF KernelRetire, TypeOK, USER, KERNEL
      <4>2. current_block # kblk' /\ block' = [block EXCEPT ![kblk'] = <<>>]
        BY <2>2, <3>1, <3>2, <4>1 DEF KernelRetire, USER, KERNEL
      <4>. QED  BY <2>0, <4>2 DEF TypeOK
    <3>3. CASE ~opened'
      BY <2>2, <3>3 DEF KernelRetire
    <3>. QED  BY <3>2, <3>3
  <2>3. CASE KernelDrop \/ Thread
    BY <2>3 DEF KernelDrop, Thread, CheckReady, CheckNotReady, PollReturns,
       PollFails, Callback, Release
  <2>. QED  BY <2>1, <2>2, <2>3 DEF Next, Kernel
<1>. QED  BY <1>1, RingInvariance, PTL DEF Spec, WalkedBlockStable

(* The ring implements FrameQueue: frames reach the callback in arrival order,
   each once, and none is lost before BLOCK_NR - 1 frames wait. *)
THEOREM RingImplementsFrameQueue == Spec => ImplementsFrameQueue
<1>1. Init => FQ!Init
  BY DEF Init, FQ!Init
<1>2. RingInv /\ [Next]_vars => [FQ!Next]_FQ!vars
  <2>. SUFFICES ASSUME RingInv, [Next]_vars PROVE [FQ!Next]_FQ!vars
    OBVIOUS
  <2>0. TypeOK /\ Ownership
    BY DEF RingInv
  <2>1. CASE KernelStore
    BY <2>1 DEF KernelStore, threadVars, FQ!Next, FQ!Accept
  <2>2. CASE KernelDrop
    <3>1. Retired = BLOCK_NR /\ block_status[current_block] = USER
      BY <2>0, <2>2 DEF KernelDrop, Ownership, Retired, TypeOK
    <3>2. stored - last >= BLOCK_NR - 1
      BY <3>1, BacklogBound
    <3>. QED  BY <2>2, <3>2 DEF KernelDrop, threadVars, FQ!Next, FQ!Lose
  <2>3. CASE Callback
    <3>1. last' = last + 1 /\ last' <= stored /\ last \in Nat /\ stored \in Nat
      BY <2>0, <2>3, CallbackNext DEF TypeOK
    <3>2. last < stored
      BY <3>1
    <3>. QED  BY <2>3, <3>1, <3>2 DEF Callback, kernelVars, FQ!Next, FQ!Deliver
  <2>4. CASE \/ KernelRetire \/ CheckReady \/ CheckNotReady \/ PollReturns
             \/ PollFails \/ Release \/ UNCHANGED vars
    BY <2>4 DEF KernelRetire, CheckReady, CheckNotReady, PollReturns, PollFails,
       Release, vars, kernelVars, threadVars, FQ!vars
  <2>. QED  BY <2>1, <2>2, <2>3, <2>4 DEF Next, Kernel, Thread
<1>. QED
  BY <1>1, <1>2, RingInvariance, PTL DEF Spec, ImplementsFrameQueue, FQ!Spec

=============================================================================
