SPECIFICATION FairSpec
CONSTANTS
  BLOCK_NR = 3
  BlockCap = 2
  MaxFrames = 9
  MaxDrops = 2
INVARIANTS TypeOK CursorAtOldest RingInv
PROPERTIES WalkedBlockStable ImplementsFrameQueue EveryFrameDelivered
