---------------------------- MODULE MCRingSocket ----------------------------
(***************************************************************************)
(* Instances of RingSocket for TLC.  Three blocks of two frames: enough    *)
(* for the cursors to go around the ring, to meet when it is empty and     *)
(* when it is full, and for a block to be retired half full by the timer.  *)
(***************************************************************************)
EXTENDS RingSocket

=============================================================================
