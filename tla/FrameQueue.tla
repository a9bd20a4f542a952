----------------------------- MODULE FrameQueue -----------------------------
(***************************************************************************)
(* What a packet capture promises its caller, whatever buffer stands       *)
(* between the kernel and the callback: frames are numbered in the order   *)
(* the kernel accepts them, the callback gets them in that order, each one *)
(* exactly once, and the kernel gives up on a frame only while a backlog   *)
(* of at least Backlog accepted frames waits for the callback.             *)
(*                                                                         *)
(* RingSocket implements this specification (RingSocket!FQ).               *)
(***************************************************************************)
EXTENDS Integers

CONSTANT Backlog   \* frames that wait before one may be lost

VARIABLES
  accepted,   \* number of frames the kernel has accepted
  delivered,  \* number of the last frame handed to the callback
  lost        \* number of frames the kernel has dropped

vars == <<accepted, delivered, lost>>

Init ==
  /\ accepted = 0
  /\ delivered = 0
  /\ lost = 0

Accept ==
  /\ accepted' = accepted + 1
  /\ UNCHANGED <<delivered, lost>>

Deliver ==
  /\ delivered < accepted
  /\ delivered' = delivered + 1
  /\ UNCHANGED <<accepted, lost>>

Lose ==
  /\ accepted - delivered >= Backlog
  /\ lost' = lost + 1
  /\ UNCHANGED <<accepted, delivered>>

Next == Accept \/ Deliver \/ Lose

Spec == Init /\ [][Next]_vars

=============================================================================
