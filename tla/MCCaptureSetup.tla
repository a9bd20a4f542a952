-------------------------- MODULE MCCaptureSetup ---------------------------
(***************************************************************************)
(* Instances of CaptureSetup for TLC: all arguments, or a ring buffer      *)
(* without filters.  Two frames are enough to have one from before the end *)
(* of the setup and one from after.                                        *)
(***************************************************************************)
EXTENDS CaptureSetup

AllArgs == [ring_buffer : BOOLEAN, filter_port : BOOLEAN, filter_proto : BOOLEAN]
RingUnfiltered == [ring_buffer : {TRUE}, filter_port : {FALSE}, filter_proto : {FALSE}]

=============================================================================
