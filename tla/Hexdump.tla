------------------------------ MODULE Hexdump -------------------------------
(***************************************************************************)
(* The dump of a frame (src/netzer-core/src/hexdump.rs): rows of sixteen   *)
(* bytes, each an offset, the bytes in two groups of eight, and the same   *)
(* bytes as text.  Of the layout the model keeps what stands where: a cell *)
(* for each byte of the row, a gap between the groups, and blank cells     *)
(* where the last row has no bytes.                                        *)
(***************************************************************************)
EXTENDS Integers, Sequences, SequencesExt

BYTES == 16    \* per row

\* A gap goes in front of the ninth cell, wherever the bytes end.
Cell(i, what) == IF i = 9 THEN <<"gap", what>> ELSE <<what>>

Hex(chunk) ==
  FlattenSeq([i \in 1 .. Len(chunk) |-> Cell(i, chunk[i])])
    \o FlattenSeq([i \in 1 .. BYTES - Len(chunk) |-> Cell(Len(chunk) + i, "blank")])

Row(data, offset) ==
  LET end == IF offset + BYTES < Len(data) THEN offset + BYTES ELSE Len(data)
      chunk == SubSeq(data, offset + 1, end)
  IN [offset |-> offset, hex |-> Hex(chunk), text |-> chunk]

Dump(data) ==
  [k \in 1 .. (Len(data) + BYTES - 1) \div BYTES |-> Row(data, BYTES * (k - 1))]

=============================================================================
