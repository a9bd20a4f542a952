---------------------------- MODULE SequenceOps -----------------------------
(***************************************************************************)
(* What PacketHandlers and Dashboard say about sequences, with sets and    *)
(* functions where SelectSeq and FoldLeft take operators: NetZerProofs     *)
(* proves the laws of Keep and Total from their recursions.                *)
(***************************************************************************)
EXTENDS Integers, Sequences

\* The elements of s that are in S, in the order of s.
Keep(s, S) ==
  LET kept[i \in 0 .. Len(s)] ==
        IF i = 0 THEN <<>>
        ELSE IF s[i] \in S THEN Append(kept[i - 1], s[i]) ELSE kept[i - 1]
  IN kept[Len(s)]

\* The sum of a sequence of numbers.
Total(ns) ==
  LET sum[i \in 0 .. Len(ns)] == IF i = 0 THEN 0 ELSE sum[i - 1] + ns[i]
  IN sum[Len(ns)]

\* ns lists the numbers in S: each of them once, in order, and no other.
Lists(ns, S) ==
  /\ \A i, j \in DOMAIN ns : i < j => ns[i] < ns[j]
  /\ {ns[i] : i \in DOMAIN ns} = S

=============================================================================
