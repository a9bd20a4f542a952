----------------------------- MODULE WsProtocol -----------------------------
(***************************************************************************)
(* The WebSocket half of src/netzer-cli/src/web/mod.rs that computes: the  *)
(* answer to the key of an upgrade request (SHA-1 and Base64, both written *)
(* out there), and the header of a text frame.                             *)
(*                                                                         *)
(* Bytes are numbers, a u32 is the sequence of its bits, from the highest; *)
(* text is a string, and a payload is its length.                          *)
(***************************************************************************)
EXTENDS Integers, Sequences, SequencesExt

(* Bytes and words. *)

\* Big-endian; `as u16` drops what does not fit.
U16(n) == <<(n \div 256) % 256, n % 256>>
U64(n) ==
  LET up(k) == k \div 65536
  IN U16(up(up(up(n)))) \o U16(up(up(n))) \o U16(up(n)) \o U16(n)

Bits(n, width) == [i \in 1 .. width |-> (n \div 2 ^ (width - i)) % 2]
Number(bits) == FoldLeft(LAMBDA n, b : 2 * n + b, 0, bits)

Word(hi, lo) == Bits(hi, 16) \o Bits(lo, 16)
High(w) == Number(SubSeq(w, 1, 16))
Low(w) == Number(SubSeq(w, 17, 32))

RotateLeft(w, n) == SubSeq(w, n + 1, 32) \o SubSeq(w, 1, n)
Xor(v, w) == [i \in 1 .. 32 |-> (v[i] + w[i]) % 2]

\* wrapping_add of several words.
Sum(ws) ==
  LET lo == FoldLeft(LAMBDA n, w : n + Low(w), 0, ws)
      hi == FoldLeft(LAMBDA n, w : n + High(w), lo \div 65536, ws)
  IN Word(hi % 65536, lo % 65536)

\* A for loop: op for each i of 1 .. n, on a sequence of words; by halves, so that
\* the recursion stays flat.
Loop(op(_, _), ws, n) ==
  LET from[v \in Seq(Seq(0 .. 1)), i \in Nat, k \in 0 .. n] ==
        CASE k = 0 -> v
          [] k = 1 -> op(v, i)
          [] OTHER -> from[from[v, i, k \div 2], i + k \div 2, k - k \div 2]
  IN from[ws, 1, n]

-----------------------------------------------------------------------------
(* sha1. *)

\* One byte 128, zeros up to 8 bytes before the end of a block, the length in bits.
Zeros(len) == (55 - len) % 64
Padded(data) ==
  data \o <<128>> \o [i \in 1 .. Zeros(Len(data)) |-> 0] \o U64(8 * Len(data))

\* The bytes of a block as 16 words, and the 64 that follow from them.
Schedule(block) ==
  Loop(LAMBDA w, i : Append(w, RotateLeft(Xor(Xor(w[i + 13], w[i + 8]), Xor(w[i + 2], w[i])), 1)),
       [i \in 1 .. 16 |-> Bits(block[4 * i - 3], 8) \o Bits(block[4 * i - 2], 8)
                            \o Bits(block[4 * i - 1], 8) \o Bits(block[4 * i], 8)],
       64)

\* f and k of round i, counted from 1.
Choose(b, c, d) == [i \in 1 .. 32 |-> IF b[i] = 1 THEN c[i] ELSE d[i]]
Majority(b, c, d) == [i \in 1 .. 32 |-> (b[i] + c[i] + d[i]) \div 2]
Mix(i, b, c, d) ==
  CASE i \in 1 .. 20  -> <<Choose(b, c, d), Word(23170, 31129)>>
    [] i \in 21 .. 40 -> <<Xor(Xor(b, c), d), Word(28377, 60321)>>
    [] i \in 41 .. 60 -> <<Majority(b, c, d), Word(36635, 48348)>>
    [] OTHER          -> <<Xor(Xor(b, c), d), Word(51810, 49622)>>

\* h is <<h0, ..., h4>>, and v is <<a, b, c, d, e>>.
Compress(h, block) ==
  LET w == Schedule(block)
      round(v, i) ==
        <<Sum(<<RotateLeft(v[1], 5), v[5], w[i]>> \o Mix(i, v[2], v[3], v[4])),
          v[1], RotateLeft(v[2], 30), v[3], v[4]>>
      last == Loop(round, h, 80)
  IN [i \in 1 .. 5 |-> Sum(<<h[i], last[i]>>)]

Sha1(data) ==
  LET bytes == Padded(data)
      h == Loop(LAMBDA v, i : Compress(v, SubSeq(bytes, 64 * i - 63, 64 * i)),
                <<Word(26437, 8961), Word(61389, 43913), Word(39098, 56574),
                  Word(4146, 21622), Word(50130, 57840)>>,
                Len(bytes) \div 64)
  IN FlattenSeq([i \in 1 .. 5 |-> U16(High(h[i])) \o U16(Low(h[i]))])

-----------------------------------------------------------------------------
(* base64_encode. *)

ALPHABET == "ABCDEFGHIJKLMNOPQRSTUVWXYZabcdefghijklmnopqrstuvwxyz0123456789+/"

Sextets(chunk) ==
  LET b == chunk \o [i \in 1 .. 3 - Len(chunk) |-> 0]
  IN <<b[1] \div 4, 16 * (b[1] % 4) + b[2] \div 16, 4 * (b[2] % 16) + b[3] \div 64, b[3] % 64>>

\* A chunk of n bytes makes n + 1 characters, filled up to four.
EncodeChunk(chunk) ==
  FoldLeft(LAMBDA s, v : s \o SubSeq(ALPHABET, v + 1, v + 1), "",
           SubSeq(Sextets(chunk), 1, Len(chunk) + 1))
    \o SubSeq("==", 1, 3 - Len(chunk))

Base64Encode(data) ==
  LET chunk(i) == SubSeq(data, 3 * i - 2, IF 3 * i < Len(data) THEN 3 * i ELSE Len(data))
  IN FoldLeft(LAMBDA s, i : s \o EncodeChunk(chunk(i)), "",
              [i \in 1 .. (Len(data) + 2) \div 3 |-> i])

-----------------------------------------------------------------------------
(* The key of an upgrade request and what the client must be told. *)

\* as_bytes, for the characters from + to z but those between Z and a.
Ascii == "+,-./0123456789:;<=>?@ABCDEFGHIJKLMNOPQRSTUVWXYZ??????abcdefghijklmnopqrstuvwxyz"
AsBytes(s) ==
  [i \in 1 .. Len(s) |->
     42 + CHOOSE n \in 1 .. Len(Ascii) : SubSeq(Ascii, n, n) = SubSeq(s, i, i)]

AcceptKey(key) ==
  Base64Encode(Sha1(AsBytes(key \o "258EAFA5-E914-47DA-95CA-C5AB0DC85B11")))

-----------------------------------------------------------------------------
(* encode_ws_text_frame. *)

TEXT == 129    \* FIN, opcode 1

FrameHeader(len) ==
  <<TEXT>> \o (IF len <= 125 THEN <<len>>
               ELSE IF len <= 65535 THEN <<126>> \o U16(len)
               ELSE <<127>> \o U64(len))

\* How a client reads the length of a payload from the header of its frame.
FrameLength(h) ==
  CASE h[2] <= 125 -> h[2]
    [] h[2] = 126  -> 256 * h[3] + h[4]
    [] OTHER       -> LET next(n, i) == 65536 * n + 256 * h[i] + h[i + 1]
                      IN next(next(next(h[3] * 256 + h[4], 5), 7), 9)

=============================================================================
