---------------------------- MODULE MCWebServer ----------------------------
(***************************************************************************)
(* Instances of WebServer for TLC, and of the functions of WsProtocol its  *)
(* handlers and its broadcaster call.                                      *)
(***************************************************************************)
EXTENDS WebServer, WsProtocol

\* The example of RFC 6455, section 1.3: two blocks of SHA-1, a last group of two.
ASSUME AcceptSample ==
  AcceptKey("dGhlIHNhbXBsZSBub25jZQ==") = "s3pPLMBiTxaQ9kYGzzhZRbK+xOo="

\* FIPS 180, one block; RFC 4648, a last group of one, two and three bytes.
ASSUME Samples ==
  /\ Sha1(AsBytes("abc")) =
       <<169, 153, 62, 54, 71, 6, 129, 106, 186, 62, 37, 113, 120, 80, 194, 108, 156, 208, 216, 157>>
  /\ Base64Encode(AsBytes("f")) = "Zg=="
  /\ Base64Encode(AsBytes("foobar")) = "Zm9vYmFy"
  /\ Base64Encode(<<>>) = ""

\* Padding fills whole blocks, with less than a block more than is needed.
ASSUME Blocks ==
  \A n \in 0 .. 130 :
    LET len == Len(Padded([i \in 1 .. n |-> 1])) IN len % 64 = 0 /\ len - 9 - n \in 0 .. 63

\* A client finds every length, around the borders of the three forms.
ASSUME Lengths ==
  \A n \in 0 .. 300 \cup 65500 .. 65600 \cup {100000, 16777216} : FrameLength(FrameHeader(n)) = n

=============================================================================
