-------------------------- MODULE MCPayloadParsers --------------------------
(***************************************************************************)
(* Instance of PayloadParsers for TLC: payloads that end before, at and    *)
(* behind each check, and lengths that are empty, short, just fit or do    *)
(* not.  The shortest ClientHello with a name of one byte has 59 bytes.    *)
(***************************************************************************)
EXTENDS PayloadParsers

SmallLens == {0, 4, 5, 6, 11, 12, 13, 14, 15, 16, 17, 20} \cup 42 .. 66
SmallBytes == {0, 1, 2, 3, 191, 192}
SmallWords == {0, 1, 2, 3, 4, 5, 6, 9, 14, 65535}

=============================================================================
