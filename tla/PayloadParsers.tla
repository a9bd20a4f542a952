--------------------------- MODULE PayloadParsers ---------------------------
(***************************************************************************)
(* TlsClientHello::parse (src/netzer-core/src/tls.rs) and DnsQuery::parse  *)
(* (dns.rs): the two parsers that walk over lengths found in the payload.  *)
(* They run on the capture thread, where an index or a slice outside the   *)
(* buffer panics and ends the capture.                                     *)
(*                                                                         *)
(* A payload is its length; no byte is read twice, so what a byte or a     *)
(* two-byte length holds is chosen when it is read.                        *)
(***************************************************************************)
EXTENDS Integers

CONSTANTS
  Lens,    \* bound: lengths of payloads
  Bytes,   \* bound: values of a length byte
  Words    \* bound: values of a length of two bytes

ASSUME ParserAssumption ==
  /\ Lens \subseteq Nat
  /\ Bytes \subseteq Nat
  /\ Words \subseteq Nat

VARIABLES
  parser,      \* which of the two parsers runs
  len,         \* length of the payload
  pc,          \* the field to be read next
  offset,      \* the cursor of both
  extensions_end,       \* end of the extensions of a ClientHello
  sni_offset, sni_end,  \* cursor and end of the names of an SNI extension
  labels,      \* labels the domain is made of so far
  name,        \* the slice the last name or label was taken from
  verdict      \* what parse returns: nothing yet, ok, err; or panic

walk == <<offset, extensions_end, sni_offset, sni_end, labels, name>>
vars == <<parser, len, pc, walk, verdict>>

NoName == [start |-> 0, past |-> 0]

Init ==
  /\ parser \in {"tls", "dns"}
  /\ len \in Lens
  /\ pc = IF parser = "tls" THEN "record" ELSE "header"
  /\ offset = 0
  /\ extensions_end = 0
  /\ sni_offset = 0
  /\ sni_end = 0
  /\ labels = 0
  /\ name = NoName
  /\ verdict = "none"

Return(v) == pc' = "done" /\ verdict' = v /\ UNCHANGED <<parser, len, walk>>

\* The index or the end of the slice is past the buffer.
Panic == Return("panic")
Err == Return("err")

\* The field that ends at past is read, the cursor moves to next, and need
\* bytes must be there for the field that follows.
Advance(past, next, need, step) ==
  IF past > len THEN Panic
  ELSE IF next + need > len THEN Err
  ELSE /\ offset' = next
       /\ pc' = step
       /\ UNCHANGED <<parser, len, extensions_end, sni_offset, sni_end, labels, name, verdict>>

-----------------------------------------------------------------------------
(* TlsClientHello::parse. *)

RECORD_HEADER == 5
SESSION_ID == 43      \* behind handshake header, version and random

\* The record header, then the type of handshake, which is read whether or not
\* the record has a body.
Record ==
  /\ pc = "record"
  /\ \/ Err                                     \* not a handshake
     \/ \E record_len \in Words :
          IF len < RECORD_HEADER + record_len THEN Err
          ELSE \/ RECORD_HEADER < len /\ Err    \* not a ClientHello
               \/ Advance(RECORD_HEADER + 1, SESSION_ID, 1, "session_id")

SessionId ==
  /\ pc = "session_id"
  /\ \E n \in Bytes : Advance(offset + 1, offset + 1 + n, 2, "cipher_suites")

CipherSuites ==
  /\ pc = "cipher_suites"
  /\ \E n \in Words : Advance(offset + 2, offset + 2 + n, 1, "compression")

\* seeded fault: one byte is asked for where two are read
CompressionMethods_OffByOne ==
  /\ pc = "compression"
  /\ \E n \in Bytes : Advance(offset + 1, offset + 1 + n, 1, "extensions_len")

CompressionMethods ==
  /\ pc = "compression"
  /\ \E n \in Bytes : Advance(offset + 1, offset + 1 + n, 2, "extensions_len")

\* seeded fault: the length of the extensions is believed
ExtensionsLength_Unchecked ==
  /\ pc = "extensions_len"
  /\ \E n \in Words :
       /\ offset' = offset + 2
       /\ extensions_end' = offset' + n
       /\ pc' = "extensions"
       /\ UNCHANGED <<parser, len, sni_offset, sni_end, labels, name, verdict>>

ExtensionsLength ==
  /\ pc = "extensions_len"
  /\ \E n \in Words :
       IF offset + 2 > len THEN Panic
       ELSE IF offset + 2 + n > len THEN Err
       ELSE /\ offset' = offset + 2
            /\ extensions_end' = offset' + n
            /\ pc' = "extensions"
            /\ UNCHANGED <<parser, len, sni_offset, sni_end, labels, name, verdict>>

\* seeded fault: only the body of an extension is skipped, not its header
Extension_HeaderKept ==
  /\ pc = "extensions"
  /\ offset + 4 <= extensions_end
  /\ \E ext_len \in Words :
       IF offset + ext_len > extensions_end THEN Err
       ELSE /\ offset' = offset + ext_len
            /\ UNCHANGED <<parser, len, pc, extensions_end, sni_offset, sni_end, labels,
                           name, verdict>>

\* An extension: the names of an SNI are looked at, others are skipped.
Extension ==
  /\ pc = "extensions"
  /\ offset + 4 <= extensions_end
  /\ IF offset + 4 > len THEN Panic
     ELSE \E ext_len \in Words :
       IF offset + 4 + ext_len > extensions_end THEN Err
       ELSE \/ /\ offset' = offset + 4 + ext_len
               /\ UNCHANGED <<parser, len, pc, extensions_end, sni_offset, sni_end, labels,
                              name, verdict>>
            \/ ext_len < 2 /\ Err
            \/ /\ ext_len >= 2
               /\ offset' = offset + 4
               /\ sni_offset' = offset' + 2
               /\ sni_end' = offset' + ext_len
               /\ pc' = "names"
               /\ UNCHANGED <<parser, len, extensions_end, labels, name, verdict>>

\* The last extension has been looked at and none gave a name.
NoMoreExtensions ==
  /\ pc = "extensions"
  /\ offset + 4 > extensions_end
  /\ Err

\* The slice of a name is made; what is not UTF-8 is refused.
TakeName(start, past) ==
  IF past > len THEN Panic
  ELSE \/ start < past /\ Err
       \/ /\ name' = [start |-> start, past |-> past]
          /\ pc' = "done"
          /\ verdict' = "ok"
          /\ UNCHANGED <<parser, len, offset, extensions_end, sni_offset, sni_end, labels>>

SkipName(past) ==
  /\ sni_offset' = past
  /\ UNCHANGED <<parser, len, pc, offset, extensions_end, sni_end, labels, name, verdict>>

\* seeded fault: the length of the name is believed
SniName_Unchecked ==
  /\ pc = "names"
  /\ sni_offset + 3 <= sni_end
  /\ \E name_len \in Words :
       TakeName(sni_offset + 3, sni_offset + 3 + name_len) \/ SkipName(sni_offset + 3 + name_len)

\* A name of the SNI list: a host name ends the parse, another is skipped.
SniName ==
  /\ pc = "names"
  /\ sni_offset + 3 <= sni_end
  /\ IF sni_offset + 3 > len THEN Panic
     ELSE \E name_len \in Words :
       IF sni_offset + 3 + name_len > sni_end THEN Err
       ELSE \/ TakeName(sni_offset + 3, sni_offset + 3 + name_len)
            \/ SkipName(sni_offset + 3 + name_len)

\* No host name in this extension: offset moves by ext_len, to its end.
NoMoreNames ==
  /\ pc = "names"
  /\ sni_offset + 3 > sni_end
  /\ offset' = sni_end
  /\ pc' = "extensions"
  /\ UNCHANGED <<parser, len, extensions_end, sni_offset, sni_end, labels, name, verdict>>

Tls ==
  \/ Record \/ SessionId \/ CipherSuites \/ CompressionMethods \/ ExtensionsLength
  \/ Extension \/ NoMoreExtensions \/ SniName \/ NoMoreNames

-----------------------------------------------------------------------------
(* DnsQuery::parse. *)

DNS_HEADER == 12

\* A response, or a query without a question, is refused.
Header ==
  /\ pc = "header"
  /\ \/ Err
     \/ /\ len >= DNS_HEADER
        /\ Advance(6, DNS_HEADER, 0, "labels")

IsPointer(n) == n >= 192

\* seeded fault: a label may end where the buffer ends
Label_OffByOne ==
  /\ pc = "labels"
  /\ offset < len
  /\ \E n \in Bytes \ {0} :
       IF IsPointer(n) \/ offset + 1 + n > len THEN Err
       ELSE /\ name' = [start |-> offset + 1, past |-> offset + 1 + n]
            /\ labels' = labels + 1
            /\ offset' = offset + 1 + n
            /\ UNCHANGED <<parser, len, pc, extensions_end, sni_offset, sni_end, verdict>>

\* A label: refused when it is a pointer, reaches the end of the buffer or is
\* not UTF-8.
Label ==
  /\ pc = "labels"
  /\ offset < len
  /\ \E n \in Bytes \ {0} :
       IF IsPointer(n) \/ offset + 1 + n >= len THEN Err
       ELSE \/ Err
            \/ /\ name' = [start |-> offset + 1, past |-> offset + 1 + n]
               /\ labels' = labels + 1
               /\ offset' = offset + 1 + n
               /\ UNCHANGED <<parser, len, pc, extensions_end, sni_offset, sni_end, verdict>>

\* The loop ends, at a zero byte or at the end of the buffer.
EndOfName ==
  /\ pc = "labels"
  /\ 0 \in Bytes \/ offset >= len
  /\ Return(IF labels = 0 THEN "err" ELSE "ok")

Dns == Header \/ Label \/ EndOfName

-----------------------------------------------------------------------------
Next == Tls \/ Dns

Spec == Init /\ [][Next]_vars

-----------------------------------------------------------------------------
(* Properties. *)

\* Every variable has its type; the extensions end inside the buffer (tls.rs:74).
TypeOK ==
  /\ parser \in {"tls", "dns"}
  /\ len \in Lens
  /\ pc \in {"record", "session_id", "cipher_suites", "compression", "extensions_len",
             "extensions", "names", "header", "labels", "done"}
  /\ {offset, sni_offset, sni_end, labels} \subseteq Nat
  /\ extensions_end \in 0 .. len
  /\ name \in [start : Nat, past : Nat]
  /\ verdict \in {"none", "ok", "err", "panic"}

\* No index and no slice leaves the buffer, whatever the lengths in it say, but
\* for the one read of the handshake type when a record has no body: five bytes
\* that pass every check of tls.rs:10 to :23.
OnlyEmptyRecordPanics ==
  verdict = "panic" => parser = "tls" /\ len = RECORD_HEADER

\* The host name returned lies in the SNI extension it was found in, and that in
\* the extensions: no neighbouring bytes are shown as a name (tls.rs:101).
NameInExtension ==
  parser = "tls" /\ verdict = "ok" =>
    /\ name.start <= name.past
    /\ name.past <= sni_end
    /\ sni_end <= extensions_end

\* A domain is returned only when the zero byte behind its last label has been
\* seen: a query cut short by the capture never gives half a name (dns.rs:43).
DomainTerminated ==
  parser = "dns" /\ verdict = "ok" => name.past = offset /\ offset < len

\* Where the next read is, and how many bytes it takes.
Cursor == IF pc = "names" THEN sni_offset ELSE offset
Width ==
  CASE pc \in {"session_id", "compression", "labels"} -> 1
    [] pc \in {"cipher_suites", "extensions_len"} -> 2
    [] pc = "extensions" -> 4
    [] pc = "names" -> IF sni_offset + 3 <= sni_end THEN 3 ELSE 0
    [] OTHER -> 0

\* No byte is read twice, by either loop: each turn begins behind what the one
\* before has read, even when the length it has found there is 0.  So a turn that
\* reads moves on, and neither loop runs for ever (tls.rs:79, :96, dns.rs:31).
NoByteReadTwice == [][verdict' = "none" => Cursor' >= Cursor + Width]_vars

=============================================================================
