------------------------ MODULE PayloadParsersProofs ------------------------
(***************************************************************************)
(* Proofs about PayloadParsers: for a payload of any length with any bytes *)
(* in it, no read leaves it but the one of an empty record, and a name is  *)
(* taken from where it belongs.                                            *)
(***************************************************************************)
EXTENDS PayloadParsers, TLAPS

TlsFields == {"record", "session_id", "cipher_suites", "compression", "extensions_len",
              "extensions", "names"}
DnsFields == {"header", "labels"}

\* The field to be read next is there: what each check is for.
Room ==
  /\ pc = "session_id" => offset + 1 <= len
  /\ pc = "cipher_suites" => offset + 2 <= len
  /\ pc = "compression" => offset + 1 <= len
  /\ pc = "extensions_len" => offset + 2 <= len
  /\ pc = "names" => sni_offset <= sni_end /\ sni_end <= extensions_end
  /\ pc \in {"record", "header"} => labels = 0 /\ offset = 0
  /\ pc = "labels" /\ labels # 0 => name.past = offset /\ offset < len

Running ==
  /\ parser = "tls" => pc \in TlsFields \cup {"done"}
  /\ parser = "dns" => pc \in DnsFields \cup {"done"}
  /\ verdict = "none" <=> pc # "done"

\* The properties speak of the verdict; what it rests on is Room.
ParserInv ==
  /\ TypeOK /\ Running /\ Room
  /\ OnlyEmptyRecordPanics /\ NameInExtension /\ DomainTerminated

-----------------------------------------------------------------------------

LEMMA Ranges ==
  /\ Lens \subseteq Nat
  /\ \A n \in Bytes : n \in Nat
  /\ \A n \in Words : n \in Nat
BY ParserAssumption

LEMMA InitParserInv == Init => ParserInv
BY Ranges
DEF Init, ParserInv, TypeOK, Running, Room, TlsFields, DnsFields, NoName,
    OnlyEmptyRecordPanics, NameInExtension, DomainTerminated

(* A refusal keeps everything. *)
LEMMA ErrStep ==
  ASSUME ParserInv, pc # "done", Err
  PROVE  ParserInv'
BY DEF Err, Return, walk, ParserInv, TypeOK, Running, Room, TlsFields, DnsFields,
       OnlyEmptyRecordPanics, NameInExtension, DomainTerminated

(* A field that is there is read, and the next one is known to be there. *)
LEMMA AdvanceStep ==
  ASSUME ParserInv, pc # "done", NEW past \in Nat, NEW next \in Nat, NEW need \in Nat,
         NEW step \in (TlsFields \cup DnsFields) \ {"record", "extensions", "names", "header"},
         past <= len,
         parser = "tls" => step \in TlsFields,
         parser = "dns" => step \in DnsFields,
         step \in {"session_id", "compression"} => need = 1,
         step \in {"cipher_suites", "extensions_len"} => need = 2,
         step = "labels" => labels = 0,
         Advance(past, next, need, step)
  PROVE  ParserInv'
<1>1. CASE next + need > len
  BY <1>1, Ranges, ErrStep DEF Advance, ParserInv, TypeOK
<1>2. CASE ~(next + need > len)
  <2>1. /\ offset' = next /\ pc' = step /\ pc' # "done"
        /\ UNCHANGED <<parser, len, extensions_end, sni_offset, sni_end, labels, name, verdict>>
    BY <1>2, Ranges DEF Advance, ParserInv, TypeOK, TlsFields, DnsFields
  <2>2. len \in Nat
    BY Ranges DEF ParserInv, TypeOK
  <2>3. TypeOK'
    BY <2>1 DEF ParserInv, TypeOK, TlsFields, DnsFields
  <2>4. Running' /\ verdict' = "none"
    BY <2>1 DEF ParserInv, Running
  <2>5. Room'
    BY <1>2, <2>1, <2>2 DEF Room
  <2>. QED
    BY <2>3, <2>4, <2>5 DEF ParserInv, OnlyEmptyRecordPanics, NameInExtension, DomainTerminated
<1>. QED  BY <1>1, <1>2

-----------------------------------------------------------------------------
(* TlsClientHello::parse. *)

LEMMA RecordStep ==
  ASSUME ParserInv, Record
  PROVE  ParserInv'
<1>0. parser = "tls" /\ pc = "record" /\ len \in Nat
  BY Ranges DEF ParserInv, TypeOK, Running, Record, DnsFields
<1>1. CASE Err
  BY <1>0, <1>1, ErrStep
<1>2. CASE Advance(RECORD_HEADER + 1, SESSION_ID, 1, "session_id") /\ RECORD_HEADER < len
  BY <1>0, <1>2, AdvanceStep DEF RECORD_HEADER, SESSION_ID, TlsFields
<1>3. CASE Advance(RECORD_HEADER + 1, SESSION_ID, 1, "session_id") /\ len = RECORD_HEADER
  <2>1. Panic
    BY <1>0, <1>3 DEF Advance, RECORD_HEADER
  <2>. QED
    BY <1>0, <1>3, <2>1 DEF Panic, Return, walk, ParserInv, TypeOK, Running, Room, TlsFields,
       DnsFields, OnlyEmptyRecordPanics, NameInExtension, DomainTerminated
<1>. QED
  BY <1>0, <1>1, <1>2, <1>3, Ranges DEF Record, RECORD_HEADER

LEMMA LengthFieldStep ==
  ASSUME ParserInv, SessionId \/ CipherSuites \/ CompressionMethods
  PROVE  ParserInv'
<1>0. parser = "tls" /\ pc \in {"session_id", "cipher_suites", "compression"}
      /\ len \in Nat /\ offset \in Nat
  BY Ranges DEF ParserInv, TypeOK, Running, DnsFields, SessionId, CipherSuites,
     CompressionMethods
<1>1. CASE SessionId
  <2>1. PICK n \in Bytes : Advance(offset + 1, offset + 1 + n, 2, "cipher_suites")
    BY <1>1 DEF SessionId
  <2>2. offset + 1 <= len /\ n \in Nat
    BY <1>1, Ranges DEF SessionId, ParserInv, Room
  <2>. QED  BY <1>0, <2>1, <2>2, AdvanceStep DEF TlsFields
<1>2. CASE CipherSuites
  <2>1. PICK n \in Words : Advance(offset + 2, offset + 2 + n, 1, "compression")
    BY <1>2 DEF CipherSuites
  <2>2. offset + 2 <= len /\ n \in Nat
    BY <1>2, Ranges DEF CipherSuites, ParserInv, Room
  <2>. QED  BY <1>0, <2>1, <2>2, AdvanceStep DEF TlsFields
<1>3. CASE CompressionMethods
  <2>1. PICK n \in Bytes : Advance(offset + 1, offset + 1 + n, 2, "extensions_len")
    BY <1>3 DEF CompressionMethods
  <2>2. offset + 1 <= len /\ n \in Nat
    BY <1>3, Ranges DEF CompressionMethods, ParserInv, Room
  <2>. QED  BY <1>0, <2>1, <2>2, AdvanceStep DEF TlsFields
<1>. QED  BY <1>1, <1>2, <1>3

LEMMA ExtensionsLengthStep ==
  ASSUME ParserInv, ExtensionsLength
  PROVE  ParserInv'
<1>0. parser = "tls" /\ pc = "extensions_len" /\ len \in Nat /\ offset \in Nat
      /\ offset + 2 <= len /\ verdict = "none"
  BY Ranges DEF ParserInv, TypeOK, Running, Room, DnsFields, ExtensionsLength
<1>1. PICK n \in Words :
        IF offset + 2 + n > len THEN Err
        ELSE /\ offset' = offset + 2
             /\ extensions_end' = offset' + n
             /\ pc' = "extensions"
             /\ UNCHANGED <<parser, len, sni_offset, sni_end, labels, name, verdict>>
  BY <1>0 DEF ExtensionsLength
<1>2. CASE offset + 2 + n > len
  BY <1>0, <1>1, <1>2, ErrStep
<1>3. CASE ~(offset + 2 + n > len)
  <2>1. n \in Nat
    BY Ranges
  <2>2. offset' \in Nat /\ extensions_end' \in 0 .. len
    BY <1>0, <1>1, <1>3, <2>1
  <2>. QED
    BY <1>0, <1>1, <1>3, <2>2 DEF ParserInv, TypeOK, Running, Room, TlsFields,
       OnlyEmptyRecordPanics, NameInExtension, DomainTerminated
<1>. QED  BY <1>2, <1>3

LEMMA ExtensionStep ==
  ASSUME ParserInv, Extension
  PROVE  ParserInv'
<1>0. /\ parser = "tls" /\ pc = "extensions" /\ len \in Nat /\ offset \in Nat
      /\ extensions_end \in 0 .. len /\ offset + 4 <= extensions_end /\ verdict = "none"
  BY Ranges DEF ParserInv, TypeOK, Running, Room, DnsFields, Extension
<1>1. ~(offset + 4 > len)
  BY <1>0
<1>2. PICK n \in Words :
        IF offset + 4 + n > extensions_end THEN Err
        ELSE \/ /\ offset' = offset + 4 + n
                /\ UNCHANGED <<parser, len, pc, extensions_end, sni_offset, sni_end, labels,
                               name, verdict>>
             \/ n < 2 /\ Err
             \/ /\ n >= 2
                /\ offset' = offset + 4
                /\ sni_offset' = offset' + 2
                /\ sni_end' = offset' + n
                /\ pc' = "names"
                /\ UNCHANGED <<parser, len, extensions_end, labels, name, verdict>>
  BY <1>1 DEF Extension
<1>3. n \in Nat
  BY Ranges
<1>4. CASE Err
  BY <1>0, <1>4, ErrStep
<1>5. CASE /\ offset' = offset + 4 + n
           /\ UNCHANGED <<parser, len, pc, extensions_end, sni_offset, sni_end, labels,
                          name, verdict>>
  BY <1>0, <1>3, <1>5 DEF ParserInv, TypeOK, Running, Room, TlsFields,
     OnlyEmptyRecordPanics, NameInExtension, DomainTerminated
<1>6. CASE /\ offset + 4 + n <= extensions_end
           /\ n >= 2
           /\ offset' = offset + 4
           /\ sni_offset' = offset' + 2
           /\ sni_end' = offset' + n
           /\ pc' = "names"
           /\ UNCHANGED <<parser, len, extensions_end, labels, name, verdict>>
  <2>1. offset' \in Nat /\ sni_offset' \in Nat /\ sni_end' \in Nat
        /\ sni_offset' <= sni_end' /\ sni_end' <= extensions_end
    BY <1>0, <1>3, <1>6
  <2>. QED
    BY <1>0, <1>6, <2>1 DEF ParserInv, TypeOK, Running, Room, TlsFields,
       OnlyEmptyRecordPanics, NameInExtension, DomainTerminated
<1>. QED  BY <1>0, <1>2, <1>3, <1>4, <1>5, <1>6

LEMMA SniNameStep ==
  ASSUME ParserInv, SniName
  PROVE  ParserInv'
<1>0. /\ parser = "tls" /\ pc = "names" /\ len \in Nat /\ sni_offset \in Nat /\ sni_end \in Nat
      /\ extensions_end \in 0 .. len /\ verdict = "none"
      /\ sni_offset + 3 <= sni_end /\ sni_end <= extensions_end
  BY Ranges DEF ParserInv, TypeOK, Running, Room, DnsFields, SniName
<1>1. PICK n \in Words :
        IF sni_offset + 3 + n > sni_end THEN Err
        ELSE \/ TakeName(sni_offset + 3, sni_offset + 3 + n)
             \/ SkipName(sni_offset + 3 + n)
  BY <1>0 DEF SniName
<1>2. n \in Nat
  BY Ranges
<1>3. CASE Err
  BY <1>0, <1>3, ErrStep
<1>4. CASE /\ sni_offset + 3 + n <= sni_end
           /\ TakeName(sni_offset + 3, sni_offset + 3 + n) /\ ~Err
  <2>1. /\ name' = [start |-> sni_offset + 3, past |-> sni_offset + 3 + n]
        /\ pc' = "done" /\ verdict' = "ok"
        /\ UNCHANGED <<parser, len, offset, extensions_end, sni_offset, sni_end, labels>>
    BY <1>0, <1>2, <1>4 DEF TakeName
  <2>2. /\ name' \in [start : Nat, past : Nat] /\ name'.start <= name'.past
        /\ name'.past <= sni_end
    BY <1>0, <1>2, <1>4, <2>1
  <2>. QED
    BY <1>0, <2>1, <2>2 DEF ParserInv, TypeOK, Running, Room,
       OnlyEmptyRecordPanics, NameInExtension, DomainTerminated
<1>5. CASE sni_offset + 3 + n <= sni_end /\ SkipName(sni_offset + 3 + n)
  BY <1>0, <1>2, <1>5 DEF SkipName, ParserInv, TypeOK, Running, Room, TlsFields,
     OnlyEmptyRecordPanics, NameInExtension, DomainTerminated
<1>. QED  BY <1>0, <1>1, <1>2, <1>3, <1>4, <1>5

LEMMA NoMoreNamesStep ==
  ASSUME ParserInv, NoMoreNames
  PROVE  ParserInv'
BY DEF NoMoreNames, ParserInv, TypeOK, Running, Room, TlsFields, DnsFields,
       OnlyEmptyRecordPanics, NameInExtension, DomainTerminated

-----------------------------------------------------------------------------
(* DnsQuery::parse. *)

LEMMA HeaderStep ==
  ASSUME ParserInv, Header
  PROVE  ParserInv'
<1>0. parser = "dns" /\ pc = "header" /\ len \in Nat /\ verdict = "none"
      /\ labels = 0
  BY Ranges DEF ParserInv, TypeOK, Running, Room, Header, TlsFields
<1>1. CASE Err
  BY <1>0, <1>1, ErrStep
<1>2. CASE len >= DNS_HEADER /\ Advance(6, DNS_HEADER, 0, "labels")
  BY <1>0, <1>2, AdvanceStep DEF DNS_HEADER, DnsFields
<1>. QED  BY <1>1, <1>2 DEF Header

LEMMA LabelStep ==
  ASSUME ParserInv, Label
  PROVE  ParserInv'
<1>0. parser = "dns" /\ pc = "labels" /\ len \in Nat /\ offset \in Nat /\ labels \in Nat
      /\ verdict = "none"
  BY Ranges DEF ParserInv, TypeOK, Running, Label, TlsFields
<1>1. CASE Err
  BY <1>0, <1>1, ErrStep
<1>2. CASE ~Err
  <2>1. PICK n \in Bytes :
          /\ ~(offset + 1 + n >= len)
          /\ name' = [start |-> offset + 1, past |-> offset + 1 + n]
          /\ labels' = labels + 1
          /\ offset' = offset + 1 + n
          /\ UNCHANGED <<parser, len, pc, extensions_end, sni_offset, sni_end, verdict>>
    BY <1>2 DEF Label
  <2>2. n \in Nat
    BY Ranges
  <2>3. /\ name' \in [start : Nat, past : Nat] /\ name'.past = offset' /\ offset' < len
        /\ offset' \in Nat /\ labels' \in Nat
    BY <1>0, <2>1, <2>2
  <2>. QED
    BY <1>0, <2>1, <2>3 DEF ParserInv, TypeOK, Running, Room, DnsFields,
       OnlyEmptyRecordPanics, NameInExtension, DomainTerminated
<1>. QED  BY <1>1, <1>2

LEMMA EndOfNameStep ==
  ASSUME ParserInv, EndOfName
  PROVE  ParserInv'
<1>1. /\ parser = "dns" /\ pc = "labels" /\ pc' = "done"
      /\ verdict' = IF labels = 0 THEN "err" ELSE "ok"
      /\ UNCHANGED <<parser, len, offset, extensions_end, sni_offset, sni_end, labels, name>>
  BY DEF ParserInv, Running, TypeOK, TlsFields, EndOfName, Return, walk
<1>2. verdict' \in {"err", "ok"} /\ (verdict' = "ok" => labels # 0)
  BY <1>1
<1>3. DomainTerminated'
  BY <1>1, <1>2 DEF ParserInv, Room, DomainTerminated
<1>4. TypeOK'
  BY <1>1, <1>2 DEF ParserInv, TypeOK
<1>5. OnlyEmptyRecordPanics' /\ NameInExtension'
  BY <1>1, <1>2 DEF OnlyEmptyRecordPanics, NameInExtension
<1>6. Running' /\ Room'
  BY <1>1, <1>2 DEF Running, Room
<1>. QED  BY <1>3, <1>4, <1>5, <1>6 DEF ParserInv

-----------------------------------------------------------------------------

(* The invariant, for payloads of any length and any contents. *)
THEOREM ParserInvariance == Spec => []ParserInv
<1>1. Init => ParserInv
  BY InitParserInv
<1>2. ParserInv /\ [Next]_vars => ParserInv'
  <2>1. SUFFICES ASSUME ParserInv, [Next]_vars PROVE ParserInv'
    OBVIOUS
  <2>2. CASE Tls
    <3>1. CASE NoMoreExtensions
      BY <2>1, <3>1, ErrStep DEF NoMoreExtensions
    <3>. QED  BY <2>1, <2>2, <3>1, RecordStep, LengthFieldStep, ExtensionsLengthStep,
                 ExtensionStep, SniNameStep, NoMoreNamesStep DEF Tls
  <2>3. CASE Dns
    BY <2>1, <2>3, HeaderStep, LabelStep, EndOfNameStep DEF Dns
  <2>4. CASE UNCHANGED vars
    BY <2>1, <2>4 DEF vars, walk, ParserInv, TypeOK, Running, Room, OnlyEmptyRecordPanics,
       NameInExtension, DomainTerminated
  <2>. QED  BY <2>1, <2>2, <2>3, <2>4 DEF Next
<1>. QED  BY <1>1, <1>2, PTL DEF Spec

(* Every variable keeps its type, and the extensions end inside the buffer. *)
THEOREM ParserTypeCorrect == Spec => []TypeOK
<1>1. ParserInv => TypeOK
  BY DEF ParserInv
<1>. QED  BY <1>1, ParserInvariance, PTL

(* No index and no slice of the two parsers leaves the payload, an empty TLS record
   aside (tls.rs:28). *)
THEOREM ReadsStayInBuffer == Spec => []OnlyEmptyRecordPanics
<1>1. ParserInv => OnlyEmptyRecordPanics
  BY DEF ParserInv
<1>. QED  BY <1>1, ParserInvariance, PTL

(* A host name is taken from inside its SNI extension (tls.rs:96-114). *)
THEOREM HostNameInExtension == Spec => []NameInExtension
<1>1. ParserInv => NameInExtension
  BY DEF ParserInv
<1>. QED  BY <1>1, ParserInvariance, PTL

(* A domain is returned only with its terminating zero byte seen (dns.rs:31-55). *)
THEOREM DomainIsTerminated == Spec => []DomainTerminated
<1>1. ParserInv => DomainTerminated
  BY DEF ParserInv
<1>. QED  BY <1>1, ParserInvariance, PTL

(* A step that does not end the parse moves the cursor behind what it has read. *)
LEMMA CursorMoves ==
  ASSUME ParserInv, Next, verdict' = "none"
  PROVE  Cursor' >= Cursor + Width
<1>0. /\ {offset, sni_offset, sni_end, len, extensions_end} \subseteq Nat
      /\ ~Err /\ ~Panic
      /\ pc \in TlsFields \cup DnsFields \cup {"done"}
  BY Ranges DEF ParserInv, TypeOK, Running, Err, Panic, Return
<1>r. \A n \in Bytes \cup Words : n \in Nat
  BY Ranges
<1>1. CASE Record
  <2>1. offset' = SESSION_ID /\ pc = "record" /\ pc' = "session_id"
    BY <1>0, <1>1 DEF Record, Advance
  <2>2. offset = 0
    BY <2>1 DEF ParserInv, Room
  <2>. QED  BY <2>1, <2>2 DEF Cursor, Width, SESSION_ID
<1>2. CASE SessionId
  <2>1. PICK n \in Bytes : offset' = offset + 1 + n /\ pc' = "cipher_suites"
    BY <1>0, <1>2 DEF SessionId, Advance
  <2>. QED  BY <1>0, <1>r, <1>2, <2>1 DEF SessionId, Cursor, Width
<1>3. CASE CipherSuites
  <2>1. PICK n \in Words : offset' = offset + 2 + n /\ pc' = "compression"
    BY <1>0, <1>3 DEF CipherSuites, Advance
  <2>. QED  BY <1>0, <1>r, <1>3, <2>1 DEF CipherSuites, Cursor, Width
<1>4. CASE CompressionMethods
  <2>1. PICK n \in Bytes : offset' = offset + 1 + n /\ pc' = "extensions_len"
    BY <1>0, <1>4 DEF CompressionMethods, Advance
  <2>. QED  BY <1>0, <1>r, <1>4, <2>1 DEF CompressionMethods, Cursor, Width
<1>5. CASE ExtensionsLength
  <2>1. offset' = offset + 2 /\ pc' = "extensions"
    BY <1>0, <1>5 DEF ExtensionsLength
  <2>. QED  BY <1>0, <1>5, <2>1 DEF ExtensionsLength, Cursor, Width
<1>6. CASE Extension
  <2>1. PICK n \in Words : \/ offset' = offset + 4 + n /\ pc' = "extensions"
                           \/ sni_offset' = offset + 4 + 2 /\ pc' = "names"
    BY <1>0, <1>6 DEF Extension
  <2>. QED  BY <1>0, <1>r, <1>6, <2>1 DEF Extension, Cursor, Width
<1>7. CASE SniName
  <2>1. PICK n \in Words : sni_offset' = sni_offset + 3 + n /\ pc' = "names"
    BY <1>0, <1>7 DEF SniName, TakeName, SkipName
  <2>. QED  BY <1>0, <1>r, <1>7, <2>1 DEF SniName, Cursor, Width
<1>8. CASE NoMoreNames
  BY <1>0, <1>8 DEF NoMoreNames, Cursor, Width, ParserInv, Room
<1>9. CASE Header
  <2>1. offset' = DNS_HEADER /\ pc = "header" /\ pc' = "labels"
    BY <1>0, <1>9 DEF Header, Advance
  <2>2. offset = 0
    BY <2>1 DEF ParserInv, Room
  <2>. QED  BY <2>1, <2>2 DEF Cursor, Width, DNS_HEADER
<1>10. CASE Label
  <2>1. PICK n \in Bytes : offset' = offset + 1 + n /\ pc' = pc
    BY <1>0, <1>10 DEF Label
  <2>. QED  BY <1>0, <1>r, <1>10, <2>1 DEF Label, Cursor, Width
<1>11. CASE NoMoreExtensions
  BY <1>0, <1>11 DEF NoMoreExtensions
<1>12. CASE EndOfName
  BY <1>12 DEF EndOfName, Return
<1>. QED  BY <1>1, <1>2, <1>3, <1>4, <1>5, <1>6, <1>7, <1>8, <1>9, <1>10, <1>11, <1>12
          DEF Next, Tls, Dns

(* No byte is read twice, and so no length makes a loop stand still (tls.rs:79, :96). *)
THEOREM ReadsMoveOn == Spec => NoByteReadTwice
<1>1. ParserInv /\ [Next]_vars => [verdict' = "none" => Cursor' >= Cursor + Width]_vars
  BY CursorMoves
<1>. QED  BY <1>1, ParserInvariance, PTL DEF Spec, NoByteReadTwice

=============================================================================
