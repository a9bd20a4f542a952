--------------------------- MODULE PacketHandlers ---------------------------
(***************************************************************************)
(* What process_packet and the handlers of src/netzer-cli/src/main.rs do   *)
(* with a frame: append it to the pcap file, take it apart, hand IPv4 TCP  *)
(* to the stream tracker, print a line, append a line to the JSON file and *)
(* broadcast a message, in that order.  Errors of both files are ignored;  *)
(* a panic on the way ends the capture, and so may the user, at any step.  *)
(*                                                                         *)
(* A frame is Dissector's record with what its payload looks like (app), a *)
(* name found in it: the width in bytes, as UTF-8, of each character, and  *)
(* whether there are line breaks in what is shown of the payload.  Packets *)
(* are numbered from 1.  A file is the sequence of the pieces in it, each  *)
(* a packet and what the piece is.                                         *)
(***************************************************************************)
EXTENDS Dissector, Feed, SequenceOps

CONSTANTS
  Traffic,      \* the sequences of frames that may arrive
  Options,      \* the sets of outputs that may be asked for
  INFO_CHARS,   \* the width of the info column (35 in the code)
  MaxFaults     \* bound: writes that fail

Apps == {"hello", "empty_record", "request", "response", "query", "other"}

Frame ==
  [len : Nat, ethertype : Nat, ihl : Nat, proto : Nat, sport : Nat, dport : Nat,
   doff : Nat, app : Apps, name : Seq(1 .. 4), breaks : BOOLEAN]

ASSUME HandlersAssumption ==
  /\ Traffic \subseteq Seq(Frame)
  /\ Options \subseteq SUBSET {"pcap", "json", "feed"}
  /\ INFO_CHARS \in Nat /\ INFO_CHARS > 8
  /\ MaxFaults \in Nat

VARIABLES
  traffic,     \* the frames that arrive in this behaviour
  outputs,     \* the outputs asked for: --export-pcap, --export-json, --serve
  taken,       \* number of frames captured
  pc,          \* where process_packet is; idle in between, panicked at the end
  tracked,     \* the packets fed to the stream tracker
  pcap,        \* pieces in the pcap file, behind the file header
  json,        \* pieces in the JSON file
  logged,      \* history: packets written to json, and whether that succeeded
  faults       \* number of writes that have failed

files == <<pcap, json, logged, faults>>
handlerVars == <<traffic, outputs, taken, pc, tracked, files>>

HandlersInit ==
  /\ traffic \in Traffic
  /\ outputs \in Options
  /\ taken = 0
  /\ pc = "idle"
  /\ tracked = <<>>
  /\ pcap = <<>>
  /\ json = <<>>
  /\ logged = <<>>
  /\ faults = 0
  /\ feed = <<>>

-----------------------------------------------------------------------------
(* What the handlers make of a frame. *)

HTTPS == 443
DNS_PORT == 53

\* handle_tcp: only payloads for port 443 are tried as TLS, only others as HTTP.
TcpProto(f) ==
  CASE f.dport = HTTPS /\ f.app = "hello" -> "TLS"
    [] f.dport # HTTPS /\ f.app \in {"request", "response"} -> "HTTP"
    [] OTHER -> "TCP"

\* The protocol the message of a frame gives.
Proto(f) ==
  CASE Shown(f) = "TCP" -> TcpProto(f)
    [] Shown(f) = "UDP" -> IF DNS_PORT \in {f.sport, f.dport} THEN "DNS" ELSE "UDP"
    [] OTHER -> Shown(f)

DNS_PREFIX == 5    \* "DNS: "

\* To how many characters truncate cuts the name of a frame; 0 when it shows none.
NameChars(f) ==
  CASE Proto(f) = "TLS" -> INFO_CHARS
    [] Proto(f) = "DNS" /\ f.app = "query" -> INFO_CHARS - DNS_PREFIX
    [] OTHER -> 0

\* Where the first n characters of a name end, in bytes.
ByteIndex(name, n) == Total(SubSeq(name, 1, n))

\* truncate cuts three bytes in front of character max, for the dots: how many
\* characters it keeps.  None fits when that is inside of a character.
Cuts(name, max) ==
  {n \in 0 .. max : ByteIndex(name, n) = ByteIndex(name, max) - 3}

\* seeded fault: a text of max characters is cut as well
Panics_AtMax(f) ==
  \/ Shown(f) = "TCP" /\ f.dport = HTTPS /\ f.app = "empty_record"
  \/ NameChars(f) > 0 /\ Len(f.name) >= NameChars(f) /\ Cuts(f.name, NameChars(f)) = {}

\* The slice of truncate is not at a boundary, or TlsClientHello::parse panics.
Panics(f) ==
  \/ Shown(f) = "TCP" /\ f.dport = HTTPS /\ f.app = "empty_record"
  \/ NameChars(f) > 0 /\ Len(f.name) > NameChars(f) /\ Cuts(f.name, NameChars(f)) = {}

\* The info of an HTTP response is all that follows the version, line breaks
\* included, names are what they are, and escape_json leaves breaks alone.  A
\* request is split at them.
HasBreak(f) ==
  /\ f.breaks
  /\ \/ Proto(f) = "HTTP" /\ f.app = "response"
     \/ NameChars(f) > 0

MessageOf(n, f) ==
  [packet |-> n, proto |-> Proto(f), size |-> f.len, control |-> HasBreak(f)]

-----------------------------------------------------------------------------
(* process_packet. *)

Piece(what) == <<[packet |-> taken, is |-> what]>>

Capture ==
  /\ pc = "idle"
  /\ taken < Len(traffic)
  /\ taken' = taken + 1
  /\ pc' = IF "pcap" \in outputs THEN "pcap_header" ELSE "dissect"
  /\ UNCHANGED <<traffic, outputs, tracked, files, feed>>

Fail == faults < MaxFaults /\ faults' = faults + 1

\* The record header; when that fails, part of it may be in the file, and the
\* data is not written.
WritePcapHeader ==
  /\ pc = "pcap_header"
  /\ \/ /\ pcap' = pcap \o Piece("header")
        /\ pc' = "pcap_data"
        /\ UNCHANGED faults
     \/ /\ Fail
        /\ pcap' = pcap \o Piece("cut")
        /\ pc' = "dissect"
  /\ UNCHANGED <<traffic, outputs, taken, tracked, json, logged, feed>>

\* seeded fault: the data of a frame no parser knows is not written
WritePcapData_Known ==
  /\ pc = "pcap_data"
  /\ pcap' = IF Shown(traffic[taken]) = "none" THEN pcap ELSE pcap \o Piece("data")
  /\ pc' = "dissect"
  /\ UNCHANGED <<traffic, outputs, taken, tracked, json, logged, faults, feed>>

WritePcapData ==
  /\ pc = "pcap_data"
  /\ \/ pcap' = pcap \o Piece("data") /\ UNCHANGED faults
     \/ pcap' = pcap \o Piece("cut") /\ Fail
  /\ pc' = "dissect"
  /\ UNCHANGED <<traffic, outputs, taken, tracked, json, logged, feed>>

\* Both parse, and with TCP over IPv4 the tracker is fed before the handler runs.
FeedsTracker(f) == Shown(f) = "TCP" /\ f.ethertype = ETH_IPV4

\* seeded fault: with a feed, the JSON file is passed over
AfterPrint_FeedOnly ==
  IF "feed" \in outputs THEN "broadcast" ELSE IF "json" \in outputs THEN "json" ELSE "idle"

\* The next output that was asked for.
AfterJson == IF "feed" \in outputs THEN "broadcast" ELSE "idle"
AfterPrint == IF "json" \in outputs THEN "json" ELSE AfterJson

\* The frame is taken apart, down to the line the handler prints.
Dissect ==
  /\ pc = "dissect"
  /\ LET f == traffic[taken] IN
       /\ tracked' = IF FeedsTracker(f) THEN Append(tracked, taken) ELSE tracked
       /\ pc' = IF Shown(f) = "none" THEN "idle"
                ELSE IF Panics(f) THEN "panicked" ELSE AfterPrint
  /\ UNCHANGED <<traffic, outputs, taken, files, feed>>

\* seeded fault: lines are separated, not ended
JsonLine_Separated ==
  (IF json = <<>> THEN <<>> ELSE Piece("newline")) \o Piece("text")

\* The line of a frame; a line break in its info splits it.
JsonLine ==
  IF HasBreak(traffic[taken])
    THEN Piece("text") \o Piece("newline") \o Piece("text") \o Piece("newline")
    ELSE Piece("text") \o Piece("newline")

\* seeded fault: an error skips the broadcast
WriteJson_ReturnsOnError ==
  /\ pc = "json"
  /\ \/ /\ json' = json \o JsonLine
        /\ logged' = Append(logged, [packet |-> taken, ok |-> TRUE])
        /\ pc' = AfterJson
        /\ UNCHANGED faults
     \/ /\ Fail
        /\ \E n \in 0 .. Len(JsonLine) - 1 : json' = json \o SubSeq(JsonLine, 1, n)
        /\ logged' = Append(logged, [packet |-> taken, ok |-> FALSE])
        /\ pc' = "idle"
  /\ UNCHANGED <<traffic, outputs, taken, tracked, pcap, feed>>

\* The line is written at once; when that fails, part of it may be in the file.
WriteJson ==
  /\ pc = "json"
  /\ \/ /\ json' = json \o JsonLine
        /\ logged' = Append(logged, [packet |-> taken, ok |-> TRUE])
        /\ UNCHANGED faults
     \/ /\ Fail
        /\ \E n \in 0 .. Len(JsonLine) - 1 : json' = json \o SubSeq(JsonLine, 1, n)
        /\ logged' = Append(logged, [packet |-> taken, ok |-> FALSE])
  /\ pc' = AfterJson
  /\ UNCHANGED <<traffic, outputs, taken, tracked, pcap, feed>>

BroadcastMessage ==
  /\ pc = "broadcast"
  /\ feed' = Append(feed, MessageOf(taken, traffic[taken]))
  /\ pc' = "idle"
  /\ UNCHANGED <<traffic, outputs, taken, tracked, files>>

HandlersNext ==
  \/ Capture \/ WritePcapHeader \/ WritePcapData \/ Dissect \/ WriteJson \/ BroadcastMessage

-----------------------------------------------------------------------------
(* Properties. *)

HandlersTypeOK ==
  /\ traffic \in Traffic
  /\ outputs \in Options
  /\ taken \in 0 .. Len(traffic)
  /\ pc \in {"idle", "pcap_header", "pcap_data", "dissect", "json", "broadcast", "panicked"}
  /\ tracked \in Seq(1 .. taken)
  /\ pcap \in Seq([packet : 1 .. taken, is : {"header", "data", "cut"}])
  /\ json \in Seq([packet : 1 .. taken, is : {"text", "newline"}])
  /\ logged \in Seq([packet : 1 .. taken, ok : BOOLEAN])
  /\ faults \in 0 .. MaxFaults
  /\ feed \in Seq(Message)

\* Packets whose handling is over, or has come to printing their line.
Printed == IF pc \in {"json", "broadcast", "idle"} THEN taken ELSE taken - 1

Visible(n) == Shown(traffic[n]) # "none"

\* Packets up to n that a handler shows.
VisibleUpTo(n) == {i \in 1 .. n : Visible(i)}

Packets(entries) == [i \in DOMAIN entries |-> entries[i].packet]

\* The outputs never drift apart: at every step, wherever the program is stopped or
\* panics, the JSON file has been given the visible packets in the order of the
\* capture, the feed the same up to the one in progress, whatever writes failed,
\* and the tracker every one of TCP over IPv4, once (main.rs:289, :311, :589).
InStep ==
  /\ "json" \in outputs =>
       Lists(Packets(logged), VisibleUpTo(IF pc = "json" THEN Printed - 1 ELSE Printed))
  /\ "feed" \in outputs =>
       Lists(Packets(feed),
             VisibleUpTo(IF pc \in {"json", "broadcast"} THEN Printed - 1 ELSE Printed))
  /\ Lists(tracked, {n \in 1 .. (IF pc = "panicked" THEN taken ELSE Printed) :
                       FeedsTracker(traffic[n])})

Intact(i) == \A j \in 1 .. i : pcap[j].is # "cut"

\* Up to the first write that fails, the pcap file is a header and the data of every
\* frame captured, those no parser knows and one that makes a parser panic
\* included, in the order of the capture (main.rs:552).
PcapFaithful ==
  /\ \A i \in 1 .. Len(pcap) : Intact(i) =>
       pcap[i] = IF i % 2 = 1 THEN [packet |-> (i + 1) \div 2, is |-> "header"]
                              ELSE [packet |-> i \div 2, is |-> "data"]
  /\ "pcap" \in outputs /\ Intact(Len(pcap)) /\ pc \notin {"pcap_header", "pcap_data"} => Len(pcap) = 2 * taken

\* The packet has a line of its own, and nothing else is on it.
OnItsLine(n) ==
  \E i \in 1 .. Len(json) - 1 :
    /\ json[i] = [packet |-> n, is |-> "text"]
    /\ json[i + 1] = [packet |-> n, is |-> "newline"]
    /\ i = 1 \/ json[i - 1].is = "newline"

\* A write to the JSON file that fails half way spoils the line it was writing and
\* the one after it, no other; line breaks in a response or a name spoil only the
\* line they are in (main.rs:175, :134).
JsonDamageBounded ==
  \A i \in DOMAIN logged :
    /\ logged[i].ok
    /\ i = 1 \/ logged[i - 1].ok
    /\ ~HasBreak(traffic[logged[i].packet])
    => OnItsLine(logged[i].packet)

Ascii(name) == \A i \in DOMAIN name : name[i] = 1

\* The capture only ends at a TLS record without a body or at a name that is too
\* long for its column and not ASCII (main.rs:171, tls.rs:28).
OnlyWideNamesPanic ==
  pc = "panicked" =>
    LET f == traffic[taken] IN
      \/ f.app = "empty_record"
      \/ ~Ascii(f.name) /\ Len(f.name) > NameChars(f)

=============================================================================
