# A TLA+ verification of NetZer

NetZer captures Ethernet frames on Linux, either with `recv` on an `AF_PACKET`
socket or out of a `TPACKET_V3` ring mapped into the process, takes them apart,
prints them, exports them, and feeds a dashboard in the browser over WebSockets.
This directory holds TLA+ models of its parts, TLC configurations that check
them on small instances, and proofs that TLAPS checks for every value of the
constants. `PROJECT.json` lists the runs, the mutants, the source lines behind
every definition, the findings, the hazards and the theorems.

    tlc -config Ring.cfg MCRingSocket.tla
    tlapm RingSocketProofs.tla

## 1. The system

Four kinds of threads and the kernel:

    kernel --frames--> [ring | socket buffer] --> capture thread (main)
                                                    | process_packet
                                                    |   print, pcap, JSON, TcpStreamTracker
                                                    v
                                              mpsc channel --> broadcaster --> sockets
                                                                   ^ mutex
                            listener --> handler (one per connection) --'

| Component | Source | State | Operations |
|---|---|---|---|
| Receive ring | `socket.rs` `RingSocket` | `current_block`; the shared blocks with `block_status` | `recv_block` (check, poll, walk, release), kernel: store, retire, drop |
| Walk of a block | `socket.rs` `recv_block` | `pkt_offset`, `num_pkts`, headers in shared memory | one turn per packet |
| BPF filters | `socket.rs` `attach_filter_*` | two constant programs | run by the kernel on every frame |
| Capture setup | `main.rs` `main`, `socket.rs` `RawSocket::new`, `RingSocket::new`, `drop_privileges` | the socket's interface, filter and buffer; uid, gid | a sequence of calls, each of which may fail |
| Dissection | `netzer-core` parsers, `process_packet` | none | length checks and dispatch |
| Stream tracker | `tcp_stream.rs` | a stream per connection | `StreamKey::new`, `feed` |
| Dashboard server | `web/mod.rs` | channel, vector of sockets, mutex | `broadcast`, broadcaster loop, listener, handlers |
| Handshake and framing | `web/mod.rs` | none | SHA-1, Base64, frame encoder |
| TLS and DNS parsers | `tls.rs`, `dns.rs` | none | walks over lengths and offsets |
| Packet handlers, exports | `main.rs` | the pcap and JSON files | `process_packet`, `handle_*`, `write_packet`, `truncate`, `escape_json` |
| Browser dashboard | `index.html` | packets, statistics, page, filter | timers, messages, clicks, reconnection |
| Terminal output | `main.rs`, `hexdump.rs` | none | formatting |

What is hard, and what makes each part correct:

- *Ring.* Kernel and thread each keep a cursor and never exchange it; they share
  one word per block. Correct: the cursors agree, a walked block is left alone,
  frames come out in order and once, loss only when the ring is full.
- *Walk.* Unchecked arithmetic on shared memory in front of `from_raw_parts`.
  Correct: no slice leaves its block; a well-formed block yields its frames.
- *Filters.* Jump offsets counted by hand, variable header lengths. Correct: the
  programs are closed, drop nothing that was asked for, and accept a wrong packet
  only where they do not look.
- *Setup.* Order of calls, calls that fail, frames that arrive meanwhile. Correct:
  privileges are gone before the first packet; what is heard is what was asked for.
- *Tracker.* Two directions, tokens split over segments, a flush at a threshold.
  Correct: one stream per connection, bytes conserved, nothing overdue.
- *Dashboard server.* Registration racing a broadcast, several sockets failing in
  one round, frames cut short by the write timeout, a shared mutex. Correct: every
  socket sees a gapless sequence from its registration to its failure; others are
  not disturbed.
- *Handshake and framing.* SHA-1, Base64 and the frame header are written out in the
  code. Correct: they agree with their standards, and a client finds every length.
- *Packet handlers.* One packet goes to four places one after the other; errors of
  files are ignored, a panic ends the capture between any two of them. Correct: the
  places never drift apart, a failed write spoils no more than it must, and only
  payloads one can name make the program panic.
- *Browser dashboard.* Messages, a 100 ms timer, clicks and lost connections in any
  order over one set of variables. Correct: a page that exists is shown, each
  message received is counted once, nothing is shown that was not exported.
- *TLS and DNS parsers.* Lengths inside lengths, all from the payload, and a panic
  for every index that is out of bounds. Correct: no read leaves the payload, no
  loop stands still, a name comes from where it belongs and is whole.

## 2. The modules

| Module | Models | Extends / uses |
|---|---|---|
| `FrameQueue` | abstract: a FIFO queue that may lose a frame only with a backlog | |
| `RingSocket` | the ring and the capture loop | refines `FrameQueue` |
| `RingSocketProofs` | its theorems | |
| `BlockWalk` | the inside of a block | |
| `BlockWalkProofs` | its theorems | |
| `Dissector` | length checks and dispatch of `process_packet` | |
| `BpfFilter` | the filter programs and the kernel's machine | `Dissector` |
| `BpfFilterProofs` | its theorems | |
| `CaptureSetup` | `main` up to and into the capture loop | |
| `CaptureSetupProofs` | its theorems | |
| `TcpStreamTracker` | `StreamKey`, `feed`, and the part of `process_packet` around it | |
| `TcpStreamTrackerProofs` | its theorems | |
| `PayloadParsers` | `TlsClientHello::parse` and `DnsQuery::parse` | |
| `PayloadParsersProofs` | its theorems | |
| `PubSub` | abstract: subscribers that get a gapless sequence | |
| `WebServer` | the dashboard server | refines `PubSub` |
| `WebServerProofs` | its theorems | |
| `WsProtocol` | SHA-1, Base64, the accept key, the frame header, as functions | |
| `Feed` | the messages broadcast: what writer and reader share | |
| `SequenceOps` | filtering and summing, as recursive functions one can prove about | |
| `PacketHandlers` | `process_packet` and the five handlers, with their outputs | `Dissector`, `Feed`, `SequenceOps` |
| `Hexdump` | the rows of `hexdump`, as a function | |
| `Dashboard` | the page in the browser | `Feed`, `SequenceOps`; joins, delivers and leaves as `PubSub` does |
| `NetZer` | handlers and dashboard composed over the feed | `PacketHandlers`, `Dashboard` |
| `NetZerProofs` | the theorems about handlers, page and both together | |
| `MC*` | instances for TLC | |

Operators whose name ends in `_Something` and whose comment says *seeded fault*
are plausible bugs. No specification uses them; put in place of the definition
they imitate, each makes the property `PROJECT.json` pairs it with fail.

**RingSocket.** A frame is its number in arrival order; a block is a sequence of
them. `KernelStore`, `KernelRetire` and `KernelDrop` are the kernel's
`tpacket_rcv`, retirement (full or 10 ms old) and frozen queue, external. The
capture thread is at `check` (reading `block_status`), `poll`, or `walk`. Reading
the status and `num_pkts` is one step: the kernel does not touch a block once it
is the user's. The 20 ms timeout of `poll` makes `PollReturns` possible at any
time. `PollFails` is the error return of `recv_block` with main's immediate new
call. One callback is one step: it runs on the same thread. Memory is
sequentially consistent, as the stores and loads involved are on x86-64.

**BlockWalk** refines the single step "the frames of a block, in order" of
`RingSocket` down to offsets: what may be read at an offset is the header the
kernel put there or, elsewhere, any header of a given set. What the kernel promises of
a block it has laid out is `LaidOut`, an assumption on `Blocks`. Offsets are 64 bits
wide and sums of 32-bit values cannot overflow, so plain numbers are exact.

**BpfFilter.** The programs are the code's, instruction by instruction; the
machine (external) has the six instructions they use. A frame is a record of what
is looked at by a filter or a parser. `Dissector!Shown` says which handler would
show the frame, and so what "matching" means. A load beyond the frame drops it,
as in the kernel.

**CaptureSetup.** `pc` is the call main is at; each call succeeds or fails and
what the code does then is part of the action. `Arrive` (external) puts frames
into the buffer from `socket()` on. The filters are exact here, so that what the
run shows is about order and failure only. `invoker` is who `SUDO_UID` and
`SUDO_GID` name: `drop_privileges` becomes that user, and stays root when root
called `sudo`; `PrivilegesDropped` excepts that case.

**TcpStreamTracker.** An endpoint is a pair of numbers compared like the code's
tuples (any total order on addresses does). Of the bytes the model keeps the two
halves of a request token, newlines and padding. `fed` and `shown` are history: what came
behind the TCP headers of a connection, and what was displayed of it.

**PayloadParsers.** The fields of a ClientHello and of a question in the order they
are read; `Advance` is the pattern of most of them: read, move the cursor, check
that the next field is there. A payload is its length, and what a byte holds is
chosen when it is read: `NoByteReadTwice` says that this is exact. An index or a
slice past the end is a `Panic`, as in Rust. The check of the UTF-8 of a name is a
choice; names are slices.

**WebServer.** Messages are numbered; a socket is summed up by its control frames
(`head`), the last packet frame (`pos`) and whether a frame was cut (`torn`).
`Receive`, `LockClients`, the writes one by one, the removals one by one and
`UnlockClients` are separate steps, as are the handler's read, upgrade, two
writes, lock and push. A write fails at any time for a peer that is there (the
100 ms timeout) and may have left part of a frame. `Push` gives the position a
socket starts from; that this is right is what `ImplementsPubSub` checks.

**PacketHandlers.** `pc` is the output a packet is at: record header and data of the
pcap file, dissection and print, JSON line, broadcast, in the order of the code.
`Dissect` includes the stream tracker, which is fed before the handler runs, and the
panics: a slice of `truncate` off a character boundary, a TLS record without a body. A
name is the widths of its characters, so that `ByteIndex` does the arithmetic of
`truncate` exactly. A write that fails may leave part of what it wrote; nobody looks
at the error. A file is a sequence of pieces (header, data, `cut`; text, newline).
The user may stop the program at any step: every invariant holds there.

**Dashboard.** A message is its index in the feed; a new connection is a new client of
`PubSub`, whose `Join`, `Deliver` and `Leave` the callbacks use as they are: the page
is checked against what `WebServer` is shown to implement. `Refresh` is `refreshList`
with its correction of the page; `Render` is the 100 ms timer with everything it calls.
What the server has written but the page not yet seen when the connection breaks is
lost. A filter is a protocol: `setFilter` and the search field do the same with it.
Once the page has closed a connection it has left, although the server may write to it
for a while; nobody sees that.

**NetZer** interleaves the two. Their only common variable is `feed`, which handlers
append to and the page reads. The ring, the filters and the setup are composed with
them by what they show separately: frames in order, of the kind asked for, after the
privileges are gone.

**WsProtocol** and **Hexdump** are functions without state. The `ASSUME`s of
`MCWebServer` and `MCNetZer` compare them with published examples (RFC 6455, FIPS 180,
RFC 4648), with how a client reads a length around both borders of the three forms, and
with what a dump must be: every byte once, in order, the text column in one place. Three
theorems are about every input: see `WebServerProofs` below.

## 3. The runs

| Run | Instance | Shows |
|---|---|---|
| `ring` | 3 blocks of 2 frames, 9 frames, 2 drops | `CursorAtOldest`, `WalkedBlockStable`, the inductive invariant `RingInv`, refinement of `FrameQueue`, `EveryFrameDelivered` |
| `walk` | 30-byte blocks: all the kernel lays out with up to 4 frames, and blocks of up to 3 packets with any of 48 headers at any offset | `WalkComplete` and `SlicesDisjoint` of the former, `SlicesInBlock` and turns bounded by `num_pkts` of both |
| `bpf_safety` | 14 lengths x 4 EtherTypes x 3 IHLs x 4 protocols x ports, all 5 filters | `NoMatchDropped`, `ExactWhereItLooks`, closed programs |
| `setup_safety` | all arguments, interface there or not, any call failing, 2 frames | `PrivilegesDropped`, `LateFramesMatch` |
| `stream_safety` | 5 endpoints, 4 connections, threshold 4, 5 bytes | `OneStreamPerConnection`, `Conservation`, `NothingOverdue` |
| `parsers` | 37 lengths around every check, 6 values of a length byte, 10 of a two-byte length | `OnlyEmptyRecordPanics`, `NameInExtension`, `DomainTerminated`, `NoByteReadTwice` |
| `web` | 3 connections, 2 messages, under `FairSpec` | `RemovedExactly`, `NothingAfterTorn`, `HandshakeFirst`, refinement of `PubSub`, `EveryMessageServed`, `GoneClientReaped` |
| `netzer` | 4 sequences of up to 3 frames, 292 frames with a name of their own, 1 failed write, 2 connections, a table of 2 packets with pages of 1 | `InStep`, `PcapFaithful`, `JsonDamageBounded`, `OnlyWideNamesPanic`, `PageExists`, `Accounted`, `ShownIsExported` |

Why the bounds are enough. Three blocks are the fewest where a cursor can be
ahead, behind and neither; nine frames fill the ring once and go half around again,
and two frames per block let the timer retire one half full. The ring and the walk
are also proved for all values. Lengths in `bpf_safety` surround every bounds check
of a load or a parser. Two frames in `setup_safety` are one from before and one
from after the end of the setup. A threshold of 4 with segments of up to 2 bytes
lets a token be split at its only seam, and a flush happen by size and by line.
Three sockets allow two to fail in one round around one that does not; two
messages let a socket register before, between and after broadcasts, and a torn socket
be followed by another frame; the safety properties are also proved for all values.
In `netzer` the info column has 9 characters, so that a DNS name is cut when it has more than
4: the names are every combination of widths of 4 characters, which just fit, every one
of narrow and wide among 5, and long server names of each width; one failed write with three packets
leaves an intact line before and behind it; a table of two with pages of one loses
packets under every filter and has a page to fall off from.

`CHECK_DEADLOCK FALSE` stands where the system really stops: a program that exited
or waits for packets, a verdict, the end of a walk. The ring is
checked for deadlock: the capture loop always has a step.

Fairness. `RingSocket!FairSpec`: weak fairness of the capture thread, a loop that
nothing blocks for longer than 20 ms, and of the kernel's retire timer. Nothing
makes frames arrive, and `KernelDrop` may happen or not. `WebServer!FairSpec`: weak
fairness of the broadcaster, whose writes are bounded by the write timeout, and of
`Push`, the one thing a handler does with the mutex. The mutex itself is not
assumed to be fair, and handlers may be slow elsewhere. `NetZer` states no liveness: a
panic may end the capture, and a browser may stay away for ever.

### Where code and documentation disagree

These runs are expected to find their property violated; `findings` has the lines.

| Run | Property | What happens |
|---|---|---|
| `bpf_matching` | `OnlyMatchingReachUserspace` | the port filter accepts everything that is not IPv4 TCP or UDP, the tcp, udp and icmp filters everything that is not IPv4 |
| `setup_filters` | `AnnouncedFiltersActive` | ring sockets get no filter and the protocol filter replaces the port filter; the banner lists both |
| `setup_interface` | `LateOnlyInterfaceChosen` | a failed interface lookup of a ring socket means all interfaces |
| `stream_padding` | `OnlyPayload` | Ethernet padding is accumulated as payload |

More observations have no run of their own. With `--follow-streams`, main.rs:52
promises TCP streams, but connections over IPv6 are never fed to the tracker
(main.rs:621): `Segment` of `TcpStreamTracker` has that branch. A TLS record without
a body passes the length checks and panics at tls.rs:28, which ends the capture:
`OnlyEmptyRecordPanics` says that no other payload does. README.md:17 speaks of a pipeline
that keeps analysis from stalling the capture thread; `Callback` of `RingSocket` is
a step of that thread, so the kernel may drop frames while it analyses, which
`FrameQueue` allows once `BLOCK_NR - 1` frames wait. And a raw socket hears every
interface between `socket` and `bind`, so that frames of other interfaces may be
shown first: `LateFramesMatch` and `LateOnlyInterfaceChosen` speak of the frames
that come once the loop runs.

Of the outputs: README.md:21 promises JSON/NDJSON streaming export, but `escape_json`
(main.rs:175) leaves control characters alone, and the status line of an HTTP response
brings its CR LF along: such a line is two lines, neither of them JSON, and the page's
`JSON.parse` refuses the message, so that HTTP responses never appear on the dashboard.
`JsonDamageBounded` and `Accounted` say exactly which lines and messages that hits. A
name longer than its column whose cut falls inside a character panics in `truncate`
(main.rs:171) and ends the capture: `OnlyWideNamesPanic`. After a record of the pcap
file that was cut short every later one is unreadable: `PcapFaithful` promises nothing
behind it, because nothing holds. The feed says `DNS` and `ICMP6` where the JSON file says
`UDP` and `ICMPv6`. The page looks for `SNI:` in the info of a TLS message, which holds
the bare name, so that part of it is never reached; its packet total counts the rows of
the table, which are at most 2000.

## 4. The proofs

All theorems hold for every value of the constants that satisfies the `ASSUME` of
the module, which says that sizes are numbers and positive where the code's are.

**RingSocket.** `CursorAtOldest` is not inductive: that the block at the thread's
cursor is the oldest follows from where *all* blocks stand. `RingInv` says so:
`Ownership` (the user's blocks are those from the thread's cursor up to the
kernel's, and the cursors meet when the ring is empty or full), `Walk` (what was
read of a block is still true), `Numbering` (frames `last + 1 .. stored` are in
the ring, consecutive, in the order of the walk), `Backlogged` (each retired block
holds a frame at least, which gives the backlog of the abstract queue when a frame
is dropped). Lemmas about `Dist` and `NextBlock` do the modular arithmetic without
`%`. `RingInvariance` proves `[]RingInv`; from it follow `TypeCorrect`,
`CursorCorrect`, `WalkedBlockUntouched` and the refinement `RingImplementsFrameQueue`.

**BlockWalk.** The type invariant and `SlicesStayInBlock` are inductive together:
each slice is checked against `BLOCK_SIZE` when it is appended. For a block that is
`LaidOut`, `Progress` says where the walk is: at the header of frame `count + 1`, with
the frames in front of it shown, or behind the last. The `next == 0` of the last header
ends it at once, and `Stop` is not possible before (`VisitProgress`, `StepProgress`).
`LaidOutBlocksWalked` and `SlicesNeverOverlap` follow, for any number of frames.

**BpfFilter.** `BpfInv` adds to the properties what the machine knows of the frame
at each instruction (`PortKnows`, `IpProtoKnows`, `ArpKnows`), as a Floyd-style
annotation of the programs. One lemma per program lists its instructions, one per
opcode says what it does, and each step lemma has one case per instruction. The
theorems are about every frame, with any length, header length and ports.

**TcpStreamTracker.** `TrackerInv` adds to the types that a key never has its larger
endpoint first (`KeysOrdered`). Endpoints are totally ordered (`LessTotal`), so two keys
of the same two endpoints are the same: `DirectionsShareStream`. `DueStreamsFlushed`
holds because `feed` decides on the data with the new segment in it. `Conservation` is
inductive with `KeysOrdered`: the one key of a connection is the only place where its
bytes wait, `feed` appends to that and to the history alike, and a flush moves all of it
from behind what was shown to the end of what was shown.

**PayloadParsers.** The properties speak of the verdict; `Room` says what each check
is for, namely that the field read next is there, and `Running` which fields each
parser has. `ErrStep` and `AdvanceStep` carry most of the actions. `ReadsMoveOn` is
an action property proved from the same invariant.

**CaptureSetup.** The two properties speak of the capture loop; `SetupInv` says what
each call on the way has established. `Identities`: user and group are still the
same before `setgid`, the group is the invoker's at `setuid`, both are from the
banner on. `Hearing`: from `FindInterface` on the index is the one chosen, from
`Bind` on the socket hears only that, and each filter asked for has left its trace
in `attached`. `BufferWanted`: nothing is processed before the loop, and what came
late and is in the buffer came through interface and filter. Together with `TypeOK`
they are inductive (`SetupInvariance`), for any arguments and any number of frames.

**WebServer.** `WebInv` ties together what the threads share. `LockOwned`: who is in
the critical section holds the mutex. `VectorInv`: the vector holds registered sockets,
once each, which also bounds it by the number of connections (`VectorBound`).
`IndexesInv`: the indexes to remove increase and are behind the loop, so removing them
from the last to the first leaves the others valid; `FailedInv` says that they are
those of the sockets that failed. `SocketInv`: what a handler has written by the time it
is where it is. `QueueInv` and `PositionInv` give each socket's position from where the
broadcaster is: `cur` in front of the loop, `Base` behind it. The last is what makes
`RemovedExactly`, `NothingAfterTorn` and the refinement of `PubSub` inductive; none of
them is so alone. One lemma per action, `HandlerWeb` for the handler's quiet steps,
`RemoveAtFacts` for `Vec::remove`; the theorems hold for any number of connections
and messages.

**NetZer.** Handlers and page are proved together, since what the page holds are indexes
into the feed the handlers append to. `NetZerInv` is the conjunction of

- `Routes`: why `pc` is where it is, that is, which branches of the code packet `taken`
  has gone through. With it `InStep` is inductive: the sets of packets the outputs should
  hold grow by `taken` exactly in the step that appends it.
- `PcapWhole`: how long the file is at each `pc` while no write to it has failed, and what
  each piece is. `PcapFaithful` alone says nothing of the length between header and data.
- `JsonWhole`: behind a write that did not fail a line begins, so that the next text has
  its own line. That is why a failed write spoils at most two lines.
- `Linked`: the connection number of the page, its socket and the membership in `PubSub`
  agree, and of the positions only the current connection's moves. With it the message
  delivered next is behind everything heard, so that none is counted twice.
- `PageExists` and `Accounted`, inductive once the types say that the page shown is at
  least the first.

The steps of the handlers leave the page alone but let the feed grow: `FeedKeeps` says that
no old message changes by that, and so no filter, sum or table. The page's steps leave the
handlers alone. `ShownIsExported` follows from `InStep`, `PcapWhole` and the types.
`OnlyWideNamesPanic` is arithmetic on sums of widths: a name of one-byte characters has as
many bytes as characters, so the cut is on a border.

What `Keep` and `Total` compute is proved from their recursions: `SelectSeq` and folds
take an operator as argument, which is out of the provers' reach, so `SequenceOps` takes a
set instead. The induction theorems of the library take an operator, too; `LeastNat`
and `SetInduction` say the same of a set of numbers (well-foundedness of `<` is a fact
of the library without an operator), and each law is the membership of every length
in a set: `TotalConcat`, `TotalOnes`, `KeepType` and their like.

**WsProtocol**, at the end of `WebServerProofs`. `HeaderTellsLength`: each of the three
forms of a frame header gives a client the length that was written. `PaddingFillsBlocks`:
the zeros of SHA-1 end eight bytes before a block does, so that `chunks_exact` leaves
nothing out. `SextetsTellBytes`: a decoder gets the bytes of a group back, whether it has
one, two or three. All three are arithmetic with `\div` and `%`, split so that each leaf has one
quotient and remainder.

Only model-checked: liveness (`EveryFrameDelivered`, `EveryMessageServed`,
`GoneClientReaped`; TLAPS has no proof of it under fairness here). That SHA-1's rounds, the
letters of Base64 and the rows of `Hexdump` are the right ones is only compared on samples:
they are folds, and loops on words of bits. Every other property of a run that passes is a
theorem.

## 5. Not modelled, and the plan

Not modelled, and why:

- The table, the banner and the colours on the terminal, the formatting of addresses
  and the accessors of single fields: text that no step of the program reads again.
- On the page: the chart of the last seconds, the top lists, the packet inspector and
  the markup. They display what `Accounted` is about and decide nothing.
- Weak memory: `block_status` is read with `read_volatile`, which orders nothing on
  other machines than x86-64. A hazard without a property.
- Memory use: the channel and the tracker's map never shrink. That is a fact of the
  code, not a property it could violate. Hazards without a property.
- Fairness of `std::sync::Mutex`: there is none, so a handler may be kept from
  registering while messages come without a pause. A hazard without a property.
- `TcpStreamTracker::clear` has no caller. `--hexdump` and `--follow-streams` only choose
  whether text is printed; in `NetZer` the tracker is fed as if the latter were given.
- What the kernel, the browsers' own machinery and the network do is modelled as far as
  the code relies on it, and marked external.

What is left: the rows of `Hexdump` for every length, with recursive functions in place of
`FlattenSeq`.
