----------------------------- MODULE Dashboard ------------------------------
(***************************************************************************)
(* The page in the browser (src/netzer-cli/assets/index.html): it connects *)
(* to the feed, connects again two seconds after it was cut off, queues    *)
(* the messages that come, and every 100 ms counts what is in the queue    *)
(* and puts it in front of a table of limited length, of which it shows    *)
(* one page, filtered.                                                     *)
(*                                                                         *)
(* A message is its index in the feed.  The connection is PubSub's, which  *)
(* WebServer implements: a new connection is a new client.  A message the  *)
(* server has written and the page has not seen is not delivered yet, and  *)
(* lost when the connection is.  A filter stands for a button and for what *)
(* is in the search field: setFilter and handleSearch do the same.         *)
(***************************************************************************)
EXTENDS Feed, SequenceOps, SequencesExt

CONSTANTS
  MaxConnections,   \* bound: connections that get as far as the feed
  PACKET_LIMIT,     \* packets the table keeps (2000 in the code)
  itemsPerPage      \* packets on a page (35 in the code)

ASSUME DashboardAssumption ==
  /\ MaxConnections \in Nat
  /\ {PACKET_LIMIT, itemsPerPage} \subseteq Nat \ {0}

VARIABLES
  socket,         \* "closed" (a retry is set), "connecting" or "open"
  connection,     \* number of the last connection to the feed
  member, pos,    \* PubSub's view of the connections
  packetQueue,    \* messages not counted yet
  packets,        \* the table, newest first
  packetCounts,   \* messages counted, per protocol
  totalBytes,     \* and the sum of their sizes
  activeFilter,   \* "all" or a protocol
  currentPage,
  rows,           \* the page shown
  heard,          \* history: messages received
  counted         \* history: messages counted, in this order

connecting == <<socket, connection, member>>
table == <<packets, packetCounts, totalBytes, counted>>
view == <<activeFilter, currentPage, rows>>
dashboardVars == <<connecting, pos, heard, packetQueue, table, view>>

Connections == 1 .. MaxConnections

PS == INSTANCE PubSub WITH Clients <- Connections, published <- Len(feed)

DashboardInit ==
  /\ socket = "connecting"
  /\ connection = 0
  /\ member = [c \in Connections |-> "out"]
  /\ pos = [c \in Connections |-> 0]
  /\ packetQueue = <<>>
  /\ packets = <<>>
  /\ packetCounts = [p \in Protocols |-> 0]
  /\ totalBytes = 0
  /\ activeFilter = "all"
  /\ currentPage = 1
  /\ rows = <<>>
  /\ heard = {}
  /\ counted = <<>>

-----------------------------------------------------------------------------
(* connectWS and its callbacks. *)

\* onopen, up to the system frame, behind which the feed begins.
OnOpen ==
  /\ UNCHANGED feed
  /\ socket = "connecting"
  /\ connection < MaxConnections
  /\ socket' = "open"
  /\ connection' = connection + 1
  /\ PS!Join(connection + 1)
  /\ UNCHANGED <<packetQueue, table, view, heard>>

\* onclose, when the connection breaks or was refused; a retry is set for later.
OnClose ==
  /\ UNCHANGED feed
  /\ socket \in {"connecting", "open"}
  /\ socket' = "closed"
  /\ IF socket = "open" THEN PS!Leave(connection) ELSE UNCHANGED <<member, pos>>
  /\ UNCHANGED <<connection, packetQueue, table, view, heard>>

\* Two seconds later.
Retry ==
  /\ socket = "closed"
  /\ socket' = "connecting"
  /\ UNCHANGED <<feed, connection, member, pos, packetQueue, table, view, heard>>

\* onmessage: what JSON.parse refuses is reported on the console and left out.
OnMessage ==
  /\ UNCHANGED feed
  /\ socket = "open"
  /\ PS!Deliver(connection)
  /\ LET n == pos[connection] + 1 IN
       /\ heard' = heard \cup {n}
       /\ packetQueue' = IF feed[n].control THEN packetQueue ELSE Append(packetQueue, n)
  /\ UNCHANGED <<socket, connection, table, view>>

-----------------------------------------------------------------------------
(* The table. *)

Matches(filter, n) == filter = "all" \/ feed[n].proto = filter

Matching(ps, filter) == Keep(ps, {n \in ToSet(ps) : Matches(filter, n)})

Pages(n) == (n + itemsPerPage - 1) \div itemsPerPage

\* seeded fault: a page beyond the last one is kept
Refresh_KeepsPage(ps, filter, page) ==
  LET matching == Matching(ps, filter)
      start == (page - 1) * itemsPerPage
  IN /\ currentPage' = page
     /\ rows' = SubSeq(matching, start + 1,
                       IF start + itemsPerPage < Len(matching) THEN start + itemsPerPage
                                                               ELSE Len(matching))

\* refreshList: with nothing to show the page is left alone; a page beyond the
\* last one becomes the last one.
Refresh(ps, filter, page) ==
  LET matching == Matching(ps, filter)
      last == Pages(Len(matching))
      shown == IF matching # <<>> /\ page > last THEN last ELSE page
      start == (shown - 1) * itemsPerPage
  IN /\ currentPage' = shown
     /\ rows' = SubSeq(matching, start + 1,
                       IF start + itemsPerPage < Len(matching) THEN start + itemsPerPage
                                                               ELSE Len(matching))

Count(p, ns) == Total([i \in DOMAIN ns |-> IF feed[ns[i]].proto = p THEN 1 ELSE 0])
Bytes(ns) == Total([i \in DOMAIN ns |-> feed[ns[i]].size])

\* slice(0, 2000).
Newest(ns) == SubSeq(ns, 1, IF Len(ns) > PACKET_LIMIT THEN PACKET_LIMIT ELSE Len(ns))

\* seeded fault: the queue is read, not emptied
Render_KeepsQueue ==
  /\ packetQueue # <<>>
  /\ packets' = Newest(Reverse(packetQueue) \o packets)
  /\ packetCounts' = [p \in Protocols |-> packetCounts[p] + Count(p, packetQueue)]
  /\ totalBytes' = totalBytes + Bytes(packetQueue)
  /\ counted' = counted \o packetQueue
  /\ Refresh(packets', activeFilter, currentPage)
  /\ UNCHANGED <<feed, connecting, pos, heard, packetQueue, activeFilter>>

\* The 100 ms timer.
Render ==
  /\ packetQueue # <<>>
  /\ packetQueue' = <<>>
  /\ packets' = Newest(Reverse(packetQueue) \o packets)
  /\ packetCounts' = [p \in Protocols |-> packetCounts[p] + Count(p, packetQueue)]
  /\ totalBytes' = totalBytes + Bytes(packetQueue)
  /\ counted' = counted \o packetQueue
  /\ Refresh(packets', activeFilter, currentPage)
  /\ UNCHANGED <<feed, connecting, pos, heard, activeFilter>>

\* setFilter and handleSearch.
SetFilter ==
  /\ activeFilter' \in {"all"} \cup {feed[i].proto : i \in DOMAIN feed}
  /\ Refresh(packets, activeFilter', 1)
  /\ UNCHANGED <<feed, connecting, pos, heard, packetQueue, table>>

\* seeded fault: the counter goes down before it is checked
PrevPage_ChecksLate ==
  /\ IF currentPage > 1
       THEN Refresh(packets, activeFilter, currentPage - 1)
       ELSE currentPage' = currentPage - 1 /\ UNCHANGED rows
  /\ UNCHANGED <<feed, connecting, pos, heard, packetQueue, table, activeFilter>>

NextPage ==
  /\ currentPage < Pages(Len(Matching(packets, activeFilter)))
  /\ Refresh(packets, activeFilter, currentPage + 1)
  /\ UNCHANGED <<feed, connecting, pos, heard, packetQueue, table, activeFilter>>

PrevPage ==
  /\ currentPage > 1
  /\ Refresh(packets, activeFilter, currentPage - 1)
  /\ UNCHANGED <<feed, connecting, pos, heard, packetQueue, table, activeFilter>>

DashboardNext ==
  \/ OnOpen \/ OnClose \/ Retry \/ OnMessage
  \/ Render \/ SetFilter \/ NextPage \/ PrevPage

-----------------------------------------------------------------------------
(* Properties. *)

DashboardTypeOK ==
  /\ socket \in {"closed", "connecting", "open"}
  /\ connection \in 0 .. MaxConnections
  /\ member \in [Connections -> {"out", "in", "left"}]
  /\ pos \in [Connections -> 0 .. Len(feed)]
  /\ {packetQueue, packets, rows, counted} \subseteq Seq(1 .. Len(feed))
  /\ packetCounts \in [Protocols -> Nat]
  /\ totalBytes \in Nat
  /\ activeFilter \in {"all"} \cup Protocols
  /\ currentPage \in Nat \ {0}
  /\ heard \subseteq 1 .. Len(feed)

\* What matches is never hidden behind a page that has none of it, while packets
\* come in, fall off the end of the table and filters change under the page that
\* is being read (index.html:1590).
PageExists ==
  Matching(packets, activeFilter) # <<>> =>
    /\ rows # <<>>
    /\ currentPage <= Pages(Len(Matching(packets, activeFilter)))

\* However the connection breaks and comes back, and however messages, timer and
\* clicks follow one another, each message received that is JSON is counted once
\* or in the queue, in the order of the feed, the table has the newest of those
\* counted, and the statistics are about all of them (index.html:1325, :1356).
Accounted ==
  /\ Lists(counted \o packetQueue, {n \in heard : ~feed[n].control})
  /\ IsPrefix(packets, Reverse(counted))
  /\ Len(packets) = PACKET_LIMIT \/ Len(packets) = Len(counted)
  /\ \A p \in Protocols : packetCounts[p] = Count(p, counted)
  /\ totalBytes = Bytes(counted)

=============================================================================
