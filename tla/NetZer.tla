------------------------------- MODULE NetZer -------------------------------
(***************************************************************************)
(* The capture thread and a page in the browser, composed: PacketHandlers  *)
(* writes the feed, Dashboard reads it over a connection as PubSub         *)
(* promises it.  The two share nothing else.                               *)
(***************************************************************************)
EXTENDS PacketHandlers, Dashboard

vars == <<feed, handlerVars, dashboardVars>>

Init == HandlersInit /\ DashboardInit

Next ==
  \/ HandlersNext /\ UNCHANGED dashboardVars
  \/ DashboardNext /\ UNCHANGED handlerVars

Spec == Init /\ [][Next]_vars

-----------------------------------------------------------------------------
(* Properties. *)

\* Every variable has its type: both parts refer to packets captured and to
\* messages broadcast only.
TypeOK == HandlersTypeOK /\ DashboardTypeOK

\* What the page has been told of has been exported before: it is in the pcap file,
\* its write to the JSON file is over.
ShownIsExported ==
  \A n \in heard :
    /\ "pcap" \in outputs => \E i \in DOMAIN pcap : pcap[i].packet = feed[n].packet
    /\ "json" \in outputs => \E i \in DOMAIN logged : logged[i].packet = feed[n].packet

=============================================================================
