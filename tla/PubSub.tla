------------------------------- MODULE PubSub -------------------------------
(***************************************************************************)
(* What the dashboard feed promises a subscriber: from the moment it joins *)
(* it gets every message published from some point on, in order, without a *)
(* gap or a repetition, until it leaves for good; and no subscriber is     *)
(* more than one message ahead of another.  Publishing waits for nobody.   *)
(*                                                                         *)
(* WebServer implements this specification (WebServer!PS).                 *)
(***************************************************************************)
EXTENDS Integers

CONSTANT Clients

VARIABLES
  published,   \* number of messages published so far
  member,      \* "out", "in" or "left", per client
  pos          \* per client, the number of the last message it was sent

vars == <<published, member, pos>>

Members == {c \in Clients : member[c] = "in"}

Init ==
  /\ published = 0
  /\ member = [c \in Clients |-> "out"]
  /\ pos = [c \in Clients |-> 0]

Publish ==
  /\ published' = published + 1
  /\ UNCHANGED <<member, pos>>

\* A client joins behind the message all the others have got so far, and no
\* earlier than where one that has left stopped: who comes back sees nothing twice.
Join(c) ==
  /\ member[c] = "out"
  /\ member' = [member EXCEPT ![c] = "in"]
  /\ \E k \in 0 .. published :
       /\ \A d \in Members : pos[d] = k
       /\ \A d \in Clients : pos[d] <= k
       /\ pos' = [pos EXCEPT ![c] = k]
  /\ UNCHANGED published

\* The next message goes to a subscriber none of the others is behind of.
Deliver(c) ==
  /\ c \in Members
  /\ pos[c] < published
  /\ \A d \in Members : pos[d] >= pos[c]
  /\ pos' = [pos EXCEPT ![c] = pos[c] + 1]
  /\ UNCHANGED <<published, member>>

Leave(c) ==
  /\ c \in Members
  /\ member' = [member EXCEPT ![c] = "left"]
  /\ UNCHANGED <<published, pos>>

Next == Publish \/ \E c \in Clients : Join(c) \/ Deliver(c) \/ Leave(c)

Spec == Init /\ [][Next]_vars

=============================================================================
