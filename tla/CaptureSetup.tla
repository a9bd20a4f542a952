---------------------------- MODULE CaptureSetup ----------------------------
(***************************************************************************)
(* How main (src/netzer-cli/src/main.rs) gets from its arguments to the    *)
(* capture loop: the socket is opened, bound, filtered; files are created; *)
(* privileges are dropped; only then frames are processed.  The kernel     *)
(* does not wait for that: from socket() on, whatever the socket hears at  *)
(* that moment goes into its buffer.  RawSocket::new, RingSocket::new and  *)
(* drop_privileges of netzer-socket are modelled call by call, each call   *)
(* may fail, and what the code does then is part of its action.            *)
(*                                                                         *)
(* A frame says which interface it came from and whether it matches the    *)
(* port and the protocol asked for.  The filters are taken to be exact     *)
(* here; BpfFilter looks at what they really accept.                       *)
(***************************************************************************)
EXTENDS Integers, Sequences, SequencesExt

CONSTANTS
  ArgSets,           \* [ring_buffer, filter_port, filter_proto] records
  InterfaceExists,   \* may the interface named exist?  A subset of BOOLEAN
  Invokers,          \* who SUDO_UID and SUDO_GID may name: root or user
  MaxArrivals        \* bound: frames that arrive

ASSUME SetupAssumption ==
  /\ ArgSets \subseteq [ring_buffer : BOOLEAN, filter_port : BOOLEAN, filter_proto : BOOLEAN]
  /\ InterfaceExists \subseteq BOOLEAN
  /\ Invokers \subseteq {"root", "user"}
  /\ MaxArrivals \in Nat

VARIABLES
  args,        \* the arguments
  exists,      \* does an interface of that name exist?
  pc,          \* the step main is at
  ifindex,     \* the interface to bind to; index 0 stands for any
  hears,       \* the interface the socket hears: none, any or the one chosen
  attached,    \* the filter attached to the socket
  buffer,      \* frames the socket has received
  arrivals,    \* number of frames that have arrived
  uid, gid,    \* who the process runs as: root or user
  invoker,     \* who drop_privileges would become: the one behind sudo, or nobody
  announced,   \* the filters the banner lists as active
  processed    \* history: frames given to process_packet

socket == <<ifindex, hears, attached>>
ids == <<uid, gid, invoker>>
frames == <<buffer, arrivals, processed>>
vars == <<args, exists, pc, socket, ids, announced, frames>>

CHOSEN == "chosen"
ANY == "any"
NONE == "none"

Init ==
  /\ args \in ArgSets
  /\ exists \in InterfaceExists
  /\ pc = "socket"
  /\ ifindex = ANY
  /\ hears = NONE
  /\ attached = NONE
  /\ buffer = <<>>
  /\ arrivals = 0
  /\ uid \in {"root", "user"}
  /\ gid = uid
  /\ invoker \in Invokers
  /\ announced = {}
  /\ processed = <<>>

-----------------------------------------------------------------------------
(* The kernel. *)

Frames == [iface : {CHOSEN, "another"}, port : BOOLEAN, proto : BOOLEAN,
           late : BOOLEAN]

Heard(f) == hears = ANY \/ (hears = CHOSEN /\ f.iface = CHOSEN)

Accepted(f) ==
  /\ attached = "port" => f.port
  /\ attached = "proto" => f.proto

\* A frame comes in; late marks those that come when the setup is over.
Arrive ==
  \E f \in Frames :
    /\ arrivals < MaxArrivals
    /\ f.late = (pc = "loop")
    /\ Heard(f)
    /\ Accepted(f)
    /\ buffer' = Append(buffer, f)
    /\ arrivals' = arrivals + 1
    /\ UNCHANGED <<args, exists, pc, socket, ids, announced, processed>>

-----------------------------------------------------------------------------
(* main. *)

\* A call fails and main exits; the kernel closes the socket.
Exit ==
  /\ pc' = "exit"
  /\ hears' = NONE
  /\ UNCHANGED <<args, exists, ifindex, attached, ids, announced, frames>>

GoTo(step) == pc' = step

\* socket(AF_PACKET, SOCK_RAW, ETH_P_ALL): it hears every interface at once.
OpenSocket ==
  /\ pc = "socket"
  /\ \/ Exit
     \/ /\ hears' = ANY
        /\ GoTo(IF args.ring_buffer THEN "ring" ELSE "ioctl")
        /\ UNCHANGED <<args, exists, ifindex, attached, ids, announced, frames>>

\* TPACKET_V3, PACKET_RX_RING and mmap; the kernel purges what it has queued.
SetupRing ==
  /\ pc = "ring"
  /\ \/ Exit
     \/ /\ buffer' = <<>>
        /\ GoTo("ioctl")
        /\ UNCHANGED <<args, exists, socket, ids, announced, arrivals, processed>>

\* seeded fault: RawSocket::new goes on when SIOCGIFINDEX fails
FindInterface_Ignored ==
  /\ pc = "ioctl"
  /\ ~args.ring_buffer
  /\ ifindex' = IF exists THEN CHOSEN ELSE ANY
  /\ GoTo("bind")
  /\ UNCHANGED <<args, exists, hears, attached, ids, announced, frames>>

\* RawSocket::new: the name is looked up with SIOCGIFINDEX, or it gives up.
FindInterface ==
  /\ pc = "ioctl"
  /\ ~args.ring_buffer
  /\ IF exists
       THEN /\ ifindex' = CHOSEN
            /\ GoTo("bind")
            /\ UNCHANGED <<args, exists, hears, attached, ids, announced, frames>>
       ELSE Exit

\* RingSocket::new does not look at the result of SIOCGIFINDEX: when it fails,
\* the index stays the 0 of the zeroed ifreq.
FindInterfaceRing ==
  /\ pc = "ioctl"
  /\ args.ring_buffer
  /\ ifindex' = IF exists THEN CHOSEN ELSE ANY
  /\ GoTo("bind")
  /\ UNCHANGED <<args, exists, hears, attached, ids, announced, frames>>

\* bind; a raw socket gets its filters next.
Bind ==
  /\ pc = "bind"
  /\ ~args.ring_buffer
  /\ \/ Exit
     \/ /\ hears' = ifindex
        /\ GoTo("port_filter")
        /\ UNCHANGED <<args, exists, ifindex, attached, ids, announced, frames>>

\* bind; main attaches no filter to a ring socket.
BindRing ==
  /\ pc = "bind"
  /\ args.ring_buffer
  /\ \/ Exit
     \/ /\ hears' = ifindex
        /\ GoTo("files")
        /\ UNCHANGED <<args, exists, ifindex, attached, ids, announced, frames>>

\* attach_filter_port, if asked for.
AttachPort ==
  /\ pc = "port_filter"
  /\ IF args.filter_port
       THEN \/ Exit
            \/ /\ attached' = "port"
               /\ GoTo("proto_filter")
               /\ UNCHANGED <<args, exists, ifindex, hears, ids, announced, frames>>
       ELSE /\ GoTo("proto_filter")
            /\ UNCHANGED <<args, exists, socket, ids, announced, frames>>

\* seeded fault: a filter that cannot be attached is only reported
AttachProto_Ignored ==
  /\ pc = "proto_filter"
  /\ attached' \in IF args.filter_proto THEN {"proto", attached} ELSE {attached}
  /\ GoTo("files")
  /\ UNCHANGED <<args, exists, ifindex, hears, ids, announced, frames>>

\* attach_filter_proto, if asked for: SO_ATTACH_FILTER replaces the filter that
\* was attached before.
AttachProto ==
  /\ pc = "proto_filter"
  /\ IF args.filter_proto
       THEN \/ Exit
            \/ /\ attached' = "proto"
               /\ GoTo("files")
               /\ UNCHANGED <<args, exists, ifindex, hears, ids, announced, frames>>
       ELSE /\ GoTo("files")
            /\ UNCHANGED <<args, exists, socket, ids, announced, frames>>

\* The export files are created, while that may still need root.
CreateFiles ==
  /\ pc = "files"
  /\ \/ Exit
     \/ /\ GoTo("drop")
        /\ UNCHANGED <<args, exists, socket, ids, announced, frames>>

\* seeded fault: the result of setgid is not checked
DropGroup_Unchecked ==
  /\ pc = "drop"
  /\ gid' \in IF uid = "root" THEN {invoker, gid} ELSE {gid}
  /\ GoTo(IF uid = "root" THEN "setuid" ELSE "banner")
  /\ UNCHANGED <<args, exists, socket, uid, invoker, announced, frames>>

\* drop_privileges: nothing to do for a user; otherwise setgid, to the group of
\* who is behind sudo or to nobody.  A SUDO_UID that is no number fails too.
DropGroup ==
  /\ pc = "drop"
  /\ IF uid = "root"
       THEN \/ Exit
            \/ /\ gid' = invoker
               /\ GoTo("setuid")
               /\ UNCHANGED <<args, exists, socket, uid, invoker, announced, frames>>
       ELSE /\ GoTo("banner")
            /\ UNCHANGED <<args, exists, socket, ids, announced, frames>>

DropUser ==
  /\ pc = "setuid"
  /\ \/ Exit
     \/ /\ uid' = invoker
        /\ GoTo("banner")
        /\ UNCHANGED <<args, exists, socket, gid, invoker, announced, frames>>

\* The tracker and the web server are started (WebServer), the banner says what
\* was asked for.
Banner ==
  /\ pc = "banner"
  /\ announced' = {f \in {"port", "proto"} :
                     \/ f = "port" /\ args.filter_port
                     \/ f = "proto" /\ args.filter_proto}
  /\ GoTo("loop")
  /\ UNCHANGED <<args, exists, socket, ids, frames>>

\* One turn of the capture loop.  A failed recv or recv_block is reported and
\* called again, and changes nothing here.
Process ==
  /\ pc = "loop"
  /\ buffer # <<>>
  /\ processed' = Append(processed, Head(buffer))
  /\ buffer' = Tail(buffer)
  /\ UNCHANGED <<args, exists, pc, socket, ids, announced, arrivals>>

Main ==
  \/ OpenSocket \/ SetupRing \/ FindInterface \/ FindInterfaceRing \/ Bind \/ BindRing
  \/ AttachPort \/ AttachProto \/ CreateFiles \/ DropGroup \/ DropUser \/ Banner \/ Process

Next == Arrive \/ Main

Spec == Init /\ [][Next]_vars

-----------------------------------------------------------------------------
(* Properties. *)

\* Every variable has its type, and a socket is heard through a filter only when
\* it has been bound (main.rs:665).
TypeOK ==
  /\ args \in ArgSets
  /\ exists \in InterfaceExists
  /\ pc \in {"socket", "ring", "ioctl", "bind", "port_filter", "proto_filter",
             "files", "drop", "setuid", "banner", "loop", "exit"}
  /\ ifindex \in {CHOSEN, ANY}
  /\ hears \in {NONE, CHOSEN, ANY}
  /\ attached \in {NONE, "port", "proto"}
  /\ attached # NONE => ~args.ring_buffer /\ ifindex = CHOSEN
  /\ buffer \in Seq(Frames)
  /\ arrivals \in 0 .. MaxArrivals
  /\ {uid, gid} \subseteq {"root", "user"}
  /\ invoker \in Invokers
  /\ announced \subseteq {"port", "proto"}
  /\ processed \in Seq(Frames)

\* README.md:20: root privileges are dropped, group and user, before the first
\* packet is processed, whatever call fails on the way; unless it is root who
\* called sudo, and SUDO_UID is 0 (socket.rs:197, :201).
PrivilegesDropped ==
  processed # <<>> /\ invoker = "user" => uid = "user" /\ gid = "user"

\* What a raw socket hears once the loop runs is what was asked for: frames of
\* the interface chosen that match the filter attached last; a step that failed
\* has ended the program and not left the socket open to more (main.rs:666).
LateFramesMatch ==
  \A f \in ToSet(processed) :
    f.late /\ ~args.ring_buffer =>
      /\ f.iface = CHOSEN
      /\ args.filter_proto => f.proto
      /\ args.filter_port /\ ~args.filter_proto => f.port

\* main.rs:28 says of --interface: "Network interface to capture on".  Frames that
\* were heard before bind aside, none comes from another one.
LateOnlyInterfaceChosen == \A f \in ToSet(processed) : f.late => f.iface = CHOSEN

\* main.rs:742 prints "BPF Kernel Filters Active:" and the filters asked for.
AnnouncedFiltersActive == pc = "loop" => announced \subseteq {attached}

=============================================================================
