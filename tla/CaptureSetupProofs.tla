------------------------- MODULE CaptureSetupProofs -------------------------
(***************************************************************************)
(* Proofs about CaptureSetup: for any arguments and any number of frames,  *)
(* whichever call fails, no packet is processed with root's identity, and  *)
(* what a raw socket hears once the loop runs is what was asked for.       *)
(***************************************************************************)
EXTENDS CaptureSetup, TLAPS

(* Where main may stand once it has passed a step. *)
Looping == {"loop"}
Dropped == {"banner"} \cup Looping
Bound == {"port_filter", "proto_filter", "files", "drop", "setuid"} \cup Dropped
Found == {"bind"} \cup Bound

\* Who the process runs as at each step of drop_privileges.
Identities ==
  /\ pc \notin {"setuid", "exit"} \cup Dropped => gid = uid
  /\ pc = "setuid" => gid = invoker
  /\ pc \in Dropped /\ invoker = "user" => uid = "user" /\ gid = "user"

\* What a raw socket hears, and through which filter, at each step.
Hearing ==
  /\ pc \in {"port_filter", "proto_filter"} => ~args.ring_buffer
  /\ ~args.ring_buffer =>
    /\ pc \in Found => ifindex = CHOSEN
    /\ pc \in Bound => hears = CHOSEN
    /\ pc \in Bound \ {"port_filter"} /\ args.filter_port =>
         attached \in {"port", "proto"}
    /\ attached = "proto" => args.filter_proto
    /\ pc \in Bound \ {"port_filter", "proto_filter"} /\ args.filter_proto =>
         attached = "proto"

\* What LateFramesMatch says of a frame.
Wanted(f) ==
  f.late /\ ~args.ring_buffer =>
    /\ f.iface = CHOSEN
    /\ args.filter_proto => f.proto
    /\ args.filter_port /\ ~args.filter_proto => f.port

\* Frames that came late came through the filter, and none is processed before
\* the loop.
BufferWanted ==
  /\ processed # <<>> => pc = "loop"
  /\ \A i \in 1 .. Len(buffer) : buffer[i].late => pc = "loop"
  /\ \A i \in 1 .. Len(buffer) : Wanted(buffer[i])
  /\ \A i \in 1 .. Len(processed) : Wanted(processed[i])

\* PrivilegesDropped and LateFramesMatch are about the loop only; the invariant
\* says what each step on the way to it has established.
SetupInv == TypeOK /\ Identities /\ Hearing /\ BufferWanted

-----------------------------------------------------------------------------

LEMMA FrameSeqs ==
  /\ <<>> \in Seq(Frames)
  /\ \A s \in Seq(Frames) : s # <<>> => Head(s) \in Frames /\ Tail(s) \in Seq(Frames)
  /\ \A s \in Seq(Frames), f \in Frames : Append(s, f) \in Seq(Frames)
OBVIOUS

LEMMA InitSetupInv == Init => SetupInv
<1>. SUFFICES ASSUME Init PROVE SetupInv
  OBVIOUS
<1>1. TypeOK
  <2>1. buffer = <<>> /\ processed = <<>> /\ <<>> \in Seq(Frames)
    BY DEF Init
  <2>. QED  BY <2>1, SetupAssumption DEF Init, TypeOK, CHOSEN, ANY, NONE
<1>2. Identities /\ Hearing
  BY DEF Init, Identities, Hearing, Looping, Dropped, Bound, Found, NONE
<1>3. BufferWanted
  BY DEF Init, BufferWanted
<1>. QED  BY <1>1, <1>2, <1>3 DEF SetupInv

LEMMA TypeStep ==
  ASSUME TypeOK, Hearing, [Next]_vars
  PROVE  TypeOK'
<1>. USE DEF TypeOK, CHOSEN, ANY, NONE, GoTo, socket, ids, frames
<1>0. args \in [ring_buffer : BOOLEAN, filter_port : BOOLEAN, filter_proto : BOOLEAN]
      /\ invoker \in {"root", "user"} /\ MaxArrivals \in Nat
  BY SetupAssumption
<1>1. CASE Arrive
  <2>1. PICK f \in Frames : buffer' = Append(buffer, f)
    BY <1>1 DEF Arrive
  <2>2. buffer' \in Seq(Frames)
    BY <2>1, FrameSeqs
  <2>3. arrivals' \in 0 .. MaxArrivals
    BY <1>0, <1>1 DEF Arrive
  <2>. QED  BY <1>1, <2>2, <2>3 DEF Arrive
<1>e. CASE Exit
  BY <1>e DEF Exit
<1>2. CASE OpenSocket
  BY <1>2, <1>e DEF OpenSocket
<1>3. CASE SetupRing
  BY <1>3, <1>e, FrameSeqs DEF SetupRing
<1>4. CASE FindInterface
  BY <1>4, <1>e DEF FindInterface
<1>5. CASE FindInterfaceRing
  BY <1>5 DEF FindInterfaceRing
<1>6. CASE Bind
  BY <1>6, <1>e DEF Bind
<1>7. CASE BindRing
  BY <1>7, <1>e DEF BindRing
<1>8. CASE AttachPort
  BY <1>8, <1>e DEF AttachPort, Hearing, Found, Bound
<1>9. CASE AttachProto
  BY <1>9, <1>e DEF AttachProto, Hearing, Found, Bound
<1>10. CASE CreateFiles
  BY <1>10, <1>e DEF CreateFiles
<1>11. CASE DropGroup
  BY <1>0, <1>11, <1>e DEF DropGroup
<1>12. CASE DropUser
  BY <1>0, <1>12, <1>e DEF DropUser
<1>13. CASE Banner
  BY <1>13 DEF Banner
<1>14. CASE Process
  <2>1. Tail(buffer) \in Seq(Frames) /\ Append(processed, Head(buffer)) \in Seq(Frames)
    BY <1>14, FrameSeqs DEF Process
  <2>. QED  BY <1>14, <2>1 DEF Process
<1>15. CASE UNCHANGED vars
  BY <1>15 DEF vars
<1>. QED  BY <1>1, <1>2, <1>3, <1>4, <1>5, <1>6, <1>7, <1>8, <1>9, <1>10, <1>11,
             <1>12, <1>13, <1>14, <1>15 DEF Next, Main

(* drop_privileges changes the identity; Exit and the rest of main do not. *)
LEMMA IdentitiesStep ==
  ASSUME TypeOK, Identities, [Next]_vars
  PROVE  Identities'
<1>. USE DEF Identities, Dropped, Looping, GoTo, socket, ids, frames
<1>0. {uid, gid, invoker} \subseteq {"root", "user"}
  BY SetupAssumption DEF TypeOK
<1>e. CASE Exit
  BY <1>e DEF Exit
<1>1. CASE Arrive
  BY <1>1 DEF Arrive
<1>2. CASE OpenSocket
  BY <1>2, <1>e DEF OpenSocket
<1>3. CASE SetupRing
  BY <1>3, <1>e DEF SetupRing
<1>4. CASE FindInterface
  BY <1>4, <1>e DEF FindInterface
<1>5. CASE FindInterfaceRing
  BY <1>5 DEF FindInterfaceRing
<1>6. CASE Bind
  BY <1>6, <1>e DEF Bind
<1>7. CASE BindRing
  BY <1>7, <1>e DEF BindRing
<1>8. CASE AttachPort
  BY <1>8, <1>e DEF AttachPort
<1>9. CASE AttachProto
  BY <1>9, <1>e DEF AttachProto
<1>10. CASE CreateFiles
  BY <1>10, <1>e DEF CreateFiles
<1>11. CASE DropGroup
  BY <1>0, <1>11, <1>e DEF DropGroup
<1>12. CASE DropUser
  BY <1>0, <1>12, <1>e DEF DropUser
<1>13. CASE Banner
  BY <1>13 DEF Banner
<1>14. CASE Process
  BY <1>14 DEF Process
<1>15. CASE UNCHANGED vars
  BY <1>15 DEF vars
<1>. QED  BY <1>1, <1>2, <1>3, <1>4, <1>5, <1>6, <1>7, <1>8, <1>9, <1>10, <1>11,
             <1>12, <1>13, <1>14, <1>15 DEF Next, Main

(* Each step of RawSocket::new and of the filters adds one thing to what is heard. *)
LEMMA HearingStep ==
  ASSUME TypeOK, Hearing, [Next]_vars
  PROVE  Hearing'
<1>. USE DEF Hearing, Found, Bound, Dropped, Looping, GoTo, socket, ids, frames
<1>0. attached \in {NONE, "port", "proto"} /\ NONE # "proto"
      /\ (attached # NONE => ~args.ring_buffer)
  BY DEF TypeOK, NONE
<1>e. CASE Exit
  BY <1>e DEF Exit
<1>1. CASE Arrive
  BY <1>1 DEF Arrive
<1>2. CASE OpenSocket
  BY <1>2, <1>e DEF OpenSocket
<1>3. CASE SetupRing
  BY <1>3, <1>e DEF SetupRing
<1>4. CASE FindInterface
  BY <1>4, <1>e DEF FindInterface
<1>5. CASE FindInterfaceRing
  BY <1>5 DEF FindInterfaceRing
<1>6. CASE Bind
  BY <1>6, <1>e DEF Bind
<1>7. CASE BindRing
  BY <1>7, <1>e DEF BindRing
<1>8. CASE AttachPort
  BY <1>0, <1>8, <1>e DEF AttachPort
<1>9. CASE AttachProto
  BY <1>0, <1>9, <1>e DEF AttachProto
<1>10. CASE CreateFiles
  BY <1>10, <1>e DEF CreateFiles
<1>11. CASE DropGroup
  BY <1>11, <1>e DEF DropGroup
<1>12. CASE DropUser
  BY <1>12, <1>e DEF DropUser
<1>13. CASE Banner
  BY <1>13 DEF Banner
<1>14. CASE Process
  BY <1>14 DEF Process
<1>15. CASE UNCHANGED vars
  BY <1>15 DEF vars
<1>. QED  BY <1>1, <1>2, <1>3, <1>4, <1>5, <1>6, <1>7, <1>8, <1>9, <1>10, <1>11,
             <1>12, <1>13, <1>14, <1>15 DEF Next, Main

(* A frame that comes late has been heard on the interface chosen, and has passed
   the filter attached last. *)
LEMMA LateFramesWanted ==
  ASSUME TypeOK, Hearing, NEW f \in Frames, f.late = (pc = "loop"), Heard(f), Accepted(f)
  PROVE  Wanted(f)
<1>1. SUFFICES ASSUME f.late, ~args.ring_buffer
               PROVE  /\ f.iface = CHOSEN
                      /\ args.filter_proto => f.proto
                      /\ args.filter_port /\ ~args.filter_proto => f.port
  BY DEF Wanted
<1>2. pc = "loop"
  BY <1>1
<1>3. hears = CHOSEN /\ CHOSEN # ANY
  BY <1>1, <1>2 DEF Hearing, Bound, Dropped, Looping, CHOSEN, ANY
<1>4. /\ args.filter_proto => attached = "proto"
      /\ args.filter_port /\ ~args.filter_proto => attached = "port"
  BY <1>1, <1>2 DEF Hearing, Bound, Dropped, Looping
<1>. QED  BY <1>1, <1>3, <1>4 DEF Heard, Accepted

LEMMA BufferStep ==
  ASSUME TypeOK, Hearing, BufferWanted, [Next]_vars
  PROVE  BufferWanted'
<1>0. buffer \in Seq(Frames) /\ processed \in Seq(Frames)
  BY DEF TypeOK
<1>1. CASE Arrive
  <2>1. PICK f \in Frames : /\ f.late = (pc = "loop") /\ Heard(f) /\ Accepted(f)
                            /\ buffer' = Append(buffer, f)
    BY <1>1 DEF Arrive
  <2>2. Wanted(f)
    BY <2>1, LateFramesWanted
  <2>3. Len(buffer') = Len(buffer) + 1
        /\ \A i \in 1 .. Len(buffer') :
             buffer'[i] = f \/ (i \in 1 .. Len(buffer) /\ buffer'[i] = buffer[i])
    BY <1>0, <2>1
  <2>4. pc' = pc /\ processed' = processed /\ args' = args
    BY <1>1 DEF Arrive
  <2>5. \A i \in 1 .. Len(buffer') : buffer'[i].late => pc' = "loop"
    BY <2>1, <2>3, <2>4 DEF BufferWanted
  <2>6. \A i \in 1 .. Len(buffer') : Wanted(buffer'[i])
    BY <2>2, <2>3 DEF BufferWanted
  <2>. QED  BY <2>4, <2>5, <2>6 DEF BufferWanted, Wanted
<1>2. CASE Process
  <2>1. /\ pc = "loop" /\ pc' = pc /\ args' = args /\ buffer # <<>>
        /\ processed' = Append(processed, Head(buffer)) /\ buffer' = Tail(buffer)
    BY <1>2 DEF Process
  <2>2. \A i \in 1 .. Len(buffer') : i + 1 \in 1 .. Len(buffer) /\ buffer'[i] = buffer[i + 1]
    BY <1>0, <2>1
  <2>3. \A i \in 1 .. Len(processed') :
          \/ processed'[i] = buffer[1] /\ 1 \in 1 .. Len(buffer)
          \/ i \in 1 .. Len(processed) /\ processed'[i] = processed[i]
    BY <1>0, <2>1
  <2>4. \A i \in 1 .. Len(buffer') : Wanted(buffer'[i])
    BY <2>2 DEF BufferWanted
  <2>5. \A i \in 1 .. Len(processed') : Wanted(processed'[i])
    BY <2>3 DEF BufferWanted
  <2>. QED  BY <2>1, <2>4, <2>5 DEF BufferWanted, Wanted
<1>3. CASE ~Arrive /\ ~Process
  <2>1. /\ pc = "loop" => pc' = "loop"
        /\ args' = args /\ processed' = processed
        /\ buffer' = buffer \/ buffer' = <<>>
    BY <1>3 DEF Next, Main, vars, Exit, GoTo, OpenSocket, SetupRing, FindInterface,
       FindInterfaceRing, Bind, BindRing, AttachPort, AttachProto, CreateFiles, DropGroup,
       DropUser, Banner, socket, ids, frames
  <2>. QED  BY <2>1 DEF BufferWanted, Wanted
<1>. QED  BY <1>1, <1>2, <1>3

(* The invariant, for any arguments, any number of frames and any failure. *)
THEOREM SetupInvariance == Spec => []SetupInv
<1>1. Init => SetupInv
  BY InitSetupInv
<1>2. SetupInv /\ [Next]_vars => SetupInv'
  BY TypeStep, IdentitiesStep, HearingStep, BufferStep DEF SetupInv
<1>. QED  BY <1>1, <1>2, PTL DEF Spec

(* Every variable keeps its type, and a socket has a filter only when it is a raw
   socket bound to the interface chosen (main.rs:665). *)
THEOREM SetupTypeCorrect == Spec => []TypeOK
<1>1. SetupInv => TypeOK
  BY DEF SetupInv
<1>. QED  BY <1>1, SetupInvariance, PTL

(* README.md:20: nothing is processed before group and user have been dropped. *)
THEOREM NoPacketAsRoot == Spec => []PrivilegesDropped
<1>1. SetupInv => PrivilegesDropped
  BY DEF SetupInv, BufferWanted, Identities, Dropped, Looping, PrivilegesDropped
<1>. QED  BY <1>1, SetupInvariance, PTL

(* What a raw socket hears in the loop is what was asked for, whichever call failed
   on the way (main.rs:634-681). *)
THEOREM LateFramesAreWanted == Spec => []LateFramesMatch
<1>1. SetupInv => LateFramesMatch
  <2>1. SUFFICES ASSUME SetupInv, NEW f \in ToSet(processed)
                 PROVE  Wanted(f)
    BY DEF LateFramesMatch, Wanted
  <2>2. PICK i \in DOMAIN processed : f = processed[i]
    BY <2>1 DEF ToSet
  <2>3. i \in 1 .. Len(processed)
    BY <2>1, <2>2 DEF SetupInv, TypeOK
  <2>. QED  BY <2>1, <2>2, <2>3 DEF SetupInv, BufferWanted
<1>. QED  BY <1>1, SetupInvariance, PTL

=============================================================================
