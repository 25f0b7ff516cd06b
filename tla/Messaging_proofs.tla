---------------------------- MODULE Messaging_proofs ----------------------------
(***************************************************************************)
(* Proofs about Messaging, for any number of sockets, plugins and peers    *)
(* and any bounds: no message is accepted twice (AcceptedOnce), a socket   *)
(* sends what was broadcast, in order (WireFollowsBroadcasts), plugins     *)
(* hear of a message before other nodes do (HeardBeforeForwarded), what is *)
(* accepted is forwarded in order (ForwardedInOrder), the node implements  *)
(* ForwardingNode (ImplementsForwardingNode), and the circular wait of its *)
(* threads is for good (CircularWaitIsFinal).                              *)
(*                                                                         *)
(* AcceptedOnce rests on receive_lock: between the test of a message's     *)
(* time and its note nobody else is between the two.  The others rest on   *)
(* the joins: a broadcast starts when the callbacks of the last one have   *)
(* returned, a receive thread forwards when its callbacks have, and the    *)
(* message it has is the last one accepted (LastAccepted).                 *)
(***************************************************************************)
EXTENDS Messaging, FiniteSetTheorems, TLAPS

(* Who is where, and what it holds. *)
Placed ==
  /\ \A z \in Sockets : loop[z] \in {"held", "lock", "join"} => comm_lock[z] = "recv"
  /\ \A z \in Sockets : comm_lock[z] = "send" => z \in out_hooks
  /\ \A z \in Sockets : loop[z] \in {"lock", "join"} => lmsg[z] \in Message
  /\ \A z \in Sockets : loop[z] = "join" => receive_lock = z /\ Valid(lmsg[z])
  /\ bthread # "run" => out_hooks = {}
  /\ out_hooks # {} => bmsg \in Message
  /\ in_hooks # {} => rthread = "hear"
  /\ bcall[Relay] # "out" => rthread = "forward"
  /\ rthread # "none" => rmsg \in Message

(* The time of an accepted message is noted, or that of a younger one. *)
Noted ==
  \A i \in 1..Len(accepted) :
    node_times[accepted[i].from] \in Nat /\ accepted[i].time <= node_times[accepted[i].from]

(* The broadcast under way is the last one. *)
LastSent == out_hooks # {} => Len(air) > 0 /\ bmsg = air[Len(air)]

(* The callbacks that have returned have heard of the message. *)
HeardByAll ==
  /\ rthread = "forward" => \A p \in Plugins : rmsg \in heard[p]
  /\ rthread = "hear" => \A p \in Plugins \ in_hooks : rmsg \in heard[p]

(* The message that is heard or forwarded is the last one accepted; when   *)
(* it is broadcast all others have been.                                   *)
LastAccepted ==
  rthread \in {"hear", "forward"} =>
    /\ Len(accepted) > 0 /\ rmsg = accepted[Len(accepted)]
    /\ Forwarded(Len(air)) <= Len(accepted) - 1
    /\ rthread = "forward" => Forwarded(Len(air)) = Len(accepted) - 1

OthersOnly == \A i \in 1..Len(accepted) : accepted[i].from \in Peers

IInv ==
  /\ TypeOK /\ Placed
  /\ Noted /\ AcceptedOnce
  /\ LastSent /\ WireFollowsBroadcasts
  /\ HeardByAll /\ HeardBeforeForwarded
  /\ LastAccepted /\ OthersOnly /\ ForwardedInOrder

LEMMA MessageTyped ==
  /\ \A m \in Message : m.from \in Names /\ m.time \in 0..MaxTime
  /\ \A n \in Names, c \in 0..MaxTime : [from |-> n, time |-> c] \in Message
  BY DEF Message

LEMMA ConstantsTyped ==
  /\ None \notin Nat /\ None \notin Callers /\ None \notin Sockets /\ MaxTime \in Nat
  /\ Relay \in Callers /\ Senders \subseteq Callers /\ Plain \subseteq Callers
  /\ Relay \notin Senders /\ Relay \notin Plain /\ Relay \notin Plugins
  /\ Sockets \subseteq Plugins /\ Plain \subseteq Plugins /\ Sockets \cap Callers = {}
  /\ Self \in Names
  BY MessagingAssumption DEF Callers, Plugins, Names

(* What a broadcast sends is a message, its own unless it is relayed. *)
LEMMA PackedTyped ==
  ASSUME TypeOK, Placed, NEW t \in Callers, bcall[t] = "join"
  PROVE  /\ Packed(t) \in Message
         /\ Packed(t).from # Self => t = Relay /\ Packed(t) = rmsg
<1>1. CASE t = Relay
  BY <1>1 DEF Packed, Placed
<1>2. CASE t # Relay
  BY <1>2, ConstantsTyped, MessageTyped DEF Packed, TypeOK
<1> QED
  BY <1>1, <1>2

-----------------------------------------------------------------------------
(* Types.                                                                  *)

LEMMA TypeStep ==
  ASSUME TypeOK, Placed, [Next]_vars
  PROVE  TypeOK'
<1> USE ConstantsTyped
<1>1. ASSUME NEW t \in Callers, CallBroadcast(t) PROVE TypeOK'
  <2>1. sends' \in 0..MaxSends
    BY <1>1, MessagingAssumption DEF CallBroadcast, TypeOK
  <2> QED
    BY <1>1, <2>1 DEF TypeOK, CallBroadcast, loopVars, receiveVars
<1>2. ASSUME NEW t \in Callers, LockBroadcast(t) PROVE TypeOK'
  BY <1>2 DEF TypeOK, LockBroadcast, worldVars, loopVars, receiveVars
<1>3. ASSUME NEW t \in Callers, StartBroadcast(t) PROVE TypeOK'
  <2>1. Packed(t) \in Message
    BY <1>3, PackedTyped DEF StartBroadcast
  <2>2. air' \in Seq(Message)
    BY <1>3, <2>1 DEF TypeOK, StartBroadcast
  <2> QED
    BY <1>3, <2>1, <2>2 DEF TypeOK, StartBroadcast, worldVars, loopVars
<1>4. ASSUME NEW p \in Plugins, BroadcastHookReturns(p) PROVE TypeOK'
  BY <1>4 DEF TypeOK, BroadcastHookReturns, worldVars, loopVars, receiveVars
<1>5. ASSUME NEW z \in Sockets, SocketLocks(z) PROVE TypeOK'
  BY <1>5 DEF TypeOK, SocketLocks, worldVars, castVars, loopVars, receiveVars
<1>6. ASSUME NEW z \in Sockets, SocketSends(z) \/ SocketFails(z) PROVE TypeOK'
  <2>1. bmsg \in Message
    BY <1>6, ConstantsTyped DEF SocketSends, SocketFails, Placed
  <2>2. wire' \in [Sockets -> Seq(Message \cup {None})]
    <3>1. PICK m \in Message \cup {None} : wire' = [wire EXCEPT ![z] = Append(@, m)]
      BY <1>6, <2>1 DEF SocketSends, SocketFails
    <3>2. wire \in [Sockets -> Seq(Message \cup {None})]
      BY DEF TypeOK
    <3>3. Append(wire[z], m) \in Seq(Message \cup {None})
      BY <3>2
    <3> QED
      BY <3>1, <3>2, <3>3
  <2> QED
    BY <1>6, <2>2 DEF TypeOK, SocketSends, SocketFails, worldVars, loopVars, receiveVars
<1>7. CASE BroadcastEnds
  BY <1>7 DEF TypeOK, BroadcastEnds, worldVars, loopVars, receiveVars
<1>8. ASSUME NEW z \in Sockets, LoopTests(z) \/ LoopLocks(z) \/ ReadNothing(z) \/ RejectMessage(z) \/ LockReceive(z)
      PROVE  TypeOK'
  BY <1>8 DEF TypeOK, LoopPoints, LoopTests, LoopLocks, ReadNothing, RejectMessage, LockReceive,
              EndIteration, worldVars, castVars, receiveVars
<1>9. ASSUME NEW z \in Sockets, NEW m \in Message, ReadMessage(z, m) PROVE TypeOK'
  <2>1. reads' \in 0..MaxReads
    BY <1>9, MessagingAssumption DEF ReadMessage, TypeOK
  <2> QED
    BY <1>9, <2>1 DEF TypeOK, LoopPoints, ReadMessage, castVars, receiveVars
<1>10. ASSUME NEW z \in Sockets, AcceptMessage(z) PROVE TypeOK'
  <2>1. lmsg[z] \in Message /\ lmsg[z].time \in 0..MaxTime
    BY <1>10, MessageTyped DEF AcceptMessage, Placed
  <2>2. accepted' \in Seq(Message)
    BY <1>10, <2>1 DEF TypeOK, AcceptMessage
  <2>3. node_times' \in [Names -> (0..MaxTime) \cup {None}]
    BY <1>10, <2>1 DEF TypeOK, AcceptMessage
  <2> QED
    BY <1>10, <2>1, <2>2, <2>3 DEF TypeOK, LoopPoints, AcceptMessage, EndIteration, worldVars, castVars
<1>11. ASSUME NEW p \in Plugins, ReceiveHookReturns(p) PROVE TypeOK'
  <2>1. rmsg \in Message
    BY <1>11 DEF Placed, ReceiveHookReturns, TypeOK
  <2> QED
    BY <1>11, <2>1 DEF TypeOK, ReceiveHookReturns, worldVars, castVars, loopVars
<1>12. CASE Forward \/ DropForward
  BY <1>12 DEF TypeOK, Forward, DropForward, worldVars, castVars, loopVars
<1>13. CASE Tick
  <2>1. clock' \in 0..MaxTime
    BY <1>13 DEF Tick, TypeOK
  <2> QED
    BY <1>13, <2>1 DEF TypeOK, Tick, castVars, loopVars, receiveVars
<1>14. ASSUME NEW z \in Sockets, PeerConnects(z) PROVE TypeOK'
  BY <1>14 DEF TypeOK, PeerConnects, castVars, loopVars, receiveVars
<1>15. CASE RaiseExiting
  BY <1>15 DEF TypeOK, RaiseExiting, castVars, loopVars, receiveVars
<1>16. CASE UNCHANGED vars
  BY <1>16 DEF TypeOK, vars
<1> QED
  BY <1>1, <1>2, <1>3, <1>4, <1>5, <1>6, <1>7, <1>8, <1>9, <1>10, <1>11, <1>12, <1>13, <1>14,
     <1>15, <1>16 DEF Next, LoopStep

-----------------------------------------------------------------------------
(* Who is where.                                                           *)

LEMMA PlacedStep ==
  ASSUME TypeOK, Placed, [Next]_vars
  PROVE  Placed'
<1> USE ConstantsTyped
<1>1. ASSUME NEW t \in Callers, CallBroadcast(t) PROVE Placed'
  <2>1. t # Relay
    BY <1>1 DEF CallBroadcast
  <2>2. bcall'[Relay] = bcall[Relay]
    BY <1>1, <2>1 DEF CallBroadcast, TypeOK
  <2> QED
    BY <1>1, <2>2 DEF Placed, Valid, CallBroadcast, loopVars, receiveVars
<1>2. ASSUME NEW t \in Callers, LockBroadcast(t) PROVE Placed'
  <2>1. bcall'[Relay] # "out" => bcall[Relay] # "out"
    BY <1>2 DEF LockBroadcast, TypeOK
  <2> QED
    BY <1>2, <2>1 DEF Placed, Valid, LockBroadcast, worldVars, loopVars, receiveVars
<1>3. ASSUME NEW t \in Callers, StartBroadcast(t) PROVE Placed'
  <2>1. Packed(t) \in Message
    BY <1>3, PackedTyped DEF StartBroadcast
  <2>2. /\ bthread' = "run" /\ out_hooks' = Plugins /\ bmsg' = Packed(t)
        /\ bcall' = [bcall EXCEPT ![t] = "out"]
        /\ rthread' = IF t = Relay THEN "over" ELSE rthread
        /\ UNCHANGED <<loop, comm_lock, lmsg, receive_lock, node_times, rmsg, in_hooks>>
    BY <1>3 DEF StartBroadcast, loopVars
  <2>3. bcall'[Relay] # "out" => rthread' = "forward"
    BY <2>2 DEF Placed, TypeOK
  <2>4. in_hooks' # {} => rthread' = "hear"
    BY <1>3, <2>2 DEF Placed, StartBroadcast
  <2>5. rthread' # "none" => rmsg' \in Message
    BY <1>3, <2>2 DEF Placed, StartBroadcast
  <2> QED
    BY <2>1, <2>2, <2>3, <2>4, <2>5 DEF Placed, Valid
<1>4. ASSUME NEW p \in Plugins, BroadcastHookReturns(p) PROVE Placed'
  <2>1. /\ p \in Plain /\ out_hooks' = out_hooks \ {p}
        /\ UNCHANGED <<bcall, bthread, bmsg, loop, comm_lock, lmsg, receive_lock, node_times,
                       rthread, rmsg, in_hooks>>
    BY <1>4 DEF BroadcastHookReturns, loopVars, receiveVars
  <2>2. p \notin Sockets
    BY <2>1, MessagingAssumption
  <2> QED
    BY <2>1, <2>2 DEF Placed, Valid
<1>5. ASSUME NEW z \in Sockets, SocketLocks(z) PROVE Placed'
  <2>1. /\ z \in out_hooks /\ comm_lock[z] = None /\ comm_lock' = [comm_lock EXCEPT ![z] = "send"]
        /\ UNCHANGED <<bcall, bthread, bmsg, out_hooks, loop, lmsg, receive_lock, node_times,
                       rthread, rmsg, in_hooks>>
    BY <1>5 DEF SocketLocks, castVars, loopVars, receiveVars
  <2>2. None # "recv"
    BY MessagingAssumption
  <2>3. \A y \in Sockets : loop[y] \in {"held", "lock", "join"} => y # z
    BY <2>1, <2>2 DEF Placed
  <2> QED
    BY <2>1, <2>3 DEF Placed, Valid, TypeOK
<1>6. ASSUME NEW z \in Sockets, SocketSends(z) \/ SocketFails(z) PROVE Placed'
  <2>1. /\ comm_lock[z] = "send" /\ comm_lock' = [comm_lock EXCEPT ![z] = None]
        /\ out_hooks' = out_hooks \ {z}
        /\ UNCHANGED <<bcall, bthread, bmsg, loop, lmsg, receive_lock, node_times, rthread, rmsg, in_hooks>>
    BY <1>6 DEF SocketSends, SocketFails, loopVars, receiveVars
  <2>2. None # "send"
    BY MessagingAssumption
  <2>3. \A y \in Sockets : loop[y] \in {"held", "lock", "join"} => y # z
    BY <2>1 DEF Placed
  <2> QED
    BY <2>1, <2>2, <2>3 DEF Placed, Valid, TypeOK
<1>7. CASE BroadcastEnds
  BY <1>7 DEF Placed, Valid, BroadcastEnds, loopVars, receiveVars
<1>8. ASSUME NEW z \in Sockets, LoopTests(z) PROVE Placed'
  <2>1. /\ loop'[z] \in {"stopped", "want"} /\ \A y \in Sockets \ {z} : loop'[y] = loop[y]
        /\ UNCHANGED <<bcall, bthread, bmsg, out_hooks, comm_lock, lmsg, receive_lock, node_times,
                       rthread, rmsg, in_hooks>>
    BY <1>8 DEF LoopTests, TypeOK, castVars, receiveVars
  <2> QED
    BY <2>1 DEF Placed, Valid
<1>9. ASSUME NEW z \in Sockets, LoopLocks(z) PROVE Placed'
  <2>1. /\ loop'[z] = "held" /\ \A y \in Sockets \ {z} : loop'[y] = loop[y]
        /\ comm_lock'[z] = "recv" /\ \A y \in Sockets \ {z} : comm_lock'[y] = comm_lock[y]
        /\ UNCHANGED <<bcall, bthread, bmsg, out_hooks, lmsg, receive_lock, node_times, rthread, rmsg, in_hooks>>
    BY <1>9 DEF LoopLocks, TypeOK, castVars, receiveVars
  <2> QED
    BY <2>1 DEF Placed, Valid
<1>10. ASSUME NEW z \in Sockets, ReadNothing(z) \/ RejectMessage(z) PROVE Placed'
  <2>1. /\ loop'[z] = "top" /\ \A y \in Sockets \ {z} : loop'[y] = loop[y]
        /\ comm_lock'[z] = None /\ \A y \in Sockets \ {z} : comm_lock'[y] = comm_lock[y]
        /\ UNCHANGED <<bcall, bthread, bmsg, out_hooks, lmsg, receive_lock, node_times, rthread, rmsg, in_hooks>>
    BY <1>10 DEF ReadNothing, RejectMessage, EndIteration, TypeOK, castVars, receiveVars
  <2>2. None # "send"
    BY MessagingAssumption
  <2> QED
    BY <2>1, <2>2 DEF Placed, Valid
<1>11. ASSUME NEW z \in Sockets, NEW m \in Message, ReadMessage(z, m) PROVE Placed'
  <2>1. /\ loop[z] = "held"
        /\ loop'[z] = "lock" /\ \A y \in Sockets \ {z} : loop'[y] = loop[y]
        /\ lmsg'[z] = m /\ \A y \in Sockets \ {z} : lmsg'[y] = lmsg[y]
        /\ UNCHANGED <<bcall, bthread, bmsg, out_hooks, comm_lock, receive_lock, node_times, rthread, rmsg, in_hooks>>
    BY <1>11 DEF ReadMessage, TypeOK, castVars, receiveVars
  <2> QED
    BY <2>1 DEF Placed, Valid
<1>12. ASSUME NEW z \in Sockets, LockReceive(z) PROVE Placed'
  <2>1. /\ loop[z] = "lock" /\ receive_lock = None /\ receive_lock' = z /\ Valid(lmsg[z])
        /\ loop'[z] = "join" /\ \A y \in Sockets \ {z} : loop'[y] = loop[y]
        /\ UNCHANGED <<bcall, bthread, bmsg, out_hooks, comm_lock, lmsg, node_times, rthread, rmsg, in_hooks>>
    BY <1>12 DEF LockReceive, TypeOK, castVars, receiveVars
  <2>2. \A y \in Sockets \ {z} : loop'[y] # "join"
    BY <2>1 DEF Placed
  <2> QED
    BY <2>1, <2>2 DEF Placed, Valid
<1>13. ASSUME NEW z \in Sockets, AcceptMessage(z) PROVE Placed'
  <2>1. /\ loop[z] = "join" /\ rthread' = "hear" /\ rmsg' = lmsg[z] /\ in_hooks' = Plugins
        /\ rthread \in {"none", "over"}
        /\ loop'[z] = "top" /\ \A y \in Sockets \ {z} : loop'[y] = loop[y]
        /\ comm_lock'[z] = None /\ \A y \in Sockets \ {z} : comm_lock'[y] = comm_lock[y]
        /\ UNCHANGED <<bcall, bthread, bmsg, out_hooks, lmsg>>
    BY <1>13 DEF AcceptMessage, EndIteration, TypeOK, castVars
  <2>2. \A y \in Sockets : loop'[y] # "join"
    BY <2>1 DEF Placed
  <2>3. None # "send"
    BY MessagingAssumption
  <2>4. bcall[Relay] = "out"
    BY <2>1 DEF Placed
  <2>5. rmsg' \in Message
    BY <2>1 DEF Placed
  <2> QED
    BY <2>1, <2>2, <2>3, <2>4, <2>5 DEF Placed
<1>14. ASSUME NEW p \in Plugins, ReceiveHookReturns(p) PROVE Placed'
  BY <1>14 DEF Placed, Valid, ReceiveHookReturns, castVars, loopVars
<1>15. CASE Forward
  BY <1>15 DEF Placed, Valid, Forward, loopVars
<1>16. CASE DropForward
  BY <1>16 DEF Placed, Valid, DropForward, castVars, loopVars
<1>17. CASE Tick \/ RaiseExiting \/ UNCHANGED vars
  BY <1>17 DEF Placed, Valid, Tick, RaiseExiting, vars, castVars, loopVars, receiveVars
<1>18. ASSUME NEW z \in Sockets, PeerConnects(z) PROVE Placed'
  BY <1>18 DEF Placed, Valid, PeerConnects, castVars, loopVars, receiveVars
<1> QED
  BY <1>1, <1>2, <1>3, <1>4, <1>5, <1>6, <1>7, <1>8, <1>9, <1>10, <1>11, <1>12, <1>13, <1>14,
     <1>15, <1>16, <1>17, <1>18 DEF Next, LoopStep

-----------------------------------------------------------------------------
(* Messages are accepted once.                                             *)

LEMMA AcceptedStep ==
  ASSUME TypeOK, Placed, Noted, AcceptedOnce, [Next]_vars
  PROVE  Noted' /\ AcceptedOnce'
<1> USE ConstantsTyped
<1>1. ASSUME NEW z \in Sockets, AcceptMessage(z) PROVE Noted' /\ AcceptedOnce'
  <2> DEFINE m == lmsg[z]
  <2>1. /\ accepted' = Append(accepted, m) /\ node_times' = [node_times EXCEPT ![m.from] = m.time]
        /\ m \in Message /\ Valid(m)
    BY <1>1 DEF AcceptMessage, Placed
  <2>2. m.from \in Names /\ m.time \in Nat
    BY <2>1, MessageTyped
  <2> HIDE DEF m
  <2>3. /\ accepted \in Seq(Message) /\ Len(accepted) \in Nat
        /\ \A i \in 1..Len(accepted) : accepted[i] \in Message /\ accepted[i].from \in Names /\ accepted[i].time \in Nat
    BY MessageTyped DEF TypeOK
  <2>4. /\ Len(accepted') = Len(accepted) + 1 /\ accepted'[Len(accepted) + 1] = m
        /\ \A i \in 1..Len(accepted) : accepted'[i] = accepted[i]
        /\ \A i \in 1..Len(accepted') : i \in 1..Len(accepted) \/ i = Len(accepted) + 1
    BY <2>1, <2>3
  <2>5. \A n \in Names : node_times'[n] = IF n = m.from THEN m.time ELSE node_times[n]
    BY <2>1, <2>2 DEF TypeOK
  <2>6. \A i \in 1..Len(accepted) : accepted[i].from = m.from => accepted[i].time < m.time
    BY <2>1, <2>2, <2>3 DEF Valid, Noted
  <2>7. ASSUME NEW i \in 1..Len(accepted')
        PROVE  node_times'[accepted'[i].from] \in Nat /\ accepted'[i].time <= node_times'[accepted'[i].from]
    <3>1. CASE i = Len(accepted) + 1
      BY <2>2, <2>4, <2>5, <3>1
    <3>2. CASE i \in 1..Len(accepted)
      <4>1. accepted'[i] = accepted[i] /\ accepted[i].from \in Names /\ accepted[i].time \in Nat
        BY <2>3, <2>4, <3>2
      <4>2. CASE accepted[i].from = m.from
        <5>1. accepted[i].time < m.time
          BY <2>6, <3>2, <4>2
        <5> QED
          BY <2>2, <2>5, <4>1, <4>2, <5>1
      <4>3. CASE accepted[i].from # m.from
        BY <2>5, <3>2, <4>1, <4>3 DEF Noted
      <4> QED
        BY <4>2, <4>3
    <3> QED
      BY <2>4, <3>1, <3>2
  <2>8. ASSUME NEW i \in 1..Len(accepted'), NEW j \in 1..Len(accepted'), i < j,
               accepted'[i].from = accepted'[j].from
        PROVE  accepted'[i].time < accepted'[j].time
    <3>1. i \in 1..Len(accepted)
      BY <2>3, <2>4, <2>8
    <3>2. CASE j \in 1..Len(accepted)
      BY <2>4, <2>8, <3>1, <3>2 DEF AcceptedOnce
    <3>3. CASE j = Len(accepted) + 1
      BY <2>4, <2>6, <2>8, <3>1, <3>3
    <3> QED
      BY <2>4, <3>2, <3>3
  <2> QED
    BY <2>7, <2>8 DEF Noted, AcceptedOnce
<1>2. (\A z \in Sockets : ~AcceptMessage(z)) => UNCHANGED <<accepted, node_times>>
  BY DEF Next, LoopStep, CallBroadcast, LockBroadcast, StartBroadcast, BroadcastHookReturns,
         ReceiveHookReturns, SocketLocks, SocketSends, SocketFails, LoopTests, LoopLocks, ReadNothing,
         ReadMessage, RejectMessage, LockReceive, PeerConnects, BroadcastEnds, Forward, DropForward, Tick,
         RaiseExiting, receiveVars, vars
<1>3. CASE UNCHANGED <<accepted, node_times>>
  BY <1>3 DEF Noted, AcceptedOnce
<1> QED
  BY <1>1, <1>2, <1>3

-----------------------------------------------------------------------------
(* Sockets send what is broadcast.                                         *)

LEMMA WireStep ==
  ASSUME TypeOK, Placed, LastSent, WireFollowsBroadcasts, [Next]_vars
  PROVE  LastSent' /\ WireFollowsBroadcasts'
<1> USE ConstantsTyped
<1>1. ASSUME NEW t \in Callers, StartBroadcast(t) PROVE LastSent' /\ WireFollowsBroadcasts'
  <2>1. /\ air' = Append(air, Packed(t)) /\ bmsg' = Packed(t) /\ out_hooks' = Plugins
        /\ out_hooks = {} /\ UNCHANGED wire
    BY <1>1 DEF StartBroadcast, Placed
  <2>2. Packed(t) \in Message /\ air \in Seq(Message)
    BY <1>1, PackedTyped DEF StartBroadcast, TypeOK
  <2>3. /\ Len(air') = Len(air) + 1 /\ Len(air) \in Nat /\ air'[Len(air')] = bmsg'
        /\ \A i \in 1..Len(air) : air'[i] = air[i]
    BY <2>1, <2>2
  <2>4. \A z \in Sockets : Len(wire[z]) = Len(air) /\ z \in out_hooks'
    BY <2>1, <2>3 DEF WireFollowsBroadcasts
  <2>5. \A z \in Sockets : \A i \in 1..Len(wire[z]) : wire[z][i] \in {air'[i], None}
    BY <2>3, <2>4 DEF WireFollowsBroadcasts
  <2>6. \A z \in Sockets : Len(wire'[z]) = Len(air') - (IF z \in out_hooks' THEN 1 ELSE 0)
    <3>1. TAKE z \in Sockets
    <3>2. wire'[z] = wire[z] /\ Len(wire[z]) = Len(air) /\ z \in out_hooks'
      BY <2>1, <2>4
    <3>3. Len(air) = (Len(air) + 1) - 1
      BY <2>3
    <3> QED
      BY <2>3, <3>2, <3>3
  <2>7. WireFollowsBroadcasts'
    BY <2>1, <2>5, <2>6 DEF WireFollowsBroadcasts
  <2> QED
    BY <2>3, <2>7 DEF LastSent
<1>2. ASSUME NEW z \in Sockets, SocketSends(z) \/ SocketFails(z)
      PROVE  LastSent' /\ WireFollowsBroadcasts'
  <2>1. PICK m \in {bmsg, None} : /\ wire' = [wire EXCEPT ![z] = Append(@, m)]
        /\ comm_lock[z] = "send" /\ out_hooks' = out_hooks \ {z} /\ UNCHANGED <<air, bmsg>>
    BY <1>2 DEF SocketSends, SocketFails
  <2>2. z \in out_hooks
    BY <2>1 DEF Placed
  <2>3. Len(wire[z]) = Len(air) - 1 /\ Len(air) > 0 /\ bmsg = air[Len(air)]
    BY <2>2 DEF WireFollowsBroadcasts, LastSent
  <2>4. m \in Message \cup {None} /\ air \in Seq(Message) /\ wire[z] \in Seq(Message \cup {None})
    BY <2>1, <2>2 DEF Placed, TypeOK
  <2>5. wire'[z] = Append(wire[z], m) /\ \A y \in Sockets \ {z} : wire'[y] = wire[y]
    BY <2>1 DEF TypeOK
  <2>6. /\ Len(wire'[z]) = Len(air) /\ wire'[z][Len(air)] = m
        /\ \A i \in 1..Len(wire[z]) : wire'[z][i] = wire[z][i]
    BY <2>3, <2>4, <2>5
  <2>7. \A i \in 1..Len(wire'[z]) : wire'[z][i] \in {air[i], None}
    <3>1. SUFFICES ASSUME NEW i \in 1..Len(air) PROVE wire'[z][i] \in {air[i], None}
      BY <2>6
    <3>2. CASE i = Len(air)
      BY <2>1, <2>3, <2>6, <3>2
    <3>3. CASE i # Len(air)
      <4>1. i \in 1..Len(wire[z])
        BY <2>3, <2>4, <3>3
      <4> QED
        BY <2>6, <4>1 DEF WireFollowsBroadcasts
    <3> QED
      BY <3>2, <3>3
  <2>8. Len(wire'[z]) = Len(air') - (IF z \in out_hooks' THEN 1 ELSE 0)
    BY <2>1, <2>4, <2>6
  <2>9. \A y \in Sockets \ {z} : y \in out_hooks' <=> y \in out_hooks
    BY <2>1
  <2>10. WireFollowsBroadcasts'
    BY <2>1, <2>5, <2>7, <2>8, <2>9 DEF WireFollowsBroadcasts
  <2> QED
    BY <2>1, <2>10 DEF LastSent
<1>3. ASSUME NEW p \in Plugins, BroadcastHookReturns(p) PROVE LastSent' /\ WireFollowsBroadcasts'
  <2>1. p \in Plain /\ out_hooks' = out_hooks \ {p} /\ UNCHANGED <<air, bmsg, wire>>
    BY <1>3 DEF BroadcastHookReturns
  <2>2. p \notin Sockets
    BY <2>1, MessagingAssumption
  <2> QED
    BY <2>1, <2>2 DEF LastSent, WireFollowsBroadcasts
<1>4. ASSUME \A t \in Callers : ~StartBroadcast(t),
             \A z \in Sockets : ~(SocketSends(z) \/ SocketFails(z)), \A p \in Plugins : ~BroadcastHookReturns(p)
      PROVE  UNCHANGED <<air, bmsg, wire, out_hooks>>
  BY <1>4 DEF Next, LoopStep, CallBroadcast, LockBroadcast, ReceiveHookReturns, SocketLocks, LoopTests,
              LoopLocks, ReadNothing, ReadMessage, RejectMessage, LockReceive, AcceptMessage,
              PeerConnects, BroadcastEnds, Forward, DropForward, Tick, RaiseExiting, castVars, vars
<1>5. CASE UNCHANGED <<air, bmsg, wire, out_hooks>>
  BY <1>5 DEF LastSent, WireFollowsBroadcasts
<1> QED
  BY <1>1, <1>2, <1>3, <1>4, <1>5

-----------------------------------------------------------------------------
(* Plugins hear of a message before other nodes do.                        *)

LEMMA HeardStep ==
  ASSUME TypeOK, Placed, HeardByAll, HeardBeforeForwarded, [Next]_vars
  PROVE  HeardByAll' /\ HeardBeforeForwarded'
<1> USE ConstantsTyped
<1>1. ASSUME NEW t \in Callers, StartBroadcast(t) PROVE HeardByAll' /\ HeardBeforeForwarded'
  <2>1. /\ bcall[t] = "join" /\ air' = Append(air, Packed(t))
        /\ rthread' \in {"over", rthread} /\ UNCHANGED <<heard, rmsg, in_hooks>>
    BY <1>1 DEF StartBroadcast
  <2>2. Packed(t) \in Message /\ air \in Seq(Message) /\ (Packed(t).from # Self => t = Relay /\ Packed(t) = rmsg)
    BY <2>1, PackedTyped DEF TypeOK
  <2>3. ASSUME Packed(t).from # Self, NEW p \in Plugins PROVE Packed(t) \in heard[p]
    BY <2>1, <2>2, <2>3 DEF Placed, HeardByAll
  <2>4. \A i \in 1..Len(air') : (i \in 1..Len(air) /\ air'[i] = air[i]) \/ air'[i] = Packed(t)
    BY <2>1, <2>2
  <2>5. HeardBeforeForwarded'
    BY <2>1, <2>3, <2>4 DEF HeardBeforeForwarded
  <2> QED
    BY <2>1, <2>5 DEF HeardByAll
<1>2. ASSUME NEW p \in Plugins, ReceiveHookReturns(p) PROVE HeardByAll' /\ HeardBeforeForwarded'
  <2>1. /\ in_hooks' = in_hooks \ {p} /\ heard' = [heard EXCEPT ![p] = @ \cup {rmsg}]
        /\ UNCHANGED <<rthread, rmsg, air>>
    BY <1>2 DEF ReceiveHookReturns, castVars
  <2>2. rmsg \in heard'[p] /\ \A q \in Plugins : heard[q] \subseteq heard'[q]
    BY <2>1 DEF TypeOK
  <2> QED
    BY <2>1, <2>2 DEF HeardByAll, HeardBeforeForwarded
<1>3. ASSUME NEW z \in Sockets, AcceptMessage(z) PROVE HeardByAll' /\ HeardBeforeForwarded'
  BY <1>3 DEF AcceptMessage, castVars, HeardByAll, HeardBeforeForwarded
<1>4. CASE Forward
  BY <1>4 DEF Forward, HeardByAll, HeardBeforeForwarded
<1>5. CASE DropForward
  BY <1>5 DEF DropForward, castVars, HeardByAll, HeardBeforeForwarded
<1>6. ASSUME \A t \in Callers : ~StartBroadcast(t), \A p \in Plugins : ~ReceiveHookReturns(p),
             \A z \in Sockets : ~AcceptMessage(z), ~Forward, ~DropForward
      PROVE  UNCHANGED <<air, heard, rthread, rmsg, in_hooks>>
  BY <1>6 DEF Next, LoopStep, CallBroadcast, LockBroadcast, BroadcastHookReturns, SocketLocks, SocketSends,
              SocketFails, LoopTests, LoopLocks, ReadNothing, ReadMessage, RejectMessage, LockReceive, PeerConnects,
              BroadcastEnds, Tick, RaiseExiting, castVars, receiveVars, vars
<1>7. CASE UNCHANGED <<air, heard, rthread, rmsg, in_hooks>>
  BY <1>7 DEF HeardByAll, HeardBeforeForwarded
<1> QED
  BY <1>1, <1>2, <1>3, <1>4, <1>5, <1>6, <1>7

-----------------------------------------------------------------------------
(* Messages are forwarded in the order in which they were accepted.        *)

LEMMA ForwardedCounts ==
  ASSUME NEW i \in Nat
  PROVE  IsFiniteSet(Relayed(i)) /\ Forwarded(i) \in Nat
<1>1. IsFiniteSet(1..i)
  BY FS_Interval
<1>2. Relayed(i) \in SUBSET (1..i)
  BY DEF Relayed
<1>3. IsFiniteSet(Relayed(i))
  BY <1>1, <1>2, FS_Subset
<1> QED
  BY <1>3, FS_CardinalityType DEF Forwarded

(* A message more: it counts if it is of another node. *)
LEMMA ForwardedGrows ==
  ASSUME TypeOK, NEW m \in Message, air' = Append(air, m)
  PROVE  /\ Len(air') = Len(air) + 1 /\ Len(air) \in Nat
         /\ air'[Len(air) + 1] = m /\ \A i \in 1..Len(air) : air'[i] = air[i]
         /\ \A i \in 0..Len(air) : Forwarded(i)' = Forwarded(i)
         /\ m.from = Self => /\ Relayed(Len(air))' = Relayed(Len(air))
                             /\ Forwarded(Len(air))' = Forwarded(Len(air))
         /\ m.from # Self => /\ Relayed(Len(air))' = Relayed(Len(air)) \cup {Len(air) + 1}
                             /\ Forwarded(Len(air))' = Forwarded(Len(air)) + 1
<1>1. /\ Len(air') = Len(air) + 1 /\ Len(air) \in Nat
      /\ air'[Len(air) + 1] = m /\ \A i \in 1..Len(air) : air'[i] = air[i]
  BY DEF TypeOK
<1>2. PICK n \in Nat : n = Len(air)
  BY <1>1
<1>3. Len(air') = n + 1 /\ air'[n + 1] = m /\ \A i \in 1..n : air'[i] = air[i]
  BY <1>1, <1>2
<1>4. ASSUME NEW i \in 0..n PROVE Relayed(i)' = Relayed(i)
  BY <1>2, <1>3 DEF Relayed
<1>5. \A i \in 0..n : Forwarded(i)' = Forwarded(i)
  BY <1>4 DEF Forwarded
<1>6. 1..n + 1 = (1..n) \cup {n + 1} /\ n + 1 \notin 1..n
  BY <1>2
<1>7. m.from = Self => Relayed(n + 1)' = Relayed(n)
  BY <1>3, <1>6 DEF Relayed
<1>8. m.from # Self => Relayed(n + 1)' = Relayed(n) \cup {n + 1}
  BY <1>3, <1>6 DEF Relayed
<1>9. n + 1 \notin Relayed(n)
  BY <1>6 DEF Relayed
<1>10. PICK S : S = Relayed(n)
  OBVIOUS
<1>11. IsFiniteSet(S) /\ n + 1 \notin S
  BY <1>9, <1>10, ForwardedCounts
<1>12. Cardinality(S \cup {n + 1}) = Cardinality(S) + 1
  BY <1>11, FS_AddElement
<1>13. m.from # Self => Forwarded(n + 1)' = Forwarded(n) + 1
  BY <1>8, <1>10, <1>12 DEF Forwarded
<1>14. m.from = Self => Forwarded(n + 1)' = Forwarded(n)
  BY <1>7 DEF Forwarded
<1> QED
  BY <1>1, <1>2, <1>3, <1>5, <1>7, <1>8, <1>13, <1>14

LEMMA ForwardedStep ==
  ASSUME TypeOK, Placed, LastAccepted, OthersOnly, ForwardedInOrder, [Next]_vars
  PROVE  LastAccepted' /\ OthersOnly' /\ ForwardedInOrder'
<1> USE ConstantsTyped
<1>0. PICK n \in Nat : n = Len(accepted)
  BY DEF TypeOK
<1>1. PICK c \in Nat : c = Forwarded(Len(air))
  BY ForwardedCounts DEF TypeOK
<1>2. ASSUME NEW t \in Callers, StartBroadcast(t)
      PROVE  LastAccepted' /\ OthersOnly' /\ ForwardedInOrder'
  <2>1. /\ bcall[t] = "join" /\ air' = Append(air, Packed(t))
        /\ rthread' = IF t = Relay THEN "over" ELSE rthread
        /\ UNCHANGED <<rmsg, accepted, exiting>>
    BY <1>2 DEF StartBroadcast, worldVars
  <2>2. PICK m \in Message : m = Packed(t) /\ (m.from # Self => t = Relay /\ m = rmsg)
    BY <2>1, PackedTyped
  <2>3. CASE t # Relay
    <3>1. m.from = Self
      BY <2>2, <2>3
    <3>2. PICK l \in Nat : l = Len(air)
      BY DEF TypeOK
    <3>3. /\ Relayed(Len(air))' = Relayed(l) /\ Forwarded(Len(air))' = c
          /\ \A i \in 1..l : air'[i] = air[i] /\ Forwarded(i)' = Forwarded(i)
      BY <1>1, <2>1, <2>2, <3>1, <3>2, ForwardedGrows
    <3>4. \A i \in Relayed(l) : i \in 1..l
      BY DEF Relayed
    <3>5. \A i \in Relayed(l) : air'[i] = accepted'[Forwarded(i)']
      BY <2>1, <3>2, <3>3, <3>4 DEF ForwardedInOrder
    <3> QED
      BY <1>1, <2>1, <2>3, <3>3, <3>5 DEF LastAccepted, OthersOnly, ForwardedInOrder
  <2>4. CASE t = Relay
    <3>1. rthread = "forward"
      BY <2>1, <2>4 DEF Placed
    <3>2. rmsg = accepted[n] /\ n > 0 /\ c = n - 1
      BY <1>0, <1>1, <3>1 DEF LastAccepted
    <3>3. m = rmsg /\ m.from # Self
      BY <1>0, <2>2, <2>4, <3>2, MessagingAssumption DEF Packed, OthersOnly
    <3>4. PICK l \in Nat : l = Len(air)
      BY DEF TypeOK
    <3>5. /\ Relayed(Len(air))' = Relayed(l) \cup {l + 1} /\ Forwarded(Len(air))' = c + 1
          /\ \A i \in 1..l : air'[i] = air[i] /\ Forwarded(i)' = Forwarded(i)
          /\ Len(air') = l + 1 /\ air'[l + 1] = m
      BY <1>1, <2>1, <2>2, <3>3, <3>4, ForwardedGrows
    <3>6. \A i \in Relayed(l) : i \in 1..l
      BY DEF Relayed
    <3>7. \A i \in Relayed(l) : air'[i] = accepted'[Forwarded(i)']
      BY <2>1, <3>4, <3>5, <3>6 DEF ForwardedInOrder
    <3>8. Forwarded(l + 1)' = n
      BY <3>2, <3>5
    <3>9. air'[l + 1] = accepted'[Forwarded(l + 1)']
      BY <2>1, <3>2, <3>3, <3>5, <3>8
    <3>10. rthread' = "over" /\ Len(accepted') = n
      BY <1>0, <2>1, <2>4
    <3>11. Forwarded(Len(air))' = n
      BY <3>2, <3>5
    <3>12. \A i \in Relayed(Len(air))' : air'[i] = accepted'[Forwarded(i)']
      BY <3>5, <3>7, <3>9
    <3>13. ForwardedInOrder'
      BY <3>10, <3>11, <3>12 DEF ForwardedInOrder
    <3> QED
      BY <2>1, <3>10, <3>13 DEF LastAccepted, OthersOnly
  <2> QED
    BY <2>3, <2>4
<1>3. ASSUME NEW z \in Sockets, AcceptMessage(z)
      PROVE  LastAccepted' /\ OthersOnly' /\ ForwardedInOrder'
  <2>1. /\ loop[z] = "join" /\ rthread \in {"none", "over"} /\ rthread' = "hear" /\ rmsg' = lmsg[z]
        /\ accepted' = Append(accepted, lmsg[z]) /\ UNCHANGED <<air, exiting>>
    BY <1>3 DEF AcceptMessage, worldVars, castVars
  <2>2. PICK m \in Message : m = lmsg[z] /\ m.from \in Peers
    BY <2>1, MessageTyped DEF Placed, Valid, Names
  <2>3. /\ Len(accepted') = n + 1 /\ accepted'[n + 1] = m /\ \A i \in 1..n : accepted'[i] = accepted[i]
    BY <1>0, <2>1, <2>2 DEF TypeOK
  <2>4. \A i : Forwarded(i)' = Forwarded(i) /\ Relayed(i)' = Relayed(i)
    BY <2>1 DEF Forwarded, Relayed
  <2>5. Forwarded(Len(air))' = c /\ c <= n /\ (~exiting => c = n)
    BY <1>0, <1>1, <2>1, <2>4 DEF ForwardedInOrder
  <2>6. LastAccepted'
    BY <2>1, <2>2, <2>3, <2>5 DEF LastAccepted
  <2>7. OthersOnly'
    <3>1. \A i \in 1..n + 1 : i \in 1..n \/ i = n + 1
      OBVIOUS
    <3> QED
      BY <1>0, <2>2, <2>3, <3>1 DEF OthersOnly
  <2>8. \A i \in Relayed(Len(air)) : Forwarded(i) \in 1..n
    <3>1. SUFFICES ASSUME NEW i \in Relayed(Len(air)) PROVE Forwarded(i) \in 1..n
      OBVIOUS
    <3>2. i \in 1..Len(air) /\ air[i].from # Self /\ Len(air) \in Nat
      BY DEF Relayed, TypeOK
    <3>3. PICK k \in Nat : k = i
      BY <3>2
    <3>4. PICK S : S = Relayed(Len(air)) /\ IsFiniteSet(S) /\ Cardinality(S) = c
      BY <1>1, <3>2, ForwardedCounts DEF Forwarded
    <3>5. PICK T : T = Relayed(k) /\ IsFiniteSet(T) /\ Cardinality(T) = Forwarded(i) /\ Cardinality(T) \in Nat
      BY <3>3, ForwardedCounts DEF Forwarded
    <3>6. T \in SUBSET S /\ k \in T
      BY <3>2, <3>3, <3>4, <3>5 DEF Relayed
    <3>7. Cardinality(T) <= c
      BY <3>4, <3>6, FS_Subset
    <3>8. Cardinality(T) # 0
      BY <3>5, <3>6, FS_EmptySet
    <3> QED
      BY <2>5, <3>5, <3>7, <3>8
  <2>9. ForwardedInOrder'
    BY <1>0, <2>1, <2>3, <2>4, <2>5, <2>8 DEF ForwardedInOrder
  <2> QED
    BY <2>6, <2>7, <2>9
<1>4. ASSUME UNCHANGED <<air, accepted>> PROVE UNCHANGED <<Forwarded(Len(air)), Relayed(Len(air)), Len(air), Len(accepted)>>
              /\ \A i : Forwarded(i)' = Forwarded(i)
  BY <1>4 DEF Forwarded, Relayed
<1>5. CASE Forward
  <2>1. rthread = "hear" /\ rthread' = "forward" /\ ~exiting /\ UNCHANGED <<air, accepted, rmsg, exiting>>
    BY <1>5 DEF Forward, worldVars
  <2> QED
    BY <1>4, <2>1 DEF LastAccepted, OthersOnly, ForwardedInOrder
<1>6. CASE DropForward
  <2>1. exiting /\ rthread' = "over" /\ UNCHANGED <<air, accepted, exiting>>
    BY <1>6 DEF DropForward, worldVars, castVars
  <2> QED
    BY <1>4, <2>1 DEF LastAccepted, OthersOnly, ForwardedInOrder
<1>7. ASSUME \A t \in Callers : ~StartBroadcast(t), \A z \in Sockets : ~AcceptMessage(z), ~Forward, ~DropForward
      PROVE  UNCHANGED <<air, accepted, rthread, rmsg>> /\ (exiting' \/ UNCHANGED exiting)
  BY <1>7 DEF Next, LoopStep, CallBroadcast, LockBroadcast, BroadcastHookReturns, ReceiveHookReturns,
              SocketLocks, SocketSends, SocketFails, LoopTests, LoopLocks, ReadNothing, ReadMessage,
              RejectMessage, LockReceive, PeerConnects, BroadcastEnds, Tick, RaiseExiting,
              worldVars, castVars, receiveVars, vars
<1>8. CASE UNCHANGED <<air, accepted, rthread, rmsg>> /\ (exiting' \/ UNCHANGED exiting)
  BY <1>4, <1>8 DEF LastAccepted, OthersOnly, ForwardedInOrder
<1> QED
  BY <1>2, <1>3, <1>5, <1>6, <1>7, <1>8

-----------------------------------------------------------------------------
(* Every step is one of ForwardingNode or leaves the abstract node alone.  *)

LEMMA RefinesInit == Init => Node!AbsInit
<1> SUFFICES ASSUME Init PROVE Node!AbsInit
  OBVIOUS
<1>1. accepted = <<>> /\ air = <<>> /\ exiting = FALSE /\ rthread = "none"
  BY DEF Init
<1>2. {accepted[i] : i \in 1..Len(accepted)} = {}
  BY <1>1
<1> QED
  BY <1>1, <1>2 DEF Node!AbsInit

LEMMA RefinesStep ==
  ASSUME TypeOK, Placed, Noted, LastAccepted, OthersOnly, [Next]_vars
  PROVE  [Node!AbsNext]_(Node!absvars)
<1> USE ConstantsTyped
<1> DEFINE Taken == {accepted[i] : i \in 1..Len(accepted)}
           Waiting == IF rthread \in {"hear", "forward"} THEN {rmsg} ELSE {}
<1>1. ASSUME NEW t \in Callers, StartBroadcast(t) PROVE Node!AbsNext
  <2>1. /\ bcall[t] = "join" /\ air' = Append(air, Packed(t))
        /\ rthread' = IF t = Relay THEN "over" ELSE rthread
        /\ UNCHANGED <<rmsg, accepted, exiting>>
    BY <1>1 DEF StartBroadcast, worldVars
  <2>2. Taken' = Taken
    BY <2>1
  <2>3. CASE t # Relay
    <3>1. Waiting' = Waiting
      BY <2>1, <2>3
    <3>2. clock \in 0..MaxTime /\ Packed(t) = [from |-> Self, time |-> clock]
      BY <2>3 DEF TypeOK, Packed
    <3>3. Node!SendOwn(clock)
      BY <2>1, <2>2, <3>1, <3>2 DEF Node!SendOwn
    <3> QED
      BY <3>2, <3>3 DEF Node!AbsNext
  <2>4. CASE t = Relay
    <3>1. rthread = "forward" /\ Packed(t) = rmsg
      BY <2>1, <2>4 DEF Placed, Packed
    <3>2. Waiting = {rmsg} /\ Waiting' = {}
      BY <2>1, <2>4, <3>1
    <3>3. rmsg \in Message /\ rmsg.from \in Peers
      BY <3>1 DEF Placed, LastAccepted, OthersOnly, TypeOK
    <3>4. rmsg \in Node!Message
      BY <3>3 DEF Message, Node!Message
    <3>5. Node!PassOn(rmsg)
      BY <2>1, <2>2, <3>1, <3>2 DEF Node!PassOn
    <3> QED
      BY <3>4, <3>5 DEF Node!AbsNext
  <2> QED
    BY <2>3, <2>4
<1>2. ASSUME NEW z \in Sockets, AcceptMessage(z) PROVE Node!AbsNext
  <2>1. /\ loop[z] = "join" /\ rthread \in {"none", "over"} /\ rthread' = "hear" /\ rmsg' = lmsg[z]
        /\ accepted' = Append(accepted, lmsg[z]) /\ UNCHANGED <<air, exiting>>
    BY <1>2 DEF AcceptMessage, worldVars, castVars
  <2>2. PICK m \in Message : m = lmsg[z] /\ Valid(m)
    BY <2>1 DEF Placed
  <2>3. m \in Node!Message
    BY <2>2 DEF Message, Names, Valid, Node!Message
  <2>4. Taken' = Taken \cup {m}
    <3>1. PICK n \in Nat : n = Len(accepted)
      BY DEF TypeOK
    <3>2. /\ Len(accepted') = n + 1 /\ accepted'[n + 1] = m /\ \A i \in 1..n : accepted'[i] = accepted[i]
      BY <2>1, <2>2, <3>1 DEF TypeOK
    <3>3. 1..n + 1 = (1..n) \cup {n + 1}
      BY <3>1
    <3> QED
      BY <3>1, <3>2, <3>3
  <2>5. \A k \in Taken : k.from = m.from => k.time < m.time
    <3>1. SUFFICES ASSUME NEW i \in 1..Len(accepted), accepted[i].from = m.from
                   PROVE  accepted[i].time < m.time
      OBVIOUS
    <3>2. node_times[m.from] \in Nat /\ accepted[i].time <= node_times[m.from]
      BY <3>1 DEF Noted
    <3>3. node_times[m.from] < m.time
      BY <2>2, <3>2 DEF Valid
    <3>4. accepted[i].time \in Nat /\ m.time \in Nat
      BY <2>2, MessageTyped DEF TypeOK
    <3> QED
      BY <3>2, <3>3, <3>4
  <2>6. Waiting = {} /\ Waiting' = {m}
    BY <2>1, <2>2
  <2>7. Node!Receive(m)
    BY <2>1, <2>4, <2>5, <2>6 DEF Node!Receive, Node!Younger
  <2> QED
    BY <2>3, <2>7 DEF Node!AbsNext
<1>3. CASE Forward
  <2>1. UNCHANGED <<accepted, air, exiting, rmsg>> /\ rthread = "hear" /\ rthread' = "forward"
    BY <1>3 DEF Forward, worldVars
  <2>2. Taken' = Taken /\ Waiting' = Waiting
    BY <2>1
  <2> QED
    BY <2>1, <2>2 DEF Node!absvars
<1>4. CASE DropForward
  <2>1. UNCHANGED <<accepted, air, exiting>> /\ exiting /\ rthread' = "over"
    BY <1>4 DEF DropForward, worldVars, castVars
  <2>2. Taken' = Taken /\ Waiting' = {}
    BY <2>1
  <2>3. Node!GiveUp
    BY <2>1, <2>2 DEF Node!GiveUp
  <2> QED
    BY <2>3 DEF Node!AbsNext
<1>5. CASE RaiseExiting
  <2>1. UNCHANGED <<accepted, air, rthread, rmsg>> /\ exiting' = TRUE
    BY <1>5 DEF RaiseExiting, castVars, receiveVars
  <2>2. Node!End
    BY <2>1 DEF Node!End
  <2> QED
    BY <2>2 DEF Node!AbsNext
<1>6. ASSUME \A t \in Callers : ~StartBroadcast(t), \A z \in Sockets : ~AcceptMessage(z),
             ~Forward, ~DropForward, ~RaiseExiting
      PROVE  UNCHANGED <<air, accepted, rthread, rmsg, exiting>>
  BY <1>6 DEF Next, LoopStep, CallBroadcast, LockBroadcast, BroadcastHookReturns, ReceiveHookReturns,
              SocketLocks, SocketSends, SocketFails, LoopTests, LoopLocks, ReadNothing, ReadMessage,
              RejectMessage, LockReceive, PeerConnects, BroadcastEnds, Tick,
              worldVars, castVars, receiveVars, vars
<1>7. CASE UNCHANGED <<air, accepted, rthread, rmsg, exiting>>
  BY <1>7 DEF Node!absvars
<1> QED
  BY <1>1, <1>2, <1>3, <1>4, <1>5, <1>6, <1>7

-----------------------------------------------------------------------------
LEMMA InvInit == Init => IInv
<1> SUFFICES ASSUME Init PROVE IInv
  OBVIOUS
<1> USE ConstantsTyped
<1>1. <<>> \in Seq(Message) /\ Len(<<>>) = 0
  OBVIOUS
<1>2. TypeOK
  <2>1. clock \in 0..MaxTime /\ sends \in 0..MaxSends /\ reads \in 0..MaxReads
    BY MessagingAssumption DEF Init
  <2>2. accepted \in Seq(Message) /\ air \in Seq(Message) /\ wire \in [Sockets -> Seq(Message \cup {None})]
    BY <1>1 DEF Init
  <2> QED
    BY <2>1, <2>2 DEF Init, TypeOK, LoopPoints
<1>3. Placed
  <2>1. None # "send"
    BY MessagingAssumption
  <2> QED
    BY <2>1 DEF Init, Placed
<1>4. SubSeq(<<>>, 1, Len(<<>>) - 1) = <<>>
  OBVIOUS
<1>5. Noted /\ AcceptedOnce /\ LastSent /\ HeardByAll /\ HeardBeforeForwarded
  BY <1>1 DEF Init, Noted, AcceptedOnce, LastSent, HeardByAll, HeardBeforeForwarded
<1>6. WireFollowsBroadcasts
  BY DEF Init, WireFollowsBroadcasts
<1>7. Relayed(Len(air)) = {}
  BY <1>1 DEF Init, Relayed
<1>8. Forwarded(Len(air)) = 0
  BY <1>7, FS_EmptySet DEF Forwarded
<1>9. LastAccepted /\ OthersOnly /\ ForwardedInOrder
  BY <1>1, <1>7, <1>8 DEF Init, LastAccepted, OthersOnly, ForwardedInOrder
<1> QED
  BY <1>2, <1>3, <1>5, <1>6, <1>9 DEF IInv

LEMMA IInvHolds == Spec => []IInv
<1>1. IInv /\ [Next]_vars => IInv'
  BY TypeStep, PlacedStep, AcceptedStep, WireStep, HeardStep, ForwardedStep DEF IInv
<1> QED
  BY <1>1, InvInit, PTL DEF Spec

(* Every variable of Messaging keeps its type. *)
THEOREM TypeCorrect == Spec => []TypeOK
<1>1. IInv => TypeOK
  BY DEF IInv
<1> QED
  BY <1>1, IInvHolds, PTL

(* receive takes a message once, and none after a younger one of the same  *)
(* sender, however many sockets deliver it and whatever the links lose,    *)
(* repeat and reorder.                                                     *)
THEOREM OnceOnly == Spec => []AcceptedOnce
<1>1. IInv => AcceptedOnce
  BY DEF IInv
<1> QED
  BY <1>1, IInvHolds, PTL

(* Every socket has sent what was broadcast, in that order, but for the    *)
(* messages that zmq_send failed on and the one its callback is still busy *)
(* with.                                                                   *)
THEOREM WireInOrder == Spec => []WireFollowsBroadcasts
<1>1. IInv => WireFollowsBroadcasts
  BY DEF IInv
<1> QED
  BY <1>1, IInvHolds, PTL

(* When a message of another node is forwarded, all receive callbacks have *)
(* returned from it.                                                       *)
THEOREM HeardFirst == Spec => []HeardBeforeForwarded
<1>1. IInv => HeardBeforeForwarded
  BY DEF IInv
<1> QED
  BY <1>1, IInvHolds, PTL

(* The messages of other nodes leave the node in the order in which        *)
(* receive took them, each once, and all of them but the one that is still *)
(* heard or forwarded, until the session ends.                             *)
THEOREM InOrder == Spec => []ForwardedInOrder
<1>1. IInv => ForwardedInOrder
  BY DEF IInv
<1> QED
  BY <1>1, IInvHolds, PTL

(* Whatever its threads do, the node is a ForwardingNode to the network.   *)
THEOREM RefinesForwardingNode == Spec => ImplementsForwardingNode
<1>1. IInv /\ [Next]_vars => [Node!AbsNext]_(Node!absvars)
  BY RefinesStep DEF IInv
<1> QED
  BY <1>1, RefinesInit, IInvHolds, PTL DEF Spec, ImplementsForwardingNode, Node!AbsSpec

Promise == INSTANCE ForwardingNode_proofs WITH
  Others   <- Peers,
  Times    <- 0..MaxTime,
  received <- {accepted[i] : i \in 1..Len(accepted)},
  pending  <- IF rthread \in {"hear", "forward"} THEN {rmsg} ELSE {},
  sent     <- air

(* So the messages of each other node leave this one in rising order of    *)
(* their times.                                                            *)
COROLLARY LeavesRising == Spec => []Node!PassedOnRising
<1>1. 0..MaxTime \subseteq Nat
  OBVIOUS
<1>2. Promise!AbsSpec => []Promise!PassedOnRising
  BY <1>1, Promise!PassesOnRising
<1>3. Node!AbsInit => Promise!AbsInit
  BY DEF Node!AbsInit, Promise!AbsInit
<1>4. [Node!AbsNext]_(Node!absvars) => [Promise!AbsNext]_(Promise!absvars)
  BY DEF Node!AbsNext, Node!absvars, Node!Message, Node!Receive, Node!Younger, Node!PassOn,
         Node!SendOwn, Node!GiveUp, Node!End,
         Promise!AbsNext, Promise!absvars, Promise!Message, Promise!Receive, Promise!Younger,
         Promise!PassOn, Promise!SendOwn, Promise!GiveUp, Promise!End
<1>5. Promise!PassedOnRising => Node!PassedOnRising
  BY DEF Node!PassedOnRising, Promise!PassedOnRising
<1> QED
  BY <1>2, <1>3, <1>4, <1>5, RefinesForwardingNode, PTL
  DEF ImplementsForwardingNode, Node!AbsSpec, Promise!AbsSpec

(* Once a loop, the receive thread and a callback wait for each other, no  *)
(* step of the node resolves it, the end of the session included.          *)
THEOREM DeadlockIsFinal == Spec => CircularWaitIsFinal
<1>1. IInv /\ [Next]_vars => [CircularWait => CircularWait']_vars
  <2> SUFFICES ASSUME IInv, Next, CircularWait PROVE CircularWait'
    OBVIOUS
  <2> USE ConstantsTyped DEF IInv
  <2> DEFINE Wait(z, t) ==
        /\ z \in out_hooks \cap Sockets /\ comm_lock[z] = "recv"
        /\ loop[z] = "join" \/ (loop[z] = "lock" /\ receive_lock \notin {None, z})
        /\ rthread \in {"hear", "forward"}
        /\ t \in {Relay} \cup in_hooks /\ t \in Callers /\ bcall[t] # "out"
  <2>1. PICK z, t : Wait(z, t)
    BY DEF CircularWait
  <2>2. SUFFICES Wait(z, t)'
    BY DEF CircularWait
  <2>3. bthread = "run" /\ out_hooks # {}
    BY <2>1 DEF Placed
  <2>4. t # Relay => t \in Plain
    BY <2>1, MessagingAssumption DEF TypeOK, Plugins, Callers
  <2>5. None # "recv" /\ receive_lock # None => receive_lock \in Sockets
    BY MessagingAssumption DEF TypeOK
  <2>6. \A u \in Callers : ~StartBroadcast(u)
    BY <2>3 DEF StartBroadcast
  <2>7. \A y \in Sockets : ~AcceptMessage(y)
    BY <2>1 DEF AcceptMessage
  <2>8. ASSUME NEW u \in Callers, CallBroadcast(u) \/ LockBroadcast(u) PROVE Wait(z, t)'
    <3>1. bcall'[t] # "out"
      BY <2>1, <2>8 DEF CallBroadcast, LockBroadcast, TypeOK
    <3> QED
      BY <2>1, <2>8, <3>1 DEF CallBroadcast, LockBroadcast, loopVars, receiveVars
  <2>9. ASSUME NEW p \in Plugins, BroadcastHookReturns(p) PROVE Wait(z, t)'
    <3>1. p # z
      BY <2>1, <2>9, MessagingAssumption DEF BroadcastHookReturns
    <3> QED
      BY <2>1, <2>9, <3>1 DEF BroadcastHookReturns, loopVars, receiveVars
  <2>10. ASSUME NEW p \in Plugins, ReceiveHookReturns(p) PROVE Wait(z, t)'
    <3>1. p # t
      BY <2>1, <2>4, <2>10 DEF ReceiveHookReturns
    <3> QED
      BY <2>1, <2>10, <3>1 DEF ReceiveHookReturns, castVars, loopVars
  <2>11. ASSUME NEW y \in Sockets, SocketLocks(y) \/ SocketSends(y) \/ SocketFails(y) PROVE Wait(z, t)'
    <3>1. y # z
      BY <2>1, <2>11, MessagingAssumption DEF SocketLocks, SocketSends, SocketFails
    <3>2. comm_lock'[z] = comm_lock[z]
      BY <2>1, <2>11, <3>1 DEF SocketLocks, SocketSends, SocketFails, TypeOK
    <3> QED
      BY <2>1, <2>11, <3>1, <3>2 DEF SocketLocks, SocketSends, SocketFails, castVars, loopVars, receiveVars
  <2>12. ASSUME NEW y \in Sockets, LoopTests(y) \/ LoopLocks(y) \/ ReadNothing(y) \/ RejectMessage(y)
                                     \/ \E m \in Message : ReadMessage(y, m)
         PROVE  Wait(z, t)'
    <3>1. y # z
      BY <2>1, <2>12 DEF LoopTests, LoopLocks, ReadNothing, ReadMessage, RejectMessage
    <3>2. comm_lock'[z] = comm_lock[z] /\ loop'[z] = loop[z]
      BY <2>1, <2>12, <3>1 DEF LoopTests, LoopLocks, ReadNothing, ReadMessage, RejectMessage, EndIteration, TypeOK
    <3> QED
      BY <2>1, <2>12, <3>2 DEF LoopTests, LoopLocks, ReadNothing, ReadMessage, RejectMessage,
                               castVars, receiveVars
  <2>13. ASSUME NEW y \in Sockets, LockReceive(y) PROVE Wait(z, t)'
    <3>1. loop[z] = "join" /\ receive_lock = z
      BY <2>1, <2>13 DEF LockReceive, Placed
    <3> QED
      BY <2>1, <2>13, <3>1 DEF LockReceive
  <2>14. ASSUME Forward PROVE Wait(z, t)'
    <3>1. in_hooks = {} /\ rthread = "hear" /\ bcall' = [bcall EXCEPT ![Relay] = "lock"]
      BY <2>14 DEF Forward
    <3>2. t = Relay /\ bcall'[Relay] = "lock"
      BY <2>1, <3>1 DEF TypeOK
    <3> QED
      BY <2>1, <2>14, <3>2 DEF Forward, loopVars
  <2>15. ~DropForward
    BY <2>1 DEF DropForward, Placed
  <2>16. ASSUME BroadcastEnds PROVE Wait(z, t)'
    BY <2>3, <2>16 DEF BroadcastEnds
  <2>17. ASSUME Tick \/ RaiseExiting \/ \E y \in Sockets : PeerConnects(y) PROVE Wait(z, t)'
    BY <2>1, <2>17 DEF Tick, RaiseExiting, PeerConnects, castVars, loopVars, receiveVars
  <2> QED
    BY <2>6, <2>7, <2>8, <2>9, <2>10, <2>11, <2>12, <2>13, <2>14, <2>15, <2>16, <2>17
       DEF Next, LoopStep
<1>2. Spec => [][CircularWait => CircularWait']_vars
  BY <1>1, IInvHolds, PTL DEF Spec
<1> QED
  BY <1>2 DEF CircularWaitIsFinal
=============================================================================
