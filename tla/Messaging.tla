------------------------------ MODULE Messaging ------------------------------
(***************************************************************************)
(* The messages of one node: Session::broadcast and Session::receive with  *)
(* the threads they start, and the ZeroMQ plugin that carries messages to  *)
(* and from another node.                                                  *)
(*                                                                         *)
(* A broadcast joins the last broadcast's thread and starts a new one,     *)
(* which runs the broadcast callback of every plugin.  A received message  *)
(* that is new joins the last receive thread and starts a new one, which   *)
(* runs the receive callback of every plugin and then broadcasts the       *)
(* message once more, so that it reaches all nodes.                        *)
(*                                                                         *)
(* A ZeroMQ plugin has one lock, comm_lock, around its socket.  Its loop   *)
(* holds the lock from before it reads until the session's receive has     *)
(* returned; its broadcast callback takes the same lock to send.           *)
(*                                                                         *)
(* The plugins are loaded before and stay loaded.  Broadcast callbacks do  *)
(* not call the session's broadcast, which would wait for them.            *)
(***************************************************************************)
EXTENDS Naturals, Sequences, FiniteSets

CONSTANTS
  Senders,   (* threads of plugins that call broadcast                      *)
  Sockets,   (* ZeroMQ plugins                                              *)
  Plain,     (* other plugins; their receive callbacks may broadcast        *)
  Peers,     (* names of other nodes                                        *)
  Self,      (* Config::get_name of this node                               *)
  NoName,    (* the sender of a message that names none                     *)
  Relay,     (* the thread that Session::receive starts                     *)
  None,      (* no thread, no message, no time                              *)
  MaxTime,   (* bound: the last millisecond of the clock                    *)
  MaxSends,  (* bound: how many messages the senders broadcast              *)
  MaxReads,  (* bound: how many messages the sockets read                   *)
  MaxFails   (* bound: how many sends of a socket fail                      *)

ASSUME MessagingAssumption ==
  /\ MaxTime \in Nat /\ MaxSends \in Nat /\ MaxReads \in Nat /\ MaxFails \in Nat
  /\ Sockets \cap Plain = {} /\ Senders \cap (Sockets \cup Plain) = {}
  /\ Relay \notin Senders \cup Sockets \cup Plain
  /\ Self \notin Peers /\ NoName \notin Peers /\ Self # NoName
  /\ None \notin Nat \cup Senders \cup Plain \cup Sockets \cup {Relay}
  /\ None \notin {"recv", "send"}

Plugins == Sockets \cup Plain
Callers == Senders \cup Plain \cup {Relay}
Names   == Peers \cup {Self, NoName}
Message == [from : Names, time : 0..MaxTime]

VARIABLES
  exiting,         (* Session::exiting                                      *)
  clock,           (* util::timestamp()                                     *)
  sends, reads,    (* how many messages were broadcast and read             *)
  peer,            (* per socket: another node is connected to it           *)
  bcall,           (* per thread: where it is inside broadcast              *)
  broadcast_lock,  (* the thread that holds it, or None                     *)
  bthread,         (* Session::broadcast_thread                             *)
  bmsg,            (* the message it broadcasts                             *)
  out_hooks,       (* plugins whose broadcast callback has not returned     *)
  loop,            (* per socket: where its receiving loop is               *)
  lmsg,            (* per socket: the message it has read                   *)
  comm_lock,       (* per socket: who holds it, "recv", "send" or None      *)
  receive_lock,    (* the socket whose loop holds it, or None               *)
  node_times,      (* Session::node_times, None for a name not in the map   *)
  rthread,         (* Session::receive_thread                               *)
  rmsg,            (* the message it was started for                        *)
  in_hooks,        (* plugins whose receive callback has not returned       *)
  accepted,        (* history: the messages that passed the validity test   *)
  heard,           (* history, per plugin: messages its receive was given   *)
  air,             (* history: the messages broadcast, in order             *)
  wire             (* history, per socket: the messages sent, in order,     *)
                   (* with None in the place of one that zmq_send failed on *)

worldVars   == <<exiting, clock, sends, reads, peer>>
castVars    == <<bcall, broadcast_lock, bthread, bmsg, out_hooks, air>>
loopVars    == <<loop, lmsg, receive_lock>>
receiveVars == <<node_times, rthread, rmsg, in_hooks, accepted, heard>>
vars == <<exiting, clock, sends, reads, peer, bcall, broadcast_lock, bthread, bmsg,
          out_hooks, loop, lmsg, comm_lock, receive_lock, node_times, rthread, rmsg,
          in_hooks, accepted, heard, air, wire>>

Init ==
  /\ exiting = FALSE
  /\ clock = 0 /\ sends = 0 /\ reads = 0
  /\ peer = [z \in Sockets |-> FALSE]
  /\ bcall = [t \in Callers |-> "out"]
  /\ broadcast_lock = None
  /\ bthread = "none" /\ bmsg = None /\ out_hooks = {}
  /\ loop = [z \in Sockets |-> "top"]
  /\ lmsg = [z \in Sockets |-> None]
  /\ comm_lock = [z \in Sockets |-> None]
  /\ receive_lock = None
  /\ node_times = [n \in Names |-> None]
  /\ rthread = "none" /\ rmsg = None /\ in_hooks = {}
  /\ accepted = <<>>
  /\ heard = [p \in Plugins |-> {}]
  /\ air = <<>>
  /\ wire = [z \in Sockets |-> <<>>]

-----------------------------------------------------------------------------
(* Session::broadcast.                                                     *)

(* A plugin's thread or receive callback broadcasts a message of its own.  *)
(* A call that finds the session exiting returns at once: no step of it.   *)
CallBroadcast(t) ==
  /\ t \in Senders \cup (Plain \cap in_hooks)
  /\ bcall[t] = "out"
  /\ ~exiting
  /\ sends < MaxSends
  /\ sends' = sends + 1
  /\ bcall' = [bcall EXCEPT ![t] = "lock"]
  /\ UNCHANGED <<exiting, clock, reads, peer, broadcast_lock, bthread, bmsg, out_hooks, air>>
  /\ UNCHANGED <<loopVars, comm_lock, receiveVars, wire>>

LockBroadcast(t) ==
  /\ bcall[t] = "lock"
  /\ broadcast_lock = None
  /\ broadcast_lock' = t
  /\ bcall' = [bcall EXCEPT ![t] = "join"]
  /\ UNCHANGED <<worldVars, bthread, bmsg, out_hooks, air, loopVars, comm_lock>>
  /\ UNCHANGED <<receiveVars, wire>>

(* Faulty variant: the test of the forward flag is inverted. *)
PackedInverted(t) == IF t = Relay THEN [from |-> Self, time |-> clock] ELSE rmsg

(* The message that goes out: a forwarded one as it is, a new one with the *)
(* node's name and the time.                                               *)
Packed(t) == IF t = Relay THEN rmsg ELSE [from |-> Self, time |-> clock]

(* Faulty variants: the last broadcast is not joined; the lock is kept. *)
StartUnjoined(t) ==
  /\ bcall[t] = "join"
  /\ bthread' = "run"
  /\ bmsg' = Packed(t)
  /\ out_hooks' = Plugins
  /\ air' = Append(air, Packed(t))
  /\ broadcast_lock' = None
  /\ bcall' = [bcall EXCEPT ![t] = "out"]
  /\ rthread' = IF t = Relay THEN "over" ELSE rthread
  /\ UNCHANGED <<worldVars, loopVars, comm_lock, node_times, rmsg, in_hooks>>
  /\ UNCHANGED <<accepted, heard, wire>>

StartKeepingLock(t) ==
  /\ bcall[t] = "join"
  /\ bthread \in {"none", "over"}
  /\ bthread' = "run"
  /\ bmsg' = Packed(t)
  /\ out_hooks' = Plugins
  /\ air' = Append(air, Packed(t))
  /\ bcall' = [bcall EXCEPT ![t] = "out"]
  /\ rthread' = IF t = Relay THEN "over" ELSE rthread
  /\ UNCHANGED <<worldVars, broadcast_lock, loopVars, comm_lock, node_times, rmsg, in_hooks>>
  /\ UNCHANGED <<accepted, heard, wire>>

(* The last broadcast is joined, the message packed and its thread started *)
(* with one thread per plugin; broadcast returns.                          *)
StartBroadcast(t) ==
  /\ bcall[t] = "join"
  /\ bthread \in {"none", "over"}
  /\ bthread' = "run"
  /\ bmsg' = Packed(t)
  /\ out_hooks' = Plugins
  /\ air' = Append(air, Packed(t))
  /\ broadcast_lock' = None
  /\ bcall' = [bcall EXCEPT ![t] = "out"]
  /\ rthread' = IF t = Relay THEN "over" ELSE rthread
  /\ UNCHANGED <<worldVars, loopVars, comm_lock, node_times, rmsg, in_hooks>>
  /\ UNCHANGED <<accepted, heard, wire>>

(* The broadcast callback of another plugin returns. *)
BroadcastHookReturns(p) ==
  /\ p \in out_hooks \cap Plain
  /\ out_hooks' = out_hooks \ {p}
  /\ UNCHANGED <<worldVars, bcall, broadcast_lock, bthread, bmsg, air, loopVars, comm_lock>>
  /\ UNCHANGED <<receiveVars, wire>>

(* Faulty variant: it sends without the lock. *)
SocketIgnoresLock(z) ==
  /\ z \in out_hooks
  /\ comm_lock' = [comm_lock EXCEPT ![z] = "send"]
  /\ UNCHANGED <<worldVars, castVars, loopVars, receiveVars, wire>>

(* ZeroMQSocket::broadcast gets the socket's lock. *)
SocketLocks(z) ==
  /\ z \in out_hooks
  /\ comm_lock[z] = None
  /\ comm_lock' = [comm_lock EXCEPT ![z] = "send"]
  /\ UNCHANGED <<worldVars, castVars, loopVars, receiveVars, wire>>

(* zmq_send, which waits for a peer, and the end of the callback. *)
SocketSends(z) ==
  /\ comm_lock[z] = "send"
  /\ peer[z]
  /\ wire' = [wire EXCEPT ![z] = Append(@, bmsg)]
  /\ comm_lock' = [comm_lock EXCEPT ![z] = None]
  /\ out_hooks' = out_hooks \ {z}
  /\ UNCHANGED <<worldVars, bcall, broadcast_lock, bthread, bmsg, air, loopVars, receiveVars>>

(* zmq_send fails or sends only a part, with or without a peer: the error  *)
(* is logged, nobody sends the message again.                              *)
SocketFails(z) ==
  /\ comm_lock[z] = "send"
  /\ Cardinality({i \in 1..Len(wire[z]) : wire[z][i] = None}) < MaxFails
  /\ wire' = [wire EXCEPT ![z] = Append(@, None)]
  /\ comm_lock' = [comm_lock EXCEPT ![z] = None]
  /\ out_hooks' = out_hooks \ {z}
  /\ UNCHANGED <<worldVars, bcall, broadcast_lock, bthread, bmsg, air, loopVars, receiveVars>>

(* The broadcast thread has joined its callbacks and returns. *)
BroadcastEnds ==
  /\ bthread = "run"
  /\ out_hooks = {}
  /\ bthread' = "over"
  /\ UNCHANGED <<worldVars, bcall, broadcast_lock, bmsg, out_hooks, air, loopVars, comm_lock>>
  /\ UNCHANGED <<receiveVars, wire>>

-----------------------------------------------------------------------------
(* The receiving loop of a ZeroMQ plugin and Session::receive.             *)

(* Faulty variant: the loop is endless. *)
LoopGoesOn(z) ==
  /\ loop[z] = "top"
  /\ loop' = [loop EXCEPT ![z] = "want"]
  /\ UNCHANGED <<worldVars, castVars, lmsg, comm_lock, receive_lock, receiveVars, wire>>

(* The loop's test of exiting. *)
LoopTests(z) ==
  /\ loop[z] = "top"
  /\ loop' = [loop EXCEPT ![z] = IF exiting THEN "stopped" ELSE "want"]
  /\ UNCHANGED <<worldVars, castVars, lmsg, comm_lock, receive_lock, receiveVars, wire>>

LoopLocks(z) ==
  /\ loop[z] = "want"
  /\ comm_lock[z] = None
  /\ comm_lock' = [comm_lock EXCEPT ![z] = "recv"]
  /\ loop' = [loop EXCEPT ![z] = "held"]
  /\ UNCHANGED <<worldVars, castVars, lmsg, receive_lock, receiveVars, wire>>

(* The end of an iteration: recv_lock goes out of scope. *)
EndIteration(z) ==
  /\ comm_lock' = [comm_lock EXCEPT ![z] = None]
  /\ loop' = [loop EXCEPT ![z] = "top"]

(* zmq_recv finds nothing, or receive finds the session exiting. *)
ReadNothing(z) ==
  /\ loop[z] = "held"
  /\ EndIteration(z)
  /\ UNCHANGED <<worldVars, castVars, lmsg, receive_lock, receiveVars, wire>>

(* zmq_recv returns a message, any one: links may lose, repeat and reorder *)
(* what nodes send.  receive is called and finds the session running.      *)
ReadMessage(z, m) ==
  /\ loop[z] = "held"
  /\ peer[z]
  /\ ~exiting
  /\ reads < MaxReads
  /\ reads' = reads + 1
  /\ lmsg' = [lmsg EXCEPT ![z] = m]
  /\ loop' = [loop EXCEPT ![z] = "lock"]
  /\ UNCHANGED <<exiting, clock, sends, peer, castVars, comm_lock, receive_lock>>
  /\ UNCHANGED <<receiveVars, wire>>

(* It names a sender, not this node, and is younger than the last message  *)
(* of that sender, if there was one.                                       *)
Valid(m) ==
  /\ m.from # NoName
  /\ m.from # Self
  /\ node_times[m.from] # None => m.time > node_times[m.from]

RejectMessage(z) ==
  /\ loop[z] = "lock"
  /\ receive_lock = None
  /\ ~Valid(lmsg[z])
  /\ EndIteration(z)
  /\ UNCHANGED <<worldVars, castVars, lmsg, receive_lock, receiveVars, wire>>

(* Faulty variant: the test and what follows it are not under a lock. *)
ReceiveUnlocked(z) ==
  /\ loop[z] = "lock"
  /\ Valid(lmsg[z])
  /\ loop' = [loop EXCEPT ![z] = "join"]
  /\ UNCHANGED <<worldVars, castVars, lmsg, comm_lock, receive_lock, receiveVars, wire>>

(* receive_lock is taken, and kept while the last thread is joined. *)
LockReceive(z) ==
  /\ loop[z] = "lock"
  /\ receive_lock = None
  /\ Valid(lmsg[z])
  /\ receive_lock' = z
  /\ loop' = [loop EXCEPT ![z] = "join"]
  /\ UNCHANGED <<worldVars, castVars, lmsg, comm_lock, receiveVars, wire>>

(* Faulty variant: the last receive thread is detached. *)
AcceptUnjoined(z) ==
  /\ loop[z] = "join"
  /\ node_times' = [node_times EXCEPT ![lmsg[z].from] = lmsg[z].time]
  /\ rthread' = "hear"
  /\ rmsg' = lmsg[z]
  /\ in_hooks' = Plugins
  /\ accepted' = Append(accepted, lmsg[z])
  /\ receive_lock' = None
  /\ EndIteration(z)
  /\ UNCHANGED <<worldVars, castVars, lmsg, heard, wire>>

(* The last receive thread is joined, the time noted, the new thread       *)
(* started; receive returns and with it the iteration ends.                *)
AcceptMessage(z) ==
  /\ loop[z] = "join"
  /\ rthread \in {"none", "over"}
  /\ node_times' = [node_times EXCEPT ![lmsg[z].from] = lmsg[z].time]
  /\ rthread' = "hear"
  /\ rmsg' = lmsg[z]
  /\ in_hooks' = Plugins
  /\ accepted' = Append(accepted, lmsg[z])
  /\ receive_lock' = None
  /\ EndIteration(z)
  /\ UNCHANGED <<worldVars, castVars, lmsg, heard, wire>>

(* Plugin::receive of p returns. *)
ReceiveHookReturns(p) ==
  /\ p \in in_hooks
  /\ p \in Plain => bcall[p] = "out"
  /\ in_hooks' = in_hooks \ {p}
  /\ heard' = [heard EXCEPT ![p] = @ \cup {rmsg}]
  /\ UNCHANGED <<worldVars, castVars, loopVars, comm_lock, node_times, rthread, rmsg>>
  /\ UNCHANGED <<accepted, wire>>

(* Faulty variant: the message is broadcast before the callbacks are joined. *)
ForwardEarly ==
  /\ rthread = "hear"
  /\ ~exiting
  /\ rthread' = "forward"
  /\ bcall' = [bcall EXCEPT ![Relay] = "lock"]
  /\ UNCHANGED <<worldVars, broadcast_lock, bthread, bmsg, out_hooks, air, loopVars>>
  /\ UNCHANGED <<comm_lock, node_times, rmsg, in_hooks, accepted, heard, wire>>

(* All callbacks are joined: the message is broadcast again. *)
Forward ==
  /\ rthread = "hear"
  /\ in_hooks = {}
  /\ ~exiting
  /\ rthread' = "forward"
  /\ bcall' = [bcall EXCEPT ![Relay] = "lock"]
  /\ UNCHANGED <<worldVars, broadcast_lock, bthread, bmsg, out_hooks, air, loopVars>>
  /\ UNCHANGED <<comm_lock, node_times, rmsg, in_hooks, accepted, heard, wire>>

(* broadcast finds the session exiting: the message is not forwarded. *)
DropForward ==
  /\ rthread = "hear"
  /\ in_hooks = {}
  /\ exiting
  /\ rthread' = "over"
  /\ UNCHANGED <<worldVars, castVars, loopVars, comm_lock, node_times, rmsg, in_hooks>>
  /\ UNCHANGED <<accepted, heard, wire>>

-----------------------------------------------------------------------------
(* The world around the node.                                              *)

Tick ==
  /\ clock < MaxTime
  /\ clock' = clock + 1
  /\ UNCHANGED <<exiting, sends, reads, peer, castVars, loopVars, comm_lock, receiveVars, wire>>

(* A node connects to the socket. *)
PeerConnects(z) ==
  /\ ~peer[z]
  /\ peer' = [peer EXCEPT ![z] = TRUE]
  /\ UNCHANGED <<exiting, clock, sends, reads, castVars, loopVars, comm_lock, receiveVars, wire>>

RaiseExiting ==
  /\ ~exiting
  /\ exiting' = TRUE
  /\ UNCHANGED <<clock, sends, reads, peer, castVars, loopVars, comm_lock, receiveVars, wire>>

LoopStep(z) ==
  \/ LoopTests(z) \/ LoopLocks(z) \/ ReadNothing(z)
  \/ \E m \in Message : ReadMessage(z, m)
  \/ RejectMessage(z) \/ LockReceive(z) \/ AcceptMessage(z)

Next ==
  \/ \E t \in Callers : CallBroadcast(t) \/ LockBroadcast(t) \/ StartBroadcast(t)
  \/ \E p \in Plugins : BroadcastHookReturns(p) \/ ReceiveHookReturns(p)
  \/ \E z \in Sockets : SocketLocks(z) \/ SocketSends(z) \/ SocketFails(z)
  \/ \E z \in Sockets : LoopStep(z) \/ PeerConnects(z)
  \/ BroadcastEnds
  \/ Forward \/ DropForward
  \/ Tick
  \/ RaiseExiting

Spec == Init /\ [][Next]_vars

(* Every thread is scheduled, plugins' callbacks return, and a lock that   *)
(* is free again and again is got in the end.  A send that has a peer     *)
(* ends; one without a peer may fail, but need not.                        *)
LiveSpec ==
  /\ Spec
  /\ \A t \in Callers : SF_vars(LockBroadcast(t)) /\ WF_vars(StartBroadcast(t))
  /\ \A p \in Plugins : WF_vars(BroadcastHookReturns(p)) /\ WF_vars(ReceiveHookReturns(p))
  /\ \A z \in Sockets : SF_vars(SocketLocks(z)) /\ WF_vars(SocketSends(z))
  /\ \A z \in Sockets : WF_vars(LoopStep(z)) /\ SF_vars(RejectMessage(z) \/ LockReceive(z))
  /\ WF_vars(BroadcastEnds)
  /\ WF_vars(Forward \/ DropForward)

-----------------------------------------------------------------------------
LoopPoints == {"top", "want", "held", "lock", "join", "stopped"}

(* Type invariant: what each variable may hold. *)
TypeOK ==
  /\ exiting \in BOOLEAN
  /\ clock \in 0..MaxTime /\ sends \in 0..MaxSends /\ reads \in 0..MaxReads
  /\ peer \in [Sockets -> BOOLEAN]
  /\ bcall \in [Callers -> {"out", "lock", "join"}]
  /\ broadcast_lock \in Callers \cup {None}
  /\ bthread \in {"none", "run", "over"}
  /\ bmsg \in Message \cup {None}
  /\ out_hooks \in SUBSET Plugins
  /\ loop \in [Sockets -> LoopPoints]
  /\ lmsg \in [Sockets -> Message \cup {None}]
  /\ comm_lock \in [Sockets -> {"recv", "send", None}]
  /\ receive_lock \in Sockets \cup {None}
  /\ node_times \in [Names -> (0..MaxTime) \cup {None}]
  /\ rthread \in {"none", "hear", "forward", "over"}
  /\ rmsg \in Message \cup {None}
  /\ in_hooks \in SUBSET Plugins
  /\ accepted \in Seq(Message) /\ air \in Seq(Message)
  /\ heard \in [Plugins -> SUBSET Message]
  /\ wire \in [Sockets -> Seq(Message \cup {None})]

(* The messages of a socket leave it in the order in which they were       *)
(* broadcast, each of them at most once, and only one that zmq_send failed *)
(* on is missing: a broadcast starts only when the callback of the one     *)
(* before is done with its own message.                                    *)
WireFollowsBroadcasts ==
  \A z \in Sockets :
    /\ Len(wire[z]) = Len(air) - (IF z \in out_hooks THEN 1 ELSE 0)
    /\ \A i \in 1..Len(wire[z]) : wire[z][i] \in {air[i], None}

(* Which of the first i messages broadcast are of other nodes. *)
Relayed(i) == {j \in 1..i : air[j].from # Self}

Forwarded(i) == Cardinality(Relayed(i))

(* Messages of other nodes are forwarded in the order in which they were   *)
(* accepted, each once, and all but the last by the time the next one is   *)
(* accepted, unless the session ends.                                      *)
ForwardedInOrder ==
  /\ Forwarded(Len(air)) <= Len(accepted)
  /\ \A i \in Relayed(Len(air)) : air[i] = accepted[Forwarded(i)]
  /\ ~exiting =>
       Forwarded(Len(air)) = Len(accepted) - (IF rthread \in {"hear", "forward"} THEN 1 ELSE 0)

(* No plugin hears of a message after other nodes do. *)
HeardBeforeForwarded ==
  \A i \in 1..Len(air), p \in Plugins : air[i].from # Self => air[i] \in heard[p]

(* No message is accepted twice, or after a younger one of its sender,     *)
(* whichever sockets it arrives at.                                        *)
AcceptedOnce ==
  \A i, j \in 1..Len(accepted) :
    (i < j /\ accepted[i].from = accepted[j].from) => accepted[i].time < accepted[j].time

(* A loop inside receive waits, holding its socket's lock, for the last    *)
(* message's thread; that one waits, in broadcast, for the last broadcast; *)
(* and the callback of that one waits for the socket's lock.               *)
CircularWait ==
  \E z \in out_hooks \cap Sockets :
    /\ comm_lock[z] = "recv"
    /\ loop[z] = "join" \/ (loop[z] = "lock" /\ receive_lock \notin {None, z})
    /\ rthread \in {"hear", "forward"}
    /\ \E t \in {Relay} \cup in_hooks : t \in Callers /\ bcall[t] # "out"

(* A callback waits in zmq_send for another node to connect. *)
SendBlocked == \E z \in Sockets : comm_lock[z] = "send" /\ ~peer[z]

(* Nothing resolves the circular wait, not even the end of the session. *)
CircularWaitIsFinal == [][CircularWait => CircularWait']_vars

(* Nothing else keeps broadcast from returning. *)
BroadcastReturns ==
  \A t \in Callers : (bcall[t] # "out") ~> (bcall[t] = "out" \/ CircularWait \/ SendBlocked)

(* Nothing else keeps the loops of the sockets from stopping when the      *)
(* session ends, which the plugin's destructor waits for.                  *)
LoopsStop ==
  exiting ~> ((\A z \in Sockets : loop[z] = "stopped") \/ CircularWait \/ SendBlocked)

(* The comment at the loop says "Continue looking for messages": once a    *)
(* message is read the loop gets to the next one.                          *)
LooksForMessages ==
  \A z \in Sockets : (loop[z] = "lock") ~> (loop[z] \in {"top", "stopped"} \/ SendBlocked)

-----------------------------------------------------------------------------
(* The abstract node: what was accepted is taken, and the message of the   *)
(* receive thread waits until broadcast has packed it.                     *)
Node == INSTANCE ForwardingNode WITH
  Others   <- Peers,
  Times    <- 0..MaxTime,
  received <- {accepted[i] : i \in 1..Len(accepted)},
  pending  <- IF rthread \in {"hear", "forward"} THEN {rmsg} ELSE {},
  sent     <- air

(* The threads, locks and callbacks of the node implement ForwardingNode:  *)
(* what receive takes is younger than all it took of that sender, and is   *)
(* broadcast once, as it came, before it takes the next one, unless the    *)
(* session ends.                                                           *)
ImplementsForwardingNode == Node!AbsSpec
=============================================================================
