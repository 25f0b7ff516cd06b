------------------------------- MODULE Gossip -------------------------------
(***************************************************************************)
(* A network of FPSI nodes that pass each other's messages on.             *)
(*                                                                         *)
(* A node stamps a message of its own with its name and the time in        *)
(* milliseconds and broadcasts it on all its links.  A node that receives  *)
(* a message of another node accepts it if its time is greater than that   *)
(* of the last one it accepted from that node, hands it to its plugins and *)
(* broadcasts it on all its links, the one it came by included.            *)
(*                                                                         *)
(* What happens inside one node is module Messaging: messages go out on    *)
(* each socket in the order in which they were broadcast                   *)
(* (WireFollowsBroadcasts), and the node is a ForwardingNode, as each of   *)
(* the nodes here is (NodesImplementForwardingNode).  Here every node goes *)
(* on forever, all nodes have different names, links are up and neither    *)
(* lose nor reorder messages, as ZeroMQ's pairs over TCP.                  *)
(*                                                                         *)
(* A message is known by its sender and the number it has among its        *)
(* sender's messages.  The nodes do not see the number: they see the time, *)
(* which a clock may show twice, or again after it was set back.           *)
(***************************************************************************)
EXTENDS Naturals, Sequences, FiniteSets

CONSTANTS
  Nodes,        (* the nodes, each named differently                        *)
  Links,        (* which nodes are linked: a set of sets of two nodes       *)
  Senders,      (* the nodes with plugins that broadcast                    *)
  None,         (* no message                                               *)
  MaxTime,      (* bound: the last millisecond of the clocks                *)
  MaxSetBacks,  (* bound: how often each clock is set back                  *)
  MaxMessages   (* bound: how many messages each node sends                 *)

ASSUME GossipAssumption ==
  /\ \A l \in Links : \E a, b \in Nodes : a # b /\ l = {a, b}
  /\ Senders \subseteq Nodes
  /\ None \notin [from : Nodes, id : Nat \ {0}]
  /\ MaxTime \in Nat /\ MaxSetBacks \in Nat /\ MaxMessages \in Nat

Pairs == {p \in Nodes \X Nodes : {p[1], p[2]} \in Links}

VARIABLES
  set_backs,   (* per node: how often its clock was set back                *)
  sent,        (* per node: the times of the messages it has sent           *)
  link,        (* per direction of a link: the messages under way           *)
  node_times,  (* per node and sender: the time of the last message it      *)
               (* accepted, 0 if there was none                             *)
  relay,       (* per node: the message it accepted and has yet to forward  *)
  heard,       (* history, per node and sender: the numbers it accepted     *)
  air          (* history, per node: the messages it broadcast, in order    *)

vars == <<set_backs, sent, link, node_times, relay, heard, air>>

Message == [from : Nodes, id : Nat \ {0}]

Init ==
  /\ set_backs = [n \in Nodes |-> 0]
  /\ sent = [n \in Nodes |-> <<>>]
  /\ link = [p \in Pairs |-> <<>>]
  /\ node_times = [n \in Nodes |-> [s \in Nodes |-> 0]]
  /\ relay = [n \in Nodes |-> None]
  /\ heard = [n \in Nodes |-> [s \in Nodes |-> <<>>]]
  /\ air = [n \in Nodes |-> <<>>]

(* The timestamp a message carries. *)
Time(m) == sent[m.from][m.id]

(* broadcast of a node: the message goes out on every link of n. *)
Broadcast(n, m) ==
  /\ link' = [p \in Pairs |-> IF p[1] = n THEN Append(link[p], m) ELSE link[p]]
  /\ air' = [air EXCEPT ![n] = Append(@, m)]

(* A plugin of n broadcasts a message, which gets n's name and the time    *)
(* that timestamp() reads off the system's clock: no earlier than the last *)
(* time it was read, unless the clock was set back.                        *)
Originate(n) ==
  /\ Len(sent[n]) < MaxMessages
  /\ \E t \in 1..MaxTime :
       /\ sent' = [sent EXCEPT ![n] = Append(@, t)]
       /\ IF sent[n] # <<>> /\ t < sent[n][Len(sent[n])]
          THEN set_backs[n] < MaxSetBacks /\ set_backs' = [set_backs EXCEPT ![n] = @ + 1]
          ELSE UNCHANGED set_backs
  /\ Broadcast(n, [from |-> n, id |-> Len(sent[n]) + 1])
  /\ UNCHANGED <<node_times, relay, heard>>

(* Faulty variant: a message of the same time passes. *)
ValidOrEqual(n, m) == m.from # n /\ Time(m) >= node_times[n][m.from]

(* It is of another node and younger than what was accepted from it.       *)
Valid(n, m) == m.from # n /\ Time(m) > node_times[n][m.from]

(* receive at the node p[2] of a message from p[1] that is not valid.      *)
Reject(p) ==
  /\ link[p] # <<>>
  /\ ~Valid(p[2], Head(link[p]))
  /\ link' = [link EXCEPT ![p] = Tail(@)]
  /\ UNCHANGED <<set_backs, sent, node_times, relay, heard, air>>

(* Faulty variant: the last message is not waited for and is overwritten. *)
AcceptOverwriting(p) ==
  LET n == p[2]
      m == Head(link[p])
  IN  /\ link[p] # <<>>
      /\ Valid(n, m)
      /\ link' = [link EXCEPT ![p] = Tail(@)]
      /\ node_times' = [node_times EXCEPT ![n][m.from] = Time(m)]
      /\ heard' = [heard EXCEPT ![n][m.from] = Append(@, m.id)]
      /\ relay' = [relay EXCEPT ![n] = m]
      /\ UNCHANGED <<set_backs, sent, air>>

(* The same of a valid one, once the last one is forwarded.                *)
Accept(p) ==
  LET n == p[2]
      m == Head(link[p])
  IN  /\ link[p] # <<>>
      /\ Valid(n, m)
      /\ relay[n] = None
      /\ link' = [link EXCEPT ![p] = Tail(@)]
      /\ node_times' = [node_times EXCEPT ![n][m.from] = Time(m)]
      /\ heard' = [heard EXCEPT ![n][m.from] = Append(@, m.id)]
      /\ relay' = [relay EXCEPT ![n] = m]
      /\ UNCHANGED <<set_backs, sent, air>>

(* Faulty variant: nothing is broadcast. *)
ForwardNothing(n) ==
  /\ relay[n] # None
  /\ relay' = [relay EXCEPT ![n] = None]
  /\ UNCHANGED <<set_backs, sent, link, node_times, heard, air>>

(* The message is broadcast once more, as it came. *)
Forward(n) ==
  /\ relay[n] # None
  /\ Broadcast(n, relay[n])
  /\ relay' = [relay EXCEPT ![n] = None]
  /\ UNCHANGED <<set_backs, sent, node_times, heard>>

(* Every message has been forwarded and received: nothing left to do. *)
AtRest ==
  /\ \A p \in Pairs : link[p] = <<>>
  /\ \A n \in Nodes : relay[n] = None
  /\ UNCHANGED vars

Next ==
  \/ \E s \in Senders : Originate(s)
  \/ \E n \in Nodes : Forward(n)
  \/ \E p \in Pairs : Reject(p) \/ Accept(p)
  \/ AtRest

Spec == Init /\ [][Next]_vars

(* Every node goes on receiving and forwarding. *)
LiveSpec ==
  /\ Spec
  /\ \A p \in Pairs : WF_vars(Reject(p) \/ Accept(p))
  /\ \A n \in Nodes : WF_vars(Forward(n))

-----------------------------------------------------------------------------
(* Type invariant: what each variable may hold. *)
TypeOK ==
  /\ set_backs \in [Nodes -> Nat]
  /\ sent \in [Nodes -> Seq(Nat)]
  /\ link \in [Pairs -> Seq(Message)]
  /\ node_times \in [Nodes -> [Nodes -> Nat]]
  /\ relay \in [Nodes -> Message \cup {None}]
  /\ heard \in [Nodes -> [Nodes -> Seq(Nat)]]
  /\ air \in [Nodes -> Seq(Message)]

(* No node accepts a message twice, or after a younger one of its sender,  *)
(* by whatever ways and in whatever cycles the copies reach it: every node *)
(* forwards every message once at most.                                    *)
HeardOnceInOrder ==
  \A n, s \in Nodes : \A i, j \in 1..Len(heard[n][s]) :
    i < j => heard[n][s][i] < heard[n][s][j]

(* Message i of s is younger than all earlier ones of s.  One that is not  *)
(* has the time of another, or was sent after the clock was set back.      *)
Younger(s, i) == \A j \in 1..i - 1 : sent[s][j] < sent[s][i]

(* Of the messages of a node, every other node accepts those and only      *)
(* those that are younger than all earlier ones, and misses none of them   *)
(* that was sent before one it has accepted: whatever the ways the copies  *)
(* take and whatever the sender's clock does.                              *)
NoGaps ==
  \A n, s \in Nodes : \A i \in 1..Len(heard[n][s]) :
    /\ Younger(s, heard[n][s][i])
    /\ \A k \in 1..heard[n][s][i] - 1 :
         Younger(s, k) => \E j \in 1..i - 1 : heard[n][s][j] = k

(* The nodes a message of s gets to: those a chain of links leads to. *)
Reached(s) ==
  LET grow[i \in 0..Cardinality(Nodes)] ==
        IF i = 0 THEN {s}
        ELSE grow[i - 1] \cup {p[2] : p \in {q \in Pairs : q[1] \in grow[i - 1]}}
  IN  grow[Cardinality(Nodes)]

Heard(n, s, i) == \E j \in 1..Len(heard[n][s]) : heard[n][s][j] = i

(* A message that is younger than all earlier ones of its sender is        *)
(* accepted by every other node there is a chain of links to: a sender     *)
(* whose clock was set back is heard again when it has caught up.          *)
ReachesAllNodes ==
  \A s \in Senders : \A n \in Reached(s) \ {s} : \A i \in 1..MaxMessages :
    (Len(sent[s]) >= i /\ Younger(s, i)) ~> Heard(n, s, i)

(* The comments of broadcast say "Give unique message id" and "Set         *)
(* forwarding to true to reach all nodes": each message of each node is    *)
(* accepted by every node there is a chain of links to.                    *)
EveryMessageReachesAllNodes ==
  \A s \in Senders : \A n \in Reached(s) \ {s} : \A i \in 1..MaxMessages :
    (Len(sent[s]) >= i) ~> Heard(n, s, i)

-----------------------------------------------------------------------------
(* A message as the nodes see it: its sender and time, not its number. *)
Stamp(m) == [from |-> m.from, time |-> Time(m)]

(* What n accepted, has yet to forward, and has broadcast, as it sees it. *)
Accepted(n, s) == {[from |-> s, id |-> heard[n][s][i]] : i \in 1..Len(heard[n][s])}
Taken(n)       == {Stamp(m) : m \in UNION {Accepted(n, s) : s \in Nodes}}
Waiting(n)     == {Stamp(m) : m \in {relay[n]} \ {None}}
Aired(n)       == [i \in 1..Len(air[n]) |-> Stamp(air[n][i])]

(* The abstract node n, which never ends. *)
Node(n) == INSTANCE ForwardingNode WITH
  Self <- n, Others <- Nodes \ {n}, Times <- 1..MaxTime,
  received <- Taken(n), pending <- Waiting(n), sent <- Aired(n), exiting <- FALSE

(* Every node of the network is the ForwardingNode that a node's threads   *)
(* implement in Messaging: it takes of a sender only what is younger than  *)
(* all it took, and passes that on, as it came, before it takes more.      *)
NodesImplementForwardingNode ==
  /\ \A n \in Nodes : Node(n)!AbsInit
  /\ [][\A n \in Nodes : [Node(n)!AbsNext]_(Node(n)!absvars)]_vars
=============================================================================
