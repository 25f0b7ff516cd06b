---------------------------- MODULE ForwardingNode ----------------------------
(***************************************************************************)
(* What one node promises the network it is in, with no thread, lock,      *)
(* socket or plugin in sight: it takes a message of another node only if   *)
(* it is younger than all it has taken of that node, has one of them at    *)
(* most that is taken and not yet passed on, passes each on once, and may  *)
(* give one up only when the session ends.  In between it sends messages   *)
(* of its own, at any time and with any time.                              *)
(*                                                                         *)
(* Messaging, the threads of a node, is shown to implement this module,    *)
(* and so is every node of Gossip, where a node is a few steps only.       *)
(***************************************************************************)
EXTENDS Naturals, Sequences

CONSTANTS
  Self,    (* the name of the node                                          *)
  Others,  (* the names of the other nodes                                  *)
  Times    (* the times a message can carry                                 *)

VARIABLES
  received,  (* the messages of other nodes that were taken                 *)
  pending,   (* the one of them that is not yet passed on, if any: a set    *)
  sent,      (* what the node has broadcast, in order                       *)
  exiting    (* the session ends                                            *)

absvars == <<received, pending, sent, exiting>>

Message == [from : Others, time : Times]

AbsInit == received = {} /\ pending = {} /\ sent = <<>> /\ exiting = FALSE

(* m is younger than all that was taken of its sender. *)
Younger(m) == \A k \in received : k.from = m.from => k.time < m.time

Receive(m) ==
  /\ pending = {}
  /\ Younger(m)
  /\ received' = received \cup {m}
  /\ pending' = {m}
  /\ UNCHANGED <<sent, exiting>>

PassOn(m) ==
  /\ pending = {m}
  /\ sent' = Append(sent, m)
  /\ pending' = {}
  /\ UNCHANGED <<received, exiting>>

GiveUp ==
  /\ exiting
  /\ pending' = {}
  /\ UNCHANGED <<received, sent, exiting>>

(* The node broadcasts a message of its own. *)
SendOwn(t) ==
  /\ sent' = Append(sent, [from |-> Self, time |-> t])
  /\ UNCHANGED <<received, pending, exiting>>

End ==
  /\ exiting' = TRUE
  /\ UNCHANGED <<received, pending, sent>>

AbsNext ==
  \/ \E m \in Message : Receive(m) \/ PassOn(m)
  \/ \E t \in Times : SendOwn(t)
  \/ GiveUp
  \/ End

AbsSpec == AbsInit /\ [][AbsNext]_absvars

(* The messages of each other node leave this one in rising order of their *)
(* times, so that a neighbour that hears of a node only by way of this one *)
(* takes all that is passed on.                                            *)
PassedOnRising ==
  \A i, j \in 1..Len(sent) :
    (i < j /\ sent[i].from = sent[j].from /\ sent[i].from # Self) => sent[i].time < sent[j].time
===============================================================================
