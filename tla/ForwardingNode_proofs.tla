------------------------- MODULE ForwardingNode_proofs -------------------------
(***************************************************************************)
(* What ForwardingNode promises, proved for any names and times: the       *)
(* messages of each other node leave it in rising order of their times     *)
(* (PassedOnRising).  The message that waits is younger than all others    *)
(* taken of its sender, and those are the only ones that were passed on.   *)
(***************************************************************************)
EXTENDS ForwardingNode, TLAPS

(* One message waits at most; it is the youngest of its sender. *)
PendingYoungest ==
  /\ pending = {} \/ \E m \in received : pending = {m}
  /\ \A m \in pending : \A k \in received \ pending : k.from = m.from => k.time < m.time

(* What was sent is the node's own or was taken and waits no more. *)
SentKnown == \A i \in 1..Len(sent) : sent[i].from = Self \/ sent[i] \in received \ pending

AbsInv ==
  /\ sent \in Seq([from : Others \cup {Self}, time : Times])
  /\ received \subseteq Message
  /\ PendingYoungest /\ SentKnown /\ PassedOnRising

LEMMA AbsInvStep ==
  ASSUME Times \subseteq Nat, AbsInv, [AbsNext]_absvars
  PROVE  AbsInv'
<1> USE DEF AbsInv
<1>0. PICK n \in Nat : n = Len(sent)
  OBVIOUS
<1>1. ASSUME NEW x \in [from : Others \cup {Self}, time : Times], sent' = Append(sent, x)
      PROVE  /\ sent' \in Seq([from : Others \cup {Self}, time : Times])
             /\ Len(sent') = n + 1 /\ sent'[n + 1] = x /\ \A i \in 1..n : sent'[i] = sent[i]
             /\ \A i \in 1..n + 1 : i \in 1..n \/ i = n + 1
             /\ \A i, j \in 1..n + 1 : i < j => i \in 1..n
  BY <1>0, <1>1
<1>2. ASSUME NEW m \in Message, Receive(m) PROVE AbsInv'
  <2>1. /\ pending = {} /\ Younger(m) /\ received' = received \cup {m} /\ pending' = {m}
        /\ sent' = sent
    BY <1>2 DEF Receive
  <2>2. m \notin received
    <3>1. SUFFICES ASSUME m \in received PROVE FALSE
      OBVIOUS
    <3>2. m.time < m.time /\ m.time \in Nat
      BY <2>1, <3>1 DEF Younger, Message
    <3> QED
      BY <3>2
  <2> QED
    BY <2>1, <2>2 DEF Younger, PendingYoungest, SentKnown, PassedOnRising
<1>3. ASSUME NEW m \in Message, PassOn(m) PROVE AbsInv'
  <2>1. /\ pending = {m} /\ sent' = Append(sent, m) /\ pending' = {} /\ received' = received
    BY <1>3 DEF PassOn
  <2>2. m \in received
    BY <2>1 DEF PendingYoungest
  <2>3. \A i \in 1..n : sent[i].from = m.from /\ sent[i].from # Self => sent[i].time < m.time
    BY <1>0, <2>1 DEF PendingYoungest, SentKnown
  <2>4. m \in [from : Others \cup {Self}, time : Times]
    BY DEF Message
  <2>5. PassedOnRising'
    <3>1. SUFFICES ASSUME NEW i \in 1..n + 1, NEW j \in 1..n + 1, i < j,
                          sent'[i].from = sent'[j].from, sent'[i].from # Self
                   PROVE  sent'[i].time < sent'[j].time
      BY <1>1, <2>1, <2>4 DEF PassedOnRising
    <3> QED
      BY <1>0, <1>1, <2>1, <2>3, <2>4, <3>1 DEF PassedOnRising
  <2> QED
    BY <1>0, <1>1, <2>1, <2>2, <2>4, <2>5 DEF PendingYoungest, SentKnown
<1>4. ASSUME NEW t \in Times, SendOwn(t) PROVE AbsInv'
  <2> DEFINE m == [from |-> Self, time |-> t]
  <2>1. sent' = Append(sent, m) /\ UNCHANGED <<received, pending>>
    BY <1>4 DEF SendOwn
  <2>2. m \in [from : Others \cup {Self}, time : Times] /\ m.from = Self
    OBVIOUS
  <2> HIDE DEF m
  <2>3. PassedOnRising'
    <3>1. SUFFICES ASSUME NEW i \in 1..n + 1, NEW j \in 1..n + 1, i < j,
                          sent'[i].from = sent'[j].from, sent'[i].from # Self
                   PROVE  sent'[i].time < sent'[j].time
      BY <1>1, <2>1, <2>2 DEF PassedOnRising
    <3>2. j \in 1..n
      BY <1>1, <2>1, <2>2, <3>1
    <3> QED
      BY <1>0, <1>1, <2>1, <2>2, <3>1, <3>2 DEF PassedOnRising
  <2> QED
    BY <1>0, <1>1, <2>1, <2>2, <2>3 DEF PendingYoungest, SentKnown
<1>5. CASE GiveUp
  BY <1>5 DEF GiveUp, PendingYoungest, SentKnown, PassedOnRising
<1>6. CASE End
  BY <1>6 DEF End, PendingYoungest, SentKnown, PassedOnRising
<1>7. CASE UNCHANGED absvars
  BY <1>7 DEF absvars, PendingYoungest, SentKnown, PassedOnRising
<1> QED
  BY <1>2, <1>3, <1>4, <1>5, <1>6, <1>7 DEF AbsNext

(* A node that keeps to ForwardingNode passes the messages of each other   *)
(* node on in rising order of their times, and so none of them twice,      *)
(* whatever reaches it and in whatever order.                              *)
THEOREM PassesOnRising ==
  ASSUME Times \subseteq Nat
  PROVE  AbsSpec => []PassedOnRising
<1>1. AbsInit => AbsInv
  BY DEF AbsInit, AbsInv, PendingYoungest, SentKnown, PassedOnRising, Message
<1>2. AbsInv => PassedOnRising
  BY DEF AbsInv
<1> QED
  BY <1>1, <1>2, AbsInvStep, PTL DEF AbsSpec
=============================================================================
