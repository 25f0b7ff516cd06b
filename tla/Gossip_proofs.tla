---------------------------- MODULE Gossip_proofs ----------------------------
(***************************************************************************)
(* Proofs about Gossip, for any nodes, links and bounds and whatever the   *)
(* clocks do: every node accepts the messages of each other node in order  *)
(* and once at most (HeardOnceInOrder), and exactly those that are younger *)
(* than all earlier ones of their sender, without gaps (NoGaps); and every *)
(* node implements ForwardingNode (NodesImplementForwardingNode).          *)
(*                                                                         *)
(* The argument is about what a link still has to bring.  A message on a   *)
(* link never comes before a younger one of its sender that the node at    *)
(* its end has not accepted and would miss (Behind), and everything a node *)
(* has sent or forwarded to a neighbour was accepted there, is on its way, *)
(* or was made worthless by something that was (Offered).                  *)
(*                                                                         *)
(* For the refinement it is enough that a message, once sent, keeps the    *)
(* stamp by which the nodes see it (Stamped, StampStays, ViewStays).       *)
(***************************************************************************)
EXTENDS Gossip, SequenceTheorems, TLAPS

(* A message of s with the time t has been overtaken at the end of p, or   *)
(* will be by one of the first k messages on p.                            *)
Covered(p, s, t, k) ==
  \/ t <= node_times[p[2]][s]
  \/ \E i \in 1..k : link[p][i].from = s /\ t <= Time(link[p][i])

(* The messages that are under way, waiting to be forwarded or accepted    *)
(* were sent; a relayed message is the last one accepted from its sender.  *)
Known ==
  /\ \A p \in Pairs : \A i \in 1..Len(link[p]) : link[p][i].id <= Len(sent[link[p][i].from])
  /\ \A n, s \in Nodes : \A i \in 1..Len(heard[n][s]) : heard[n][s][i] \in 1..Len(sent[s])
  /\ \A n \in Nodes : relay[n] # None =>
       /\ relay[n].from # n
       /\ Len(heard[n][relay[n].from]) > 0
       /\ relay[n].id = heard[n][relay[n].from][Len(heard[n][relay[n].from])]

(* node_times has the time of the last message accepted. *)
TimesMatch ==
  /\ \A s \in Nodes : \A i \in 1..Len(sent[s]) : sent[s][i] > 0
  /\ \A n, s \in Nodes :
       node_times[n][s] = IF Len(heard[n][s]) = 0 THEN 0 ELSE sent[s][heard[n][s][Len(heard[n][s])]]

(* What a node accepts has rising numbers and rising times. *)
Rising ==
  \A n, s \in Nodes : \A i, j \in 1..Len(heard[n][s]) : i < j =>
    heard[n][s][i] < heard[n][s][j] /\ sent[s][heard[n][s][i]] < sent[s][heard[n][s][j]]

(* What was sent before a message that a node accepted is no younger than  *)
(* something the node had accepted before.                                 *)
Dominated ==
  \A n, s \in Nodes : \A i \in 1..Len(heard[n][s]) : \A k \in 1..heard[n][s][i] - 1 :
    \E h \in 1..i - 1 : sent[s][k] <= sent[s][heard[n][s][h]]

(* A message under way comes behind one that is as young as any that was   *)
(* sent before it.                                                         *)
BehindAt(p, i) ==
  link[p][i].from # p[2] => \A k \in 1..link[p][i].id - 1 :
    Covered(p, link[p][i].from, sent[link[p][i].from][k], i - 1)

Behind == \A p \in Pairs : \A i \in 1..Len(link[p]) : BehindAt(p, i)

(* A neighbour is offered what a node sends, and what it accepted as soon  *)
(* as it is forwarded.                                                     *)
Offered ==
  \A p \in Pairs : \A s \in Nodes \ {p[2]} :
    /\ s = p[1] => \A k \in 1..Len(sent[s]) : Covered(p, s, sent[s][k], Len(link[p]))
    /\ s # p[1] => \A i \in 1..Len(heard[p[1]][s]) :
         \/ relay[p[1]] = [from |-> s, id |-> heard[p[1]][s][i]]
         \/ Covered(p, s, sent[s][heard[p[1]][s][i]], Len(link[p]))

-----------------------------------------------------------------------------
(* No node is linked to itself. *)
LEMMA LinkedNodesDiffer ==
  ASSUME NEW p \in Pairs
  PROVE  p[1] \in Nodes /\ p[2] \in Nodes /\ p[1] # p[2]
<1>1. p \in Nodes \X Nodes /\ {p[1], p[2]} \in Links
  BY DEF Pairs
<1>2. PICK a, b \in Nodes : a # b /\ {p[1], p[2]} = {a, b}
  BY <1>1, GossipAssumption
<1> QED
  BY <1>1, <1>2

(* A broadcast appends the message on every link of the node. *)
LEMMA BroadcastAppends ==
  ASSUME TypeOK, NEW n \in Nodes, NEW m \in Message, Broadcast(n, m)
  PROVE  /\ link' \in [Pairs -> Seq(Message)]
         /\ air' \in [Nodes -> Seq(Message)]
         /\ air'[n] = Append(air[n], m) /\ \A k \in Nodes : k # n => air'[k] = air[k]
         /\ \A p \in Pairs :
              /\ \A i \in 1..Len(link[p]) : link'[p][i] = link[p][i]
              /\ p[1] # n => link'[p] = link[p]
              /\ p[1] = n => Len(link'[p]) = Len(link[p]) + 1 /\ link'[p][Len(link[p]) + 1] = m
<1>1. link \in [Pairs -> Seq(Message)]
  BY DEF TypeOK
<1>2. link' = [p \in Pairs |-> IF p[1] = n THEN Append(link[p], m) ELSE link[p]]
  BY DEF Broadcast
<1>3. air \in [Nodes -> Seq(Message)] /\ air' = [air EXCEPT ![n] = Append(@, m)]
  BY DEF TypeOK, Broadcast
<1>4. Append(air[n], m) \in Seq(Message)
  BY <1>3
<1>5. air' \in [Nodes -> Seq(Message)] /\ air'[n] = Append(air[n], m)
      /\ \A k \in Nodes : k # n => air'[k] = air[k]
  BY <1>3, <1>4
<1> QED
  BY <1>1, <1>2, <1>5

(* The first message of a link is taken off it. *)
LEMMA ReceiveDrops ==
  ASSUME TypeOK, NEW q \in Pairs, link[q] # <<>>, link' = [link EXCEPT ![q] = Tail(@)]
  PROVE  /\ link' \in [Pairs -> Seq(Message)]
         /\ Head(link[q]) \in Message /\ Head(link[q]) = link[q][1]
         /\ Len(link[q]) \in Nat /\ Len(link[q]) > 0
         /\ Len(link'[q]) = Len(link[q]) - 1
         /\ \A i \in 1..Len(link'[q]) : link'[q][i] = link[q][i + 1]
         /\ \A p \in Pairs : p # q => link'[p] = link[p]
<1>1. link \in [Pairs -> Seq(Message)]
  BY DEF TypeOK
<1>2. link'[q] = Tail(link[q]) /\ link[q] \in Seq(Message)
  BY <1>1
<1> QED
  BY <1>1, <1>2

(* A node's times stay as they are when it sends one more message. *)
LEMMA OriginateSends ==
  ASSUME TypeOK, NEW n \in Nodes, Originate(n)
  PROVE  /\ sent' \in [Nodes -> Seq(Nat)]
         /\ \A s \in Nodes :
              /\ \A i \in 1..Len(sent[s]) : sent'[s][i] = sent[s][i]
              /\ s # n => sent'[s] = sent[s]
         /\ Len(sent'[n]) = Len(sent[n]) + 1
         /\ sent'[n][Len(sent[n]) + 1] \in Nat /\ sent'[n][Len(sent[n]) + 1] > 0
<1>1. sent \in [Nodes -> Seq(Nat)]
  BY DEF TypeOK
<1>2. PICK t \in 1..MaxTime : sent' = [sent EXCEPT ![n] = Append(@, t)]
  BY DEF Originate
<1>3. t \in Nat /\ t > 0
  BY GossipAssumption
<1>4. sent'[n] = Append(sent[n], t) /\ sent[n] \in Seq(Nat)
  BY <1>1, <1>2
<1> QED
  BY <1>1, <1>2, <1>3, <1>4

(* What a node accepts: a message that was sent, by another node, later    *)
(* than what it accepted from that node before.                            *)
LEMMA AcceptTakes ==
  ASSUME TypeOK, Known, NEW q \in Pairs, Accept(q), NEW m, m = Head(link[q])
  PROVE  /\ m \in Message /\ m = link[q][1] /\ m.from \in Nodes /\ m.from # q[2]
         /\ m.id \in 1..Len(sent[m.from]) /\ m.id \in Nat
         /\ sent[m.from][m.id] \in Nat
         /\ sent[m.from][m.id] > node_times[q[2]][m.from]
         /\ relay[q[2]] = None /\ relay' = [relay EXCEPT ![q[2]] = m]
         /\ link[q] # <<>> /\ link' = [link EXCEPT ![q] = Tail(@)]
         /\ node_times' = [node_times EXCEPT ![q[2]][m.from] = sent[m.from][m.id]]
         /\ heard' = [heard EXCEPT ![q[2]][m.from] = Append(@, m.id)]
         /\ UNCHANGED <<set_backs, sent, air>>
<1>1. /\ m.from # q[2] /\ sent[m.from][m.id] > node_times[q[2]][m.from]
      /\ relay[q[2]] = None /\ relay' = [relay EXCEPT ![q[2]] = m]
      /\ link[q] # <<>> /\ link' = [link EXCEPT ![q] = Tail(@)]
      /\ node_times' = [node_times EXCEPT ![q[2]][m.from] = sent[m.from][m.id]]
      /\ heard' = [heard EXCEPT ![q[2]][m.from] = Append(@, m.id)]
      /\ UNCHANGED <<set_backs, sent, air>>
  BY DEF Accept, Valid, Time
<1>2. /\ m \in Message /\ m = link[q][1] /\ Len(link[q]) \in Nat /\ Len(link[q]) > 0
  BY <1>1, ReceiveDrops
<1>3. m.from \in Nodes /\ m.id \in Nat \ {0}
  BY <1>2 DEF Message
<1>4. m.id <= Len(sent[m.from])
  <2>1. 1 \in 1..Len(link[q])
    BY <1>2
  <2>2. link[q][1].id <= Len(sent[link[q][1].from])
    BY <2>1 DEF Known
  <2> QED
    BY <1>2, <2>2
<1>5. sent[m.from] \in Seq(Nat)
  BY <1>3 DEF TypeOK
<1>6. m.id \in 1..Len(sent[m.from]) /\ sent[m.from][m.id] \in Nat
  BY <1>3, <1>4, <1>5
<1> QED
  BY <1>1, <1>2, <1>3, <1>6

(* The same, per node and sender. *)
LEMMA AcceptRecords ==
  ASSUME TypeOK, Known, NEW q \in Pairs, Accept(q), NEW m, m = Head(link[q]),
         NEW n \in Nodes, NEW s \in Nodes
  PROVE  /\ heard[n][s] \in Seq(Nat) /\ node_times[n][s] \in Nat
         /\ (n = q[2] /\ s = m.from) =>
              heard'[n][s] = Append(heard[n][s], m.id) /\ node_times'[n][s] = sent[s][m.id]
         /\ (n # q[2] \/ s # m.from) =>
              heard'[n][s] = heard[n][s] /\ node_times'[n][s] = node_times[n][s]
         /\ heard'[n][s] \in Seq(Nat) /\ node_times'[n][s] \in Nat
<1>1. /\ node_times' = [node_times EXCEPT ![q[2]][m.from] = sent[m.from][m.id]]
      /\ heard' = [heard EXCEPT ![q[2]][m.from] = Append(@, m.id)]
      /\ m.id \in Nat /\ sent[m.from][m.id] \in Nat
  BY AcceptTakes
<1>2. node_times \in [Nodes -> [Nodes -> Nat]] /\ heard \in [Nodes -> [Nodes -> Seq(Nat)]]
  BY DEF TypeOK
<1>3. heard[n] \in [Nodes -> Seq(Nat)] /\ node_times[n] \in [Nodes -> Nat]
  BY <1>2
<1>4. heard'[n] = IF n = q[2] THEN [heard[n] EXCEPT ![m.from] = Append(@, m.id)] ELSE heard[n]
  BY <1>1, <1>2
<1>5. node_times'[n] = IF n = q[2] THEN [node_times[n] EXCEPT ![m.from] = sent[m.from][m.id]]
                                   ELSE node_times[n]
  BY <1>1, <1>2
<1>6. heard[n][s] \in Seq(Nat) /\ node_times[n][s] \in Nat
  BY <1>3
<1>7. CASE n = q[2] /\ s = m.from
  <2>1. heard'[n][s] = Append(heard[n][s], m.id) /\ node_times'[n][s] = sent[s][m.id]
    BY <1>3, <1>4, <1>5, <1>7
  <2>2. Append(heard[n][s], m.id) \in Seq(Nat) /\ sent[s][m.id] \in Nat
    BY <1>1, <1>6, <1>7
  <2> QED
    BY <1>6, <1>7, <2>1, <2>2
<1>8. CASE n # q[2] \/ s # m.from
  BY <1>3, <1>4, <1>5, <1>6, <1>8
<1> QED
  BY <1>6, <1>7, <1>8

-----------------------------------------------------------------------------
(* Types.                                                                  *)

LEMMA TypeInit == Init => TypeOK
  BY GossipAssumption DEF Init, TypeOK, Message

LEMMA TypeStep ==
  ASSUME TypeOK, Known, [Next]_vars
  PROVE  TypeOK'
<1>1. CASE UNCHANGED vars
  BY <1>1 DEF TypeOK, vars
<1>2. ASSUME NEW n \in Senders, Originate(n) PROVE TypeOK'
  <2>1. n \in Nodes
    BY GossipAssumption
  <2>2. sent' \in [Nodes -> Seq(Nat)]
    BY <1>2, <2>1, OriginateSends
  <2>3. [from |-> n, id |-> Len(sent[n]) + 1] \in Message
    BY <2>1 DEF Message, TypeOK
  <2>4. link' \in [Pairs -> Seq(Message)] /\ air' \in [Nodes -> Seq(Message)]
    BY <1>2, <2>1, <2>3, BroadcastAppends DEF Originate
  <2>5. set_backs \in [Nodes -> Nat]
    BY DEF TypeOK
  <2>6. UNCHANGED set_backs \/ set_backs' = [set_backs EXCEPT ![n] = @ + 1]
    BY <1>2 DEF Originate
  <2>7. set_backs' \in [Nodes -> Nat]
    BY <2>1, <2>5, <2>6
  <2> QED
    BY <1>2, <2>2, <2>4, <2>7 DEF TypeOK, Originate
<1>3. ASSUME NEW n \in Nodes, Forward(n) PROVE TypeOK'
  <2>1. relay[n] \in Message
    BY <1>3 DEF Forward, TypeOK
  <2>2. link' \in [Pairs -> Seq(Message)] /\ air' \in [Nodes -> Seq(Message)]
    BY <1>3, <2>1, BroadcastAppends DEF Forward
  <2> QED
    BY <1>3, <2>2 DEF TypeOK, Forward
<1>4. ASSUME NEW p \in Pairs, Reject(p) PROVE TypeOK'
  <2>1. link' \in [Pairs -> Seq(Message)]
    BY <1>4, ReceiveDrops DEF Reject
  <2> QED
    BY <1>4, <2>1 DEF TypeOK, Reject
<1>5. ASSUME NEW p \in Pairs, Accept(p) PROVE TypeOK'
  <2>1. PICK m : m = Head(link[p])
    OBVIOUS
  <2>2. link' \in [Pairs -> Seq(Message)]
    BY <1>5, <2>1, AcceptTakes, ReceiveDrops
  <2>3. relay' \in [Nodes -> Message \cup {None}]
    BY <1>5, <2>1, AcceptTakes DEF TypeOK
  <2>4. /\ node_times' = [node_times EXCEPT ![p[2]][m.from] = sent[m.from][m.id]]
        /\ heard' = [heard EXCEPT ![p[2]][m.from] = Append(@, m.id)]
        /\ m.id \in Nat /\ sent[m.from][m.id] \in Nat
    BY <1>5, <2>1, AcceptTakes
  <2>5. node_times' \in [Nodes -> [Nodes -> Nat]]
    BY <2>4 DEF TypeOK
  <2>6. heard' \in [Nodes -> [Nodes -> Seq(Nat)]]
    <3>1. heard \in [Nodes -> [Nodes -> Seq(Nat)]] /\ p[2] \in Nodes
      BY LinkedNodesDiffer DEF TypeOK
    <3>2. heard[p[2]] \in [Nodes -> Seq(Nat)] /\ m.from \in Nodes
      BY <1>5, <2>1, <3>1, AcceptTakes
    <3>3. [heard[p[2]] EXCEPT ![m.from] = Append(@, m.id)] \in [Nodes -> Seq(Nat)]
      BY <2>4, <3>2
    <3>4. heard' = [heard EXCEPT ![p[2]] = [heard[p[2]] EXCEPT ![m.from] = Append(@, m.id)]]
      BY <2>4, <3>1
    <3> QED
      BY <3>1, <3>3, <3>4
  <2> QED
    BY <1>5, <2>2, <2>3, <2>5, <2>6, AcceptTakes DEF TypeOK, Accept
<1> QED
  BY <1>1, <1>2, <1>3, <1>4, <1>5 DEF Next, AtRest

-----------------------------------------------------------------------------
(* What is on the links.                                                   *)

LEMMA OnLink ==
  ASSUME TypeOK, Known, NEW p \in Pairs, NEW i \in 1..Len(link[p])
  PROVE  /\ link[p][i] \in Message
         /\ link[p][i].from \in Nodes
         /\ link[p][i].id \in 1..Len(sent[link[p][i].from])
         /\ Time(link[p][i]) \in Nat
<1>1. link[p] \in Seq(Message)
  BY DEF TypeOK
<1>2. link[p][i] \in Message
  BY <1>1
<1>3. link[p][i].from \in Nodes /\ link[p][i].id \in Nat \ {0}
  BY <1>2 DEF Message
<1>4. sent[link[p][i].from] \in Seq(Nat)
  BY <1>3 DEF TypeOK
<1>5. link[p][i].id <= Len(sent[link[p][i].from])
  BY DEF Known
<1>6. link[p][i].id \in 1..Len(sent[link[p][i].from])
  BY <1>3, <1>4, <1>5
<1>7. sent[link[p][i].from][link[p][i].id] \in Nat
  BY <1>4, <1>6
<1> QED
  BY <1>2, <1>3, <1>6, <1>7 DEF Time

(* An older message is covered as well, and by more messages too. *)
LEMMA CoveredWeakens ==
  ASSUME TypeOK, Known, NEW p \in Pairs, NEW s \in Nodes, NEW t \in Nat, NEW u \in Nat,
         NEW k \in 0..Len(link[p]), NEW l \in 0..Len(link[p]),
         u <= t, k <= l, Covered(p, s, t, k)
  PROVE  Covered(p, s, u, l)
<1>1. Len(link[p]) \in Nat
  BY DEF TypeOK
<1>2. CASE t <= node_times[p[2]][s]
  <2>1. node_times[p[2]][s] \in Nat
    BY LinkedNodesDiffer DEF TypeOK
  <2> QED
    BY <1>2, <2>1 DEF Covered
<1>3. ASSUME NEW i \in 1..k, link[p][i].from = s, t <= Time(link[p][i])
      PROVE  Covered(p, s, u, l)
  <2>1. i \in 1..Len(link[p]) /\ i \in 1..l
    BY <1>1
  <2>2. Time(link[p][i]) \in Nat
    BY <2>1, OnLink
  <2>3. u <= Time(link[p][i])
    BY <1>3, <2>2
  <2> QED
    BY <1>3, <2>1, <2>3 DEF Covered
<1> QED
  BY <1>2, <1>3 DEF Covered

(* Sent messages and their times stay. *)
SentStays ==
  /\ sent' \in [Nodes -> Seq(Nat)]
  /\ \A s \in Nodes : \A i \in 1..Len(sent[s]) :
       i \in 1..Len(sent'[s]) /\ sent'[s][i] = sent[s][i]

(* What is covered stays so when messages are appended to links. *)
LEMMA CoveredStays ==
  ASSUME TypeOK, Known, SentStays, node_times' = node_times,
         NEW p \in Pairs, \A i \in 1..Len(link[p]) : link'[p][i] = link[p][i],
         NEW s \in Nodes, NEW t \in Nat, NEW k \in 0..Len(link[p]), Covered(p, s, t, k),
         NEW l \in Nat, k <= l
  PROVE  Covered(p, s, t, l)'
<1>1. CASE t <= node_times[p[2]][s]
  BY <1>1 DEF Covered
<1>2. ASSUME NEW i \in 1..k, link[p][i].from = s, t <= Time(link[p][i])
      PROVE  Covered(p, s, t, l)'
  <2>1. i \in 1..Len(link[p]) /\ i \in 1..l
    BY DEF TypeOK
  <2>2. link[p][i].from \in Nodes /\ link[p][i].id \in 1..Len(sent[link[p][i].from])
    BY <2>1, OnLink
  <2>3. link'[p][i] = link[p][i]
    BY <2>1
  <2>4. Time(link[p][i])' = Time(link[p][i])
    BY <2>2, <2>3 DEF SentStays, Time
  <2> QED
    BY <1>2, <2>1, <2>3, <2>4 DEF Covered
<1> QED
  BY <1>1, <1>2 DEF Covered

(* What is covered stays so when the first message of a link is received:  *)
(* if it is not accepted, what it covers was covered by what was.          *)
LEMMA CoveredMoves ==
  ASSUME TypeOK, Known, UNCHANGED sent,
         NEW q \in Pairs, link[q] # <<>>, link' = [link EXCEPT ![q] = Tail(@)],
         NEW p \in Pairs, NEW s \in Nodes, s # p[2],
         node_times'[p[2]][s] \in Nat, node_times[p[2]][s] <= node_times'[p[2]][s],
         (p = q /\ s = link[q][1].from) => Time(link[q][1]) <= node_times'[p[2]][s],
         NEW t \in Nat, NEW k \in 0..Len(link[p]), Covered(p, s, t, k)
  PROVE  /\ p # q => Covered(p, s, t, k)'
         /\ p = q => \A l \in Nat : l >= k - 1 => Covered(p, s, t, l)'
<1> USE DEF Time
<1>1. Len(link[p]) \in Nat /\ node_times[p[2]][s] \in Nat
  BY LinkedNodesDiffer DEF TypeOK
<1>2. CASE t <= node_times[p[2]][s]
  BY <1>1, <1>2 DEF Covered
<1>3. ASSUME NEW i \in 1..k, link[p][i].from = s, t <= Time(link[p][i])
      PROVE  /\ p # q => Covered(p, s, t, k)'
             /\ p = q => \A l \in Nat : l >= k - 1 => Covered(p, s, t, l)'
  <2>1. i \in 1..Len(link[p])
    BY <1>1
  <2>2. Time(link[p][i]) \in Nat
    BY <2>1, OnLink
  <2>3. CASE p # q
    <3>1. link'[p] = link[p]
      BY <2>3, ReceiveDrops
    <3> QED
      BY <1>3, <2>3, <3>1 DEF Covered
  <2>4. CASE p = q /\ i = 1
    BY <1>3, <2>2, <2>4 DEF Covered
  <2>5. CASE p = q /\ i # 1
    <3>1. Len(link'[q]) = Len(link[q]) - 1
      BY ReceiveDrops
    <3>2. i - 1 \in 1..Len(link'[q])
      BY <1>1, <2>1, <2>5, <3>1
    <3>3. link'[q][i - 1] = link[q][(i - 1) + 1]
      BY <3>2, ReceiveDrops
    <3>4. link'[q][i - 1] = link[q][i]
      <4>1. (i - 1) + 1 = i
        BY <1>1, <2>1
      <4> QED
        BY <3>3, <4>1
    <3>5. ASSUME NEW l \in Nat, l >= k - 1 PROVE Covered(p, s, t, l)'
      <4>1. i - 1 \in 1..l
        BY <1>1, <2>1, <2>5, <3>5
      <4> QED
        BY <1>3, <2>5, <3>4, <4>1 DEF Covered
    <3> QED
      BY <2>5, <3>5
  <2> QED
    BY <2>3, <2>4, <2>5
<1> QED
  BY <1>2, <1>3 DEF Covered

-----------------------------------------------------------------------------
(* What the nodes have accepted.                                           *)

LEMMA OnRecord ==
  ASSUME TypeOK, Known, NEW n \in Nodes, NEW s \in Nodes
  PROVE  /\ heard[n][s] \in Seq(Nat) /\ Len(heard[n][s]) \in Nat
         /\ sent[s] \in Seq(Nat) /\ Len(sent[s]) \in Nat
         /\ node_times[n][s] \in Nat
         /\ \A i \in 1..Len(heard[n][s]) :
              heard[n][s][i] \in 1..Len(sent[s]) /\ heard[n][s][i] \in Nat
         /\ \A i \in 1..Len(sent[s]) : sent[s][i] \in Nat
<1>1. heard[n][s] \in Seq(Nat) /\ sent[s] \in Seq(Nat) /\ node_times[n][s] \in Nat
  BY DEF TypeOK
<1>2. \A i \in 1..Len(heard[n][s]) : heard[n][s][i] \in 1..Len(sent[s])
  BY DEF Known
<1> QED
  BY <1>1, <1>2

(* What was younger than all earlier ones still is. *)
LEMMA YoungerStays ==
  ASSUME TypeOK, SentStays, NEW s \in Nodes, NEW i \in 1..Len(sent[s])
  PROVE  Younger(s, i)' <=> Younger(s, i)
<1>1. Len(sent[s]) \in Nat
  BY DEF TypeOK
<1>2. sent'[s][i] = sent[s][i]
  BY DEF SentStays
<1>3. \A j \in 1..i - 1 : sent'[s][j] = sent[s][j]
  BY <1>1 DEF SentStays
<1> QED
  BY <1>2, <1>3 DEF Younger

(* If no node accepts anything, what was accepted is as it was. *)
LEMMA HistoryStays ==
  ASSUME TypeOK, Known, Rising, Dominated, NoGaps, SentStays, heard' = heard
  PROVE  Rising' /\ Dominated' /\ NoGaps'
<1>1. Rising'
  <2> SUFFICES ASSUME NEW n \in Nodes, NEW s \in Nodes,
                      NEW i \in 1..Len(heard[n][s]), NEW j \in 1..Len(heard[n][s]), i < j
               PROVE  /\ heard[n][s][i] < heard[n][s][j]
                      /\ sent'[s][heard[n][s][i]] < sent'[s][heard[n][s][j]]
    BY DEF Rising
  <2>1. /\ heard[n][s][i] < heard[n][s][j]
        /\ sent[s][heard[n][s][i]] < sent[s][heard[n][s][j]]
    BY DEF Rising
  <2> QED
    BY <2>1, OnRecord DEF SentStays
<1>2. Dominated'
  <2> SUFFICES ASSUME NEW n \in Nodes, NEW s \in Nodes,
                      NEW i \in 1..Len(heard[n][s]), NEW k \in 1..heard[n][s][i] - 1
               PROVE  \E h \in 1..i - 1 : sent'[s][k] <= sent'[s][heard[n][s][h]]
    BY DEF Dominated
  <2>1. PICK h \in 1..i - 1 : sent[s][k] <= sent[s][heard[n][s][h]]
    BY DEF Dominated
  <2>2. h \in 1..Len(heard[n][s]) /\ k \in 1..Len(sent[s])
    BY OnRecord
  <2>3. heard[n][s][h] \in 1..Len(sent[s])
    BY <2>2, OnRecord
  <2>4. sent'[s][k] = sent[s][k] /\ sent'[s][heard[n][s][h]] = sent[s][heard[n][s][h]]
    BY <2>2, <2>3 DEF SentStays
  <2> QED
    BY <2>1, <2>4
<1>3. NoGaps'
  <2> SUFFICES ASSUME NEW n \in Nodes, NEW s \in Nodes, NEW i \in 1..Len(heard[n][s])
               PROVE  /\ Younger(s, heard[n][s][i])'
                      /\ \A k \in 1..heard[n][s][i] - 1 :
                           Younger(s, k)' => \E j \in 1..i - 1 : heard[n][s][j] = k
    BY <1>1 DEF NoGaps
  <2>1. heard[n][s][i] \in 1..Len(sent[s])
    BY OnRecord
  <2>2. \A k \in 1..heard[n][s][i] - 1 : k \in 1..Len(sent[s])
    BY <2>1, OnRecord
  <2>3. \A k \in 1..Len(sent[s]) : Younger(s, k)' <=> Younger(s, k)
    BY YoungerStays
  <2> QED
    BY <2>1, <2>2, <2>3 DEF NoGaps
<1> QED
  BY <1>1, <1>2, <1>3

(* What a node accepts next covers what was sent before it, and is younger *)
(* than what it covers.                                                    *)
LEMMA AcceptedNext ==
  ASSUME TypeOK, Known, TimesMatch, Behind, NEW q \in Pairs, Accept(q), NEW m, m = Head(link[q]),
         NEW k \in 1..m.id - 1
  PROVE  LET list == heard[q[2]][m.from]
         IN  /\ Len(list) > 0
             /\ sent[m.from][k] <= sent[m.from][list[Len(list)]]
             /\ sent[m.from][list[Len(list)]] < sent[m.from][m.id]
<1>1. /\ m = link[q][1] /\ m.from \in Nodes /\ m.from # q[2] /\ m.id \in 1..Len(sent[m.from])
      /\ sent[m.from][m.id] \in Nat /\ sent[m.from][m.id] > node_times[q[2]][m.from]
      /\ link[q] # <<>> /\ link' = [link EXCEPT ![q] = Tail(@)]
  BY AcceptTakes
<1>2. Len(link[q]) \in Nat /\ 1 \in 1..Len(link[q])
  BY <1>1, ReceiveDrops
<1>3. Covered(q, m.from, sent[m.from][k], 0)
  <2>1. link[q][1].from # q[2] => \A x \in 1..link[q][1].id - 1 :
          Covered(q, link[q][1].from, sent[link[q][1].from][x], 1 - 1)
    BY <1>2 DEF Behind, BehindAt
  <2> QED
    BY <1>1, <2>1
<1>4. sent[m.from][k] <= node_times[q[2]][m.from]
  BY <1>3 DEF Covered
<1>5. q[2] \in Nodes
  BY LinkedNodesDiffer
<1>6. k \in 1..Len(sent[m.from])
  BY <1>1, <1>5, OnRecord
<1>7. sent[m.from][k] > 0 /\ sent[m.from][k] \in Nat
  BY <1>1, <1>5, <1>6, OnRecord DEF TimesMatch
<1>8. PICK n, s \in Nodes : n = q[2] /\ s = m.from
  BY <1>1, <1>5
<1>9. node_times[n][s] \in Nat /\ Len(heard[n][s]) \in Nat
  BY OnRecord
<1>10. node_times[n][s] > 0 /\ sent[s][k] <= node_times[n][s]
  BY <1>4, <1>7, <1>8, <1>9
<1>11. node_times[n][s] = IF Len(heard[n][s]) = 0 THEN 0 ELSE sent[s][heard[n][s][Len(heard[n][s])]]
  BY DEF TimesMatch
<1>12. /\ Len(heard[n][s]) # 0
       /\ node_times[n][s] = sent[s][heard[n][s][Len(heard[n][s])]]
  BY <1>10, <1>11
<1>13. Len(heard[n][s]) > 0
  BY <1>9, <1>12
<1> QED
  BY <1>1, <1>8, <1>10, <1>12, <1>13

(* Accepting a message keeps the numbers and times of its sender rising,   *)
(* and leaves no gap.                                                      *)
LEMMA HistoryGrows ==
  ASSUME TypeOK, Known, TimesMatch, Rising, Dominated, NoGaps, Behind,
         NEW q \in Pairs, Accept(q)
  PROVE  Rising' /\ Dominated' /\ NoGaps'
<1>1. PICK m : m = Head(link[q])
  OBVIOUS
<1>2. PICK b, c \in Nodes : b = q[2] /\ c = m.from
  BY <1>1, AcceptTakes, LinkedNodesDiffer
<1>3. PICK list : list = heard[b][c]
  OBVIOUS
<1>4. PICK L \in Nat : L = Len(list)
  BY <1>3, OnRecord
<1>5. /\ m.id \in 1..Len(sent[c]) /\ m.id \in Nat /\ sent[c][m.id] \in Nat
      /\ sent[c][m.id] > node_times[b][c] /\ sent' = sent
  BY <1>1, <1>2, AcceptTakes
<1>6. /\ list \in Seq(Nat) /\ node_times[b][c] \in Nat /\ Len(sent[c]) \in Nat
      /\ \A i \in 1..L : list[i] \in 1..Len(sent[c]) /\ list[i] \in Nat
      /\ \A i \in 1..Len(sent[c]) : sent[c][i] \in Nat
  BY <1>3, <1>4, OnRecord
<1>7. /\ \A n, s \in Nodes : (n # b \/ s # c) => heard'[n][s] = heard[n][s]
      /\ heard'[b][c] = Append(list, m.id)
  <2>1. ASSUME NEW n \in Nodes, NEW s \in Nodes, n # b \/ s # c
        PROVE  heard'[n][s] = heard[n][s]
    BY <1>1, <1>2, <2>1, AcceptRecords
  <2>2. heard'[b][c] = Append(list, m.id)
    BY <1>1, <1>2, <1>3, AcceptRecords
  <2> QED
    BY <2>1, <2>2
<1>8. /\ Len(heard'[b][c]) = L + 1 /\ heard'[b][c][L + 1] = m.id
      /\ \A i \in 1..L : heard'[b][c][i] = list[i]
  BY <1>4, <1>5, <1>6, <1>7
<1>9. ASSUME NEW k \in 1..m.id - 1
      PROVE  L > 0 /\ sent[c][k] <= sent[c][list[L]] /\ sent[c][list[L]] < sent[c][m.id]
  BY <1>1, <1>2, <1>3, <1>4, AcceptedNext
<1>10. ASSUME NEW i \in 1..L
       PROVE  list[i] < m.id /\ sent[c][list[i]] < sent[c][m.id]
  <2>1. sent[c][list[L]] < sent[c][m.id]
    <3>1. node_times[b][c] = IF Len(list) = 0 THEN 0 ELSE sent[c][list[Len(list)]]
      BY <1>3 DEF TimesMatch
    <3> QED
      BY <1>4, <1>5, <3>1
  <2>2. i = L \/ sent[c][list[i]] < sent[c][list[L]]
    BY <1>3, <1>4 DEF Rising
  <2>3. sent[c][list[i]] \in Nat /\ sent[c][list[L]] \in Nat /\ list[i] \in Nat
    BY <1>6
  <2>4. sent[c][list[i]] < sent[c][m.id]
    BY <1>5, <2>1, <2>2, <2>3
  <2>5. CASE list[i] > m.id
    <3>1. Younger(c, list[i])
      BY <1>3, <1>4 DEF NoGaps
    <3>2. m.id \in 1..list[i] - 1
      BY <1>5, <2>3, <2>5
    <3>3. sent[c][m.id] < sent[c][list[i]]
      BY <3>1, <3>2 DEF Younger
    <3> QED
      BY <1>5, <2>3, <2>4, <3>3
  <2>6. list[i] # m.id
    BY <1>5, <2>4
  <2> QED
    BY <1>5, <2>3, <2>4, <2>5, <2>6
<1>11. Rising'
  <2> SUFFICES ASSUME NEW n \in Nodes, NEW s \in Nodes,
                      NEW i \in 1..Len(heard'[n][s]), NEW j \in 1..Len(heard'[n][s]), i < j
               PROVE  /\ heard'[n][s][i] < heard'[n][s][j]
                      /\ sent[s][heard'[n][s][i]] < sent[s][heard'[n][s][j]]
    BY <1>5 DEF Rising
  <2>1. CASE n # b \/ s # c
    BY <1>7, <2>1 DEF Rising
  <2>2. CASE n = b /\ s = c /\ j = L + 1
    BY <1>8, <1>10, <2>2
  <2>3. CASE n = b /\ s = c /\ j # L + 1
    <3>1. i \in 1..L /\ j \in 1..L
      BY <1>8, <2>3
    <3> QED
      BY <1>3, <1>4, <1>8, <2>3, <3>1 DEF Rising
  <2> QED
    BY <2>1, <2>2, <2>3
<1>12. Dominated'
  <2> SUFFICES ASSUME NEW n \in Nodes, NEW s \in Nodes,
                      NEW i \in 1..Len(heard'[n][s]), NEW k \in 1..heard'[n][s][i] - 1
               PROVE  \E h \in 1..i - 1 : sent[s][k] <= sent[s][heard'[n][s][h]]
    BY <1>5 DEF Dominated
  <2>1. CASE n # b \/ s # c
    BY <1>7, <2>1 DEF Dominated
  <2>2. CASE n = b /\ s = c /\ i = L + 1
    <3>1. k \in 1..m.id - 1
      BY <1>8, <2>2
    <3>2. L > 0 /\ sent[c][k] <= sent[c][list[L]]
      BY <1>9, <3>1
    <3>3. L \in 1..i - 1 /\ heard'[b][c][L] = list[L]
      BY <1>8, <2>2, <3>2
    <3> QED
      BY <2>2, <3>2, <3>3
  <2>3. CASE n = b /\ s = c /\ i # L + 1
    <3>1. i \in 1..L /\ heard'[b][c][i] = list[i]
      BY <1>8, <2>3
    <3>2. PICK h \in 1..i - 1 : sent[c][k] <= sent[c][list[h]]
      BY <1>3, <1>4, <2>3, <3>1 DEF Dominated
    <3>3. heard'[b][c][h] = list[h]
      BY <1>8, <3>1
    <3> QED
      BY <2>3, <3>2, <3>3
  <2> QED
    BY <2>1, <2>2, <2>3
<1>13. NoGaps'
  <2>1. \A s, k : Younger(s, k)' <=> Younger(s, k)
    BY <1>5 DEF Younger
  <2> SUFFICES ASSUME NEW n \in Nodes, NEW s \in Nodes, NEW i \in 1..Len(heard'[n][s])
               PROVE  /\ Younger(s, heard'[n][s][i])
                      /\ \A k \in 1..heard'[n][s][i] - 1 :
                           Younger(s, k) => \E j \in 1..i - 1 : heard'[n][s][j] = k
    BY <2>1 DEF NoGaps
  <2>2. CASE n # b \/ s # c
    <3>1. heard'[n][s] = heard[n][s] /\ i \in 1..Len(heard[n][s])
      BY <1>7, <2>2
    <3>2. /\ Younger(s, heard[n][s][i])
          /\ \A k \in 1..heard[n][s][i] - 1 :
               Younger(s, k) => \E j \in 1..i - 1 : heard[n][s][j] = k
      BY <3>1 DEF NoGaps
    <3> QED
      BY <3>1, <3>2
  <2>3. CASE n = b /\ s = c /\ i = L + 1
    <3>1. Younger(c, m.id)
      <4> SUFFICES ASSUME NEW k \in 1..m.id - 1 PROVE sent[c][k] < sent[c][m.id]
        BY DEF Younger
      <4>1. L > 0 /\ sent[c][k] <= sent[c][list[L]] /\ sent[c][list[L]] < sent[c][m.id]
        BY <1>9
      <4>2. sent[c][k] \in Nat /\ sent[c][list[L]] \in Nat
        BY <1>5, <1>6, <4>1
      <4> QED
        BY <1>5, <4>1, <4>2
    <3>2. ASSUME NEW k \in 1..m.id - 1, Younger(c, k)
          PROVE  \E j \in 1..L : list[j] = k
      <4>1. L > 0 /\ sent[c][k] <= sent[c][list[L]]
        BY <1>9
      <4>2. L \in 1..L /\ list[L] \in Nat /\ sent[c][k] \in Nat /\ sent[c][list[L]] \in Nat
        BY <1>5, <1>6, <4>1
      <4>3. CASE list[L] = k
        BY <4>2, <4>3
      <4>4. CASE list[L] < k
        <5>1. list[L] \in 1..k - 1
          BY <1>6, <4>2, <4>4
        <5>2. sent[c][list[L]] < sent[c][k]
          BY <3>2, <5>1 DEF Younger
        <5> QED
          BY <4>1, <4>2, <5>2
      <4>5. CASE list[L] > k
        <5>1. k \in 1..list[L] - 1
          BY <4>2, <4>5
        <5>2. PICK j \in 1..L - 1 : list[j] = k
          BY <1>3, <1>4, <3>2, <4>2, <5>1 DEF NoGaps
        <5> QED
          BY <5>2
      <4> QED
        BY <4>2, <4>3, <4>4, <4>5
    <3> QED
      BY <1>8, <2>3, <3>1, <3>2
  <2>4. CASE n = b /\ s = c /\ i # L + 1
    <3>1. i \in 1..L /\ heard'[b][c][i] = list[i]
      BY <1>8, <2>4
    <3>2. \A j \in 1..i - 1 : heard'[b][c][j] = list[j]
      BY <1>8, <3>1
    <3> QED
      BY <1>3, <1>4, <2>4, <3>1, <3>2 DEF NoGaps
  <2> QED
    BY <2>2, <2>3, <2>4
<1> QED
  BY <1>11, <1>12, <1>13

-----------------------------------------------------------------------------
(* The steps.                                                              *)

(* What IInv says besides the types. *)
Consistent == Known /\ TimesMatch /\ Rising /\ Dominated /\ NoGaps /\ Behind /\ Offered

LEMMA OriginateKeeps ==
  ASSUME TypeOK, Consistent, NEW n \in Nodes, Originate(n)
  PROVE  Consistent'
<1> USE DEF Consistent
<1>1. PICK m : m = [from |-> n, id |-> Len(sent[n]) + 1]
  OBVIOUS
<1>2. /\ m \in Message /\ m.from = n /\ m.id = Len(sent[n]) + 1 /\ Len(sent[n]) \in Nat
  BY <1>1 DEF Message, TypeOK
<1>3. Broadcast(n, m) /\ UNCHANGED <<node_times, relay, heard>>
  BY <1>1 DEF Originate
<1>4. \A p \in Pairs :
        /\ link'[p] \in Seq(Message) /\ Len(link'[p]) \in Nat /\ Len(link[p]) \in Nat
        /\ \A i \in 1..Len(link[p]) : link'[p][i] = link[p][i]
        /\ p[1] # n => link'[p] = link[p]
        /\ p[1] = n => Len(link'[p]) = Len(link[p]) + 1 /\ link'[p][Len(link[p]) + 1] = m
  BY <1>2, <1>3, BroadcastAppends DEF TypeOK
<1>5. /\ sent' \in [Nodes -> Seq(Nat)]
      /\ \A s \in Nodes :
           /\ \A i \in 1..Len(sent[s]) : sent'[s][i] = sent[s][i]
           /\ s # n => sent'[s] = sent[s]
      /\ Len(sent'[n]) = Len(sent[n]) + 1
      /\ sent'[n][Len(sent[n]) + 1] \in Nat /\ sent'[n][Len(sent[n]) + 1] > 0
  BY OriginateSends
<1>6. \A s \in Nodes : Len(sent[s]) \in Nat /\ Len(sent'[s]) \in Nat /\ Len(sent[s]) <= Len(sent'[s])
  <2>1. ASSUME NEW s \in Nodes PROVE Len(sent[s]) \in Nat /\ Len(sent'[s]) \in Nat
    BY <1>5 DEF TypeOK
  <2>2. ASSUME NEW s \in Nodes PROVE Len(sent[s]) <= Len(sent'[s])
    <3>1. CASE s = n
      BY <1>2, <1>5, <3>1
    <3>2. CASE s # n
      BY <1>5, <2>1, <3>2
    <3> QED
      BY <3>1, <3>2
  <2> QED
    BY <2>1, <2>2
<1>7. SentStays
  BY <1>5, <1>6 DEF SentStays
<1>8. Known'
  <2>1. ASSUME NEW p \in Pairs, NEW i \in 1..Len(link'[p])
        PROVE  link'[p][i].id <= Len(sent'[link'[p][i].from])
    <3>1. CASE i \in 1..Len(link[p])
      <4>1. /\ link[p][i].from \in Nodes
            /\ link[p][i].id \in 1..Len(sent[link[p][i].from])
        BY <3>1, OnLink
      <4>2. link'[p][i] = link[p][i]
        BY <1>4, <3>1
      <4> QED
        BY <1>6, <4>1, <4>2
    <3>2. CASE i \notin 1..Len(link[p])
      <4>1. p[1] = n /\ i = Len(link[p]) + 1
        BY <1>4, <3>2
      <4> QED
        BY <1>2, <1>4, <1>5, <4>1
    <3> QED
      BY <3>1, <3>2
  <2>2. ASSUME NEW k \in Nodes, NEW s \in Nodes, NEW i \in 1..Len(heard[k][s])
        PROVE  heard[k][s][i] \in 1..Len(sent'[s])
    <3>1. heard[k][s][i] \in 1..Len(sent[s])
      BY OnRecord
    <3> QED
      BY <1>6, <3>1
  <2> QED
    BY <1>3, <2>1, <2>2 DEF Known
<1>9. TimesMatch'
  <2>1. ASSUME NEW s \in Nodes, NEW i \in 1..Len(sent'[s]) PROVE sent'[s][i] > 0
    BY <1>2, <1>5, <2>1 DEF TimesMatch
  <2>2. ASSUME NEW k \in Nodes, NEW s \in Nodes, Len(heard[k][s]) # 0
        PROVE  node_times[k][s] = sent'[s][heard[k][s][Len(heard[k][s])]]
    <3>1. heard[k][s][Len(heard[k][s])] \in 1..Len(sent[s])
      BY <2>2, OnRecord
    <3> QED
      BY <1>5, <2>2, <3>1 DEF TimesMatch
  <2>3. \A k, s \in Nodes : Len(heard[k][s]) = 0 => node_times[k][s] = 0
    BY DEF TimesMatch
  <2> QED
    BY <1>3, <2>1, <2>2, <2>3 DEF TimesMatch
<1>10. Rising' /\ Dominated' /\ NoGaps'
  BY <1>3, <1>7, HistoryStays
<1>11. ASSUME NEW p \in Pairs, NEW s \in Nodes, NEW t \in Nat, NEW k \in 0..Len(link[p]),
              Covered(p, s, t, k), NEW l \in Nat, k <= l
       PROVE  Covered(p, s, t, l)'
  BY <1>3, <1>4, <1>7, <1>11, CoveredStays
<1>12. Behind'
  <2> SUFFICES ASSUME NEW p \in Pairs, NEW i \in 1..Len(link'[p]) PROVE BehindAt(p, i)'
    BY DEF Behind
  <2> SUFFICES ASSUME NEW s, NEW k, NEW t, NEW l,
                      s = link'[p][i].from, s # p[2], k \in 1..link'[p][i].id - 1,
                      t = sent'[s][k], l = i - 1
               PROVE  Covered(p, s, t, l)'
    BY DEF BehindAt, Covered
  <2>1. CASE i \in 1..Len(link[p])
    <3>1. /\ s \in Nodes /\ s = link[p][i].from
          /\ link[p][i].id \in 1..Len(sent[s])
          /\ link'[p][i] = link[p][i]
      BY <1>4, <2>1, OnLink
    <3>2. k \in 1..Len(sent[s]) /\ l \in 0..Len(link[p]) /\ l \in Nat
      BY <1>4, <1>6, <2>1, <3>1
    <3>3. t = sent[s][k] /\ t \in Nat
      BY <1>5, <3>1, <3>2, OnRecord
    <3>4. Covered(p, s, t, l)
      BY <2>1, <3>1, <3>3 DEF Behind, BehindAt
    <3> QED
      BY <1>11, <3>1, <3>2, <3>3, <3>4
  <2>2. CASE i \notin 1..Len(link[p])
    <3>1. p[1] = n /\ i = Len(link[p]) + 1 /\ link'[p][i] = m /\ l = Len(link[p])
      BY <1>4, <2>2
    <3>2. s = n /\ k \in 1..Len(sent[n]) /\ l \in 0..Len(link[p]) /\ l \in Nat
      BY <1>2, <1>4, <3>1
    <3>3. t = sent[s][k]
      BY <1>5, <3>2
    <3>4. t \in Nat
      BY <3>2, <3>3, OnRecord
    <3>5. Covered(p, s, t, l)
      BY <3>1, <3>2, <3>3 DEF Offered
    <3> QED
      BY <1>11, <3>2, <3>4, <3>5
  <2> QED
    BY <2>1, <2>2
<1>13. Offered'
  <2>1. ASSUME NEW p \in Pairs, NEW s \in Nodes \ {p[2]}, s = p[1], NEW k \in 1..Len(sent'[s]),
               NEW t, NEW l, t = sent'[s][k], l = Len(link'[p])
        PROVE  Covered(p, s, t, l)'
    <3>1. CASE k \in 1..Len(sent[s])
      <4>1. t = sent[s][k] /\ t \in Nat
        BY <1>5, <2>1, <3>1, OnRecord
      <4>2. Covered(p, s, t, Len(link[p]))
        BY <2>1, <3>1, <4>1 DEF Offered
      <4>3. Len(link[p]) \in 0..Len(link[p]) /\ l \in Nat /\ Len(link[p]) <= l
        BY <1>4, <2>1
      <4> QED
        BY <1>11, <4>1, <4>2, <4>3
    <3>2. CASE k \notin 1..Len(sent[s])
      <4>1. s = n
        BY <1>5, <2>1, <3>2
      <4>2. k = Len(sent[n]) + 1 /\ t \in Nat
        BY <1>2, <1>5, <2>1, <3>2, <4>1
      <4>3. l = Len(link[p]) + 1 /\ link'[p][Len(link[p]) + 1] = m /\ Len(link[p]) \in Nat
        BY <1>4, <2>1, <4>1
      <4>4. l \in 1..l /\ link'[p][l] = m
        BY <4>3
      <4>5. sent'[m.from][m.id] = t
        BY <1>2, <2>1, <4>1, <4>2
      <4> QED
        BY <1>2, <4>1, <4>2, <4>4, <4>5 DEF Covered, Time
    <3> QED
      BY <3>1, <3>2
  <2>2. ASSUME NEW p \in Pairs, NEW s \in Nodes \ {p[2]}, s # p[1], NEW i \in 1..Len(heard'[p[1]][s]),
               NEW t, NEW l, t = sent'[s][heard'[p[1]][s][i]], l = Len(link'[p]),
               relay'[p[1]] # [from |-> s, id |-> heard'[p[1]][s][i]]
        PROVE  Covered(p, s, t, l)'
    <3>1. p[1] \in Nodes
      BY LinkedNodesDiffer
    <3>2. heard[p[1]][s][i] \in 1..Len(sent[s])
      BY <1>3, <3>1, OnRecord
    <3>3. t = sent[s][heard[p[1]][s][i]] /\ t \in Nat
      BY <1>3, <1>5, <2>2, <3>1, <3>2, OnRecord
    <3>4. Covered(p, s, t, Len(link[p]))
      BY <1>3, <2>2, <3>3 DEF Offered
    <3>5. Len(link[p]) \in 0..Len(link[p]) /\ l \in Nat /\ Len(link[p]) <= l
      BY <1>4, <2>2
    <3> QED
      BY <1>11, <3>3, <3>4, <3>5
  <2>3. ASSUME NEW p \in Pairs, NEW s \in Nodes \ {p[2]}
        PROVE  (s = p[1] => \A k \in 1..Len(sent[s]) : Covered(p, s, sent[s][k], Len(link[p])))'
    BY <2>1 DEF Covered
  <2>4. ASSUME NEW p \in Pairs, NEW s \in Nodes \ {p[2]}
        PROVE  (s # p[1] => \A i \in 1..Len(heard[p[1]][s]) :
                  \/ relay[p[1]] = [from |-> s, id |-> heard[p[1]][s][i]]
                  \/ Covered(p, s, sent[s][heard[p[1]][s][i]], Len(link[p])))'
    <3> SUFFICES ASSUME s # p[1], NEW i \in 1..Len(heard'[p[1]][s]),
                        relay'[p[1]] # [from |-> s, id |-> heard'[p[1]][s][i]],
                        NEW t, NEW l, t = sent'[s][heard'[p[1]][s][i]], l = Len(link'[p])
                 PROVE  Covered(p, s, t, l)'
      BY DEF Covered
    <3> QED
      BY <2>2
  <2> QED
    BY <2>3, <2>4 DEF Offered
<1> QED
  BY <1>8, <1>9, <1>10, <1>12, <1>13

LEMMA ForwardKeeps ==
  ASSUME TypeOK, Consistent, NEW n \in Nodes, Forward(n)
  PROVE  Consistent'
<1> USE DEF Consistent
<1>1. PICK m : m = relay[n]
  OBVIOUS
<1>2. /\ m # None /\ Broadcast(n, m) /\ relay' = [relay EXCEPT ![n] = None]
      /\ UNCHANGED <<sent, node_times, heard>>
  BY <1>1 DEF Forward
<1>3. m \in Message /\ m.from \in Nodes /\ m.from # n
  BY <1>1, <1>2 DEF TypeOK, Known, Message
<1>4. PICK list : list = heard[n][m.from]
  OBVIOUS
<1>5. PICK L \in Nat : L = Len(list)
  BY <1>3, <1>4, OnRecord
<1>6. L > 0 /\ m.id = list[L] /\ L \in 1..L
  BY <1>1, <1>2, <1>4, <1>5 DEF Known
<1>7. m.id \in 1..Len(sent[m.from]) /\ m.id \in Nat
  BY <1>3, <1>4, <1>5, <1>6, OnRecord
<1>8. \A p \in Pairs :
        /\ link'[p] \in Seq(Message) /\ Len(link'[p]) \in Nat /\ Len(link[p]) \in Nat
        /\ \A i \in 1..Len(link[p]) : link'[p][i] = link[p][i]
        /\ p[1] # n => link'[p] = link[p]
        /\ p[1] = n => Len(link'[p]) = Len(link[p]) + 1 /\ link'[p][Len(link[p]) + 1] = m
  BY <1>2, <1>3, BroadcastAppends DEF TypeOK
<1>9. SentStays
  BY <1>2 DEF SentStays, TypeOK
<1>10. Known'
  <2>1. ASSUME NEW p \in Pairs, NEW i \in 1..Len(link'[p])
        PROVE  link'[p][i].id <= Len(sent[link'[p][i].from])
    <3>1. CASE i \in 1..Len(link[p])
      BY <1>8, <3>1 DEF Known
    <3>2. CASE i \notin 1..Len(link[p])
      <4>1. link'[p][i] = m
        BY <1>8, <3>2
      <4>2. Len(sent[m.from]) \in Nat
        BY <1>3, OnRecord
      <4> QED
        BY <1>7, <4>1, <4>2
    <3> QED
      BY <3>1, <3>2
  <2>2. ASSUME NEW k \in Nodes, relay'[k] # None
        PROVE  /\ relay'[k].from # k
               /\ Len(heard[k][relay'[k].from]) > 0
               /\ relay'[k].id = heard[k][relay'[k].from][Len(heard[k][relay'[k].from])]
    <3>1. relay'[k] = relay[k]
      BY <1>2, <2>2 DEF TypeOK
    <3> QED
      BY <2>2, <3>1 DEF Known
  <2> QED
    BY <1>2, <2>1, <2>2 DEF Known
<1>11. TimesMatch'
  BY <1>2 DEF TimesMatch
<1>12. Rising' /\ Dominated' /\ NoGaps'
  BY <1>2, <1>9, HistoryStays
<1>13. ASSUME NEW p \in Pairs, NEW s \in Nodes, NEW t \in Nat, NEW k \in 0..Len(link[p]),
              Covered(p, s, t, k), NEW l \in Nat, k <= l
       PROVE  Covered(p, s, t, l)'
  BY <1>2, <1>8, <1>9, <1>13, CoveredStays
<1>14. Behind'
  <2> SUFFICES ASSUME NEW p \in Pairs, NEW i \in 1..Len(link'[p]) PROVE BehindAt(p, i)'
    BY DEF Behind
  <2> SUFFICES ASSUME NEW s, NEW k, NEW t, NEW l,
                      s = link'[p][i].from, s # p[2], k \in 1..link'[p][i].id - 1,
                      t = sent'[s][k], l = i - 1
               PROVE  Covered(p, s, t, l)'
    BY DEF BehindAt, Covered
  <2>0. t = sent[s][k]
    BY <1>2
  <2>1. CASE i \in 1..Len(link[p])
    <3>1. /\ s \in Nodes /\ s = link[p][i].from
          /\ link[p][i].id \in 1..Len(sent[s])
          /\ link'[p][i] = link[p][i]
      BY <1>8, <2>1, OnLink
    <3>2. Len(sent[s]) \in Nat
      BY <3>1, OnRecord
    <3>3. k \in 1..Len(sent[s]) /\ l \in 0..Len(link[p]) /\ l \in Nat
      BY <1>8, <2>1, <3>1, <3>2
    <3>4. t \in Nat
      BY <2>0, <3>1, <3>3, OnRecord
    <3>5. Covered(p, s, t, l)
      BY <2>0, <2>1, <3>1 DEF Behind, BehindAt
    <3> QED
      BY <1>13, <3>1, <3>3, <3>4, <3>5
  <2>2. CASE i \notin 1..Len(link[p])
    <3>1. p[1] = n /\ link'[p][i] = m /\ l = Len(link[p]) /\ l \in Nat
      BY <1>8, <2>2
    <3>2. s = m.from /\ k \in 1..m.id - 1
      BY <3>1
    <3>3. k \in 1..Len(sent[s]) /\ t \in Nat
      BY <1>3, <1>7, <2>0, <3>2, OnRecord
    <3>4. PICK h \in 1..L - 1 : t <= sent[s][list[h]]
      <4>1. s \in Nodes /\ list = heard[n][s] /\ L \in 1..Len(heard[n][s])
        BY <1>3, <1>4, <1>5, <1>6, <3>2
      <4>2. k \in 1..heard[n][s][L] - 1
        BY <1>6, <3>2, <4>1
      <4>3. PICK h \in 1..L - 1 : sent[s][k] <= sent[s][heard[n][s][h]]
        BY <4>1, <4>2 DEF Dominated
      <4> QED
        BY <2>0, <4>1, <4>3
    <3>5. h \in 1..L /\ list[h] < m.id
      <4>1. h \in 1..L /\ h < L
        BY <1>5
      <4> QED
        BY <1>3, <1>4, <1>5, <1>6, <4>1 DEF Rising
    <3>6. list[h] \in Nat /\ sent[s][list[h]] \in Nat
      BY <1>3, <1>4, <1>5, <3>2, <3>5, OnRecord
    <3>7. m # [from |-> s, id |-> list[h]]
      BY <1>7, <3>5, <3>6
    <3>8. Covered(p, s, sent[s][list[h]], Len(link[p]))
      BY <1>1, <1>3, <1>4, <1>5, <3>1, <3>2, <3>5, <3>7 DEF Offered
    <3>9. Covered(p, s, t, l)
      <4>1. PICK u \in Nat : u = sent[s][list[h]] /\ t <= u /\ Covered(p, s, u, l)
        BY <3>1, <3>4, <3>6, <3>8
      <4>2. l \in 0..Len(link[p]) /\ l <= l
        BY <3>1
      <4> QED
        BY <1>3, <3>2, <3>3, <4>1, <4>2, CoveredWeakens
    <3> QED
      BY <1>3, <1>13, <3>1, <3>2, <3>3, <3>9
  <2> QED
    BY <2>1, <2>2
<1>15. Offered'
  <2>1. ASSUME NEW p \in Pairs, NEW s \in Nodes \ {p[2]}, NEW t \in Nat,
               Covered(p, s, t, Len(link[p])), NEW l, l = Len(link'[p])
        PROVE  Covered(p, s, t, l)'
    <3>1. Len(link[p]) \in 0..Len(link[p]) /\ l \in Nat /\ Len(link[p]) <= l
      BY <1>8, <2>1
    <3> QED
      BY <1>13, <2>1, <3>1
  <2>2. ASSUME NEW p \in Pairs, NEW s \in Nodes \ {p[2]}, s = p[1], NEW k \in 1..Len(sent[s]),
               NEW t, NEW l, t = sent[s][k], l = Len(link'[p])
        PROVE  Covered(p, s, t, l)'
    BY <2>1, <2>2, OnRecord DEF Offered
  <2>3. ASSUME NEW p \in Pairs, NEW s \in Nodes \ {p[2]}, s # p[1], NEW i \in 1..Len(heard[p[1]][s]),
               NEW t, NEW l, t = sent[s][heard[p[1]][s][i]], l = Len(link'[p]),
               relay'[p[1]] # [from |-> s, id |-> heard[p[1]][s][i]]
        PROVE  Covered(p, s, t, l)'
    <3>1. p[1] \in Nodes
      BY LinkedNodesDiffer
    <3>2. heard[p[1]][s][i] \in 1..Len(sent[s]) /\ t \in Nat
      BY <2>3, <3>1, OnRecord
    <3>3. CASE relay[p[1]] # [from |-> s, id |-> heard[p[1]][s][i]]
      BY <2>1, <2>3, <3>2, <3>3 DEF Offered
    <3>4. CASE relay[p[1]] = [from |-> s, id |-> heard[p[1]][s][i]]
      <4>1. p[1] = n
        BY <1>2, <2>3, <3>1, <3>4 DEF TypeOK
      <4>2. m = [from |-> s, id |-> heard[p[1]][s][i]]
        BY <1>1, <3>4, <4>1
      <4>3. m.from = s /\ sent[m.from][m.id] = t
        BY <2>3, <4>2
      <4>4. l = Len(link[p]) + 1 /\ link'[p][Len(link[p]) + 1] = m /\ Len(link[p]) \in Nat
        BY <1>8, <2>3, <4>1
      <4>5. l \in 1..l /\ link'[p][l] = m
        BY <4>4
      <4> QED
        BY <1>2, <3>2, <4>3, <4>5 DEF Covered, Time
    <3> QED
      BY <3>3, <3>4
  <2>4. ASSUME NEW p \in Pairs, NEW s \in Nodes \ {p[2]}
        PROVE  (s = p[1] => \A k \in 1..Len(sent[s]) : Covered(p, s, sent[s][k], Len(link[p])))'
    <3> SUFFICES ASSUME s = p[1], NEW k \in 1..Len(sent'[s]), NEW t, NEW l, t = sent'[s][k], l = Len(link'[p])
                 PROVE  Covered(p, s, t, l)'
      BY DEF Covered
    <3> QED
      BY <1>2, <2>2
  <2>5. ASSUME NEW p \in Pairs, NEW s \in Nodes \ {p[2]}
        PROVE  (s # p[1] => \A i \in 1..Len(heard[p[1]][s]) :
                  \/ relay[p[1]] = [from |-> s, id |-> heard[p[1]][s][i]]
                  \/ Covered(p, s, sent[s][heard[p[1]][s][i]], Len(link[p])))'
    <3> SUFFICES ASSUME s # p[1], NEW i \in 1..Len(heard[p[1]][s]),
                        relay'[p[1]] # [from |-> s, id |-> heard[p[1]][s][i]],
                        NEW t, NEW l, t = sent[s][heard[p[1]][s][i]], l = Len(link'[p])
                 PROVE  Covered(p, s, t, l)'
      BY <1>2 DEF Covered
    <3> QED
      BY <2>3
  <2> QED
    BY <2>4, <2>5 DEF Offered
<1> QED
  BY <1>10, <1>11, <1>12, <1>14, <1>15

(* Receiving a message, accepted or not, leaves the others as they are and *)
(* every link with what it has to offer.                                   *)
LEMMA ReceiveKeeps ==
  ASSUME TypeOK, Known, Behind, UNCHANGED sent,
         NEW q \in Pairs, link[q] # <<>>, link' = [link EXCEPT ![q] = Tail(@)],
         \A n, s \in Nodes : node_times'[n][s] \in Nat /\ node_times[n][s] <= node_times'[n][s],
         link[q][1].from # q[2] => Time(link[q][1]) <= node_times'[q[2]][link[q][1].from]
  PROVE  /\ \A p \in Pairs : \A i \in 1..Len(link'[p]) :
              link'[p][i].id <= Len(sent[link'[p][i].from])
         /\ Behind'
         /\ \A p \in Pairs : \A s \in Nodes \ {p[2]} : \A t \in Nat : \A l :
              Covered(p, s, t, Len(link[p])) /\ l = Len(link'[p]) => Covered(p, s, t, l)'
<1>1. \A p \in Pairs : Len(link[p]) \in Nat /\ Len(link'[p]) \in Nat
  BY ReceiveDrops DEF TypeOK
<1>2. /\ Len(link'[q]) = Len(link[q]) - 1
      /\ \A i \in 1..Len(link'[q]) : link'[q][i] = link[q][i + 1] /\ i + 1 \in 1..Len(link[q])
      /\ \A p \in Pairs : p # q => link'[p] = link[p]
  <2>1. /\ Len(link'[q]) = Len(link[q]) - 1
        /\ \A i \in 1..Len(link'[q]) : link'[q][i] = link[q][i + 1]
        /\ \A p \in Pairs : p # q => link'[p] = link[p]
    BY ReceiveDrops
  <2>2. \A i \in 1..Len(link'[q]) : i + 1 \in 1..Len(link[q])
    BY <1>1, <2>1
  <2> QED
    BY <2>1, <2>2
<1>3. ASSUME NEW p \in Pairs, NEW i \in 1..Len(link'[p])
      PROVE  link'[p][i].id <= Len(sent[link'[p][i].from])
  <2>1. PICK j \in 1..Len(link[p]) : link'[p][i] = link[p][j]
    BY <1>2
  <2>2. link[p][j].id <= Len(sent[link[p][j].from])
    BY DEF Known
  <2> QED
    BY <2>1, <2>2
<1>4. ASSUME NEW p \in Pairs, NEW s \in Nodes \ {p[2]}, NEW t \in Nat, NEW k \in 0..Len(link[p]),
             Covered(p, s, t, k)
      PROVE  /\ p # q => Covered(p, s, t, k)'
             /\ p = q => \A l \in Nat : l >= k - 1 => Covered(p, s, t, l)'
  <2>1. /\ node_times'[p[2]][s] \in Nat /\ node_times[p[2]][s] <= node_times'[p[2]][s]
        /\ (p = q /\ s = link[q][1].from) => Time(link[q][1]) <= node_times'[p[2]][s]
    BY LinkedNodesDiffer
  <2> QED
    BY <1>4, <2>1, CoveredMoves
<1>5. Behind'
  <2> SUFFICES ASSUME NEW p \in Pairs, NEW i \in 1..Len(link'[p]) PROVE BehindAt(p, i)'
    BY DEF Behind
  <2> SUFFICES ASSUME NEW s, NEW k, NEW t, NEW l,
                      s = link'[p][i].from, s # p[2], k \in 1..link'[p][i].id - 1,
                      t = sent'[s][k], l = i - 1
               PROVE  Covered(p, s, t, l)'
    BY DEF BehindAt, Covered
  <2>1. PICK j \in 1..Len(link[p]) : link'[p][i] = link[p][j] /\ (IF p = q THEN j = i + 1 ELSE j = i)
    BY <1>1, <1>2
  <2>2. s \in Nodes \ {p[2]} /\ s = link[p][j].from /\ link[p][j].id \in 1..Len(sent[s])
    BY <2>1, OnLink
  <2>3. Len(sent[s]) \in Nat
    BY <2>2, OnRecord
  <2>4. k \in 1..Len(sent[s]) /\ k \in 1..link[p][j].id - 1
    BY <2>1, <2>2, <2>3
  <2>5. t = sent[s][k] /\ t \in Nat
    BY <2>2, <2>4, OnRecord
  <2>6. Covered(p, s, t, j - 1)
    BY <2>2, <2>4, <2>5 DEF Behind, BehindAt
  <2>7. j - 1 \in 0..Len(link[p]) /\ l \in Nat /\ (IF p = q THEN l >= (j - 1) - 1 ELSE l = j - 1)
    BY <1>1, <2>1
  <2> QED
    BY <1>4, <2>2, <2>5, <2>6, <2>7
<1>6. ASSUME NEW p \in Pairs, NEW s \in Nodes \ {p[2]}, NEW t \in Nat,
             NEW l, Covered(p, s, t, Len(link[p])), l = Len(link'[p])
      PROVE  Covered(p, s, t, l)'
  <2>1. Len(link[p]) \in 0..Len(link[p]) /\ l \in Nat /\ (IF p = q THEN l >= Len(link[p]) - 1 ELSE l = Len(link[p]))
    BY <1>1, <1>2, <1>6
  <2> QED
    BY <1>4, <1>6, <2>1
<1> QED
  BY <1>3, <1>5, <1>6

LEMMA RejectKeeps ==
  ASSUME TypeOK, Consistent, NEW q \in Pairs, Reject(q)
  PROVE  Consistent'
<1> USE DEF Consistent
<1>1. /\ UNCHANGED <<sent, node_times, relay, heard>>
      /\ link[q] # <<>> /\ link' = [link EXCEPT ![q] = Tail(@)]
  BY DEF Reject
<1>2. link[q][1].from # q[2] => Time(link[q][1]) <= node_times'[q[2]][link[q][1].from]
  <2>1. Head(link[q]) = link[q][1] /\ Len(link[q]) \in Nat /\ Len(link[q]) > 0
    BY <1>1, ReceiveDrops
  <2>2. link[q][1].from \in Nodes /\ Time(link[q][1]) \in Nat
    <3>1. 1 \in 1..Len(link[q])
      BY <2>1
    <3> QED
      BY <3>1, OnLink
  <2>3. node_times[q[2]][link[q][1].from] \in Nat
    BY <2>2, LinkedNodesDiffer, OnRecord
  <2>4. link[q][1].from # q[2] => ~(Time(link[q][1]) > node_times[q[2]][link[q][1].from])
    BY <2>1 DEF Reject, Valid
  <2> QED
    BY <1>1, <2>2, <2>3, <2>4
<1>3. \A n, s \in Nodes : node_times'[n][s] \in Nat /\ node_times[n][s] <= node_times'[n][s]
  BY <1>1, OnRecord
<1>4. /\ \A p \in Pairs : \A i \in 1..Len(link'[p]) :
           link'[p][i].id <= Len(sent[link'[p][i].from])
      /\ Behind'
      /\ \A p \in Pairs : \A s \in Nodes \ {p[2]} : \A t \in Nat : \A l :
           Covered(p, s, t, Len(link[p])) /\ l = Len(link'[p]) => Covered(p, s, t, l)'
  BY <1>1, <1>2, <1>3, ReceiveKeeps
<1>5. Known' /\ TimesMatch'
  BY <1>1, <1>4 DEF Known, TimesMatch
<1>6. Rising' /\ Dominated' /\ NoGaps'
  <2>1. SentStays
    BY <1>1 DEF SentStays, TypeOK
  <2> QED
    BY <1>1, <2>1, HistoryStays
<1>7. Offered'
  <2>1. ASSUME NEW p \in Pairs, NEW s \in Nodes \ {p[2]}
        PROVE  (s = p[1] => \A k \in 1..Len(sent[s]) : Covered(p, s, sent[s][k], Len(link[p])))'
    <3> SUFFICES ASSUME s = p[1], NEW k \in 1..Len(sent[s]), NEW t, NEW l, t = sent[s][k], l = Len(link'[p])
                 PROVE  Covered(p, s, t, l)'
      BY <1>1 DEF Covered
    <3> QED
      BY <1>4, OnRecord DEF Offered
  <2>2. ASSUME NEW p \in Pairs, NEW s \in Nodes \ {p[2]}
        PROVE  (s # p[1] => \A i \in 1..Len(heard[p[1]][s]) :
                  \/ relay[p[1]] = [from |-> s, id |-> heard[p[1]][s][i]]
                  \/ Covered(p, s, sent[s][heard[p[1]][s][i]], Len(link[p])))'
    <3> SUFFICES ASSUME s # p[1], NEW i \in 1..Len(heard[p[1]][s]),
                        relay[p[1]] # [from |-> s, id |-> heard[p[1]][s][i]],
                        NEW t, NEW l, t = sent[s][heard[p[1]][s][i]], l = Len(link'[p])
                 PROVE  Covered(p, s, t, l)'
      BY <1>1 DEF Covered
    <3>1. Covered(p, s, t, Len(link[p]))
      BY DEF Offered
    <3>2. t \in Nat
      BY LinkedNodesDiffer, OnRecord
    <3> QED
      BY <1>4, <3>1, <3>2
  <2> QED
    BY <2>1, <2>2 DEF Offered
<1> QED
  BY <1>4, <1>5, <1>6, <1>7

LEMMA AcceptKeeps ==
  ASSUME TypeOK, Consistent, NEW q \in Pairs, Accept(q)
  PROVE  Consistent'
<1> USE DEF Consistent
<1>1. PICK m : m = Head(link[q])
  OBVIOUS
<1>2. PICK b, c \in Nodes : b = q[2] /\ c = m.from
  BY <1>1, AcceptTakes, LinkedNodesDiffer
<1>3. /\ m \in Message /\ m = link[q][1] /\ c # b
      /\ m.id \in 1..Len(sent[c]) /\ m.id \in Nat
      /\ sent[c][m.id] \in Nat /\ sent[c][m.id] > node_times[b][c]
      /\ relay[b] = None /\ relay' = [relay EXCEPT ![b] = m]
      /\ link[q] # <<>> /\ link' = [link EXCEPT ![q] = Tail(@)] /\ sent' = sent
  BY <1>1, <1>2, AcceptTakes
<1>4. PICK list : list = heard[b][c]
  OBVIOUS
<1>5. PICK L \in Nat : L = Len(list)
  BY <1>4, OnRecord
<1>6. /\ heard'[b][c] = Append(list, m.id) /\ node_times'[b][c] = sent[c][m.id]
      /\ list \in Seq(Nat)
  <2>1. Known
    OBVIOUS
  <2> HIDE DEF Consistent
  <2>2. heard' = [heard EXCEPT ![b][c] = Append(@, m.id)]
    BY <1>1, <1>2, <2>1, AcceptTakes
  <2>3. node_times' = [node_times EXCEPT ![b][c] = sent[c][m.id]]
    BY <1>1, <1>2, <2>1, AcceptTakes
  <2>4. heard \in [Nodes -> [Nodes -> Seq(Nat)]] /\ node_times \in [Nodes -> [Nodes -> Nat]]
    BY DEF TypeOK
  <2>5. heard'[b][c] = Append(heard[b][c], m.id)
    BY <2>2, <2>4
  <2>6. node_times'[b][c] = sent[c][m.id]
    BY <2>3, <2>4
  <2>7. heard[b][c] \in Seq(Nat)
    BY <2>4
  <2> QED
    BY <1>4, <2>5, <2>6, <2>7
<1>7. ASSUME NEW n \in Nodes, NEW s \in Nodes, n # b \/ s # c
      PROVE  heard'[n][s] = heard[n][s] /\ node_times'[n][s] = node_times[n][s]
  BY <1>1, <1>2, <1>7, AcceptRecords
<1>8. /\ Len(heard'[b][c]) = L + 1 /\ heard'[b][c][L + 1] = m.id
      /\ \A i \in 1..L : heard'[b][c][i] = list[i]
  BY <1>3, <1>5, <1>6
<1>9. \A n, s \in Nodes : node_times'[n][s] \in Nat /\ node_times[n][s] <= node_times'[n][s]
  <2> SUFFICES ASSUME NEW n \in Nodes, NEW s \in Nodes
               PROVE  node_times'[n][s] \in Nat /\ node_times[n][s] <= node_times'[n][s]
    OBVIOUS
  <2>1. node_times[n][s] \in Nat
    BY OnRecord
  <2>2. CASE n = b /\ s = c
    BY <1>3, <1>6, <2>1, <2>2
  <2>3. CASE n # b \/ s # c
    BY <1>7, <2>1, <2>3
  <2> QED
    BY <2>2, <2>3
<1>10. /\ \A p \in Pairs : \A i \in 1..Len(link'[p]) :
            link'[p][i].id <= Len(sent[link'[p][i].from])
       /\ Behind'
       /\ \A p \in Pairs : \A s \in Nodes \ {p[2]} : \A t \in Nat : \A l :
            Covered(p, s, t, Len(link[p])) /\ l = Len(link'[p]) => Covered(p, s, t, l)'
  <2>1. Time(link[q][1]) <= node_times'[q[2]][link[q][1].from]
    BY <1>2, <1>3, <1>6 DEF Time
  <2> QED
    BY <1>3, <1>9, <2>1, ReceiveKeeps
<1>11. Known'
  <2>1. ASSUME NEW n \in Nodes, NEW s \in Nodes, NEW i \in 1..Len(heard'[n][s])
        PROVE  heard'[n][s][i] \in 1..Len(sent[s])
    <3>1. CASE n = b /\ s = c /\ i = L + 1
      BY <1>3, <1>8, <3>1
    <3>2. CASE n = b /\ s = c /\ i # L + 1
      <4>1. i \in 1..L
        BY <1>8, <3>2
      <4> QED
        BY <1>4, <1>5, <1>8, <3>2, <4>1, OnRecord
    <3>3. CASE n # b \/ s # c
      BY <1>7, <3>3, OnRecord
    <3> QED
      BY <3>1, <3>2, <3>3
  <2>2. ASSUME NEW n \in Nodes, relay'[n] # None
        PROVE  /\ relay'[n].from # n
               /\ Len(heard'[n][relay'[n].from]) > 0
               /\ relay'[n].id = heard'[n][relay'[n].from][Len(heard'[n][relay'[n].from])]
    <3>1. CASE n = b
      <4>1. relay'[n] = m
        BY <1>3, <3>1 DEF TypeOK
      <4> QED
        BY <1>2, <1>3, <1>8, <3>1, <4>1
    <3>2. CASE n # b
      <4>1. relay'[n] = relay[n]
        BY <1>3, <3>2 DEF TypeOK
      <4>2. relay[n].from \in Nodes
        BY <2>2, <4>1 DEF TypeOK, Message
      <4>3. heard'[n][relay[n].from] = heard[n][relay[n].from]
        BY <1>7, <3>2, <4>2
      <4> QED
        BY <2>2, <4>1, <4>3 DEF Known
    <3> QED
      BY <3>1, <3>2
  <2> QED
    BY <1>3, <1>10, <2>1, <2>2 DEF Known
<1>12. TimesMatch'
  <2>1. ASSUME NEW n \in Nodes, NEW s \in Nodes
        PROVE  node_times'[n][s] =
                 IF Len(heard'[n][s]) = 0 THEN 0 ELSE sent[s][heard'[n][s][Len(heard'[n][s])]]
    <3>1. CASE n = b /\ s = c
      BY <1>6, <1>8, <3>1
    <3>2. CASE n # b \/ s # c
      BY <1>7, <3>2 DEF TimesMatch
    <3> QED
      BY <3>1, <3>2
  <2> QED
    BY <1>3, <2>1 DEF TimesMatch
<1>13. Rising' /\ Dominated' /\ NoGaps'
  BY HistoryGrows
<1>14. Offered'
  <2>1. ASSUME NEW p \in Pairs, NEW s \in Nodes \ {p[2]}
        PROVE  (s = p[1] => \A k \in 1..Len(sent[s]) : Covered(p, s, sent[s][k], Len(link[p])))'
    <3> SUFFICES ASSUME s = p[1], NEW k \in 1..Len(sent'[s]), NEW t, NEW l, t = sent'[s][k], l = Len(link'[p])
                 PROVE  Covered(p, s, t, l)'
      BY DEF Covered
    <3> QED
      BY <1>3, <1>10, OnRecord DEF Offered
  <2>2. ASSUME NEW p \in Pairs, NEW s \in Nodes \ {p[2]}
        PROVE  (s # p[1] => \A i \in 1..Len(heard[p[1]][s]) :
                  \/ relay[p[1]] = [from |-> s, id |-> heard[p[1]][s][i]]
                  \/ Covered(p, s, sent[s][heard[p[1]][s][i]], Len(link[p])))'
    <3> SUFFICES ASSUME s # p[1], NEW i \in 1..Len(heard'[p[1]][s]),
                        relay'[p[1]] # [from |-> s, id |-> heard'[p[1]][s][i]],
                        NEW t, NEW l, t = sent'[s][heard'[p[1]][s][i]], l = Len(link'[p])
                 PROVE  Covered(p, s, t, l)'
      BY DEF Covered
    <3>1. PICK n \in Nodes : n = p[1]
      BY LinkedNodesDiffer
    <3>2. ~(n = b /\ s = c /\ i = L + 1)
      <4> SUFFICES ASSUME n = b, s = c, i = L + 1 PROVE FALSE
        OBVIOUS
      <4>1. relay'[n] = m
        BY <1>3 DEF TypeOK
      <4>2. m = [from |-> s, id |-> heard'[n][s][i]]
        BY <1>2, <1>3, <1>8 DEF Message
      <4> QED
        BY <3>1, <4>1, <4>2
    <3>3. i \in 1..Len(heard[n][s]) /\ heard'[n][s][i] = heard[n][s][i]
      <4>1. CASE n = b /\ s = c
        BY <1>4, <1>5, <1>8, <3>1, <3>2, <4>1
      <4>2. CASE n # b \/ s # c
        BY <1>7, <3>1, <4>2
      <4> QED
        BY <4>1, <4>2
    <3>4. relay[n] # [from |-> s, id |-> heard[n][s][i]]
      <4>1. CASE n = b
        <5>1. [from |-> s, id |-> heard[n][s][i]] \in [from : Nodes, id : Nat \ {0}]
          BY <3>3, OnRecord
        <5> QED
          BY <1>3, <4>1, <5>1, GossipAssumption
      <4>2. CASE n # b
        BY <1>3, <3>1, <3>3, <4>2 DEF TypeOK
      <4> QED
        BY <4>1, <4>2
    <3>5. t = sent[s][heard[n][s][i]] /\ t \in Nat
      BY <1>3, <3>1, <3>3, OnRecord
    <3>6. Covered(p, s, t, Len(link[p]))
      BY <3>1, <3>3, <3>4, <3>5 DEF Offered
    <3> QED
      BY <1>10, <3>5, <3>6
  <2> QED
    BY <2>1, <2>2 DEF Offered
<1> QED
  BY <1>10, <1>11, <1>12, <1>13, <1>14

-----------------------------------------------------------------------------
(* The nodes implement ForwardingNode.                                     *)

(* What was broadcast was sent by somebody, at a time the clocks show. *)
Stamped ==
  /\ \A n \in Nodes : \A i \in 1..Len(air[n]) : air[n][i].id <= Len(sent[air[n][i].from])
  /\ \A s \in Nodes : \A i \in 1..Len(sent[s]) : sent[s][i] \in 1..MaxTime

(* A message that was sent keeps its stamp. *)
LEMMA StampStays ==
  ASSUME TypeOK, SentStays, NEW m \in Message, m.id <= Len(sent[m.from])
  PROVE  Stamp(m)' = Stamp(m) /\ m.id \in 1..Len(sent[m.from]) /\ m.id <= Len(sent'[m.from])
<1>1. m.from \in Nodes /\ m.id \in Nat \ {0}
  BY DEF Message
<1>2. sent[m.from] \in Seq(Nat)
  BY <1>1 DEF TypeOK
<1>3. m.id \in 1..Len(sent[m.from])
  BY <1>1, <1>2
<1>4. sent'[m.from][m.id] = sent[m.from][m.id] /\ m.id \in 1..Len(sent'[m.from])
  BY <1>1, <1>3 DEF SentStays
<1> QED
  BY <1>3, <1>4 DEF Stamp, Time

(* The stamp of a sent message is one of ForwardingNode's. *)
LEMMA StampTyped ==
  ASSUME TypeOK, Stamped, NEW m \in Message, m.id <= Len(sent[m.from])
  PROVE  Stamp(m) = [from |-> m.from, time |-> sent[m.from][m.id]]
         /\ m.from \in Nodes /\ sent[m.from][m.id] \in 1..MaxTime
<1>1. m.from \in Nodes /\ m.id \in Nat \ {0}
  BY DEF Message
<1>2. sent[m.from] \in Seq(Nat)
  BY <1>1 DEF TypeOK
<1>3. m.id \in 1..Len(sent[m.from])
  BY <1>1, <1>2
<1> QED
  BY <1>1, <1>3 DEF Stamped, Stamp, Time

LEMMA AcceptedSent ==
  ASSUME TypeOK, Known, NEW n \in Nodes, NEW s \in Nodes, NEW m \in Accepted(n, s)
  PROVE  m \in Message /\ m.id <= Len(sent[m.from])
<1>1. PICK i \in 1..Len(heard[n][s]) : m = [from |-> s, id |-> heard[n][s][i]]
  BY DEF Accepted
<1>2. heard[n][s][i] \in 1..Len(sent[s])
  BY DEF Known
<1>3. Len(sent[s]) \in Nat
  BY DEF TypeOK
<1> QED
  BY <1>1, <1>2, <1>3 DEF Message

LEMMA RelayedSent ==
  ASSUME TypeOK, Known, NEW n \in Nodes, relay[n] # None
  PROVE  relay[n] \in Message /\ relay[n].from # n /\ relay[n].id <= Len(sent[relay[n].from])
<1>1. PICK m \in Message : m = relay[n]
  BY DEF TypeOK
<1>2. m.from \in Nodes
  BY DEF Message
<1>3. /\ m.from # n /\ Len(heard[n][m.from]) > 0
      /\ m.id = heard[n][m.from][Len(heard[n][m.from])]
  BY <1>1 DEF Known
<1>4. Len(heard[n][m.from]) \in 1..Len(heard[n][m.from])
  BY <1>2, <1>3, OnRecord
<1>5. m.id \in 1..Len(sent[m.from]) /\ Len(sent[m.from]) \in Nat
  BY <1>2, <1>3, <1>4, OnRecord
<1> QED
  BY <1>1, <1>3, <1>5

(* A node that accepts nothing, forwards nothing and broadcasts nothing    *)
(* sees the same as before, whatever others send.                          *)
LEMMA ViewStays ==
  ASSUME TypeOK, Known, Stamped, SentStays, NEW n \in Nodes
  PROVE  /\ heard'[n] = heard[n] => Taken(n)' = Taken(n)
         /\ relay'[n] = relay[n] => Waiting(n)' = Waiting(n)
         /\ air'[n] = air[n] => Aired(n)' = Aired(n)
<1>1. ASSUME heard'[n] = heard[n] PROVE Taken(n)' = Taken(n)
  <2>1. \A s \in Nodes : Accepted(n, s)' = Accepted(n, s)
    BY <1>1 DEF Accepted
  <2>2. PICK U : U = UNION {Accepted(n, s) : s \in Nodes}
    OBVIOUS
  <2>3. UNION {Accepted(n, s) : s \in Nodes}' = U
    BY <2>1, <2>2
  <2>4. \A m \in U : Stamp(m)' = Stamp(m)
    BY <2>2, AcceptedSent, StampStays
  <2>5. Taken(n) = {Stamp(m) : m \in U} /\ Taken(n)' = {Stamp(m)' : m \in U}
    BY <2>2, <2>3 DEF Taken
  <2> QED
    BY <2>4, <2>5
<1>2. ASSUME relay'[n] = relay[n] PROVE Waiting(n)' = Waiting(n)
  <2>1. ASSUME NEW m, m = relay[n], m # None PROVE Stamp(m)' = Stamp(m)
    <3>1. m \in Message
      BY <2>1 DEF TypeOK
    <3>2. m.id <= Len(sent[m.from])
      BY <2>1, <3>1, RelayedSent
    <3> QED
      BY <3>1, <3>2, StampStays
  <2> QED
    BY <1>2, <2>1 DEF Waiting
<1>3. ASSUME air'[n] = air[n] PROVE Aired(n)' = Aired(n)
  <2>1. \A i \in 1..Len(air[n]) : Stamp(air[n][i])' = Stamp(air[n][i])
    <3> SUFFICES ASSUME NEW i \in 1..Len(air[n]) PROVE Stamp(air[n][i])' = Stamp(air[n][i])
      OBVIOUS
    <3>1. PICK m \in Message : m = air[n][i]
      BY DEF TypeOK
    <3>2. m.id <= Len(sent[m.from])
      BY <3>1 DEF Stamped
    <3>3. Stamp(m)' = Stamp(m)
      BY <3>2, StampStays
    <3> QED
      BY <1>3, <3>1, <3>3 DEF Stamp, Time
  <2> QED
    BY <1>3, <2>1 DEF Aired
<1> QED
  BY <1>1, <1>2, <1>3

LEMMA SentGrows ==
  ASSUME TypeOK, [Next]_vars
  PROVE  SentStays
<1>1. sent \in [Nodes -> Seq(Nat)]
  BY DEF TypeOK
<1>2. CASE sent' = sent
  BY <1>1, <1>2 DEF SentStays
<1>3. ASSUME NEW n \in Senders, Originate(n) PROVE SentStays
  <2>1. n \in Nodes
    BY GossipAssumption
  <2>2. /\ sent' \in [Nodes -> Seq(Nat)] /\ Len(sent'[n]) = Len(sent[n]) + 1
        /\ \A s \in Nodes : /\ \A i \in 1..Len(sent[s]) : sent'[s][i] = sent[s][i]
                            /\ s # n => sent'[s] = sent[s]
    BY <1>3, <2>1, OriginateSends
  <2>3. \A s \in Nodes : Len(sent[s]) \in Nat /\ Len(sent'[s]) \in Nat
    BY <1>1, <2>2
  <2>4. \A s \in Nodes : Len(sent'[s]) >= Len(sent[s])
    BY <2>1, <2>2, <2>3
  <2> QED
    BY <2>2, <2>3, <2>4 DEF SentStays
<1> QED
  BY <1>2, <1>3 DEF Next, Forward, Reject, Accept, AtRest, vars

LEMMA StampedStep ==
  ASSUME TypeOK, Known, Stamped, [Next]_vars
  PROVE  Stamped'
<1>1. SentStays
  BY SentGrows
<1>2. ASSUME NEW n \in Nodes, NEW m \in Message, air' = [air EXCEPT ![n] = Append(@, m)],
             m.id <= Len(sent'[m.from])
      PROVE  \A k \in Nodes : \A i \in 1..Len(air'[k]) : air'[k][i].id <= Len(sent'[air'[k][i].from])
  <2> SUFFICES ASSUME NEW k \in Nodes, NEW i \in 1..Len(air'[k])
               PROVE  air'[k][i].id <= Len(sent'[air'[k][i].from])
    OBVIOUS
  <2>1. PICK list \in Seq(Message) : list = air[k]
    BY DEF TypeOK
  <2>2. air'[k] = IF k = n THEN Append(list, m) ELSE list
    BY <1>2, <2>1 DEF TypeOK
  <2>3. CASE i \in 1..Len(list)
    <3>1. PICK x \in Message : x = list[i] /\ x.id <= Len(sent[x.from])
      BY <2>1, <2>3 DEF Stamped
    <3>2. x.id <= Len(sent'[x.from])
      BY <1>1, <3>1, StampStays
    <3>3. air'[k][i] = x
      BY <2>2, <2>3, <3>1
    <3> QED
      BY <3>2, <3>3
  <2>4. CASE i \notin 1..Len(list)
    <3>1. air'[k][i] = m
      BY <2>1, <2>2, <2>4
    <3> QED
      BY <1>2, <3>1
  <2> QED
    BY <2>3, <2>4
<1>3. CASE sent' = sent /\ air' = air
  BY <1>3 DEF Stamped
<1>4. ASSUME NEW n \in Senders, Originate(n) PROVE Stamped'
  <2>1. n \in Nodes
    BY GossipAssumption
  <2>2. PICK t \in 1..MaxTime : sent' = [sent EXCEPT ![n] = Append(@, t)]
    BY <1>4 DEF Originate
  <2>3. PICK l \in Nat : l = Len(sent[n])
    BY <2>1 DEF TypeOK
  <2>4. sent'[n] = Append(sent[n], t) /\ Len(sent'[n]) = l + 1 /\ sent'[n][l + 1] = t
        /\ \A i \in 1..l : sent'[n][i] = sent[n][i]
    BY <2>1, <2>2, <2>3 DEF TypeOK
  <2>5. \A s \in Nodes : s # n => sent'[s] = sent[s]
    BY <2>1, <2>2 DEF TypeOK
  <2>6. \A i \in 1..l + 1 : i \in 1..l \/ i = l + 1
    OBVIOUS
  <2>7. \A s \in Nodes : \A i \in 1..Len(sent'[s]) : sent'[s][i] \in 1..MaxTime
    BY <2>3, <2>4, <2>5, <2>6 DEF Stamped
  <2>8. PICK m \in Message : m = [from |-> n, id |-> l + 1]
    <3>1. l + 1 \in Nat \ {0}
      OBVIOUS
    <3>2. [from |-> n, id |-> l + 1] \in Message
      BY <2>1, <3>1 DEF Message
    <3> QED
      BY <3>2
  <2>9. air' = [air EXCEPT ![n] = Append(@, m)] /\ m.id <= Len(sent'[m.from])
    BY <1>4, <2>3, <2>4, <2>8 DEF Originate, Broadcast
  <2> QED
    BY <1>2, <2>1, <2>7, <2>9 DEF Stamped
<1>5. ASSUME NEW n \in Nodes, Forward(n) PROVE Stamped'
  <2>1. relay[n] # None /\ air' = [air EXCEPT ![n] = Append(@, relay[n])] /\ sent' = sent
    BY <1>5 DEF Forward, Broadcast
  <2>2. PICK m \in Message : m = relay[n] /\ m.id <= Len(sent[m.from])
    BY <2>1, RelayedSent
  <2>3. m.id <= Len(sent'[m.from])
    BY <2>1, <2>2
  <2> QED
    BY <1>2, <2>1, <2>2, <2>3 DEF Stamped
<1> QED
  BY <1>3, <1>4, <1>5 DEF Next, Reject, Accept, AtRest, vars

(* A broadcast appends to what the node has broadcast, as it sees it. *)
LEMMA AiredGrows ==
  ASSUME TypeOK, Stamped, SentStays, NEW n \in Nodes, NEW m \in Message,
         air'[n] = Append(air[n], m)
  PROVE  Aired(n)' = Append(Aired(n), Stamp(m)')
<1>1. PICK list \in Seq(Message) : list = air[n]
  BY DEF TypeOK
<1>2. PICK l \in Nat : l = Len(list)
  OBVIOUS
<1>3. /\ Len(air'[n]) = l + 1 /\ air'[n][l + 1] = m
      /\ \A i \in 1..l : air'[n][i] = list[i]
  BY <1>1, <1>2
<1>4. ASSUME NEW i \in 1..l PROVE Stamp(air[n][i])' = Stamp(list[i])
  <2>1. PICK x \in Message : x = list[i]
    BY <1>1, <1>2
  <2>2. x.id <= Len(sent[x.from])
    BY <1>1, <1>2, <2>1 DEF Stamped
  <2>3. Stamp(x)' = Stamp(x)
    BY <2>2, StampStays
  <2>4. air'[n][i] = x
    BY <1>3, <2>1
  <2> QED
    BY <2>1, <2>3, <2>4 DEF Stamp, Time
<1>5. PICK u : u = Stamp(m)'
  OBVIOUS
<1>6. Stamp(air[n][l + 1])' = u
  BY <1>2, <1>3, <1>5 DEF Stamp, Time
<1>7. PICK f : f = [i \in 1..l |-> Stamp(list[i])]
  OBVIOUS
<1>8. Aired(n) = f
  BY <1>1, <1>2, <1>7 DEF Aired
<1>9. Aired(n)' = [i \in 1..l + 1 |-> Stamp(air[n][i])']
  BY <1>3 DEF Aired
<1>10. ASSUME NEW i \in 1..l + 1
       PROVE  Stamp(air[n][i])' = IF i \in 1..l THEN f[i] ELSE u
  <2>1. CASE i \in 1..l
    BY <1>4, <1>7, <2>1
  <2>2. CASE i \notin 1..l
    <3>1. i = l + 1
      BY <2>2
    <3> QED
      BY <1>6, <2>2, <3>1
  <2> QED
    BY <2>1, <2>2
<1>11. Append(f, u) = [i \in 1..l + 1 |-> IF i \in 1..l THEN f[i] ELSE u]
  <2>1. PICK S : S = {f[i] : i \in 1..l} \cup {u}
    OBVIOUS
  <2>2. f \in Seq(S) /\ Len(f) = l /\ u \in S
    BY <1>7, <2>1
  <2>3. PICK g : g = Append(f, u)
    OBVIOUS
  <2>4. Len(g) = l + 1 /\ g[l + 1] = u /\ \A i \in 1..l : g[i] = f[i]
    BY <2>2, <2>3, AppendProperties
  <2>5. g = [i \in 1..l + 1 |-> g[i]]
    <3>1. g \in Seq(S)
      BY <2>2, <2>3, AppendProperties
    <3>2. g \in [1..l + 1 -> S]
      BY <2>4, <3>1, LenProperties
    <3> QED
      BY <3>2
  <2>6. \A i \in 1..l + 1 : g[i] = IF i \in 1..l THEN f[i] ELSE u
    BY <2>4
  <2> QED
    BY <2>3, <2>5, <2>6
<1> QED
  BY <1>5, <1>8, <1>9, <1>10, <1>11

(* A node that originates a message sends one of its own. *)
LEMMA OriginateRefines ==
  ASSUME TypeOK, Known, Stamped, NEW n \in Senders, Originate(n), [Next]_vars
  PROVE  Node(n)!AbsNext
<1>0. n \in Nodes
  BY GossipAssumption
<1>1. SentStays /\ heard' = heard /\ relay' = relay
  BY SentGrows DEF Originate
<1>2. PICK t \in 1..MaxTime : sent' = [sent EXCEPT ![n] = Append(@, t)]
  BY DEF Originate
<1>3. PICK l \in Nat : l = Len(sent[n])
  BY <1>0 DEF TypeOK
<1>4. sent'[n][l + 1] = t
  BY <1>0, <1>2, <1>3 DEF TypeOK
<1>5. PICK m \in Message : m = [from |-> n, id |-> l + 1]
  <2>1. l + 1 \in Nat \ {0}
    OBVIOUS
  <2>2. [from |-> n, id |-> l + 1] \in Message
    BY <1>0, <2>1 DEF Message
  <2> QED
    BY <2>2
<1>6. air'[n] = Append(air[n], m)
  BY <1>0, <1>3, <1>5 DEF Originate, Broadcast, TypeOK
<1>7. Stamp(m)' = [from |-> n, time |-> t]
  BY <1>4, <1>5 DEF Stamp, Time
<1>8. Aired(n)' = Append(Aired(n), [from |-> n, time |-> t])
  BY <1>0, <1>1, <1>6, <1>7, AiredGrows
<1>9. Taken(n)' = Taken(n) /\ Waiting(n)' = Waiting(n)
  BY <1>0, <1>1, ViewStays
<1>10. Node(n)!SendOwn(t)
  BY <1>8, <1>9 DEF Node!SendOwn
<1> QED
  BY <1>10 DEF Node!AbsNext

(* A node that forwards passes on the message that waits. *)
LEMMA ForwardRefines ==
  ASSUME TypeOK, Known, Stamped, NEW n \in Nodes, Forward(n), [Next]_vars
  PROVE  Node(n)!AbsNext
<1>1. /\ SentStays /\ heard' = heard /\ sent' = sent
      /\ relay[n] # None /\ relay' = [relay EXCEPT ![n] = None]
      /\ air' = [air EXCEPT ![n] = Append(@, relay[n])]
  BY SentGrows DEF Forward, Broadcast
<1>2. PICK m \in Message : m = relay[n] /\ m.from # n /\ m.id <= Len(sent[m.from])
  BY <1>1, RelayedSent
<1>3. Stamp(m)' = Stamp(m)
  BY <1>1, <1>2, StampStays
<1>4. air'[n] = Append(air[n], m)
  BY <1>1, <1>2 DEF TypeOK
<1>5. Aired(n)' = Append(Aired(n), Stamp(m))
  BY <1>1, <1>3, <1>4, AiredGrows
<1>6. Taken(n)' = Taken(n)
  BY <1>1, ViewStays
<1>7. Waiting(n) = {Stamp(m)}
  BY <1>1, <1>2 DEF Waiting
<1>8. relay'[n] = None
  BY <1>1 DEF TypeOK
<1>9. Waiting(n)' = {}
  BY <1>8 DEF Waiting
<1>10. Stamp(m) \in Node(n)!Message
  BY <1>2, StampTyped DEF Node!Message
<1>11. Node(n)!PassOn(Stamp(m))
  BY <1>5, <1>6, <1>7, <1>9 DEF Node!PassOn
<1> QED
  BY <1>10, <1>11 DEF Node!AbsNext

(* A node that accepts receives: by Rising and TimesMatch the message is   *)
(* younger than all it took of its sender.                                 *)
LEMMA AcceptRefines ==
  ASSUME TypeOK, Consistent, Stamped, NEW q \in Pairs, Accept(q), [Next]_vars
  PROVE  Node(q[2])!AbsNext
<1>0. Known /\ TimesMatch /\ Rising
  BY DEF Consistent
<1>1. PICK n \in Nodes : n = q[2]
  BY LinkedNodesDiffer
<1>2. PICK m : m = Head(link[q])
  OBVIOUS
<1>3. /\ m \in Message /\ m.from \in Nodes /\ m.from # n
      /\ m.id \in 1..Len(sent[m.from]) /\ m.id \in Nat
      /\ sent[m.from][m.id] \in Nat
      /\ sent[m.from][m.id] > node_times[n][m.from]
      /\ relay[n] = None /\ relay' = [relay EXCEPT ![n] = m]
      /\ UNCHANGED <<sent, air>>
  BY <1>0, <1>1, <1>2, AcceptTakes
<1>4. SentStays
  BY SentGrows
<1>5. m.id <= Len(sent[m.from])
  BY <1>3
<1>6. Stamp(m)' = Stamp(m)
  BY <1>3, <1>4, <1>5, StampStays
<1>7. Stamp(m) = [from |-> m.from, time |-> sent[m.from][m.id]]
      /\ sent[m.from][m.id] \in 1..MaxTime
  BY <1>3, <1>5, StampTyped
<1>8. Aired(n)' = Aired(n)
  BY <1>0, <1>3, <1>4, ViewStays
<1>9. Waiting(n) = {}
  BY <1>3 DEF Waiting
<1>10. Waiting(n)' = {Stamp(m)}
  <2>1. relay'[n] = m
    BY <1>3 DEF TypeOK
  <2>2. m # None
    BY <1>3, GossipAssumption DEF Message
  <2> QED
    BY <1>6, <2>1, <2>2 DEF Waiting
<1>11. Taken(n)' = Taken(n) \cup {Stamp(m)}
  <2>1. ASSUME NEW s \in Nodes, s # m.from PROVE Accepted(n, s)' = Accepted(n, s)
    <3>1. heard'[n][s] = heard[n][s]
      BY <1>0, <1>1, <1>2, <2>1, AcceptRecords
    <3> QED
      BY <3>1 DEF Accepted
  <2>2. Accepted(n, m.from)' = Accepted(n, m.from) \cup {m}
    <3>1. PICK list \in Seq(Nat) : list = heard[n][m.from]
      BY <1>3 DEF TypeOK
    <3>2. heard'[n][m.from] = Append(list, m.id)
      BY <1>0, <1>1, <1>2, <1>3, <3>1, AcceptRecords
    <3>3. PICK l \in Nat : l = Len(list)
      OBVIOUS
    <3>4. /\ Len(heard'[n][m.from]) = l + 1 /\ heard'[n][m.from][l + 1] = m.id
          /\ \A i \in 1..l : heard'[n][m.from][i] = list[i]
      BY <1>3, <3>1, <3>2, <3>3
    <3>5. m = [from |-> m.from, id |-> m.id]
      BY <1>3 DEF Message
    <3>6. 1..l + 1 = (1..l) \cup {l + 1}
      OBVIOUS
    <3>7. PICK f : f = m.from
      OBVIOUS
    <3>8. Accepted(n, f) = {[from |-> f, id |-> list[i]] : i \in 1..l}
      BY <3>1, <3>3, <3>7 DEF Accepted
    <3>9. Accepted(n, f)' = {[from |-> f, id |-> heard'[n][f][i]] : i \in 1..l + 1}
      BY <3>4, <3>7 DEF Accepted
    <3>10. Accepted(n, f)' = {[from |-> f, id |-> list[i]] : i \in 1..l} \cup {[from |-> f, id |-> m.id]}
      BY <3>4, <3>6, <3>7, <3>9
    <3> QED
      BY <3>5, <3>7, <3>8, <3>10
  <2>3. PICK U : U = UNION {Accepted(n, s) : s \in Nodes}
    OBVIOUS
  <2>4. UNION {Accepted(n, s) : s \in Nodes}' = U \cup {m}
    BY <1>3, <2>1, <2>2, <2>3
  <2>5. \A x \in U : Stamp(x)' = Stamp(x)
    BY <1>0, <1>4, <2>3, AcceptedSent, StampStays
  <2>6. Taken(n) = {Stamp(x) : x \in U} /\ Taken(n)' = {Stamp(x)' : x \in U \cup {m}}
    BY <2>3, <2>4 DEF Taken
  <2> QED
    BY <1>6, <2>5, <2>6
<1>12. \A k \in Taken(n) : k.from = m.from => k.time < sent[m.from][m.id]
  <2> SUFFICES ASSUME NEW k \in Taken(n), k.from = m.from PROVE k.time < sent[m.from][m.id]
    OBVIOUS
  <2>1. PICK s \in Nodes : \E x \in Accepted(n, s) : k = Stamp(x)
    BY DEF Taken
  <2>2. PICK x \in Accepted(n, s) : k = Stamp(x)
    BY <2>1
  <2>3. PICK i \in 1..Len(heard[n][s]) : x = [from |-> s, id |-> heard[n][s][i]]
    BY <2>2 DEF Accepted
  <2>4. s = m.from /\ k.time = sent[s][heard[n][s][i]]
    BY <2>2, <2>3 DEF Stamp, Time
  <2>5. PICK l \in Nat : l = Len(heard[n][s])
    BY <1>0, OnRecord
  <2>6. l > 0 /\ i \in 1..l /\ l \in 1..l
    BY <2>5
  <2>7. node_times[n][s] = sent[s][heard[n][s][l]]
    BY <1>0, <2>5, <2>6 DEF TimesMatch
  <2>8. k.time \in Nat /\ node_times[n][s] \in Nat
    BY <1>0, <2>3, <2>4, OnRecord
  <2>9. k.time <= node_times[n][s]
    <3>1. CASE i = l
      BY <2>4, <2>7, <2>8, <3>1
    <3>2. CASE i < l
      <4>1. sent[s][heard[n][s][i]] < sent[s][heard[n][s][l]]
        BY <1>0, <2>5, <2>6, <3>2 DEF Rising
      <4> QED
        BY <2>4, <2>7, <2>8, <4>1
    <3> QED
      BY <2>6, <3>1, <3>2
  <2> QED
    BY <1>3, <2>4, <2>8, <2>9
<1>13. Stamp(m) \in Node(n)!Message
  BY <1>3, <1>7 DEF Node!Message
<1>14. Node(n)!Younger(Stamp(m))
  BY <1>7, <1>12 DEF Node!Younger
<1>15. Node(n)!Receive(Stamp(m))
  BY <1>8, <1>9, <1>10, <1>11, <1>14 DEF Node!Receive
<1>16. Node(n)!AbsNext
  BY <1>13, <1>15 DEF Node!AbsNext
<1> QED
  BY <1>1, <1>16

(* Every step is one of the abstract node it is a step of, and leaves the  *)
(* view of all others alone.                                               *)
LEMMA NodeStep ==
  ASSUME TypeOK, Consistent, Stamped, [Next]_vars, NEW n \in Nodes
  PROVE  [Node(n)!AbsNext]_(Node(n)!absvars)
<1>0. Known /\ SentStays
  BY SentGrows DEF Consistent
<1>1. CASE heard'[n] = heard[n] /\ relay'[n] = relay[n] /\ air'[n] = air[n]
  <2>1. Taken(n)' = Taken(n) /\ Waiting(n)' = Waiting(n) /\ Aired(n)' = Aired(n)
    BY <1>0, <1>1, ViewStays
  <2> QED
    BY <2>1 DEF Node!absvars
<1>2. ASSUME NEW s \in Senders, Originate(s) PROVE [Node(n)!AbsNext]_(Node(n)!absvars)
  <2>1. CASE n = s
    BY <1>0, <1>2, <2>1, OriginateRefines
  <2>2. CASE n # s
    BY <1>1, <1>2, <2>2, GossipAssumption DEF Originate, Broadcast, TypeOK
  <2> QED
    BY <2>1, <2>2
<1>3. ASSUME NEW s \in Nodes, Forward(s) PROVE [Node(n)!AbsNext]_(Node(n)!absvars)
  <2>1. CASE n = s
    BY <1>0, <1>3, <2>1, ForwardRefines
  <2>2. CASE n # s
    BY <1>1, <1>3, <2>2 DEF Forward, Broadcast, TypeOK
  <2> QED
    BY <2>1, <2>2
<1>4. ASSUME NEW q \in Pairs, Accept(q) PROVE [Node(n)!AbsNext]_(Node(n)!absvars)
  <2>1. CASE n = q[2]
    BY <1>4, <2>1, AcceptRefines
  <2>2. CASE n # q[2]
    <3>1. PICK b \in Nodes : b = q[2] /\ b # n
      BY <2>2, LinkedNodesDiffer
    <3>2. PICK m : m = Head(link[q])
      OBVIOUS
    <3>3. /\ relay' = [relay EXCEPT ![b] = m] /\ air' = air
          /\ heard' = [heard EXCEPT ![b][m.from] = Append(@, m.id)]
      BY <1>4, <3>1, <3>2 DEF Accept
    <3>4. heard'[n] = heard[n] /\ relay'[n] = relay[n] /\ air'[n] = air[n]
      BY <3>1, <3>3 DEF TypeOK
    <3> QED
      BY <1>1, <3>4
  <2> QED
    BY <2>1, <2>2
<1> QED
  BY <1>1, <1>2, <1>3, <1>4 DEF Next, Reject, AtRest, vars

-----------------------------------------------------------------------------
(* The theorems.                                                           *)

LEMMA Inductive == Spec => [](TypeOK /\ Consistent)
<1>1. Init => TypeOK /\ Consistent
  <2> SUFFICES ASSUME Init PROVE TypeOK /\ Consistent
    OBVIOUS
  <2>1. TypeOK
    BY TypeInit
  <2>2. /\ \A p \in Pairs : Len(link[p]) = 0
        /\ \A n \in Nodes : relay[n] = None /\ Len(sent[n]) = 0
        /\ \A n, s \in Nodes : Len(heard[n][s]) = 0 /\ node_times[n][s] = 0
    BY DEF Init
  <2>3. \A p \in Pairs : p[1] \in Nodes /\ p[2] \in Nodes
    BY LinkedNodesDiffer
  <2> QED
    BY <2>1, <2>2, <2>3
    DEF Consistent, Known, TimesMatch, Rising, Dominated, NoGaps, Behind, Offered
<1>2. TypeOK /\ Consistent /\ [Next]_vars => (TypeOK /\ Consistent)'
  <2> SUFFICES ASSUME TypeOK, Consistent, [Next]_vars PROVE TypeOK' /\ Consistent'
    OBVIOUS
  <2>1. TypeOK'
    BY TypeStep DEF Consistent
  <2>2. CASE UNCHANGED vars
    <3>1. UNCHANGED <<sent, link, node_times, relay, heard>>
      BY <2>2 DEF vars
    <3>2. Known' /\ TimesMatch' /\ Rising' /\ Dominated'
      BY <3>1 DEF Consistent, Known, TimesMatch, Rising, Dominated
    <3>3. NoGaps'
      BY <3>1 DEF Consistent, NoGaps, Younger
    <3>4. Behind'
      BY <3>1 DEF Consistent, Behind, BehindAt, Covered, Time
    <3>5. Offered'
      BY <3>1 DEF Consistent, Offered, Covered, Time
    <3> QED
      BY <2>1, <3>2, <3>3, <3>4, <3>5 DEF Consistent
  <2>3. ASSUME NEW n \in Senders, Originate(n) PROVE Consistent'
    BY <2>3, OriginateKeeps, GossipAssumption
  <2>4. ASSUME NEW n \in Nodes, Forward(n) PROVE Consistent'
    BY <2>4, ForwardKeeps
  <2>5. ASSUME NEW p \in Pairs, Reject(p) PROVE Consistent'
    BY <2>5, RejectKeeps
  <2>6. ASSUME NEW p \in Pairs, Accept(p) PROVE Consistent'
    BY <2>6, AcceptKeeps
  <2> QED
    BY <2>1, <2>2, <2>3, <2>4, <2>5, <2>6 DEF Next, AtRest
<1> QED
  BY <1>1, <1>2, PTL DEF Spec

(* Every variable of the network keeps its type: no message without sender *)
(* or number is ever on a link, relayed or recorded by broadcast, receive  *)
(* and receive_function.                                                   *)
THEOREM TypeCorrect == Spec => []TypeOK
  BY Inductive, PTL

(* No node accepts a message twice or after a younger one of its sender:   *)
(* the test of node_times in receive keeps forwarded messages from going   *)
(* round, in any network.                                                  *)
THEOREM InOrder == Spec => []HeardOnceInOrder
<1>1. Consistent => HeardOnceInOrder
  BY DEF Consistent, Rising, HeardOnceInOrder
<1> QED
  BY <1>1, Inductive, PTL

(* A node accepts exactly the messages that are younger than all earlier   *)
(* ones of their sender, and misses none before one it accepts, in any     *)
(* network and whatever the clocks behind timestamp() do.                  *)
THEOREM Gapless == Spec => []NoGaps
<1>1. Consistent => NoGaps
  BY DEF Consistent
<1> QED
  BY <1>1, Inductive, PTL

(* Every node of the network keeps to ForwardingNode, in any network and   *)
(* whatever the clocks do: what receive and broadcast of a node promise is *)
(* what the other nodes rely on.                                           *)
THEOREM RefinesForwardingNodes == Spec => NodesImplementForwardingNode
<1>1. Init => (\A n \in Nodes : Node(n)!AbsInit) /\ Stamped
  <2> SUFFICES ASSUME Init PROVE (\A n \in Nodes : Node(n)!AbsInit) /\ Stamped
    OBVIOUS
  <2>1. \A n \in Nodes : /\ relay[n] = None /\ air[n] = <<>> /\ sent[n] = <<>>
                         /\ \A s \in Nodes : heard[n][s] = <<>>
    BY DEF Init
  <2>2. \A n \in Nodes : Taken(n) = {} /\ Waiting(n) = {} /\ Aired(n) = <<>>
    BY <2>1 DEF Taken, Accepted, Waiting, Aired
  <2>3. \A n \in Nodes : Node(n)!AbsInit
    BY <2>2 DEF Node!AbsInit
  <2> QED
    BY <2>1, <2>3 DEF Stamped
<1>2. TypeOK /\ Consistent /\ Stamped /\ [Next]_vars => Stamped'
  BY StampedStep DEF Consistent
<1>3. TypeOK /\ Consistent /\ Stamped /\ [Next]_vars
        => [\A n \in Nodes : [Node(n)!AbsNext]_(Node(n)!absvars)]_vars
  BY NodeStep
<1> QED
  BY <1>1, <1>2, <1>3, Inductive, PTL DEF Spec, NodesImplementForwardingNode
=============================================================================
