---------------------------- MODULE DataFlow_proofs ----------------------------
(***************************************************************************)
(* Proofs about DataFlow, for any number of producers, plugins, sources    *)
(* and frames and any limits of the queues, zero included: frames are      *)
(* handed out once and in order (DeliveredOnceInOrder), they are lost by   *)
(* the limits only (LostByLimitsOnly), and an aggregate reaches the        *)
(* callbacks of its own cycle (AggregatesReachPost).                       *)
(*                                                                         *)
(* The argument is about one queue at a time.  Good says that the queue    *)
(* holds the last frames that were tracked without a gap, so that what is  *)
(* behind the pointer is younger than everything that was handed out: it   *)
(* survives the loss of the frame the pointer points to, and the reset of  *)
(* the pointer by close.                                                   *)
(***************************************************************************)
EXTENDS DataFlow, TLAPS

(* The queue q, its pointer l, the number n of frames tracked so far, and  *)
(* what was handed out. *)
Good(q, l, n, out) ==
  /\ q \in Seq(Nat) /\ l \in Nat /\ n \in Nat /\ out \in Seq(Nat)
  /\ Len(q) <= n
  /\ \A i \in 1..Len(q) : q[i] = n - Len(q) + i
  /\ l <= n
  /\ \A i \in 1..Len(out) : out[i] <= n /\ (out[i] <= l \/ out[i] <= n - Len(q))
  /\ \A i, j \in 1..Len(out) : i < j => out[i] < out[j]

(* A frame was handed out, can be, or was pushed out. *)
KeptIn(q, l, n, out, max) ==
  \A f \in 1..n : f \in Elements(out) \/ (f \in Elements(q) /\ f > l) \/ n - f >= max

QueuesGood ==
  \A k \in Kinds, s \in Sources : Good(data[k][s], last[k][s], made[k][s], seen[k][s])

(* What is not there yet, and the end of the session. *)
Ordered ==
  /\ finish # "out" => exiting
  /\ closed <=> finish = "done"
  /\ closing # {} => finish = "close"
  /\ closing \subseteq sources
  /\ \A t \in Threads : call[t] # None => call[t].source \in sources
  /\ \A k \in Kinds : \A s \in Sources \ sources : made[k][s] = 0

(* The cycle. *)
CycleOrdered ==
  /\ main = "spawn" => cycle = "none"
  /\ cycle \notin {"pre", "post"} => hooks = {}
  /\ cycle = "clear" => dump_raw
  /\ cycle = "post" => todo = {}
  /\ \A s \in Sources : fresh[s] \subseteq 1..made["agg"][s]

(* The second loop over the sources has handed out the aggregates of those *)
(* that it is through with.                                                *)
Passed(s) ==
  \A f \in fresh[s] : f \in Elements(seen["agg"][s]) \/ made["agg"][s] - f >= MaxAgg \/ Emptied(s)

FreshPassed == cycle \in {"aggs", "post"} => \A s \in Sources \ todo : Passed(s)

IInv ==
  /\ TypeOK
  /\ QueuesGood
  /\ Ordered
  /\ CycleOrdered
  /\ LostByLimitsOnly
  /\ FreshPassed

-----------------------------------------------------------------------------
(* One queue.                                                              *)

(* The place of the last frame that was handed out, 0 if it is gone. *)
Place(q, l, n) == IF l > n - Len(q) THEN l - (n - Len(q)) ELSE 0

LEMMA NewSinceIsSuffix ==
  ASSUME NEW q, NEW l, NEW n, NEW out, Good(q, l, n, out)
  PROVE  /\ Place(q, l, n) \in 0..Len(q)
         /\ NewSince(q, l) = SubSeq(q, 1 + Place(q, l, n), Len(q))
<1> DEFINE S == {0} \cup {i \in 1..Len(q) : q[i] = l}
           m == Place(q, l, n)
<1>1. /\ q \in Seq(Nat) /\ l \in Nat /\ n \in Nat /\ Len(q) <= n /\ l <= n /\ Len(q) \in Nat
      /\ \A i \in 1..Len(q) : q[i] = n - Len(q) + i
  BY DEF Good
<1>2. m \in 0..Len(q)
  BY <1>1 DEF Place
<1>3. m \in S
  <2>1. CASE l > n - Len(q)
    <3>1. m \in 1..Len(q) /\ m = l - (n - Len(q))
      BY <1>1, <2>1 DEF Place
    <3>2. q[m] = l
      <4> HIDE DEF m
      <4> QED
        BY <1>1, <3>1
    <3> QED
      BY <3>1, <3>2
  <2>2. CASE ~(l > n - Len(q))
    BY <2>2 DEF Place
  <2> QED
    BY <2>1, <2>2
<1>4. \A i \in S : i \in Int /\ m >= i
  BY <1>1, <1>2 DEF Place
<1>5. \A x \in S : (\A i \in S : x >= i) => x = m
  <2> HIDE DEF S, m
  <2> QED
    BY <1>3, <1>4
<1>6. Max(S) = m
  <2> HIDE DEF S, m
  <2> QED
    BY <1>3, <1>4, <1>5 DEF Max
<1> QED
  BY <1>2, <1>6 DEF NewSince

(* What is handed out next: the frames of the queue behind the pointer. *)
LEMMA NewFrames ==
  ASSUME NEW q, NEW l, NEW n, NEW out, Good(q, l, n, out), NEW new, new = NewSince(q, l)
  PROVE  /\ new \in Seq(Nat)
         /\ \A i \in 1..Len(new) : /\ new[i] = n - Len(new) + i
                                   /\ new[i] > l /\ new[i] > n - Len(q) /\ new[i] <= n
         /\ \A f \in Elements(q) : f > l => f \in Elements(new)
<1> DEFINE m == Place(q, l, n)
<1>1. m \in 0..Len(q) /\ new = SubSeq(q, 1 + m, Len(q))
  BY NewSinceIsSuffix
<1>2. /\ q \in Seq(Nat) /\ l \in Nat /\ n \in Nat /\ Len(q) <= n /\ l <= n /\ Len(q) \in Nat
      /\ \A i \in 1..Len(q) : q[i] = n - Len(q) + i
  BY DEF Good
<1>3. new \in Seq(Nat) /\ Len(new) = Len(q) - m /\ \A i \in 1..Len(new) : new[i] = q[m + i]
  <2> HIDE DEF m
  <2> QED
    BY <1>1, <1>2
<1>4. m >= l - (n - Len(q)) /\ (m = 0 \/ m = l - (n - Len(q)))
  BY <1>2 DEF Place
<1> HIDE DEF m
<1>5. \A i \in 1..Len(new) : new[i] = n - Len(q) + m + i
  BY <1>1, <1>2, <1>3
<1>6. ASSUME NEW i \in 1..Len(q), q[i] > l PROVE q[i] \in Elements(new)
  <2>1. i > m
    BY <1>1, <1>2, <1>4, <1>6
  <2>2. i - m \in 1..Len(new) /\ new[i - m] = q[i]
    BY <1>1, <1>2, <1>3, <2>1
  <2> QED
    BY <2>2 DEF Elements
<1>7. \A f \in Elements(q) : f > l => f \in Elements(new)
  BY <1>6 DEF Elements
<1>8. ASSUME NEW i \in 1..Len(new)
      PROVE  new[i] = n - Len(new) + i /\ new[i] > l /\ new[i] > n - Len(q) /\ new[i] <= n
  <2>1. i \in Nat /\ i >= 1 /\ i <= Len(q) - m /\ m \in Nat /\ n \in Nat /\ l \in Nat /\ Len(q) \in Nat
    BY <1>1, <1>2, <1>3
  <2>2. new[i] = n - Len(q) + m + i /\ Len(new) = Len(q) - m
    BY <1>3, <1>5
  <2> QED
    BY <1>2, <1>4, <2>1, <2>2
<1> QED
  BY <1>3, <1>7, <1>8

LEMMA GoodEmpty ==
  ASSUME NEW q, NEW l, NEW n, NEW out, Good(q, l, n, out)
  PROVE  Good(<<>>, l, n, out) /\ Good(<<>>, 0, n, out)
  BY DEF Good

(* The frames that are handed out next follow on those handed out before. *)
LEMMA GoodCollect ==
  ASSUME NEW q, NEW l, NEW n, NEW out, Good(q, l, n, out), NEW new, new = NewSince(q, l), new # <<>>
  PROVE  Good(q, new[Len(new)], n, out \o new)
<1>1. /\ new \in Seq(Nat)
      /\ \A i \in 1..Len(new) : /\ new[i] = n - Len(new) + i
                                /\ new[i] > l /\ new[i] > n - Len(q) /\ new[i] <= n
  BY NewFrames
<1>2. /\ q \in Seq(Nat) /\ l \in Nat /\ n \in Nat /\ out \in Seq(Nat)
      /\ Len(q) <= n /\ l <= n /\ Len(q) \in Nat
      /\ \A i \in 1..Len(q) : q[i] = n - Len(q) + i
      /\ \A i \in 1..Len(out) : out[i] <= n /\ (out[i] <= l \/ out[i] <= n - Len(q))
      /\ \A i, j \in 1..Len(out) : i < j => out[i] < out[j]
  BY DEF Good
<1>3. Len(new) \in 1..Len(new) /\ new[Len(new)] = n
  BY <1>1, <1>2
<1>4. PICK all : all = out \o new
  OBVIOUS
<1>5. /\ all \in Seq(Nat) /\ Len(all) = Len(out) + Len(new) /\ Len(out) \in Nat /\ Len(new) \in Nat
      /\ \A i \in 1..Len(out) : all[i] = out[i]
      /\ \A i \in 1..Len(all) : i > Len(out) => all[i] = new[i - Len(out)] /\ i - Len(out) \in 1..Len(new)
  BY <1>1, <1>2, <1>4
<1>6. \A i \in 1..Len(all) : all[i] <= n
  <2> SUFFICES ASSUME NEW i \in 1..Len(all) PROVE all[i] <= n
    OBVIOUS
  <2>1. CASE i > Len(out)
    BY <1>1, <1>5, <2>1
  <2>2. CASE ~(i > Len(out))
    <3>1. i \in 1..Len(out)
      BY <1>5, <2>2
    <3> QED
      BY <1>2, <1>5, <3>1
  <2> QED
    BY <2>1, <2>2
<1>7. ASSUME NEW i \in 1..Len(all), NEW j \in 1..Len(all), i < j PROVE all[i] < all[j]
  <2>1. CASE i > Len(out)
    <3>0. j > Len(out)
      BY <1>5, <1>7, <2>1
    <3>1. /\ all[i] = new[i - Len(out)] /\ i - Len(out) \in 1..Len(new)
          /\ all[j] = new[j - Len(out)] /\ j - Len(out) \in 1..Len(new)
      BY <1>5, <2>1, <3>0
    <3>2. all[i] = n - Len(new) + (i - Len(out)) /\ all[j] = n - Len(new) + (j - Len(out))
      BY <1>1, <3>1
    <3>3. i \in Nat /\ j \in Nat /\ n \in Nat /\ Len(new) \in Nat /\ Len(out) \in Nat
      BY <1>2, <1>5
    <3> QED
      BY <1>7, <3>2, <3>3
  <2>2. CASE j > Len(out) /\ ~(i > Len(out))
    <3>1. i \in 1..Len(out) /\ all[i] = out[i]
      BY <1>5, <2>2
    <3>2. all[j] = new[j - Len(out)] /\ j - Len(out) \in 1..Len(new)
      BY <1>5, <2>2
    <3>3. all[j] > l /\ all[j] > n - Len(q) /\ all[j] \in Nat
      BY <1>1, <3>2
    <3>4. all[i] \in Nat /\ (all[i] <= l \/ all[i] <= n - Len(q))
      BY <1>2, <3>1
    <3> QED
      BY <1>2, <3>3, <3>4
  <2>3. CASE ~(j > Len(out))
    <3>1. i \in 1..Len(out) /\ j \in 1..Len(out)
      BY <1>5, <1>7, <2>3
    <3> QED
      BY <1>2, <1>5, <1>7, <3>1
  <2> QED
    BY <1>5, <2>1, <2>2, <2>3
<1> QED
  BY <1>2, <1>3, <1>4, <1>5, <1>6, <1>7 DEF Good

(* What Newest leaves: the end of the queue. *)
LEMMA NewestIsSuffix ==
  ASSUME NEW q \in Seq(Nat), NEW max \in Nat
  PROVE  /\ Newest(q, max) \in Seq(Nat) /\ Len(Newest(q, max)) \in Nat
         /\ Len(Newest(q, max)) <= Len(q)
         /\ Len(Newest(q, max)) = Len(q) \/ Len(Newest(q, max)) = max
         /\ \A i \in 1..Len(Newest(q, max)) :
              /\ Newest(q, max)[i] = q[Len(q) - Len(Newest(q, max)) + i]
              /\ Len(q) - Len(Newest(q, max)) + i \in 1..Len(q)
<1>1. CASE Len(q) > max
  <2> DEFINE a == Len(q) - max + 1
             r == Newest(q, max)
  <2>1. a \in Nat /\ a = Len(q) - max + 1 /\ a \in 1..Len(q) + 1 /\ Len(q) \in Nat
    BY <1>1
  <2>2. r = SubSeq(q, a, Len(q))
    BY <1>1 DEF Newest
  <2> HIDE DEF a, r
  <2>3. r \in Seq(Nat) /\ r = SubSeq(q, a, Len(q))
    BY <2>1, <2>2
  <2>4. Len(r) = Len(q) + 1 - a /\ \A i \in 1..Len(r) : r[i] = q[a + i - 1]
    BY <2>1, <2>3
  <2>5. Len(r) = max /\ \A i \in 1..Len(r) : a + i - 1 = Len(q) - Len(r) + i
    BY <2>1, <2>4
  <2>6. \A i \in 1..Len(r) : Len(q) - Len(r) + i \in 1..Len(q)
    BY <1>1, <2>1, <2>5
  <2>7. \A i \in 1..Len(r) : r[i] = q[Len(q) - Len(r) + i]
    BY <2>4, <2>5
  <2> QED
    BY <1>1, <2>1, <2>3, <2>5, <2>6, <2>7 DEF r
<1>2. CASE ~(Len(q) > max)
  BY <1>2 DEF Newest
<1> QED
  BY <1>1, <1>2

LEMMA GoodTrack ==
  ASSUME NEW q, NEW l, NEW n, NEW out, Good(q, l, n, out), NEW max \in Nat
  PROVE  Good(Newest(Append(q, n + 1), max), l, n + 1, out)
<1>1. /\ q \in Seq(Nat) /\ l \in Nat /\ n \in Nat /\ out \in Seq(Nat)
      /\ Len(q) <= n /\ l <= n /\ Len(q) \in Nat
      /\ \A i \in 1..Len(q) : q[i] = n - Len(q) + i
      /\ \A i \in 1..Len(out) : out[i] <= n /\ (out[i] <= l \/ out[i] <= n - Len(q))
      /\ \A i, j \in 1..Len(out) : i < j => out[i] < out[j]
  BY DEF Good
<1> DEFINE p == Append(q, n + 1)
<1>2. p \in Seq(Nat)
  <2>1. n + 1 \in Nat
    BY <1>1
  <2> QED
    BY <1>1, <2>1
<1>3. Len(p) = Len(q) + 1 /\ \A i \in 1..Len(p) : p[i] = n - Len(q) + i
  <2>1. /\ Len(p) = Len(q) + 1 /\ p[Len(q) + 1] = n + 1
        /\ \A i \in 1..Len(q) : p[i] = q[i]
    BY <1>1
  <2> HIDE DEF p
  <2>2. ASSUME NEW i \in 1..Len(p) PROVE p[i] = n - Len(q) + i
    <3>1. CASE i \in 1..Len(q)
      BY <1>1, <2>1, <3>1
    <3>2. CASE i = Len(q) + 1
      BY <1>1, <2>1, <3>2
    <3> QED
      BY <1>1, <2>1, <3>1, <3>2
  <2> QED
    BY <2>1, <2>2
<1> HIDE DEF p
<1> DEFINE r == Newest(p, max)
<1>4. r \in Seq(Nat)
  BY <1>2, NewestIsSuffix
<1>5. /\ Len(r) \in Nat /\ Len(r) <= Len(p)
      /\ \A i \in 1..Len(r) : r[i] = p[Len(p) - Len(r) + i] /\ Len(p) - Len(r) + i \in 1..Len(p)
  BY <1>2, NewestIsSuffix
<1> HIDE DEF r
<1>6. \A i \in 1..Len(r) : r[i] = n + 1 - Len(r) + i
  BY <1>1, <1>3, <1>5
<1>7. \A i \in 1..Len(out) : out[i] <= n + 1 /\ (out[i] <= l \/ out[i] <= n + 1 - Len(r))
  BY <1>1, <1>3, <1>5
<1>8. Good(r, l, n + 1, out)
  BY <1>1, <1>3, <1>4, <1>5, <1>6, <1>7 DEF Good
<1> QED
  BY <1>8 DEF p, r

LEMMA KeptCollect ==
  ASSUME NEW q, NEW l, NEW n, NEW out, NEW max \in Nat, Good(q, l, n, out), KeptIn(q, l, n, out, max),
         NEW new, new = NewSince(q, l)
  PROVE  \A f \in 1..n : f \in Elements(out \o new) \/ n - f >= max
<1>1. new \in Seq(Nat) /\ \A f \in Elements(q) : f > l => f \in Elements(new)
  BY NewFrames
<1>2. out \in Seq(Nat)
  BY DEF Good
<1>3. \A i \in 1..Len(out) : i \in 1..Len(out \o new) /\ (out \o new)[i] = out[i]
  BY <1>1, <1>2
<1>4. \A i \in 1..Len(new) : i + Len(out) \in 1..Len(out \o new) /\ (out \o new)[i + Len(out)] = new[i]
  BY <1>1, <1>2
<1>5. Elements(out) \subseteq Elements(out \o new)
  BY <1>3 DEF Elements
<1>6. Elements(new) \subseteq Elements(out \o new)
  BY <1>4 DEF Elements
<1> QED
  BY <1>1, <1>5, <1>6 DEF KeptIn

LEMMA KeptTrack ==
  ASSUME NEW q, NEW l, NEW n, NEW out, NEW max \in Nat, Good(q, l, n, out), KeptIn(q, l, n, out, max)
  PROVE  KeptIn(Newest(Append(q, n + 1), max), l, n + 1, out, max)
<1>1. /\ q \in Seq(Nat) /\ l \in Nat /\ n \in Nat /\ Len(q) <= n /\ l <= n /\ Len(q) \in Nat
      /\ \A i \in 1..Len(q) : q[i] = n - Len(q) + i
  BY DEF Good
<1> DEFINE p == Append(q, n + 1)
<1>2. p \in Seq(Nat)
  <2>1. n + 1 \in Nat
    BY <1>1
  <2> QED
    BY <1>1, <2>1
<1>3. Len(p) = Len(q) + 1 /\ \A i \in 1..Len(p) : p[i] = n - Len(q) + i
  <2>1. /\ Len(p) = Len(q) + 1 /\ p[Len(q) + 1] = n + 1
        /\ \A i \in 1..Len(q) : p[i] = q[i]
    BY <1>1
  <2> HIDE DEF p
  <2>2. ASSUME NEW i \in 1..Len(p) PROVE p[i] = n - Len(q) + i
    <3>1. CASE i \in 1..Len(q)
      BY <1>1, <2>1, <3>1
    <3>2. CASE i = Len(q) + 1
      BY <1>1, <2>1, <3>2
    <3> QED
      BY <1>1, <2>1, <3>1, <3>2
  <2> QED
    BY <2>1, <2>2
<1> HIDE DEF p
<1> DEFINE r == Newest(p, max)
<1>4. r \in Seq(Nat)
  BY <1>2, NewestIsSuffix
<1>5. /\ Len(r) \in Nat /\ Len(r) <= Len(p) /\ (Len(r) = Len(p) \/ Len(r) = max)
      /\ \A i \in 1..Len(r) : r[i] = p[Len(p) - Len(r) + i] /\ Len(p) - Len(r) + i \in 1..Len(p)
  BY <1>2, NewestIsSuffix
<1> HIDE DEF r
<1>6. \A i \in 1..Len(r) : r[i] = n + 1 - Len(r) + i
  BY <1>1, <1>3, <1>5
<1>7. ASSUME NEW f \in Nat, f > n + 1 - Len(r), f <= n + 1 PROVE f \in Elements(r)
  <2>1. f - (n + 1 - Len(r)) \in 1..Len(r)
    BY <1>1, <1>3, <1>5, <1>7
  <2>2. PICK i \in 1..Len(r) : i = f - (n + 1 - Len(r))
    BY <2>1
  <2>3. r[i] = n + 1 - Len(r) + i
    BY <1>6
  <2>4. r[i] = f
    BY <1>1, <1>5, <2>2, <2>3
  <2> QED
    BY <2>4 DEF Elements
<1>8. \A f \in Elements(q) : f > n - Len(q) /\ f \in Nat
  BY <1>1 DEF Elements
<1>9. ASSUME NEW f \in 1..n + 1
      PROVE  f \in Elements(out) \/ (f \in Elements(r) /\ f > l) \/ (n + 1) - f >= max
  <2>1. CASE f = n + 1
    <3>1. f > l /\ f \in Nat /\ (n + 1) - f = 0
      BY <1>1, <2>1
    <3>2. CASE Len(r) = max /\ max = 0
      BY <3>1, <3>2
    <3>3. CASE Len(r) > 0
      BY <1>1, <1>5, <1>7, <2>1, <3>1, <3>3
    <3> QED
      BY <1>1, <1>3, <1>5, <3>2, <3>3
  <2>2. CASE f \in 1..n
    <3>1. CASE f \in Elements(out) \/ n - f >= max
      BY <1>1, <2>2, <3>1
    <3>2. CASE f \in Elements(q) /\ f > l
      <4>1. f > n - Len(q) /\ f \in Nat
        BY <1>8, <3>2
      <4>2. CASE f > n + 1 - Len(r)
        BY <1>7, <2>2, <3>2, <4>1, <4>2
      <4>3. CASE ~(f > n + 1 - Len(r))
        BY <1>1, <1>3, <1>5, <2>2, <4>1, <4>3
      <4> QED
        BY <4>2, <4>3
    <3> QED
      BY <2>2, <3>1, <3>2 DEF KeptIn
  <2> QED
    BY <1>1, <2>1, <2>2
<1>10. KeptIn(r, l, n + 1, out, max)
  BY <1>9 DEF KeptIn
<1> QED
  BY <1>10 DEF p, r

-----------------------------------------------------------------------------
(* What a step does to the queue of kind k and source s: nothing, a frame  *)
(* is tracked, the new frames are handed out, or the queue is emptied.     *)

Same(k, s) ==
  /\ data'[k][s] = data[k][s] /\ last'[k][s] = last[k][s]
  /\ made'[k][s] = made[k][s] /\ seen'[k][s] = seen[k][s]

Tracked(k, s) ==
  /\ made'[k][s] = made[k][s] + 1
  /\ data'[k][s] = Newest(Append(data[k][s], made[k][s] + 1), Capacity(k))
  /\ last'[k][s] = last[k][s] /\ seen'[k][s] = seen[k][s]

Collected(k, s) ==
  LET new == NewSince(data[k][s], last[k][s])
  IN  /\ new # <<>>
      /\ last'[k][s] = new[Len(new)] /\ seen'[k][s] = seen[k][s] \o new
      /\ data'[k][s] = data[k][s] /\ made'[k][s] = made[k][s]

Cleared(k, s) ==
  /\ data'[k][s] = <<>> /\ last'[k][s] \in {last[k][s], 0}
  /\ made'[k][s] = made[k][s] /\ seen'[k][s] = seen[k][s]
  /\ (k = "raw" /\ dump_raw') \/ Emptied(s)'

LEMMA CapacityTyped == \A k \in Kinds : Capacity(k) \in Nat
  BY DataAssumption DEF Capacity

(* An aggregate of a callback of this cycle. *)
FreshBy(t, k0, s0, s) ==
  /\ cycle \in {"pre", "clear", "aggs"} /\ t \in hooks /\ k0 = "agg" /\ s = s0
  /\ fresh'[s] = fresh[s] \cup {made[k0][s0] + 1}

LEMMA TrackEffect ==
  ASSUME TypeOK, QueuesGood, NEW t \in Threads, Track(t)
  PROVE  \E k0 \in Kinds, s0 \in Sources :
           /\ call[t] = [kind |-> k0, source |-> s0]
           /\ Tracked(k0, s0)
           /\ \A k \in Kinds, s \in Sources : k # k0 \/ s # s0 => Same(k, s)
           /\ made' \in [Kinds -> [Sources -> Nat]] /\ data' \in [Kinds -> [Sources -> Seq(Nat)]]
           /\ fresh' \in [Sources -> SUBSET Nat]
           /\ \A s \in Sources : fresh'[s] = fresh[s] \/ FreshBy(t, k0, s0, s)
<1> DEFINE k0 == call[t].kind
           s0 == call[t].source
           q == Newest(Append(data[k0][s0], made[k0][s0] + 1), Capacity(k0))
<1>1. /\ call[t] # None /\ made' = [made EXCEPT ![k0][s0] = made[k0][s0] + 1]
      /\ data' = [data EXCEPT ![k0][s0] = q]
      /\ fresh' = IF cycle \in {"pre", "clear", "aggs"} /\ t \in hooks /\ k0 = "agg"
                  THEN [fresh EXCEPT ![s0] = @ \cup {made[k0][s0] + 1}] ELSE fresh
      /\ UNCHANGED <<last, seen>>
  BY DEF Track, TypeOK
<1>2. call[t] = [kind |-> k0, source |-> s0] /\ k0 \in Kinds /\ s0 \in Sources
  BY <1>1 DEF TypeOK, Calls
<1>3. made[k0][s0] + 1 \in Nat /\ data[k0][s0] \in Seq(Nat)
  BY <1>2 DEF TypeOK
<1>4. q \in Seq(Nat)
  <2>1. Append(data[k0][s0], made[k0][s0] + 1) \in Seq(Nat)
    BY <1>3
  <2> QED
    BY <1>2, <2>1, NewestIsSuffix, CapacityTyped
<1> HIDE DEF k0, s0, q
<1>5. made' \in [Kinds -> [Sources -> Nat]] /\ data' \in [Kinds -> [Sources -> Seq(Nat)]]
  BY <1>1, <1>2, <1>3, <1>4 DEF TypeOK
<1>6. made'[k0][s0] = made[k0][s0] + 1 /\ data'[k0][s0] = q
  BY <1>1, <1>2 DEF TypeOK
<1>7. \A k \in Kinds, s \in Sources :
        k # k0 \/ s # s0 => made'[k][s] = made[k][s] /\ data'[k][s] = data[k][s]
  BY <1>1, <1>2 DEF TypeOK
<1>8. Tracked(k0, s0)
  BY <1>1, <1>6 DEF Tracked, q
<1>9. \A k \in Kinds, s \in Sources : k # k0 \/ s # s0 => Same(k, s)
  BY <1>1, <1>7 DEF Same
<1>10. fresh' \in [Sources -> SUBSET Nat]
  BY <1>1, <1>2, <1>3 DEF TypeOK
<1>11. \A s \in Sources : fresh'[s] = fresh[s] \/ FreshBy(t, k0, s0, s)
  BY <1>1, <1>2 DEF TypeOK, FreshBy
<1> QED
  BY <1>2, <1>5, <1>8, <1>9, <1>10, <1>11

LEMMA CollectEffect ==
  ASSUME TypeOK, QueuesGood, NEW k0 \in Kinds, NEW s0 \in Sources, Collect(k0, s0)
  PROVE  /\ (Same(k0, s0) /\ (closed \/ NewSince(data[k0][s0], last[k0][s0]) = <<>>))
              \/ (~closed /\ Collected(k0, s0))
         /\ \A k \in Kinds, s \in Sources : k # k0 \/ s # s0 => Same(k, s)
         /\ last' \in [Kinds -> [Sources -> Nat]] /\ seen' \in [Kinds -> [Sources -> Seq(Nat)]]
<1> DEFINE new == IF closed THEN <<>> ELSE NewSince(data[k0][s0], last[k0][s0])
<1>1. /\ last' = IF new = <<>> THEN last ELSE [last EXCEPT ![k0][s0] = new[Len(new)]]
      /\ seen' = [seen EXCEPT ![k0][s0] = @ \o new]
      /\ UNCHANGED <<data, made, closed>>
  BY DEF Collect, finishVars
<1>2. new \in Seq(Nat)
  BY NewFrames DEF QueuesGood
<1>3. new = <<>> \/ (~closed /\ new = NewSince(data[k0][s0], last[k0][s0]))
  OBVIOUS
<1>4. new = <<>> => closed \/ NewSince(data[k0][s0], last[k0][s0]) = <<>>
  OBVIOUS
<1> HIDE DEF new
<1>5. new # <<>> => new[Len(new)] \in Nat
  BY <1>2
<1>6. seen[k0][s0] \in Seq(Nat) /\ seen[k0][s0] \o new \in Seq(Nat) /\ seen[k0][s0] \o <<>> = seen[k0][s0]
  BY <1>2 DEF TypeOK
<1>7. last' \in [Kinds -> [Sources -> Nat]] /\ seen' \in [Kinds -> [Sources -> Seq(Nat)]]
  BY <1>1, <1>5, <1>6 DEF TypeOK
<1>8. /\ seen'[k0][s0] = seen[k0][s0] \o new
      /\ last'[k0][s0] = IF new = <<>> THEN last[k0][s0] ELSE new[Len(new)]
  BY <1>1 DEF TypeOK
<1>9. \A k \in Kinds, s \in Sources :
        k # k0 \/ s # s0 => seen'[k][s] = seen[k][s] /\ last'[k][s] = last[k][s]
  BY <1>1 DEF TypeOK
<1>10. \A k \in Kinds, s \in Sources : k # k0 \/ s # s0 => Same(k, s)
  BY <1>1, <1>9 DEF Same
<1>11. CASE new = <<>>
  <2>1. Same(k0, s0)
    BY <1>1, <1>6, <1>8, <1>11 DEF Same
  <2> QED
    BY <1>4, <1>7, <1>10, <1>11, <2>1
<1>12. CASE new # <<>>
  <2>1. Collected(k0, s0)
    BY <1>1, <1>3, <1>8, <1>12 DEF Collected
  <2> QED
    BY <1>3, <1>7, <1>10, <1>12, <2>1
<1> QED
  BY <1>11, <1>12

Quiet == UNCHANGED <<data, last, made, seen>>

LEMMA QuietIsSame ==
  Quiet => \A k \in Kinds, s \in Sources : Same(k, s)
  BY DEF Quiet, Same

LEMMA QueueStep ==
  ASSUME IInv, [Next]_vars, NEW k \in Kinds, NEW s \in Sources
  PROVE  Same(k, s) \/ Tracked(k, s) \/ Collected(k, s) \/ Cleared(k, s)
<1> USE DEF IInv
<1>1. ASSUME NEW t \in Threads, Track(t) PROVE Same(k, s) \/ Tracked(k, s)
  BY <1>1, TrackEffect
<1>2. ASSUME NEW k0 \in Kinds, NEW s0 \in Sources, Collect(k0, s0)
      PROVE  Same(k, s) \/ Collected(k, s)
  BY <1>2, CollectEffect
<1>3. ASSUME NEW s0 \in Sources, ClearRaw(s0) PROVE Same(k, s) \/ Cleared(k, s)
  <2>1. /\ cycle = "clear" /\ data' = [data EXCEPT !["raw"][s0] = <<>>]
        /\ UNCHANGED <<dump_raw, last, made, seen>>
    BY <1>3 DEF ClearRaw, mainVars
  <2>2. CASE k = "raw" /\ s = s0
    <3>1. data'[k][s] = <<>> /\ dump_raw'
      BY <2>1, <2>2 DEF TypeOK, CycleOrdered
    <3> QED
      BY <2>1, <2>2, <3>1 DEF Cleared
  <2>3. CASE ~(k = "raw" /\ s = s0)
    <3>1. data'[k][s] = data[k][s]
      BY <2>1, <2>3 DEF TypeOK
    <3> QED
      BY <2>1, <3>1 DEF Same
  <2> QED
    BY <2>2, <2>3
<1>4. ASSUME NEW s0 \in Sources, CloseSource(s0) PROVE Same(k, s) \/ Cleared(k, s)
  <2>1. /\ s0 \in closing /\ closing' = closing \ {s0}
        /\ data' = [h \in Kinds |-> [data[h] EXCEPT ![s0] = <<>>]]
        /\ last' = [h \in Kinds |-> [last[h] EXCEPT ![s0] = 0]]
        /\ UNCHANGED <<finish, made, seen>>
    BY <1>4 DEF CloseSource
  <2>2. CASE s = s0
    <3>1. data'[k][s] = <<>> /\ last'[k][s] = 0
      BY <2>1, <2>2 DEF TypeOK
    <3>2. Emptied(s)'
      BY <2>1, <2>2 DEF Emptied, Ordered
    <3> QED
      BY <2>1, <3>1, <3>2 DEF Cleared
  <2>3. CASE s # s0
    <3>1. data'[k][s] = data[k][s] /\ last'[k][s] = last[k][s]
      BY <2>1, <2>3 DEF TypeOK
    <3> QED
      BY <2>1, <3>1 DEF Same
  <2> QED
    BY <2>2, <2>3
<1>5. ASSUME NEW s0 \in Sources, CreateDataSource(s0) PROVE Quiet
  BY <1>5 DEF CreateDataSource, queueVars, Quiet
<1>6. ASSUME NEW t \in Threads, NEW c \in Calls, BeginCreate(t, c) PROVE Quiet
  BY <1>6 DEF BeginCreate, queueVars, Quiet
<1>7. ASSUME MainContinues \/ MainStops \/ MainJoins \/ MainSpawns PROVE Quiet
  BY <1>7 DEF MainContinues, MainStops, MainJoins, MainSpawns, queueVars, Quiet
<1>8. ASSUME \/ StartCycle \/ CallPreAggregate \/ JoinPreAggregate \/ AllCleared
             \/ CallPostAggregate \/ JoinPostAggregate
      PROVE  Quiet
  BY <1>8 DEF StartCycle, CallPreAggregate, JoinPreAggregate, AllCleared, CallPostAggregate,
              JoinPostAggregate, queueVars, Quiet
<1>9. ASSUME NEW p \in Plugins, HookReturns(p) PROVE Quiet
  BY <1>9 DEF HookReturns, queueVars, Quiet
<1>10. ASSUME FinishBegins \/ FinishJoins \/ FinishCloses PROVE Quiet
  BY <1>10 DEF FinishBegins, FinishJoins, FinishCloses, queueVars, Quiet
<1>11. ASSUME UNCHANGED vars PROVE Quiet
  BY <1>11 DEF vars, Quiet
<1> QED
  BY <1>1, <1>2, <1>3, <1>4, <1>5, <1>6, <1>7, <1>8, <1>9, <1>10, <1>11, QuietIsSame
     DEF Next, CycleStep, AtRest

LEMMA GoodStep ==
  ASSUME IInv, [Next]_vars
  PROVE  QueuesGood'
<1> SUFFICES ASSUME NEW k \in Kinds, NEW s \in Sources
             PROVE  Good(data'[k][s], last'[k][s], made'[k][s], seen'[k][s])
  BY DEF QueuesGood
<1>1. Good(data[k][s], last[k][s], made[k][s], seen[k][s])
  BY DEF IInv, QueuesGood
<1>2. CASE Same(k, s)
  BY <1>1, <1>2 DEF Same
<1>3. CASE Tracked(k, s)
  BY <1>1, <1>3, GoodTrack, CapacityTyped DEF Tracked
<1>4. CASE Collected(k, s)
  BY <1>1, <1>4, GoodCollect DEF Collected
<1>5. CASE Cleared(k, s)
  BY <1>1, <1>5, GoodEmpty DEF Cleared
<1> QED
  BY <1>2, <1>3, <1>4, <1>5, QueueStep

(* A source that was closed stays closed, unless it is new. *)
LEMMA EmptiedStays ==
  ASSUME IInv, [Next]_vars, NEW s \in Sources, Emptied(s)
  PROVE  Emptied(s)' \/ s \notin sources
<1> USE DEF IInv
<1>1. ASSUME NEW s0 \in Sources, CreateDataSource(s0) PROVE Emptied(s)' \/ s \notin sources
  BY <1>1 DEF CreateDataSource, Emptied
<1>2. ASSUME NEW s0 \in Sources, CloseSource(s0) PROVE Emptied(s)'
  BY <1>2 DEF CloseSource, Emptied
<1>3. CASE FinishBegins
  BY <1>3 DEF FinishBegins, Emptied, Ordered
<1>4. CASE FinishJoins
  BY <1>4 DEF FinishJoins, Emptied
<1>5. CASE FinishCloses
  BY <1>5 DEF FinishCloses, Emptied
<1>6. CASE MainContinues \/ MainStops \/ MainJoins \/ MainSpawns \/ CycleStep \/ UNCHANGED vars
           \/ (\E p \in Plugins : HookReturns(p))
           \/ (\E t \in Threads : Track(t) \/ \E c \in Calls : BeginCreate(t, c))
  <2>1. UNCHANGED <<finish, closing>>
    BY <1>6 DEF MainContinues, MainStops, MainJoins, MainSpawns, CycleStep, StartCycle, Collect,
                CallPreAggregate, JoinPreAggregate, ClearRaw, AllCleared, CallPostAggregate,
                JoinPostAggregate, HookReturns, Track, BeginCreate, finishVars, vars
  <2> QED
    BY <2>1 DEF Emptied
<1> QED
  BY <1>1, <1>2, <1>3, <1>4, <1>5, <1>6 DEF Next, AtRest

LEMMA KeptStep ==
  ASSUME IInv, [Next]_vars
  PROVE  LostByLimitsOnly'
<1> SUFFICES ASSUME NEW k \in Kinds, NEW s \in Sources, ~Emptied(s)', ~(k = "raw" /\ dump_raw')
             PROVE  KeptIn(data'[k][s], last'[k][s], made'[k][s], seen'[k][s], Capacity(k))
  BY DEF LostByLimitsOnly, Kept, KeptIn
<1>1. Good(data[k][s], last[k][s], made[k][s], seen[k][s]) /\ Capacity(k) \in Nat
  BY CapacityTyped DEF IInv, QueuesGood
<1>2. dump_raw' = dump_raw
  BY DEF Next, CycleStep, AtRest, vars, mainVars, CreateDataSource, Track, BeginCreate, MainContinues,
         MainStops, MainJoins, MainSpawns, StartCycle, Collect, CallPreAggregate, JoinPreAggregate,
         ClearRaw, AllCleared, CallPostAggregate, JoinPostAggregate, HookReturns, FinishBegins,
         FinishJoins, CloseSource, FinishCloses
<1>3. KeptIn(data[k][s], last[k][s], made[k][s], seen[k][s], Capacity(k))
  <2>1. CASE Emptied(s)
    <3>1. made[k][s] = 0
      BY <2>1, EmptiedStays DEF IInv, Ordered
    <3> QED
      BY <3>1 DEF KeptIn
  <2>2. CASE ~Emptied(s)
    BY <1>2, <2>2 DEF IInv, LostByLimitsOnly, Kept, KeptIn
  <2> QED
    BY <2>1, <2>2
<1>4. CASE Same(k, s)
  BY <1>3, <1>4 DEF Same
<1>5. CASE Tracked(k, s)
  BY <1>1, <1>3, <1>5, KeptTrack DEF Tracked
<1>6. CASE Collected(k, s)
  <2>1. /\ seen'[k][s] = seen[k][s] \o NewSince(data[k][s], last[k][s])
        /\ made'[k][s] = made[k][s]
    BY <1>6 DEF Collected
  <2>2. \A f \in 1..made'[k][s] : f \in Elements(seen'[k][s]) \/ made'[k][s] - f >= Capacity(k)
    BY <1>1, <1>3, <2>1, KeptCollect
  <2> QED
    BY <2>2 DEF KeptIn
<1>7. CASE Cleared(k, s)
  BY <1>7 DEF Cleared
<1> QED
  BY <1>4, <1>5, <1>6, <1>7, QueueStep

-----------------------------------------------------------------------------
(* Types, and the order of the session's steps.                            *)

LEMMA TypeInit == Init => TypeOK
<1> SUFFICES ASSUME Init PROVE TypeOK
  OBVIOUS
<1>1. \A x, S : x \in S => PerSource(x) \in [Kinds -> [Sources -> S]]
  BY DEF PerSource
<1>2. 0 \in Nat /\ <<>> \in Seq(Nat)
  OBVIOUS
<1>3. /\ data \in [Kinds -> [Sources -> Seq(Nat)]] /\ seen \in [Kinds -> [Sources -> Seq(Nat)]]
      /\ last \in [Kinds -> [Sources -> Nat]] /\ made \in [Kinds -> [Sources -> Nat]]
  BY <1>1, <1>2 DEF Init
<1>4. call \in [Threads -> Calls \cup {None}] /\ fresh \in [Sources -> SUBSET Nat]
  BY DEF Init
<1> QED
  BY <1>3, <1>4 DEF Init, TypeOK, CyclePoints, FinishPoints

LEMMA TypeStep ==
  ASSUME TypeOK, QueuesGood, [Next]_vars
  PROVE  TypeOK'
<1>1. ASSUME NEW s \in Sources, CreateDataSource(s) PROVE TypeOK'
  BY <1>1 DEF TypeOK, CreateDataSource, mainVars, cycleVars, queueVars
<1>2. ASSUME NEW t \in Threads, NEW c \in Calls, BeginCreate(t, c) PROVE TypeOK'
  BY <1>2 DEF TypeOK, BeginCreate, mainVars, cycleVars, finishVars, queueVars
<1>3. ASSUME NEW t \in Threads, Track(t) PROVE TypeOK'
  <2>1. /\ made' \in [Kinds -> [Sources -> Nat]] /\ data' \in [Kinds -> [Sources -> Seq(Nat)]]
        /\ fresh' \in [Sources -> SUBSET Nat]
    BY <1>3, TrackEffect
  <2>2. call' = [call EXCEPT ![t] = None]
    BY <1>3 DEF Track
  <2> QED
    BY <1>3, <2>1, <2>2 DEF TypeOK, Track, mainVars, cycleVars, finishVars
<1>4. CASE MainContinues \/ MainStops \/ MainJoins \/ MainSpawns
  BY <1>4 DEF TypeOK, CyclePoints, MainContinues, MainStops, MainJoins, MainSpawns,
              cycleVars, finishVars, queueVars
<1>5. ASSUME NEW k \in Kinds, NEW s \in Sources, Collect(k, s) PROVE TypeOK'
  <2>1. last' \in [Kinds -> [Sources -> Nat]] /\ seen' \in [Kinds -> [Sources -> Seq(Nat)]]
    BY <1>5, CollectEffect
  <2> QED
    BY <1>5, <2>1 DEF TypeOK, Collect, mainVars, finishVars
<1>6. CASE StartCycle \/ CallPreAggregate \/ CallPostAggregate
  BY <1>6 DEF TypeOK, CyclePoints, StartCycle, CallPreAggregate, CallPostAggregate, Goto,
              mainVars, finishVars, queueVars
<1>7. CASE JoinPreAggregate \/ AllCleared \/ JoinPostAggregate
  BY <1>7 DEF TypeOK, CyclePoints, JoinPreAggregate, AllCleared, JoinPostAggregate, Goto,
              mainVars, finishVars, queueVars
<1>8. ASSUME NEW s \in Sources, ClearRaw(s) PROVE TypeOK'
  <2>1. data' = [data EXCEPT !["raw"][s] = <<>>] /\ <<>> \in Seq(Nat)
    BY <1>8 DEF ClearRaw
  <2>2. data' \in [Kinds -> [Sources -> Seq(Nat)]]
    BY <2>1 DEF TypeOK
  <2> QED
    BY <1>8, <2>2 DEF TypeOK, ClearRaw, mainVars, finishVars
<1>9. ASSUME NEW p \in Plugins, HookReturns(p) PROVE TypeOK'
  BY <1>9 DEF TypeOK, HookReturns, mainVars, finishVars, queueVars
<1>10. CASE FinishBegins \/ FinishJoins \/ FinishCloses
  BY <1>10 DEF TypeOK, CyclePoints, FinishPoints, FinishBegins, FinishJoins, FinishCloses,
               mainVars, cycleVars, queueVars
<1>11. ASSUME NEW s \in Sources, CloseSource(s) PROVE TypeOK'
  <2>1. /\ data' = [k \in Kinds |-> [data[k] EXCEPT ![s] = <<>>]] /\ <<>> \in Seq(Nat)
        /\ last' = [k \in Kinds |-> [last[k] EXCEPT ![s] = 0]]
    BY <1>11 DEF CloseSource
  <2>2. data' \in [Kinds -> [Sources -> Seq(Nat)]] /\ last' \in [Kinds -> [Sources -> Nat]]
    BY <2>1 DEF TypeOK
  <2> QED
    BY <1>11, <2>2 DEF TypeOK, CloseSource, mainVars, cycleVars
<1>12. CASE UNCHANGED vars
  BY <1>12 DEF TypeOK, vars
<1> QED
  BY <1>1, <1>2, <1>3, <1>4, <1>5, <1>6, <1>7, <1>8, <1>9, <1>10, <1>11, <1>12
     DEF Next, CycleStep, AtRest

LEMMA OrderedStep ==
  ASSUME IInv, [Next]_vars
  PROVE  Ordered'
<1> USE DEF IInv
<1>1. ASSUME NEW s \in Sources, CreateDataSource(s) PROVE Ordered'
  <2>1. /\ sources' = sources \cup {s}
        /\ closing' = closing \/ (finish = "close" /\ closing' = closing \cup {s})
        /\ UNCHANGED <<exiting, finish, closed, call, made>>
    BY <1>1 DEF CreateDataSource, mainVars, queueVars
  <2> QED
    BY <2>1 DEF Ordered
<1>2. ASSUME NEW t \in Threads, NEW c \in Calls, BeginCreate(t, c) PROVE Ordered'
  <2>1. /\ c.source \in sources /\ call' = [call EXCEPT ![t] = c]
        /\ UNCHANGED <<exiting, finish, closing, closed, sources, made>>
    BY <1>2 DEF BeginCreate, mainVars, finishVars, queueVars
  <2>2. \A u \in Threads : call'[u] # None => call'[u].source \in sources
    BY <2>1 DEF Ordered, TypeOK
  <2> QED
    BY <2>1, <2>2 DEF Ordered
<1>3. ASSUME NEW t \in Threads, Track(t) PROVE Ordered'
  <2>1. call[t] # None /\ call' = [call EXCEPT ![t] = None]
        /\ UNCHANGED <<exiting, finish, closing, closed, sources>>
    BY <1>3 DEF Track, mainVars, finishVars
  <2>2. \A u \in Threads : call'[u] # None => call'[u] = call[u]
    BY <2>1 DEF TypeOK
  <2>3. PICK k0 \in Kinds, s0 \in Sources :
          /\ call[t] = [kind |-> k0, source |-> s0]
          /\ \A k \in Kinds, s \in Sources : k # k0 \/ s # s0 => Same(k, s)
    BY <1>3, TrackEffect
  <2>4. s0 \in sources
    BY <2>1, <2>3 DEF Ordered
  <2>5. \A k \in Kinds : \A s \in Sources \ sources : made'[k][s] = 0
    BY <2>3, <2>4 DEF Same, Ordered
  <2> QED
    BY <2>1, <2>2, <2>5 DEF Ordered
<1>4. CASE MainContinues \/ MainStops \/ MainJoins \/ MainSpawns
  BY <1>4 DEF Ordered, MainContinues, MainStops, MainJoins, MainSpawns, cycleVars, finishVars, queueVars
<1>5. CASE CycleStep
  <2>1. UNCHANGED <<exiting, finish, closing, closed, sources, call, made>>
    BY <1>5 DEF CycleStep, StartCycle, Collect, CallPreAggregate, JoinPreAggregate, ClearRaw,
                AllCleared, CallPostAggregate, JoinPostAggregate, mainVars, finishVars, queueVars
  <2> QED
    BY <2>1 DEF Ordered
<1>6. ASSUME NEW p \in Plugins, HookReturns(p) PROVE Ordered'
  BY <1>6 DEF Ordered, HookReturns, mainVars, finishVars, queueVars
<1>7. CASE FinishBegins
  BY <1>7 DEF Ordered, FinishBegins, queueVars
<1>8. CASE FinishJoins
  BY <1>8 DEF Ordered, FinishJoins, mainVars, queueVars
<1>9. ASSUME NEW s \in Sources, CloseSource(s) PROVE Ordered'
  BY <1>9 DEF Ordered, CloseSource, mainVars
<1>10. CASE FinishCloses
  BY <1>10 DEF Ordered, FinishCloses, mainVars, queueVars
<1>11. CASE UNCHANGED vars
  BY <1>11 DEF Ordered, vars
<1> QED
  BY <1>1, <1>2, <1>3, <1>4, <1>5, <1>6, <1>7, <1>8, <1>9, <1>10, <1>11 DEF Next, AtRest

LEMMA CycleOrderedStep ==
  ASSUME IInv, [Next]_vars
  PROVE  CycleOrdered'
<1> USE DEF IInv
<1>1. ASSUME NEW s \in Sources, CreateDataSource(s) PROVE CycleOrdered'
  BY <1>1 DEF CycleOrdered, CreateDataSource, mainVars, cycleVars, queueVars
<1>2. ASSUME NEW t \in Threads, NEW c \in Calls, BeginCreate(t, c) PROVE CycleOrdered'
  BY <1>2 DEF CycleOrdered, BeginCreate, mainVars, cycleVars, queueVars
<1>3. ASSUME NEW t \in Threads, Track(t) PROVE CycleOrdered'
  <2>1. UNCHANGED <<dump_raw, main, cycle, todo, hooks>>
    BY <1>3 DEF Track, mainVars, cycleVars
  <2>2. PICK k0 \in Kinds, s0 \in Sources :
          /\ Tracked(k0, s0)
          /\ \A k \in Kinds, s \in Sources : k # k0 \/ s # s0 => Same(k, s)
          /\ \A s \in Sources : fresh'[s] = fresh[s] \/ FreshBy(t, k0, s0, s)
    BY <1>3, TrackEffect
  <2>3. \A k \in Kinds, s \in Sources : made[k][s] \in Nat
    BY DEF TypeOK
  <2>4. ASSUME NEW s \in Sources PROVE fresh'[s] \subseteq 1..made'["agg"][s]
    <3>1. fresh[s] \subseteq 1..made["agg"][s]
      BY DEF CycleOrdered
    <3>2. made'["agg"][s] = made["agg"][s] \/ made'["agg"][s] = made["agg"][s] + 1
      BY <2>2 DEF Same, Tracked, Kinds
    <3>3. CASE fresh'[s] = fresh[s]
      BY <2>3, <3>1, <3>2, <3>3 DEF Kinds
    <3>4. CASE FreshBy(t, k0, s0, s)
      <4>1. made'["agg"][s] = made["agg"][s] + 1
        BY <2>2, <3>4 DEF Tracked, FreshBy
      <4> QED
        BY <2>3, <3>1, <3>4, <4>1 DEF Kinds, FreshBy
    <3> QED
      BY <2>2, <3>3, <3>4
  <2> QED
    BY <2>1, <2>4 DEF CycleOrdered
<1>4. CASE MainContinues \/ MainStops \/ MainJoins \/ MainSpawns
  BY <1>4 DEF CycleOrdered, MainContinues, MainStops, MainJoins, MainSpawns, cycleVars, queueVars
<1>5. ASSUME NEW k \in Kinds, NEW s \in Sources, Collect(k, s) PROVE CycleOrdered'
  BY <1>5 DEF CycleOrdered, Collect, mainVars
<1>6. CASE StartCycle
  BY <1>6 DEF CycleOrdered, StartCycle, Goto, mainVars, queueVars
<1>7. CASE CallPreAggregate \/ CallPostAggregate
  BY <1>7 DEF CycleOrdered, CallPreAggregate, CallPostAggregate, Goto, mainVars, queueVars
<1>8. CASE JoinPreAggregate \/ AllCleared \/ JoinPostAggregate
  BY <1>8 DEF CycleOrdered, JoinPreAggregate, AllCleared, JoinPostAggregate, Goto, mainVars, queueVars
<1>9. ASSUME NEW s \in Sources, ClearRaw(s) PROVE CycleOrdered'
  BY <1>9 DEF CycleOrdered, ClearRaw, mainVars
<1>10. ASSUME NEW p \in Plugins, HookReturns(p) PROVE CycleOrdered'
  BY <1>10 DEF CycleOrdered, HookReturns, mainVars, queueVars
<1>11. CASE FinishBegins \/ FinishJoins \/ FinishCloses
  BY <1>11 DEF CycleOrdered, FinishBegins, FinishJoins, FinishCloses, mainVars, cycleVars, queueVars
<1>12. ASSUME NEW s \in Sources, CloseSource(s) PROVE CycleOrdered'
  BY <1>12 DEF CycleOrdered, CloseSource, mainVars, cycleVars
<1>13. CASE UNCHANGED vars
  BY <1>13 DEF CycleOrdered, vars
<1> QED
  BY <1>1, <1>2, <1>3, <1>4, <1>5, <1>6, <1>7, <1>8, <1>9, <1>10, <1>11, <1>12, <1>13
     DEF Next, CycleStep, AtRest

-----------------------------------------------------------------------------
(* Aggregates and the callbacks of their cycle.                            *)

(* What was handed out stays so, what was pushed out too. *)
LEMMA PassedStays ==
  ASSUME IInv, [Next]_vars, NEW s \in Sources, Passed(s), fresh'[s] = fresh[s]
  PROVE  Passed(s)'
<1> USE DEF IInv
<1> SUFFICES ASSUME NEW f \in fresh[s]
             PROVE  f \in Elements(seen'["agg"][s]) \/ made'["agg"][s] - f >= MaxAgg \/ Emptied(s)'
  BY DEF Passed
<1>1. s \in sources
  BY DEF CycleOrdered, Ordered, Kinds
<1>2. made["agg"][s] \in Nat /\ f \in Nat /\ MaxAgg \in Nat
  BY DataAssumption DEF TypeOK, CycleOrdered, Kinds
<1>3. Emptied(s) => Emptied(s)'
  BY <1>1, EmptiedStays
<1>4. made'["agg"][s] = made["agg"][s] \/ made'["agg"][s] = made["agg"][s] + 1
  BY QueueStep DEF Same, Tracked, Collected, Cleared, Kinds
<1>5. Elements(seen["agg"][s]) \subseteq Elements(seen'["agg"][s])
  <2>1. CASE seen'["agg"][s] = seen["agg"][s]
    BY <2>1
  <2>2. CASE Collected("agg", s)
    <3> DEFINE new == NewSince(data["agg"][s], last["agg"][s])
    <3>1. seen'["agg"][s] = seen["agg"][s] \o new
      BY <2>2 DEF Collected
    <3>2. seen["agg"][s] \in Seq(Nat) /\ Good(data["agg"][s], last["agg"][s], made["agg"][s], seen["agg"][s])
      BY DEF QueuesGood, TypeOK, Kinds
    <3>3. new \in Seq(Nat)
      BY <3>2, NewFrames
    <3> HIDE DEF new
    <3>4. \A i \in 1..Len(seen["agg"][s]) :
            i \in 1..Len(seen["agg"][s] \o new) /\ (seen["agg"][s] \o new)[i] = seen["agg"][s][i]
      BY <3>2, <3>3
    <3> QED
      BY <3>1, <3>4 DEF Elements
  <2> QED
    BY <2>1, <2>2, QueueStep DEF Same, Tracked, Cleared, Kinds
<1> QED
  BY <1>2, <1>3, <1>4, <1>5 DEF Passed

LEMMA FreshStep ==
  ASSUME IInv, [Next]_vars
  PROVE  FreshPassed'
<1> USE DEF IInv
<1>1. ASSUME NEW s \in Sources, Passed(s), fresh'[s] = fresh[s] PROVE Passed(s)'
  BY <1>1, PassedStays
<1>2. ASSUME NEW t \in Threads, Track(t) PROVE FreshPassed'
  <2>1. UNCHANGED <<cycle, todo>>
    BY <1>2 DEF Track, cycleVars
  <2>2. ASSUME cycle \in {"aggs", "post"} PROVE \A s \in Sources : fresh'[s] = fresh[s]
    <3>1. ~(cycle \in {"pre", "clear", "aggs"} /\ t \in hooks)
      BY <2>2 DEF CycleOrdered
    <3> QED
      BY <1>2, <3>1, TrackEffect DEF FreshBy
  <2> QED
    BY <1>1, <2>1, <2>2 DEF FreshPassed
<1>3. ASSUME NEW k0 \in Kinds, NEW s0 \in Sources, Collect(k0, s0) PROVE FreshPassed'
  <2>1. /\ cycle = (IF k0 = "raw" THEN "raws" ELSE "aggs") /\ todo' = todo \ {s0}
        /\ UNCHANGED <<cycle, fresh, finish, closing, closed>>
    BY <1>3 DEF Collect, finishVars
  <2>2. CASE k0 = "raw"
    BY <2>1, <2>2 DEF FreshPassed
  <2>3. CASE k0 = "agg"
    <3>1. \A s \in Sources \ todo : Passed(s)'
      BY <1>1, <2>1, <2>3 DEF FreshPassed
    <3>2. Passed(s0)'
      <4>1. Good(data["agg"][s0], last["agg"][s0], made["agg"][s0], seen["agg"][s0])
        BY DEF QueuesGood, Kinds
      <4>2. CASE Emptied(s0)
        BY <2>1, <4>2 DEF Passed, Emptied
      <4>3. CASE ~Emptied(s0)
        <5> DEFINE new == NewSince(data["agg"][s0], last["agg"][s0])
        <5>1. ~closed
          BY <4>3 DEF Ordered, Emptied
        <5>2. KeptIn(data["agg"][s0], last["agg"][s0], made["agg"][s0], seen["agg"][s0], MaxAgg)
          BY <4>3 DEF LostByLimitsOnly, Kept, KeptIn, Capacity, Kinds
        <5>3. MaxAgg \in Nat
          BY DataAssumption
        <5>4. \A f \in 1..made["agg"][s0] :
                f \in Elements(seen["agg"][s0] \o new) \/ made["agg"][s0] - f >= MaxAgg
          BY <4>1, <5>2, <5>3, KeptCollect
        <5>5. seen["agg"][s0] \in Seq(Nat) /\ seen["agg"][s0] \o <<>> = seen["agg"][s0]
          BY DEF TypeOK, Kinds
        <5>6. made'["agg"][s0] = made["agg"][s0] /\ seen'["agg"][s0] = seen["agg"][s0] \o new
          BY <1>3, <2>3, <5>1, <5>5, CollectEffect DEF Same, Collected
        <5>7. fresh'[s0] \subseteq 1..made["agg"][s0]
          BY <2>1 DEF CycleOrdered
        <5> HIDE DEF new
        <5> QED
          BY <5>4, <5>6, <5>7 DEF Passed
      <4> QED
        BY <4>2, <4>3
    <3> QED
      BY <2>1, <3>1, <3>2 DEF FreshPassed
  <2> QED
    BY <2>2, <2>3 DEF Kinds
<1>4. CASE JoinPreAggregate \/ AllCleared
  <2>1. todo' = sources /\ UNCHANGED fresh
    BY <1>4 DEF JoinPreAggregate, AllCleared
  <2>2. \A s \in Sources \ sources : fresh[s] = {}
    BY DEF CycleOrdered, Ordered, Kinds
  <2> QED
    BY <2>1, <2>2 DEF FreshPassed, Passed
<1>5. CASE StartCycle \/ CallPreAggregate
  BY <1>5 DEF StartCycle, CallPreAggregate, Goto, FreshPassed
<1>6. CASE CallPostAggregate
  <2>1. cycle = "aggs" /\ todo = {} /\ UNCHANGED <<todo, fresh>>
    BY <1>6 DEF CallPostAggregate
  <2> QED
    BY <1>1, <2>1 DEF FreshPassed
<1>7. CASE JoinPostAggregate
  BY <1>7 DEF JoinPostAggregate, Goto, FreshPassed
<1>8. CASE MainContinues \/ MainStops \/ MainJoins \/ MainSpawns
  <2>1. UNCHANGED <<todo, fresh>> /\ (UNCHANGED cycle \/ cycle' \in {"none", "start"})
    BY <1>8 DEF MainContinues, MainStops, MainJoins, MainSpawns, cycleVars
  <2> QED
    BY <1>1, <2>1 DEF FreshPassed
<1>9. ASSUME NEW s \in Sources, ClearRaw(s) PROVE FreshPassed'
  BY <1>9 DEF ClearRaw, FreshPassed
<1>10. CASE FinishJoins
  BY <1>10 DEF FinishJoins, FreshPassed
<1>11. CASE \/ FinishBegins \/ FinishCloses \/ UNCHANGED vars
            \/ \E s \in Sources : CreateDataSource(s) \/ CloseSource(s)
            \/ \E t \in Threads : \E c \in Calls : BeginCreate(t, c)
            \/ \E p \in Plugins : HookReturns(p)
  <2>1. UNCHANGED <<cycle, todo, fresh>>
    BY <1>11 DEF FinishBegins, FinishCloses, vars, CreateDataSource, CloseSource, BeginCreate,
                 HookReturns, cycleVars
  <2> QED
    BY <1>1, <2>1 DEF FreshPassed
<1> QED
  BY <1>2, <1>3, <1>4, <1>5, <1>6, <1>7, <1>8, <1>9, <1>10, <1>11 DEF Next, CycleStep, AtRest

-----------------------------------------------------------------------------
LEMMA InvInit == Init => IInv
<1> SUFFICES ASSUME Init PROVE IInv
  OBVIOUS
<1>1. TypeOK
  BY TypeInit
<1>2. \A k \in Kinds, s \in Sources :
        data[k][s] = <<>> /\ last[k][s] = 0 /\ made[k][s] = 0 /\ seen[k][s] = <<>>
  BY DEF Init, PerSource
<1>3. QueuesGood
  <2>1. Good(<<>>, 0, 0, <<>>)
    BY DEF Good
  <2> QED
    BY <1>2, <2>1 DEF QueuesGood
<1>4. Ordered /\ CycleOrdered /\ FreshPassed
  BY <1>2 DEF Init, Ordered, CycleOrdered, FreshPassed, PerSource
<1>5. LostByLimitsOnly
  BY <1>2 DEF LostByLimitsOnly, Kept
<1> QED
  BY <1>1, <1>3, <1>4, <1>5 DEF IInv

LEMMA IInvHolds == Spec => []IInv
<1>1. IInv /\ [Next]_vars => IInv'
  BY TypeStep, GoodStep, OrderedStep, CycleOrderedStep, KeptStep, FreshStep DEF IInv
<1> QED
  BY <1>1, InvInit, PTL DEF Spec

(* Every variable of DataFlow keeps its type. *)
THEOREM TypeCorrect == Spec => []TypeOK
<1>1. IInv => TypeOK
  BY DEF IInv
<1> QED
  BY <1>1, IInvHolds, PTL

(* get_new_raws and get_new_aggs hand a frame out once at most and never   *)
(* after a younger one, whatever is dropped, cleared or tracked between    *)
(* two cycles, as long as the source is open.                              *)
THEOREM OnceInOrder == Spec => []DeliveredOnceInOrder
<1>1. IInv => DeliveredOnceInOrder
  BY DEF IInv, QueuesGood, Good, DeliveredOnceInOrder
<1> QED
  BY <1>1, IInvHolds, PTL

(* As long as a source is open and raw frames are not dumped, a frame that *)
(* was tracked has been handed out, will be by the next cycle, or so many  *)
(* younger ones were tracked that the queue could not hold it.             *)
THEOREM LimitsOnly == Spec => []LostByLimitsOnly
<1>1. IInv => LostByLimitsOnly
  BY DEF IInv
<1> QED
  BY <1>1, IInvHolds, PTL

(* The aggregates that the pre_aggregate callbacks track are handed to the *)
(* post_aggregate callbacks of the same cycle.                             *)
THEOREM FreshAggregates == Spec => []AggregatesReachPost
<1>1. IInv => AggregatesReachPost
  <2> SUFFICES ASSUME IInv, cycle = "post", NEW s \in Sources PROVE Passed(s)
    BY DEF AggregatesReachPost, Passed
  <2> QED
    BY DEF IInv, CycleOrdered, FreshPassed
<1> QED
  BY <1>1, IInvHolds, PTL
=============================================================================
