-------------------------- MODULE SqliteStore_proofs --------------------------
(***************************************************************************)
(* Proofs about SqliteStore, for any states, values and limits: rows keep  *)
(* their frames (RowsKept) and hold what these became (FinalDataSaved),    *)
(* the table has what the registry has (RegistryRecorded), and a state     *)
(* comes back (StatesComeBack).                                            *)
(*                                                                         *)
(* Frames: a row belongs to one frame in memory at most, and only that     *)
(* one knows what has become of it (Linked).  A frame that has a row must  *)
(* not get another, or the first would lose it: it does not, because it is *)
(* never behind the pointer (HandedOutOnce).  The id that it takes is the  *)
(* place of its row, or a state was inserted in between (InBetween); and   *)
(* none dies in between, because the cycle holds it.                       *)
(*                                                                         *)
(* States: what the registry is about to forget is the last record         *)
(* (Remembered), and the last record is the youngest (Timed).              *)
(***************************************************************************)
EXTENDS SqliteStore, WellFoundedInduction, TLAPS

Counters ==
  /\ now \in 0..MaxTime /\ starts \in 0..MaxStarts /\ made \in 0..MaxFrames
  /\ sets \in 0..MaxSets /\ edits \in 0..MaxEdits
  /\ phase \in {"down", "opening", "restored", "loaded"}
  /\ cycle \in {"idle", "with", "without", "post", "insert"}

-----------------------------------------------------------------------------
(* The invariant of the frames.                                            *)

Objects(os) == \A o \in DOMAIN os : o \in Nat \ {0} /\ os[o] \in Frame

FrameTypes ==
  /\ rows \in Seq(Row)
  /\ Objects(objs)
  /\ ToSet(queue) \cup ToSet(todo) \cup hand \cup ({last} \ {0}) \subseteq DOMAIN objs
  /\ truth \in Seq(Nat) /\ torn \cup mixed \cup spoilt \subseteq DOMAIN rows
  /\ rowid \in Nat

(* A frame that has a row knows what has become of it, and no other frame  *)
(* has the row; one with the callback of its destructor has its row's id   *)
(* or took it after a state was inserted.                                  *)
Linked(os) ==
  /\ \A o \in DOMAIN os : os[o].row # 0 =>
       /\ os[o].row \in DOMAIN rows
       /\ truth[os[o].row] = os[o].version
       /\ os[o].row \notin spoilt =>
            rows[os[o].row].frame = os[o].frame /\ rows[os[o].row].time = os[o].time
  /\ \A o, p \in DOMAIN os : (os[o].row # 0 /\ os[o].row = os[p].row) => o = p
  /\ \A o \in DOMAIN os : os[o].update =>
       os[o].row # 0 /\ (os[o].row \in mixed \/ os[o].id = os[o].row)

Saved(os) ==
  \A i \in DOMAIN rows \ (mixed \cup spoilt) :
    \/ rows[i].version = truth[i]
    \/ i \in torn
    \/ \E o \in DOMAIN os : os[o].row = i

Ascending(s) == \A i, j \in 1..Len(s) : i < j => s[i] < s[j]

(* The queue, and the pointer into it. *)
Queued(q, l) ==
  /\ q \in Seq(Nat \ {0}) /\ Ascending(q)
  /\ l \in Nat
  /\ l \in ToSet(q) \/ \A i \in 1..Len(q) : q[i] > l

(* Frames behind the pointer have no row, and those that are still to be   *)
(* inserted no id.                                                         *)
HandedOutOnce ==
  /\ todo \in Seq(Nat) /\ Ascending(todo)
  /\ \A o \in DOMAIN objs : objs[o].row # 0 => o <= last
  /\ \A x \in ToSet(todo) : x \in hand /\ x <= last /\ ~objs[x].update
  /\ cycle \notin {"post", "insert"} => todo = <<>>

(* Between the insertion of a row and its id: the only frame with a row    *)
(* and no callback.                                                        *)
InBetween ==
  /\ \A o \in DOMAIN objs : (objs[o].row # 0 /\ ~objs[o].update) => cycle = "insert" /\ o = Head(todo)
  /\ cycle = "insert" =>
       /\ todo # <<>> /\ Len(rows) # 0 /\ objs[Head(todo)].row = Len(rows)
       /\ rowid = Len(rows) \/ Len(rows) \in mixed

Bounded == \E b \in Nat : \A o \in DOMAIN objs : o <= b

FInv ==
  /\ FrameTypes
  /\ Len(truth) = Len(rows)
  /\ Linked(objs)
  /\ Saved(objs)
  /\ Queued(queue, last)
  /\ HandedOutOnce
  /\ InBetween
  /\ Bounded

-----------------------------------------------------------------------------
(* The invariant of the states.                                            *)

StateTypes ==
  /\ registry \in [Keys -> Values \cup {None}]
  /\ restoring \in [Keys -> Values \cup {None}]
  /\ hook \in [key : Keys, value : Values] \cup {None}
  /\ aware \in BOOLEAN
  /\ records \in Seq(Record)
  /\ missed \subseteq Keys /\ final \in [Keys -> Values \cup {None}]

(* The callback is of the last value, and is run only for a plugin that    *)
(* the session has.                                                        *)
Called ==
  /\ hook # None => aware /\ registry[hook.key] = hook.value
  /\ aware => phase = "loaded"
  /\ phase = "down" => \A k \in Keys : registry[k] = None /\ restoring[k] = None

(* Records are in the order of time. *)
Timed ==
  /\ \A i, j \in DOMAIN records : i <= j => records[i].time <= records[j].time
  /\ \A i \in DOMAIN records : records[i].time <= now

(* What a state was at the end of the session before is its last record,   *)
(* until this session has recorded it.                                     *)
Remembered ==
  \A k \in Keys :
    (final[k] # None /\ (phase # "loaded" \/ registry[k] = None)) => LastRecorded(k) = final[k]

Restored ==
  phase = "restored" => \A k \in Keys : restoring[k] # None => restoring[k] \in Youngest(k)

SInv ==
  /\ StateTypes
  /\ RegistryRecorded
  /\ Called
  /\ Timed
  /\ Remembered
  /\ Restored

IInv == Counters /\ FInv /\ SInv

-----------------------------------------------------------------------------
(* Sets and sequences.                                                     *)

LEMMA MaxOfPair ==
  ASSUME NEW a \in Int, NEW b \in Int, NEW S, S = {a, b}
  PROVE  Max(S) = IF a >= b THEN a ELSE b
<1> DEFINE m == IF a >= b THEN a ELSE b
<1>1. m \in {a, b} /\ \A y \in {a, b} : m >= y
  OBVIOUS
<1>2. \A x \in {a, b} : (\A y \in {a, b} : x >= y) => x = m
  OBVIOUS
<1> HIDE DEF m
<1>3. Max(S) = m
  BY <1>1, <1>2 DEF Max
<1> QED
  BY <1>3 DEF m

LEMMA MaxOfBounded ==
  ASSUME NEW S, S \subseteq Nat, S # {}, NEW b \in Nat, \A x \in S : x <= b
  PROVE  Max(S) \in S /\ Max(S) \in Nat /\ \A x \in S : x <= Max(S)
<1> DEFINE U == {u \in Nat : \A x \in S : x <= u}
<1>1. PICK m \in U : \A u \in U : m <= u
  <2>1. U \subseteq Nat /\ b \in U
    OBVIOUS
  <2> HIDE DEF U
  <2>2. PICK m \in U : \A u \in U : <<u, m>> \notin OpToRel(<, Nat)
    BY <2>1, NatLessThanWellFounded, WFMin
  <2>3. \A u \in U : ~(u < m)
    BY <2>1, <2>2 DEF OpToRel
  <2> QED
    BY <2>1, <2>3
<1>2. m \in S
  <2>1. SUFFICES ASSUME m \notin S PROVE FALSE
    OBVIOUS
  <2>2. PICK x \in S : TRUE
    OBVIOUS
  <2>3. x <= m /\ x # m /\ x \in Nat /\ m \in Nat
    BY <2>1, <2>2
  <2>4. m - 1 \in Nat
    BY <2>3
  <2>5. \A y \in S : y <= m - 1
    BY <2>1, <2>3
  <2> QED
    BY <1>1, <2>3, <2>4, <2>5
<1>3. \A y \in S : m >= y
  OBVIOUS
<1>4. Max(S) = m
  <2>1. \A x \in S : (\A y \in S : x >= y) => x = m
    BY <1>2, <1>3
  <2> QED
    BY <1>2, <1>3, <2>1 DEF Max
<1> QED
  BY <1>2, <1>3, <1>4

(* The rest of a sequence from m on. *)
LEMMA Suffix ==
  ASSUME NEW S, NEW s \in Seq(S), NEW m \in Nat, 1 <= m, m <= Len(s) + 1,
         NEW t, t = SubSeq(s, m, Len(s))
  PROVE  /\ t \in Seq(S) /\ Len(t) = Len(s) - m + 1
         /\ \A i \in 1..Len(t) : t[i] = s[m + i - 1]
  OBVIOUS

LEMMA SuffixAscends ==
  ASSUME NEW s \in Seq(Nat \ {0}), Ascending(s), NEW m \in Nat, 1 <= m, m <= Len(s) + 1,
         NEW t, t = SubSeq(s, m, Len(s))
  PROVE  t \in Seq(Nat \ {0}) /\ Ascending(t) /\ ToSet(t) \subseteq ToSet(s)
         /\ \A i \in 1..Len(s) : i >= m => s[i] \in ToSet(t)
<1>1. /\ t \in Seq(Nat \ {0}) /\ Len(t) = Len(s) - m + 1 /\ Len(s) \in Nat
      /\ \A i \in 1..Len(t) : t[i] = s[m + i - 1] /\ m + i - 1 \in 1..Len(s)
  BY Suffix
<1>2. Ascending(t)
  <2> SUFFICES ASSUME NEW i \in 1..Len(t), NEW j \in 1..Len(t), i < j PROVE t[i] < t[j]
    BY DEF Ascending
  <2>1. PICK a, b \in 1..Len(s) : a = m + i - 1 /\ b = m + j - 1
    BY <1>1
  <2>2. a < b
    BY <1>1, <2>1
  <2>3. s[a] < s[b]
    BY <2>2 DEF Ascending
  <2>4. t[i] = s[a] /\ t[j] = s[b]
    BY <1>1, <2>1
  <2> QED
    BY <2>3, <2>4
<1>3. ToSet(t) \subseteq ToSet(s)
  BY <1>1 DEF ToSet
<1>4. ASSUME NEW i \in 1..Len(s), i >= m PROVE s[i] \in ToSet(t)
  <2>1. \E j \in Nat : j = i - m + 1
    BY <1>1, <1>4
  <2>2. PICK j \in Nat : j = i - m + 1
    BY <2>1
  <2>3. j \in 1..Len(t) /\ m + j - 1 = i
    BY <1>1, <1>4, <2>2
  <2>4. t[j] = s[i] /\ j \in DOMAIN t
    BY <1>1, <2>3
  <2> QED
    BY <2>4 DEF ToSet
<1> QED
  BY <1>1, <1>2, <1>3, <1>4

(* A function from 1..n is a sequence of n elements. *)
LEMMA AsSequence ==
  ASSUME NEW S, NEW n \in Nat, NEW f \in [1..n -> S]
  PROVE  f \in Seq(S) /\ Len(f) = n
<1>1. f \in Seq(S)
  OBVIOUS
<1>2. DOMAIN f = 1..n
  OBVIOUS
<1> QED
  BY <1>1, <1>2

LEMMA Singleton ==
  ASSUME NEW S, NEW e \in S
  PROVE  <<e>> \in Seq(S) /\ Len(<<e>>) = 1 /\ <<e>>[1] = e
  OBVIOUS

LEMMA Concatenation ==
  ASSUME NEW S, NEW s \in Seq(S), NEW t \in Seq(S)
  PROVE  /\ s \o t \in Seq(S) /\ Len(s \o t) = Len(s) + Len(t)
         /\ \A i \in 1..Len(s) : (s \o t)[i] = s[i]
         /\ \A i \in 1..Len(t) : (s \o t)[Len(s) + i] = t[i]
  OBVIOUS

(* What a queue becomes when n numbers above base are appended and all     *)
(* before place m are dropped.                                             *)
LEMMA Pushed ==
  ASSUME NEW q \in Seq(Nat \ {0}), NEW l \in Nat, Queued(q, l),
         NEW base \in Nat, l <= base, \A i \in 1..Len(q) : q[i] <= base,
         NEW n \in Nat, NEW new, new = [i \in 1..n |-> base + i],
         NEW all, all = q \o new,
         NEW m \in Nat, 1 <= m, m <= Len(all) + 1,
         NEW r, r = SubSeq(all, m, Len(all))
  PROVE  /\ Queued(r, l)
         /\ \A x \in ToSet(r) : x \in ToSet(q) \/ x \in (base + 1)..(base + n)
<1>1. new \in Seq(Nat \ {0}) /\ Len(new) = n /\ \A i \in 1..n : new[i] = base + i
  <2>1. new \in [1..n -> Nat \ {0}]
    OBVIOUS
  <2> QED
    BY <2>1
<1>2. /\ all \in Seq(Nat \ {0}) /\ Len(all) = Len(q) + n
      /\ \A i \in 1..Len(q) : all[i] = q[i]
      /\ \A i \in 1..n : all[Len(q) + i] = base + i
  BY <1>1, Concatenation
<1>3. Len(q) \in Nat
  OBVIOUS
<1>4. ASSUME NEW i \in 1..Len(all)
      PROVE  \/ i \in 1..Len(q) /\ all[i] = q[i]
             \/ i - Len(q) \in 1..n /\ all[i] = base + (i - Len(q))
  <2>1. CASE i <= Len(q)
    <3>1. i \in 1..Len(q)
      BY <1>2, <1>3, <2>1
    <3> QED
      BY <1>2, <3>1
  <2>2. CASE ~(i <= Len(q))
    <3>1. i - Len(q) \in 1..n
      BY <1>2, <1>3, <2>2
    <3>2. Len(q) + (i - Len(q)) = i
      BY <1>3
    <3> QED
      BY <1>2, <3>1, <3>2
  <2> QED
    BY <2>1, <2>2
<1>5. Ascending(all)
  <2>1. SUFFICES ASSUME NEW i \in 1..Len(all), NEW j \in 1..Len(all), i < j PROVE all[i] < all[j]
    BY DEF Ascending
  <2>2. CASE j \in 1..Len(q) /\ all[j] = q[j]
    <3>1. i \in 1..Len(q) /\ all[i] = q[i]
      BY <1>2, <1>3, <2>1, <2>2
    <3> QED
      BY <2>1, <2>2, <3>1 DEF Ascending, Queued
  <2>3. CASE j - Len(q) \in 1..n /\ all[j] = base + (j - Len(q))
    <3>1. CASE i \in 1..Len(q) /\ all[i] = q[i]
      <4>1. q[i] <= base /\ q[i] \in Nat
        BY <3>1
      <4> QED
        BY <1>3, <2>3, <3>1, <4>1
    <3>2. CASE i - Len(q) \in 1..n /\ all[i] = base + (i - Len(q))
      BY <1>3, <2>1, <2>3, <3>2
    <3> QED
      BY <1>4, <3>1, <3>2
  <2> QED
    BY <1>4, <2>2, <2>3
<1>6. r \in Seq(Nat \ {0}) /\ Ascending(r) /\ ToSet(r) \subseteq ToSet(all)
      /\ \A i \in 1..Len(all) : i >= m => all[i] \in ToSet(r)
  BY <1>2, <1>5, SuffixAscends
<1>7. l \in ToSet(r) \/ \A i \in 1..Len(r) : r[i] > l
  <2>1. /\ Len(r) = Len(all) - m + 1
        /\ \A i \in 1..Len(r) : r[i] = all[m + i - 1]
    <3>1. \E S : S = Nat \ {0}
      OBVIOUS
    <3>2. PICK S : S = Nat \ {0}
      BY <3>1
    <3>3. all \in Seq(S)
      BY <1>2, <3>2
    <3> QED
      BY <3>3, Suffix
  <2>2. Len(all) \in Nat
    BY <1>2
  <2>3. \A i \in 1..Len(r) : m + i - 1 \in 1..Len(all) /\ m <= m + i - 1
    BY <2>1, <2>2
  <2>4. CASE l \in ToSet(q)
    <3>1. PICK k \in 1..Len(q) : q[k] = l
      BY <2>4 DEF ToSet
    <3>2. k \in 1..Len(all) /\ all[k] = l
      BY <1>2, <1>3, <3>1
    <3>3. CASE k >= m
      BY <1>6, <3>2, <3>3
    <3>4. CASE k < m
      <4>1. ASSUME NEW i \in 1..Len(r) PROVE r[i] > l
        <5>1. m + i - 1 \in 1..Len(all) /\ k < m + i - 1
          BY <2>3, <3>2, <3>4
        <5>2. all[k] < all[m + i - 1]
          BY <1>5, <3>2, <5>1 DEF Ascending
        <5>3. r[i] = all[m + i - 1]
          BY <2>1
        <5>4. r[i] \in Nat
          BY <1>2, <5>1, <5>3
        <5> QED
          BY <3>2, <5>2, <5>3, <5>4
      <4> QED
        BY <4>1
    <3>5. k >= m \/ k < m
      BY <2>2, <3>2
    <3> QED
      BY <3>3, <3>4, <3>5
  <2>5. CASE l \notin ToSet(q)
    <3>1. \A i \in 1..Len(q) : q[i] > l
      BY <2>5 DEF Queued
    <3>2. ASSUME NEW i \in 1..Len(all) PROVE all[i] > l
      <4>1. CASE i \in 1..Len(q) /\ all[i] = q[i]
        BY <3>1, <4>1
      <4>2. CASE i - Len(q) \in 1..n /\ all[i] = base + (i - Len(q))
        BY <1>3, <4>2
      <4> QED
        BY <1>4, <4>1, <4>2
    <3> QED
      BY <2>1, <2>3, <3>2
  <2> QED
    BY <2>4, <2>5
<1>8. ASSUME NEW x \in ToSet(r) PROVE x \in ToSet(q) \/ x \in (base + 1)..(base + n)
  <2>1. PICK i \in 1..Len(all) : all[i] = x
    <3>1. x \in ToSet(all) /\ DOMAIN all = 1..Len(all)
      BY <1>2, <1>6
    <3> QED
      BY <3>1 DEF ToSet
  <2>2. CASE i \in 1..Len(q) /\ all[i] = q[i]
    BY <2>1, <2>2 DEF ToSet
  <2>3. CASE i - Len(q) \in 1..n /\ all[i] = base + (i - Len(q))
    <3>1. PICK d \in 1..n : d = i - Len(q)
      BY <2>3
    <3> QED
      BY <2>1, <2>3, <3>1
  <2> QED
    BY <1>4, <2>2, <2>3
<1> QED
  BY <1>2, <1>6, <1>7, <1>8 DEF Queued

-----------------------------------------------------------------------------
(* References to frames that are let go.                                   *)

(* The frames that are left are unchanged; the rows of the others are      *)
(* theirs, and hold what they became, but for the rows that are spoilt.    *)
LEMMA ReleaseKeeps ==
  ASSUME FrameTypes, Len(truth) = Len(rows),
         NEW os, NEW q, NEW l, NEW h,
         Objects(os), Linked(os), Saved(os),
         \A o \in DOMAIN os \ (ToSet(q) \cup {l} \cup h) : os[o].row # 0 => os[o].update,
         Release(os, q, l, h), truth' = truth, torn' = torn, mixed' = mixed
  PROVE  /\ DOMAIN objs' = DOMAIN os \cap (ToSet(q) \cup {l} \cup h)
         /\ \A o \in DOMAIN objs' : objs'[o] = os[o]
         /\ rows' \in Seq(Row) /\ Len(rows') = Len(rows)
         /\ spoilt \subseteq spoilt' /\ spoilt' \subseteq DOMAIN rows
         /\ \A i \in DOMAIN rows \ spoilt' :
              rows'[i].frame = rows[i].frame /\ rows'[i].time = rows[i].time
         /\ Objects(objs') /\ Linked(objs)' /\ Saved(objs)'
<1> DEFINE used == ToSet(q) \cup {l} \cup h
           gone == DOMAIN os \ used
           Own(i) == {o \in gone : os[o].update /\ os[o].id = i}
           written == {i \in DOMAIN rows : Own(i) # {}}
<1>1. /\ objs' = [o \in DOMAIN os \cap used |-> os[o]]
      /\ Updated(os, gone)
  BY DEF Release
<1>2. PICK by \in [written -> gone] :
        /\ \A i \in written : by[i] \in Own(i)
        /\ rows' = [i \in 1..Len(rows) |->
             IF i \in written
             THEN [frame |-> os[by[i]].frame, version |-> os[by[i]].version, time |-> os[by[i]].time]
             ELSE rows[i]]
        /\ spoilt' = spoilt \cup {i \in written : \E o \in Own(i) : os[o].row \in mixed}
  <2> HIDE DEF gone
  <2> QED
    BY <1>1 DEF Updated
<1>3. /\ rows \in Seq(Row) /\ Len(rows) \in Nat /\ DOMAIN rows = 1..Len(rows)
      /\ truth \in Seq(Nat)
      /\ spoilt \subseteq DOMAIN rows
  BY DEF FrameTypes
<1>4. DOMAIN objs' = DOMAIN os \cap used /\ \A o \in DOMAIN objs' : objs'[o] = os[o]
  <2> HIDE DEF used
  <2> QED
    BY <1>1
<1>5. ASSUME NEW i \in 1..Len(rows)
      PROVE  \/ Own(i) = {} /\ rows'[i] = rows[i]
             \/ \E o \in gone :
                  /\ os[o].update /\ os[o].id = i /\ os[o] \in Frame
                  /\ rows'[i] = [frame |-> os[o].frame, version |-> os[o].version, time |-> os[o].time]
                  /\ i \notin spoilt' => os[o].row = i
  <2>1. CASE i \notin written
    <3>1. Own(i) = {}
      BY <1>3, <2>1
    <3>2. rows'[i] = rows[i]
      <4> HIDE DEF written
      <4> QED
        BY <1>2, <2>1
    <3> QED
      BY <3>1, <3>2
  <2>2. CASE i \in written
    <3>1. PICK o \in Own(i) : o = by[i]
      <4> HIDE DEF written, Own
      <4> QED
        BY <1>2, <2>2
    <3>2. rows'[i] = [frame |-> os[o].frame, version |-> os[o].version, time |-> os[o].time]
      <4> HIDE DEF written, Own
      <4> QED
        BY <1>2, <2>2, <3>1
    <3>3. o \in gone /\ os[o].update /\ os[o].id = i /\ os[o] \in Frame
      BY <3>1 DEF Objects
    <3>4. i \notin spoilt' => os[o].row = i
      <4>1. i \notin spoilt' => os[o].row \notin mixed
        <5> HIDE DEF written, Own
        <5> QED
          BY <1>2, <2>2, <3>1
      <4> QED
        BY <3>3, <4>1 DEF Linked
    <3> QED
      BY <3>2, <3>3, <3>4
  <2> QED
    BY <2>1, <2>2
<1>6. ASSUME NEW i \in 1..Len(rows)
      PROVE  /\ rows'[i] \in Row
             /\ i \notin spoilt' =>
                  /\ rows'[i].frame = rows[i].frame /\ rows'[i].time = rows[i].time
                  /\ (Own(i) = {} /\ rows'[i] = rows[i]) \/ rows'[i].version = truth[i]
  <2>1. CASE Own(i) = {} /\ rows'[i] = rows[i]
    <3> HIDE DEF Own
    <3> QED
      BY <1>3, <2>1
  <2>2. CASE ~(Own(i) = {} /\ rows'[i] = rows[i])
    <3>1. PICK o \in gone :
            /\ os[o].update /\ os[o].id = i /\ os[o] \in Frame
            /\ rows'[i] = [frame |-> os[o].frame, version |-> os[o].version, time |-> os[o].time]
            /\ i \notin spoilt' => os[o].row = i
      <4> HIDE DEF Own, gone
      <4> QED
        BY <1>5, <2>2
    <3>2. spoilt \subseteq spoilt'
      BY <1>2
    <3>3. i \notin spoilt' =>
            rows[i].frame = os[o].frame /\ rows[i].time = os[o].time /\ truth[i] = os[o].version
      BY <3>1, <3>2 DEF Linked
    <3> QED
      BY <3>1, <3>3 DEF Row, Frame
  <2> QED
    BY <2>1, <2>2
<1>7. rows' \in Seq(Row) /\ Len(rows') = Len(rows)
  <2>1. rows' \in [1..Len(rows) -> Row]
    <3> HIDE DEF Own, written
    <3> QED
      BY <1>2, <1>6
  <2> QED
    BY <1>3, <2>1, AsSequence
<1>8. DOMAIN rows' = 1..Len(rows)
  BY <1>3, <1>7
<1>9. Objects(objs')
  <2> HIDE DEF used
  <2> QED
    BY <1>4 DEF Objects
<1>10. spoilt \subseteq spoilt' /\ spoilt' \subseteq DOMAIN rows
  BY <1>2, <1>3
<1>11. Linked(objs)'
  <2>1. \A o \in DOMAIN objs' : o \in DOMAIN os /\ objs'[o] = os[o]
    BY <1>4
  <2> QED
    BY <1>3, <1>6, <1>8, <1>10, <2>1 DEF Linked
<1>12. Saved(objs)'
  <2>1. SUFFICES ASSUME NEW i \in 1..Len(rows), i \notin mixed, i \notin spoilt',
                        rows'[i].version # truth[i], i \notin torn
                 PROVE  \E o \in DOMAIN objs' : objs'[o].row = i
    BY <1>8 DEF Saved
  <2>2. Own(i) = {} /\ rows'[i] = rows[i]
    <3> HIDE DEF Own
    <3> QED
      BY <1>6, <2>1
  <2>3. PICK o \in DOMAIN os : os[o].row = i
    BY <1>3, <1>10, <2>1, <2>2 DEF Saved
  <2>4. o \in DOMAIN objs'
    <3>1. o \notin gone
      <4>1. SUFFICES ASSUME o \in gone PROVE FALSE
        OBVIOUS
      <4>2. os[o].update
        BY <1>3, <2>3, <4>1
      <4>3. os[o].id = i
        BY <2>1, <2>3, <4>2 DEF Linked
      <4> QED
        BY <2>2, <4>1, <4>2, <4>3
    <3> QED
      BY <1>4, <3>1
  <2> QED
    BY <1>4, <2>3, <2>4
<1> QED
  BY <1>3, <1>4, <1>6, <1>7, <1>9, <1>10, <1>11, <1>12

(* The first of the frames that are still to be inserted is held. *)
LEMMA HeadHeld ==
  ASSUME FInv, todo # <<>> \/ cycle = "insert"
  PROVE  /\ Head(todo) = todo[1] /\ Head(todo) \in ToSet(todo) /\ Head(todo) \in hand
         /\ Head(todo) \in DOMAIN objs
<1>1. todo \in Seq(Nat) /\ todo # <<>>
  BY DEF FInv, HandedOutOnce, InBetween
<1>2. Head(todo) = todo[1] /\ 1 \in DOMAIN todo
  BY <1>1
<1>3. Head(todo) \in ToSet(todo)
  BY <1>2 DEF ToSet
<1> QED
  BY <1>2, <1>3 DEF FInv, HandedOutOnce, FrameTypes

(* New frames, which have no callback: they are behind the pointer. *)
LEMMA TrackKeeps ==
  ASSUME StoreAssumption, FInv,
         NEW fs \in Seq(Frame), \A i \in 1..Len(fs) : ~fs[i].update /\ fs[i].row = 0,
         Track(fs), todo' = todo, cycle' = cycle, truth' = truth, torn' = torn,
         rowid' = rowid, mixed' = mixed
  PROVE  FInv' /\ \A i \in DOMAIN rows \ spoilt' : rows'[i].frame = rows[i].frame /\ rows'[i].time = rows[i].time
<1> DEFINE base  == Max({0} \cup DOMAIN objs)
           fresh == (base + 1)..(base + Len(fs))
           new   == [i \in 1..Len(fs) |-> base + i]
           q     == queue \o new
           m     == Max({1, Len(q) - MaxAgg + 1})
           os    == [o \in DOMAIN objs \cup fresh |-> IF o \in fresh THEN fs[o - base] ELSE objs[o]]
<1>1. base \in Nat /\ \A o \in DOMAIN objs : o <= base
  <2>1. {0} \cup DOMAIN objs \subseteq Nat
    BY DEF FInv, FrameTypes, Objects
  <2>2. PICK b \in Nat : \A o \in DOMAIN objs : o <= b
    BY DEF FInv, Bounded
  <2>3. \A o \in {0} \cup DOMAIN objs : o <= b
    BY <2>2
  <2>4. base \in Nat /\ \A o \in {0} \cup DOMAIN objs : o <= base
    BY <2>1, <2>3, MaxOfBounded
  <2> QED
    BY <2>4
<1>2. Release(os, SubSeq(q, m, Len(q)), last, hand)
  BY DEF Track
<1> HIDE DEF base
<1>3. /\ queue \in Seq(Nat \ {0}) /\ Ascending(queue) /\ last \in Nat
      /\ last \in ToSet(queue) \/ \A i \in 1..Len(queue) : queue[i] > last
      /\ \A i \in 1..Len(queue) : queue[i] \in DOMAIN objs
      /\ last # 0 => last \in DOMAIN objs
      /\ hand \subseteq DOMAIN objs /\ ToSet(todo) \subseteq hand
  <2>1. \A i \in 1..Len(queue) : queue[i] \in ToSet(queue)
    BY DEF ToSet, FInv, Queued
  <2> QED
    BY <2>1 DEF FInv, Queued, FrameTypes, HandedOutOnce
<1>4. /\ Len(fs) \in Nat /\ last <= base
      /\ \A i \in 1..Len(queue) : queue[i] <= base
  BY <1>1, <1>3
<1>5. Len(q) \in Nat
  <2>1. new \in Seq(Nat \ {0})
    <3>1. new \in [1..Len(fs) -> Nat \ {0}]
      BY <1>1
    <3> QED
      BY <1>4, <3>1
  <2> HIDE DEF new
  <2>2. q \in Seq(Nat \ {0})
    BY <1>3, <2>1, Concatenation
  <2> HIDE DEF q
  <2> QED
    BY <2>2
<1>6. m \in Nat /\ 1 <= m /\ m <= Len(q) + 1
  <2>1. MaxAgg \in Nat
    BY DEF StoreAssumption
  <2> DEFINE cut == Len(q) - MaxAgg + 1
  <2> HIDE DEF q
  <2>2. cut \in Int /\ cut <= Len(q) + 1
    BY <1>5, <2>1
  <2> HIDE DEF cut
  <2>3. Max({1, cut}) = IF 1 >= cut THEN 1 ELSE cut
    <3> DEFINE pair == {1, cut}
    <3>1. pair = {1, cut}
      OBVIOUS
    <3> HIDE DEF pair
    <3>2. PICK one \in Int : one = 1
      OBVIOUS
    <3>3. pair = {one, cut}
      BY <3>1, <3>2
    <3>4. Max(pair) = IF one >= cut THEN one ELSE cut
      BY <2>2, <3>3, MaxOfPair
    <3> QED
      BY <3>2, <3>4 DEF pair
  <2>4. Max({1, cut}) \in Nat /\ 1 <= Max({1, cut}) /\ Max({1, cut}) <= Len(q) + 1
    BY <1>5, <2>2, <2>3
  <2> QED
    BY <2>4 DEF cut
<1> DEFINE r == SubSeq(q, m, Len(q))
<1>10. Queued(r, last) /\ \A x \in ToSet(r) : x \in ToSet(queue) \/ x \in (base + 1)..(base + Len(fs))
  <2>1. /\ new = [i \in 1..Len(fs) |-> base + i]
        /\ q = queue \o new /\ r = SubSeq(q, m, Len(q)) /\ Queued(queue, last)
    BY DEF FInv
  <2>2. PICK n \in Nat : n = Len(fs)
    BY <1>4
  <2>3. last \in Nat /\ queue \in Seq(Nat \ {0}) /\ base \in Nat
    BY <1>1, <1>3
  <2> HIDE DEF new, q, m, r
  <2>4. new = [i \in 1..n |-> base + i]
    BY <2>1, <2>2
  <2>5. Queued(r, last) /\ \A x \in ToSet(r) : x \in ToSet(queue) \/ x \in (base + 1)..(base + n)
    BY <1>4, <1>6, <2>1, <2>3, <2>4, Pushed
  <2> QED
    BY <2>2, <2>5
<1>7. \A o \in DOMAIN os : \/ o \in fresh /\ os[o] = fs[o - base] /\ o - base \in 1..Len(fs)
                           \/ o \in DOMAIN objs /\ os[o] = objs[o] /\ o \notin fresh
  BY <1>1, <1>4
<1>8. DOMAIN os = DOMAIN objs \cup fresh
  OBVIOUS
<1>9. \A o \in DOMAIN objs : o \notin fresh
  BY <1>1
<1>11. ASSUME NEW o \in DOMAIN os
       PROVE  \/ o \in DOMAIN objs /\ os[o] = objs[o]
              \/ o \in Nat /\ o > base /\ o <= base + Len(fs) /\ os[o] \in Frame /\ ~os[o].update /\ os[o].row = 0
  <2>1. CASE o \in fresh
    <3>1. o \in Nat /\ o > base /\ o <= base + Len(fs)
      BY <1>1, <1>4, <2>1
    <3>2. o - base \in 1..Len(fs) /\ os[o] = fs[o - base]
      BY <1>7, <1>9, <2>1
    <3> QED
      BY <3>1, <3>2
  <2>2. CASE o \notin fresh
    BY <1>7, <2>2
  <2> QED
    BY <2>1, <2>2
<1>12. \A o \in DOMAIN objs : o \in DOMAIN os /\ os[o] = objs[o]
  BY <1>7, <1>8, <1>9
<1>16. \A x \in ToSet(r) : x \in DOMAIN os
  <2> HIDE DEF r, os
  <2> QED
    BY <1>3, <1>8, <1>10 DEF FInv, FrameTypes
<1> HIDE DEF os, fresh, q, m
<1>13. Objects(os) /\ Linked(os) /\ Saved(os)
  <2>1. Objects(objs) /\ Linked(objs) /\ Saved(objs)
    BY DEF FInv, FrameTypes
  <2>2. Objects(os)
    BY <1>1, <1>11, <2>1 DEF Objects
  <2>3. Linked(os)
    BY <1>11, <2>1 DEF Linked
  <2>4. Saved(os)
    BY <1>12, <2>1 DEF Saved
  <2> QED
    BY <2>2, <2>3, <2>4
<1>17. \A o \in DOMAIN os \ (ToSet(r) \cup {last} \cup hand) : os[o].row # 0 => os[o].update
  <2>1. SUFFICES ASSUME NEW o \in DOMAIN os, o \notin hand, os[o].row # 0, ~os[o].update
                 PROVE  FALSE
    OBVIOUS
  <2>2. o \in DOMAIN objs /\ os[o] = objs[o]
    BY <1>11, <2>1
  <2>3. cycle = "insert" /\ o = Head(todo)
    BY <2>1, <2>2 DEF FInv, InBetween
  <2> QED
    BY <2>1, <2>3, HeadHeld
<1>14. /\ DOMAIN objs' = DOMAIN os \cap (ToSet(r) \cup {last} \cup hand)
       /\ \A o \in DOMAIN objs' : objs'[o] = os[o]
       /\ rows' \in Seq(Row) /\ Len(rows') = Len(rows)
       /\ spoilt \subseteq spoilt' /\ spoilt' \subseteq DOMAIN rows
       /\ \A i \in DOMAIN rows \ spoilt' : rows'[i].frame = rows[i].frame /\ rows'[i].time = rows[i].time
       /\ Objects(objs') /\ Linked(objs)' /\ Saved(objs)'
  BY <1>2, <1>13, <1>17, ReleaseKeeps DEF FInv
<1>15. queue' = r /\ last' = last /\ hand' = hand
  BY <1>2 DEF Release
<1>18. Queued(queue, last)'
  BY <1>10, <1>15
<1>19. hand \subseteq DOMAIN objs' /\ ToSet(r) \subseteq DOMAIN objs' /\ (last # 0 => last \in DOMAIN objs')
  BY <1>3, <1>12, <1>14, <1>16
<1>20. FrameTypes'
  <2>1. ToSet(todo) \subseteq DOMAIN objs'
    BY <1>3, <1>19
  <2> QED
    BY <1>14, <1>15, <1>19, <2>1 DEF FrameTypes, FInv
<1>21. HandedOutOnce'
  <2>1. \A o \in DOMAIN objs' : objs'[o].row # 0 => o <= last
    BY <1>11, <1>14 DEF FInv, HandedOutOnce
  <2>2. \A x \in ToSet(todo) : x \in hand /\ x <= last /\ ~objs'[x].update
    BY <1>3, <1>12, <1>14, <1>19 DEF FInv, HandedOutOnce
  <2> QED
    BY <1>15, <2>1, <2>2 DEF FInv, HandedOutOnce
<1>23. InBetween'
  <2>1. \A o \in DOMAIN objs' : (objs'[o].row # 0 /\ ~objs'[o].update) => cycle = "insert" /\ o = Head(todo)
    BY <1>11, <1>14 DEF FInv, InBetween
  <2>2. cycle = "insert" => objs'[Head(todo)] = objs[Head(todo)]
    <3>1. cycle = "insert" => Head(todo) \in hand /\ Head(todo) \in DOMAIN objs
      BY HeadHeld
    <3> QED
      BY <1>12, <1>14, <1>19, <3>1
  <2> QED
    BY <1>14, <2>1, <2>2 DEF FInv, InBetween
<1>22. Bounded'
  <2>1. base + Len(fs) \in Nat /\ \A o \in DOMAIN objs' : o <= base + Len(fs)
    BY <1>1, <1>4, <1>11, <1>14 DEF FInv, FrameTypes, Objects
  <2> QED
    BY <2>1 DEF Bounded
<1> QED
  BY <1>14, <1>18, <1>20, <1>21, <1>22, <1>23 DEF FInv

-----------------------------------------------------------------------------
(* The steps of the frames.                                                *)

Kept ==
  /\ Len(rows') >= Len(rows)
  /\ \A i \in DOMAIN rows \ spoilt' : rows'[i].frame = rows[i].frame /\ rows'[i].time = rows[i].time

LEMMA Untouched ==
  ASSUME FInv, UNCHANGED frameVars, UNCHANGED idVars
  PROVE  FInv' /\ Kept
<1>1. FInv'
  BY DEF FInv, frameVars, idVars, FrameTypes, Linked, Saved, HandedOutOnce, InBetween, Bounded
<1>2. Len(rows) \in Nat
  BY DEF FInv, FrameTypes
<1> QED
  BY <1>1, <1>2 DEF Kept, frameVars

LEMMA LengthKept ==
  ASSUME FInv, FInv', Len(truth') = Len(truth)
  PROVE  Len(rows') >= Len(rows)
BY DEF FInv, FrameTypes

LEMMA CreateAggKeeps ==
  ASSUME Counters, FInv, CreateAgg
  PROVE  FInv' /\ Kept
<1> DEFINE f == [frame |-> made + 1, version |-> 0, time |-> now, id |-> 0, update |-> FALSE,
                row |-> 0]
<1>1. /\ Track(<<f>>)
      /\ todo' = todo /\ cycle' = cycle /\ truth' = truth /\ torn' = torn
      /\ rowid' = rowid /\ mixed' = mixed
  BY DEF CreateAgg, stateVars, idVars
<1>2. f \in Frame
  BY DEF Counters, Frame
<1>3. ~f.update /\ f.row = 0
  OBVIOUS
<1> HIDE DEF f
<1>4. PICK fs \in Seq(Frame) : fs = <<f>>
  <2>1. <<f>> \in Seq(Frame)
    BY <1>2, Singleton
  <2> QED
    BY <2>1
<1>5. \A i \in 1..Len(fs) : ~fs[i].update /\ fs[i].row = 0
  <2>1. Len(fs) = 1 /\ fs[1] = f
    BY <1>2, <1>4, Singleton
  <2> QED
    BY <1>3, <2>1
<1>6. FInv' /\ \A i \in DOMAIN rows \ spoilt' : rows'[i].frame = rows[i].frame /\ rows'[i].time = rows[i].time
  BY <1>1, <1>4, <1>5, TrackKeeps, StoreAssumption
<1> QED
  BY <1>1, <1>6, LengthKept DEF Kept

LEMMA RestoreKeeps ==
  ASSUME Counters, FInv, Restore
  PROVE  FInv' /\ Kept
<1>1. PICK is \in Recent :
        Track([n \in DOMAIN is |->
          LET row == rows[is[n]]
          IN  [frame |-> row.frame, version |-> row.version, time |-> row.time,
               id |-> is[n], update |-> FALSE, row |-> 0]])
  BY DEF Restore
<1>2. todo' = todo /\ cycle' = cycle /\ truth' = truth /\ torn' = torn
      /\ rowid' = rowid /\ mixed' = mixed
  BY DEF Restore, idVars
<1>3. rows \in Seq(Row) /\ Len(rows) \in Nat /\ DOMAIN rows = 1..Len(rows)
  BY DEF FInv, FrameTypes
<1>4. PICK n \in Nat : is \in [1..n -> DOMAIN rows]
  <2> DEFINE count == Min({MaxRecent, Len(rows)})
  <2>1. is \in [1..count -> DOMAIN rows]
    BY DEF Recent
  <2>2. count \in Nat
    <3>1. MaxRecent \in Nat
      BY StoreAssumption DEF StoreAssumption
    <3>2. \E x \in {MaxRecent, Len(rows)} : \A y \in {MaxRecent, Len(rows)} : x =< y
      BY <1>3, <3>1
    <3>3. count \in {MaxRecent, Len(rows)}
      BY <3>2 DEF Min
    <3> QED
      BY <1>3, <3>1, <3>3
  <2> HIDE DEF count
  <2> QED
    BY <2>1, <2>2
<1> DEFINE F(i) == [frame |-> rows[i].frame, version |-> rows[i].version, time |-> rows[i].time,
                    id |-> i, update |-> FALSE, row |-> 0]
<1>5. ASSUME NEW i \in DOMAIN rows PROVE F(i) \in Frame /\ ~F(i).update /\ F(i).row = 0
  <2>1. rows[i] \in Row /\ i \in Nat
    BY <1>3
  <2>2. rows[i].frame \in Nat /\ rows[i].version \in Nat /\ rows[i].time \in Nat
    BY <2>1 DEF Row
  <2> QED
    BY <2>1, <2>2 DEF Frame
<1>6. [m \in DOMAIN is |->
          LET row == rows[is[m]]
          IN  [frame |-> row.frame, version |-> row.version, time |-> row.time,
               id |-> is[m], update |-> FALSE, row |-> 0]] = [m \in 1..n |-> F(is[m])]
  BY <1>4
<1> HIDE DEF F
<1>7. [m \in 1..n |-> F(is[m])] \in [1..n -> Frame]
  BY <1>4, <1>5
<1>8. PICK fs \in [1..n -> Frame] : fs = [m \in 1..n |-> F(is[m])]
  BY <1>7
<1>9. fs \in Seq(Frame) /\ Len(fs) = n
  BY <1>8, AsSequence
<1>10. \A i \in 1..Len(fs) : ~fs[i].update /\ fs[i].row = 0
  BY <1>4, <1>5, <1>8, <1>9
<1>11. Track(fs)
  BY <1>1, <1>6, <1>8
<1>12. FInv' /\ \A i \in DOMAIN rows \ spoilt' : rows'[i].frame = rows[i].frame /\ rows'[i].time = rows[i].time
  BY <1>2, <1>9, <1>10, <1>11, TrackKeeps, StoreAssumption
<1> QED
  BY <1>2, <1>12, LengthKept DEF Kept

LEMMA EditKeeps ==
  ASSUME FInv, NEW o \in DOMAIN objs, Edit(o)
  PROVE  FInv' /\ Kept
<1>1. /\ objs' = [objs EXCEPT ![o].version = @ + 1]
      /\ truth' = IF objs[o].row # 0 THEN [truth EXCEPT ![objs[o].row] = objs[o].version + 1] ELSE truth
      /\ UNCHANGED <<rows, queue, last, cycle, hand, todo, torn, spoilt, rowid, mixed>>
  BY DEF Edit, idVars
<1>2. /\ rows \in Seq(Row) /\ Len(rows) \in Nat /\ DOMAIN rows = 1..Len(rows)
      /\ Objects(objs) /\ Linked(objs) /\ Saved(objs)
      /\ truth \in Seq(Nat) /\ Len(truth) = Len(rows)
  BY DEF FInv, FrameTypes
<1>3. DOMAIN objs' = DOMAIN objs /\ \A p \in DOMAIN objs : p # o => objs'[p] = objs[p]
  BY <1>1
<1>4. objs'[o] = [objs[o] EXCEPT !.version = @ + 1] /\ objs[o] \in Frame
  BY <1>1, <1>2 DEF Objects
<1>5. objs'[o] \in Frame /\ objs'[o].version = objs[o].version + 1
      /\ \A f \in {"frame", "time", "id", "update", "row"} : objs'[o][f] = objs[o][f]
  BY <1>4 DEF Frame
<1>6. \A p \in DOMAIN objs : /\ objs'[p].frame = objs[p].frame /\ objs'[p].time = objs[p].time
                             /\ objs'[p].id = objs[p].id /\ objs'[p].update = objs[p].update
                             /\ objs'[p].row = objs[p].row
  BY <1>3, <1>5
<1>7. truth' \in Seq(Nat) /\ Len(truth') = Len(rows)
  <2>1. objs[o].version + 1 \in Nat
    BY <1>4 DEF Frame
  <2>2. truth \in [1..Len(rows) -> Nat]
    BY <1>2
  <2>3. truth' \in [1..Len(rows) -> Nat]
    <3>1. CASE objs[o].row # 0
      BY <1>1, <2>1, <2>2, <3>1
    <3>2. CASE objs[o].row = 0
      BY <1>1, <2>2, <3>2
    <3> QED
      BY <3>1, <3>2
  <2> QED
    BY <1>2, <2>3, AsSequence
<1>8. Linked(objs)'
  <2>1. ASSUME NEW p \in DOMAIN objs, objs[p].row # 0
        PROVE  truth'[objs[p].row] = objs'[p].version
    <3>1. objs[p].row \in 1..Len(truth) /\ truth[objs[p].row] = objs[p].version
      BY <1>2, <2>1 DEF Linked
    <3>2. CASE p = o
      BY <1>1, <1>2, <1>5, <2>1, <3>1, <3>2
    <3>3. CASE p # o
      <4>1. objs'[p] = objs[p]
        BY <1>3, <3>3
      <4>2. objs[o].row # objs[p].row
        BY <1>2, <2>1, <3>3 DEF Linked
      <4>3. truth'[objs[p].row] = truth[objs[p].row]
        <5>1. CASE objs[o].row # 0
          BY <1>1, <1>2, <3>1, <4>2, <5>1
        <5>2. CASE objs[o].row = 0
          BY <1>1, <5>2
        <5> QED
          BY <5>1, <5>2
      <4> QED
        BY <3>1, <4>1, <4>3
    <3> QED
      BY <3>2, <3>3
  <2> QED
    BY <1>1, <1>2, <1>3, <1>6, <2>1 DEF Linked
<1>9. Saved(objs)'
  <2>1. SUFFICES ASSUME NEW i \in 1..Len(rows), i \notin mixed, i \notin spoilt,
                        rows[i].version # truth'[i], i \notin torn
                 PROVE  \E p \in DOMAIN objs : objs[p].row = i
    BY <1>1, <1>2, <1>3, <1>6 DEF Saved
  <2>2. CASE objs[o].row = i
    BY <2>2
  <2>3. CASE objs[o].row # i
    <3>1. truth'[i] = truth[i]
      BY <1>1, <1>2, <2>3
    <3> QED
      BY <1>2, <2>1, <3>1 DEF Saved
  <2> QED
    BY <2>2, <2>3
<1>10. FrameTypes'
  <2>1. Objects(objs')
    BY <1>2, <1>3, <1>5 DEF Objects
  <2> QED
    BY <1>1, <1>2, <1>3, <1>7, <2>1 DEF FrameTypes, FInv
<1>11. HandedOutOnce'
  <2>1. ToSet(todo) \subseteq DOMAIN objs
    BY DEF FInv, FrameTypes
  <2> QED
    BY <1>1, <1>3, <1>6, <2>1 DEF FInv, HandedOutOnce
<1>12. Bounded' /\ Queued(queue, last)'
  BY <1>1, <1>3 DEF FInv, Bounded
<1>13. InBetween'
  <2>1. cycle = "insert" => Head(todo) \in DOMAIN objs
    BY HeadHeld
  <2> QED
    BY <1>1, <1>3, <1>6, <2>1 DEF FInv, InBetween
<1> QED
  BY <1>1, <1>2, <1>7, <1>8, <1>9, <1>10, <1>11, <1>12, <1>13 DEF FInv, Kept

LEMMA StartCycleKeeps ==
  ASSUME FInv, StartCycle
  PROVE  FInv' /\ Kept
<1>1. /\ UNCHANGED <<rows, objs, queue, last, hand, todo, truth, torn, spoilt, rowid, mixed>>
      /\ cycle = "idle" /\ cycle' \in {"with", "without"}
  BY DEF StartCycle, idVars
<1>2. todo = <<>>
  BY <1>1 DEF FInv, HandedOutOnce
<1>3. HandedOutOnce' /\ InBetween'
  BY <1>1, <1>2 DEF FInv, HandedOutOnce, InBetween
<1>4. Len(rows) \in Nat
  BY DEF FInv, FrameTypes
<1> QED
  BY <1>1, <1>3, <1>4 DEF FInv, FrameTypes, Linked, Saved, Bounded, Kept

(* What get_new_aggs hands out was not handed out before. *)
LEMMA CollectKeeps ==
  ASSUME FInv, Collect
  PROVE  FInv' /\ Kept
<1> DEFINE p   == Max({0} \cup {i \in DOMAIN queue : queue[i] = last})
           new == SubSeq(queue, p + 1, Len(queue))
           l   == IF new = <<>> THEN last ELSE Last(new)
<1>1. /\ Release(objs, queue, l, ToSet(new))
      /\ todo' = IF cycle = "with" THEN new ELSE <<>>
      /\ cycle' = "post"
      /\ truth' = truth /\ torn' = torn /\ rowid' = rowid /\ mixed' = mixed
      /\ cycle # "insert"
  BY DEF Collect, idVars
<1>2. /\ queue \in Seq(Nat \ {0}) /\ Ascending(queue) /\ Len(queue) \in Nat
      /\ DOMAIN queue = 1..Len(queue) /\ last \in Nat
      /\ last \in ToSet(queue) \/ \A i \in 1..Len(queue) : queue[i] > last
  BY DEF FInv, Queued
<1>3. p \in 0..Len(queue) /\ \A i \in 1..Len(queue) : i > p => queue[i] > last
  <2> DEFINE at == {0} \cup {i \in DOMAIN queue : queue[i] = last}
  <2>1. at \subseteq Nat /\ at # {} /\ \A i \in at : i <= Len(queue)
    BY <1>2
  <2>2. Max(at) \in at /\ \A i \in at : i <= Max(at)
    <3> HIDE DEF at
    <3> QED
      BY <1>2, <2>1, MaxOfBounded
  <2>3. p = Max(at)
    OBVIOUS
  <2> HIDE DEF p
  <2>4. ASSUME NEW i \in 1..Len(queue), i > p PROVE queue[i] > last
    <3>1. CASE last \in ToSet(queue)
      <4>1. PICK j \in 1..Len(queue) : queue[j] = last
        BY <1>2, <3>1 DEF ToSet
      <4>2. j <= p
        BY <1>2, <2>2, <2>3, <4>1
      <4>3. j < i
        BY <1>2, <2>2, <2>3, <2>4, <4>1, <4>2
      <4> QED
        BY <1>2, <4>1, <4>3 DEF Ascending
    <3>2. CASE last \notin ToSet(queue)
      BY <1>2, <3>2
    <3> QED
      BY <3>1, <3>2
  <2> QED
    BY <1>2, <2>2, <2>3, <2>4
<1> HIDE DEF p
<1>4. PICK t : t = new
  OBVIOUS
<1>5. /\ t \in Seq(Nat \ {0}) /\ Ascending(t) /\ ToSet(t) \subseteq ToSet(queue)
      /\ \A i \in 1..Len(t) : t[i] > last
      /\ Len(t) = Len(queue) - p
  <2>1. PICK m \in Nat : m = p + 1
    BY <1>2, <1>3
  <2>2. 1 <= m /\ m <= Len(queue) + 1 /\ t = SubSeq(queue, m, Len(queue))
    BY <1>2, <1>3, <1>4, <2>1
  <2>3. t \in Seq(Nat \ {0}) /\ Ascending(t) /\ ToSet(t) \subseteq ToSet(queue)
    BY <1>2, <2>2, SuffixAscends
  <2>4. PICK S : S = Nat \ {0}
    OBVIOUS
  <2>5. queue \in Seq(S)
    BY <1>2, <2>4
  <2>6. Len(t) = Len(queue) - m + 1 /\ \A i \in 1..Len(t) : t[i] = queue[m + i - 1]
    BY <2>2, <2>5, Suffix
  <2>7. \A i \in 1..Len(t) : m + i - 1 \in 1..Len(queue) /\ m + i - 1 > p
    BY <1>2, <1>3, <2>1, <2>6
  <2>8. \A i \in 1..Len(t) : t[i] > last
    BY <1>3, <2>6, <2>7
  <2>9. Len(t) = Len(queue) - p
    BY <1>2, <1>3, <2>1, <2>6
  <2> QED
    BY <2>3, <2>8, <2>9
<1>6. Len(t) \in Nat
  BY <1>5
<1>7. PICK k \in Nat : /\ k = IF t = <<>> THEN last ELSE Last(t)
                       /\ k = l
  <2>1. l = IF t = <<>> THEN last ELSE Last(t)
    BY <1>4
  <2>2. CASE t = <<>>
    BY <1>2, <2>1, <2>2
  <2>3. CASE t # <<>>
    <3>1. Len(t) \in 1..Len(t)
      BY <1>5, <1>6, <2>3
    <3>2. Last(t) \in Nat
      BY <1>5, <3>1 DEF Last
    <3> QED
      BY <2>1, <2>3, <3>2
  <2> QED
    BY <2>2, <2>3
<1>8. /\ k >= last
      /\ \A x \in ToSet(t) : x > last /\ x <= k
      /\ k \in ToSet(t) \/ (t = <<>> /\ k = last)
  <2>1. CASE t = <<>>
    <3>1. ToSet(t) = {}
      BY <2>1 DEF ToSet
    <3> QED
      BY <1>2, <1>7, <2>1, <3>1
  <2>2. CASE t # <<>>
    <3>1. Len(t) >= 1 /\ k = t[Len(t)] /\ DOMAIN t = 1..Len(t)
      BY <1>5, <1>6, <1>7, <2>2 DEF Last
    <3>2. Len(t) \in 1..Len(t)
      BY <1>6, <3>1
    <3>3. k \in ToSet(t) /\ k > last
      BY <1>5, <3>1, <3>2 DEF ToSet
    <3>4. ASSUME NEW x \in ToSet(t) PROVE x > last /\ x <= k
      <4>1. PICK i \in 1..Len(t) : t[i] = x
        BY <3>1, <3>4 DEF ToSet
      <4>2. i < Len(t) \/ i = Len(t)
        BY <1>6
      <4>3. x \in Nat
        BY <1>5, <4>1
      <4>4. i < Len(t) => x < k
        BY <1>5, <3>1, <3>2, <4>1 DEF Ascending
      <4> QED
        BY <1>5, <1>7, <3>1, <4>1, <4>2, <4>3, <4>4
    <3> QED
      BY <1>2, <3>3, <3>4
  <2> QED
    BY <2>1, <2>2
<1> HIDE DEF new, l
<1>9. Release(objs, queue, k, ToSet(t))
  BY <1>1, <1>4, <1>7
<1>10. queue' = queue /\ last' = k /\ hand' = ToSet(t)
  BY <1>9 DEF Release
<1>11. /\ FrameTypes /\ Len(truth) = Len(rows) /\ Objects(objs) /\ Linked(objs) /\ Saved(objs)
       /\ \A o \in DOMAIN objs : objs[o].row # 0 => objs[o].update
  BY <1>1 DEF FInv, FrameTypes, InBetween
<1>12. /\ DOMAIN objs' = DOMAIN objs \cap (ToSet(queue) \cup {k} \cup ToSet(t))
       /\ \A o \in DOMAIN objs' : objs'[o] = objs[o]
       /\ rows' \in Seq(Row) /\ Len(rows') = Len(rows)
       /\ spoilt \subseteq spoilt' /\ spoilt' \subseteq DOMAIN rows
       /\ \A i \in DOMAIN rows \ spoilt' : rows'[i].frame = rows[i].frame /\ rows'[i].time = rows[i].time
       /\ Objects(objs') /\ Linked(objs)' /\ Saved(objs)'
  <2>1. PICK h : h = ToSet(t)
    OBVIOUS
  <2>2. \A o \in DOMAIN objs \ (ToSet(queue) \cup {k} \cup h) : objs[o].row # 0 => objs[o].update
    BY <1>11
  <2>3. Release(objs, queue, k, h) /\ truth' = truth /\ torn' = torn /\ mixed' = mixed
    BY <1>1, <1>9, <2>1
  <2>4. /\ DOMAIN objs' = DOMAIN objs \cap (ToSet(queue) \cup {k} \cup h)
        /\ \A o \in DOMAIN objs' : objs'[o] = objs[o]
        /\ rows' \in Seq(Row) /\ Len(rows') = Len(rows)
        /\ spoilt \subseteq spoilt' /\ spoilt' \subseteq DOMAIN rows
        /\ \A i \in DOMAIN rows \ spoilt' : rows'[i].frame = rows[i].frame /\ rows'[i].time = rows[i].time
        /\ Objects(objs') /\ Linked(objs)' /\ Saved(objs)'
    BY <1>11, <2>2, <2>3, ReleaseKeeps
  <2> QED
    BY <2>1, <2>4
<1>13. ToSet(queue) \subseteq DOMAIN objs /\ (k # 0 => k \in DOMAIN objs)
  BY <1>5, <1>8, <1>11 DEF FrameTypes
<1>14. Queued(queue, last)'
  <2>1. k \in ToSet(queue) \/ \A i \in 1..Len(queue) : queue[i] > k
    BY <1>2, <1>5, <1>8
  <2> QED
    BY <1>2, <1>7, <1>10, <2>1 DEF Queued
<1>15. todo' = t \/ todo' = <<>>
  BY <1>1, <1>4
<1>16. todo' \in Seq(Nat) /\ Ascending(todo') /\ ToSet(todo') \subseteq ToSet(t)
  <2>1. CASE todo' = t
    BY <1>5, <2>1 DEF Ascending
  <2>2. CASE todo' = <<>>
    BY <2>2 DEF Ascending, ToSet
  <2> QED
    BY <1>15, <2>1, <2>2
<1>17. HandedOutOnce'
  <2>1. \A o \in DOMAIN objs' : o \in DOMAIN objs /\ o \in Nat /\ (objs'[o].row # 0 => o <= k)
    BY <1>2, <1>7, <1>8, <1>11, <1>12 DEF FInv, HandedOutOnce, Objects
  <2>2. ASSUME NEW x \in ToSet(t) PROVE x \in DOMAIN objs' /\ ~objs'[x].update /\ x <= k
    <3>1. x \in DOMAIN objs /\ x \in DOMAIN objs'
      BY <1>5, <1>12, <1>13
    <3>2. ~objs[x].update
      <4>1. objs[x].row = 0
        BY <1>2, <1>8, <1>11, <3>1 DEF FInv, HandedOutOnce, Objects
      <4> QED
        BY <1>11, <3>1, <4>1 DEF Linked
    <3> QED
      BY <1>8, <1>12, <3>1, <3>2
  <2> QED
    BY <1>1, <1>10, <1>16, <2>1, <2>2 DEF HandedOutOnce
<1>18. FrameTypes'
  <2>1. ToSet(t) \subseteq DOMAIN objs' /\ ToSet(queue) \subseteq DOMAIN objs' /\ (k # 0 => k \in DOMAIN objs')
    BY <1>5, <1>12, <1>13
  <2> QED
    BY <1>1, <1>10, <1>11, <1>12, <1>16, <2>1 DEF FrameTypes
<1>19. Bounded' /\ InBetween'
  BY <1>1, <1>11, <1>12 DEF FInv, Bounded, InBetween
<1>20. Len(rows) \in Nat
  BY <1>11 DEF FrameTypes
<1> QED
  BY <1>1, <1>11, <1>12, <1>14, <1>17, <1>18, <1>19, <1>20 DEF FInv, Kept

LEMMA InsertRowKeeps ==
  ASSUME FInv, InsertRow
  PROVE  FInv' /\ Kept
<1> DEFINE x == Head(todo)
           row == [frame |-> objs[x].frame, version |-> objs[x].version, time |-> objs[x].time]
<1>1. /\ cycle = "post" /\ cycle' = "insert" /\ todo # <<>>
      /\ rows' = Append(rows, row)
      /\ rowid' = Len(rows) + 1
      /\ truth' = Append(truth, objs[x].version)
      /\ objs' = [objs EXCEPT ![x].row = Len(rows) + 1]
      /\ UNCHANGED <<queue, last, hand, todo, torn, spoilt, mixed>>
  BY DEF InsertRow
<1>2. /\ rows \in Seq(Row) /\ Len(rows) \in Nat /\ DOMAIN rows = 1..Len(rows)
      /\ Objects(objs) /\ Linked(objs) /\ Saved(objs)
      /\ truth \in Seq(Nat) /\ Len(truth) = Len(rows)
      /\ torn \cup mixed \cup spoilt \subseteq DOMAIN rows
      /\ ToSet(todo) \subseteq DOMAIN objs
  BY DEF FInv, FrameTypes
<1>3. /\ x \in DOMAIN objs /\ objs[x] \in Frame /\ x <= last /\ ~objs[x].update /\ objs[x].row = 0
      /\ x = Head(todo)
  <2>1. x \in ToSet(todo) /\ x \in DOMAIN objs
    BY <1>1, HeadHeld
  <2>2. ~objs[x].update /\ x <= last
    BY <2>1 DEF FInv, HandedOutOnce
  <2>3. objs[x].row = 0
    BY <1>1, <2>1, <2>2 DEF FInv, InBetween
  <2> QED
    BY <1>2, <2>1, <2>2, <2>3 DEF Objects
<1>4. /\ DOMAIN objs' = DOMAIN objs
      /\ \A p \in DOMAIN objs : p # x => objs'[p] = objs[p]
      /\ objs'[x] = [objs[x] EXCEPT !.row = Len(rows) + 1]
  <2> HIDE DEF x
  <2> QED
    BY <1>1, <1>3
<1>5. /\ objs'[x] \in Frame /\ objs'[x].row = Len(rows) + 1 /\ ~objs'[x].update
      /\ objs'[x].frame = objs[x].frame /\ objs'[x].version = objs[x].version
      /\ objs'[x].time = objs[x].time
  <2> HIDE DEF x
  <2>1. objs[x] \in [frame : Nat, version : Nat, time : Nat, id : Nat, update : BOOLEAN, row : Nat]
    BY <1>3 DEF Frame
  <2>2. PICK n \in Nat : n = Len(rows) + 1
    BY <1>2
  <2>3. objs'[x] = [objs[x] EXCEPT !.row = n]
    BY <1>4, <2>2
  <2>4. objs'[x] \in [frame : Nat, version : Nat, time : Nat, id : Nat, update : BOOLEAN, row : Nat]
    BY <2>1, <2>3
  <2>5. /\ objs'[x].row = n /\ objs'[x].update = objs[x].update /\ objs'[x].frame = objs[x].frame
        /\ objs'[x].version = objs[x].version /\ objs'[x].time = objs[x].time
    BY <2>1, <2>3
  <2> QED
    BY <1>3, <2>2, <2>4, <2>5 DEF Frame
<1>6. row \in Row /\ objs[x].version \in Nat
  BY <1>3 DEF Row, Frame
<1> HIDE DEF x, row
<1>8. /\ rows' \in Seq(Row) /\ Len(rows') = Len(rows) + 1 /\ DOMAIN rows' = 1..(Len(rows) + 1)
      /\ rows'[Len(rows) + 1] = row
      /\ \A i \in 1..Len(rows) : rows'[i] = rows[i]
  BY <1>1, <1>2, <1>6
<1>9. /\ truth' \in Seq(Nat) /\ Len(truth') = Len(rows) + 1
      /\ truth'[Len(rows) + 1] = objs[x].version
      /\ \A i \in 1..Len(rows) : truth'[i] = truth[i]
  BY <1>1, <1>2, <1>6
<1>10. ASSUME NEW o \in DOMAIN objs, o # x, objs[o].row # 0
       PROVE  /\ objs'[o] = objs[o] /\ objs[o].row \in 1..Len(rows)
              /\ truth[objs[o].row] = objs[o].version
              /\ objs[o].row \notin spoilt =>
                   rows[objs[o].row].frame = objs[o].frame /\ rows[objs[o].row].time = objs[o].time
  BY <1>2, <1>4, <1>10 DEF Linked
<1>11. row.frame = objs[x].frame /\ row.version = objs[x].version /\ row.time = objs[x].time
  BY DEF row
<1>12. Linked(objs)'
  <2>1. ASSUME NEW o \in DOMAIN objs, objs'[o].row # 0
        PROVE  /\ objs'[o].row \in DOMAIN rows'
               /\ truth'[objs'[o].row] = objs'[o].version
               /\ objs'[o].row \notin spoilt =>
                    /\ rows'[objs'[o].row].frame = objs'[o].frame
                    /\ rows'[objs'[o].row].time = objs'[o].time
    <3>1. CASE o = x
      BY <1>2, <1>5, <1>8, <1>9, <1>11, <3>1
    <3>2. CASE o # x
      <4>1. objs[o].row # 0
        BY <1>4, <2>1, <3>2
      <4>2. objs'[o] = objs[o] /\ objs[o].row \in 1..Len(rows)
        BY <1>10, <3>2, <4>1
      <4>3. objs[o].row \in DOMAIN rows'
        BY <1>2, <1>8, <4>2
      <4> QED
        BY <1>8, <1>9, <1>10, <3>2, <4>1, <4>2, <4>3
    <3> QED
      BY <3>1, <3>2
  <2>2. ASSUME NEW o \in DOMAIN objs, NEW p \in DOMAIN objs,
               objs'[o].row # 0, objs'[o].row = objs'[p].row
        PROVE  o = p
    <3>1. \A r \in DOMAIN objs : (r # x /\ objs'[r].row # 0) =>
             objs'[r].row = objs[r].row /\ objs'[r].row \in 1..Len(rows)
      BY <1>4, <1>10
    <3>2. Len(rows) + 1 \notin 1..Len(rows)
      BY <1>2
    <3> QED
      BY <1>2, <1>5, <2>2, <3>1, <3>2 DEF Linked
  <2>3. ASSUME NEW o \in DOMAIN objs, objs'[o].update
        PROVE  objs'[o].row # 0 /\ (objs'[o].row \in mixed \/ objs'[o].id = objs'[o].row)
    <3>1. o # x
      BY <1>5, <2>3
    <3>2. objs'[o] = objs[o]
      BY <1>4, <3>1
    <3> QED
      BY <1>2, <2>3, <3>2 DEF Linked
  <2>4. DOMAIN objs' = DOMAIN objs /\ spoilt' = spoilt /\ mixed' = mixed
    BY <1>1, <1>4
  <2>5. \A o \in DOMAIN objs' : objs'[o].row # 0 =>
          /\ objs'[o].row \in DOMAIN rows'
          /\ truth'[objs'[o].row] = objs'[o].version
          /\ objs'[o].row \notin spoilt' =>
               rows'[objs'[o].row].frame = objs'[o].frame /\ rows'[objs'[o].row].time = objs'[o].time
    BY <2>1, <2>4
  <2>6. \A o, p \in DOMAIN objs' : (objs'[o].row # 0 /\ objs'[o].row = objs'[p].row) => o = p
    BY <2>2, <2>4
  <2>7. \A o \in DOMAIN objs' : objs'[o].update =>
          objs'[o].row # 0 /\ (objs'[o].row \in mixed' \/ objs'[o].id = objs'[o].row)
    BY <2>3, <2>4
  <2> QED
    BY <2>5, <2>6, <2>7 DEF Linked
<1>13. Saved(objs)'
  <2>1. ASSUME NEW i \in DOMAIN rows', i \notin mixed, i \notin spoilt,
               rows'[i].version # truth'[i], i \notin torn
        PROVE  \E o \in DOMAIN objs : objs'[o].row = i
    <3>1. i # Len(rows) + 1
      BY <1>8, <1>9, <1>11, <2>1
    <3>2. i \in 1..Len(rows)
      BY <1>2, <1>8, <2>1, <3>1
    <3>3. PICK o \in DOMAIN objs : objs[o].row = i
      BY <1>2, <1>8, <1>9, <2>1, <3>2 DEF Saved
    <3>4. o # x
      BY <1>3, <3>2, <3>3
    <3> QED
      BY <1>4, <3>3, <3>4
  <2> QED
    BY <1>1, <1>4, <2>1 DEF Saved
<1>14. FrameTypes'
  <2>1. Objects(objs')
    BY <1>2, <1>4, <1>5 DEF Objects
  <2>2. DOMAIN rows \subseteq DOMAIN rows' /\ rowid' \in Nat
    BY <1>1, <1>2, <1>8
  <2> QED
    BY <1>1, <1>4, <1>8, <1>9, <2>1, <2>2 DEF FrameTypes, FInv
<1>15. HandedOutOnce'
  <2>1. \A o \in DOMAIN objs' : objs'[o].row # 0 => o <= last
    BY <1>3, <1>4 DEF FInv, HandedOutOnce
  <2>2. \A y \in ToSet(todo) : y \in hand /\ y <= last /\ ~objs'[y].update
    BY <1>2, <1>4, <1>5 DEF FInv, HandedOutOnce
  <2> QED
    BY <1>1, <2>1, <2>2 DEF FInv, HandedOutOnce
<1>16. Bounded' /\ Queued(queue, last)'
  BY <1>1, <1>4 DEF FInv, Bounded
<1>17. InBetween'
  <2>1. \A o \in DOMAIN objs : (objs'[o].row # 0 /\ ~objs'[o].update) => o = x
    BY <1>1, <1>4 DEF FInv, InBetween
  <2> QED
    BY <1>1, <1>2, <1>3, <1>4, <1>5, <1>8, <2>1 DEF InBetween
<1> QED
  BY <1>1, <1>2, <1>8, <1>9, <1>12, <1>13, <1>14, <1>15, <1>16, <1>17 DEF FInv, Kept

(* The id is the place of the frame's row, unless a state was inserted. *)
LEMMA TakeIdKeeps ==
  ASSUME FInv, TakeId
  PROVE  FInv' /\ Kept
<1> DEFINE x == Head(todo)
<1>1. /\ cycle = "insert" /\ cycle' = "post"
      /\ objs' = [objs EXCEPT ![x].id = rowid, ![x].update = TRUE]
      /\ todo' = Tail(todo)
      /\ UNCHANGED <<rows, queue, last, hand, truth, torn, spoilt, rowid, mixed>>
  BY DEF TakeId, idVars
<1>2. /\ rows \in Seq(Row) /\ Len(rows) \in Nat /\ DOMAIN rows = 1..Len(rows)
      /\ Objects(objs) /\ Linked(objs) /\ Saved(objs)
      /\ todo \in Seq(Nat) /\ Ascending(todo) /\ ToSet(todo) \subseteq DOMAIN objs
      /\ todo # <<>> /\ rowid \in Nat
  BY <1>1 DEF FInv, FrameTypes, HandedOutOnce, InBetween
<1>3. /\ x \in DOMAIN objs /\ objs[x] \in Frame /\ objs[x].row = Len(rows) /\ Len(rows) # 0
      /\ rowid = Len(rows) \/ Len(rows) \in mixed
      /\ x = todo[1]
  BY <1>1, <1>2, HeadHeld DEF FInv, InBetween, Objects
<1>4. /\ DOMAIN objs' = DOMAIN objs
      /\ \A p \in DOMAIN objs : p # x => objs'[p] = objs[p]
      /\ objs'[x] = [objs[x] EXCEPT !.id = rowid, !.update = TRUE]
  <2> HIDE DEF x
  <2> QED
    BY <1>1, <1>3
<1>5. /\ objs'[x] \in Frame /\ objs'[x].id = rowid /\ objs'[x].update /\ objs'[x].row = objs[x].row
      /\ objs'[x].frame = objs[x].frame /\ objs'[x].version = objs[x].version
      /\ objs'[x].time = objs[x].time
  <2> HIDE DEF x
  <2>1. objs[x] \in [frame : Nat, version : Nat, time : Nat, id : Nat, update : BOOLEAN, row : Nat]
    BY <1>3 DEF Frame
  <2>2. objs'[x] \in [frame : Nat, version : Nat, time : Nat, id : Nat, update : BOOLEAN, row : Nat]
    BY <1>2, <1>4, <2>1
  <2>3. /\ objs'[x].id = rowid /\ objs'[x].update /\ objs'[x].row = objs[x].row
        /\ objs'[x].frame = objs[x].frame /\ objs'[x].version = objs[x].version
        /\ objs'[x].time = objs[x].time
    BY <1>4, <2>1
  <2> QED
    BY <2>2, <2>3 DEF Frame
<1>6. \A p \in DOMAIN objs : /\ objs'[p].frame = objs[p].frame /\ objs'[p].version = objs[p].version
                             /\ objs'[p].time = objs[p].time /\ objs'[p].row = objs[p].row
  BY <1>4, <1>5
<1>7. todo' \in Seq(Nat) /\ Ascending(todo') /\ \A y \in ToSet(todo') : y \in ToSet(todo) /\ y # x
  <2>1. /\ Len(todo) \in Nat /\ x = todo[1] /\ Len(todo) >= 1
    <3>1. todo \in Seq(Nat) /\ todo # <<>>
      BY <1>2
    <3>2. Len(todo) \in Nat /\ Len(todo) >= 1
      BY <3>1
    <3> QED
      BY <1>3, <3>2
  <2>2. todo' \in Seq(Nat) /\ Len(todo') = Len(todo) - 1
        /\ \A i \in 1..Len(todo') : todo'[i] = todo[i + 1]
    BY <1>1, <1>2
  <2>3. ASSUME NEW i \in 1..Len(todo'), NEW j \in 1..Len(todo'), i < j PROVE todo'[i] < todo'[j]
    <3>1. i + 1 \in 1..Len(todo) /\ j + 1 \in 1..Len(todo) /\ i + 1 < j + 1
      BY <2>1, <2>2, <2>3
    <3> QED
      BY <1>2, <2>2, <3>1 DEF Ascending
  <2>4. ASSUME NEW y \in ToSet(todo') PROVE y \in ToSet(todo) /\ y # x
    <3>1. PICK i \in 1..Len(todo') : todo'[i] = y
      BY <2>2, <2>4 DEF ToSet
    <3>2. y = todo[i + 1] /\ i + 1 \in 1..Len(todo) /\ 1 \in 1..Len(todo) /\ 1 < i + 1
      BY <2>1, <2>2, <3>1
    <3>3. todo[1] < todo[i + 1] /\ todo[1] \in Nat /\ todo[i + 1] \in Nat
      BY <1>2, <3>2 DEF Ascending
    <3>4. DOMAIN todo = 1..Len(todo)
      BY <1>2
    <3> QED
      BY <2>1, <3>2, <3>3, <3>4 DEF ToSet
  <2> QED
    BY <2>2, <2>3, <2>4 DEF Ascending
<1>8. Linked(objs)'
  <2>1. ASSUME NEW o \in DOMAIN objs, objs'[o].update
        PROVE  objs'[o].row # 0 /\ (objs'[o].row \in mixed \/ objs'[o].id = objs'[o].row)
    <3>1. CASE o = x
      BY <1>3, <1>5, <3>1
    <3>2. CASE o # x
      BY <1>2, <1>4, <2>1, <3>2 DEF Linked
    <3> QED
      BY <3>1, <3>2
  <2> HIDE DEF x
  <2> QED
    BY <1>1, <1>2, <1>4, <1>6, <2>1 DEF Linked
<1>9. Saved(objs)'
  <2> HIDE DEF x
  <2> QED
    BY <1>1, <1>2, <1>4, <1>6 DEF Saved
<1>10. FrameTypes'
  <2>1. Objects(objs')
    BY <1>2, <1>4, <1>5 DEF Objects
  <2> HIDE DEF x
  <2> QED
    BY <1>1, <1>2, <1>4, <1>7, <2>1 DEF FrameTypes, FInv
<1>11. HandedOutOnce'
  <2>1. \A o \in DOMAIN objs' : objs'[o].row # 0 => o <= last
    BY <1>4, <1>6 DEF FInv, HandedOutOnce
  <2>2. \A y \in ToSet(todo') : y \in hand /\ y <= last /\ ~objs'[y].update
    BY <1>2, <1>4, <1>7 DEF FInv, HandedOutOnce
  <2> QED
    BY <1>1, <1>7, <2>1, <2>2 DEF HandedOutOnce
<1>12. InBetween'
  <2>1. \A o \in DOMAIN objs : objs'[o].row # 0 => objs'[o].update
    BY <1>4, <1>5 DEF FInv, InBetween
  <2> QED
    BY <1>1, <1>4, <2>1 DEF InBetween
<1>13. Bounded' /\ Queued(queue, last)' /\ Len(truth') = Len(rows')
  BY <1>1, <1>4 DEF FInv, Bounded
<1> QED
  BY <1>1, <1>2, <1>8, <1>9, <1>10, <1>11, <1>12, <1>13 DEF FInv, Kept

(* A state is inserted, maybe between a row and its id. *)
LEMMA RowidTaken ==
  ASSUME FInv, StateTypes, RecordState
  PROVE  FInv' /\ Kept
<1>1. /\ UNCHANGED frameVars
      /\ rowid' = Len(records) + 1
      /\ mixed' = IF cycle = "insert" THEN mixed \cup {Len(rows)} ELSE mixed
  BY DEF RecordState
<1>2. UNCHANGED <<rows, objs, queue, last, cycle, hand, todo, truth, torn, spoilt>>
  BY <1>1 DEF frameVars
<1>3. rows \in Seq(Row) /\ Len(rows) \in Nat /\ DOMAIN rows = 1..Len(rows)
  BY DEF FInv, FrameTypes
<1>4. mixed \subseteq mixed' /\ (cycle = "insert" => Len(rows) \in mixed' /\ Len(rows) # 0)
      /\ mixed' \subseteq DOMAIN rows /\ rowid' \in Nat
  <2>1. cycle = "insert" => Len(rows) # 0
    BY DEF FInv, InBetween
  <2>2. Len(records) \in Nat
    BY DEF StateTypes
  <2> QED
    BY <1>1, <1>3, <2>1, <2>2 DEF FInv, FrameTypes
<1>5. FrameTypes' /\ Linked(objs)' /\ Saved(objs)'
  BY <1>2, <1>4 DEF FInv, FrameTypes, Linked, Saved
<1>6. HandedOutOnce' /\ InBetween' /\ Bounded' /\ Queued(queue, last)'
  BY <1>2, <1>4 DEF FInv, HandedOutOnce, InBetween, Bounded
<1> QED
  BY <1>2, <1>3, <1>5, <1>6 DEF FInv, Kept

LEMMA EndCycleKeeps ==
  ASSUME FInv, EndCycle
  PROVE  FInv' /\ Kept
<1>1. /\ Release(objs, queue, last, {})
      /\ todo = <<>> /\ todo' = todo /\ cycle' = "idle"
      /\ truth' = truth /\ torn' = torn /\ rowid' = rowid /\ mixed' = mixed
      /\ cycle = "post"
  BY DEF EndCycle, idVars
<1>2. /\ FrameTypes /\ Len(truth) = Len(rows) /\ Objects(objs) /\ Linked(objs) /\ Saved(objs)
      /\ \A o \in DOMAIN objs : objs[o].row # 0 => objs[o].update
  BY <1>1 DEF FInv, FrameTypes, InBetween
<1>3. queue' = queue /\ last' = last /\ hand' = {}
  BY <1>1 DEF Release
<1>4. /\ DOMAIN objs' = DOMAIN objs \cap (ToSet(queue) \cup {last} \cup {})
      /\ \A o \in DOMAIN objs' : objs'[o] = objs[o]
      /\ rows' \in Seq(Row) /\ Len(rows') = Len(rows)
      /\ spoilt \subseteq spoilt' /\ spoilt' \subseteq DOMAIN rows
      /\ \A i \in DOMAIN rows \ spoilt' : rows'[i].frame = rows[i].frame /\ rows'[i].time = rows[i].time
      /\ Objects(objs') /\ Linked(objs)' /\ Saved(objs)'
  BY <1>1, <1>2, ReleaseKeeps
<1>5. ToSet(todo) = {}
  BY <1>1 DEF ToSet
<1>6. DOMAIN rows' = DOMAIN rows /\ Len(rows) \in Nat
  BY <1>2, <1>4 DEF FrameTypes
<1>7. FrameTypes'
  BY <1>1, <1>2, <1>3, <1>4, <1>5, <1>6 DEF FrameTypes
<1>8. HandedOutOnce' /\ Queued(queue, last)' /\ Bounded' /\ InBetween'
  BY <1>1, <1>2, <1>3, <1>4, <1>5 DEF FInv, HandedOutOnce, Bounded, InBetween
<1> QED
  BY <1>1, <1>2, <1>4, <1>6, <1>7, <1>8 DEF FInv, Kept

(* The end of a session: every frame goes, by its destructor or without. *)
LEMMA Emptied ==
  ASSUME FInv, DOMAIN objs' = {}, queue' = <<>>, last' = 0, hand' = {}, todo' = <<>>,
         rows' \in Seq(Row), Len(rows') = Len(rows), truth' = truth, rowid' \in Nat,
         cycle' = "idle", torn' \cup mixed' \cup spoilt' \subseteq DOMAIN rows,
         \A i \in DOMAIN rows \ (mixed' \cup spoilt') : rows'[i].version = truth[i] \/ i \in torn'
  PROVE  FInv'
<1>1. /\ DOMAIN rows' = DOMAIN rows /\ DOMAIN objs' = {}
      /\ ToSet(queue') = {} /\ ToSet(todo') = {}
      /\ truth \in Seq(Nat) /\ Len(truth) = Len(rows)
  BY DEF FInv, FrameTypes, ToSet
<1>2. FrameTypes' /\ Linked(objs)' /\ Saved(objs)'
  BY <1>1 DEF FrameTypes, Objects, Linked, Saved
<1>3. Queued(queue, last)'
  BY DEF Queued, Ascending, ToSet
<1>4. HandedOutOnce'
  BY <1>1 DEF HandedOutOnce, Ascending
<1>5. Bounded' /\ InBetween'
  BY <1>1 DEF Bounded, InBetween
<1> QED
  BY <1>1, <1>2, <1>3, <1>4, <1>5 DEF FInv

LEMMA FinishKeeps ==
  ASSUME FInv, Finish
  PROVE  FInv' /\ Kept
<1>1. /\ Release(objs, <<>>, 0, {})
      /\ todo' = <<>> /\ truth' = truth /\ torn' = torn /\ mixed' = mixed /\ rowid' = 0
      /\ cycle = "idle" /\ cycle' = "idle"
  BY DEF Finish, Forget
<1>2. /\ FrameTypes /\ Len(truth) = Len(rows) /\ Objects(objs) /\ Linked(objs) /\ Saved(objs)
      /\ \A o \in DOMAIN objs : objs[o].row # 0 => objs[o].update
  BY <1>1 DEF FInv, FrameTypes, InBetween
<1>3. queue' = <<>> /\ last' = 0 /\ hand' = {}
  BY <1>1 DEF Release
<1>4. PICK q : q = <<>>
  OBVIOUS
<1>5. /\ DOMAIN objs' = DOMAIN objs \cap (ToSet(q) \cup {0} \cup {})
      /\ \A o \in DOMAIN objs' : objs'[o] = objs[o]
      /\ rows' \in Seq(Row) /\ Len(rows') = Len(rows)
      /\ spoilt \subseteq spoilt' /\ spoilt' \subseteq DOMAIN rows
      /\ \A i \in DOMAIN rows \ spoilt' : rows'[i].frame = rows[i].frame /\ rows'[i].time = rows[i].time
      /\ Objects(objs') /\ Linked(objs)' /\ Saved(objs)'
  <2>1. \A o \in DOMAIN objs \ (ToSet(q) \cup {0} \cup {}) : objs[o].row # 0 => objs[o].update
    BY <1>2
  <2>2. Release(objs, q, 0, {})
    BY <1>1, <1>4
  <2> QED
    BY <1>1, <1>2, <2>1, <2>2, ReleaseKeeps
<1>6. DOMAIN objs' = {}
  <2>1. 0 \notin DOMAIN objs
    BY <1>2 DEF Objects
  <2>2. ToSet(q) = {}
    BY <1>4 DEF ToSet
  <2> QED
    BY <1>5, <2>1, <2>2
<1>7. DOMAIN rows' = DOMAIN rows /\ Len(rows) \in Nat
  BY <1>2, <1>5 DEF FrameTypes
<1>8. \A i \in DOMAIN rows \ (mixed' \cup spoilt') : rows'[i].version = truth[i] \/ i \in torn
  BY <1>1, <1>5, <1>6, <1>7 DEF Saved
<1>9. torn' \cup mixed' \cup spoilt' \subseteq DOMAIN rows
  BY <1>1, <1>2, <1>5 DEF FrameTypes
<1>10. FInv'
  BY <1>1, <1>3, <1>5, <1>6, <1>8, <1>9, Emptied
<1> QED
  BY <1>5, <1>7, <1>10 DEF Kept

LEMMA CrashKeeps ==
  ASSUME FInv, Crash
  PROVE  FInv' /\ Kept
<1>1. /\ torn' = torn \cup ({objs[o].row : o \in DOMAIN objs} \ {0})
      /\ objs' = <<>> /\ queue' = <<>> /\ last' = 0 /\ hand' = {} /\ todo' = <<>>
      /\ rows' = rows /\ truth' = truth /\ mixed' = mixed /\ spoilt' = spoilt
      /\ rowid' = 0 /\ cycle' = "idle"
  BY DEF Crash, Forget
<1>2. /\ rows \in Seq(Row) /\ Len(rows) \in Nat /\ DOMAIN rows = 1..Len(rows)
      /\ torn \cup mixed \cup spoilt \subseteq DOMAIN rows
  BY DEF FInv, FrameTypes
<1>3. torn' \cup mixed' \cup spoilt' \subseteq DOMAIN rows
  BY <1>1, <1>2 DEF FInv, Linked
<1>4. \A i \in DOMAIN rows \ (mixed \cup spoilt) : rows[i].version = truth[i] \/ i \in torn'
  BY <1>1, <1>2 DEF FInv, Saved
<1>5. FInv'
  BY <1>1, <1>2, <1>3, <1>4, Emptied
<1> QED
  BY <1>1, <1>2, <1>5 DEF Kept

LEMMA FrameStep ==
  ASSUME Counters, FInv, StateTypes, [Next]_vars
  PROVE  FInv' /\ Kept
<1>1. CASE UNCHANGED frameVars /\ UNCHANGED idVars
  BY <1>1, Untouched
<1>2. CASE CreateAgg
  BY <1>2, CreateAggKeeps
<1>3. CASE \E o \in DOMAIN objs : Edit(o)
  BY <1>3, EditKeeps
<1>4. CASE StartCycle
  BY <1>4, StartCycleKeeps
<1>5. CASE Collect
  BY <1>5, CollectKeeps
<1>6. CASE InsertRow
  BY <1>6, InsertRowKeeps
<1>12. CASE TakeId
  BY <1>12, TakeIdKeeps
<1>13. CASE RecordState
  BY <1>13, RowidTaken
<1>7. CASE EndCycle
  BY <1>7, EndCycleKeeps
<1>8. CASE Restore
  BY <1>8, RestoreKeeps
<1>9. CASE Finish
  BY <1>9, FinishKeeps
<1>10. CASE Crash
  BY <1>10, CrashKeeps
<1>11. CASE \/ Tick \/ NewWorker \/ Start \/ Load \/ AtRest
            \/ \E k \in Keys, v \in Values : SetState(k, v)
            \/ \E k \in Keys : RestoreState(k)
            \/ UNCHANGED vars
  <2>1. UNCHANGED frameVars /\ UNCHANGED idVars
    BY <1>11 DEF Tick, NewWorker, Start, Load, AtRest, SetState, RestoreState, vars, frameVars, idVars
  <2> QED
    BY <1>1, <2>1
<1> QED
  BY <1>2, <1>3, <1>4, <1>5, <1>6, <1>7, <1>8, <1>9, <1>10, <1>11, <1>12, <1>13 DEF Next

-----------------------------------------------------------------------------
(* The steps of the states.                                                *)

LEMMA CountersStep ==
  ASSUME Counters, [Next]_vars
  PROVE  Counters'
<1>1. {MaxFrames, MaxEdits, MaxSets, MaxStarts, MaxTime} \subseteq Nat
  BY StoreAssumption DEF StoreAssumption
<1>2. CASE Tick
  BY <1>1, <1>2 DEF Counters, Tick, frameVars, stateVars
<1>3. CASE CreateAgg
  BY <1>1, <1>3 DEF Counters, CreateAgg, stateVars
<1>4. CASE \E o \in DOMAIN objs : Edit(o)
  BY <1>1, <1>4 DEF Counters, Edit, stateVars
<1>5. CASE StartCycle \/ Collect \/ InsertRow \/ TakeId \/ EndCycle
  BY <1>5 DEF Counters, StartCycle, Collect, InsertRow, TakeId, EndCycle, stateVars
<1>6. CASE \E k \in Keys, v \in Values : SetState(k, v)
  BY <1>1, <1>6 DEF Counters, SetState, frameVars
<1>7. CASE (\E k \in Keys : RestoreState(k)) \/ RecordState \/ NewWorker
  BY <1>7 DEF Counters, RestoreState, RecordState, NewWorker, frameVars
<1>8. CASE Start
  BY <1>1, <1>8 DEF Counters, Start, frameVars, stateVars
<1>9. CASE Restore
  BY <1>9 DEF Counters, Restore
<1>10. CASE Load
  BY <1>10 DEF Counters, Load, frameVars, stateVars
<1>11. CASE Finish \/ Crash
  BY <1>11 DEF Counters, Finish, Crash, Forget
<1>12. CASE AtRest \/ UNCHANGED vars
  BY <1>12 DEF Counters, AtRest, vars
<1> QED
  BY <1>2, <1>3, <1>4, <1>5, <1>6, <1>7, <1>8, <1>9, <1>10, <1>11, <1>12 DEF Next

(* The last record of k is the one of the greatest number. *)
LEMMA LastRecord ==
  ASSUME NEW k, records \in Seq(Record), Of(k) # {}
  PROVE  /\ Max(Of(k)) \in 1..Len(records) /\ records[Max(Of(k))].key = k
         /\ \A i \in Of(k) : i <= Max(Of(k))
         /\ LastRecorded(k) = records[Max(Of(k))].value
<1>1. Len(records) \in Nat /\ DOMAIN records = 1..Len(records)
  OBVIOUS
<1>2. Of(k) \subseteq Nat /\ \A i \in Of(k) : i <= Len(records)
  BY <1>1 DEF Of
<1>3. Max(Of(k)) \in Of(k) /\ \A i \in Of(k) : i <= Max(Of(k))
  BY <1>1, <1>2, MaxOfBounded
<1> QED
  BY <1>1, <1>3 DEF Of, LastRecorded

(* A record more. *)
LEMMA RecordAppended ==
  ASSUME records \in Seq(Record), NEW r \in Record, records' = Append(records, r)
  PROVE  /\ LastRecorded(r.key)' = r.value
         /\ \A k : k # r.key => LastRecorded(k)' = LastRecorded(k)
<1> DEFINE n == Len(records)
<1>1. /\ records' \in Seq(Record) /\ n \in Nat /\ DOMAIN records = 1..n
      /\ DOMAIN records' = 1..(n + 1) /\ records'[n + 1] = r
      /\ \A i \in 1..n : records'[i] = records[i]
  OBVIOUS
<1>2. LastRecorded(r.key)' = r.value
  <2>1. n + 1 \in Of(r.key)' /\ \A i \in Of(r.key)' : i <= n + 1
    BY <1>1 DEF Of
  <2>2. Of(r.key)' \subseteq Nat /\ Of(r.key)' # {}
    BY <1>1, <2>1 DEF Of
  <2>3. PICK S : S = Of(r.key)'
    OBVIOUS
  <2>4. PICK m \in Nat : m = n + 1
    BY <1>1
  <2> HIDE DEF n
  <2>5. Max(S) \in S /\ \A i \in S : i <= Max(S)
    BY <2>1, <2>2, <2>3, <2>4, MaxOfBounded
  <2>6. Max(S) = n + 1
    BY <1>1, <2>1, <2>2, <2>3, <2>5
  <2> QED
    BY <1>1, <2>2, <2>3, <2>6 DEF LastRecorded
<1>3. ASSUME NEW k, k # r.key PROVE LastRecorded(k)' = LastRecorded(k)
  <2>1. Of(k)' = Of(k)
    BY <1>1, <1>3 DEF Of
  <2>2. CASE Of(k) = {}
    BY <2>1, <2>2 DEF LastRecorded
  <2>3. CASE Of(k) # {}
    <3>1. Max(Of(k)) \in 1..n
      BY <2>3, LastRecord
    <3> QED
      BY <1>1, <2>1, <2>3, <3>1 DEF LastRecorded
  <2> QED
    BY <2>2, <2>3
<1> QED
  BY <1>2, <1>3

(* Nothing of the states but the time and the phase changes. *)
LEMMA StatesUntouched ==
  ASSUME SInv, UNCHANGED stateVars, now' >= now, now' \in Nat, now \in Nat,
         phase' = phase \/ (phase = "down" /\ phase' = "opening") \/ (phase = "restored" /\ phase' = "loaded")
  PROVE  SInv'
<1>1. /\ UNCHANGED <<registry, aware, hook, restoring, records, missed, final>>
      /\ \A k : Of(k)' = Of(k) /\ LastRecorded(k)' = LastRecorded(k) /\ Youngest(k)' = Youngest(k)
  BY DEF stateVars, Of, LastRecorded, Youngest
<1>2. StateTypes' /\ RegistryRecorded'
  BY <1>1 DEF SInv, StateTypes, RegistryRecorded
<1>3. Called'
  BY <1>1 DEF SInv, Called
<1>4. Timed'
  <2>1. ASSUME NEW i \in DOMAIN records PROVE records[i].time \in Nat
    <3>1. records[i] \in Record
      BY DEF SInv, StateTypes
    <3> QED
      BY <3>1 DEF Record
  <2> QED
    BY <1>1, <2>1 DEF SInv, Timed
<1>5. Remembered'
  BY <1>1 DEF SInv, Remembered
<1>6. Restored'
  BY <1>1 DEF SInv, Restored
<1> QED
  BY <1>2, <1>3, <1>4, <1>5, <1>6 DEF SInv

(* The worker writes an update. *)
LEMMA WriteKeeps ==
  ASSUME SInv, phase # "down", NEW k \in Keys, NEW v \in Values, Write(k, v),
         restoring' = restoring \/ restoring' = [restoring EXCEPT ![k] = None],
         UNCHANGED <<now, phase, aware, records, final>>
  PROVE  SInv'
<1>1. /\ hook = None
      /\ registry' = [registry EXCEPT ![k] = v]
      /\ hook' = IF aware THEN [key |-> k, value |-> v] ELSE None
      /\ missed' = IF aware \/ LastRecorded(k) = v THEN missed \ {k} ELSE missed \cup {k}
  BY DEF Write
<1>2. /\ None \notin Values
      /\ \A j : Of(j)' = Of(j) /\ LastRecorded(j)' = LastRecorded(j) /\ Youngest(j)' = Youngest(j)
  BY StoreAssumption DEF StoreAssumption, Of, LastRecorded, Youngest
<1>3. StateTypes
  BY DEF SInv
<1>4. registry'[k] = v /\ \A j \in Keys : j # k => registry'[j] = registry[j]
  BY <1>1, <1>3 DEF StateTypes
<1>5. \A j \in Keys : restoring'[j] # None => restoring'[j] = restoring[j]
  BY <1>3 DEF StateTypes
<1>6. StateTypes'
  BY <1>1, <1>3 DEF StateTypes
<1>7. RegistryRecorded'
  <2>1. SUFFICES ASSUME NEW j \in Keys, j \notin missed', registry'[j] # None,
                        ~(hook' # None /\ hook'.key = j)
                 PROVE  LastRecorded(j) = registry'[j]
    BY <1>2 DEF RegistryRecorded
  <2>2. CASE j = k
    <3>1. [key |-> k, value |-> v] # None
      BY StoreAssumption DEF StoreAssumption
    <3>2. ~aware
      BY <1>1, <2>1, <2>2, <3>1
    <3> QED
      BY <1>1, <1>4, <2>1, <2>2, <3>2
  <2>3. CASE j # k
    BY <1>1, <1>4, <2>1, <2>3 DEF SInv, RegistryRecorded
  <2> QED
    BY <2>2, <2>3
<1>8. Called'
  BY <1>1, <1>4 DEF SInv, Called
<1>9. Timed'
  BY DEF SInv, Timed
<1>10. Remembered'
  BY <1>2, <1>4 DEF SInv, Remembered
<1>11. Restored'
  BY <1>2, <1>5 DEF SInv, Restored
<1> QED
  BY <1>6, <1>7, <1>8, <1>9, <1>10, <1>11 DEF SInv

LEMMA RecordStateKeeps ==
  ASSUME Counters, SInv, RecordState
  PROVE  SInv'
<1> DEFINE r == [key |-> hook.key, value |-> hook.value, time |-> now]
<1>1. /\ hook # None /\ hook' = None
      /\ records' = Append(records, r)
      /\ UNCHANGED <<now, phase, registry, aware, restoring, missed, final>>
  BY DEF RecordState
<1>2. /\ StateTypes /\ hook \in [key : Keys, value : Values]
      /\ records \in Seq(Record) /\ Len(records) \in Nat /\ DOMAIN records = 1..Len(records)
  BY <1>1 DEF SInv, StateTypes
<1>3. r \in Record /\ r.key = hook.key /\ r.value = hook.value /\ r.time = now
  BY <1>2 DEF Counters, Record
<1> HIDE DEF r
<1>4. PICK key \in Keys : key = hook.key
  BY <1>2
<1>4a. /\ LastRecorded(key)' = hook.value
       /\ \A k : k # key => LastRecorded(k)' = LastRecorded(k)
  <2>1. PICK e \in Record : e = r
    BY <1>3
  <2>2. key = e.key
    BY <1>3, <1>4, <2>1
  <2>3. /\ LastRecorded(e.key)' = e.value
        /\ \A k : k # e.key => LastRecorded(k)' = LastRecorded(k)
    BY <1>1, <1>2, <2>1, RecordAppended
  <2> QED
    BY <1>3, <2>1, <2>2, <2>3
<1>5. /\ registry[key] = hook.value /\ registry[key] # None /\ aware /\ phase = "loaded"
  BY <1>1, <1>2, <1>4, StoreAssumption DEF SInv, Called, StoreAssumption
<1>6. /\ records' \in Seq(Record) /\ DOMAIN records' = 1..(Len(records) + 1)
      /\ records'[Len(records) + 1] = r
      /\ \A i \in 1..Len(records) : records'[i] = records[i]
  BY <1>1, <1>2, <1>3
<1>7. StateTypes'
  BY <1>1, <1>2, <1>6 DEF StateTypes
<1>8. RegistryRecorded'
  BY <1>1, <1>4, <1>5, <1>4a DEF SInv, RegistryRecorded
<1>9. Called'
  BY <1>1, <1>5 DEF SInv, Called
<1>10. Timed'
  <2>1. now \in Nat
    BY DEF Counters
  <2>2. ASSUME NEW i \in 1..(Len(records) + 1)
        PROVE  \/ i = Len(records) + 1 /\ records'[i].time = now
               \/ i \in 1..Len(records) /\ records'[i] = records[i] /\ records[i].time <= now
    BY <1>2, <1>3, <1>6 DEF SInv, Timed
  <2>3. \A i, j \in DOMAIN records' : i <= j => records'[i].time <= records'[j].time
    BY <1>2, <1>6, <2>1, <2>2 DEF SInv, Timed
  <2>4. \A i \in DOMAIN records' : records'[i].time <= now
    BY <1>6, <2>1, <2>2
  <2> QED
    BY <1>1, <2>3, <2>4 DEF Timed
<1>11. Remembered'
  BY <1>1, <1>5, <1>4a DEF SInv, Remembered
<1>12. Restored'
  BY <1>1, <1>5 DEF Restored
<1> QED
  BY <1>7, <1>8, <1>9, <1>10, <1>11, <1>12 DEF SInv

LEMMA NewWorkerKeeps ==
  ASSUME SInv, NewWorker
  PROVE  SInv'
<1>1. /\ phase = "loaded" /\ aware' = TRUE /\ hook = None
      /\ UNCHANGED <<now, phase, registry, hook, restoring, records, missed, final>>
      /\ \A k : Of(k)' = Of(k) /\ LastRecorded(k)' = LastRecorded(k) /\ Youngest(k)' = Youngest(k)
  BY DEF NewWorker, Of, LastRecorded, Youngest
<1>2. StateTypes' /\ RegistryRecorded'
  BY <1>1 DEF SInv, StateTypes, RegistryRecorded
<1>3. Called' /\ Timed' /\ Remembered' /\ Restored'
  BY <1>1 DEF SInv, Called, Timed, Remembered, Restored
<1> QED
  BY <1>2, <1>3 DEF SInv

LEMMA StatesRestored ==
  ASSUME SInv, Restore
  PROVE  SInv'
<1>1. /\ phase = "opening" /\ phase' = "restored"
      /\ UNCHANGED <<now, registry, aware, hook, records, missed, final>>
      /\ restoring' \in [Keys -> Values \cup {None}]
      /\ \A k \in Keys : IF Of(k) = {} THEN restoring'[k] = None ELSE restoring'[k] \in Youngest(k)
      /\ \A k : Of(k)' = Of(k) /\ LastRecorded(k)' = LastRecorded(k) /\ Youngest(k)' = Youngest(k)
  BY DEF Restore, Of, LastRecorded, Youngest
<1>2. StateTypes' /\ RegistryRecorded'
  BY <1>1 DEF SInv, StateTypes, RegistryRecorded
<1>3. Called' /\ Timed' /\ Remembered' /\ Restored'
  BY <1>1 DEF SInv, Called, Timed, Remembered, Restored
<1> QED
  BY <1>2, <1>3 DEF SInv

(* A session ends, in whatever way. *)
LEMMA ForgetKeeps ==
  ASSUME SInv, Forget, records' = records, now' = now
  PROVE  SInv'
<1>1. /\ phase' = "down"
      /\ registry' = NoStates /\ aware' = FALSE /\ hook' = None /\ restoring' = NoStates
      /\ missed' = {}
      /\ final' = [k \in Keys |->
           IF registry[k] = None THEN final[k]
           ELSE IF k \in missed \/ (hook # None /\ hook.key = k) THEN None ELSE registry[k]]
      /\ \A k : LastRecorded(k)' = LastRecorded(k)
  BY DEF Forget, Of, LastRecorded
<1>2. NoStates \in [Keys -> Values \cup {None}] /\ \A k \in Keys : NoStates[k] = None
  BY DEF NoStates
<1>3. StateTypes
  BY DEF SInv
<1>4. StateTypes'
  BY <1>1, <1>2, <1>3 DEF StateTypes
<1>5. RegistryRecorded' /\ Called' /\ Restored'
  BY <1>1, <1>2 DEF RegistryRecorded, Called, Restored
<1>6. Timed'
  BY DEF SInv, Timed
<1>7. Remembered'
  <2>1. SUFFICES ASSUME NEW k \in Keys, final'[k] # None PROVE LastRecorded(k) = final'[k]
    BY <1>1 DEF Remembered
  <2>2. CASE registry[k] = None
    BY <1>1, <2>1, <2>2 DEF SInv, Remembered
  <2>3. CASE registry[k] # None
    BY <1>1, <2>1, <2>3 DEF SInv, RegistryRecorded
  <2> QED
    BY <2>2, <2>3
<1> QED
  BY <1>4, <1>5, <1>6, <1>7 DEF SInv

LEMMA StateStep ==
  ASSUME Counters, SInv, [Next]_vars
  PROVE  SInv'
<1>1. now \in Nat /\ now <= now /\ now <= now + 1 /\ now + 1 \in Nat
  BY DEF Counters
<1>2. CASE Tick
  <2>1. now' = now + 1 /\ phase' = phase /\ UNCHANGED stateVars
    BY <1>2 DEF Tick
  <2> QED
    BY <1>1, <2>1, StatesUntouched
<1>3. CASE \/ CreateAgg \/ (\E o \in DOMAIN objs : Edit(o)) \/ StartCycle \/ Collect \/ InsertRow \/ TakeId
           \/ EndCycle \/ Start \/ Load \/ AtRest \/ UNCHANGED vars
  <2>1. /\ now' = now /\ UNCHANGED stateVars
        /\ phase' = phase \/ (phase = "down" /\ phase' = "opening")
           \/ (phase = "restored" /\ phase' = "loaded")
    BY <1>3 DEF CreateAgg, Edit, StartCycle, Collect, InsertRow, TakeId, EndCycle, Start, Load, AtRest, vars, stateVars
  <2> QED
    BY <1>1, <2>1, StatesUntouched
<1>4. CASE \E k \in Keys, v \in Values : SetState(k, v)
  <2>1. PICK k \in Keys, v \in Values : SetState(k, v)
    BY <1>4
  <2>2. /\ phase # "down" /\ Write(k, v) /\ restoring' = restoring
        /\ UNCHANGED <<now, phase, aware, records, final>>
    BY <2>1 DEF SetState, Up
  <2> QED
    BY <2>2, WriteKeeps
<1>5. CASE \E k \in Keys : RestoreState(k)
  <2>1. PICK k \in Keys : RestoreState(k)
    BY <1>5
  <2>2. /\ restoring[k] # None /\ restoring' = [restoring EXCEPT ![k] = None]
        /\ Write(k, restoring[k])
        /\ UNCHANGED <<now, phase, aware, records, final>>
    BY <2>1 DEF RestoreState
  <2>3. restoring[k] \in Values
    BY <2>2 DEF SInv, StateTypes
  <2>4. phase # "down"
    BY <2>2 DEF SInv, Called
  <2> QED
    BY <2>2, <2>3, <2>4, WriteKeeps
<1>6. CASE RecordState
  BY <1>6, RecordStateKeeps
<1>7. CASE NewWorker
  BY <1>7, NewWorkerKeeps
<1>8. CASE Restore
  BY <1>8, StatesRestored
<1>9. CASE Finish \/ Crash
  <2>1. Forget /\ records' = records /\ now' = now
    BY <1>9 DEF Finish, Crash
  <2> QED
    BY <2>1, ForgetKeeps
<1> QED
  BY <1>2, <1>3, <1>4, <1>5, <1>6, <1>7, <1>8, <1>9 DEF Next

-----------------------------------------------------------------------------
(* The theorems.                                                           *)

LEMMA InitHolds == Init => IInv
<1> SUFFICES ASSUME Init PROVE IInv
  OBVIOUS
<1>1. Counters
  BY StoreAssumption DEF Init, Counters, StoreAssumption
<1>2. FInv
  BY DEF Init, FInv, FrameTypes, Objects, Linked, Saved, Queued, HandedOutOnce, InBetween, Bounded, Ascending, ToSet
<1>3. SInv
  <2>1. StateTypes
    <3>1. NoStates \in [Keys -> Values \cup {None}]
      BY DEF NoStates
    <3>2. <<>> \in Seq(Record)
      OBVIOUS
    <3> QED
      BY <3>1, <3>2 DEF Init, StateTypes
  <2>2. RegistryRecorded /\ Called /\ Remembered /\ Restored
    BY DEF Init, RegistryRecorded, Called, Remembered, Restored, NoStates
  <2>3. Timed
    BY DEF Init, Timed
  <2> QED
    BY <2>1, <2>2, <2>3 DEF SInv
<1> QED
  BY <1>1, <1>2, <1>3 DEF IInv

LEMMA Inductive == IInv /\ [Next]_vars => IInv'
  BY CountersStep, FrameStep, StateStep DEF IInv, SInv

LEMMA InvariantOfSpec == Spec => []IInv
  BY InitHolds, Inductive, PTL DEF Spec

(* Every variable stays in its type, and the queue, the pointer, a cycle   *)
(* and post_aggregate refer to frames that are still there.                *)
THEOREM TypeCorrect == Spec => []TypeOK
<1>1. IInv => TypeOK
  BY DEF IInv, Counters, FInv, FrameTypes, Objects, SInv, StateTypes, TypeOK
<1> QED
  BY <1>1, InvariantOfSpec, PTL

(* The destructor callbacks of sqlite-db write to the rows of their own    *)
(* frames, whatever frames were restored, evicted or crashed before, but   *)
(* for frames that took their id after state_change inserted a row.        *)
THEOREM RowsStay == Spec => RowsKept
<1>1. IInv /\ [Next]_vars =>
        [/\ Len(rows') >= Len(rows)
         /\ \A i \in DOMAIN rows \ spoilt' :
              rows'[i].frame = rows[i].frame /\ rows'[i].time = rows[i].time]_vars
  BY FrameStep DEF IInv, SInv, Kept
<1> QED
  BY <1>1, InvariantOfSpec, PTL DEF Spec, RowsKept

(* What a frame becomes after post_aggregate reaches its row when the      *)
(* frame dies, unless the process crashes before, or state_change inserted *)
(* a row before that frame, or another that wrote to the row, took its id. *)
THEOREM FramesSaved == Spec => []FinalDataSaved
<1>1. IInv => FinalDataSaved
  BY DEF IInv, FInv, Saved, FinalDataSaved
<1> QED
  BY <1>1, InvariantOfSpec, PTL

(* The table states follows the registry, for every state whose last       *)
(* update was made while the worker had the plugin in its list.            *)
THEOREM RegistryFollowed == Spec => []RegistryRecorded
<1>1. IInv => RegistryRecorded
  BY DEF IInv, SInv
<1> QED
  BY <1>1, InvariantOfSpec, PTL

(* A state comes back as the session before left it: what sqlite-db set it *)
(* to in its constructor is the last record, unless the second of that has *)
(* several values.                                                         *)
THEOREM StatesReturn == Spec => []StatesComeBack
<1>1. SInv => StatesComeBack
  <2> SUFFICES ASSUME SInv, NEW k \in Keys, phase = "restored", restoring[k] # None,
                      final[k] # None, AloneInSecond(k)
               PROVE  restoring[k] = final[k]
    BY DEF StatesComeBack
  <2>1. records \in Seq(Record) /\ DOMAIN records = 1..Len(records) /\ Len(records) \in Nat
    BY DEF SInv, StateTypes
  <2>2. LastRecorded(k) = final[k]
    BY DEF SInv, Remembered
  <2>3. PICK j \in Of(k) : /\ \A l \in Of(k) : records[l].time <= records[j].time
                           /\ restoring[k] = records[j].value
    BY DEF SInv, Restored, Youngest
  <2>4. PICK m \in Of(k) : m = Max(Of(k)) /\ \A i \in Of(k) : i <= m
    BY <2>1, <2>3, LastRecord DEF Of
  <2>5. records[j].time = records[m].time
    <3>1. j \in DOMAIN records /\ m \in DOMAIN records /\ j <= m
      BY <2>3, <2>4 DEF Of
    <3>2. records[j].time <= records[m].time
      BY <3>1 DEF SInv, Timed
    <3>3. records[m].time <= records[j].time
      BY <2>3, <2>4
    <3>4. records[j] \in Record /\ records[m] \in Record
      BY <2>1, <3>1
    <3>5. records[j].time \in Nat /\ records[m].time \in Nat
      BY <3>4 DEF Record
    <3> QED
      BY <3>2, <3>3, <3>5
  <2>6. records[j].value = LastRecorded(k)
    BY <2>3, <2>4, <2>5 DEF AloneInSecond
  <2> QED
    BY <2>2, <2>3, <2>6
<1> QED
  BY <1>1, InvariantOfSpec, PTL DEF IInv
=============================================================================
