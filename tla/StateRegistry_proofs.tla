------------------------- MODULE StateRegistry_proofs -------------------------
(***************************************************************************)
(* Theorems about the state registry, for any number of callers, plugins,  *)
(* keys, values and calls.  Everything rests on one inductive invariant in *)
(* two layers: CoreInv, who owns the locks, the handle and the updates in  *)
(* hand at each point of the worker; and, relative to it, ViewInv, what    *)
(* the worker, its callbacks and the plugins know of the registry.         *)
(***************************************************************************)
EXTENDS StateRegistry, SequenceTheorems, TLAPS

(* state_queue_lock is held exactly by the caller that stores a handle. *)
QueueLockInv == \A t \in Threads : queue_lock = t <=> pc[t] = "assign"

(* An empty handle that nobody is about to fill means there is no worker:  *)
(* a new worker never takes the place of one that still runs.              *)
HandleInv == (handle = "empty" /\ queue_lock = None) => worker = "none"

(* Only a worker that holds set_state_lock has updates in hand, one at     *)
(* least when it is about to write; callbacks run only while it waits for  *)
(* them, all of them for plugins in its copy of the list.                  *)
WorkInv ==
  /\ worker \notin Holding => batch = <<>>
  /\ worker = "write" => batch # <<>>
  /\ hooks # {} => worker = "hooks"
  /\ hooks \subseteq audience

(* What the worker read is still true when it writes, and what it          *)
(* announced is still true while the callbacks run.                        *)
ValueInv ==
  /\ worker = "write" => last_value = states[Head(batch).key]
  /\ worker = "hooks" => /\ notice # NoNotice
                         /\ states[notice.key] = notice.next

(* A plugin that was loaded when the worker took its copy is in it. *)
AudienceInv ==
  worker \in Snapshotted =>
    \A p \in Plugins \ late : plugins[p] = "loaded" => p \in audience

CoreInv == TypeOK /\ LockHandedOver /\ QueueLockInv /\ HandleInv /\ WorkInv

-----------------------------------------------------------------------------
(* Lemmas about sequences. *)

(* Appending to the second of two sequences appends to the whole. *)
LEMMA AppendToConcat ==
  ASSUME NEW S, NEW s \in Seq(S), NEW t \in Seq(S), NEW e \in S
  PROVE  s \o Append(t, e) = Append(s \o t, e)
<1>1. <<e>> \in Seq(S)
  OBVIOUS
<1>2. Append(t, e) = t \o <<e>>
  BY AppendIsConcat
<1>3. s \o t \in Seq(S)
  BY ConcatProperties
<1>4. Append(s \o t, e) = (s \o t) \o <<e>>
  BY <1>3, AppendIsConcat
<1> QED
  BY <1>1, <1>2, <1>4, ConcatAssociative

(* Head and tail of two sequences, the first of which is not empty. *)
LEMMA HeadTailOfConcat ==
  ASSUME NEW S, NEW s \in Seq(S), NEW t \in Seq(S), s # <<>>
  PROVE  /\ s \o t # <<>>
         /\ Head(s \o t) = Head(s)
         /\ Tail(s \o t) = Tail(s) \o t
<1>1. /\ s \o t \in Seq(S)
      /\ Len(s \o t) = Len(s) + Len(t)
      /\ \A i \in 1 .. Len(s) + Len(t) :
           (s \o t)[i] = IF i <= Len(s) THEN s[i] ELSE t[i - Len(s)]
  BY ConcatProperties
<1>2. /\ Len(s) \in Nat \ {0}
      /\ Len(t) \in Nat
  BY EmptySeq, LenProperties
<1>3. s \o t # <<>>
  BY <1>2, ConcatEqualIffEmpty
<1>4. Head(s \o t) = Head(s)
  BY <1>1, <1>2, <1>3
<1>5. /\ Tail(s \o t) \in Seq(S)
      /\ Len(Tail(s \o t)) = Len(s) + Len(t) - 1
      /\ \A i \in 1 .. Len(Tail(s \o t)) : Tail(s \o t)[i] = (s \o t)[i + 1]
  BY <1>1, <1>3, HeadTailProperties
<1>6. /\ Tail(s) \in Seq(S)
      /\ Len(Tail(s)) = Len(s) - 1
      /\ \A i \in 1 .. Len(Tail(s)) : Tail(s)[i] = s[i + 1]
  BY HeadTailProperties
<1>7. /\ Tail(s) \o t \in Seq(S)
      /\ Len(Tail(s) \o t) = Len(s) - 1 + Len(t)
      /\ \A i \in 1 .. Len(s) - 1 + Len(t) :
           (Tail(s) \o t)[i] = IF i <= Len(s) - 1 THEN Tail(s)[i] ELSE t[i - (Len(s) - 1)]
  BY <1>6, ConcatProperties
<1>8. ASSUME NEW i \in 1 .. Len(Tail(s \o t))
      PROVE  Tail(s \o t)[i] = (Tail(s) \o t)[i]
  <2>1. Tail(s \o t)[i] = (s \o t)[i + 1] /\ i + 1 \in 1 .. Len(s) + Len(t)
    BY <1>2, <1>5
  <2>2. CASE i <= Len(s) - 1
    <3>1. (s \o t)[i + 1] = s[i + 1]
      BY <1>1, <1>2, <2>1, <2>2
    <3>2. (Tail(s) \o t)[i] = Tail(s)[i]
      BY <1>2, <1>5, <1>7, <2>2
    <3> QED
      BY <1>2, <1>6, <2>1, <2>2, <3>1, <3>2
  <2>3. CASE i > Len(s) - 1
    <3>1. (s \o t)[i + 1] = t[(i + 1) - Len(s)]
      BY <1>1, <1>2, <2>1, <2>3
    <3>2. (Tail(s) \o t)[i] = t[i - (Len(s) - 1)]
      BY <1>2, <1>5, <1>7, <2>3
    <3>3. (i + 1) - Len(s) = i - (Len(s) - 1)
      BY <1>2
    <3> QED
      BY <2>1, <3>1, <3>2, <3>3
  <2> QED
    BY <1>2, <2>2, <2>3
<1>9. Tail(s \o t) = Tail(s) \o t
  BY <1>5, <1>7, <1>8, SeqEqual
<1> QED
  BY <1>3, <1>4, <1>9

-----------------------------------------------------------------------------
(* The lock, the queue's lock, the handle and the worker's hands. *)

USE DEF Threads, Known, CallPoints, WorkerPoints, Holding, Owners

(* Nobody owns anything at the start. *)
LEMMA CoreInit == Init => CoreInv
<1> SUFFICES ASSUME Init
             PROVE  CoreInv
  OBVIOUS
<1> USE RegistryAssumption DEF Init
<1>1. TypeOK
  <2>1. notice \in NoticeOf
    BY DEF NoticeOf
  <2>2. /\ state_queue \in Seq(UpdateOf)
        /\ batch \in Seq(UpdateOf)
    BY EmptySeq
  <2>3. /\ calls \in 0..MaxCalls
        /\ pc \in [Threads -> CallPoints]
        /\ states \in [Keys -> Known]
    OBVIOUS
  <2>4. /\ mirror \in [Plugins -> [Keys -> Known]]
        /\ plugins \in [Plugins -> {"new", "loaded", "unloaded"}]
    OBVIOUS
  <2> QED
    BY <2>1, <2>2, <2>3, <2>4 DEF TypeOK
<1>2. LockHandedOver /\ QueueLockInv /\ HandleInv /\ WorkInv
  BY DEF LockHandedOver, QueueLockInv, HandleInv, WorkInv
<1> QED
  BY <1>1, <1>2 DEF CoreInv

(* The steps of set_state keep the invariant. *)
LEMMA CoreSetState ==
  ASSUME CoreInv, NEW t \in Threads, EnterSetState(t) \/ SetStateStep(t)
  PROVE  CoreInv'
<1> USE RegistryAssumption DEF CoreInv, Goto, callVars, lockVars, workVars, pluginVars
<1> USE DEF TypeOK, LockHandedOver, QueueLockInv, HandleInv, WorkInv
<1>1. CASE EnterSetState(t)
  BY <1>1 DEF EnterSetState
<1>2. CASE \E u \in UpdateOf : PushUpdate(t, u)
  BY <1>2 DEF PushUpdate
<1>3. CASE TryLockFails(t)
  BY <1>3 DEF TryLockFails
<1>4. CASE TryLockSucceeds(t)
  BY <1>4 DEF TryLockSucceeds
<1>5. CASE NothingToJoin(t)
  BY <1>5 DEF NothingToJoin
<1>6. CASE JoinWorker(t)
  BY <1>6 DEF JoinWorker
<1>7. CASE SpawnWorker(t)
  BY <1>7 DEF SpawnWorker
<1>8. CASE SpawnTerminates(t)
  BY <1>8 DEF SpawnTerminates
<1>9. CASE AssignWorker(t)
  BY <1>9 DEF AssignWorker
<1> QED
  BY <1>1, <1>2, <1>3, <1>4, <1>5, <1>6, <1>7, <1>8, <1>9 DEF SetStateStep

(* So do the steps of the worker. *)
LEMMA CoreWorker ==
  ASSUME CoreInv, WorkerStep \/ LeaveDestroying
  PROVE  CoreInv'
<1> USE RegistryAssumption DEF CoreInv, callVars, lockVars, workVars, pluginVars
<1> USE DEF TypeOK, LockHandedOver, QueueLockInv, HandleInv, WorkInv
<1>1. CASE TakeAudience
  BY <1>1 DEF TakeAudience
<1>2. CASE ReadLast
  <2>1. Head(batch) \in UpdateOf
    BY <1>2, HeadTailProperties DEF ReadLast
  <2>2. Head(batch).key \in Keys
    BY <2>1 DEF UpdateOf
  <2> QED
    BY <1>2, <2>2 DEF ReadLast
<1>3. CASE WriteAndNotify
  <2>1. /\ Head(batch) \in UpdateOf
        /\ Tail(batch) \in Seq(UpdateOf)
    BY <1>3, HeadTailProperties DEF WriteAndNotify
  <2>2. /\ Head(batch).key \in Keys
        /\ Head(batch).value \in Values
    BY <2>1 DEF UpdateOf
  <2>3. notice' \in NoticeOf
    <3>1. last_value \in Known
      OBVIOUS
    <3>2. notice' = [key |-> Head(batch).key, last |-> last_value, next |-> Head(batch).value]
      BY <1>3 DEF WriteAndNotify
    <3>3. notice' \in [key : Keys, last : Known, next : Values]
      BY <2>2, <3>1, <3>2
    <3> QED
      BY <3>3 DEF NoticeOf
  <2>4. states' \in [Keys -> Known]
    BY <1>3, <2>2 DEF WriteAndNotify
  <2> QED
    BY <1>3, <2>1, <2>3, <2>4 DEF WriteAndNotify
<1>4. CASE JoinHooks
  BY <1>4 DEF JoinHooks
<1>5. CASE ReleaseLock
  BY <1>5 DEF ReleaseLock
<1>6. CASE LeavePlain \/ LeaveDestroying
  BY <1>6 DEF LeavePlain, LeaveDestroying, Leave
<1> QED
  BY <1>1, <1>2, <1>3, <1>4, <1>5, <1>6 DEF WorkerStep

(* And what the plugins and the rest of the session do. *)
LEMMA CoreOthers ==
  ASSUME CoreInv,
         \/ \E p \in Plugins : HookReturns(p) \/ LoadPlugin(p) \/ UnloadPlugin(p)
         \/ RaiseExiting
  PROVE  CoreInv'
<1> USE RegistryAssumption DEF CoreInv, callVars, lockVars, workVars, pluginVars
<1> USE DEF TypeOK, LockHandedOver, QueueLockInv, HandleInv, WorkInv
<1>1. ASSUME NEW p \in Plugins, HookReturns(p)
      PROVE  CoreInv'
  <2>1. notice.next \in Known
    BY DEF NoticeOf, NoNotice
  <2>2. mirror' \in [Plugins -> [Keys -> Known]]
    BY <1>1, <2>1 DEF HookReturns
  <2> QED
    BY <1>1, <2>2 DEF HookReturns
<1>2. ASSUME NEW p \in Plugins, LoadPlugin(p)
      PROVE  CoreInv'
  BY <1>2 DEF LoadPlugin
<1>3. ASSUME NEW p \in Plugins, UnloadPlugin(p)
      PROVE  CoreInv'
  BY <1>3 DEF UnloadPlugin
<1>4. CASE RaiseExiting
  BY <1>4 DEF RaiseExiting
<1> QED
  BY <1>1, <1>2, <1>3, <1>4

(* A step that changes nothing keeps the invariant. *)
LEMMA CoreStutter ==
  ASSUME CoreInv, UNCHANGED vars
  PROVE  CoreInv'
BY DEF vars, CoreInv, TypeOK, LockHandedOver, QueueLockInv, HandleInv, WorkInv

(* Every step of the registry keeps CoreInv. *)
LEMMA CoreNext == CoreInv /\ [Next]_vars => CoreInv'
BY CoreSetState, CoreWorker, CoreOthers, CoreStutter DEF Next, Step, AtRest

(* The type invariant: every variable keeps to its type, the worker never  *)
(* takes the head of an empty batch and a callback never sees anything but *)
(* a key, what it was and a value it was set to.                           *)
THEOREM TypeCorrect == Spec => []TypeOK
<1>1. CoreInv => TypeOK
  BY DEF CoreInv
<1> QED
  BY CoreInit, CoreNext, <1>1, PTL DEF Spec

(* set_state_lock, locked by a caller and unlocked by the thread it starts *)
(* (session.cpp:166,170), has one owner at every moment it is locked.      *)
THEOREM LockSafe == Spec => []LockHandedOver
<1>1. CoreInv => LockHandedOver
  BY DEF CoreInv
<1> QED
  BY CoreInit, CoreNext, <1>1, PTL DEF Spec

(* A caller that is at the join of the last worker (session.cpp:172-173)   *)
(* never finds one with updates to write or callbacks to wait for, so a    *)
(* state_change callback may call set_state.                               *)
THEOREM JoinSafe == Spec => []JoinNeverWaitsForCallbacks
<1>1. CoreInv => JoinNeverWaitsForCallbacks
  <2> SUFFICES ASSUME CoreInv, NEW t \in Threads, pc[t] = "join"
               PROVE  /\ worker \in {"none", "leaving", "over"}
                      /\ hooks = {}
                      /\ batch = <<>>
    BY DEF JoinNeverWaitsForCallbacks
  <2>1. worker \notin Holding
    BY DEF CoreInv, LockHandedOver
  <2> QED
    BY <2>1 DEF CoreInv, TypeOK, WorkInv
<1> QED
  BY CoreInit, CoreNext, <1>1, PTL DEF Spec

-----------------------------------------------------------------------------
(* What the plugins know. *)

ViewInv == ValueInv /\ AudienceInv /\ MirrorsAgree

(* At the start nobody has been told anything, and nothing is set. *)
LEMMA ViewInit == Init => ViewInv
BY DEF Init, ViewInv, ValueInv, AudienceInv, MirrorsAgree, Snapshotted

(* Steps that leave the registry and what the plugins know of it alone. *)
LEMMA ViewKept ==
  ASSUME ViewInv,
         UNCHANGED <<last_value, states, notice, pluginVars>>,
         \/ UNCHANGED <<worker, batch, audience>>
         \/ worker' \notin Snapshotted
         \/ worker' = "next" /\ worker \in Snapshotted /\ UNCHANGED <<batch, audience>>
  PROVE  ViewInv'
BY DEF ViewInv, ValueInv, AudienceInv, MirrorsAgree, Snapshotted, pluginVars

(* set_state touches neither the registry nor what plugins know of it: an  *)
(* update takes effect only once the worker writes it.                     *)
LEMMA ViewSetState ==
  ASSUME ViewInv, NEW t \in Threads, EnterSetState(t) \/ SetStateStep(t)
  PROVE  ViewInv'
<1>1. UNCHANGED <<last_value, states, notice, audience, pluginVars>>
  BY DEF EnterSetState, SetStateStep, PushUpdate, TryLockFails, TryLockSucceeds,
         NothingToJoin, JoinWorker, SpawnWorker, SpawnTerminates, AssignWorker, workVars
<1>2. \/ UNCHANGED <<worker, batch>>
      \/ worker' \notin Snapshotted
  BY DEF EnterSetState, SetStateStep, PushUpdate, TryLockFails, TryLockSucceeds,
         NothingToJoin, JoinWorker, SpawnWorker, SpawnTerminates, AssignWorker, workVars,
         Snapshotted
<1> QED
  BY <1>1, <1>2, ViewKept

(* The worker writes a value and sends it to every plugin of its copy: the *)
(* mirrors of those are one change behind until their callback returns.    *)
LEMMA ViewWorker ==
  ASSUME CoreInv, ViewInv, WorkerStep \/ LeaveDestroying
  PROVE  ViewInv'
<1> USE DEF workVars, pluginVars
<1>1. CASE TakeAudience
  BY <1>1 DEF TakeAudience, ViewInv, ValueInv, AudienceInv, MirrorsAgree, Snapshotted,
              CoreInv, TypeOK
<1>2. CASE ReadLast
  BY <1>2 DEF ReadLast, ViewInv, ValueInv, AudienceInv, MirrorsAgree, Snapshotted
<1>3. CASE WriteAndNotify
  <2> DEFINE key == Head(batch).key
             value == Head(batch).value
  <2>1. key \in Keys /\ value \in Values
    <3>1. batch # <<>> /\ batch \in Seq(UpdateOf)
      BY <1>3 DEF WriteAndNotify, CoreInv, WorkInv, TypeOK
    <3>2. Head(batch) \in UpdateOf
      BY <3>1, HeadTailProperties
    <3> QED
      BY <3>2 DEF UpdateOf
  <2>2. /\ states' = [states EXCEPT ![key] = value]
        /\ notice' = [key |-> key, last |-> states[key], next |-> value]
        /\ hooks = {} /\ hooks' = audience
        /\ worker' = "hooks" /\ worker = "write"
        /\ UNCHANGED <<audience, plugins, mirror, late>>
    BY <1>3 DEF WriteAndNotify, ViewInv, ValueInv, CoreInv, WorkInv
  <2>3. states \in [Keys -> Known]
    BY DEF CoreInv, TypeOK
  <2> HIDE DEF key, value
  <2>4. ValueInv'
    <3>1. notice' # NoNotice
      <4>1. notice'.next \in Values
        BY <2>1, <2>2
      <4> QED
        BY <4>1, RegistryAssumption DEF NoNotice
    <3>2. states'[notice'.key] = notice'.next
      BY <2>1, <2>2, <2>3
    <3> QED
      BY <2>2, <3>1, <3>2 DEF ValueInv
  <2>5. AudienceInv'
    BY <2>2 DEF ViewInv, AudienceInv, Snapshotted
  <2>6. MirrorsAgree'
    <3> SUFFICES ASSUME NEW p \in Plugins \ late, plugins[p] = "loaded"
                 PROVE  mirror[p] = IF p \in hooks'
                                    THEN [states' EXCEPT ![notice'.key] = notice'.last]
                                    ELSE states'
      BY <2>2 DEF MirrorsAgree
    <3>1. p \in hooks' /\ mirror[p] = states
      BY <2>2 DEF ViewInv, AudienceInv, MirrorsAgree, Snapshotted
    <3>2. [states' EXCEPT ![notice'.key] = notice'.last] = states
      BY <2>1, <2>2, <2>3
    <3> QED
      BY <3>1, <3>2
  <2> QED
    BY <2>4, <2>5, <2>6 DEF ViewInv
<1>4. CASE JoinHooks
  BY <1>4, ViewKept DEF JoinHooks, Snapshotted
<1>5. CASE ReleaseLock
  BY <1>5, ViewKept DEF ReleaseLock, Snapshotted
<1>6. CASE LeavePlain \/ LeaveDestroying
  BY <1>6, ViewKept DEF LeavePlain, LeaveDestroying, Leave, Snapshotted
<1> QED
  BY <1>1, <1>2, <1>3, <1>4, <1>5, <1>6 DEF WorkerStep

(* Callbacks bring a mirror up to date; a plugin that is loaded starts     *)
(* with the registry as it is.                                             *)
LEMMA ViewOthers ==
  ASSUME CoreInv, ViewInv,
         \/ \E p \in Plugins : HookReturns(p) \/ LoadPlugin(p) \/ UnloadPlugin(p)
         \/ RaiseExiting
  PROVE  ViewInv'
<1> USE DEF workVars, pluginVars
<1>1. ASSUME NEW p \in Plugins, HookReturns(p)
      PROVE  ViewInv'
  <2>1. /\ hooks' = hooks \ {p} /\ p \in hooks
        /\ mirror' = [mirror EXCEPT ![p][notice.key] = notice.next]
        /\ UNCHANGED <<worker, batch, last_value, states, notice, audience, plugins, late>>
    BY <1>1 DEF HookReturns
  <2>2. /\ notice.key \in Keys
        /\ states[notice.key] = notice.next
    BY <2>1 DEF ViewInv, ValueInv, CoreInv, WorkInv, TypeOK, NoticeOf
  <2>3. /\ states \in [Keys -> Known]
        /\ mirror \in [Plugins -> [Keys -> Known]]
    BY DEF CoreInv, TypeOK
  <2>4. MirrorsAgree'
    <3> SUFFICES ASSUME NEW q \in Plugins \ late, plugins[q] = "loaded"
                 PROVE  mirror'[q] = IF q \in hooks'
                                     THEN [states EXCEPT ![notice.key] = notice.last]
                                     ELSE states
      BY <2>1 DEF MirrorsAgree
    <3>1. CASE q # p
      BY <2>1, <2>3, <3>1 DEF ViewInv, MirrorsAgree
    <3>2. CASE q = p
      <4>1. mirror[q] = [states EXCEPT ![notice.key] = notice.last]
        BY <2>1, <3>2 DEF ViewInv, MirrorsAgree
      <4>2. mirror'[q] = [mirror[q] EXCEPT ![notice.key] = notice.next]
        BY <2>1, <2>3, <3>2
      <4>3. mirror'[q] = states
        BY <2>2, <2>3, <4>1, <4>2
      <4> QED
        BY <2>1, <3>2, <4>3
    <3> QED
      BY <3>1, <3>2
  <2>5. ValueInv' /\ AudienceInv'
    BY <2>1 DEF ViewInv, ValueInv, AudienceInv, Snapshotted
  <2> QED
    BY <2>4, <2>5 DEF ViewInv
<1>2. ASSUME NEW p \in Plugins, LoadPlugin(p)
      PROVE  ViewInv'
  BY <1>2 DEF LoadPlugin, ViewInv, ValueInv, AudienceInv, MirrorsAgree, Snapshotted,
              CoreInv, TypeOK, WorkInv
<1>3. ASSUME NEW p \in Plugins, UnloadPlugin(p)
      PROVE  ViewInv'
  BY <1>3 DEF UnloadPlugin, ViewInv, ValueInv, AudienceInv, MirrorsAgree, Snapshotted,
              CoreInv, TypeOK
<1>4. CASE RaiseExiting
  BY <1>4, ViewKept DEF RaiseExiting
<1> QED
  BY <1>1, <1>2, <1>3, <1>4

(* Every step keeps ViewInv, given CoreInv. *)
LEMMA ViewNext == CoreInv /\ ViewInv /\ [Next]_vars => ViewInv'
<1>1. ViewInv /\ UNCHANGED vars => ViewInv'
  BY ViewKept DEF vars, pluginVars
<1> QED
  BY <1>1, ViewSetState, ViewWorker, ViewOthers DEF Next, Step, AtRest

(* The two layers together are an invariant of the registry. *)
LEMMA Invariant == Spec => [](CoreInv /\ ViewInv)
BY CoreInit, CoreNext, ViewInit, ViewNext, PTL DEF Spec

(* The registry as a plugin can put it together from get_state and from    *)
(* the state_change calls it was given is the registry, whatever order the *)
(* threads run in, unless it was loaded while a worker held its copy of    *)
(* the plugin list.                                                        *)
THEOREM MirrorsCorrect == Spec => []MirrorsAgree
<1>1. CoreInv /\ ViewInv => MirrorsAgree
  BY DEF ViewInv
<1> QED
  BY Invariant, <1>1, PTL

-----------------------------------------------------------------------------
(* The registry implements the update queue. *)

(* The registry starts as the update queue does. *)
LEMMA QueueInit == Init => UQ!AbsInit
BY DEF Init, UQ!AbsInit, Waiting, NoNotice, UQ!NoNotice

(* Steps that touch neither batch nor queue, nor the registry. *)
LEMMA QueueKept ==
  ASSUME UNCHANGED <<batch, state_queue, queue_lock, states, notice>>
  PROVE  UNCHANGED UQ!absvars
BY DEF UQ!absvars, Waiting

(* A push submits an update; the other steps of set_state move updates     *)
(* from state_queue to the batch, which the queue does not see.            *)
LEMMA QueueSetState ==
  ASSUME CoreInv, NEW t \in Threads, EnterSetState(t) \/ SetStateStep(t)
  PROVE  [UQ!AbsNext]_(UQ!absvars)
<1> USE DEF callVars, lockVars, workVars, pluginVars
<1>1. ASSUME NEW u \in UpdateOf, PushUpdate(t, u)
      PROVE  UQ!Submit(u)
  <2>1. /\ batch' = batch /\ state_queue' = Append(state_queue, u)
        /\ queue_lock = None /\ queue_lock' = None
        /\ UNCHANGED <<states, notice>>
    BY <1>1 DEF PushUpdate
  <2>2. batch \o Append(state_queue, u) = Append(batch \o state_queue, u)
    BY AppendToConcat DEF CoreInv, TypeOK
  <2> QED
    BY <2>1, <2>2 DEF UQ!Submit, Waiting
<1>2. CASE SpawnWorker(t)
  <2>1. /\ batch = <<>> /\ batch' = state_queue /\ UNCHANGED <<states, notice>>
        /\ queue_lock = None /\ queue_lock' # None
    BY <1>2, RegistryAssumption DEF SpawnWorker, CoreInv, LockHandedOver, WorkInv
  <2>2. <<>> \o state_queue = state_queue \o <<>>
    BY ConcatEmptySeq DEF CoreInv, TypeOK
  <2> QED
    BY <2>1, <2>2 DEF UQ!absvars, Waiting
<1>3. CASE AssignWorker(t)
  <2>1. /\ queue_lock # None /\ state_queue' = <<>>
        /\ UNCHANGED <<batch, states, notice>>
    BY <1>3, RegistryAssumption DEF AssignWorker, CoreInv, QueueLockInv
  <2> QED
    BY <2>1 DEF UQ!absvars, Waiting
<1>4. CASE EnterSetState(t) \/ TryLockFails(t) \/ TryLockSucceeds(t) \/ NothingToJoin(t)
           \/ JoinWorker(t) \/ SpawnTerminates(t)
  BY <1>4, QueueKept DEF EnterSetState, TryLockFails, TryLockSucceeds, NothingToJoin,
                         JoinWorker, SpawnTerminates
<1>5. \A u \in UpdateOf : UQ!Submit(u) => UQ!AbsNext
  BY DEF UQ!AbsNext, UpdateOf, UQ!UpdateOf
<1> QED
  BY <1>1, <1>2, <1>3, <1>4, <1>5 DEF SetStateStep

(* The write of the worker applies the oldest update; its other steps are  *)
(* none of the queue.                                                      *)
LEMMA QueueWorker ==
  ASSUME CoreInv, ViewInv, WorkerStep \/ LeaveDestroying
  PROVE  [UQ!AbsNext]_(UQ!absvars)
<1> USE DEF callVars, lockVars, pluginVars
<1>1. CASE WriteAndNotify
  <2>1. /\ batch # <<>> /\ batch \in Seq(UpdateOf) /\ Waiting \in Seq(UpdateOf)
        /\ last_value = states[Head(batch).key]
    BY <1>1, EmptySeq DEF WriteAndNotify, CoreInv, WorkInv, TypeOK, ViewInv, ValueInv, Waiting
  <2>2. /\ batch \o Waiting # <<>>
        /\ Head(batch \o Waiting) = Head(batch)
        /\ Tail(batch \o Waiting) = Tail(batch) \o Waiting
    BY <2>1, HeadTailOfConcat
  <2>3. Waiting' = Waiting
    BY <1>1 DEF WriteAndNotify, Waiting
  <2>4. UQ!Apply
    BY <1>1, <2>1, <2>2, <2>3 DEF WriteAndNotify, UQ!Apply
  <2> QED
    BY <2>4 DEF UQ!AbsNext
<1>2. CASE TakeAudience \/ ReadLast \/ JoinHooks \/ ReleaseLock \/ LeavePlain \/ LeaveDestroying
  BY <1>2, QueueKept DEF TakeAudience, ReadLast, JoinHooks, ReleaseLock, LeavePlain,
                         LeaveDestroying, Leave, workVars
<1> QED
  BY <1>1, <1>2 DEF WorkerStep

(* Every step of the registry is one of the queue, or a stutter. *)
LEMMA QueueNext == CoreInv /\ ViewInv /\ [Next]_vars => [UQ!AbsNext]_(UQ!absvars)
<1>1. ASSUME \/ \E p \in Plugins : HookReturns(p) \/ LoadPlugin(p) \/ UnloadPlugin(p)
             \/ RaiseExiting
             \/ UNCHANGED vars
      PROVE  UNCHANGED UQ!absvars
  BY <1>1, QueueKept DEF HookReturns, LoadPlugin, UnloadPlugin, RaiseExiting, vars,
                         lockVars, workVars
<1> QED
  BY <1>1, QueueSetState, QueueWorker DEF Next, Step, AtRest

(* The registry with its threads, locks and batches does what a queue of   *)
(* updates does: each update is applied once, in the order in which it was *)
(* queued, and announced with the value it replaced.                       *)
THEOREM RegistryImplementsUpdateQueue == Spec => ImplementsUpdateQueue
BY QueueInit, QueueNext, Invariant, PTL DEF Spec, ImplementsUpdateQueue, UQ!AbsSpec
=============================================================================
