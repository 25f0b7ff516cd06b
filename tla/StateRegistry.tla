---------------------------- MODULE StateRegistry ----------------------------
(***************************************************************************)
(* The state registry of a session: Session::set_state, the worker thread  *)
(* it starts (change_state_function) and the state_change callbacks that   *)
(* worker runs, one thread per plugin.                                     *)
(*                                                                         *)
(* set_state puts the update in state_queue and then tries, without        *)
(* waiting, to take set_state_lock.  Whoever gets the lock joins the       *)
(* previous worker, hands the whole queue to a new one and returns; the    *)
(* new worker, not the caller, gives the lock back.  Whoever does not get  *)
(* the lock leaves its update in the queue and returns.                    *)
(*                                                                         *)
(* The thread exists before the caller has stored its handle in            *)
(* Session::state_thread: those are two steps, under state_queue_lock.     *)
(*                                                                         *)
(* Threads are the callers (plugin threads, aggregation callbacks, the     *)
(* interface) and the state_change callbacks: a callback may itself call   *)
(* set_state.  A plugin stands for a plugin object, loaded at most once.   *)
(***************************************************************************)
EXTENDS Naturals, Sequences

CONSTANTS
  Callers,   (* threads outside the registry that call set_state            *)
  Plugins,   (* plugin objects; p also names p's state_change thread        *)
  Keys,      (* state names                                                 *)
  Values,    (* values a state is set to                                    *)
  Unset,     (* the empty object get_state returns for an unknown key       *)
  MaxCalls,  (* bound: how many set_state calls are made                    *)
  None       (* no thread                                                   *)

ASSUME RegistryAssumption ==
  /\ Callers \cap Plugins = {}
  /\ None \notin Callers \cup Plugins
  /\ Unset \notin Values
  /\ MaxCalls \in Nat

VARIABLES
  exiting,         (* Session::exiting                                      *)
  calls,           (* how many set_state calls got past the exiting test    *)
  pc,              (* where each thread is inside set_state                 *)
  state_queue,     (* the static queue of requested updates                 *)
  set_state_lock,  (* TRUE while the mutex is locked, by caller or worker   *)
  queue_lock,      (* the thread that holds state_queue_lock, or None       *)
  handle,          (* whether Session::state_thread is "empty" or "joinable" *)
  worker,          (* where the worker thread started last is               *)
  crashed,         (* std::terminate was called                             *)
  batch,           (* what is left of the worker's copy of the queue        *)
  last_value,      (* the worker's last_value                               *)
  states,          (* Session::states                                       *)
  notice,          (* the arguments of the running state_change callbacks   *)
  plugins,         (* the life of every plugin object                       *)
  audience,        (* the worker's copy of Session::plugins                 *)
  hooks,           (* plugins whose state_change callback has not returned  *)
  mirror,          (* history: the registry as each plugin has been told it *)
  late             (* history: plugins loaded under a running worker        *)

callVars   == <<exiting, calls, pc>>
lockVars   == <<state_queue, set_state_lock, queue_lock, handle, crashed>>
workVars   == <<batch, last_value, states, notice, audience>>
pluginVars == <<plugins, hooks, mirror, late>>
vars == <<exiting, calls, pc, state_queue, set_state_lock, queue_lock, handle,
          worker, crashed, batch, last_value, states, notice, plugins, audience,
          hooks, mirror, late>>

Threads == Callers \cup Plugins

UpdateOf == [key : Keys, value : Values]
Known    == Values \cup {Unset}
NoNotice == [key |-> Unset, last |-> Unset, next |-> Unset]
NoticeOf == [key : Keys, last : Known, next : Values] \cup {NoNotice}

(* The points of set_state at which another thread may step in. *)
CallPoints == {"out", "push", "try", "join", "spawn", "assign"}

(* The worker: no such thread; the snapshot of the plugins; the head of    *)
(* the loop; between get_state and the write; waiting for the callbacks;   *)
(* lock given back but not returned yet; returned and not joined yet.      *)
WorkerPoints == {"none", "start", "next", "write", "hooks", "leaving", "over"}

(* The worker owns set_state_lock. *)
Holding == {"start", "next", "write", "hooks"}

(* The worker works from the copy of the plugin list it took. *)
Snapshotted == {"next", "write", "hooks"}

Init ==
  /\ exiting = FALSE
  /\ calls = 0
  /\ pc = [t \in Threads |-> "out"]
  /\ state_queue = <<>>
  /\ set_state_lock = FALSE
  /\ queue_lock = None
  /\ handle = "empty"
  /\ worker = "none"
  /\ crashed = FALSE
  /\ batch = <<>>
  /\ last_value = Unset
  /\ states = [k \in Keys |-> Unset]
  /\ notice = NoNotice
  /\ plugins = [p \in Plugins |-> "new"]
  /\ audience = {}
  /\ hooks = {}
  /\ mirror = [p \in Plugins |-> [k \in Keys |-> Unset]]
  /\ late = {}

-----------------------------------------------------------------------------
(* Session::set_state, called by thread t.                                 *)

(* After std::terminate nothing moves any more. *)
Running == ~crashed

Goto(t, point) == pc' = [pc EXCEPT ![t] = point]

(* Three mistakes set_state could make, then its steps.                    *)

(* lock() instead of try_lock(): the caller waits for the lock. *)
BlockingLock(t) ==
  /\ Running
  /\ pc[t] = "try"
  /\ set_state_lock
  /\ UNCHANGED vars

(* The caller unlocks set_state_lock itself, as a lock_guard would. *)
SpawnUnlocking(t) ==
  /\ Running
  /\ pc[t] = "spawn"
  /\ queue_lock = None
  /\ handle = "empty"
  /\ queue_lock' = t
  /\ worker' = "start"
  /\ batch' = state_queue
  /\ set_state_lock' = FALSE
  /\ Goto(t, "assign")
  /\ UNCHANGED <<exiting, calls, state_queue, handle, crashed>>
  /\ UNCHANGED <<last_value, states, notice, audience, pluginVars>>

(* state_queue.clear() is forgotten. *)
AssignKeepingQueue(t) ==
  /\ Running
  /\ pc[t] = "assign"
  /\ handle' = "joinable"
  /\ queue_lock' = None
  /\ Goto(t, "out")
  /\ UNCHANGED <<exiting, calls, state_queue, set_state_lock, crashed>>
  /\ UNCHANGED <<worker, workVars, pluginVars>>

(* A call that finds the session exiting returns at once: no step of it.   *)
EnterSetState(t) ==
  /\ Running
  /\ pc[t] = "out"
  /\ t \in Callers \cup hooks
  /\ ~exiting
  /\ calls < MaxCalls
  /\ calls' = calls + 1
  /\ Goto(t, "push")
  /\ UNCHANGED <<exiting, worker, lockVars, workVars, pluginVars>>

(* The whole of the block under state_queue_lock. *)
PushUpdate(t, u) ==
  /\ Running
  /\ pc[t] = "push"
  /\ queue_lock = None
  /\ state_queue' = Append(state_queue, u)
  /\ Goto(t, "try")
  /\ UNCHANGED <<exiting, calls, set_state_lock, queue_lock, handle, crashed>>
  /\ UNCHANGED <<worker, workVars, pluginVars>>

(* try_lock fails: the update is left to somebody else. *)
TryLockFails(t) ==
  /\ Running
  /\ pc[t] = "try"
  /\ set_state_lock
  /\ Goto(t, "out")
  /\ UNCHANGED <<exiting, calls, worker, lockVars, workVars, pluginVars>>

TryLockSucceeds(t) ==
  /\ Running
  /\ pc[t] = "try"
  /\ ~set_state_lock
  /\ set_state_lock' = TRUE
  /\ Goto(t, "join")
  /\ UNCHANGED <<exiting, calls, state_queue, queue_lock, handle, crashed>>
  /\ UNCHANGED <<worker, workVars, pluginVars>>

(* state_thread.joinable() is false: there is nothing to join. *)
NothingToJoin(t) ==
  /\ Running
  /\ pc[t] = "join"
  /\ handle = "empty"
  /\ Goto(t, "spawn")
  /\ UNCHANGED <<exiting, calls, worker, lockVars, workVars, pluginVars>>

(* state_thread.join(), which waits for a worker that has not returned. *)
JoinWorker(t) ==
  /\ Running
  /\ pc[t] = "join"
  /\ handle = "joinable"
  /\ worker = "over"
  /\ worker' = "none"
  /\ handle' = "empty"
  /\ Goto(t, "spawn")
  /\ UNCHANGED <<exiting, calls, state_queue, set_state_lock, queue_lock, crashed>>
  /\ UNCHANGED <<workVars, pluginVars>>

(* state_queue_lock is taken and the thread created: from here the worker  *)
(* runs, with its own copy of the queue and with set_state_lock.           *)
SpawnWorker(t) ==
  /\ Running
  /\ pc[t] = "spawn"
  /\ queue_lock = None
  /\ handle = "empty"
  /\ queue_lock' = t
  /\ worker' = "start"
  /\ batch' = state_queue
  /\ Goto(t, "assign")
  /\ UNCHANGED <<exiting, calls, state_queue, set_state_lock, handle, crashed>>
  /\ UNCHANGED <<last_value, states, notice, audience, pluginVars>>

(* The same over a handle that became joinable since it was tested: the    *)
(* assignment calls std::terminate.  What the second thread may still do   *)
(* before the process is gone is left out.                                 *)
SpawnTerminates(t) ==
  /\ Running
  /\ pc[t] = "spawn"
  /\ queue_lock = None
  /\ handle = "joinable"
  /\ crashed' = TRUE
  /\ UNCHANGED <<callVars, state_queue, set_state_lock, queue_lock, handle>>
  /\ UNCHANGED <<worker, workVars, pluginVars>>

(* The handle is stored and the queue cleared; state_queue_lock is freed. *)
AssignWorker(t) ==
  /\ Running
  /\ pc[t] = "assign"
  /\ handle' = "joinable"
  /\ state_queue' = <<>>
  /\ queue_lock' = None
  /\ Goto(t, "out")
  /\ UNCHANGED <<exiting, calls, set_state_lock, crashed>>
  /\ UNCHANGED <<worker, workVars, pluginVars>>

SetStateStep(t) ==
  \/ \E u \in UpdateOf : PushUpdate(t, u)
  \/ TryLockFails(t)
  \/ TryLockSucceeds(t)
  \/ NothingToJoin(t)
  \/ JoinWorker(t)
  \/ SpawnWorker(t)
  \/ SpawnTerminates(t)
  \/ AssignWorker(t)

-----------------------------------------------------------------------------
(* change_state_function, the worker.                                      *)

(* Two mistakes the worker could make, then its steps.                     *)

(* set_state_lock is given back before the batch is applied. *)
TakeAudienceUnlocking ==
  /\ Running
  /\ worker = "start"
  /\ worker' = "next"
  /\ audience' = {p \in Plugins : plugins[p] = "loaded"}
  /\ set_state_lock' = FALSE
  /\ UNCHANGED <<callVars, state_queue, queue_lock, handle, crashed>>
  /\ UNCHANGED <<batch, last_value, states, notice, pluginVars>>

(* The callback threads are detached instead of joined. *)
DetachHooks ==
  /\ Running
  /\ worker = "hooks"
  /\ worker' = "next"
  /\ UNCHANGED <<callVars, lockVars>>
  /\ UNCHANGED <<workVars, pluginVars>>

(* get_loaded_plugins(), once for the whole batch. *)
TakeAudience ==
  /\ Running
  /\ worker = "start"
  /\ worker' = "next"
  /\ audience' = {p \in Plugins : plugins[p] = "loaded"}
  /\ UNCHANGED <<callVars, lockVars>>
  /\ UNCHANGED <<batch, last_value, states, notice, pluginVars>>

(* get_state(key): state_lock is released again before the write. *)
ReadLast ==
  /\ Running
  /\ worker = "next"
  /\ batch # <<>>
  /\ last_value' = states[Head(batch).key]
  /\ worker' = "write"
  /\ UNCHANGED <<callVars, lockVars>>
  /\ UNCHANGED <<batch, states, notice, audience, pluginVars>>

(* The write, under state_lock, and one thread per plugin of the copy. *)
WriteAndNotify ==
  /\ Running
  /\ worker = "write"
  /\ states' = [states EXCEPT ![Head(batch).key] = Head(batch).value]
  /\ notice' = [key  |-> Head(batch).key,
                last |-> last_value,
                next |-> Head(batch).value]
  /\ batch' = Tail(batch)
  /\ hooks' = audience
  /\ worker' = "hooks"
  /\ UNCHANGED <<callVars, lockVars>>
  /\ UNCHANGED <<last_value, audience, plugins, mirror, late>>

(* The callback threads are joined before the next update is taken up. *)
JoinHooks ==
  /\ Running
  /\ worker = "hooks"
  /\ hooks = {}
  /\ worker' = "next"
  /\ UNCHANGED <<callVars, lockVars>>
  /\ UNCHANGED <<workVars, pluginVars>>

ReleaseLock ==
  /\ Running
  /\ worker = "next"
  /\ batch = <<>>
  /\ set_state_lock' = FALSE
  /\ worker' = "leaving"
  /\ UNCHANGED <<callVars, state_queue, queue_lock, handle, crashed>>
  /\ UNCHANGED <<workVars, pluginVars>>

(* The plugins the worker's copy may hold the last reference to: those     *)
(* unload_plugin took off the session's list in the meantime.              *)
Orphans == {p \in audience : plugins[p] = "unloaded"}

Leave ==
  /\ Running
  /\ worker = "leaving"
  /\ worker' = "over"
  /\ audience' = {}
  /\ UNCHANGED <<callVars, lockVars>>
  /\ UNCHANGED <<batch, last_value, states, notice, pluginVars>>

(* The worker returns: its copy of the plugin list goes out of scope.      *)
LeavePlain == Orphans = {} /\ Leave

(* The same, running destructors of plugins that were unloaded meanwhile.  *)
LeaveDestroying == Orphans # {} /\ Leave

WorkerStep ==
  \/ TakeAudience
  \/ ReadLast
  \/ WriteAndNotify
  \/ JoinHooks
  \/ ReleaseLock
  \/ LeavePlain

-----------------------------------------------------------------------------
(* The plugins and the rest of the session.                                *)

(* Plugin::state_change of p returns: p has been told of the change. *)
HookReturns(p) ==
  /\ Running
  /\ p \in hooks
  /\ pc[p] = "out"
  /\ hooks' = hooks \ {p}
  /\ mirror' = [mirror EXCEPT ![p][notice.key] = notice.next]
  /\ UNCHANGED <<callVars, worker, lockVars>>
  /\ UNCHANGED <<workVars, plugins, late>>

(* load_plugin appends p to the session's list.  The mirror starts as what *)
(* p reads with get_state at that moment.                                  *)
LoadPlugin(p) ==
  /\ Running
  /\ plugins[p] = "new"
  /\ plugins' = [plugins EXCEPT ![p] = "loaded"]
  /\ mirror' = [mirror EXCEPT ![p] = states]
  /\ late' = IF worker \in Snapshotted THEN late \cup {p} ELSE late
  /\ UNCHANGED <<callVars, worker, lockVars>>
  /\ UNCHANGED <<workVars, hooks>>

(* unload_plugin erases p from the session's list; copies are untouched.   *)
UnloadPlugin(p) ==
  /\ Running
  /\ plugins[p] = "loaded"
  /\ plugins' = [plugins EXCEPT ![p] = "unloaded"]
  /\ UNCHANGED <<callVars, worker, lockVars>>
  /\ UNCHANGED <<workVars, hooks, mirror, late>>

(* finish() raises the flag; its joins are outside this module. *)
RaiseExiting ==
  /\ Running
  /\ ~exiting
  /\ exiting' = TRUE
  /\ UNCHANGED <<calls, pc, worker, lockVars>>
  /\ UNCHANGED <<workVars, pluginVars>>

(* Nobody is inside set_state and no worker runs, or the process is gone:  *)
(* the only states in which the registry may stand still.                  *)
AtRest ==
  /\ crashed \/ ((\A t \in Threads : pc[t] = "out") /\ worker \in {"none", "over"})
  /\ UNCHANGED vars

Step ==
  \/ \E t \in Threads : EnterSetState(t)
  \/ \E t \in Threads : SetStateStep(t)
  \/ WorkerStep
  \/ LeaveDestroying
  \/ \E p \in Plugins : HookReturns(p) \/ LoadPlugin(p) \/ UnloadPlugin(p)
  \/ RaiseExiting

Next == Step \/ AtRest

Spec == Init /\ [][Next]_vars

(* The scheduler runs every thread that is inside set_state, and the       *)
(* worker between callbacks.  Nothing is assumed of the plugins: a         *)
(* callback or a destructor may never return.                              *)
SessionFairness ==
  /\ \A t \in Threads : WF_vars(SetStateStep(t))
  /\ WF_vars(WorkerStep)

LiveSpec == Spec /\ SessionFairness

(* Moreover every callback and every destructor returns. *)
WellBehavedSpec ==
  /\ LiveSpec
  /\ \A p \in Plugins : WF_vars(HookReturns(p))
  /\ WF_vars(LeaveDestroying)

-----------------------------------------------------------------------------
(* Type invariant: what each variable of the session may hold. *)
TypeOK ==
  /\ exiting \in BOOLEAN
  /\ calls \in 0..MaxCalls
  /\ pc \in [Threads -> CallPoints]
  /\ state_queue \in Seq(UpdateOf)
  /\ set_state_lock \in BOOLEAN
  /\ queue_lock \in Threads \cup {None}
  /\ handle \in {"empty", "joinable"}
  /\ worker \in WorkerPoints
  /\ crashed \in BOOLEAN
  /\ batch \in Seq(UpdateOf)
  /\ last_value \in Known
  /\ states \in [Keys -> Known]
  /\ notice \in NoticeOf
  /\ plugins \in [Plugins -> {"new", "loaded", "unloaded"}]
  /\ audience \in SUBSET Plugins
  /\ hooks \in SUBSET Plugins
  /\ mirror \in [Plugins -> [Keys -> Known]]
  /\ late \in SUBSET Plugins

(* The mutex that a caller locks and another thread unlocks is still a     *)
(* lock: it is held exactly while one caller is between try_lock and the   *)
(* new worker's start, or the worker is before its unlock, never by two.   *)
Owners == {t \in Threads : pc[t] \in {"join", "spawn"}}

LockHandedOver ==
  /\ \A t, u \in Owners : t = u
  /\ Owners # {} => worker \notin Holding
  /\ set_state_lock <=> (Owners # {} \/ worker \in Holding)

(* set_state never joins a worker that still has updates to write or       *)
(* callbacks to wait for: a callback that calls set_state would otherwise  *)
(* wait for the worker that waits for it.                                  *)
JoinNeverWaitsForCallbacks ==
  \A t \in Threads :
    pc[t] = "join" => /\ worker \in {"none", "leaving", "over"}
                      /\ hooks = {}
                      /\ batch = <<>>

(* A plugin that was not loaded under a running worker knows the registry: *)
(* what it read when it was loaded, corrected by every state_change it was *)
(* given, is the registry; while its callback runs, the registry as it was *)
(* before the change.                                                      *)
MirrorsAgree ==
  \A p \in Plugins \ late :
    plugins[p] = "loaded" =>
      mirror[p] = IF p \in hooks
                  THEN [states EXCEPT ![notice.key] = notice.last]
                  ELSE states

(* Updates are applied in the order they were queued, none lost, doubled   *)
(* or overtaken, and announced with the value they really replaced.  While *)
(* a caller is between the copy of the queue and its clear, what is in the *)
(* queue is in the batch already.                                          *)
Waiting == IF queue_lock = None THEN state_queue ELSE <<>>

UQ == INSTANCE UpdateQueue WITH pending <- batch \o Waiting

ImplementsUpdateQueue == UQ!AbsSpec

(* set_state returns even if callbacks hang: the only thing it can wait    *)
(* for is the destructor of a plugin that was unloaded under the worker.   *)
SetStateReturns ==
  \A t \in Threads :
    (pc[t] # "out") ~>
      (pc[t] = "out" \/ crashed \/ (worker = "leaving" /\ Orphans # {}))

(* The comment of set_state says "If state thread is not running, go ahead *)
(* and run thread": an update that was queued does not stay in the queue.  *)
EveryUpdateApplied == (state_queue # <<>>) ~> (state_queue = <<>> \/ exiting \/ crashed)
=============================================================================
