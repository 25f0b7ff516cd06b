------------------------------ MODULE Shutdown ------------------------------
(***************************************************************************)
(* How a session ends: Session::finish against the calls that start the    *)
(* session's four threads, and the destruction of the session by main.     *)
(*                                                                         *)
(* receive, broadcast, aggregate_data and set_state have one frame: return *)
(* if the session is exiting; take a lock of their own (set_state only     *)
(* tries to); join the last thread if there is one; start the next.        *)
(* finish sets exiting and joins the four threads, one after the other.    *)
(* It takes none of the locks.                                             *)
(*                                                                         *)
(* What the threads do is in the modules StateRegistry, DataFlow and       *)
(* Messaging.  Here they run for a while and end.  Only the thread of      *)
(* receive calls the session, to forward its message; what callbacks that  *)
(* call it themselves wait for is in those modules.  A plugin that calls   *)
(* receive holds its comm_lock meanwhile, which its broadcast callback     *)
(* takes; that callback may wait in zmq_send for a peer.                   *)
(***************************************************************************)
EXTENDS Naturals, Sequences

CONSTANTS
  Users,     (* threads of plugins that call the session                    *)
  Closers,   (* threads of windows: they draw frames and call finish        *)
  Main,      (* the main thread                                             *)
  Relay,     (* the thread that receive starts                              *)
  None,      (* no thread                                                   *)
  MaxCalls   (* bound: how many calls are made that may start a thread      *)

ASSUME ShutdownAssumption ==
  /\ Users \cap Closers = {}
  /\ {Main, Relay, None} \cap (Users \cup Closers) = {}
  /\ Main # Relay /\ None \notin {Main, Relay}
  /\ MaxCalls \in Nat

Slots     == {"receive", "broadcast", "aggregate", "state"}
Callers   == Users \cup {Main, Relay}
Finishers == Closers \cup {Main}

VARIABLES
  exiting,    (* Session::exiting                                           *)
  calls,      (* how many calls were made                                   *)
  call,       (* per thread: the slot it wants to fill and how far it is    *)
  lock,       (* per slot: the thread that holds its lock, the slot's own   *)
              (* thread for set_state_lock, or None                         *)
  handle,     (* per slot: the std::thread is "empty" or "joinable"         *)
  thread,     (* per slot: what the thread started last does                *)
  finish,     (* per thread: where it is inside finish                      *)
  slot,       (* per thread: how many slots finish is done with             *)
  frame,      (* per window: between two frames (open), in a frame (draw),  *)
              (* or in one that has copied the list of plugins (copy)       *)
  main,       (* the main thread: in its loop, or has destroyed the session *)
  crashed,    (* std::terminate was called, or a thread was joined twice    *)
  stragglers  (* history: the slots that calls of plugins and of main were  *)
              (* about to fill when exiting was set                         *)

vars == <<exiting, calls, call, lock, handle, thread, finish, slot, frame, main, crashed,
          stragglers>>
finishVars == <<finish, slot, frame, main, stragglers>>

NoCall == [slot |-> None, at |-> "out"]

Init ==
  /\ exiting = FALSE
  /\ calls = 0
  /\ call = [t \in Callers |-> NoCall]
  /\ lock = [s \in Slots |-> None]
  /\ handle = [s \in Slots |-> "empty"]
  /\ thread = [s \in Slots |-> "none"]
  /\ finish = [f \in Finishers |-> "out"]
  /\ slot = [f \in Finishers |-> 0]
  /\ frame = [f \in Closers |-> "open"]
  /\ main = "loop"
  /\ crashed = FALSE
  /\ stragglers = {}

Inside(t) == call[t] # NoCall
At(t, point) == call[t].at = point
Goto(t, point) == call' = [call EXCEPT ![t].at = point]

(* The process and the session are there. *)
Running == ~crashed /\ main = "loop"

(* The main thread does not move while its finish, called by the handler   *)
(* of an interrupt, is under way.                                          *)
Free(t) == Running /\ (t = Main => finish[Main] \in {"out", "done"})

-----------------------------------------------------------------------------
(* The calls that start a thread.                                          *)

(* Who calls what: the main loop aggregates; plugins do the rest; the      *)
(* thread of receive forwards its message, once.                           *)
MayCall(t, s) ==
  \/ t \in Users /\ s \in {"receive", "broadcast", "state"} /\ calls < MaxCalls
  \/ t = Main /\ s = "aggregate" /\ calls < MaxCalls
  \/ t = Relay /\ s = "broadcast" /\ thread["receive"] = "run"

(* Enter without the test of exiting. *)
EnterUntested(t, s) ==
  /\ Free(t) /\ ~Inside(t)
  /\ MayCall(t, s)
  /\ call' = [call EXCEPT ![t] = [slot |-> s, at |-> "lock"]]
  /\ calls' = IF t = Relay THEN calls ELSE calls + 1
  /\ thread' = IF t = Relay THEN [thread EXCEPT !["receive"] = "forward"] ELSE thread
  /\ UNCHANGED <<exiting, lock, handle, finishVars, crashed>>

(* The test of exiting.  A call that fails it is no step. *)
Enter(t, s) ==
  /\ Free(t)
  /\ ~Inside(t)
  /\ MayCall(t, s)
  /\ ~exiting
  /\ call' = [call EXCEPT ![t] = [slot |-> s, at |-> "lock"]]
  /\ calls' = IF t = Relay THEN calls ELSE calls + 1
  /\ thread' = IF t = Relay THEN [thread EXCEPT !["receive"] = "forward"] ELSE thread
  /\ UNCHANGED <<exiting, lock, handle, finishVars, crashed>>

Lock(t) ==
  LET s == call[t].slot
  IN  /\ Free(t) /\ At(t, "lock")
      /\ lock[s] = None
      /\ lock' = [lock EXCEPT ![s] = t]
      /\ Goto(t, "test")
      /\ UNCHANGED <<exiting, calls, handle, thread, finishVars, crashed>>

(* set_state gives up if its lock is held. *)
TryLockFails(t) ==
  /\ Running
  /\ At(t, "lock")
  /\ call[t].slot = "state"
  /\ lock["state"] # None
  /\ call' = [call EXCEPT ![t] = NoCall]
  /\ UNCHANGED <<exiting, calls, lock, handle, thread, finishVars, crashed>>

(* receive ignores a message it has seen, one of its own and one without a *)
(* sender.                                                                 *)
Ignore(t) ==
  /\ Running
  /\ At(t, "test")
  /\ call[t].slot = "receive"
  /\ call' = [call EXCEPT ![t] = NoCall]
  /\ lock' = [lock EXCEPT !["receive"] = None]
  /\ UNCHANGED <<exiting, calls, handle, thread, finishVars, crashed>>

(* joinable() *)
Test(t) ==
  /\ Free(t) /\ At(t, "test")
  /\ Goto(t, IF handle[call[t].slot] = "joinable" THEN "join" ELSE "start")
  /\ UNCHANGED <<exiting, calls, lock, handle, thread, finishVars, crashed>>

(* join() waits for the thread; that of one that finish has joined in the  *)
(* meantime fails.                                                         *)
Join(t) ==
  LET s == call[t].slot
  IN  /\ Free(t) /\ At(t, "join")
      /\ \/ /\ handle[s] = "joinable"
            /\ thread[s] = "over"
            /\ handle' = [handle EXCEPT ![s] = "empty"]
            /\ Goto(t, "start")
            /\ UNCHANGED crashed
         \/ /\ handle[s] = "empty"
            /\ crashed' = TRUE
            /\ UNCHANGED <<handle, call>>
      /\ UNCHANGED <<exiting, calls, lock, thread, finishVars>>

(* Start that gives back no lock. *)
StartKeepingLock(t) ==
  LET s == call[t].slot
  IN  /\ Free(t) /\ At(t, "start")
      /\ handle' = [handle EXCEPT ![s] = "joinable"]
      /\ thread' = IF t = Relay THEN [thread EXCEPT ![s] = "run", !["receive"] = "over"]
                                ELSE [thread EXCEPT ![s] = "run"]
      /\ call' = [call EXCEPT ![t] = NoCall]
      /\ UNCHANGED <<exiting, calls, lock, finishVars, crashed>>

(* The thread is started and the lock given back; that of set_state is     *)
(* kept by the thread.                                                     *)
Start(t) ==
  LET s == call[t].slot
  IN  /\ Free(t) /\ At(t, "start")
      /\ handle' = [handle EXCEPT ![s] = "joinable"]
      /\ thread' = IF t = Relay THEN [thread EXCEPT ![s] = "run", !["receive"] = "over"]
                                ELSE [thread EXCEPT ![s] = "run"]
      /\ lock' = IF s = "state" THEN lock ELSE [lock EXCEPT ![s] = None]
      /\ call' = [call EXCEPT ![t] = NoCall]
      /\ UNCHANGED <<exiting, calls, finishVars, crashed>>

(* A thread returns; that of receive when it finds the session exiting or  *)
(* has forwarded its message.                                              *)
ThreadEnds(s) ==
  /\ Running
  /\ thread[s] = "run"
  /\ s = "receive" => exiting
  /\ thread' = [thread EXCEPT ![s] = "over"]
  /\ lock' = IF s = "state" THEN [lock EXCEPT !["state"] = None] ELSE lock
  /\ UNCHANGED <<exiting, calls, call, handle, finishVars, crashed>>

(* A broadcast callback waits in zmq_send for a peer, until one connects.  *)
SendBlocks ==
  /\ Running
  /\ thread["broadcast"] = "run"
  /\ thread' = [thread EXCEPT !["broadcast"] = "blocked"]
  /\ UNCHANGED <<exiting, calls, call, lock, handle, finishVars, crashed>>

PeerConnects ==
  /\ Running
  /\ thread["broadcast"] = "blocked"
  /\ thread' = [thread EXCEPT !["broadcast"] = "run"]
  /\ UNCHANGED <<exiting, calls, call, lock, handle, finishVars, crashed>>

-----------------------------------------------------------------------------
(* The window.                                                             *)

DrawFrame(f, from, to) ==
  /\ Running
  /\ frame[f] = from
  /\ frame' = [frame EXCEPT ![f] = to]
  /\ UNCHANGED <<exiting, calls, call, lock, handle, thread, finish, slot, main, crashed,
                 stragglers>>

(* The test of exiting, and a frame begins. *)
FrameBegins(f) == ~exiting /\ finish[f] = "out" /\ DrawFrame(f, "open", "draw")

(* The frame copies the list, which keeps all plugins alive until it ends. *)
FrameCopies(f) == DrawFrame(f, "draw", "copy")

FrameEnds(f) == finish[f] \in {"out", "done"} /\ DrawFrame(f, "copy", "open")

-----------------------------------------------------------------------------
(* Session::finish.                                                        *)

(* The thread of receive not joined first. *)
BroadcastFirst == <<"broadcast", "receive", "aggregate", "state">>

FinishOrder == <<"receive", "broadcast", "aggregate", "state">>

(* finish is called by a frame (Quit), after the last frame, or by the     *)
(* handler of an interrupt, which is main's.                               *)
FinishEnters(f) ==
  /\ Running
  /\ finish[f] = "out"
  /\ f \in Closers => frame[f] # "draw"
  /\ ~exiting
  /\ finish' = [finish EXCEPT ![f] = "set"]
  /\ UNCHANGED <<exiting, calls, call, lock, handle, thread, slot, frame, main, crashed, stragglers>>

(* The flag is set after it was tested: two threads may get here. *)
FinishSets(f) ==
  /\ Running
  /\ finish[f] = "set"
  /\ exiting' = TRUE
  /\ stragglers' = IF exiting THEN stragglers
                   ELSE {call[t].slot : t \in {u \in Users \cup {Main} : Inside(u)}}
  /\ finish' = [finish EXCEPT ![f] = "test"]
  /\ UNCHANGED <<calls, call, lock, handle, thread, slot, frame, main, crashed>>

(* A test that goes on past the last of the threads. *)
FinishTestsPast(f) ==
  /\ Running
  /\ finish[f] = "test"
  /\ slot[f] <= Len(FinishOrder)
  /\ IF slot[f] < Len(FinishOrder) /\ handle[FinishOrder[slot[f] + 1]] = "joinable"
     THEN finish' = [finish EXCEPT ![f] = "join"] /\ slot' = slot
     ELSE slot' = [slot EXCEPT ![f] = @ + 1] /\ finish' = finish
  /\ UNCHANGED <<exiting, calls, call, lock, handle, thread, frame, main, crashed, stragglers>>

(* joinable(): the thread is joined next, or passed over. *)
FinishTests(f) ==
  /\ Running
  /\ finish[f] = "test"
  /\ slot[f] < Len(FinishOrder)
  /\ IF handle[FinishOrder[slot[f] + 1]] = "joinable"
     THEN finish' = [finish EXCEPT ![f] = "join"] /\ slot' = slot
     ELSE slot' = [slot EXCEPT ![f] = @ + 1] /\ finish' = finish
  /\ UNCHANGED <<exiting, calls, call, lock, handle, thread, frame, main, crashed, stragglers>>

FinishJoins(f) ==
  LET s == FinishOrder[slot[f] + 1]
  IN  /\ Running
      /\ finish[f] = "join"
      /\ \/ /\ handle[s] = "joinable"
            /\ thread[s] = "over"
            /\ handle' = [handle EXCEPT ![s] = "empty"]
            /\ finish' = [finish EXCEPT ![f] = "test"]
            /\ slot' = [slot EXCEPT ![f] = @ + 1]
            /\ UNCHANGED crashed
         \/ /\ handle[s] = "empty"
            /\ crashed' = TRUE
            /\ UNCHANGED <<handle, finish, slot>>
      /\ UNCHANGED <<exiting, calls, call, lock, thread, frame, main, stragglers>>

(* The data is closed and finish returns. *)
FinishReturns(f) ==
  /\ Running
  /\ finish[f] = "test"
  /\ slot[f] = Len(FinishOrder)
  /\ finish' = [finish EXCEPT ![f] = "done"]
  /\ UNCHANGED <<exiting, calls, call, lock, handle, thread, slot, frame, main, crashed, stragglers>>

(* Somebody's copy of the list keeps the plugins alive. *)
Copied ==
  \/ \E f \in Closers : frame[f] = "copy"
  \/ \E s \in Slots : thread[s] \in {"run", "forward", "blocked"}

(* The loop ends; the finish that follows it finds exiting set and returns *)
(* at once; main returns and the session is destroyed.  It unloads the     *)
(* plugins; their destructors, if they run, wait for the threads of the    *)
(* plugins, but a plugin in a copy is not destroyed here.  Then a thread   *)
(* object that is joinable calls std::terminate.                           *)
MainReturns ==
  /\ Free(Main) /\ ~Inside(Main)
  /\ exiting
  /\ \/ Copied
     \/ /\ \A t \in Users : ~Inside(t)
        /\ \A f \in Closers : frame[f] = "open" /\ finish[f] \in {"out", "done"}
  /\ IF \E s \in Slots : handle[s] = "joinable"
     THEN crashed' = TRUE /\ main' = main
     ELSE main' = "gone" /\ crashed' = crashed
  /\ UNCHANGED <<exiting, calls, call, lock, handle, thread, finish, slot, frame, stragglers>>

CallStep(t) == Lock(t) \/ TryLockFails(t) \/ Ignore(t) \/ Test(t) \/ Join(t) \/ Start(t)

FinishStep(f) == FinishSets(f) \/ FinishTests(f) \/ FinishJoins(f) \/ FinishReturns(f)

Step ==
  \/ \E t \in Callers : CallStep(t)
  \/ \E t \in Callers, s \in Slots : Enter(t, s)
  \/ \E s \in Slots : ThreadEnds(s)
  \/ SendBlocks \/ PeerConnects
  \/ \E f \in Closers : FrameBegins(f) \/ FrameCopies(f) \/ FrameEnds(f)
  \/ \E f \in Finishers : FinishEnters(f)
  \/ \E f \in Finishers : FinishStep(f)
  \/ MainReturns

(* The session is gone, or the process is. *)
AtRest == ~Running /\ UNCHANGED vars

Next == Step \/ AtRest

Spec == Init /\ [][Next]_vars

(* Every thread is scheduled, and callbacks return; but one of broadcast   *)
(* may wait for the comm_lock of a plugin that is inside receive, or for a *)
(* peer, and no peer need come.  It sends once for each socket, so that it *)
(* does not block again and again.                                         *)
LiveSpec ==
  /\ Spec
  /\ \A t \in Callers : WF_vars(CallStep(t))
  /\ WF_vars(Enter(Relay, "broadcast"))
  /\ \A s \in Slots \ {"broadcast"} : WF_vars(ThreadEnds(s))
  /\ SF_vars(ThreadEnds("broadcast") /\ \A u \in Users : call[u].slot # "receive")
  /\ \A f \in Finishers : WF_vars(FinishStep(f))

-----------------------------------------------------------------------------
(* Type invariant: what each variable may hold. *)
TypeOK ==
  /\ exiting \in BOOLEAN /\ crashed \in BOOLEAN
  /\ calls \in 0..MaxCalls
  /\ call \in [Callers -> {NoCall} \cup [slot : Slots, at : {"lock", "test", "join", "start"}]]
  /\ lock \in [Slots -> Callers \cup {None}]
  /\ handle \in [Slots -> {"empty", "joinable"}]
  /\ thread \in [Slots -> {"none", "run", "forward", "blocked", "over"}]
  /\ finish \in [Finishers -> {"out", "set", "test", "join", "done"}]
  /\ slot \in [Finishers -> 0..Len(FinishOrder)]
  /\ frame \in [Closers -> {"open", "draw", "copy"}]
  /\ main \in {"loop", "gone"}
  /\ stragglers \in SUBSET Slots

(* What may be filled after finish has passed it: the slots of the calls   *)
(* that were under way, and that of broadcast if one was of receive, whose *)
(* thread forwards.                                                        *)
Late ==
  stragglers \cup (IF "receive" \in stragglers THEN {"broadcast"} ELSE {})

(* finish leaves a thread behind only in the slot of a call that had       *)
(* tested the flag before it was set.  The thread of receive, which may    *)
(* still start a broadcast, is joined before the broadcast is.             *)
CleanFinish ==
  \A f \in Finishers, s \in Slots :
    (finish[f] = "done" /\ ~crashed /\ handle[s] = "joinable") => s \in Late

(* Once the session is exiting and nobody is inside a call, no thread is   *)
(* started any more.                                                       *)
Quiet == exiting /\ \A t \in Callers : ~Inside(t)

QuietForGood ==
  [][Quiet => Quiet' /\ \A s \in Slots : thread'[s] = "run" => thread[s] \in {"run", "blocked"}]_vars

(* A plugin inside receive, its comm_lock held, joins a thread that        *)
(* forwards its message, while the last broadcast, which that one joins,   *)
(* is not over: its callback may be waiting for the comm_lock.             *)
CircularWait ==
  \E u \in Users :
    /\ call[u].slot = "receive" /\ At(u, "join")
    /\ thread["receive"] = "forward"
    /\ thread["broadcast"] = "run"

(* finish returns, unless the process ends first or the threads it joins   *)
(* are stuck for good: in the circular wait, or in a send without a peer.  *)
FinishEnds ==
  \/ <>[](CircularWait \/ thread["broadcast"] = "blocked")
  \/ \A f \in Finishers :
       (finish[f] # "out") ~> (finish[f] = "done" \/ ~Running)
=============================================================================
