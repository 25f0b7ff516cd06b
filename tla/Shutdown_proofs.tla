---------------------------- MODULE Shutdown_proofs ----------------------------
(***************************************************************************)
(* Proofs about Shutdown, for any number of plugins that call the session  *)
(* and any number of windows: finish leaves a thread behind only where a   *)
(* call was under way when it began (CleanFinish), and what is quiet after *)
(* it stays so (QuietForGood).                                             *)
(*                                                                         *)
(* The order in which finish joins matters: the only call that may begin   *)
(* late is the forward of the receive thread, and it fills the slot of     *)
(* broadcast.  Behind says that a finish that is past the receive thread   *)
(* has put an end to it.                                                   *)
(***************************************************************************)
EXTENDS Shutdown, TLAPS

(* A thread object that is empty has no thread. *)
Handled == \A s \in Slots : handle[s] = "empty" => thread[s] \in {"none", "over"}

(* The thread of receive forwards its message and calls nothing else. *)
RelayForwards ==
  Inside(Relay) => call[Relay].slot = "broadcast" /\ thread["receive"] = "forward"

Begun == {"test", "join", "done"}

Ordered ==
  /\ \A f \in Finishers : finish[f] \in Begun => exiting
  /\ \A f \in Finishers : finish[f] \notin Begun => slot[f] = 0
  /\ \A f \in Finishers : finish[f] = "join" => slot[f] < Len(FinishOrder)
  /\ \A f \in Finishers : finish[f] = "done" => slot[f] = Len(FinishOrder)
  /\ exiting => \A t \in Users \cup {Main} : Inside(t) => call[t].slot \in stragglers

(* The threads that a finish has passed are gone, but for late ones. *)
Behind ==
  exiting =>
    \A f \in Finishers : \A i \in 1..slot[f] :
      FinishOrder[i] \notin Late => handle[FinishOrder[i]] = "empty"

(* From its lock on, a call of receive is alone with the slot. *)
Alone ==
  \A t \in Callers : call[t].slot = "receive" =>
    /\ call[t].at \in {"test", "join", "start"} => lock["receive"] = t
    /\ call[t].at = "start" => handle["receive"] = "empty"

IInv == TypeOK /\ Handled /\ Alone /\ RelayForwards /\ Ordered /\ Behind

LEMMA FinishOrderIs ==
  /\ Len(FinishOrder) = 4 /\ FinishOrder[1] = "receive"
  /\ \A i \in 1..4 : FinishOrder[i] \in Slots
  /\ \A s \in Slots : \E i \in 1..4 : s = FinishOrder[i]
<1>1. /\ Len(FinishOrder) = 4
      /\ FinishOrder[1] = "receive" /\ FinishOrder[2] = "broadcast"
      /\ FinishOrder[3] = "aggregate" /\ FinishOrder[4] = "state"
  BY DEF FinishOrder
<1>2. \A i \in 1..4 : i = 1 \/ i = 2 \/ i = 3 \/ i = 4
  OBVIOUS
<1> QED
  BY <1>1, <1>2 DEF Slots

LEMMA CallersAre ==
  /\ Relay \in Callers /\ Main \in Callers /\ Users \subseteq Callers
  /\ Relay \notin Users \cup {Main} /\ None \notin Callers
  /\ \A t \in Callers : t # Relay => t \in Users \cup {Main}
  BY ShutdownAssumption DEF Callers

(* A thread inside a call is at one of its points. *)
LEMMA InsideAt ==
  ASSUME TypeOK, NEW t \in Callers
  PROVE  /\ Inside(t) => call[t].slot \in Slots /\ call[t].at \in {"lock", "test", "join", "start"}
         /\ call[t].at # "out" => Inside(t)
  BY DEF TypeOK, Inside, NoCall

-----------------------------------------------------------------------------
(* Types.                                                                  *)

LEMMA TypeStep ==
  ASSUME TypeOK, Ordered, [Next]_vars
  PROVE  TypeOK'
<1>1. ASSUME NEW t \in Callers, NEW s \in Slots, Enter(t, s) PROVE TypeOK'
  <2>1. calls' \in 0..MaxCalls
    BY <1>1, ShutdownAssumption DEF Enter, MayCall, TypeOK
  <2> QED
    BY <1>1, <2>1 DEF Enter, TypeOK, finishVars
<1>2. ASSUME NEW t \in Callers, Lock(t) PROVE TypeOK'
  <2>1. Inside(t) /\ call[t].slot \in Slots
    BY <1>2, InsideAt DEF Lock, At
  <2>2. call' \in [Callers -> {NoCall} \cup [slot : Slots, at : {"lock", "test", "join", "start"}]]
    BY <1>2, <2>1 DEF Lock, Goto, TypeOK, Inside
  <2> QED
    BY <1>2, <2>1, <2>2 DEF Lock, TypeOK, finishVars
<1>3. ASSUME NEW t \in Callers, TryLockFails(t) \/ Ignore(t) PROVE TypeOK'
  BY <1>3 DEF TryLockFails, Ignore, TypeOK, finishVars
<1>4. ASSUME NEW t \in Callers, Test(t) PROVE TypeOK'
  <2>1. Inside(t)
    BY <1>4, InsideAt DEF Test, At
  <2>2. call' \in [Callers -> {NoCall} \cup [slot : Slots, at : {"lock", "test", "join", "start"}]]
    BY <1>4, <2>1 DEF Test, Goto, TypeOK, Inside
  <2> QED
    BY <1>4, <2>2 DEF Test, TypeOK, finishVars
<1>5. ASSUME NEW t \in Callers, Join(t) PROVE TypeOK'
  <2>1. Inside(t)
    BY <1>5, InsideAt DEF Join, At
  <2>2. call' \in [Callers -> {NoCall} \cup [slot : Slots, at : {"lock", "test", "join", "start"}]]
    BY <1>5, <2>1 DEF Join, Goto, TypeOK, Inside
  <2>3. handle' \in [Slots -> {"empty", "joinable"}] /\ crashed' \in BOOLEAN
    BY <1>5 DEF Join, TypeOK
  <2> QED
    BY <1>5, <2>2, <2>3 DEF Join, TypeOK, finishVars
<1>6. ASSUME NEW t \in Callers, Start(t) PROVE TypeOK'
  <2>1. thread' \in [Slots -> {"none", "run", "forward", "blocked", "over"}]
    BY <1>6 DEF Start, TypeOK
  <2>2. handle' \in [Slots -> {"empty", "joinable"}] /\ lock' \in [Slots -> Callers \cup {None}]
    BY <1>6 DEF Start, TypeOK
  <2>3. call' \in [Callers -> {NoCall} \cup [slot : Slots, at : {"lock", "test", "join", "start"}]]
    BY <1>6 DEF Start, TypeOK
  <2> QED
    BY <1>6, <2>1, <2>2, <2>3 DEF Start, TypeOK, finishVars
<1>7. ASSUME NEW s \in Slots, ThreadEnds(s) PROVE TypeOK'
  BY <1>7 DEF ThreadEnds, TypeOK, finishVars
<1>8. ASSUME NEW f \in Finishers, FinishEnters(f) \/ FinishReturns(f) PROVE TypeOK'
  BY <1>8 DEF FinishEnters, FinishReturns, TypeOK
<1>9. ASSUME NEW f \in Finishers, FinishSets(f) PROVE TypeOK'
  <2>1. \A t \in Users \cup {Main} : Inside(t) => call[t].slot \in Slots
    BY InsideAt, CallersAre
  <2>2. stragglers' \in SUBSET Slots
    BY <1>9, <2>1 DEF FinishSets, TypeOK
  <2> QED
    BY <1>9, <2>2 DEF FinishSets, TypeOK
<1>10. ASSUME NEW f \in Finishers, FinishTests(f) \/ FinishJoins(f) PROVE TypeOK'
  <2>1. slot[f] < 4
    BY <1>10, FinishOrderIs DEF FinishTests, FinishJoins, Ordered
  <2>2. slot[f] \in 0..4 /\ slot[f] + 1 \in 0..4
    BY <2>1, FinishOrderIs DEF TypeOK
  <2>3. slot' = slot \/ slot' = [slot EXCEPT ![f] = slot[f] + 1]
    BY <1>10 DEF FinishTests, FinishJoins, TypeOK
  <2>4. slot' \in [Finishers -> 0..Len(FinishOrder)]
    BY <2>2, <2>3, FinishOrderIs DEF TypeOK
  <2>5. /\ finish' \in [Finishers -> {"out", "set", "test", "join", "done"}]
        /\ handle' \in [Slots -> {"empty", "joinable"}] /\ crashed' \in BOOLEAN
    <3>1. finish' \in [Finishers -> {"out", "set", "test", "join", "done"}]
      BY <1>10 DEF FinishTests, FinishJoins, TypeOK
    <3>2. handle' \in [Slots -> {"empty", "joinable"}]
      BY <1>10 DEF FinishTests, FinishJoins, TypeOK
    <3>3. crashed' \in BOOLEAN
      BY <1>10 DEF FinishTests, FinishJoins, TypeOK
    <3> QED
      BY <3>1, <3>2, <3>3
  <2> QED
    BY <1>10, <2>4, <2>5 DEF FinishTests, FinishJoins, TypeOK
<1>11. CASE MainReturns
  BY <1>11 DEF MainReturns, TypeOK
<1>12. CASE UNCHANGED vars
  BY <1>12 DEF vars, TypeOK
<1>13. CASE SendBlocks \/ PeerConnects
  BY <1>13 DEF SendBlocks, PeerConnects, TypeOK, finishVars
<1>14. ASSUME NEW f \in Closers, FrameBegins(f) \/ FrameCopies(f) \/ FrameEnds(f) PROVE TypeOK'
  BY <1>14 DEF FrameBegins, FrameCopies, FrameEnds, DrawFrame, TypeOK
<1> QED
  BY <1>1, <1>2, <1>3, <1>4, <1>5, <1>6, <1>7, <1>8, <1>9, <1>10, <1>11, <1>12, <1>13, <1>14
     DEF Next, Step, CallStep, FinishStep, AtRest

-----------------------------------------------------------------------------
(* What each call does to the rest of the state.                           *)

(* A step of a call: who makes it was inside, and stays where it is or     *)
(* leaves; the others do not move.                                         *)
LEMMA CallMoves ==
  ASSUME TypeOK, NEW t \in Callers, CallStep(t)
  PROVE  /\ Inside(t)
         /\ \A u \in Callers : u # t => call'[u] = call[u]
         /\ call'[t] = NoCall \/ call'[t].slot = call[t].slot
         /\ UNCHANGED <<exiting, finish, slot, stragglers>>
<1>1. Inside(t)
  BY InsideAt DEF CallStep, Lock, TryLockFails, Ignore, Test, Join, Start, At
<1>2. call[t] \in [slot : Slots, at : {"lock", "test", "join", "start"}]
  BY <1>1 DEF TypeOK, Inside
<1>3. \/ call' = call
      \/ call' = [call EXCEPT ![t] = NoCall]
      \/ \E point \in {"test", "join", "start"} : Goto(t, point)
  BY DEF CallStep, Lock, TryLockFails, Ignore, Test, Join, Start
<1>4. UNCHANGED <<exiting, finish, slot, stragglers>>
  BY DEF CallStep, Lock, TryLockFails, Ignore, Test, Join, Start, finishVars
<1> QED
  BY <1>1, <1>2, <1>3, <1>4 DEF Goto, TypeOK

(* A send that blocks, a peer that connects and a frame of a window change *)
(* nothing but the broadcast thread and the window.                        *)
Aside == SendBlocks \/ PeerConnects \/ \E f \in Closers : FrameBegins(f) \/ FrameCopies(f) \/ FrameEnds(f)

LEMMA AsideChanges ==
  ASSUME TypeOK, Aside
  PROVE  /\ UNCHANGED <<exiting, calls, call, lock, handle, finish, slot, main, crashed, stragglers>>
         /\ \A s \in Slots \ {"broadcast"} : thread'[s] = thread[s]
         /\ \/ thread' = thread
            \/ thread["broadcast"] \in {"run", "blocked"} /\ thread'["broadcast"] \in {"run", "blocked"}
<1>1. CASE SendBlocks \/ PeerConnects
  BY <1>1 DEF SendBlocks, PeerConnects, finishVars, TypeOK, Slots
<1>2. CASE \E f \in Closers : FrameBegins(f) \/ FrameCopies(f) \/ FrameEnds(f)
  BY <1>2 DEF FrameBegins, FrameCopies, FrameEnds, DrawFrame
<1> QED
  BY <1>1, <1>2 DEF Aside

-----------------------------------------------------------------------------
(* The invariant.                                                          *)

LEMMA Initially == Init => IInv
<1> SUFFICES ASSUME Init PROVE IInv
  OBVIOUS
<1>1. TypeOK
  <2>1. Init => /\ calls \in 0..MaxCalls /\ slot \in [Finishers -> 0..Len(FinishOrder)]
                /\ call \in [Callers -> {NoCall}]
    BY ShutdownAssumption, FinishOrderIs DEF Init
  <2>2. /\ exiting \in BOOLEAN /\ crashed \in BOOLEAN
        /\ lock \in [Slots -> Callers \cup {None}]
        /\ handle \in [Slots -> {"empty", "joinable"}]
        /\ thread \in [Slots -> {"none", "run", "forward", "blocked", "over"}]
        /\ finish \in [Finishers -> {"out", "set", "test", "join", "done"}]
        /\ frame \in [Closers -> {"open", "draw", "copy"}]
        /\ main \in {"loop", "gone"}
        /\ stragglers \in SUBSET Slots
    BY DEF Init
  <2> QED
    BY <2>1, <2>2 DEF TypeOK
<1>2. \A t \in Callers : ~Inside(t) /\ call[t] = NoCall
  BY DEF Init, Inside
<1>3. Handled
  BY DEF Init, Handled
<1>4. Alone
  BY <1>2 DEF Alone, NoCall
<1>5. RelayForwards
  BY <1>2, CallersAre DEF RelayForwards
<1>6. Ordered /\ Behind
  BY DEF Init, Ordered, Behind, Begun
<1> QED
  BY <1>1, <1>3, <1>4, <1>5, <1>6 DEF IInv

(* Handles are emptied after their threads only, and filled with them.     *)
LEMMA HandledStep ==
  ASSUME IInv, [Next]_vars
  PROVE  Handled'
<1> USE DEF IInv
<1>1. ASSUME NEW t \in Callers, NEW s \in Slots, Enter(t, s) PROVE Handled'
  <2>1. t = Relay => thread["receive"] = "run"
    BY <1>1, ShutdownAssumption DEF Enter, MayCall
  <2>2. \/ thread' = thread
        \/ handle["receive"] # "empty" /\ thread' = [thread EXCEPT !["receive"] = "forward"]
    <3>1. thread["receive"] = "run" => handle["receive"] # "empty"
      BY DEF Handled, Slots
    <3>2. thread' = IF t = Relay THEN [thread EXCEPT !["receive"] = "forward"] ELSE thread
      BY <1>1 DEF Enter
    <3> QED
      BY <2>1, <3>1, <3>2
  <2>3. handle' = handle
    BY <1>1 DEF Enter
  <2> QED
    BY <2>2, <2>3 DEF Handled, TypeOK
<1>2. ASSUME NEW t \in Callers, Lock(t) \/ TryLockFails(t) \/ Ignore(t) \/ Test(t)
      PROVE  Handled'
  BY <1>2 DEF Lock, TryLockFails, Ignore, Test, Handled
<1>3. ASSUME NEW t \in Callers, Join(t) PROVE Handled'
  BY <1>3 DEF Join, Handled, TypeOK
<1>4. ASSUME NEW t \in Callers, Start(t) PROVE Handled'
  BY <1>4 DEF Start, Handled, TypeOK
<1>5. ASSUME NEW s \in Slots, ThreadEnds(s) PROVE Handled'
  BY <1>5 DEF ThreadEnds, Handled, TypeOK
<1>6. ASSUME NEW f \in Finishers, FinishEnters(f) \/ FinishStep(f) PROVE Handled'
  BY <1>6 DEF FinishEnters, FinishStep, FinishSets, FinishTests, FinishJoins, FinishReturns,
              Handled, TypeOK
<1>7. CASE MainReturns \/ UNCHANGED vars
  BY <1>7 DEF MainReturns, vars, Handled
<1>8. CASE Aside
  BY <1>8, AsideChanges DEF Handled
<1> QED
  BY <1>1, <1>2, <1>3, <1>4, <1>5, <1>6, <1>7, <1>8 DEF Aside, Next, Step, CallStep, AtRest

(* The lock of receive keeps the others out until the thread is started.   *)
LEMMA AloneStep ==
  ASSUME IInv, [Next]_vars
  PROVE  Alone'
<1> USE DEF IInv
<1>1. ASSUME NEW t \in Callers, NEW s \in Slots, Enter(t, s) PROVE Alone'
  BY <1>1 DEF Enter, Alone, TypeOK, finishVars
<1>2. ASSUME NEW t \in Callers, CallStep(t) PROVE Alone'
  <2> SUFFICES ASSUME NEW u \in Callers, call'[u].slot = "receive"
               PROVE  /\ call'[u].at \in {"test", "join", "start"} => lock'["receive"] = u
                      /\ call'[u].at = "start" => handle'["receive"] = "empty"
    BY DEF Alone
  <2> USE <1>2 DEF Alone, Goto, At, TypeOK, NoCall
  <2>1. Inside(t) /\ call[t].slot \in Slots
    BY CallMoves, InsideAt
  <2>2. CASE Lock(t)
    BY <2>1, <2>2, CallersAre DEF Lock, Inside
  <2>3. CASE TryLockFails(t)
    BY <2>3 DEF TryLockFails
  <2>4. CASE Ignore(t)
    BY <2>4 DEF Ignore
  <2>5. CASE Test(t)
    BY <2>1, <2>5 DEF Test, Inside
  <2>6. CASE Join(t)
    BY <2>1, <2>6 DEF Join, Inside
  <2>7. CASE Start(t)
    BY <2>1, <2>7 DEF Start, Inside
  <2> QED
    BY <2>2, <2>3, <2>4, <2>5, <2>6, <2>7 DEF CallStep
<1>3. ASSUME NEW s \in Slots, ThreadEnds(s) PROVE Alone'
  BY <1>3 DEF ThreadEnds, Alone, TypeOK, Slots
<1>4. ASSUME NEW f \in Finishers, FinishEnters(f) \/ FinishStep(f) PROVE Alone'
  <2>1. UNCHANGED <<call, lock>> /\ (handle["receive"] = "empty" => handle'["receive"] = "empty")
    BY <1>4 DEF FinishEnters, FinishStep, FinishSets, FinishTests, FinishJoins, FinishReturns,
                TypeOK, Slots
  <2> QED
    BY <2>1 DEF Alone
<1>5. CASE MainReturns \/ UNCHANGED vars
  BY <1>5 DEF MainReturns, vars, Alone
<1>6. CASE Aside
  BY <1>6, AsideChanges DEF Alone
<1> QED
  BY <1>1, <1>2, <1>3, <1>4, <1>5, <1>6 DEF Aside, Next, Step, AtRest

(* No thread of receive is started while one forwards.                     *)
LEMMA RelayStep ==
  ASSUME IInv, [Next]_vars
  PROVE  RelayForwards'
<1> USE DEF IInv, RelayForwards
<1> USE CallersAre
<1>1. ASSUME NEW t \in Callers, NEW s \in Slots, Enter(t, s) PROVE RelayForwards'
  <2>1. CASE t = Relay
    BY <1>1, <2>1, ShutdownAssumption DEF Enter, MayCall, TypeOK, Slots
  <2>2. CASE t # Relay
    BY <1>1, <2>2 DEF Enter, Inside, TypeOK
  <2> QED
    BY <2>1, <2>2
<1>2. ASSUME NEW t \in Callers, CallStep(t) PROVE RelayForwards'
  <2> SUFFICES ASSUME Inside(Relay)'
               PROVE  call'[Relay].slot = "broadcast" /\ thread'["receive"] = "forward"
    OBVIOUS
  <2>1. Inside(Relay) /\ call'[Relay].slot = "broadcast"
    BY <1>2, CallMoves DEF Inside
  <2>2. ASSUME Start(t) PROVE thread'["receive"] = "forward"
    <3>1. t # Relay
      BY <2>2 DEF Start, Inside, TypeOK
    <3>2. call[t].slot # "receive"
      BY <2>1, <2>2 DEF Start, At, Alone, Handled, Slots
    <3> QED
      BY <2>1, <2>2, <3>1, <3>2 DEF Start, TypeOK, Slots
  <2>3. ASSUME ~Start(t) PROVE thread' = thread
    BY <1>2, <2>3 DEF CallStep, Lock, TryLockFails, Ignore, Test, Join
  <2> QED
    BY <2>1, <2>2, <2>3
<1>3. ASSUME NEW s \in Slots, ThreadEnds(s) PROVE RelayForwards'
  BY <1>3 DEF ThreadEnds, Inside, TypeOK, Slots
<1>4. ASSUME NEW f \in Finishers, FinishEnters(f) \/ FinishStep(f) PROVE RelayForwards'
  BY <1>4 DEF FinishEnters, FinishStep, FinishSets, FinishTests, FinishJoins, FinishReturns,
              Inside
<1>5. CASE MainReturns \/ UNCHANGED vars
  BY <1>5 DEF MainReturns, vars, Inside
<1>6. CASE Aside
  BY <1>6, AsideChanges DEF Inside, Slots
<1> QED
  BY <1>1, <1>2, <1>3, <1>4, <1>5, <1>6 DEF Aside, Next, Step, AtRest

(* Where finish is, and who was inside when it began.                      *)
LEMMA OrderedStep ==
  ASSUME IInv, [Next]_vars
  PROVE  Ordered'
<1> USE DEF IInv
<1> USE FinishOrderIs
<1>1. ASSUME NEW t \in Callers, NEW s \in Slots, Enter(t, s) PROVE Ordered'
  BY <1>1 DEF Enter, Ordered, finishVars
<1>2. ASSUME NEW t \in Callers, CallStep(t) PROVE Ordered'
  <2>1. UNCHANGED <<exiting, finish, slot, stragglers>>
    BY <1>2, CallMoves
  <2>2. \A u \in Callers : Inside(u)' => Inside(u) /\ call'[u].slot = call[u].slot
    BY <1>2, CallMoves DEF Inside
  <2> QED
    BY <2>1, <2>2, CallersAre DEF Ordered
<1>3. ASSUME NEW s \in Slots, ThreadEnds(s) PROVE Ordered'
  BY <1>3 DEF ThreadEnds, Ordered, Inside, finishVars
<1>4. ASSUME NEW f \in Finishers, FinishEnters(f) PROVE Ordered'
  BY <1>4 DEF FinishEnters, Ordered, Inside, Begun, TypeOK
<1>5. ASSUME NEW f \in Finishers, FinishSets(f) PROVE Ordered'
  <2>1. exiting' /\ slot' = slot /\ call' = call
    BY <1>5 DEF FinishSets
  <2>2. slot[f] = 0
    BY <1>5 DEF FinishSets, Ordered, Begun
  <2>3. finish' = [finish EXCEPT ![f] = "test"]
    BY <1>5 DEF FinishSets
  <2>4. \A t \in Users \cup {Main} : Inside(t)' => call'[t].slot \in stragglers'
    BY <1>5, <2>1 DEF FinishSets, Ordered, Inside
  <2> QED
    BY <2>1, <2>2, <2>3, <2>4 DEF Ordered, Begun, TypeOK
<1>6. ASSUME NEW f \in Finishers, FinishTests(f) \/ FinishJoins(f) PROVE Ordered'
  <2>1. exiting /\ slot[f] \in 0..3 /\ finish[f] \in Begun
    BY <1>6 DEF FinishTests, FinishJoins, Ordered, Begun, TypeOK
  <2>2. UNCHANGED <<exiting, call, stragglers>>
    BY <1>6 DEF FinishTests, FinishJoins
  <2>3. \/ slot' = slot /\ finish' = [finish EXCEPT ![f] = "join"]
        \/ slot' = [slot EXCEPT ![f] = slot[f] + 1] /\ finish' = [finish EXCEPT ![f] = "test"]
        \/ slot' = slot /\ finish' = finish
    BY <1>6 DEF FinishTests, FinishJoins, TypeOK
  <2> QED
    BY <2>1, <2>2, <2>3 DEF Ordered, Begun, Inside, TypeOK
<1>7. ASSUME NEW f \in Finishers, FinishReturns(f) PROVE Ordered'
  BY <1>7 DEF FinishReturns, Ordered, Begun, Inside, TypeOK
<1>8. CASE MainReturns \/ UNCHANGED vars
  BY <1>8 DEF MainReturns, vars, Ordered, Inside
<1>9. CASE Aside
  BY <1>9, AsideChanges DEF Ordered, Inside
<1> QED
  BY <1>1, <1>2, <1>3, <1>4, <1>5, <1>6, <1>7, <1>8, <1>9 DEF Aside, Next, Step, FinishStep, AtRest

(* Nobody but the thread of receive, which no finish has passed while it   *)
(* runs, fills a slot again.                                               *)
LEMMA BehindStep ==
  ASSUME IInv, [Next]_vars
  PROVE  Behind'
<1> USE DEF IInv
<1> USE FinishOrderIs
<1>1. ASSUME NEW t \in Callers, NEW s \in Slots, Enter(t, s) PROVE Behind'
  BY <1>1 DEF Enter, Behind, Late, finishVars
<1>2. ASSUME NEW t \in Callers, CallStep(t) PROVE Behind'
  <2>1. UNCHANGED <<exiting, finish, slot, stragglers>>
    BY <1>2, CallMoves
  <2>2. CASE Start(t)
    <3> SUFFICES ASSUME exiting, NEW f \in Finishers, NEW i \in 1..slot[f],
                        FinishOrder[i] \notin Late
                 PROVE  handle'[FinishOrder[i]] = "empty"
      BY <2>1 DEF Behind, Late
    <3>1. slot[f] \in 0..4 /\ FinishOrder[i] \in Slots /\ 1 \in 1..slot[f]
      BY DEF TypeOK
    <3>2. handle[FinishOrder[i]] = "empty"
      BY DEF Behind
    <3>3. ASSUME call[t].slot = FinishOrder[i] PROVE FALSE
      <4>1. t = Relay
        BY <1>2, <3>3, CallMoves, CallersAre DEF Ordered, Late
      <4>2. thread["receive"] = "forward" /\ call[t].slot = "broadcast"
        BY <1>2, <4>1, CallMoves DEF RelayForwards
      <4>3. handle["receive"] # "empty"
        BY <4>2 DEF Handled, Slots
      <4>4. "receive" \notin Late
        BY <3>3, <4>2 DEF Late
      <4> QED
        BY <3>1, <4>3, <4>4 DEF Behind
    <3> QED
      BY <2>2, <3>1, <3>2, <3>3 DEF Start, TypeOK
  <2>3. CASE ~Start(t)
    <3>1. \A s \in Slots : handle[s] = "empty" => handle'[s] = "empty"
      BY <1>2, <2>3 DEF CallStep, Lock, TryLockFails, Ignore, Test, Join, TypeOK
    <3>2. \A f \in Finishers : \A i \in 1..slot[f] : FinishOrder[i] \in Slots
      BY DEF TypeOK
    <3> QED
      BY <2>1, <3>1, <3>2 DEF Behind, Late
  <2> QED
    BY <2>2, <2>3
<1>3. ASSUME NEW s \in Slots, ThreadEnds(s) PROVE Behind'
  BY <1>3 DEF ThreadEnds, Behind, Late, finishVars
<1>4. ASSUME NEW f \in Finishers, FinishEnters(f) \/ FinishReturns(f) PROVE Behind'
  BY <1>4 DEF FinishEnters, FinishReturns, Behind, Late
<1>5. ASSUME NEW f \in Finishers, FinishSets(f) PROVE Behind'
  <2>1. slot' = slot /\ handle' = handle
    BY <1>5 DEF FinishSets
  <2>2. CASE exiting
    BY <1>5, <2>1, <2>2 DEF FinishSets, Behind, Late
  <2>3. CASE ~exiting
    <3>1. \A g \in Finishers : slot[g] = 0
      BY <2>3 DEF Ordered
    <3> QED
      BY <2>1, <3>1 DEF Behind
  <2> QED
    BY <2>2, <2>3
<1>6. ASSUME NEW f \in Finishers, FinishTests(f) \/ FinishJoins(f) PROVE Behind'
  <2> SUFFICES ASSUME exiting', NEW g \in Finishers, NEW i \in 1..slot'[g],
                      FinishOrder[i] \notin Late'
               PROVE  handle'[FinishOrder[i]] = "empty"
    BY DEF Behind
  <2>1. slot[f] < 4 /\ slot[f] \in 0..4
    BY <1>6 DEF FinishTests, FinishJoins, TypeOK, Ordered
  <2>2. exiting' = exiting /\ stragglers' = stragglers
    BY <1>6 DEF FinishTests, FinishJoins
  <2>3. exiting /\ FinishOrder[i] \notin Late /\ slot[f] \in 0..3
    BY <2>1, <2>2 DEF Late
  <2>4. \A s \in Slots : handle[s] = "empty" => handle'[s] = "empty"
    BY <1>6 DEF FinishTests, FinishJoins, TypeOK
  <2>5. CASE i \in 1..slot[g]
    <3>1. FinishOrder[i] \in Slots
      BY <2>5 DEF TypeOK
    <3> QED
      BY <2>3, <2>4, <2>5, <3>1 DEF Behind
  <2>6. CASE i \notin 1..slot[g]
    <3>1. g = f /\ slot' = [slot EXCEPT ![f] = slot[f] + 1] /\ i = slot[f] + 1
      BY <1>6, <2>3, <2>6 DEF FinishTests, FinishJoins, TypeOK
    <3>2. FinishOrder[i] \in Slots
      BY <2>3, <3>1
    <3>3. CASE FinishTests(f)
      BY <2>3, <3>1, <3>2, <3>3 DEF FinishTests, TypeOK
    <3>4. CASE FinishJoins(f)
      BY <2>3, <3>1, <3>2, <3>4 DEF FinishJoins, TypeOK
    <3> QED
      BY <1>6, <3>3, <3>4
  <2> QED
    BY <2>5, <2>6
<1>7. CASE MainReturns \/ UNCHANGED vars
  BY <1>7 DEF MainReturns, vars, Behind, Late
<1>8. CASE Aside
  BY <1>8, AsideChanges DEF Behind, Late
<1> QED
  BY <1>1, <1>2, <1>3, <1>4, <1>5, <1>6, <1>7, <1>8 DEF Aside, Next, Step, FinishStep, AtRest

LEMMA Inductive ==
  ASSUME IInv, [Next]_vars
  PROVE  IInv'
<1>1. TypeOK /\ Ordered
  BY DEF IInv
<1>2. TypeOK'
  BY <1>1, TypeStep
<1> QED
  BY <1>2, HandledStep, AloneStep, RelayStep, OrderedStep, BehindStep DEF IInv

(* A finish that is done has passed all the threads.                       *)
LEMMA DoneIsClean ==
  ASSUME IInv
  PROVE  CleanFinish
<1> SUFFICES ASSUME NEW f \in Finishers, NEW s \in Slots, finish[f] = "done", s \notin Late
             PROVE  handle[s] # "joinable"
  BY DEF CleanFinish
<1>1. exiting /\ slot[f] = 4
  BY FinishOrderIs DEF IInv, Ordered, Begun
<1>2. PICK i \in 1..4 : s = FinishOrder[i]
  BY FinishOrderIs
<1> QED
  BY <1>1, <1>2 DEF IInv, Behind

(* An exiting session in which no call is under way admits none.           *)
LEMMA QuietStep ==
  ASSUME IInv, [Next]_vars, Quiet
  PROVE  Quiet' /\ \A s \in Slots : thread'[s] = "run" => thread[s] \in {"run", "blocked"}
<1> USE DEF IInv, Quiet
<1>1. ASSUME NEW t \in Callers, NEW s \in Slots, Enter(t, s) PROVE FALSE
  BY <1>1 DEF Enter
<1>2. ASSUME NEW t \in Callers, CallStep(t) PROVE FALSE
  BY <1>2, CallMoves
<1>3. exiting' /\ call' = call
  BY <1>1, <1>2 DEF Next, Step, AtRest, vars, ThreadEnds, FinishEnters, FinishStep, FinishSets,
                    FinishTests, FinishJoins, FinishReturns, MainReturns, finishVars, SendBlocks,
                    PeerConnects, FrameBegins, FrameCopies, FrameEnds, DrawFrame
<1>4. \A s \in Slots : thread'[s] = "run" => thread[s] \in {"run", "blocked"}
  BY <1>1, <1>2 DEF Next, Step, AtRest, vars, ThreadEnds, FinishEnters, FinishStep, FinishSets,
                    FinishTests, FinishJoins, FinishReturns, MainReturns, TypeOK, SendBlocks,
                    PeerConnects, FrameBegins, FrameCopies, FrameEnds, DrawFrame, finishVars
<1> QED
  BY <1>3, <1>4 DEF Inside

-----------------------------------------------------------------------------
(* The invariant holds of every behaviour.                                 *)
LEMMA Always == Spec => []IInv
  BY Initially, Inductive, PTL DEF Spec

(* Type correctness, for any number of plugins and of calls.               *)
THEOREM TypeCorrect == Spec => []TypeOK
<1>1. IInv => TypeOK
  BY DEF IInv
<1> QED
  BY <1>1, Always, PTL

(* finish (session.cpp:366-390) leaves a thread joinable only in a slot    *)
(* that a call of a plugin or of main, or the thread of such a call of     *)
(* receive, was about to fill when it set exiting.                         *)
THEOREM CleanEnd == Spec => []CleanFinish
  BY Always, DoneIsClean, PTL

(* An exiting session without a call under way starts no thread any more:  *)
(* every call that could do so tests exiting first.                        *)
THEOREM StaysQuiet == Spec => QuietForGood
<1>1. ASSUME IInv, [Next]_vars
      PROVE  [Quiet => Quiet' /\ \A s \in Slots : thread'[s] = "run" => thread[s] \in {"run", "blocked"}]_vars
  BY <1>1, QuietStep
<1> QED
  BY <1>1, Always, PTL DEF Spec, QuietForGood
=============================================================================
