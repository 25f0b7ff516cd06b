---------------------------- MODULE PluginRegistry ----------------------------
(***************************************************************************)
(* The session's list of plugins and the lives of the plugins in it.       *)
(*                                                                         *)
(* load_plugin constructs a plugin and appends it; unload_plugin takes it  *)
(* out again.  A plugin dies when the last reference to it goes: the list  *)
(* has one, and so has every copy of the list that get_loaded_plugins has  *)
(* returned and somebody still walks.  Its destructor runs in the thread   *)
(* that lets the last reference go and joins the plugin's own thread.      *)
(*                                                                         *)
(* Who holds copies: the threads that aggregate_data and broadcast start,  *)
(* the window of imgui-gui while it draws a frame, and main when it        *)
(* destroys the session.  (The threads of receive and set_state hold       *)
(* copies in the same way; they are in Messaging and StateRegistry.)  The  *)
(* locks around those calls and what finish joins at which moment are in   *)
(* the module Shutdown.                                                    *)
(***************************************************************************)
EXTENDS Naturals, Sequences, FiniteSets, SequencesExt

CONSTANTS
  Config,     (* the plugins of the configuration, in its order             *)
  Offered,    (* plugins that the user of the window may load               *)
  Gui,        (* the imgui-gui plugin                                       *)
  Loops,      (* plugins with a thread that broadcasts until the session is *)
              (* exiting (echoecho)                                         *)
  Name,       (* the name of each plugin, of several perhaps                *)
  Main, Window,  (* the main thread, and that of the window                 *)
  None        (* no plugin, no thread                                       *)

Plugins == ToSet(Config) \cup Offered
Workers == {"broadcast", "cycle"}
Threads == Workers \cup {Main, Window}

ASSUME RegistryAssumption ==
  /\ Config \in Seq(Plugins) /\ IsInjective(Config)
  /\ ToSet(Config) \cap Offered = {}
  /\ Loops \subseteq Plugins /\ Gui \notin Loops \cup Offered
  /\ DOMAIN Name = Plugins
  /\ Main # Window /\ {Main, Window} \cap Workers = {}
  /\ None \notin Plugins \cup Threads

VARIABLES
  exiting,   (* Session::exiting                                            *)
  plugins,   (* Session::plugins                                            *)
  lock,      (* the thread that holds plugin_lock over a destructor         *)
  life,      (* per plugin: "out" until constructed, "alive", "dying", "dead" *)
  by,        (* per plugin: the thread its destructor runs in               *)
  own,       (* per plugin of Loops: where its own thread is                *)
  at,        (* per thread: where it is                                     *)
  held,      (* per thread: what is left of its copy of the list            *)
  got,       (* per thread: the plugin that it loads, or was returned       *)
  todo,      (* what main still has to load, or to unload                   *)
  joined,    (* per thread that may finish: how many threads it has joined  *)
  calling,   (* per worker: the plugins whose callback its threads run      *)
  crashed    (* "thrown" by an exception that nobody catches, "fault" after *)
             (* a thread has joined itself or back() of an empty vector     *)

vars == <<exiting, plugins, lock, life, by, own, at, held, got, todo, joined, calling, crashed>>
lifeVars == <<lock, life, by>>

Init ==
  /\ exiting = FALSE
  /\ plugins = <<>>
  /\ lock = None
  /\ life = [p \in Plugins |-> "out"]
  /\ by = [p \in Plugins |-> None]
  /\ own = [p \in Loops |-> "none"]
  /\ at = [t \in Threads |-> IF t = Main THEN "load" ELSE "none"]
  /\ held = [t \in Threads |-> <<>>]
  /\ got = [t \in Threads |-> None]
  /\ todo = Config
  /\ joined = [t \in {Main, Window} |-> 0]
  /\ calling = [w \in Workers |-> {}]
  /\ crashed = "no"

(* The process and the session are there. *)
Running == crashed = "no" /\ at[Main] # "gone"

(* t does nothing else while a destructor runs in it. *)
Free(t) == Running /\ \A p \in Plugins : by[p] # t

Go(t, from, to) == Free(t) /\ at[t] = from /\ at' = [at EXCEPT ![t] = to]

-----------------------------------------------------------------------------
(* References.                                                             *)

(* Somebody refers to p. *)
Referenced(p, list, copies, returned) ==
  \/ p \in ToSet(list)
  \/ \E t \in Threads : p \in ToSet(copies[t]) \/ (returned[t] = p /\ at[t] = "got")

(* t has let a reference to p go: the destructor starts if it was the last. *)
LetGo(t, p) ==
  IF life[p] # "alive" \/ Referenced(p, plugins', held', got')
  THEN UNCHANGED <<life, by>>
  ELSE life' = [life EXCEPT ![p] = "dying"] /\ by' = [by EXCEPT ![p] = t]

(* The end of a destructor.  It has joined the plugin's own thread: those  *)
(* of Loops end when the session does, that of counter is told to.  A      *)
(* destructor that runs in the thread it wants to join throws.             *)
Destroy(p) ==
  /\ Running /\ life[p] = "dying"
  /\ IF p = Gui /\ by[p] = Window
     THEN crashed' = "fault" /\ UNCHANGED lifeVars
     ELSE /\ p \in Loops => own[p] = "over"
          /\ p = Gui => at[Window] = "over"
          /\ life' = [life EXCEPT ![p] = "dead"]
          /\ by' = [by EXCEPT ![p] = None]
          /\ lock' = IF lock = by[p] THEN None ELSE lock
          /\ UNCHANGED crashed
  /\ UNCHANGED <<exiting, plugins, own, at, held, got, todo, joined, calling>>

(* get_loaded_plugins *)
Copy(t, from, to) ==
  /\ Go(t, from, to)
  /\ lock = None
  /\ held' = [held EXCEPT ![t] = plugins]

(* Faulty variant: the elements are not destroyed with the copy. *)
DropLeaking(t) ==
  /\ Free(t) /\ at[t] = "leave" /\ held[t] # <<>>
  /\ held' = [held EXCEPT ![t] = Tail(@)]
  /\ UNCHANGED <<exiting, plugins, lifeVars, own, at, got, todo, joined, calling, crashed>>

(* A copy is destroyed, one element after the other. *)
Drop(t) ==
  /\ Free(t) /\ at[t] = "leave" /\ held[t] # <<>>
  /\ held' = [held EXCEPT ![t] = Tail(@)]
  /\ UNCHANGED <<exiting, plugins, lock, own, at, got, todo, joined, calling, crashed>>
  /\ LetGo(t, Head(held[t]))

Dropped(t, to) ==
  /\ Go(t, "leave", to)
  /\ held[t] = <<>>

-----------------------------------------------------------------------------
(* load_plugin and unload_plugin.                                          *)

(* The constructor starts the plugin's own thread.  Another plugin of the  *)
(* name may be there.                                                      *)
Construct(t, p) ==
  /\ life[p] = "out"
  /\ life' = [life EXCEPT ![p] = "alive"]
  /\ own' = IF p \in Loops THEN [own EXCEPT ![p] = "top"] ELSE own
  /\ got' = [got EXCEPT ![t] = p]
  /\ at' = [at EXCEPT ![t] = "push", ![Window] = IF p = Gui THEN "open" ELSE @]

MainLoads ==
  /\ Free(Main) /\ at[Main] = "load" /\ todo # <<>>
  /\ Construct(Main, Head(todo))
  /\ todo' = Tail(todo)
  /\ UNCHANGED <<exiting, plugins, lock, by, held, joined, calling, crashed>>

(* No path, no file, or nothing to construct in it: load_plugin returns    *)
(* nullptr and the next one is tried.                                      *)
MainFailsToLoad ==
  /\ Go(Main, "load", "load") /\ todo # <<>>
  /\ todo' = Tail(todo)
  /\ UNCHANGED <<exiting, plugins, lifeVars, own, held, got, joined, calling, crashed>>

(* What was configured or typed is no JSON, or not of the type that        *)
(* load_plugin expects: nobody catches what the parser throws.             *)
LoadThrows(t) ==
  /\ Free(t) /\ (at[t] = "frame" \/ (at[t] = "load" /\ todo # <<>>))
  /\ crashed' = "thrown"
  /\ UNCHANGED <<exiting, plugins, lifeVars, own, at, held, got, todo, joined, calling>>

(* Faulty variant: the new plugin is put in front. *)
PushInFront(t) ==
  /\ Go(t, "push", "back")
  /\ lock = None
  /\ plugins' = <<got[t]>> \o plugins
  /\ UNCHANGED <<exiting, lifeVars, own, held, got, todo, joined, calling, crashed>>

(* The new plugin is appended under the lock. *)
Push(t) ==
  /\ Go(t, "push", "back")
  /\ lock = None
  /\ plugins' = Append(plugins, got[t])
  /\ UNCHANGED <<exiting, lifeVars, own, held, got, todo, joined, calling, crashed>>

(* After the lock is given back, the last plugin of the list is returned.  *)
Back(t) ==
  /\ IF plugins = <<>>
     THEN Free(t) /\ at[t] = "back" /\ crashed' = "fault" /\ UNCHANGED <<at, got>>
     ELSE Go(t, "back", "got") /\ got' = [got EXCEPT ![t] = Last(plugins)] /\ UNCHANGED crashed
  /\ UNCHANGED <<exiting, plugins, lifeVars, own, held, todo, joined, calling>>

(* The caller lets it go: main at the end of its loop's body, the window   *)
(* after it has tested it, still with its copy of the list.                *)
Discard(t) ==
  /\ Go(t, "got", IF t = Main THEN "load" ELSE "leave")
  /\ got' = [got EXCEPT ![t] = None]
  /\ UNCHANGED <<exiting, plugins, lock, own, held, todo, joined, calling, crashed>>
  /\ LetGo(t, got[t])

(* The places in the list of the first plugin of the name: one or none. *)
Find(name) ==
  {i \in 1..Len(plugins) :
     Name[plugins[i]] = name /\ \A j \in 1..i - 1 : Name[plugins[j]] # name}

(* Everything unload_plugin does with plugin_lock held.  found_plugin is   *)
(* destroyed before the lock is released: if nobody else refers to the     *)
(* plugin, the destructor runs here.                                       *)
Unload(t, name) ==
  /\ lock = None
  /\ UNCHANGED <<exiting, own, got, joined, calling, crashed>>
  /\ \/ Find(name) = {} /\ UNCHANGED <<plugins, lifeVars>>
     \/ \E i \in Find(name) :
          /\ plugins' = RemoveAt(plugins, i)
          /\ LetGo(t, plugins[i])
          /\ lock' = IF by'[plugins[i]] = t THEN t ELSE None

-----------------------------------------------------------------------------
(* The threads that the session starts, and the plugins' own.              *)

Idle(w) == at[w] = "none"

(* A thread is started for the callback of each plugin in the copy; it has *)
(* a plain pointer to the plugin.                                          *)
WorkerCopies(w) ==
  /\ Copy(w, "start", "call")
  /\ calling' = [calling EXCEPT ![w] = ToSet(plugins)]
  /\ UNCHANGED <<exiting, plugins, lifeVars, own, got, todo, joined, crashed>>

(* Faulty variant: the callbacks' threads are detached. *)
WorkerDetaches(w) ==
  /\ Go(w, "call", "leave")
  /\ UNCHANGED <<exiting, plugins, lifeVars, own, held, got, todo, joined, calling, crashed>>

(* All callbacks have returned and are joined. *)
WorkerJoins(w) ==
  /\ Go(w, "call", "leave")
  /\ calling' = [calling EXCEPT ![w] = {}]
  /\ UNCHANGED <<exiting, plugins, lifeVars, own, held, got, todo, joined, crashed>>

WorkerEnds(w) ==
  /\ Dropped(w, "none")
  /\ UNCHANGED <<exiting, plugins, lifeVars, own, held, got, todo, joined, calling, crashed>>

(* The loop of echoecho: it calls broadcast, which tests exiting once      *)
(* more, or ends.                                                          *)
LoopBegins(p) ==
  /\ Running /\ own[p] = "top" /\ ~exiting
  /\ own' = [own EXCEPT ![p] = "call"]
  /\ UNCHANGED <<exiting, plugins, lifeVars, at, held, got, todo, joined, calling, crashed>>

(* Faulty variant: the loop does not test exiting. *)
LoopNeverStops(p) ==
  /\ Running /\ own[p] = "top" /\ exiting
  /\ own' = [own EXCEPT ![p] = "call"]
  /\ UNCHANGED <<exiting, plugins, lifeVars, at, held, got, todo, joined, calling, crashed>>

LoopStops(p) ==
  /\ Running /\ own[p] = "top" /\ exiting
  /\ own' = [own EXCEPT ![p] = "over"]
  /\ UNCHANGED <<exiting, plugins, lifeVars, at, held, got, todo, joined, calling, crashed>>

(* The call joins the last broadcast and starts the next. *)
LoopCalls(p) ==
  /\ Running /\ own[p] = "call"
  /\ Idle("broadcast")
  /\ at' = [at EXCEPT !["broadcast"] = "start"]
  /\ own' = [own EXCEPT ![p] = "top"]
  /\ UNCHANGED <<exiting, plugins, lifeVars, held, got, todo, joined, calling, crashed>>

-----------------------------------------------------------------------------
(* The window of imgui-gui.                                                *)

(* The window cannot be created. *)
WindowFails ==
  /\ Go(Window, "open", "over")
  /\ UNCHANGED <<exiting, plugins, lifeVars, own, held, got, todo, joined, calling, crashed>>

(* The loop goes on. *)
WindowDraws ==
  /\ ~exiting
  /\ Go(Window, "open", "draw")
  /\ UNCHANGED <<exiting, plugins, lifeVars, own, held, got, todo, joined, calling, crashed>>

(* The loop ends because the session or the user does; then finish is      *)
(* called, which returns at once if the session is exiting.                *)
WindowCloses ==
  /\ Go(Window, "open", IF exiting THEN "over" ELSE "finish")
  /\ exiting' = TRUE
  /\ UNCHANGED <<plugins, lifeVars, own, held, got, todo, joined, calling, crashed>>

(* session_window_event walks a copy of the list. *)
FrameCopies ==
  /\ Copy(Window, "draw", "frame")
  /\ UNCHANGED <<exiting, plugins, lifeVars, own, got, todo, joined, calling, crashed>>

(* No button is pressed. *)
FramePasses ==
  /\ Go(Window, "frame", "leave")
  /\ UNCHANGED <<exiting, plugins, lifeVars, own, held, got, todo, joined, calling, crashed>>

(* Faulty variants: the window may unload itself; it has let its copy go   *)
(* when it unloads.                                                        *)
FrameUnloadsAny ==
  /\ Go(Window, "frame", "leave")
  /\ UNCHANGED <<held, todo>>
  /\ \E p \in ToSet(held[Window]) : Unload(Window, Name[p])

FrameUnloadsBare ==
  /\ Go(Window, "frame", "leave")
  /\ held' = [held EXCEPT ![Window] = <<>>]
  /\ \E p \in ToSet(held[Window]) \ {Gui} : Unload(Window, Name[p])
  /\ UNCHANGED todo

(* The button "unload" of a plugin other than the window's own. *)
FrameUnloads ==
  /\ Go(Window, "frame", "leave")
  /\ UNCHANGED <<held, todo>>
  /\ \E p \in ToSet(held[Window]) \ {Gui} : Unload(Window, Name[p])

(* The button "Load Plugin". *)
FrameLoads ==
  /\ Free(Window) /\ at[Window] = "frame"
  /\ \E p \in Offered : Construct(Window, p)
  /\ UNCHANGED <<exiting, plugins, lock, by, held, todo, joined, calling, crashed>>

(* The button "Quit": finish is called in the middle of the frame. *)
FrameQuits ==
  /\ Go(Window, "frame", IF exiting THEN "leave" ELSE "finish")
  /\ exiting' = TRUE
  /\ UNCHANGED <<plugins, lifeVars, own, held, got, todo, joined, calling, crashed>>

FrameEnds ==
  /\ Dropped(Window, "open")
  /\ UNCHANGED <<exiting, plugins, lifeVars, own, held, got, todo, joined, calling, crashed>>

-----------------------------------------------------------------------------
(* The main thread, and Session::finish.                                   *)

MainHasLoaded ==
  /\ todo = <<>>
  /\ Go(Main, "load", "loop")
  /\ UNCHANGED <<exiting, plugins, lifeVars, own, held, got, todo, joined, calling, crashed>>

(* The loop goes on: aggregate_data joins the last cycle and starts one. *)
MainContinues ==
  /\ ~exiting
  /\ Go(Main, "loop", "join")
  /\ UNCHANGED <<exiting, plugins, lifeVars, own, held, got, todo, joined, calling, crashed>>

MainSpawns ==
  /\ Free(Main) /\ at[Main] = "join" /\ Idle("cycle")
  /\ at' = [at EXCEPT ![Main] = "loop", !["cycle"] = "start"]
  /\ UNCHANGED <<exiting, plugins, lifeVars, own, held, got, todo, joined, calling, crashed>>

(* The handler of an interrupt calls finish while main sleeps. *)
Interrupt ==
  /\ ~exiting
  /\ Go(Main, "loop", "finish")
  /\ exiting' = TRUE
  /\ UNCHANGED <<plugins, lifeVars, own, held, got, todo, joined, calling, crashed>>

FinishOrder == <<"broadcast", "cycle">>

(* Faulty variant: the last thread is joined a second time. *)
FinishJoinsAgain(t) ==
  /\ Free(t) /\ at[t] = "finish"
  /\ Idle(FinishOrder[IF joined[t] = 0 THEN 1 ELSE Len(FinishOrder)])
  /\ joined' = [joined EXCEPT ![t] = @ + 1]
  /\ UNCHANGED <<exiting, plugins, lifeVars, own, at, held, got, todo, calling, crashed>>

FinishJoins(t) ==
  /\ Free(t) /\ at[t] = "finish"
  /\ joined[t] < Len(FinishOrder)
  /\ Idle(FinishOrder[joined[t] + 1])
  /\ joined' = [joined EXCEPT ![t] = @ + 1]
  /\ UNCHANGED <<exiting, plugins, lifeVars, own, at, held, got, todo, calling, crashed>>

(* finish returns to the loop of main, or to the window. *)
FinishReturns(t) ==
  /\ joined[t] = Len(FinishOrder)
  /\ Go(t, "finish", IF t = Main THEN "loop" ELSE "leave")
  /\ UNCHANGED <<exiting, plugins, lifeVars, own, held, got, todo, joined, calling, crashed>>

(* main returns, and its session is destroyed: ~Session walks a copy of    *)
(* the list, unloads each plugin by its name and drops the copy.           *)
MainCopies ==
  /\ exiting
  /\ Copy(Main, "loop", "unload")
  /\ todo' = plugins
  /\ UNCHANGED <<exiting, plugins, lifeVars, own, got, joined, calling, crashed>>

MainUnloads ==
  /\ todo # <<>>
  /\ Go(Main, "unload", "unload")
  /\ todo' = Tail(todo)
  /\ UNCHANGED held
  /\ Unload(Main, Name[Head(todo)])

MainHasUnloaded ==
  /\ todo = <<>>
  /\ Go(Main, "unload", "leave")
  /\ UNCHANGED <<exiting, plugins, lifeVars, own, held, got, todo, joined, calling, crashed>>

MainLeaves ==
  /\ Dropped(Main, "members")
  /\ UNCHANGED <<exiting, plugins, lifeVars, own, held, got, todo, joined, calling, crashed>>

(* The members of the session are destroyed, with what is in the list. *)
MainDestroysList ==
  /\ plugins # <<>>
  /\ Go(Main, "members", "members")
  /\ plugins' = Tail(plugins)
  /\ UNCHANGED <<exiting, lock, own, held, got, todo, joined, calling, crashed>>
  /\ LetGo(Main, Head(plugins))

MainReturns ==
  /\ plugins = <<>>
  /\ Go(Main, "members", "gone")
  /\ UNCHANGED <<exiting, plugins, lifeVars, own, held, got, todo, joined, calling, crashed>>

-----------------------------------------------------------------------------
LoadStep(t) == Push(t) \/ Back(t) \/ Discard(t)

WorkerStep(w) == WorkerCopies(w) \/ WorkerJoins(w) \/ Drop(w) \/ WorkerEnds(w)

FrameStep ==
  \/ FrameCopies \/ FramePasses \/ FrameUnloads \/ FrameLoads \/ FrameQuits
  \/ LoadThrows(Window) \/ LoadStep(Window) \/ Drop(Window) \/ FrameEnds

WindowStep == FrameStep \/ WindowFails \/ WindowDraws \/ WindowCloses

MainStep ==
  \/ MainLoads \/ MainFailsToLoad \/ LoadThrows(Main) \/ LoadStep(Main) \/ MainHasLoaded
  \/ MainContinues \/ MainSpawns
  \/ MainCopies \/ MainUnloads \/ MainHasUnloaded \/ Drop(Main) \/ MainLeaves
  \/ MainDestroysList \/ MainReturns

FinishStep(t) == FinishJoins(t) \/ FinishReturns(t)

(* The session is gone, or the process is. *)
AtRest == ~Running /\ UNCHANGED vars

Next ==
  \/ \E p \in Plugins : Destroy(p)
  \/ \E w \in Workers : WorkerStep(w)
  \/ \E p \in Loops : LoopBegins(p) \/ LoopStops(p) \/ LoopCalls(p)
  \/ WindowStep
  \/ MainStep
  \/ Interrupt
  \/ \E t \in {Main, Window} : FinishStep(t)
  \/ AtRest

Spec == Init /\ [][Next]_vars

(* Every thread is scheduled, and the callbacks return.  Whether a loop    *)
(* calls the session again is its own affair.                              *)
LiveSpec ==
  /\ Spec
  /\ \A p \in Plugins : WF_vars(Destroy(p))
  /\ \A w \in Workers : WF_vars(WorkerStep(w))
  /\ \A p \in Loops : WF_vars(LoopStops(p)) /\ WF_vars(LoopCalls(p))
  /\ WF_vars(WindowStep) /\ WF_vars(MainStep)
  /\ \A t \in {Main, Window} : WF_vars(FinishStep(t))

-----------------------------------------------------------------------------
(* Type invariant: what each variable may hold. *)
TypeOK ==
  /\ exiting \in BOOLEAN /\ crashed \in {"no", "thrown", "fault"}
  /\ plugins \in Seq(Plugins) /\ todo \in Seq(Plugins)
  /\ lock \in Threads \cup {None}
  /\ life \in [Plugins -> {"out", "alive", "dying", "dead"}]
  /\ by \in [Plugins -> Threads \cup {None}]
  /\ own \in [Loops -> {"none", "top", "call", "over"}]
  /\ at \in [Threads -> {"none", "start", "call", "leave", "over", "open", "draw",
                         "frame", "push", "back", "got", "finish", "load", "loop", "join",
                         "unload", "members", "gone"}]
  /\ held \in [Threads -> Seq(Plugins)]
  /\ got \in [Threads -> Plugins \cup {None}]
  /\ joined \in [{Main, Window} -> 0..Len(FinishOrder)]
  /\ calling \in [Workers -> SUBSET Plugins]

(* No plugin's destructor begins while one of the session's threads runs   *)
(* a callback of it, through a plain pointer: the copy of the list, which  *)
(* the callbacks' threads know nothing of, outlives them.  (What a plugin  *)
(* registers with another one, such as the counter's display in the        *)
(* window, is called by that one and is no callback of the session.)       *)
CalledWhileAlive ==
  \A w \in Workers : \A p \in calling[w] : life[p] = "alive"

(* load_plugin, which looks at the end of the list without plugin_lock,    *)
(* finds its own plugin there unless the other thread that loads was       *)
(* faster: behind the window's there are plugins of the configuration      *)
(* only, until the session is destroyed; behind main's there are those of  *)
(* the window only, which may have unloaded main's.                        *)
LoadReturnsOwn ==
  /\ (at[Window] = "back" /\ at[Main] \notin {"unload", "leave", "members", "gone"}) =>
       \E i \in 1..Len(plugins) :
         plugins[i] = got[Window] /\ \A j \in i + 1..Len(plugins) : plugins[j] \in ToSet(Config)
  /\ at[Main] = "back" =>
       \A i \in 1..Len(plugins) :
         plugins[i] = got[Main] => \A j \in i + 1..Len(plugins) : plugins[j] \in Offered

(* No destructor runs with plugin_lock held, although unload_plugin, which *)
(* goes by the name, would let it: what it finds is in a copy of the list  *)
(* that the window or main still holds, whoever has the same name.         *)
DestroyedOutsideLock == lock = None

(* No other plugin has the window's name.  The user of the window may load *)
(* one that has; to unload it unloads the window, in its own thread.       *)
WindowNamedAlone ==
  \A p \in Plugins \ {Gui} : Gui \in Plugins => Name[p] # Name[Gui]

(* Before the session is destroyed no plugin is destroyed by its own       *)
(* thread, and load_plugin does not take the last plugin of an empty list. *)
(* (What the parser throws ends the process at any time: LoadThrows.)      *)
SoundUntilDestroyed ==
  WindowNamedAlone /\ crashed = "fault" => at[Main] \in {"unload", "leave", "members"}

(* Threads x and y, named for their plugin if they are a plugin's own: x   *)
(* waits for y, in a destructor, a call or finish.                         *)
WaitsFor(x, y) ==
  \/ x \in Workers /\ y \in Loops \cup {Gui} /\ by[y] = x
  \/ x \in Loops /\ own[x] = "call" /\ y = "broadcast"
  \/ x = Gui /\ at[Window] = "finish" /\ joined[Window] < 2 /\ y = FinishOrder[joined[Window] + 1]

(* A plugin is destroyed in a thread that its own thread is waiting for.   *)
CircularWait ==
  \E S \in SUBSET (Workers \cup Loops \cup {Gui}) \ {{}} : \A x \in S : \E y \in S : WaitsFor(x, y)

(* When the session is exiting, main gets to its end, unless two threads   *)
(* wait for each other or the process is terminated.                       *)
EndIsReached == exiting ~> (~Running \/ CircularWait)

(* A plugin without a loop of its own that was unloaded is destroyed,      *)
(* unless some thread waits for the loop of another plugin: those end with *)
(* the session only.                                                       *)
UnloadedIsDestroyed ==
  \A p \in Plugins \ (Loops \cup {Gui}) :
    (life[p] = "alive" /\ p \notin ToSet(plugins) /\ \A t \in Threads : got[t] # p)
      ~> (life[p] = "dead" \/ ~Running \/ exiting \/ \E q \in Loops : life[q] = "dying")

(* The comment at ~Session says "Plugins are automatically killed properly *)
(* as shared pointers": when main is through, all of them are destroyed.   *)
KilledProperly ==
  crashed # "fault" /\ (at[Main] = "gone" => \A p \in Plugins : life[p] \in {"out", "dead"})
=============================================================================
