------------------------ MODULE PluginRegistry_proofs ------------------------
(***************************************************************************)
(* Proofs about PluginRegistry, for any configuration, any plugins that    *)
(* may be loaded and any names: no destructor begins while the session's   *)
(* threads run a callback of its plugin (CalledWhileAlive), none runs      *)
(* under plugin_lock (DestroyedOutsideLock), load_plugin finds the plugin  *)
(* it appended (LoadReturnsOwn), and no plugin is destroyed by its own     *)
(* thread before the session is destroyed (SoundUntilDestroyed).           *)
(*                                                                         *)
(* The first needs to know of the plugins that are on their way into the   *)
(* list: one that is constructed and not yet appended is referred to by    *)
(* nobody else, so that nobody can let it go (Handled); and that the       *)
(* callbacks' threads are joined before the copy is let go (CallingHeld).  *)
(* The second needs to know who holds what unload_plugin finds             *)
(* (KnownToMain and KnownToWindow), the third what main still has to load  *)
(* and that nobody unloads while the window loads (LoadOrder), the last    *)
(* that the window's plugin stays in the list (Listed).                    *)
(***************************************************************************)
EXTENDS PluginRegistry, TLAPS

InNoList(p) == p \notin ToSet(plugins) /\ \A t \in Threads : p \notin ToSet(held[t])

(* A plugin being loaded is alive, and nobody else's until it is appended. *)
Handled ==
  \A t \in Threads :
    /\ at[t] = "push" =>
         /\ got[t] \in Plugins /\ life[got[t]] = "alive" /\ InNoList(got[t])
         /\ \A u \in Threads \ {t} : at[u] \in {"push", "got"} => got[u] # got[t]
    /\ at[t] = "got" => got[t] \in Plugins /\ life[got[t]] = "alive"

(* What the list and the copies of it hold is alive. *)
CopiesLive ==
  \A p \in Plugins :
    (p \in ToSet(plugins) \/ \E t \in Threads : p \in ToSet(held[t])) => life[p] = "alive"

IInv == TypeOK /\ CopiesLive /\ Handled

-----------------------------------------------------------------------------
(* Sequences as sets.                                                      *)

LEMMA TailIsSubset ==
  ASSUME NEW S, NEW s \in Seq(S), s # <<>>
  PROVE  Tail(s) \in Seq(S) /\ ToSet(Tail(s)) \subseteq ToSet(s) /\ Head(s) \in ToSet(s) /\ Head(s) \in S
  BY DEF ToSet

LEMMA AppendIsUnion ==
  ASSUME NEW S, NEW s \in Seq(S), NEW e \in S
  PROVE  Append(s, e) \in Seq(S) /\ \A x \in ToSet(Append(s, e)) : x \in ToSet(s) \/ x = e
  BY DEF ToSet

LEMMA LastIsElement ==
  ASSUME NEW S, NEW s \in Seq(S), s # <<>>
  PROVE  Last(s) \in ToSet(s) /\ Last(s) \in S
  BY DEF ToSet, Last

LEMMA RemoveAtIsSubset ==
  ASSUME NEW S, NEW s \in Seq(S), NEW i \in 1..Len(s)
  PROVE  RemoveAt(s, i) \in Seq(S) /\ ToSet(RemoveAt(s, i)) \subseteq ToSet(s)
         /\ s[i] \in ToSet(s) /\ s[i] \in S
<1>1. Len(s) \in Nat /\ i \in Nat
  OBVIOUS
<1>2. SubSeq(s, 1, i - 1) \in Seq(S) /\ SubSeq(s, i + 1, Len(s)) \in Seq(S)
  BY <1>1
<1>3. PICK a, b \in Seq(S) : a = SubSeq(s, 1, i - 1) /\ b = SubSeq(s, i + 1, Len(s))
  BY <1>2
<1>4. RemoveAt(s, i) = a \o b
  BY <1>3 DEF RemoveAt
<1>5. \A k \in 1..Len(a) : a[k] = s[k] /\ k \in 1..Len(s)
  BY <1>1, <1>3
<1>6. \A k \in 1..Len(b) : b[k] = s[k + i] /\ k + i \in 1..Len(s)
  BY <1>1, <1>3
<1>7. ASSUME NEW k \in 1..Len(a \o b) PROVE (a \o b)[k] \in ToSet(s)
  <2>1. CASE k \in 1..Len(a)
    BY <1>5, <2>1 DEF ToSet
  <2>2. CASE k \notin 1..Len(a)
    <3>1. k - Len(a) \in 1..Len(b) /\ (a \o b)[k] = b[k - Len(a)]
      BY <2>2
    <3> QED
      BY <1>6, <3>1 DEF ToSet
  <2> QED
    BY <2>1, <2>2
<1>8. a \o b \in Seq(S)
  OBVIOUS
<1>9. ToSet(a \o b) \subseteq ToSet(s)
  BY <1>7, <1>8 DEF ToSet
<1>10. s[i] \in ToSet(s) /\ s[i] \in S
  BY DEF ToSet
<1> QED
  BY <1>4, <1>8, <1>9, <1>10

-----------------------------------------------------------------------------
(* The steps in general.                                                   *)

(* The last reference but others' is let go.  The plugin was referred to   *)
(* and so was on nobody's way into the list: if its destructor begins, it  *)
(* is in no list and nobody was returned it.                               *)
LEMMA LetGoKeeps ==
  ASSUME IInv, NEW t \in Threads, NEW p \in Plugins, LetGo(t, p),
         ToSet(plugins') \subseteq ToSet(plugins),
         \A u \in Threads : ToSet(held'[u]) \subseteq ToSet(held[u]),
         \A u \in Threads : at'[u] \in {"push", "got"} => at'[u] = at[u] /\ got'[u] = got[u],
         \/ ~InNoList(p)
         \/ \E u \in Threads : at[u] = "got" /\ got[u] = p
  PROVE  CopiesLive' /\ Handled'
<1> USE DEF IInv
<1>1. CASE life' = life
  BY <1>1 DEF CopiesLive, Handled, InNoList
<1>2. CASE ~Referenced(p, plugins', held', got') /\ life' = [life EXCEPT ![p] = "dying"]
  <2>1. /\ p \notin ToSet(plugins')
        /\ \A u \in Threads : p \notin ToSet(held'[u]) /\ ~(got'[u] = p /\ at[u] = "got")
    BY <1>2 DEF Referenced
  <2>2. \A x \in Plugins : x # p => life'[x] = life[x]
    BY <1>2 DEF TypeOK
  <2>3. CopiesLive'
    BY <2>1, <2>2 DEF CopiesLive
  <2>4. \A u \in Threads : at[u] = "push" => got[u] # p
    BY DEF Handled
  <2>5. Handled'
    BY <2>1, <2>2, <2>4 DEF Handled, InNoList
  <2> QED
    BY <2>3, <2>5
<1> QED
  BY <1>1, <1>2 DEF LetGo

(* Steps that load nothing and let nothing go. *)
LEMMA QuietKeeps ==
  ASSUME IInv, UNCHANGED <<plugins, life, got>>,
         \A u \in Threads : \A x \in ToSet(held'[u]) : x \in ToSet(held[u]) \/ x \in ToSet(plugins),
         \A u \in Threads : at'[u] \in {"push", "got"} => at'[u] = at[u]
  PROVE  CopiesLive' /\ Handled'
<1> USE DEF IInv
<1>1. CopiesLive'
  BY DEF CopiesLive
<1>2. Handled'
  BY DEF Handled, InNoList
<1> QED
  BY <1>1, <1>2

(* A plugin is constructed: nobody knew of it. *)
LEMMA ConstructKeeps ==
  ASSUME IInv, NEW t \in Threads, NEW p \in Plugins, Construct(t, p), UNCHANGED <<plugins, held>>
  PROVE  CopiesLive' /\ Handled'
<1> USE DEF IInv
<1>1. /\ life[p] = "out" /\ life' = [life EXCEPT ![p] = "alive"] /\ got' = [got EXCEPT ![t] = p]
      /\ at' = [at EXCEPT ![t] = "push", ![Window] = IF p = Gui THEN "open" ELSE @]
  BY DEF Construct
<1>2. life'[p] = "alive" /\ \A x \in Plugins : life[x] = "alive" => x # p /\ life'[x] = "alive"
  BY <1>1 DEF TypeOK
<1>3. got'[t] = p /\ \A u \in Threads \ {t} : got'[u] = got[u]
  BY <1>1 DEF TypeOK
<1>4. \A u \in Threads \ {t} : at'[u] \in {"push", "got"} => at'[u] = at[u]
  BY <1>1 DEF TypeOK
<1>5. at'[t] # "got"
  BY <1>1 DEF TypeOK
<1>6. InNoList(p)
  BY <1>1 DEF InNoList, CopiesLive
<1>7. CopiesLive'
  BY <1>2 DEF CopiesLive
<1>8. Handled'
  BY <1>2, <1>3, <1>4, <1>5, <1>6 DEF Handled, InNoList
<1> QED
  BY <1>7, <1>8

-----------------------------------------------------------------------------
(* Types.                                                                  *)

LEMMA ConstantsTyped ==
  /\ Main \in Threads /\ Window \in Threads /\ Main # Window
  /\ Workers \subseteq Threads /\ Main \notin Workers /\ Window \notin Workers
  /\ Loops \subseteq Plugins /\ Offered \subseteq Plugins /\ None \notin Threads
  BY RegistryAssumption DEF Threads, Plugins

LEMMA LetGoTyped ==
  ASSUME TypeOK, NEW t \in Threads, NEW p \in Plugins, LetGo(t, p)
  PROVE  /\ life' \in [Plugins -> {"out", "alive", "dying", "dead"}]
         /\ by' \in [Plugins -> Threads \cup {None}]
  BY DEF LetGo, TypeOK

LEMMA UnloadTyped ==
  ASSUME TypeOK, NEW t \in Threads, NEW name, Unload(t, name)
  PROVE  /\ plugins' \in Seq(Plugins) /\ lock' \in Threads \cup {None}
         /\ life' \in [Plugins -> {"out", "alive", "dying", "dead"}]
         /\ by' \in [Plugins -> Threads \cup {None}]
         /\ UNCHANGED <<exiting, own, got, joined, calling, crashed>>
<1>1. UNCHANGED <<exiting, own, got, joined, calling, crashed>>
  BY DEF Unload
<1>2. CASE UNCHANGED <<plugins, lifeVars>>
  BY <1>1, <1>2 DEF TypeOK, lifeVars
<1>3. ASSUME NEW i \in Find(name), plugins' = RemoveAt(plugins, i), LetGo(t, plugins[i]),
             lock' = IF by'[plugins[i]] = t THEN t ELSE None
      PROVE  /\ plugins' \in Seq(Plugins) /\ lock' \in Threads \cup {None}
             /\ life' \in [Plugins -> {"out", "alive", "dying", "dead"}]
             /\ by' \in [Plugins -> Threads \cup {None}]
  <2>1. plugins \in Seq(Plugins) /\ i \in 1..Len(plugins)
    BY DEF TypeOK, Find
  <2>2. plugins' \in Seq(Plugins) /\ plugins[i] \in Plugins
    BY <1>3, <2>1, RemoveAtIsSubset
  <2> QED
    BY <1>3, <2>2, LetGoTyped
<1> QED
  BY <1>1, <1>2, <1>3 DEF Unload

LEMMA ConstructTyped ==
  ASSUME TypeOK, NEW t \in Threads, NEW p \in Plugins, Construct(t, p)
  PROVE  /\ life' \in [Plugins -> {"out", "alive", "dying", "dead"}]
         /\ own' \in [Loops -> {"none", "top", "call", "over"}]
         /\ got' \in [Threads -> Plugins \cup {None}]
         /\ at' \in [Threads -> {"none", "start", "call", "leave", "over", "open", "draw",
                                "frame", "push", "back", "got", "finish", "load", "loop",
                                "join", "unload", "members", "gone"}]
<1>1. /\ life' = [life EXCEPT ![p] = "alive"]
      /\ own' = IF p \in Loops THEN [own EXCEPT ![p] = "top"] ELSE own
      /\ got' = [got EXCEPT ![t] = p]
      /\ at' = [at EXCEPT ![t] = "push", ![Window] = IF p = Gui THEN "open" ELSE @]
  BY DEF Construct
<1> QED
  BY <1>1 DEF TypeOK

LEMMA TypeInit == Init => TypeOK
<1> SUFFICES ASSUME Init PROVE TypeOK
  OBVIOUS
<1>1. at \in [Threads -> {"none", "load"}]
  BY DEF Init
<1>2. plugins \in Seq(Plugins) /\ todo \in Seq(Plugins) /\ held \in [Threads -> Seq(Plugins)]
  BY RegistryAssumption DEF Init
<1>3. joined \in [{Main, Window} -> 0..Len(FinishOrder)]
  BY DEF Init, FinishOrder
<1> QED
  BY <1>1, <1>2, <1>3 DEF Init, TypeOK

(* The steps that only move a thread, or set a flag. *)
LEMMA MoveTyped ==
  ASSUME TypeOK, UNCHANGED <<plugins, lock, life, by, own, held, got, todo, joined, calling, crashed>>,
         exiting' \in BOOLEAN, NEW t \in Threads,
         NEW to \in {"none", "leave", "over", "open", "draw", "frame", "finish", "load", "loop",
                     "join", "unload", "members", "gone"},
         at' = [at EXCEPT ![t] = to]
  PROVE  TypeOK'
  BY DEF TypeOK

(* A plugin is let go by a thread that does not move. *)
LEMMA DropTyped ==
  ASSUME TypeOK, NEW t \in Threads, Drop(t)
  PROVE  TypeOK'
<1>1. /\ held[t] # <<>> /\ held' = [held EXCEPT ![t] = Tail(@)] /\ LetGo(t, Head(held[t]))
      /\ UNCHANGED <<exiting, plugins, lock, own, at, got, todo, joined, calling, crashed>>
  BY DEF Drop
<1>2. held[t] \in Seq(Plugins) /\ Tail(held[t]) \in Seq(Plugins) /\ Head(held[t]) \in Plugins
  BY <1>1, TailIsSubset DEF TypeOK
<1>3. held' \in [Threads -> Seq(Plugins)]
  BY <1>1, <1>2 DEF TypeOK
<1> QED
  BY <1>1, <1>2, <1>3, LetGoTyped DEF TypeOK

LEMMA LoadTyped ==
  ASSUME TypeOK, Handled, NEW t \in {Main, Window}, LoadStep(t)
  PROVE  TypeOK'
<1>1. t \in Threads
  BY ConstantsTyped
<1>2. CASE Push(t)
  <2>1. at[t] = "push" /\ at' = [at EXCEPT ![t] = "back"] /\ plugins' = Append(plugins, got[t])
    BY <1>2 DEF Push, Go
  <2>2. plugins' \in Seq(Plugins)
    BY <1>1, <2>1 DEF Handled, TypeOK
  <2> QED
    BY <1>2, <2>1, <2>2 DEF TypeOK, Push, lifeVars
<1>3. CASE Back(t)
  <2>1. CASE plugins = <<>>
    BY <1>3, <2>1 DEF TypeOK, Back, lifeVars
  <2>2. CASE plugins # <<>>
    <3>1. Last(plugins) \in Plugins
      BY <2>2, LastIsElement DEF TypeOK
    <3>2. at' = [at EXCEPT ![t] = "got"] /\ got' = [got EXCEPT ![t] = Last(plugins)]
      BY <1>3, <2>2 DEF Back, Go
    <3> QED
      BY <1>3, <2>2, <3>1, <3>2 DEF TypeOK, Back, lifeVars
  <2> QED
    BY <2>1, <2>2
<1>4. CASE Discard(t)
  <2>1. /\ at[t] = "got" /\ at' = [at EXCEPT ![t] = IF t = Main THEN "load" ELSE "leave"]
        /\ got' = [got EXCEPT ![t] = None] /\ LetGo(t, got[t])
    BY <1>4 DEF Discard, Go
  <2>2. got[t] \in Plugins
    BY <1>1, <2>1 DEF Handled
  <2> QED
    BY <1>1, <1>4, <2>1, <2>2, LetGoTyped DEF TypeOK, Discard
<1> QED
  BY <1>2, <1>3, <1>4 DEF LoadStep

LEMMA WindowTyped ==
  ASSUME TypeOK, Handled, WindowStep
  PROVE  TypeOK'
<1> USE ConstantsTyped
<1>1. CASE WindowFails
  BY <1>1, MoveTyped DEF WindowFails, Go, lifeVars, TypeOK
<1>2. CASE WindowDraws
  BY <1>2, MoveTyped DEF WindowDraws, Go, lifeVars, TypeOK
<1>3. CASE WindowCloses
  BY <1>3, MoveTyped DEF WindowCloses, Go, lifeVars
<1>4. CASE FrameCopies
  BY <1>4 DEF FrameCopies, Copy, Go, lifeVars, TypeOK
<1>5. CASE FramePasses
  BY <1>5, MoveTyped DEF FramePasses, Go, lifeVars, TypeOK
<1>6. CASE FrameUnloads
  <2>1. /\ at' = [at EXCEPT ![Window] = "leave"] /\ UNCHANGED <<held, todo>>
    BY <1>6 DEF FrameUnloads, Go
  <2>2. PICK name : Unload(Window, name)
    BY <1>6 DEF FrameUnloads
  <2> QED
    BY <2>1, <2>2, UnloadTyped DEF TypeOK
<1>7. CASE FrameLoads
  <2>1. PICK p \in Plugins : Construct(Window, p)
    BY <1>7 DEF FrameLoads
  <2> QED
    BY <1>7, <2>1, ConstructTyped DEF FrameLoads, TypeOK
<1>8. CASE FrameQuits
  BY <1>8, MoveTyped DEF FrameQuits, Go, lifeVars
<1>9. CASE LoadStep(Window)
  BY <1>9, LoadTyped
<1>10. CASE Drop(Window)
  BY <1>10, DropTyped
<1>11. CASE FrameEnds
  BY <1>11, MoveTyped DEF FrameEnds, Dropped, Go, lifeVars, TypeOK
<1>12. CASE LoadThrows(Window)
  BY <1>12 DEF LoadThrows, lifeVars, TypeOK
<1> QED
  BY <1>1, <1>2, <1>3, <1>4, <1>5, <1>6, <1>7, <1>8, <1>9, <1>10, <1>11, <1>12 DEF WindowStep, FrameStep

LEMMA MainTyped ==
  ASSUME TypeOK, Handled, MainStep
  PROVE  TypeOK'
<1> USE ConstantsTyped
<1>1. CASE MainLoads
  <2>1. todo # <<>> /\ Construct(Main, Head(todo)) /\ todo' = Tail(todo)
    BY <1>1 DEF MainLoads
  <2>2. Head(todo) \in Plugins /\ Tail(todo) \in Seq(Plugins)
    BY <2>1, TailIsSubset DEF TypeOK
  <2> QED
    BY <1>1, <2>1, <2>2, ConstructTyped DEF MainLoads, TypeOK
<1>2. CASE MainFailsToLoad
  BY <1>2, TailIsSubset DEF MainFailsToLoad, Go, lifeVars, TypeOK
<1>3. CASE LoadStep(Main)
  BY <1>3, LoadTyped
<1>4. CASE MainHasLoaded
  BY <1>4, MoveTyped DEF MainHasLoaded, Go, lifeVars, TypeOK
<1>5. CASE MainContinues
  BY <1>5, MoveTyped DEF MainContinues, Go, lifeVars, TypeOK
<1>6. CASE MainSpawns
  BY <1>6 DEF MainSpawns, lifeVars, TypeOK
<1>7. CASE MainCopies
  BY <1>7 DEF MainCopies, Copy, Go, lifeVars, TypeOK
<1>8. CASE MainUnloads
  <2>1. /\ todo # <<>> /\ todo' = Tail(todo) /\ UNCHANGED held
        /\ at' = [at EXCEPT ![Main] = "unload"] /\ Unload(Main, Name[Head(todo)])
    BY <1>8 DEF MainUnloads, Go
  <2>2. todo' \in Seq(Plugins)
    BY <2>1, TailIsSubset DEF TypeOK
  <2> QED
    BY <2>1, <2>2, UnloadTyped DEF TypeOK
<1>9. CASE MainHasUnloaded
  BY <1>9, MoveTyped DEF MainHasUnloaded, Go, lifeVars, TypeOK
<1>10. CASE Drop(Main)
  BY <1>10, DropTyped
<1>11. CASE MainLeaves
  BY <1>11, MoveTyped DEF MainLeaves, Dropped, Go, lifeVars, TypeOK
<1>12. CASE MainDestroysList
  <2>1. /\ plugins # <<>> /\ plugins' = Tail(plugins) /\ LetGo(Main, Head(plugins))
        /\ at' = [at EXCEPT ![Main] = "members"]
        /\ UNCHANGED <<exiting, lock, own, held, got, todo, joined, calling, crashed>>
    BY <1>12 DEF MainDestroysList, Go
  <2>2. Head(plugins) \in Plugins /\ plugins' \in Seq(Plugins)
    BY <2>1, TailIsSubset DEF TypeOK
  <2> QED
    BY <2>1, <2>2, LetGoTyped DEF TypeOK
<1>13. CASE MainReturns
  BY <1>13, MoveTyped DEF MainReturns, Go, lifeVars, TypeOK
<1>14. CASE LoadThrows(Main)
  BY <1>14 DEF LoadThrows, lifeVars, TypeOK
<1> QED
  BY <1>1, <1>2, <1>3, <1>4, <1>5, <1>6, <1>7, <1>8, <1>9, <1>10, <1>11, <1>12, <1>13, <1>14 DEF MainStep

LEMMA TypeStep ==
  ASSUME TypeOK, Handled, [Next]_vars
  PROVE  TypeOK'
<1> USE ConstantsTyped
<1>1. ASSUME NEW p \in Plugins, Destroy(p) PROVE TypeOK'
  BY <1>1 DEF Destroy, lifeVars, TypeOK
<1>2. ASSUME NEW w \in Workers, WorkerStep(w) PROVE TypeOK'
  <2>1. w \in Threads
    OBVIOUS
  <2>2. CASE WorkerCopies(w)
    <3>1. ToSet(plugins) \subseteq Plugins
      BY DEF ToSet, TypeOK
    <3> QED
      BY <2>1, <2>2, <3>1 DEF WorkerCopies, Copy, Go, lifeVars, TypeOK
  <2>3. CASE Drop(w)
    BY <2>1, <2>3, DropTyped
  <2>4. CASE WorkerEnds(w)
    BY <2>1, <2>4, MoveTyped DEF WorkerEnds, Dropped, Go, lifeVars, TypeOK
  <2>5. CASE WorkerJoins(w)
    BY <2>1, <2>5 DEF WorkerJoins, Go, lifeVars, TypeOK
  <2> QED
    BY <1>2, <2>2, <2>3, <2>4, <2>5 DEF WorkerStep
<1>3. ASSUME NEW p \in Loops, LoopBegins(p) \/ LoopStops(p) PROVE TypeOK'
  BY <1>3 DEF LoopBegins, LoopStops, lifeVars, TypeOK
<1>4. ASSUME NEW p \in Loops, LoopCalls(p) PROVE TypeOK'
  BY <1>4 DEF LoopCalls, lifeVars, TypeOK
<1>5. CASE Interrupt
  BY <1>5, MoveTyped DEF Interrupt, Go, lifeVars
<1>6. ASSUME NEW t \in {Main, Window}, FinishStep(t) PROVE TypeOK'
  <2>1. CASE FinishJoins(t)
    BY <2>1 DEF FinishJoins, FinishOrder, lifeVars, TypeOK
  <2>2. CASE FinishReturns(t)
    BY <2>2, MoveTyped DEF FinishReturns, Go, lifeVars, TypeOK
  <2> QED
    BY <1>6, <2>1, <2>2 DEF FinishStep
<1>7. CASE UNCHANGED vars
  BY <1>7 DEF vars, TypeOK
<1> QED
  BY <1>1, <1>2, <1>3, <1>4, <1>5, <1>6, <1>7, WindowTyped, MainTyped DEF Next, AtRest

-----------------------------------------------------------------------------
(* Every step keeps what the lists hold alive.                             *)

LEMMA UnloadKeeps ==
  ASSUME IInv, NEW t \in Threads, NEW name, Unload(t, name), UNCHANGED held,
         \A u \in Threads : at'[u] \in {"push", "got"} => at'[u] = at[u]
  PROVE  CopiesLive' /\ Handled'
<1>1. UNCHANGED got /\ plugins \in Seq(Plugins)
  BY DEF Unload, IInv, TypeOK
<1>2. CASE UNCHANGED <<plugins, lifeVars>>
  BY <1>1, <1>2, QuietKeeps DEF lifeVars
<1>3. ASSUME NEW i \in Find(name), plugins' = RemoveAt(plugins, i), LetGo(t, plugins[i])
      PROVE  CopiesLive' /\ Handled'
  <2>1. i \in 1..Len(plugins)
    BY DEF Find
  <2>2. /\ ToSet(plugins') \subseteq ToSet(plugins)
        /\ plugins[i] \in ToSet(plugins) /\ plugins[i] \in Plugins
    BY <1>1, <1>3, <2>1, RemoveAtIsSubset
  <2>3. ~InNoList(plugins[i])
    BY <2>2 DEF InNoList
  <2> QED
    BY <1>1, <1>3, <2>2, <2>3, LetGoKeeps
<1> QED
  BY <1>2, <1>3 DEF Unload

LEMMA DropKeeps ==
  ASSUME IInv, NEW t \in Threads, Drop(t)
  PROVE  CopiesLive' /\ Handled'
<1>1. /\ held[t] # <<>> /\ held' = [held EXCEPT ![t] = Tail(@)] /\ LetGo(t, Head(held[t]))
      /\ UNCHANGED <<plugins, at, got>>
  BY DEF Drop
<1>2. held[t] \in Seq(Plugins) /\ held \in [Threads -> Seq(Plugins)]
  BY DEF IInv, TypeOK
<1>3. ToSet(Tail(held[t])) \subseteq ToSet(held[t]) /\ Head(held[t]) \in ToSet(held[t]) /\ Head(held[t]) \in Plugins
  BY <1>1, <1>2, TailIsSubset
<1>4. \A u \in Threads : ToSet(held'[u]) \subseteq ToSet(held[u])
  BY <1>1, <1>2, <1>3
<1>5. ~InNoList(Head(held[t]))
  BY <1>3 DEF InNoList
<1> QED
  BY <1>1, <1>3, <1>4, <1>5, LetGoKeeps

LEMMA LoadKeeps ==
  ASSUME IInv, NEW t \in {Main, Window}, LoadStep(t)
  PROVE  CopiesLive' /\ Handled'
<1> USE DEF IInv
<1>1. t \in Threads
  BY ConstantsTyped
<1>2. CASE Push(t)
  <2>1. /\ at[t] = "push" /\ at' = [at EXCEPT ![t] = "back"] /\ plugins' = Append(plugins, got[t])
        /\ UNCHANGED <<life, held, got>>
    BY <1>2 DEF Push, Go, lifeVars
  <2>2. got[t] \in Plugins /\ life[got[t]] = "alive"
    BY <1>1, <2>1 DEF Handled
  <2>3. \A x \in ToSet(plugins') : x \in ToSet(plugins) \/ x = got[t]
    BY <2>1, <2>2, AppendIsUnion DEF TypeOK
  <2>4. at'[t] = "back" /\ \A u \in Threads \ {t} : at'[u] = at[u]
    BY <1>1, <2>1 DEF TypeOK
  <2>5. CopiesLive'
    BY <2>1, <2>2, <2>3 DEF CopiesLive
  <2>6. \A u \in Threads : at[u] = "push" /\ u # t => got[u] # got[t]
    BY <1>1, <2>1 DEF Handled
  <2>7. Handled'
    BY <2>1, <2>3, <2>4, <2>6 DEF Handled, InNoList
  <2> QED
    BY <2>5, <2>7
<1>3. CASE Back(t)
  <2>1. CASE plugins = <<>>
    BY <1>3, <2>1, QuietKeeps DEF Back, lifeVars
  <2>2. CASE plugins # <<>>
    <3>1. /\ at[t] = "back" /\ at' = [at EXCEPT ![t] = "got"] /\ got' = [got EXCEPT ![t] = Last(plugins)]
          /\ UNCHANGED <<plugins, life, held>>
      BY <1>3, <2>2 DEF Back, Go, lifeVars
    <3>2. Last(plugins) \in Plugins /\ Last(plugins) \in ToSet(plugins)
      BY <2>2, LastIsElement DEF TypeOK
    <3>3. life[Last(plugins)] = "alive"
      BY <3>2 DEF CopiesLive
    <3>4. /\ at'[t] = "got" /\ got'[t] = Last(plugins)
          /\ \A u \in Threads \ {t} : at'[u] = at[u] /\ got'[u] = got[u]
      BY <1>1, <3>1 DEF TypeOK
    <3>5. \A u \in Threads : at[u] = "push" => got[u] # Last(plugins)
      BY <3>2 DEF Handled, InNoList
    <3>6. CopiesLive'
      BY <3>1 DEF CopiesLive
    <3>7. Handled'
      BY <3>1, <3>2, <3>3, <3>4, <3>5 DEF Handled, InNoList
    <3> QED
      BY <3>6, <3>7
  <2> QED
    BY <2>1, <2>2
<1>4. CASE Discard(t)
  <2>1. /\ at[t] = "got" /\ at' = [at EXCEPT ![t] = IF t = Main THEN "load" ELSE "leave"]
        /\ got' = [got EXCEPT ![t] = None] /\ LetGo(t, got[t]) /\ UNCHANGED <<plugins, held>>
    BY <1>4 DEF Discard, Go
  <2>2. got[t] \in Plugins
    BY <1>1, <2>1 DEF Handled
  <2>3. \A u \in Threads : at'[u] \in {"push", "got"} => at'[u] = at[u] /\ got'[u] = got[u]
    BY <1>1, <2>1 DEF TypeOK
  <2> QED
    BY <1>1, <2>1, <2>2, <2>3, LetGoKeeps
<1> QED
  BY <1>2, <1>3, <1>4 DEF LoadStep

(* A thread moves on, or takes a copy of the list. *)
LEMMA MoveKeeps ==
  ASSUME IInv, UNCHANGED <<plugins, life, got>>,
         NEW t \in Threads,
         NEW to \in {"none", "start", "call", "leave", "over", "open", "draw", "frame", "finish",
                     "load", "loop", "join", "unload", "members", "gone"},
         at' = [at EXCEPT ![t] = to],
         held' = held \/ held' = [held EXCEPT ![t] = plugins]
  PROVE  CopiesLive' /\ Handled'
<1>1. \A u \in Threads : at'[u] \in {"push", "got"} => at'[u] = at[u]
  BY DEF IInv, TypeOK
<1>2. \A u \in Threads : \A x \in ToSet(held'[u]) : x \in ToSet(held[u]) \/ x \in ToSet(plugins)
  BY DEF IInv, TypeOK
<1> QED
  BY <1>1, <1>2, QuietKeeps

LEMMA WindowKeeps ==
  ASSUME IInv, WindowStep
  PROVE  CopiesLive' /\ Handled'
<1> USE ConstantsTyped
<1>1. CASE WindowFails
  BY <1>1, MoveKeeps DEF WindowFails, Go, lifeVars
<1>2. CASE WindowDraws
  BY <1>2, MoveKeeps DEF WindowDraws, Go, lifeVars
<1>3. CASE WindowCloses
  BY <1>3, MoveKeeps DEF WindowCloses, Go, lifeVars
<1>4. CASE FrameCopies
  BY <1>4, MoveKeeps DEF FrameCopies, Copy, Go, lifeVars
<1>5. CASE FramePasses
  BY <1>5, MoveKeeps DEF FramePasses, Go, lifeVars
<1>6. CASE FrameUnloads
  <2>1. /\ at' = [at EXCEPT ![Window] = "leave"] /\ UNCHANGED <<held, todo>>
    BY <1>6 DEF FrameUnloads, Go
  <2>2. PICK name : Unload(Window, name)
    BY <1>6 DEF FrameUnloads
  <2>3. \A u \in Threads : at'[u] \in {"push", "got"} => at'[u] = at[u]
    BY <2>1 DEF IInv, TypeOK
  <2> QED
    BY <2>1, <2>2, <2>3, UnloadKeeps
<1>7. CASE FrameLoads
  BY <1>7, ConstructKeeps DEF FrameLoads
<1>8. CASE FrameQuits
  BY <1>8, MoveKeeps DEF FrameQuits, Go, lifeVars
<1>9. CASE LoadStep(Window)
  BY <1>9, LoadKeeps
<1>10. CASE Drop(Window)
  BY <1>10, DropKeeps
<1>11. CASE FrameEnds
  BY <1>11, MoveKeeps DEF FrameEnds, Dropped, Go, lifeVars
<1>12. CASE LoadThrows(Window)
  BY <1>12, QuietKeeps DEF LoadThrows, lifeVars
<1> QED
  BY <1>1, <1>2, <1>3, <1>4, <1>5, <1>6, <1>7, <1>8, <1>9, <1>10, <1>11, <1>12 DEF WindowStep, FrameStep

LEMMA MainKeeps ==
  ASSUME IInv, MainStep
  PROVE  CopiesLive' /\ Handled'
<1> USE ConstantsTyped
<1>1. CASE MainLoads
  <2>1. Head(todo) \in Plugins
    BY <1>1, TailIsSubset DEF MainLoads, IInv, TypeOK
  <2> QED
    BY <1>1, <2>1, ConstructKeeps DEF MainLoads
<1>2. CASE MainFailsToLoad
  BY <1>2, MoveKeeps DEF MainFailsToLoad, Go, lifeVars
<1>3. CASE LoadStep(Main)
  BY <1>3, LoadKeeps
<1>4. CASE MainHasLoaded
  BY <1>4, MoveKeeps DEF MainHasLoaded, Go, lifeVars
<1>5. CASE MainContinues
  BY <1>5, MoveKeeps DEF MainContinues, Go, lifeVars
<1>6. CASE MainSpawns
  <2>1. /\ at' = [at EXCEPT ![Main] = "loop", !["cycle"] = "start"]
        /\ UNCHANGED <<plugins, life, got, held>>
    BY <1>6 DEF MainSpawns, lifeVars
  <2>2. \A u \in Threads : at'[u] \in {"push", "got"} => at'[u] = at[u]
    BY <2>1 DEF IInv, TypeOK
  <2> QED
    BY <2>1, <2>2, QuietKeeps
<1>7. CASE MainCopies
  BY <1>7, MoveKeeps DEF MainCopies, Copy, Go, lifeVars
<1>8. CASE MainUnloads
  <2>1. /\ at' = [at EXCEPT ![Main] = "unload"] /\ UNCHANGED held /\ Unload(Main, Name[Head(todo)])
    BY <1>8 DEF MainUnloads, Go
  <2>2. \A u \in Threads : at'[u] \in {"push", "got"} => at'[u] = at[u]
    BY <2>1 DEF IInv, TypeOK
  <2> QED
    BY <2>1, <2>2, UnloadKeeps
<1>9. CASE MainHasUnloaded
  BY <1>9, MoveKeeps DEF MainHasUnloaded, Go, lifeVars
<1>10. CASE Drop(Main)
  BY <1>10, DropKeeps
<1>11. CASE MainLeaves
  BY <1>11, MoveKeeps DEF MainLeaves, Dropped, Go, lifeVars
<1>12. CASE MainDestroysList
  <2>1. /\ plugins # <<>> /\ plugins' = Tail(plugins) /\ LetGo(Main, Head(plugins))
        /\ at' = [at EXCEPT ![Main] = "members"] /\ UNCHANGED <<held, got>>
    BY <1>12 DEF MainDestroysList, Go
  <2>2. /\ ToSet(plugins') \subseteq ToSet(plugins)
        /\ Head(plugins) \in ToSet(plugins) /\ Head(plugins) \in Plugins
    BY <2>1, TailIsSubset DEF IInv, TypeOK
  <2>3. ~InNoList(Head(plugins))
    BY <2>2 DEF InNoList
  <2>4. \A u \in Threads : at'[u] \in {"push", "got"} => at'[u] = at[u]
    BY <2>1 DEF IInv, TypeOK
  <2> QED
    BY <2>1, <2>2, <2>3, <2>4, LetGoKeeps
<1>13. CASE MainReturns
  BY <1>13, MoveKeeps DEF MainReturns, Go, lifeVars
<1>14. CASE LoadThrows(Main)
  BY <1>14, QuietKeeps DEF LoadThrows, lifeVars
<1> QED
  BY <1>1, <1>2, <1>3, <1>4, <1>5, <1>6, <1>7, <1>8, <1>9, <1>10, <1>11, <1>12, <1>13, <1>14 DEF MainStep

LEMMA AliveStep ==
  ASSUME IInv, [Next]_vars
  PROVE  CopiesLive' /\ Handled'
<1> USE ConstantsTyped
<1>1. ASSUME NEW p \in Plugins, Destroy(p) PROVE CopiesLive' /\ Handled'
  <2>1. life[p] = "dying" /\ UNCHANGED <<plugins, at, held, got>>
    BY <1>1 DEF Destroy
  <2>2. CASE UNCHANGED lifeVars
    BY <2>1, <2>2, QuietKeeps DEF lifeVars
  <2>3. CASE life' = [life EXCEPT ![p] = "dead"]
    <3>1. \A x \in Plugins : life[x] = "alive" => life'[x] = "alive"
      BY <2>1, <2>3 DEF IInv, TypeOK
    <3>2. CopiesLive'
      BY <2>1, <3>1 DEF IInv, CopiesLive
    <3>3. Handled'
      BY <2>1, <3>1 DEF IInv, Handled, InNoList
    <3> QED
      BY <3>2, <3>3
  <2> QED
    BY <1>1, <2>2, <2>3 DEF Destroy
<1>2. ASSUME NEW w \in Workers, WorkerStep(w) PROVE CopiesLive' /\ Handled'
  <2>1. w \in Threads
    OBVIOUS
  <2>2. CASE WorkerCopies(w)
    BY <2>1, <2>2, MoveKeeps DEF WorkerCopies, Copy, Go, lifeVars
  <2>3. CASE Drop(w)
    BY <2>1, <2>3, DropKeeps
  <2>4. CASE WorkerEnds(w)
    BY <2>1, <2>4, MoveKeeps DEF WorkerEnds, Dropped, Go, lifeVars
  <2>5. CASE WorkerJoins(w)
    BY <2>1, <2>5, MoveKeeps DEF WorkerJoins, Go, lifeVars
  <2> QED
    BY <1>2, <2>2, <2>3, <2>4, <2>5 DEF WorkerStep
<1>3. ASSUME NEW p \in Loops, LoopBegins(p) \/ LoopStops(p) PROVE CopiesLive' /\ Handled'
  BY <1>3, QuietKeeps DEF LoopBegins, LoopStops, lifeVars
<1>4. ASSUME NEW p \in Loops, LoopCalls(p) PROVE CopiesLive' /\ Handled'
  <2>1. "broadcast" \in Threads
    BY DEF Threads, Workers
  <2> QED
    BY <1>4, <2>1, MoveKeeps DEF LoopCalls, lifeVars
<1>5. CASE Interrupt
  BY <1>5, MoveKeeps DEF Interrupt, Go, lifeVars
<1>6. ASSUME NEW t \in {Main, Window}, FinishStep(t) PROVE CopiesLive' /\ Handled'
  <2>1. CASE FinishJoins(t)
    BY <2>1, QuietKeeps DEF FinishJoins, lifeVars
  <2>2. CASE FinishReturns(t)
    BY <2>2, MoveKeeps DEF FinishReturns, Go, lifeVars
  <2> QED
    BY <1>6, <2>1, <2>2 DEF FinishStep
<1>7. CASE UNCHANGED vars
  BY <1>7, QuietKeeps DEF vars
<1> QED
  BY <1>1, <1>2, <1>3, <1>4, <1>5, <1>6, <1>7, WindowKeeps, MainKeeps DEF Next, AtRest

LEMMA IInvHolds == Spec => []IInv
<1>1. Init => IInv
  <2> SUFFICES ASSUME Init PROVE IInv
    OBVIOUS
  <2>1. \A t \in Threads : at[t] \notin {"push", "got"} /\ held[t] = <<>>
    BY DEF Init
  <2>2. plugins = <<>> /\ ToSet(<<>>) = {}
    BY DEF Init, ToSet
  <2> QED
    BY <2>1, <2>2, TypeInit DEF IInv, CopiesLive, Handled
<1>2. IInv /\ [Next]_vars => IInv'
  BY TypeStep, AliveStep DEF IInv
<1> QED
  BY <1>1, <1>2, PTL DEF Spec

(* Every variable of PluginRegistry keeps its type. *)
THEOREM TypeCorrect == Spec => []TypeOK
<1>1. IInv => TypeOK
  BY DEF IInv
<1> QED
  BY <1>1, IInvHolds, PTL

-----------------------------------------------------------------------------
(* The callbacks of the session's threads.                                 *)

(* A thread that runs a callback is joined before the copy it was started  *)
(* from is let go.                                                         *)
CallingHeld ==
  \A w \in Workers : calling[w] # {} => at[w] = "call" /\ calling[w] \subseteq ToSet(held[w])

(* Steps that leave the threads of the session alone. *)
LEMMA CallingStays ==
  ASSUME CallingHeld, UNCHANGED calling,
         \A w \in Workers : at[w] = "call" => at'[w] = at[w] /\ held'[w] = held[w]
  PROVE  CallingHeld'
  BY DEF CallingHeld

LEMMA DropCalls ==
  ASSUME TypeOK, CallingHeld, NEW t \in Threads, Drop(t)
  PROVE  CallingHeld'
<1>1. at[t] = "leave" /\ held' = [held EXCEPT ![t] = Tail(@)] /\ UNCHANGED <<at, calling>>
  BY DEF Drop
<1>2. \A w \in Workers : at[w] = "call" => held'[w] = held[w]
  BY <1>1, ConstantsTyped DEF TypeOK
<1> QED
  BY <1>1, <1>2, CallingStays

LEMMA WorkerCalls ==
  ASSUME TypeOK, CallingHeld, NEW w \in Workers, WorkerStep(w)
  PROVE  CallingHeld'
<1> USE ConstantsTyped
<1>1. CASE WorkerCopies(w)
  <2>1. /\ at' = [at EXCEPT ![w] = "call"] /\ held' = [held EXCEPT ![w] = plugins]
        /\ calling' = [calling EXCEPT ![w] = ToSet(plugins)]
    BY <1>1 DEF WorkerCopies, Copy, Go
  <2>2. at'[w] = "call" /\ held'[w] = plugins /\ calling'[w] = ToSet(plugins)
    BY <2>1 DEF TypeOK
  <2>3. \A v \in Workers \ {w} : at'[v] = at[v] /\ held'[v] = held[v] /\ calling'[v] = calling[v]
    BY <2>1 DEF TypeOK
  <2> QED
    BY <2>2, <2>3 DEF CallingHeld
<1>2. CASE WorkerJoins(w)
  <2>1. /\ at' = [at EXCEPT ![w] = "leave"] /\ calling' = [calling EXCEPT ![w] = {}] /\ UNCHANGED held
    BY <1>2 DEF WorkerJoins, Go
  <2>2. calling'[w] = {}
    BY <2>1 DEF TypeOK
  <2>3. \A v \in Workers \ {w} : at'[v] = at[v] /\ calling'[v] = calling[v]
    BY <2>1 DEF TypeOK
  <2> QED
    BY <2>1, <2>2, <2>3 DEF CallingHeld
<1>3. CASE Drop(w)
  BY <1>3, DropCalls
<1>4. CASE WorkerEnds(w)
  <2>1. at[w] = "leave" /\ at' = [at EXCEPT ![w] = "none"] /\ UNCHANGED <<held, calling>>
    BY <1>4 DEF WorkerEnds, Dropped, Go
  <2>2. \A v \in Workers : at[v] = "call" => at'[v] = at[v]
    BY <2>1 DEF TypeOK
  <2> QED
    BY <2>1, <2>2, CallingStays
<1> QED
  BY <1>1, <1>2, <1>3, <1>4 DEF WorkerStep

(* Main and the window move themselves, and start threads that are over. *)
LEMMA OthersCall ==
  ASSUME TypeOK, CallingHeld, UNCHANGED calling,
         \A u \in Workers : held'[u] = held[u],
         \/ UNCHANGED at
         \/ \E t \in {Main, Window} : \E to : at' = [at EXCEPT ![t] = to]
         \/ \E t \in {Main, Window} : \E to, there : at' = [at EXCEPT ![t] = to, ![Window] = there]
         \/ at["cycle"] = "none" /\ at' = [at EXCEPT ![Main] = "loop", !["cycle"] = "start"]
         \/ at["broadcast"] = "none" /\ at' = [at EXCEPT !["broadcast"] = "start"]
  PROVE  CallingHeld'
<1>1. \A w \in Workers : at[w] = "call" => at'[w] = at[w]
  BY ConstantsTyped DEF TypeOK
<1> QED
  BY <1>1, CallingStays

LEMMA LoadCalls ==
  ASSUME TypeOK, CallingHeld, NEW t \in {Main, Window}, LoadStep(t)
  PROVE  CallingHeld'
<1>1. UNCHANGED <<held, calling>> /\ (UNCHANGED at \/ \E to : at' = [at EXCEPT ![t] = to])
  BY DEF LoadStep, Push, Back, Discard, Go
<1> QED
  BY <1>1, OthersCall

LEMMA WindowCalls ==
  ASSUME TypeOK, CallingHeld, WindowStep
  PROVE  CallingHeld'
<1> USE ConstantsTyped
<1>1. CASE WindowFails \/ WindowDraws \/ WindowCloses \/ FramePasses \/ FrameQuits \/ FrameEnds
  <2>1. UNCHANGED <<held, calling>> /\ \E to : at' = [at EXCEPT ![Window] = to]
    BY <1>1 DEF WindowFails, WindowDraws, WindowCloses, FramePasses, FrameQuits, FrameEnds, Dropped, Go
  <2> QED
    BY <2>1, OthersCall
<1>2. CASE FrameCopies
  <2>1. /\ at' = [at EXCEPT ![Window] = "frame"] /\ held' = [held EXCEPT ![Window] = plugins]
        /\ UNCHANGED calling
    BY <1>2 DEF FrameCopies, Copy, Go
  <2>2. \A w \in Workers : held'[w] = held[w]
    BY <2>1 DEF TypeOK
  <2> QED
    BY <2>1, <2>2, OthersCall
<1>3. CASE FrameUnloads
  <2>1. UNCHANGED <<held, calling>> /\ at' = [at EXCEPT ![Window] = "leave"]
    BY <1>3 DEF FrameUnloads, Go, Unload
  <2> QED
    BY <2>1, OthersCall
<1>4. CASE FrameLoads
  <2>1. UNCHANGED <<held, calling>> /\ \E there : at' = [at EXCEPT ![Window] = "push", ![Window] = there]
    BY <1>4 DEF FrameLoads, Construct
  <2> QED
    BY <2>1, OthersCall
<1>5. CASE LoadThrows(Window)
  BY <1>5, OthersCall DEF LoadThrows
<1>6. CASE LoadStep(Window)
  BY <1>6, LoadCalls
<1>7. CASE Drop(Window)
  BY <1>7, DropCalls
<1> QED
  BY <1>1, <1>2, <1>3, <1>4, <1>5, <1>6, <1>7 DEF WindowStep, FrameStep

LEMMA MainCalls ==
  ASSUME TypeOK, CallingHeld, MainStep
  PROVE  CallingHeld'
<1> USE ConstantsTyped
<1>1. CASE MainLoads
  <2>1. UNCHANGED <<held, calling>> /\ \E there : at' = [at EXCEPT ![Main] = "push", ![Window] = there]
    BY <1>1 DEF MainLoads, Construct
  <2> QED
    BY <2>1, OthersCall
<1>2. CASE \/ MainFailsToLoad \/ MainHasLoaded \/ MainContinues \/ MainUnloads \/ MainHasUnloaded
           \/ MainLeaves \/ MainDestroysList \/ MainReturns
  <2>1. UNCHANGED <<held, calling>> /\ \E to : at' = [at EXCEPT ![Main] = to]
    BY <1>2 DEF MainFailsToLoad, MainHasLoaded, MainContinues, MainUnloads, MainHasUnloaded,
                MainLeaves, MainDestroysList, MainReturns, Dropped, Go, Unload
  <2> QED
    BY <2>1, OthersCall
<1>3. CASE LoadThrows(Main)
  BY <1>3, OthersCall DEF LoadThrows
<1>4. CASE LoadStep(Main)
  BY <1>4, LoadCalls
<1>5. CASE MainSpawns
  <2>1. /\ at["cycle"] = "none" /\ at' = [at EXCEPT ![Main] = "loop", !["cycle"] = "start"]
        /\ UNCHANGED <<held, calling>>
    BY <1>5 DEF MainSpawns, Idle
  <2> QED
    BY <2>1, OthersCall
<1>6. CASE MainCopies
  <2>1. /\ at' = [at EXCEPT ![Main] = "unload"] /\ held' = [held EXCEPT ![Main] = plugins]
        /\ UNCHANGED calling
    BY <1>6 DEF MainCopies, Copy, Go
  <2>2. \A w \in Workers : held'[w] = held[w]
    BY <2>1 DEF TypeOK
  <2> QED
    BY <2>1, <2>2, OthersCall
<1>7. CASE Drop(Main)
  BY <1>7, DropCalls
<1> QED
  BY <1>1, <1>2, <1>3, <1>4, <1>5, <1>6, <1>7 DEF MainStep

LEMMA CallsStep ==
  ASSUME TypeOK, CallingHeld, [Next]_vars
  PROVE  CallingHeld'
<1>1. ASSUME NEW p \in Plugins, Destroy(p) PROVE CallingHeld'
  BY <1>1, OthersCall DEF Destroy
<1>2. ASSUME NEW w \in Workers, WorkerStep(w) PROVE CallingHeld'
  BY <1>2, WorkerCalls
<1>3. ASSUME NEW p \in Loops, LoopBegins(p) \/ LoopStops(p) PROVE CallingHeld'
  BY <1>3, OthersCall DEF LoopBegins, LoopStops
<1>4. ASSUME NEW p \in Loops, LoopCalls(p) PROVE CallingHeld'
  BY <1>4, OthersCall DEF LoopCalls, Idle
<1>5. CASE Interrupt
  BY <1>5, OthersCall DEF Interrupt, Go
<1>6. ASSUME NEW t \in {Main, Window}, FinishStep(t) PROVE CallingHeld'
  BY <1>6, OthersCall DEF FinishStep, FinishJoins, FinishReturns, Go
<1>7. CASE UNCHANGED vars
  BY <1>7, OthersCall DEF vars
<1> QED
  BY <1>1, <1>2, <1>3, <1>4, <1>5, <1>6, <1>7, WindowCalls, MainCalls DEF Next, AtRest

(* No destructor of a plugin begins while a thread that aggregate_data or  *)
(* broadcast started runs a callback of it: the copy of the list keeps it  *)
(* alive, until after the callbacks' threads were joined.                  *)
THEOREM CalledAlive == Spec => []CalledWhileAlive
<1>1. Init => CallingHeld
  BY DEF Init, CallingHeld
<1>2. IInv /\ CallingHeld /\ [Next]_vars => CallingHeld'
  BY CallsStep DEF IInv
<1>3. IInv /\ CallingHeld => CalledWhileAlive
  <2> SUFFICES ASSUME IInv, CallingHeld, NEW w \in Workers, NEW p \in calling[w]
               PROVE  life[p] = "alive"
    BY DEF CalledWhileAlive
  <2>1. p \in ToSet(held[w]) /\ w \in Threads
    BY ConstantsTyped DEF CallingHeld
  <2>2. p \in Plugins
    BY <2>1 DEF IInv, TypeOK, ToSet
  <2> QED
    BY <2>1, <2>2 DEF IInv, CopiesLive
<1> QED
  BY <1>1, <1>2, <1>3, IInvHolds, PTL DEF Spec

-----------------------------------------------------------------------------
(* No destructor runs under plugin_lock.                                   *)

(* The session is being destroyed. *)
Ending == at[Main] \in {"unload", "leave", "members", "gone"}

(* The window may still change the list in this frame. *)
Framing == at[Window] \in {"draw", "frame", "push"}

(* While the session is destroyed, the list is what main still has to      *)
(* unload as long as the window has not pressed a button; the window does  *)
(* so once at most, and takes a plugin out or appends one.                 *)
KnownToMain ==
  /\ Ending => exiting
  /\ Ending /\ Framing => plugins = todo
  /\ at[Main] \in {"leave", "members", "gone"} => todo = <<>>
  /\ at[Main] = "unload" =>
       /\ ToSet(todo) \subseteq ToSet(held[Main])
       /\ \/ ToSet(plugins) \subseteq ToSet(held[Main])
          \/ \E p \in Plugins : plugins = Append(todo, p)

(* Before, the list only grows while the window walks its copy. *)
KnownToWindow ==
  at[Window] = "frame" /\ ~Ending =>
    /\ Len(held[Window]) <= Len(plugins)
    /\ \A i \in 1..Len(held[Window]) : plugins[i] = held[Window][i]

KInv == KnownToMain /\ KnownToWindow /\ DestroyedOutsideLock

LEMMA RemoveHead ==
  ASSUME NEW S, NEW s \in Seq(S), s # <<>>
  PROVE  RemoveAt(s, 1) = Tail(s)
<1>1. SubSeq(s, 1, 0) = <<>> /\ SubSeq(s, 2, Len(s)) = Tail(s) /\ Tail(s) \in Seq(S)
  OBVIOUS
<1>2. RemoveAt(s, 1) = SubSeq(s, 1, 0) \o SubSeq(s, 2, Len(s))
  BY DEF RemoveAt
<1> QED
  BY <1>1, <1>2

LEMMA TailOfAppend ==
  ASSUME NEW S, NEW s \in Seq(S), s # <<>>, NEW e \in S
  PROVE  Append(s, e) \in Seq(S) /\ Append(s, e) # <<>> /\ Tail(Append(s, e)) = Append(Tail(s), e)
<1>1. Len(s) \in Nat /\ Len(s) >= 1 /\ Append(s, e) \in Seq(S) /\ Len(Append(s, e)) = Len(s) + 1
  OBVIOUS
<1> QED
  BY <1>1

(* The first of the list is the first of its name. *)
LEMMA FirstIsFound ==
  ASSUME NEW i \in Find(Name[plugins[1]]), plugins \in Seq(Plugins)
  PROVE  i = 1
<1>1. i \in 1..Len(plugins) /\ \A j \in 1..i - 1 : Name[plugins[j]] # Name[plugins[1]]
  BY DEF Find
<1>2. CASE i > 1
  <2>1. 1 \in 1..i - 1
    BY <1>1, <1>2
  <2> QED
    BY <1>1, <2>1
<1> QED
  BY <1>1, <1>2

(* What is unloaded is in somebody's copy: nothing is destroyed. *)
LEMMA UnloadsHeld ==
  ASSUME TypeOK, DestroyedOutsideLock, NEW t \in Threads, Free(t), NEW name, Unload(t, name),
         UNCHANGED held,
         \A i \in Find(name) : \E u \in Threads : plugins[i] \in ToSet(held[u])
  PROVE  DestroyedOutsideLock' /\ UNCHANGED <<life, by>>
<1>1. CASE UNCHANGED <<plugins, lifeVars>>
  BY <1>1 DEF lifeVars, DestroyedOutsideLock
<1>2. ASSUME NEW i \in Find(name), LetGo(t, plugins[i]),
             lock' = IF by'[plugins[i]] = t THEN t ELSE None
      PROVE  DestroyedOutsideLock' /\ UNCHANGED <<life, by>>
  <2>1. plugins[i] \in Plugins
    BY DEF TypeOK, Find
  <2>2. \E u \in Threads : plugins[i] \in ToSet(held'[u])
    BY <1>2
  <2>3. UNCHANGED <<life, by>>
    BY <1>2, <2>2 DEF LetGo, Referenced
  <2>4. by'[plugins[i]] # t
    BY <2>1, <2>3 DEF Free
  <2> QED
    BY <1>2, <2>3, <2>4 DEF DestroyedOutsideLock
<1> QED
  BY <1>1, <1>2 DEF Unload

(* Steps that leave the list, main's copy and main's place alone while the *)
(* session is destroyed, and begin no frame then.                          *)
LEMMA KnownStays ==
  ASSUME KnownToMain, KnownToWindow, UNCHANGED <<plugins, todo>>,
         exiting => exiting',
         held'[Main] = held[Main],
         Ending' => at'[Main] = at[Main], Ending => Ending',
         Framing' => Framing \/ ~Ending,
         at'[Window] = "frame" => at[Window] = "frame" /\ held'[Window] = held[Window]
  PROVE  KnownToMain' /\ KnownToWindow'
<1>1. Ending' => Ending
  BY DEF Ending
<1>2. KnownToMain'
  BY <1>1 DEF KnownToMain, Ending
<1>3. KnownToWindow'
  BY DEF KnownToWindow
<1> QED
  BY <1>2, <1>3

(* The window moves on, and does not begin a frame in the end. *)
LEMMA WindowMoves ==
  ASSUME KInv, TypeOK, UNCHANGED <<plugins, todo, held, lock>>, exiting => exiting',
         NEW to, at' = [at EXCEPT ![Window] = to], to # "frame",
         to \in {"draw", "push"} => at[Window] \in {"draw", "frame", "push"} \/ ~exiting
  PROVE  KInv'
<1>1. at'[Main] = at[Main] /\ at'[Window] = to
  BY ConstantsTyped DEF TypeOK
<1>2. Ending <=> Ending'
  BY <1>1 DEF Ending
<1>3. Framing' => Framing \/ ~Ending
  BY <1>1 DEF Framing, KInv, KnownToMain
<1> QED
  BY <1>1, <1>2, <1>3, KnownStays DEF KInv, DestroyedOutsideLock

(* Main moves on, but not to or in the end of the session. *)
LEMMA MainMoves ==
  ASSUME KInv, TypeOK, UNCHANGED <<plugins, held, lock>>, exiting => exiting',
         at[Main] \in {"load", "push", "back", "got", "loop", "join", "finish"},
         at'[Main] \in {"load", "push", "back", "got", "loop", "join", "finish"},
         at'[Window] \in {at[Window], "open"}
  PROVE  KInv'
  BY DEF KInv, KnownToMain, KnownToWindow, Ending, Framing, DestroyedOutsideLock

(* The list gets one more plugin, of main or of the window. *)
LEMMA PushKnown ==
  ASSUME KInv, TypeOK, Handled, NEW t \in {Main, Window}, Push(t)
  PROVE  KInv'
<1>1. /\ at[t] = "push" /\ at' = [at EXCEPT ![t] = "back"] /\ plugins' = Append(plugins, got[t])
      /\ UNCHANGED <<exiting, lock, held, todo>>
  BY DEF Push, Go, lifeVars
<1>2. t \in Threads /\ got[t] \in Plugins /\ plugins \in Seq(Plugins)
  BY <1>1, ConstantsTyped DEF Handled, TypeOK
<1>3. DestroyedOutsideLock'
  BY <1>1 DEF KInv, DestroyedOutsideLock
<1>4. Len(plugins') = Len(plugins) + 1 /\ \A i \in 1..Len(plugins) : plugins'[i] = plugins[i]
  BY <1>1, <1>2
<1>5. CASE t = Main
  <2>1. at'[Main] = "back" /\ at'[Window] = at[Window]
    BY <1>1, <1>2, <1>5, ConstantsTyped DEF TypeOK
  <2>2. KnownToMain'
    BY <2>1 DEF KnownToMain, Ending
  <2>3. ~Ending
    BY <1>1, <1>5 DEF Ending
  <2>4. KnownToWindow'
    <3>1. held[Window] \in Seq(Plugins)
      BY ConstantsTyped DEF TypeOK
    <3>2. SUFFICES ASSUME at[Window] = "frame"
                   PROVE  /\ Len(held[Window]) <= Len(plugins')
                          /\ \A i \in 1..Len(held[Window]) : plugins'[i] = held[Window][i]
      BY <1>1, <2>1 DEF KnownToWindow
    <3>3. Len(held[Window]) <= Len(plugins) /\ \A i \in 1..Len(held[Window]) : plugins[i] = held[Window][i]
      BY <2>3, <3>2 DEF KInv, KnownToWindow
    <3>4. Len(held[Window]) \in Nat /\ Len(plugins) \in Nat
      BY <1>2, <3>1
    <3> QED
      BY <1>4, <3>3, <3>4
  <2> QED
    BY <1>3, <2>2, <2>4 DEF KInv
<1>6. CASE t = Window
  <2>1. at'[Window] = "back" /\ at'[Main] = at[Main]
    BY <1>1, <1>2, <1>6, ConstantsTyped DEF TypeOK
  <2>2. KnownToWindow' /\ ~Framing'
    BY <2>1 DEF KnownToWindow, Framing
  <2>3. Framing
    BY <1>1, <1>6 DEF Framing
  <2>4. Ending => plugins' = Append(todo, got[t])
    BY <1>1, <2>3 DEF KInv, KnownToMain
  <2>5. KnownToMain'
    BY <1>1, <1>2, <2>1, <2>2, <2>4 DEF KInv, KnownToMain, Ending
  <2> QED
    BY <1>3, <2>2, <2>5 DEF KInv
<1> QED
  BY <1>5, <1>6

LEMMA LoadKnown ==
  ASSUME KInv, TypeOK, Handled, NEW t \in {Main, Window}, LoadStep(t)
  PROVE  KInv'
<1>1. CASE Push(t)
  BY <1>1, PushKnown
<1>2. CASE Back(t) \/ Discard(t)
  <2>1. /\ UNCHANGED <<exiting, plugins, lock, held, todo>>
        /\ \/ UNCHANGED at
           \/ at[t] = "back" /\ at' = [at EXCEPT ![t] = "got"]
           \/ at[t] = "got" /\ at' = [at EXCEPT ![t] = IF t = Main THEN "load" ELSE "leave"]
    BY <1>2 DEF Back, Discard, Go, lifeVars
  <2>2. CASE UNCHANGED at
    BY <2>1, <2>2, KnownStays DEF KInv, DestroyedOutsideLock, Ending, Framing
  <2>3. CASE t = Main /\ ~UNCHANGED at
    <3>1. /\ at[Main] \in {"back", "got"} /\ at'[Main] \in {"got", "load"}
          /\ at'[Window] = at[Window]
      BY <2>1, <2>3, ConstantsTyped DEF TypeOK
    <3> QED
      BY <2>1, <3>1, MainMoves
  <2>4. CASE t = Window /\ ~UNCHANGED at
    <3>1. \E to \in {"got", "leave"} : at' = [at EXCEPT ![Window] = to]
      BY <2>1, <2>4, ConstantsTyped
    <3> QED
      BY <2>1, <3>1, WindowMoves
  <2> QED
    BY <2>2, <2>3, <2>4
<1> QED
  BY <1>1, <1>2 DEF LoadStep

(* A copy is let go: of the window after its frame, of main at the end. *)
LEMMA DropKnown ==
  ASSUME KInv, TypeOK, NEW t \in Threads, Drop(t)
  PROVE  KInv'
<1>1. /\ at[t] = "leave" /\ held' = [held EXCEPT ![t] = Tail(@)]
      /\ UNCHANGED <<exiting, plugins, lock, at, todo>>
  BY DEF Drop
<1>2. \A u \in Threads : u # t => held'[u] = held[u]
  BY <1>1 DEF TypeOK
<1>3. KnownToMain'
  BY <1>1, <1>2, ConstantsTyped DEF KInv, KnownToMain, Ending, Framing
<1>4. KnownToWindow'
  BY <1>1, <1>2, ConstantsTyped DEF KInv, KnownToWindow, Ending
<1> QED
  BY <1>1, <1>3, <1>4 DEF KInv, DestroyedOutsideLock

LEMMA UnloadShrinks ==
  ASSUME TypeOK, NEW t \in Threads, NEW name, Unload(t, name)
  PROVE  ToSet(plugins') \subseteq ToSet(plugins) /\ UNCHANGED exiting
<1>1. ASSUME NEW i \in Find(name), plugins' = RemoveAt(plugins, i)
      PROVE  ToSet(plugins') \subseteq ToSet(plugins)
  BY <1>1, RemoveAtIsSubset DEF Find, TypeOK
<1> QED
  BY <1>1 DEF Unload

(* The window unloads what is in its copy, or in that of main. *)
LEMMA FrameUnloadsKnown ==
  ASSUME KInv, TypeOK, FrameUnloads
  PROVE  KInv'
<1> USE ConstantsTyped
<1>1. /\ at[Window] = "frame" /\ Free(Window) /\ at' = [at EXCEPT ![Window] = "leave"]
      /\ UNCHANGED <<held, todo>>
  BY DEF FrameUnloads, Go
<1>2. PICK p \in ToSet(held[Window]) : Unload(Window, Name[p])
  BY DEF FrameUnloads
<1>3. plugins \in Seq(Plugins) /\ held[Window] \in Seq(Plugins) /\ held[Main] \in Seq(Plugins)
  BY DEF TypeOK
<1>4. ASSUME NEW i \in Find(Name[p]) PROVE \E u \in Threads : plugins[i] \in ToSet(held[u])
  <2>1. i \in 1..Len(plugins) /\ \A j \in 1..i - 1 : Name[plugins[j]] # Name[p]
    BY DEF Find
  <2>2. plugins[i] \in ToSet(plugins)
    BY <1>3, <2>1 DEF ToSet
  <2>3. CASE Ending
    <3>1. plugins = todo
      BY <1>1, <2>3 DEF KInv, KnownToMain, Framing
    <3>2. plugins # <<>>
      BY <1>3, <2>1
    <3>3. at[Main] = "unload"
      BY <2>3, <3>1, <3>2 DEF KInv, KnownToMain, Ending
    <3>4. plugins[i] \in ToSet(held[Main])
      BY <2>2, <3>1, <3>3 DEF KInv, KnownToMain
    <3> QED
      BY <3>4
  <2>4. CASE ~Ending
    <3>1. Len(held[Window]) <= Len(plugins) /\ \A k \in 1..Len(held[Window]) : plugins[k] = held[Window][k]
      BY <1>1, <2>4 DEF KInv, KnownToWindow
    <3>2. PICK k \in 1..Len(held[Window]) : p = held[Window][k]
      BY <1>3 DEF ToSet
    <3>3. plugins[k] = p /\ k \in Nat /\ i \in Nat
      BY <1>3, <2>1, <3>1, <3>2
    <3>4. ~(k \in 1..i - 1)
      BY <2>1, <3>3
    <3>5. i \in 1..Len(held[Window])
      BY <1>3, <2>1, <3>2, <3>3, <3>4
    <3>6. plugins[i] \in ToSet(held[Window])
      BY <1>3, <3>1, <3>5 DEF ToSet
    <3> QED
      BY <3>6
  <2> QED
    BY <2>3, <2>4
<1>5. DestroyedOutsideLock'
  BY <1>1, <1>2, <1>4, UnloadsHeld DEF KInv
<1>6. ToSet(plugins') \subseteq ToSet(plugins) /\ UNCHANGED exiting
  BY <1>2, UnloadShrinks
<1>7. at'[Window] = "leave" /\ at'[Main] = at[Main]
  BY <1>1 DEF TypeOK
<1>8. at[Main] = "unload" => ToSet(plugins) \subseteq ToSet(held[Main])
  BY <1>1 DEF KInv, KnownToMain, Framing, Ending
<1>9. KnownToMain'
  BY <1>1, <1>6, <1>7, <1>8 DEF KInv, KnownToMain, Framing, Ending
<1>10. KnownToWindow'
  BY <1>7 DEF KnownToWindow
<1> QED
  BY <1>5, <1>9, <1>10 DEF KInv

(* Main unloads by name what it has a copy of: the first in the list. *)
LEMMA MainUnloadsKnown ==
  ASSUME KInv, TypeOK, MainUnloads
  PROVE  KInv'
<1> USE ConstantsTyped
<1>1. /\ todo # <<>> /\ todo' = Tail(todo) /\ at[Main] = "unload" /\ Free(Main)
      /\ at' = [at EXCEPT ![Main] = "unload"] /\ UNCHANGED held
      /\ Unload(Main, Name[Head(todo)])
  BY DEF MainUnloads, Go
<1>2. at' = at
  BY <1>1 DEF TypeOK
<1>3. /\ plugins \in Seq(Plugins) /\ todo \in Seq(Plugins)
      /\ Head(todo) \in ToSet(todo) /\ ToSet(Tail(todo)) \subseteq ToSet(todo)
      /\ ToSet(todo) \subseteq ToSet(held[Main])
  BY <1>1, TailIsSubset DEF TypeOK, KInv, KnownToMain
<1>4. ToSet(plugins') \subseteq ToSet(plugins) /\ UNCHANGED exiting
  BY <1>1, UnloadShrinks
<1>5. ASSUME plugins # <<>>, plugins[1] = Head(todo)
      PROVE  plugins' = RemoveAt(plugins, 1) /\ \A i \in Find(Name[Head(todo)]) : i = 1
  <2>1. \A i \in Find(Name[Head(todo)]) : i = 1
    BY <1>3, <1>5, FirstIsFound
  <2>2. 1 \in 1..Len(plugins) /\ 1..1 - 1 = {}
    BY <1>3, <1>5
  <2>3. 1 \in Find(Name[Head(todo)])
    BY <1>5, <2>2 DEF Find
  <2> QED
    BY <1>1, <2>1, <2>3 DEF Unload
<1>6. plugins = todo => plugins' = Tail(todo) /\ \A i \in Find(Name[Head(todo)]) : plugins[i] = Head(todo)
  <2> SUFFICES ASSUME plugins = todo
               PROVE  plugins' = Tail(todo) /\ \A i \in Find(Name[Head(todo)]) : plugins[i] = Head(todo)
    OBVIOUS
  <2>1. plugins[1] = Head(todo)
    BY <1>1, <1>3
  <2> QED
    BY <1>1, <1>3, <1>5, <2>1, RemoveHead
<1>7. ASSUME NEW p \in Plugins, plugins = Append(todo, p)
      PROVE  plugins' = Append(Tail(todo), p) /\ \A i \in Find(Name[Head(todo)]) : plugins[i] = Head(todo)
  <2>1. plugins # <<>> /\ Tail(plugins) = Append(Tail(todo), p)
    BY <1>1, <1>3, <1>7, TailOfAppend
  <2>2. plugins[1] = Head(todo)
    BY <1>1, <1>3, <1>7
  <2> QED
    BY <1>3, <1>5, <2>1, <2>2, RemoveHead
<1>8. ASSUME NEW i \in Find(Name[Head(todo)]) PROVE plugins[i] \in ToSet(held[Main])
  <2>1. plugins[i] \in ToSet(plugins)
    BY <1>3 DEF Find, ToSet
  <2> QED
    BY <1>1, <1>3, <1>7, <2>1 DEF KInv, KnownToMain
<1>9. DestroyedOutsideLock'
  BY <1>1, <1>8, UnloadsHeld DEF KInv
<1>10. KnownToMain'
  <2>1. Ending' /\ Framing' => plugins' = todo'
    BY <1>1, <1>2, <1>6 DEF KInv, KnownToMain, Framing, Ending
  <2>2. ToSet(plugins') \subseteq ToSet(held'[Main]) \/ \E p \in Plugins : plugins' = Append(todo', p)
    BY <1>1, <1>4, <1>7 DEF KInv, KnownToMain
  <2>3. exiting'
    BY <1>1, <1>4 DEF KInv, KnownToMain, Ending
  <2> QED
    BY <1>1, <1>2, <1>3, <2>1, <2>2, <2>3 DEF KnownToMain
<1>11. KnownToWindow'
  BY <1>1, <1>2 DEF KnownToWindow, Ending
<1> QED
  BY <1>9, <1>10, <1>11 DEF KInv

LEMMA ThrowKnown ==
  ASSUME KInv, NEW t, LoadThrows(t)
  PROVE  KInv'
  BY KnownStays DEF LoadThrows, lifeVars, KInv, DestroyedOutsideLock, Ending, Framing

LEMMA WindowKnown ==
  ASSUME KInv, TypeOK, Handled, WindowStep
  PROVE  KInv'
<1> USE ConstantsTyped
<1>1. CASE WindowFails
  BY <1>1, WindowMoves DEF WindowFails, Go, lifeVars
<1>2. CASE WindowDraws
  BY <1>2, WindowMoves DEF WindowDraws, Go, lifeVars
<1>3. CASE WindowCloses
  BY <1>3, WindowMoves DEF WindowCloses, Go, lifeVars
<1>4. CASE FrameCopies
  <2>1. /\ at[Window] = "draw" /\ at' = [at EXCEPT ![Window] = "frame"]
        /\ held' = [held EXCEPT ![Window] = plugins] /\ UNCHANGED <<exiting, plugins, lock, todo>>
    BY <1>4 DEF FrameCopies, Copy, Go, lifeVars
  <2>2. at'[Main] = at[Main] /\ held'[Main] = held[Main] /\ held'[Window] = plugins
    BY <2>1 DEF TypeOK
  <2>3. KnownToMain'
    BY <2>1, <2>2 DEF KInv, KnownToMain, Ending, Framing
  <2>4. KnownToWindow'
    <3>1. Len(plugins) \in Nat
      BY DEF TypeOK
    <3> QED
      BY <2>1, <2>2, <3>1 DEF KnownToWindow
  <2> QED
    BY <2>1, <2>3, <2>4 DEF KInv, DestroyedOutsideLock
<1>5. CASE FramePasses
  BY <1>5, WindowMoves DEF FramePasses, Go, lifeVars
<1>6. CASE FrameUnloads
  BY <1>6, FrameUnloadsKnown
<1>7. CASE FrameLoads
  <2>1. PICK p \in Offered : Construct(Window, p)
    BY <1>7 DEF FrameLoads
  <2>2. at[Window] = "frame" /\ UNCHANGED <<exiting, plugins, lock, held, todo>>
    BY <1>7 DEF FrameLoads
  <2>3. p # Gui
    BY RegistryAssumption
  <2>4. at' = [at EXCEPT ![Window] = "push", ![Window] = IF p = Gui THEN "open" ELSE @]
    BY <2>1 DEF Construct
  <2>5. at'[Window] = "push" /\ at'[Main] = at[Main]
    BY <2>3, <2>4 DEF TypeOK
  <2>6. KnownToMain' /\ KnownToWindow'
    BY <2>2, <2>5, KnownStays DEF KInv, Ending, Framing
  <2> QED
    BY <2>2, <2>6 DEF KInv, DestroyedOutsideLock
<1>8. CASE FrameQuits
  <2>1. /\ \E to \in {"leave", "finish"} : at' = [at EXCEPT ![Window] = to]
        /\ exiting' /\ UNCHANGED <<plugins, lock, held, todo>>
    BY <1>8 DEF FrameQuits, Go, lifeVars
  <2> QED
    BY <2>1, WindowMoves
<1>9. CASE LoadStep(Window)
  BY <1>9, LoadKnown
<1>10. CASE Drop(Window)
  BY <1>10, DropKnown
<1>11. CASE FrameEnds
  BY <1>11, WindowMoves DEF FrameEnds, Dropped, Go, lifeVars
<1>12. CASE LoadThrows(Window)
  BY <1>12, ThrowKnown
<1> QED
  BY <1>1, <1>2, <1>3, <1>4, <1>5, <1>6, <1>7, <1>8, <1>9, <1>10, <1>11, <1>12 DEF WindowStep, FrameStep

LEMMA MainKnown ==
  ASSUME KInv, TypeOK, Handled, MainStep
  PROVE  KInv'
<1> USE ConstantsTyped
<1>1. CASE MainLoads
  <2>1. at[Main] = "load" /\ Construct(Main, Head(todo)) /\ UNCHANGED <<exiting, plugins, lock, held>>
    BY <1>1 DEF MainLoads
  <2>2. at'[Main] = "push" /\ at'[Window] \in {at[Window], "open"}
    BY <2>1 DEF Construct, TypeOK
  <2> QED
    BY <2>1, <2>2, MainMoves
<1>2. CASE MainFailsToLoad \/ MainHasLoaded \/ MainContinues
  <2>1. /\ at[Main] \in {"load", "loop"} /\ UNCHANGED <<exiting, plugins, lock, held>>
        /\ \E to \in {"load", "loop", "join"} : at' = [at EXCEPT ![Main] = to]
    BY <1>2 DEF MainFailsToLoad, MainHasLoaded, MainContinues, Go, lifeVars
  <2>2. at'[Main] \in {"load", "loop", "join"} /\ at'[Window] = at[Window]
    BY <2>1 DEF TypeOK
  <2> QED
    BY <2>1, <2>2, MainMoves
<1>3. CASE LoadStep(Main)
  BY <1>3, LoadKnown
<1>4. CASE MainSpawns
  <2>1. /\ at[Main] = "join" /\ at' = [at EXCEPT ![Main] = "loop", !["cycle"] = "start"]
        /\ UNCHANGED <<exiting, plugins, lock, held>>
    BY <1>4 DEF MainSpawns, lifeVars
  <2>2. "cycle" \in Threads /\ Main # "cycle" /\ Window # "cycle"
    BY DEF Workers
  <2>3. at'[Main] = "loop" /\ at'[Window] = at[Window]
    BY <2>1, <2>2 DEF TypeOK
  <2> QED
    BY <2>1, <2>3, MainMoves
<1>5. CASE MainCopies
  <2>1. /\ exiting /\ at[Main] = "loop" /\ at' = [at EXCEPT ![Main] = "unload"] /\ todo' = plugins
        /\ held' = [held EXCEPT ![Main] = plugins] /\ UNCHANGED <<exiting, plugins, lock>>
    BY <1>5 DEF MainCopies, Copy, Go, lifeVars
  <2>2. at'[Main] = "unload" /\ held'[Main] = plugins
    BY <2>1 DEF TypeOK
  <2> QED
    BY <2>1, <2>2 DEF KInv, KnownToMain, KnownToWindow, Ending, Framing, DestroyedOutsideLock
<1>6. CASE MainUnloads
  BY <1>6, MainUnloadsKnown
<1>7. CASE MainHasUnloaded \/ MainLeaves \/ MainReturns
  <2>1. /\ UNCHANGED <<exiting, plugins, lock, held, todo>> /\ at[Main] \in {"unload", "leave", "members"}
        /\ (at[Main] = "unload" => todo = <<>>)
        /\ \E to \in {"leave", "members", "gone"} : at' = [at EXCEPT ![Main] = to]
    BY <1>7 DEF MainHasUnloaded, MainLeaves, MainReturns, Dropped, Go, lifeVars
  <2>2. at'[Main] \in {"leave", "members", "gone"} /\ at'[Window] = at[Window]
    BY <2>1 DEF TypeOK
  <2>3. KnownToMain'
    BY <2>1, <2>2 DEF KInv, KnownToMain, Ending, Framing
  <2>4. KnownToWindow'
    BY <2>2 DEF KnownToWindow, Ending
  <2> QED
    BY <2>1, <2>3, <2>4 DEF KInv, DestroyedOutsideLock
<1>8. CASE Drop(Main)
  BY <1>8, DropKnown
<1>9. CASE MainDestroysList
  <2>1. /\ plugins # <<>> /\ at[Main] = "members" /\ at' = [at EXCEPT ![Main] = "members"]
        /\ UNCHANGED <<exiting, lock, held, todo>>
    BY <1>9 DEF MainDestroysList, Go
  <2>2. at' = at
    BY <2>1 DEF TypeOK
  <2>3. ~Framing
    BY <2>1 DEF KInv, KnownToMain, Ending
  <2> QED
    BY <2>1, <2>2, <2>3 DEF KInv, KnownToMain, KnownToWindow, Ending, Framing, DestroyedOutsideLock
<1>10. CASE LoadThrows(Main)
  BY <1>10, ThrowKnown
<1> QED
  BY <1>1, <1>2, <1>3, <1>4, <1>5, <1>6, <1>7, <1>8, <1>9, <1>10 DEF MainStep

LEMMA KnownStep ==
  ASSUME KInv, TypeOK, Handled, [Next]_vars
  PROVE  KInv'
<1> USE ConstantsTyped
<1>1. ASSUME NEW p \in Plugins, Destroy(p) PROVE KInv'
  <2>1. UNCHANGED <<exiting, plugins, at, held, todo>> /\ (lock' = lock \/ lock' = None)
    BY <1>1 DEF Destroy, lifeVars
  <2> QED
    BY <2>1, KnownStays DEF KInv, DestroyedOutsideLock, Ending, Framing
<1>2. ASSUME NEW w \in Workers, WorkerStep(w) PROVE KInv'
  <2>1. w \in Threads /\ w # Main /\ w # Window
    OBVIOUS
  <2>2. CASE WorkerCopies(w) \/ WorkerJoins(w) \/ WorkerEnds(w)
    <3>1. /\ UNCHANGED <<exiting, plugins, lock, todo>> /\ \E to : at' = [at EXCEPT ![w] = to]
          /\ (UNCHANGED held \/ held' = [held EXCEPT ![w] = plugins])
      BY <2>2 DEF WorkerCopies, WorkerJoins, WorkerEnds, Copy, Dropped, Go, lifeVars
    <3>2. at'[Main] = at[Main] /\ at'[Window] = at[Window]
          /\ held'[Main] = held[Main] /\ held'[Window] = held[Window]
      BY <2>1, <3>1 DEF TypeOK
    <3> QED
      BY <3>1, <3>2, KnownStays DEF KInv, DestroyedOutsideLock, Ending, Framing
  <2>3. CASE Drop(w)
    BY <2>1, <2>3, DropKnown
  <2> QED
    BY <1>2, <2>2, <2>3 DEF WorkerStep
<1>3. ASSUME NEW p \in Loops, LoopBegins(p) \/ LoopStops(p) \/ LoopCalls(p) PROVE KInv'
  <2>1. /\ UNCHANGED <<exiting, plugins, lock, held, todo>>
        /\ (UNCHANGED at \/ at' = [at EXCEPT !["broadcast"] = "start"])
    BY <1>3 DEF LoopBegins, LoopStops, LoopCalls, lifeVars
  <2>2. Window # "broadcast" /\ Main # "broadcast"
    BY DEF Workers
  <2>3. at'[Main] = at[Main] /\ at'[Window] = at[Window]
    BY <2>1, <2>2 DEF TypeOK
  <2> QED
    BY <2>1, <2>3, KnownStays DEF KInv, DestroyedOutsideLock, Ending, Framing
<1>4. CASE Interrupt
  <2>1. /\ UNCHANGED <<plugins, lock, held, todo>> /\ exiting' /\ at[Main] = "loop"
        /\ at' = [at EXCEPT ![Main] = "finish"]
    BY <1>4 DEF Interrupt, Go, lifeVars
  <2>2. at'[Main] = "finish" /\ at'[Window] = at[Window]
    BY <2>1 DEF TypeOK
  <2> QED
    BY <2>1, <2>2, MainMoves
<1>5. ASSUME NEW t \in {Main, Window}, FinishStep(t) PROVE KInv'
  <2>1. CASE FinishJoins(t)
    BY <2>1, KnownStays DEF FinishJoins, lifeVars, KInv, DestroyedOutsideLock, Ending, Framing
  <2>2. CASE FinishReturns(t) /\ t = Main
    <3>1. /\ UNCHANGED <<exiting, plugins, lock, held, todo>> /\ at[Main] = "finish"
          /\ at' = [at EXCEPT ![Main] = "loop"]
      BY <2>2 DEF FinishReturns, Go, lifeVars
    <3>2. at'[Main] = "loop" /\ at'[Window] = at[Window]
      BY <3>1 DEF TypeOK
    <3> QED
      BY <3>1, <3>2, MainMoves
  <2>3. CASE FinishReturns(t) /\ t = Window
    BY <2>3, WindowMoves DEF FinishReturns, Go, lifeVars
  <2> QED
    BY <1>5, <2>1, <2>2, <2>3 DEF FinishStep
<1>6. CASE UNCHANGED vars
  BY <1>6, KnownStays DEF vars, KInv, DestroyedOutsideLock, Ending, Framing
<1> QED
  BY <1>1, <1>2, <1>3, <1>4, <1>5, <1>6, WindowKnown, MainKnown DEF Next, AtRest

(* unload_plugin never runs a destructor under plugin_lock, for any names: *)
(* what it finds by its name is referred to by a copy of the list that the *)
(* window or main holds meanwhile.                                         *)
THEOREM OutsideLock == Spec => []DestroyedOutsideLock
<1>1. Init => KInv
  <2> SUFFICES ASSUME Init PROVE KInv
    OBVIOUS
  <2>1. at[Main] = "load" /\ at[Window] = "none" /\ lock = None
    BY ConstantsTyped DEF Init
  <2> QED
    BY <2>1 DEF KInv, KnownToMain, KnownToWindow, DestroyedOutsideLock, Ending, Framing
<1>2. IInv /\ KInv /\ [Next]_vars => KInv'
  BY KnownStep DEF IInv
<1>3. KInv => DestroyedOutsideLock
  BY DEF KInv
<1> QED
  BY <1>1, <1>2, <1>3, IInvHolds, PTL DEF Spec

-----------------------------------------------------------------------------
(* Nothing goes wrong with the plugins before the session is destroyed.    *)

(* The window's plugin is in the list, or about to be, from when it was    *)
(* constructed until the session is destroyed: nobody can unload it.  So   *)
(* nobody destroys it before, and load_plugin never finds an empty list.   *)
Listed ==
  /\ at[Window] # "none" => Gui \in Plugins /\ life[Gui] # "out"
  /\ ~Ending /\ Gui \in Plugins /\ life[Gui] # "out" =>
       Gui \in ToSet(plugins) \/ (at[Main] = "push" /\ got[Main] = Gui)
  /\ \A t \in {Main, Window} : ~Ending /\ at[t] = "back" => plugins # <<>>
  /\ crashed = "fault" => at[Main] \in {"unload", "leave", "members"}

LEMMA RemoveAtKeeps ==
  ASSUME NEW S, NEW s \in Seq(S), NEW i \in 1..Len(s), NEW k \in 1..Len(s), k # i
  PROVE  s[k] \in ToSet(RemoveAt(s, i)) /\ RemoveAt(s, i) # <<>>
<1>1. Len(s) \in Nat /\ i \in Nat /\ k \in Nat /\ 1 <= i /\ i <= Len(s) /\ 1 <= k /\ k <= Len(s)
  OBVIOUS
<1>2. SubSeq(s, 1, i - 1) \in Seq(S) /\ SubSeq(s, i + 1, Len(s)) \in Seq(S)
  BY <1>1
<1>3. PICK a, b \in Seq(S) : a = SubSeq(s, 1, i - 1) /\ b = SubSeq(s, i + 1, Len(s))
  BY <1>2
<1>4. RemoveAt(s, i) = a \o b
  BY <1>3 DEF RemoveAt
<1>5. Len(a) = i - 1 /\ Len(b) = Len(s) - i
  BY <1>1, <1>3
<1>6. PICK c \in Seq(S) : c = a \o b
  <2>1. a \o b \in Seq(S)
    OBVIOUS
  <2> QED
    BY <2>1
<1>7. /\ Len(c) = Len(a) + Len(b)
      /\ \A j \in 1..Len(a) : c[j] = a[j]
      /\ \A j \in 1..Len(b) : c[Len(a) + j] = b[j]
  BY <1>6
<1>8. PICK n \in Nat : n = Len(s)
  BY <1>1
<1>9. \E j \in 1..Len(c) : c[j] = s[k]
  <2>1. CASE k < i
    <3>1. a[k] = s[k]
      BY <1>1, <1>3, <2>1
    <3>2. k \in 1..Len(a) /\ k \in 1..Len(c)
      BY <1>1, <1>5, <1>7, <2>1
    <3> QED
      BY <1>7, <3>1, <3>2
  <2>2. CASE k > i
    <3>1. PICK j \in Nat : j = k - i
      BY <1>1, <2>2
    <3>2. b[j] = s[k]
      BY <1>1, <1>3, <2>2, <3>1
    <3>3. j \in 1..Len(b) /\ Len(a) + j \in 1..Len(c)
      BY <1>1, <1>5, <1>7, <1>8, <2>2, <3>1
    <3> QED
      BY <1>7, <3>2, <3>3
  <2> QED
    BY <1>1, <2>1, <2>2
<1>10. c # <<>>
  BY <1>9
<1>11. s[k] \in ToSet(c)
  BY <1>9 DEF ToSet
<1> QED
  BY <1>4, <1>6, <1>10, <1>11

LEMMA AppendKeeps ==
  ASSUME NEW S, NEW s \in Seq(S), NEW e \in S
  PROVE  ToSet(s) \subseteq ToSet(Append(s, e)) /\ e \in ToSet(Append(s, e)) /\ Append(s, e) # <<>>
<1>1. Append(s, e) \in Seq(S) /\ Len(Append(s, e)) = Len(s) + 1 /\ Len(s) \in Nat
  OBVIOUS
<1>2. \A k \in 1..Len(s) : Append(s, e)[k] = s[k] /\ k \in 1..Len(s) + 1
  BY <1>1
<1>3. Append(s, e)[Len(s) + 1] = e /\ Len(s) + 1 \in 1..Len(s) + 1
  BY <1>1
<1> QED
  BY <1>1, <1>2, <1>3 DEF ToSet

(* What is let go was constructed. *)
LEMMA LetGoConstructsNothing ==
  ASSUME TypeOK, NEW t \in Threads, NEW p \in Plugins, LetGo(t, p)
  PROVE  \A x \in Plugins : life'[x] = "out" <=> life[x] = "out"
  BY DEF LetGo, TypeOK

(* Nothing moves after a crash. *)
LEMMA CrashIsTheEnd == Next => Running \/ UNCHANGED vars
<1>1. \A p \in Plugins : Destroy(p) => Running
  BY DEF Destroy
<1>2. \A t : Drop(t) => Running
  BY DEF Drop, Free
<1>3. \A w : WorkerCopies(w) \/ WorkerJoins(w) \/ WorkerEnds(w) => Running
  BY DEF WorkerCopies, WorkerJoins, WorkerEnds, Copy, Dropped, Go, Free
<1>4. \A p : LoopBegins(p) \/ LoopStops(p) \/ LoopCalls(p) => Running
  BY DEF LoopBegins, LoopStops, LoopCalls
<1>5. \A t : LoadStep(t) => Running
  BY DEF LoadStep, Push, Back, Discard, Go, Free
<1>6. WindowStep => Running
  BY <1>2, <1>5 DEF WindowStep, FrameStep, FrameCopies, FramePasses, FrameUnloads, FrameLoads, FrameQuits,
                    FrameEnds, LoadThrows, WindowFails, WindowDraws, WindowCloses, Copy, Dropped, Go, Free
<1>7. MainStep => Running
  BY <1>2, <1>5 DEF MainStep, MainLoads, LoadThrows, MainFailsToLoad, MainHasLoaded, MainContinues, MainSpawns,
                    MainCopies, MainUnloads, MainHasUnloaded, MainLeaves, MainDestroysList, MainReturns,
                    Copy, Dropped, Go, Free
<1>8. Interrupt => Running
  BY DEF Interrupt, Go, Free
<1>9. \A t : FinishStep(t) => Running
  BY DEF FinishStep, FinishJoins, FinishReturns, Go, Free
<1> QED
  BY <1>1, <1>2, <1>3, <1>4, <1>6, <1>7, <1>8, <1>9 DEF Next, WorkerStep, AtRest

(* Steps that construct nothing, and change no list before the end. *)
LEMMA ListedStays ==
  ASSUME Listed, crashed' # "fault",
         ~Ending' => UNCHANGED plugins /\ ~Ending,
         Gui \in Plugins => (life'[Gui] = "out" <=> life[Gui] = "out"),
         at[Window] = "none" => at'[Window] = "none",
         ~Ending' /\ at[Main] = "push" => at'[Main] = "push" /\ got'[Main] = got[Main],
         \A t \in {Main, Window} : at'[t] = "back" => at[t] = "back"
  PROVE  Listed'
  BY DEF Listed

(* What is constructed becomes known to its loader: the window's plugin is *)
(* constructed by main.                                                    *)
LEMMA ConstructListed ==
  ASSUME Listed, TypeOK, NEW t \in {Main, Window}, NEW p \in Plugins, Construct(t, p),
         t = Window => p # Gui /\ at[Window] # "none", t = Main => ~Ending,
         at[t] # "push", crashed' # "fault",
         UNCHANGED plugins
  PROVE  Listed'
<1> USE ConstantsTyped
<1>1. /\ life[p] = "out" /\ life' = [life EXCEPT ![p] = "alive"] /\ got' = [got EXCEPT ![t] = p]
      /\ at' = [at EXCEPT ![t] = "push", ![Window] = IF p = Gui THEN "open" ELSE @]
  BY DEF Construct
<1>2. life'[p] = "alive" /\ \A x \in Plugins : x # p => life'[x] = life[x]
  BY <1>1 DEF TypeOK
<1>3. CASE t = Main
  <2>1. at'[Main] = "push" /\ got'[Main] = p
    BY <1>1, <1>3 DEF TypeOK
  <2>2. at'[Window] = IF p = Gui THEN "open" ELSE at[Window]
    BY <1>1, <1>3 DEF TypeOK
  <2>3. at[Main] # "push"
    BY <1>3
  <2>4. Gui \in Plugins /\ Gui # p /\ life'[Gui] # "out" /\ ~Ending => Gui \in ToSet(plugins)
    BY <1>2, <2>3 DEF Listed
  <2>5. at[Window] = "back" => plugins # <<>>
    BY <1>3 DEF Listed
  <2>6. at'[Window] = "back" => at[Window] = "back"
    BY <2>2
  <2>7. at'[Window] # "none" => Gui \in Plugins /\ life'[Gui] # "out"
    BY <1>2, <2>2 DEF Listed
  <2>8. Gui \in Plugins /\ life'[Gui] # "out" => Gui \in ToSet(plugins) \/ got'[Main] = Gui
    BY <1>3, <2>1, <2>4
  <2> QED
    BY <2>1, <2>5, <2>6, <2>7, <2>8 DEF Listed
<1>4. CASE t = Window
  <2>1. p # Gui /\ at'[Window] = "push" /\ at'[Main] = at[Main] /\ got'[Main] = got[Main]
    BY <1>1, <1>4 DEF TypeOK
  <2> QED
    BY <1>2, <1>4, <2>1, ListedStays DEF Ending
<1> QED
  BY <1>3, <1>4

LEMMA LoadListed ==
  ASSUME Listed, IInv, Running, NEW t \in {Main, Window}, LoadStep(t)
  PROVE  Listed'
<1> USE ConstantsTyped
<1>1. crashed = "no"
  BY DEF Running
<1>2. CASE Push(t)
  <2>1. /\ at[t] = "push" /\ at' = [at EXCEPT ![t] = "back"] /\ plugins' = Append(plugins, got[t])
        /\ UNCHANGED <<crashed, life, got>>
    BY <1>2 DEF Push, Go, lifeVars
  <2>2. got[t] \in Plugins /\ plugins \in Seq(Plugins)
    BY <2>1 DEF IInv, Handled, TypeOK
  <2>3. ToSet(plugins) \subseteq ToSet(plugins') /\ got[t] \in ToSet(plugins') /\ plugins' # <<>>
    BY <2>1, <2>2, AppendKeeps
  <2>4. at'[t] = "back" /\ \A u \in Threads \ {t} : at'[u] = at[u]
    BY <2>1 DEF IInv, TypeOK
  <2>5. at'[Window] # "none" => at[Window] # "none"
    BY <2>1, <2>4
  <2>6. ~Ending' => ~Ending
    BY <2>1, <2>4 DEF Ending
  <2>7. at[Main] = "push" /\ got[Main] = Gui =>
          Gui \in ToSet(plugins') \/ (at'[Main] = "push" /\ got'[Main] = Gui)
    BY <2>1, <2>3, <2>4
  <2> QED
    BY <1>1, <2>1, <2>3, <2>5, <2>6, <2>7 DEF Listed
<1>3. CASE Back(t)
  <2>1. at[t] = "back" /\ UNCHANGED <<plugins, life>>
    BY <1>3 DEF Back, Go, lifeVars
  <2>2. CASE plugins = <<>>
    <3>1. crashed' = "fault" /\ UNCHANGED <<at, got>>
      BY <1>3, <2>2 DEF Back
    <3>2. Ending
      BY <2>1, <2>2 DEF Listed
    <3>3. at[Main] \in {"unload", "leave", "members"}
      BY <3>2 DEF Ending, Running
    <3> QED
      BY <2>1, <3>1, <3>3 DEF Listed, Ending
  <2>3. CASE plugins # <<>>
    <3>1. at' = [at EXCEPT ![t] = "got"] /\ got' = [got EXCEPT ![t] = Last(plugins)] /\ UNCHANGED crashed
      BY <1>3, <2>3 DEF Back, Go
    <3>2. \A u \in Threads \ {t} : at'[u] = at[u] /\ got'[u] = got[u]
      BY <3>1 DEF IInv, TypeOK
    <3>3. at'[t] = "got"
      BY <3>1 DEF IInv, TypeOK
    <3> QED
      BY <1>1, <2>1, <3>1, <3>2, <3>3, ListedStays DEF Ending
  <2> QED
    BY <2>2, <2>3
<1>4. CASE Discard(t)
  <2>1. /\ at[t] = "got" /\ at' = [at EXCEPT ![t] = IF t = Main THEN "load" ELSE "leave"]
        /\ got' = [got EXCEPT ![t] = None] /\ LetGo(t, got[t]) /\ UNCHANGED <<plugins, crashed>>
    BY <1>4 DEF Discard, Go
  <2>2. got[t] \in Plugins
    BY <2>1 DEF IInv, Handled
  <2>3. \A x \in Plugins : life'[x] = "out" <=> life[x] = "out"
    BY <2>1, <2>2, LetGoConstructsNothing DEF IInv
  <2>4. \A u \in Threads \ {t} : at'[u] = at[u] /\ got'[u] = got[u]
    BY <2>1 DEF IInv, TypeOK
  <2>5. at'[t] = IF t = Main THEN "load" ELSE "leave"
    BY <2>1 DEF IInv, TypeOK
  <2>6. ~Ending' => ~Ending
    BY <2>1, <2>4, <2>5 DEF Ending
  <2> QED
    BY <1>1, <2>1, <2>3, <2>4, <2>5, <2>6, ListedStays
<1> QED
  BY <1>2, <1>3, <1>4 DEF LoadStep

LEMMA DropListed ==
  ASSUME Listed, TypeOK, Running, NEW t \in Threads, Drop(t)
  PROVE  Listed'
<1>1. held[t] # <<>> /\ LetGo(t, Head(held[t])) /\ UNCHANGED <<plugins, at, got, crashed>>
  BY DEF Drop
<1>2. Head(held[t]) \in Plugins
  BY <1>1, TailIsSubset DEF TypeOK
<1>3. \A x \in Plugins : life'[x] = "out" <=> life[x] = "out"
  BY <1>1, <1>2, LetGoConstructsNothing
<1> QED
  BY <1>1, <1>3, ListedStays DEF Running, Ending

LEMMA ThrowListed ==
  ASSUME Listed, Running, NEW t, LoadThrows(t)
  PROVE  Listed'
  BY ListedStays DEF LoadThrows, lifeVars, Running, Ending

(* What the window unloads has a name other than its own. *)
LEMMA FrameUnloadsListed ==
  ASSUME WindowNamedAlone, Listed, TypeOK, Running, FrameUnloads
  PROVE  Listed'
<1> USE ConstantsTyped
<1>1. at[Window] = "frame" /\ at' = [at EXCEPT ![Window] = "leave"]
  BY DEF FrameUnloads, Go
<1>2. PICK p \in ToSet(held[Window]) \ {Gui} : Unload(Window, Name[p])
  BY DEF FrameUnloads
<1>3. p \in Plugins /\ plugins \in Seq(Plugins)
  BY DEF TypeOK, ToSet
<1>4. Gui \in Plugins /\ life[Gui] # "out" /\ Name[p] # Name[Gui]
  BY <1>1, <1>3 DEF Listed, WindowNamedAlone
<1>5. UNCHANGED <<got, crashed>>
  BY <1>2 DEF Unload
<1>6. at'[Window] = "leave" /\ at'[Main] = at[Main]
  BY <1>1 DEF TypeOK
<1>7. CASE UNCHANGED <<plugins, lifeVars>>
  BY <1>5, <1>6, <1>7, <1>1, ListedStays DEF Running, Ending, lifeVars
<1>8. ASSUME NEW i \in Find(Name[p]), plugins' = RemoveAt(plugins, i), LetGo(Window, plugins[i])
      PROVE  Listed'
  <2>1. i \in 1..Len(plugins) /\ Name[plugins[i]] = Name[p]
    BY DEF Find
  <2>2. plugins[i] \in Plugins
    BY <1>3, <2>1
  <2>3. \A x \in Plugins : life'[x] = "out" <=> life[x] = "out"
    BY <1>8, <2>2, LetGoConstructsNothing
  <2>4. Gui \in ToSet(plugins) => Gui \in ToSet(plugins') /\ plugins' # <<>>
    <3>1. SUFFICES ASSUME Gui \in ToSet(plugins) PROVE Gui \in ToSet(plugins') /\ plugins' # <<>>
      OBVIOUS
    <3>2. PICK k \in 1..Len(plugins) : plugins[k] = Gui
      BY <3>1 DEF ToSet
    <3>3. k # i
      BY <1>4, <2>1, <3>2
    <3> QED
      BY <1>3, <1>8, <2>1, <3>2, <3>3, RemoveAtKeeps
  <2>5. ~Ending => Gui \in ToSet(plugins) \/ (at[Main] = "push" /\ got[Main] = Gui)
    BY <1>4 DEF Listed
  <2> QED
    BY <1>4, <1>5, <1>6, <2>3, <2>4, <2>5 DEF Listed, Running, Ending
<1> QED
  BY <1>2, <1>7, <1>8 DEF Unload

LEMMA WindowListed ==
  ASSUME WindowNamedAlone, Listed, IInv, Running, WindowStep
  PROVE  Listed'
<1> USE ConstantsTyped
<1>1. CASE \/ WindowFails \/ WindowDraws \/ WindowCloses \/ FrameCopies \/ FramePasses \/ FrameQuits
           \/ FrameEnds
  <2>1. /\ UNCHANGED <<plugins, life, got, crashed>> /\ at[Window] # "none"
        /\ \E to \in {"over", "draw", "finish", "frame", "leave", "open"} : at' = [at EXCEPT ![Window] = to]
    BY <1>1 DEF WindowFails, WindowDraws, WindowCloses, FrameCopies, FramePasses, FrameQuits, FrameEnds,
                Copy, Dropped, Go, lifeVars
  <2>2. at'[Main] = at[Main] /\ at'[Window] # "back"
    BY <2>1 DEF IInv, TypeOK
  <2> QED
    BY <2>1, <2>2, ListedStays DEF Running, Ending
<1>2. CASE FrameUnloads
  BY <1>2, FrameUnloadsListed DEF IInv
<1>3. CASE FrameLoads
  <2>1. PICK p \in Offered : Construct(Window, p)
    BY <1>3 DEF FrameLoads
  <2>2. at[Window] = "frame" /\ UNCHANGED <<plugins, crashed>> /\ p # Gui /\ p \in Plugins
    BY <1>3, RegistryAssumption DEF FrameLoads
  <2> QED
    BY <2>1, <2>2, ConstructListed DEF IInv, Running
<1>4. CASE LoadStep(Window)
  BY <1>4, LoadListed
<1>5. CASE Drop(Window)
  BY <1>5, DropListed DEF IInv
<1>6. CASE LoadThrows(Window)
  BY <1>6, ThrowListed
<1> QED
  BY <1>1, <1>2, <1>3, <1>4, <1>5, <1>6 DEF WindowStep, FrameStep

LEMMA MainListed ==
  ASSUME Listed, IInv, Running, MainStep
  PROVE  Listed'
<1> USE ConstantsTyped
<1>1. CASE MainLoads
  <2>1. at[Main] = "load" /\ Construct(Main, Head(todo)) /\ UNCHANGED <<plugins, crashed>> /\ Head(todo) \in Plugins
    BY <1>1, TailIsSubset DEF MainLoads, IInv, TypeOK
  <2> QED
    BY <2>1, ConstructListed DEF IInv, Running, Ending
<1>2. CASE MainFailsToLoad \/ MainHasLoaded \/ MainContinues \/ MainSpawns
  <2>1. /\ UNCHANGED <<plugins, life, got, crashed>> /\ at[Main] \in {"load", "loop", "join"}
        /\ \/ \E to \in {"load", "loop", "join"} : at' = [at EXCEPT ![Main] = to]
           \/ at' = [at EXCEPT ![Main] = "loop", !["cycle"] = "start"]
    BY <1>2 DEF MainFailsToLoad, MainHasLoaded, MainContinues, MainSpawns, Go, lifeVars
  <2>2. "cycle" \in Threads /\ Main # "cycle" /\ Window # "cycle"
    BY DEF Workers
  <2>3. at'[Main] \in {"load", "loop", "join"} /\ at'[Window] = at[Window]
    BY <2>1, <2>2 DEF IInv, TypeOK
  <2> QED
    BY <2>1, <2>3, ListedStays DEF Running, Ending
<1>3. CASE LoadStep(Main)
  BY <1>3, LoadListed
<1>4. CASE MainCopies \/ MainHasUnloaded \/ MainLeaves \/ MainReturns
  <2>1. /\ UNCHANGED <<plugins, life, got, crashed>>
        /\ \E to \in {"unload", "leave", "members", "gone"} : at' = [at EXCEPT ![Main] = to]
    BY <1>4 DEF MainCopies, MainHasUnloaded, MainLeaves, MainReturns, Copy, Dropped, Go, lifeVars
  <2>2. at'[Main] \in {"unload", "leave", "members", "gone"} /\ at'[Window] = at[Window]
    BY <2>1 DEF IInv, TypeOK
  <2> QED
    BY <2>1, <2>2, ListedStays DEF Running, Ending
<1>5. CASE MainUnloads
  <2>1. at' = [at EXCEPT ![Main] = "unload"] /\ Unload(Main, Name[Head(todo)])
    BY <1>5 DEF MainUnloads, Go
  <2>2. at'[Main] = "unload" /\ at'[Window] = at[Window] /\ UNCHANGED <<got, crashed>>
    BY <2>1 DEF IInv, TypeOK, Unload
  <2>3. \A x \in Plugins : life'[x] = "out" <=> life[x] = "out"
    <3>1. ASSUME NEW i \in Find(Name[Head(todo)]), LetGo(Main, plugins[i])
          PROVE  \A x \in Plugins : life'[x] = "out" <=> life[x] = "out"
      BY <3>1, LetGoConstructsNothing DEF Find, IInv, TypeOK
    <3> QED
      BY <2>1, <3>1 DEF Unload, lifeVars
  <2> QED
    BY <2>2, <2>3, ListedStays DEF Running, Ending
<1>6. CASE Drop(Main)
  BY <1>6, DropListed DEF IInv
<1>7. CASE MainDestroysList
  <2>1. /\ plugins # <<>> /\ at' = [at EXCEPT ![Main] = "members"] /\ LetGo(Main, Head(plugins))
        /\ UNCHANGED <<got, crashed>>
    BY <1>7 DEF MainDestroysList, Go
  <2>2. at'[Main] = "members" /\ at'[Window] = at[Window] /\ Head(plugins) \in Plugins
    BY <2>1, TailIsSubset DEF IInv, TypeOK
  <2>3. \A x \in Plugins : life'[x] = "out" <=> life[x] = "out"
    BY <2>1, <2>2, LetGoConstructsNothing DEF IInv
  <2> QED
    BY <2>1, <2>2, <2>3, ListedStays DEF Running, Ending
<1>8. CASE LoadThrows(Main)
  BY <1>8, ThrowListed
<1> QED
  BY <1>1, <1>2, <1>3, <1>4, <1>5, <1>6, <1>7, <1>8 DEF MainStep

LEMMA ListedStep ==
  ASSUME WindowNamedAlone, Listed, IInv, [Next]_vars
  PROVE  Listed'
<1> USE ConstantsTyped
<1>1. CASE UNCHANGED vars
  BY <1>1 DEF vars, Listed, Ending
<1>2. CASE Next /\ Running
  <2> USE <1>2
  <2>1. ASSUME NEW p \in Plugins, Destroy(p) PROVE Listed'
    <3>1. life[p] = "dying" /\ UNCHANGED <<plugins, at, got>>
      BY <2>1 DEF Destroy
    <3>2. CASE p = Gui /\ by[p] = Window
      <4>1. crashed' = "fault" /\ UNCHANGED life
        BY <2>1, <3>2 DEF Destroy, lifeVars
      <4>2. Ending
        BY <3>1, <3>2 DEF Listed, IInv, CopiesLive, Handled
      <4>3. at[Main] \in {"unload", "leave", "members"}
        BY <4>2 DEF Ending, Running
      <4> QED
        BY <3>1, <4>1, <4>3 DEF Listed, Ending
    <3>3. CASE ~(p = Gui /\ by[p] = Window)
      <4>1. life' = [life EXCEPT ![p] = "dead"] /\ UNCHANGED crashed
        BY <2>1, <3>3 DEF Destroy
      <4>2. \A x \in Plugins : life'[x] = "out" <=> life[x] = "out"
        BY <3>1, <4>1 DEF IInv, TypeOK
      <4> QED
        BY <3>1, <4>1, <4>2, ListedStays DEF Running, Ending
    <3> QED
      BY <3>2, <3>3
  <2>2. ASSUME NEW w \in Workers, WorkerStep(w) PROVE Listed'
    <3>1. w \in Threads /\ w # Main /\ w # Window
      OBVIOUS
    <3>2. CASE WorkerCopies(w) \/ WorkerJoins(w) \/ WorkerEnds(w)
      <4>1. UNCHANGED <<plugins, life, got, crashed>> /\ \E to : at' = [at EXCEPT ![w] = to]
        BY <3>2 DEF WorkerCopies, WorkerJoins, WorkerEnds, Copy, Dropped, Go, lifeVars
      <4>2. at'[Main] = at[Main] /\ at'[Window] = at[Window]
        BY <3>1, <4>1 DEF IInv, TypeOK
      <4> QED
        BY <4>1, <4>2, ListedStays DEF Running, Ending
    <3>3. CASE Drop(w)
      BY <3>1, <3>3, DropListed DEF IInv
    <3> QED
      BY <2>2, <3>2, <3>3 DEF WorkerStep
  <2>3. ASSUME NEW p \in Loops, LoopBegins(p) \/ LoopStops(p) \/ LoopCalls(p) PROVE Listed'
    <3>1. /\ UNCHANGED <<plugins, life, got, crashed>>
          /\ (UNCHANGED at \/ at' = [at EXCEPT !["broadcast"] = "start"])
      BY <2>3 DEF LoopBegins, LoopStops, LoopCalls, lifeVars
    <3>2. Window # "broadcast" /\ Main # "broadcast"
      BY DEF Workers
    <3>3. at'[Main] = at[Main] /\ at'[Window] = at[Window]
      BY <3>1, <3>2 DEF IInv, TypeOK
    <3> QED
      BY <3>1, <3>3, ListedStays DEF Running, Ending
  <2>4. CASE Interrupt
    <3>1. /\ UNCHANGED <<plugins, life, got, crashed>> /\ at[Main] = "loop"
          /\ at' = [at EXCEPT ![Main] = "finish"]
      BY <2>4 DEF Interrupt, Go, lifeVars
    <3>2. at'[Main] = "finish" /\ at'[Window] = at[Window]
      BY <3>1 DEF IInv, TypeOK
    <3> QED
      BY <3>1, <3>2, ListedStays DEF Running, Ending
  <2>5. ASSUME NEW t \in {Main, Window}, FinishStep(t) PROVE Listed'
    <3>1. /\ UNCHANGED <<plugins, life, got, crashed>> /\ at[t] = "finish"
          /\ (UNCHANGED at \/ \E to \in {"loop", "leave"} : at' = [at EXCEPT ![t] = to])
          /\ (t = Main => UNCHANGED at \/ at' = [at EXCEPT ![t] = "loop"])
      BY <2>5 DEF FinishStep, FinishJoins, FinishReturns, Go, lifeVars
    <3>2. \A u \in Threads \ {t} : at'[u] = at[u]
      BY <3>1 DEF IInv, TypeOK
    <3>3. at'[t] \in {"finish", "loop", "leave"} /\ (t = Main => at'[t] # "leave")
      BY <3>1 DEF IInv, TypeOK
    <3>4. ~Ending' => ~Ending
      BY <3>1, <3>2 DEF Ending
    <3>5. at[Window] = "none" => at'[Window] = "none"
      BY <3>1, <3>2
    <3> QED
      BY <3>1, <3>2, <3>3, <3>4, <3>5, ListedStays DEF Running
  <2> QED
    BY <2>1, <2>2, <2>3, <2>4, <2>5, WindowListed, MainListed DEF Next, AtRest
<1> QED
  BY <1>1, <1>2, CrashIsTheEnd

(* As long as no other plugin has the window's name, no thread of a plugin *)
(* destroys that plugin and load_plugin does not take the last one of an   *)
(* empty list, until main destroys the session.  (The process may end      *)
(* before that, by an exception of the parser.)                            *)
THEOREM SoundBefore == Spec => []SoundUntilDestroyed
<1>1. Init => Listed
  BY ConstantsTyped DEF Init, Listed
<1>2. WindowNamedAlone /\ IInv /\ Listed /\ [Next]_vars => Listed'
  BY ListedStep
<1>3. WindowNamedAlone' <=> WindowNamedAlone
  BY DEF WindowNamedAlone
<1>4. (WindowNamedAlone => Listed) => SoundUntilDestroyed
  BY DEF Listed, SoundUntilDestroyed
<1>5. Init => (WindowNamedAlone => Listed)
  BY <1>1
<1>6. IInv /\ (WindowNamedAlone => Listed) /\ [Next]_vars => (WindowNamedAlone => Listed)'
  BY <1>2, <1>3
<1> QED
  BY <1>4, <1>5, <1>6, IInvHolds, PTL DEF Spec

-----------------------------------------------------------------------------
(* load_plugin finds what it appended.                                     *)

(* What main still has to load is of the configuration, and so is what it  *)
(* appends; the window appends what its user may load.                     *)
LoadOrder ==
  /\ at[Main] \in {"load", "push", "back", "got"} => ToSet(todo) \subseteq ToSet(Config)
  /\ at[Main] = "push" => got[Main] \in ToSet(Config)
  /\ at[Window] = "push" => got[Window] \in Offered
  /\ LoadReturnsOwn

LEMMA RemoveAtShifts ==
  ASSUME NEW S, NEW s \in Seq(S), NEW i \in 1..Len(s)
  PROVE  /\ RemoveAt(s, i) \in Seq(S) /\ Len(RemoveAt(s, i)) = Len(s) - 1
         /\ \A k \in 1..Len(s) - 1 : RemoveAt(s, i)[k] = s[IF k < i THEN k ELSE k + 1]
<1>1. Len(s) \in Nat /\ i \in Nat /\ 1 <= i /\ i <= Len(s)
  OBVIOUS
<1>2. SubSeq(s, 1, i - 1) \in Seq(S) /\ SubSeq(s, i + 1, Len(s)) \in Seq(S)
  BY <1>1
<1>3. PICK a, b \in Seq(S) : a = SubSeq(s, 1, i - 1) /\ b = SubSeq(s, i + 1, Len(s))
  BY <1>2
<1>4. RemoveAt(s, i) = a \o b
  BY <1>3 DEF RemoveAt
<1>5. Len(a) = i - 1 /\ Len(b) = Len(s) - i
  BY <1>1, <1>3
<1>6. \A k \in 1..i - 1 : a[k] = s[k]
  BY <1>1, <1>3
<1>7. \A k \in 1..Len(s) - i : b[k] = s[k + i]
  BY <1>1, <1>3
<1>8. PICK c \in Seq(S) : c = a \o b
  <2>1. a \o b \in Seq(S)
    OBVIOUS
  <2> QED
    BY <2>1
<1>9. /\ Len(c) = Len(a) + Len(b)
      /\ \A k \in 1..Len(a) : c[k] = a[k]
      /\ \A k \in 1..Len(c) : k > Len(a) => c[k] = b[k - Len(a)]
  BY <1>8
<1>10. Len(c) = Len(s) - 1
  BY <1>1, <1>5, <1>9
<1>11. ASSUME NEW k \in 1..Len(s) - 1 PROVE c[k] = s[IF k < i THEN k ELSE k + 1]
  <2>1. CASE k < i
    <3>1. k \in 1..Len(a) /\ k \in 1..i - 1
      BY <1>1, <1>5, <2>1
    <3> QED
      BY <1>6, <1>9, <2>1, <3>1
  <2>2. CASE ~(k < i)
    <3>1. k \in 1..Len(c) /\ k > Len(a) /\ k - Len(a) \in 1..Len(s) - i /\ (k - Len(a)) + i = k + 1
      BY <1>1, <1>5, <1>10, <2>2
    <3>2. c[k] = b[k - Len(a)]
      BY <1>9, <3>1
    <3>3. b[k - Len(a)] = s[(k - Len(a)) + i]
      BY <1>7, <3>1
    <3> QED
      BY <2>2, <3>1, <3>2, <3>3
  <2> QED
    BY <2>1, <2>2
<1> QED
  BY <1>4, <1>8, <1>10, <1>11

(* Steps that change no list and begin no load. *)
LEMMA OrderStays ==
  ASSUME LoadOrder, UNCHANGED plugins,
         \A t \in {Main, Window} : at'[t] \in {"push", "back"} => at'[t] = at[t] /\ got'[t] = got[t],
         at'[Main] \in {"load", "push", "back", "got"} =>
           at[Main] \in {"load", "push", "back", "got"} /\ ToSet(todo') \subseteq ToSet(todo),
         Ending => Ending'
  PROVE  LoadOrder'
  BY DEF LoadOrder, LoadReturnsOwn, Ending

(* Another thread moves, or one of the two to where it loads nothing. *)
LEMMA OrderMoves ==
  ASSUME TypeOK, LoadOrder, UNCHANGED <<plugins, got, todo>>,
         NEW t \in Threads,
         NEW to \in {"none", "start", "call", "leave", "over", "open", "draw", "frame", "finish",
                     "loop", "join", "unload", "members", "gone"},
         at' = [at EXCEPT ![t] = to],
         t = Main /\ Ending => to \in {"unload", "leave", "members", "gone"}
  PROVE  LoadOrder'
<1>1. \A u \in Threads : at'[u] = at[u] \/ at'[u] = to
  BY DEF TypeOK
<1>2. Ending => Ending'
  BY ConstantsTyped DEF Ending, TypeOK
<1>3. at'[Main] \in {"load", "push", "back", "got"} => at[Main] = at'[Main]
  BY <1>1, ConstantsTyped
<1> QED
  BY <1>1, <1>2, <1>3, OrderStays, ConstantsTyped

LEMMA PushOrder ==
  ASSUME IInv, LoadOrder, NEW t \in {Main, Window}, Push(t)
  PROVE  LoadOrder'
<1> USE ConstantsTyped
<1>1. /\ at[t] = "push" /\ at' = [at EXCEPT ![t] = "back"] /\ plugins' = Append(plugins, got[t])
      /\ UNCHANGED <<got, todo>>
  BY DEF Push, Go
<1>2. plugins \in Seq(Plugins) /\ got[t] \in Plugins /\ got[t] \notin ToSet(plugins)
  BY <1>1 DEF IInv, Handled, InNoList, TypeOK
<1>3. PICK n \in Nat : n = Len(plugins)
  BY <1>2
<1>4. /\ Len(plugins') = n + 1 /\ plugins'[n + 1] = got[t]
      /\ \A i \in 1..n : plugins'[i] = plugins[i] /\ plugins[i] # got[t]
  BY <1>1, <1>2, <1>3 DEF ToSet
<1>5. at'[t] = "back" /\ \A u \in Threads \ {t} : at'[u] = at[u]
  BY <1>1 DEF IInv, TypeOK
<1>6. CASE t = Main
  <2>1. /\ \A i \in 1..Len(plugins') : plugins'[i] = got'[Main] => i = n + 1
        /\ \A i \in 1..Len(plugins') : plugins'[i] = got'[Main] => i + 1..Len(plugins') = {}
    BY <1>1, <1>4, <1>6
  <2>2. got[Main] \in ToSet(Config)
    BY <1>1, <1>6 DEF LoadOrder
  <2>3. ASSUME at'[Window] = "back", ~Ending'
        PROVE  \E i \in 1..Len(plugins') :
                 plugins'[i] = got'[Window] /\ \A j \in i + 1..Len(plugins') : plugins'[j] \in ToSet(Config)
    <3>1. at[Window] = "back" /\ ~Ending
      BY <1>1, <1>5, <1>6, <2>3 DEF Ending
    <3>2. PICK i \in 1..n :
            plugins[i] = got[Window] /\ \A j \in i + 1..n : plugins[j] \in ToSet(Config)
      BY <1>3, <3>1 DEF LoadOrder, LoadReturnsOwn, Ending
    <3>3. \A j \in i + 1..n + 1 : plugins'[j] \in ToSet(Config)
      BY <1>4, <1>6, <2>2, <3>2
    <3>4. i \in 1..Len(plugins') /\ plugins'[i] = got'[Window]
      BY <1>1, <1>4, <3>2
    <3> QED
      BY <1>4, <3>3, <3>4
  <2>4. LoadReturnsOwn'
    BY <2>1, <2>3 DEF LoadReturnsOwn, Ending
  <2>5. at[Main] = "push" /\ at'[Main] = "back" /\ at'[Window] = at[Window]
    BY <1>1, <1>5, <1>6
  <2> QED
    BY <1>1, <2>4, <2>5 DEF LoadOrder
<1>7. CASE t = Window
  <2>1. got[Window] \in Offered
    BY <1>1, <1>7 DEF LoadOrder
  <2>2. n + 1 \in 1..Len(plugins') /\ plugins'[n + 1] = got'[Window] /\ (n + 1) + 1..Len(plugins') = {}
    BY <1>1, <1>4, <1>7
  <2>3. at'[Main] = at[Main] /\ at'[Window] = "back"
    BY <1>5, <1>7
  <2>4. ASSUME at'[Main] = "back", NEW i \in 1..Len(plugins'), plugins'[i] = got'[Main],
               NEW j \in i + 1..Len(plugins')
        PROVE  plugins'[j] \in Offered
    <3>1. i \in 1..n
      BY <1>4
    <3>2. plugins[i] = got[Main] /\ at[Main] = "back"
      BY <1>1, <1>4, <2>3, <2>4, <3>1
    <3>3. CASE j = n + 1
      BY <1>4, <1>7, <2>1, <3>3
    <3>4. CASE j # n + 1
      <4>1. j \in i + 1..n /\ j \in 1..n
        BY <1>4, <3>1, <3>4
      <4>2. plugins[j] \in Offered
        BY <1>3, <3>1, <3>2, <4>1 DEF LoadOrder, LoadReturnsOwn
      <4> QED
        BY <1>4, <4>1, <4>2
    <3> QED
      BY <3>3, <3>4
  <2>5. LoadReturnsOwn'
    BY <2>2, <2>4 DEF LoadReturnsOwn
  <2> QED
    BY <1>1, <2>3, <2>5 DEF LoadOrder
<1> QED
  BY <1>6, <1>7

LEMMA LoadKeepsOrder ==
  ASSUME IInv, LoadOrder, NEW t \in {Main, Window}, LoadStep(t)
  PROVE  LoadOrder'
<1> USE ConstantsTyped
<1>1. CASE Push(t)
  BY <1>1, PushOrder
<1>2. CASE Back(t)
  <2>1. UNCHANGED <<plugins, todo>> /\ at[t] = "back"
    BY <1>2 DEF Back, Go
  <2>2. CASE UNCHANGED <<at, got>>
    BY <2>1, <2>2, OrderStays DEF Ending
  <2>3. CASE at' = [at EXCEPT ![t] = "got"] /\ got' = [got EXCEPT ![t] = Last(plugins)]
    <3>1. at'[t] = "got" /\ \A u \in Threads \ {t} : at'[u] = at[u] /\ got'[u] = got[u]
      BY <2>3 DEF IInv, TypeOK
    <3> QED
      BY <2>1, <3>1, OrderStays DEF Ending
  <2> QED
    BY <1>2, <2>2, <2>3 DEF Back, Go
<1>3. CASE Discard(t)
  <2>1. /\ at[t] = "got" /\ at' = [at EXCEPT ![t] = IF t = Main THEN "load" ELSE "leave"]
        /\ got' = [got EXCEPT ![t] = None] /\ UNCHANGED <<plugins, todo>>
    BY <1>3 DEF Discard, Go
  <2>2. at'[t] = (IF t = Main THEN "load" ELSE "leave")
        /\ \A u \in Threads \ {t} : at'[u] = at[u] /\ got'[u] = got[u]
    BY <2>1 DEF IInv, TypeOK
  <2> QED
    BY <2>1, <2>2, OrderStays DEF Ending
<1> QED
  BY <1>1, <1>2, <1>3 DEF LoadStep

(* What the window unloads moves nothing behind main's plugin. *)
LEMMA UnloadKeepsOrder ==
  ASSUME IInv, LoadOrder, FrameUnloads
  PROVE  LoadOrder'
<1> USE ConstantsTyped
<1>1. at' = [at EXCEPT ![Window] = "leave"] /\ UNCHANGED todo
  BY DEF FrameUnloads, Go
<1>2. PICK name : Unload(Window, name)
  BY DEF FrameUnloads
<1>3. at'[Window] = "leave" /\ at'[Main] = at[Main] /\ UNCHANGED got
  BY <1>1, <1>2 DEF IInv, TypeOK, Unload
<1>4. CASE UNCHANGED plugins
  BY <1>1, <1>3, <1>4, OrderStays DEF Ending
<1>5. ASSUME NEW r \in Find(name), plugins' = RemoveAt(plugins, r)
      PROVE  LoadOrder'
  <2>1. plugins \in Seq(Plugins) /\ r \in 1..Len(plugins)
    BY DEF Find, IInv, TypeOK
  <2>2. PICK n \in Nat : n = Len(plugins)
    BY <2>1
  <2>3. /\ Len(plugins') = n - 1
        /\ \A k \in 1..n - 1 : plugins'[k] = plugins[IF k < r THEN k ELSE k + 1]
    BY <1>5, <2>1, <2>2, RemoveAtShifts
  <2>4. ASSUME at'[Main] = "back", NEW i \in 1..Len(plugins'), plugins'[i] = got'[Main],
               NEW j \in i + 1..Len(plugins')
        PROVE  plugins'[j] \in Offered
    <3>1. PICK k \in 1..n : plugins'[i] = plugins[k] /\ k = IF i < r THEN i ELSE i + 1
      BY <2>1, <2>2, <2>3
    <3>2. PICK l \in 1..n : plugins'[j] = plugins[l] /\ l = IF j < r THEN j ELSE j + 1
      BY <2>1, <2>2, <2>3
    <3>3. l \in k + 1..n
      BY <2>1, <2>2, <2>3, <3>1, <3>2
    <3>4. plugins[k] = got[Main] /\ at[Main] = "back"
      BY <1>3, <2>4, <3>1
    <3>5. plugins[l] \in Offered
      BY <2>2, <3>3, <3>4 DEF LoadOrder, LoadReturnsOwn
    <3> QED
      BY <3>2, <3>5
  <2>5. LoadReturnsOwn'
    BY <1>3, <2>4 DEF LoadReturnsOwn
  <2> QED
    BY <1>1, <1>3, <2>5 DEF LoadOrder
<1> QED
  BY <1>2, <1>4, <1>5 DEF Unload

LEMMA WindowKeepsOrder ==
  ASSUME IInv, LoadOrder, WindowStep
  PROVE  LoadOrder'
<1> USE ConstantsTyped
<1>1. CASE \/ WindowFails \/ WindowDraws \/ WindowCloses \/ FrameCopies \/ FramePasses \/ FrameQuits
           \/ FrameEnds
  <2>1. /\ UNCHANGED <<plugins, got, todo>>
        /\ \E to \in {"over", "draw", "finish", "frame", "leave", "open"} : at' = [at EXCEPT ![Window] = to]
    BY <1>1 DEF WindowFails, WindowDraws, WindowCloses, FrameCopies, FramePasses, FrameQuits, FrameEnds,
                Copy, Dropped, Go
  <2> QED
    BY <2>1, OrderMoves DEF IInv
<1>2. CASE FrameUnloads
  BY <1>2, UnloadKeepsOrder
<1>3. CASE FrameLoads
  <2>1. PICK p \in Offered : Construct(Window, p)
    BY <1>3 DEF FrameLoads
  <2>2. UNCHANGED <<plugins, todo>> /\ p # Gui
    BY <1>3, RegistryAssumption DEF FrameLoads
  <2>3. /\ at' = [at EXCEPT ![Window] = "push", ![Window] = IF p = Gui THEN "open" ELSE @]
        /\ got' = [got EXCEPT ![Window] = p]
    BY <2>1 DEF Construct
  <2>4. at'[Window] = "push" /\ got'[Window] = p /\ at'[Main] = at[Main] /\ got'[Main] = got[Main]
    BY <2>2, <2>3 DEF IInv, TypeOK
  <2> QED
    BY <2>2, <2>4 DEF LoadOrder, LoadReturnsOwn
<1>4. CASE LoadStep(Window)
  BY <1>4, LoadKeepsOrder
<1>5. CASE LoadThrows(Window) \/ Drop(Window)
  BY <1>5, OrderStays DEF LoadThrows, Drop, Ending
<1> QED
  BY <1>1, <1>2, <1>3, <1>4, <1>5 DEF WindowStep, FrameStep

LEMMA MainKeepsOrder ==
  ASSUME IInv, LoadOrder, MainStep
  PROVE  LoadOrder'
<1> USE ConstantsTyped
<1>1. CASE MainLoads
  <2>1. /\ todo # <<>> /\ at[Main] = "load" /\ Construct(Main, Head(todo)) /\ todo' = Tail(todo)
        /\ UNCHANGED plugins
    BY <1>1 DEF MainLoads
  <2>2. ToSet(todo') \subseteq ToSet(todo) /\ Head(todo) \in ToSet(todo)
    BY <2>1, TailIsSubset DEF IInv, TypeOK
  <2>3. ToSet(todo') \subseteq ToSet(Config) /\ Head(todo) \in ToSet(Config)
    BY <2>1, <2>2 DEF LoadOrder
  <2>4. /\ at'[Main] = "push" /\ at'[Window] \in {at[Window], "open"}
        /\ got'[Main] = Head(todo) /\ got'[Window] = got[Window]
    BY <2>1 DEF Construct, IInv, TypeOK
  <2> QED
    BY <2>1, <2>3, <2>4 DEF LoadOrder, LoadReturnsOwn
<1>2. CASE MainFailsToLoad
  <2>1. todo # <<>> /\ at[Main] = "load" /\ todo' = Tail(todo) /\ at' = [at EXCEPT ![Main] = "load"]
        /\ UNCHANGED <<plugins, got>>
    BY <1>2 DEF MainFailsToLoad, Go
  <2>2. ToSet(todo') \subseteq ToSet(todo) /\ at' = at
    BY <2>1, TailIsSubset DEF IInv, TypeOK
  <2> QED
    BY <2>1, <2>2, OrderStays DEF Ending
<1>3. CASE LoadStep(Main)
  BY <1>3, LoadKeepsOrder
<1>4. CASE MainHasLoaded \/ MainContinues
  <2>1. UNCHANGED <<plugins, got, todo>> /\ at[Main] \in {"load", "loop"}
        /\ \E to \in {"loop", "join"} : at' = [at EXCEPT ![Main] = to]
    BY <1>4 DEF MainHasLoaded, MainContinues, Go
  <2> QED
    BY <2>1, OrderMoves DEF IInv, Ending
<1>5. CASE MainSpawns
  <2>1. /\ at[Main] = "join" /\ at' = [at EXCEPT ![Main] = "loop", !["cycle"] = "start"]
        /\ UNCHANGED <<plugins, got, todo>>
    BY <1>5 DEF MainSpawns
  <2>2. "cycle" \in Threads /\ Main # "cycle" /\ Window # "cycle"
    BY DEF Workers
  <2>3. at'[Main] = "loop" /\ at'[Window] = at[Window]
    BY <2>1, <2>2 DEF IInv, TypeOK
  <2> QED
    BY <2>1, <2>3, OrderStays DEF Ending
<1>6. CASE MainCopies \/ MainHasUnloaded \/ MainLeaves \/ MainReturns
  <2>1. UNCHANGED <<plugins, got>>
        /\ \E to \in {"unload", "leave", "members", "gone"} : at' = [at EXCEPT ![Main] = to]
    BY <1>6 DEF MainCopies, MainHasUnloaded, MainLeaves, MainReturns, Copy, Dropped, Go
  <2>2. at'[Main] \in {"unload", "leave", "members", "gone"} /\ at'[Window] = at[Window]
    BY <2>1 DEF IInv, TypeOK
  <2> QED
    BY <2>1, <2>2, OrderStays DEF Ending
<1>7. CASE MainUnloads \/ MainDestroysList
  <2>1. UNCHANGED got /\ \E to \in {"unload", "members"} : at' = [at EXCEPT ![Main] = to]
    BY <1>7 DEF MainUnloads, MainDestroysList, Go, Unload
  <2>2. at'[Main] \in {"unload", "members"} /\ at'[Window] = at[Window]
    BY <2>1 DEF IInv, TypeOK
  <2> QED
    BY <2>1, <2>2 DEF LoadOrder, LoadReturnsOwn
<1>8. CASE LoadThrows(Main) \/ Drop(Main)
  BY <1>8, OrderStays DEF LoadThrows, Drop, Ending
<1> QED
  BY <1>1, <1>2, <1>3, <1>4, <1>5, <1>6, <1>7, <1>8 DEF MainStep

LEMMA OrderStep ==
  ASSUME IInv, LoadOrder, [Next]_vars
  PROVE  LoadOrder'
<1> USE ConstantsTyped
<1>1. ASSUME NEW p \in Plugins, Destroy(p) PROVE LoadOrder'
  BY <1>1, OrderStays DEF Destroy, Ending
<1>2. ASSUME NEW w \in Workers, WorkerStep(w) PROVE LoadOrder'
  <2>1. CASE WorkerCopies(w) \/ WorkerJoins(w) \/ WorkerEnds(w)
    <3>1. UNCHANGED <<plugins, got, todo>> /\ w \in Threads /\ w # Main
          /\ \E to \in {"call", "leave", "none"} : at' = [at EXCEPT ![w] = to]
      BY <2>1 DEF WorkerCopies, WorkerJoins, WorkerEnds, Copy, Dropped, Go
    <3> QED
      BY <3>1, OrderMoves DEF IInv
  <2>2. CASE Drop(w)
    BY <2>2, OrderStays DEF Drop, Ending
  <2> QED
    BY <1>2, <2>1, <2>2 DEF WorkerStep
<1>3. ASSUME NEW p \in Loops, LoopBegins(p) \/ LoopStops(p) PROVE LoadOrder'
  BY <1>3, OrderStays DEF LoopBegins, LoopStops, Ending
<1>4. ASSUME NEW p \in Loops, LoopCalls(p) PROVE LoadOrder'
  <2>1. "broadcast" \in Threads /\ "broadcast" # Main
    BY DEF Workers
  <2> QED
    BY <1>4, <2>1, OrderMoves DEF LoopCalls, IInv
<1>5. CASE Interrupt
  <2>1. /\ UNCHANGED <<plugins, got, todo>> /\ at[Main] = "loop"
        /\ at' = [at EXCEPT ![Main] = "finish"]
    BY <1>5 DEF Interrupt, Go
  <2> QED
    BY <2>1, OrderMoves DEF IInv, Ending
<1>6. ASSUME NEW t \in {Main, Window}, FinishStep(t) PROVE LoadOrder'
  <2>1. CASE FinishJoins(t)
    BY <2>1, OrderStays DEF FinishJoins, Ending
  <2>2. CASE FinishReturns(t)
    <3>1. /\ UNCHANGED <<plugins, got, todo>> /\ at[t] = "finish"
          /\ \E to \in {"loop", "leave"} : at' = [at EXCEPT ![t] = to]
      BY <2>2 DEF FinishReturns, Go
    <3> QED
      BY <3>1, OrderMoves DEF IInv, Ending
  <2> QED
    BY <1>6, <2>1, <2>2 DEF FinishStep
<1>7. CASE UNCHANGED vars
  BY <1>7, OrderStays DEF vars, Ending
<1> QED
  BY <1>1, <1>2, <1>3, <1>4, <1>5, <1>6, <1>7, WindowKeepsOrder, MainKeepsOrder DEF Next, AtRest

(* load_plugin looks at the end of the list after it gave plugin_lock      *)
(* back.  Its own plugin is still there, with plugins behind it that the   *)
(* other loading thread appended and no others; main's may be missing if   *)
(* the window unloaded it.  For any configuration, offers and names.       *)
THEOREM ReturnsOwn == Spec => []LoadReturnsOwn
<1>1. Init => LoadOrder
  BY ConstantsTyped DEF Init, LoadOrder, LoadReturnsOwn
<1>2. IInv /\ LoadOrder /\ [Next]_vars => LoadOrder'
  BY OrderStep
<1>3. LoadOrder => LoadReturnsOwn
  BY DEF LoadOrder
<1> QED
  BY <1>1, <1>2, <1>3, IInvHolds, PTL DEF Spec
=============================================================================
