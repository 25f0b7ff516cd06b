------------------------------ MODULE DataFlow ------------------------------
(***************************************************************************)
(* The frames of a session: the DataHandler with its DataSources, the      *)
(* producers that track raw and aggregated frames in them, the main loop   *)
(* that starts an aggregation cycle after every sleep, the cycle's thread  *)
(* (aggregate_function) that hands the new frames to the plugins, and the  *)
(* end of the session as far as it touches the data.                       *)
(*                                                                         *)
(* A data source keeps two bounded queues, of raw and of aggregated        *)
(* frames, and for each a pointer to the last frame it handed out.  The    *)
(* code has one function for each kind (track_raw and track_agg,           *)
(* get_new_raws and get_new_aggs, ...); here the kind is a parameter.      *)
(*                                                                         *)
(* A frame is the number it has among the frames of its source and kind,   *)
(* in the order they were tracked; 0 is the null pointer.                  *)
(***************************************************************************)
EXTENDS Naturals, Sequences, FiniteSets, FiniteSetsExt

CONSTANTS
  Callers,    (* threads of plugins that produce frames                     *)
  Plugins,    (* the loaded plugins; p also names the thread of p's callback *)
  Sources,    (* names of data sources                                      *)
  MaxRaw,     (* Config::max_raw_packets                                    *)
  MaxAgg,     (* Config::max_agg_packets                                    *)
  RawFrames,  (* bound: how many raw frames a source ever tracks            *)
  AggFrames,  (* bound: how many aggregated frames a source ever tracks     *)
  None        (* no call                                                    *)

ASSUME DataAssumption ==
  /\ Callers \cap Plugins = {}
  /\ IsFiniteSet(Callers) /\ IsFiniteSet(Plugins)
  /\ None \notin [kind : {"raw", "agg"}, source : Sources]
  /\ MaxRaw \in Nat /\ MaxAgg \in Nat
  /\ RawFrames \in Nat /\ AggFrames \in Nat

Kinds == {"raw", "agg"}

Capacity(k)  == IF k = "raw" THEN MaxRaw ELSE MaxAgg
MaxFrames(k) == IF k = "raw" THEN RawFrames ELSE AggFrames

VARIABLES
  dump_raw,   (* Config::dump_raw_after_agg                                 *)
  exiting,    (* Session::exiting                                           *)
  main,       (* where the main loop is                                     *)
  cycle,      (* where the aggregation thread is; "none" if there is none   *)
  todo,       (* sources the loop over the sources still has to visit       *)
  hooks,      (* plugins whose pre_ or post_aggregate has not returned      *)
  finish,     (* where the thread that called Session::finish is            *)
  closing,    (* sources close_data_sources has not closed yet              *)
  sources,    (* the keys of DataHandler::data_sources                      *)
  closed,     (* DataHandler::closed                                        *)
  call,       (* per thread: the create_raw or create_agg it is inside      *)
  data,       (* per kind and source: raw_data and agg_data                 *)
  last,       (* per kind and source: last_raw and last_agg                 *)
  made,       (* history, per kind and source: how many frames were tracked *)
  seen,       (* history, per kind and source: what the plugins were given  *)
  fresh       (* history: aggregates this cycle's pre_aggregate has tracked *)

mainVars   == <<dump_raw, exiting, main>>
cycleVars  == <<cycle, todo, hooks>>
finishVars == <<finish, closing, closed>>
queueVars  == <<data, last, made>>
vars == <<dump_raw, exiting, main, cycle, todo, hooks, finish, closing, closed,
          sources, call, data, last, made, seen, fresh>>

Threads == Callers \cup Plugins
Calls   == [kind : Kinds, source : Sources]

CyclePoints  == {"none", "start", "raws", "pre", "clear", "aggs", "post", "over"}
FinishPoints == {"out", "join", "close", "done"}

PerSource(x) == [k \in Kinds |-> [s \in Sources |-> x]]

Init ==
  /\ dump_raw \in BOOLEAN
  /\ exiting = FALSE
  /\ main = "loop"
  /\ cycle = "none"
  /\ todo = {}
  /\ hooks = {}
  /\ finish = "out"
  /\ closing = {}
  /\ closed = FALSE
  /\ sources = {}
  /\ call = [t \in Threads |-> None]
  /\ data = PerSource(<<>>)
  /\ last = PerSource(0)
  /\ made = PerSource(0)
  /\ seen = PerSource(<<>>)
  /\ fresh = [s \in Sources |-> {}]

-----------------------------------------------------------------------------
(* Producers.                                                              *)

(* A thread that may call the data handler: one of a plugin's own, or the  *)
(* one that runs its callback.                                             *)
Running(t) == t \in Callers \cup hooks

(* create_data_source, called by any thread.  A loop of close_data_sources *)
(* that is under way visits the new source or not.                         *)
CreateDataSource(s) ==
  /\ ~closed
  /\ s \notin sources
  /\ sources' = sources \cup {s}
  /\ \/ closing' = closing
     \/ finish = "close" /\ closing' = closing \cup {s}
  /\ UNCHANGED <<mainVars, cycleVars, finish, closed, call, queueVars, seen, fresh>>

(* The threads that are inside create_raw or create_agg with c. *)
Inside(c) == {u \in Threads : call[u] = c}

(* create_raw, create_agg: the tests.  A call that fails them changes      *)
(* nothing and is no step.                                                 *)
BeginCreate(t, c) ==
  /\ Running(t)
  /\ call[t] = None
  /\ ~closed
  /\ c.source \in sources
  /\ made[c.kind][c.source] + Cardinality(Inside(c)) < MaxFrames(c.kind)
  /\ call' = [call EXCEPT ![t] = c]
  /\ UNCHANGED <<mainVars, cycleVars, finishVars, sources, queueVars, seen, fresh>>

(* Faulty variant: one frame too many is dropped (>= for >). *)
NewestButOne(q, max) ==
  IF Len(q) >= max THEN SubSeq(q, Len(q) - max + 2, Len(q)) ELSE q

(* The queue without its oldest frames, if it is over the limit. *)
Newest(q, max) == IF Len(q) > max THEN SubSeq(q, Len(q) - max + 1, Len(q)) ELSE q

(* track_raw, track_agg: the frame is appended and the oldest are dropped, *)
(* under the queue's lock.                                                 *)
Track(t) ==
  LET k == call[t].kind
      s == call[t].source
      f == made[k][s] + 1
  IN  /\ call[t] # None
      /\ made' = [made EXCEPT ![k][s] = f]
      /\ data' = [data EXCEPT ![k][s] = Newest(Append(@, f), Capacity(k))]
      /\ call' = [call EXCEPT ![t] = None]
      /\ fresh' = IF cycle \in {"pre", "clear", "aggs"} /\ t \in hooks /\ k = "agg"
                  THEN [fresh EXCEPT ![s] = @ \cup {f}]
                  ELSE fresh
      /\ UNCHANGED <<mainVars, cycleVars, finishVars, sources, last, seen>>

-----------------------------------------------------------------------------
(* The main loop.                                                          *)

(* The sleep is over and the two tests of exiting, the loop's and that of  *)
(* aggregate_data, find the session running.                               *)
MainContinues ==
  /\ main = "loop"
  /\ ~exiting
  /\ main' = "join"
  /\ UNCHANGED <<dump_raw, exiting, cycleVars, finishVars, sources, call>>
  /\ UNCHANGED <<queueVars, seen, fresh>>

(* They do not.  The finish() of main returns at once: exiting is set. *)
MainStops ==
  /\ main = "loop"
  /\ exiting
  /\ main' = "stopped"
  /\ UNCHANGED <<dump_raw, exiting, cycleVars, finishVars, sources, call>>
  /\ UNCHANGED <<queueVars, seen, fresh>>

(* The last cycle is waited for. *)
MainJoins ==
  /\ main = "join"
  /\ cycle \in {"none", "over"}
  /\ cycle' = "none"
  /\ main' = "spawn"
  /\ UNCHANGED <<dump_raw, exiting, todo, hooks, finishVars, sources, call>>
  /\ UNCHANGED <<queueVars, seen, fresh>>

(* A new cycle gets its thread. *)
MainSpawns ==
  /\ main = "spawn"
  /\ cycle' = "start"
  /\ main' = "loop"
  /\ UNCHANGED <<dump_raw, exiting, todo, hooks, finishVars, sources, call>>
  /\ UNCHANGED <<queueVars, seen, fresh>>

-----------------------------------------------------------------------------
(* The aggregation cycle, aggregate_function.                              *)

Goto(point) == cycle' = point

(* get_sources(), for the loop over the raw frames. *)
StartCycle ==
  /\ cycle = "start"
  /\ Goto("raws")
  /\ todo' = sources
  /\ fresh' = [s \in Sources |-> {}]
  /\ UNCHANGED <<mainVars, hooks, finishVars, sources, call, queueVars, seen>>

(* Faulty variants of the search for the new frames: what was handed out   *)
(* is not cut off; nothing is found once the last one handed out is gone.  *)
AllFrames(q, l) == q

NewSinceFound(q, l) ==
  IF l = 0 THEN q
  ELSE IF l \in {q[i] : i \in 1..Len(q)}
       THEN SubSeq(q, 1 + Max({i \in 1..Len(q) : q[i] = l}), Len(q))
       ELSE <<>>

(* Everything behind the frame l in the queue q; the whole queue if l is   *)
(* not in it.                                                              *)
NewSince(q, l) == SubSeq(q, 1 + Max({0} \cup {i \in 1..Len(q) : q[i] = l}), Len(q))

(* Faulty variant: back() of what may be empty is stored without a test. *)
CollectUntested(k, s) ==
  LET new == IF closed THEN <<>> ELSE NewSince(data[k][s], last[k][s])
  IN  /\ s \in todo
      /\ cycle = IF k = "raw" THEN "raws" ELSE "aggs"
      /\ todo' = todo \ {s}
      /\ last' = [last EXCEPT ![k][s] = IF new = <<>> THEN None ELSE new[Len(new)]]
      /\ seen' = [seen EXCEPT ![k][s] = @ \o new]
      /\ UNCHANGED <<mainVars, cycle, hooks, finishVars, sources, call, data, made, fresh>>

(* get_new_raws, get_new_aggs for one source: the test, the copy of the    *)
(* queue under its lock, and the search that ends with the store of the    *)
(* pointer.  They are one step because nobody else uses the pointer as     *)
(* long as the source is open.  What a close between them does is left     *)
(* out: the search finds the pointer reset and hands out all of the copy   *)
(* again.  The properties below speak of open sources for this reason.     *)
Collect(k, s) ==
  LET new == IF closed THEN <<>> ELSE NewSince(data[k][s], last[k][s])
  IN  /\ s \in todo
      /\ cycle = IF k = "raw" THEN "raws" ELSE "aggs"
      /\ todo' = todo \ {s}
      /\ last' = IF new = <<>> THEN last ELSE [last EXCEPT ![k][s] = new[Len(new)]]
      /\ seen' = [seen EXCEPT ![k][s] = @ \o new]
      /\ UNCHANGED <<mainVars, cycle, hooks, finishVars, sources, call, data, made, fresh>>

(* One thread per plugin runs pre_aggregate on what was collected. *)
CallPreAggregate ==
  /\ cycle = "raws"
  /\ todo = {}
  /\ Goto("pre")
  /\ hooks' = Plugins
  /\ UNCHANGED <<mainVars, todo, finishVars, sources, call, queueVars, seen, fresh>>

(* A callback of p returns. *)
HookReturns(p) ==
  /\ p \in hooks
  /\ call[p] = None
  /\ hooks' = hooks \ {p}
  /\ UNCHANGED <<mainVars, cycle, todo, finishVars, sources, call>>
  /\ UNCHANGED <<queueVars, seen, fresh>>

(* Faulty variant: the pre_aggregate calls are not joined. *)
SkipPreAggregate ==
  /\ cycle = "pre"
  /\ Goto(IF dump_raw THEN "clear" ELSE "aggs")
  /\ todo' = sources
  /\ UNCHANGED <<mainVars, hooks, finishVars, sources, call, queueVars, seen, fresh>>

(* All pre_aggregate calls are joined; get_sources(), for the next loop.   *)
JoinPreAggregate ==
  /\ cycle = "pre"
  /\ hooks = {}
  /\ Goto(IF dump_raw THEN "clear" ELSE "aggs")
  /\ todo' = sources
  /\ UNCHANGED <<mainVars, hooks, finishVars, sources, call, queueVars, seen, fresh>>

(* clear_raw for one source, only if the session dumps raw frames. *)
ClearRaw(s) ==
  /\ cycle = "clear"
  /\ s \in todo
  /\ data' = [data EXCEPT !["raw"][s] = <<>>]
  /\ todo' = todo \ {s}
  /\ UNCHANGED <<mainVars, cycle, hooks, finishVars, sources, call, last, made, seen, fresh>>

AllCleared ==
  /\ cycle = "clear"
  /\ todo = {}
  /\ Goto("aggs")
  /\ todo' = sources
  /\ UNCHANGED <<mainVars, hooks, finishVars, sources, call, queueVars, seen, fresh>>

CallPostAggregate ==
  /\ cycle = "aggs"
  /\ todo = {}
  /\ Goto("post")
  /\ hooks' = Plugins
  /\ UNCHANGED <<mainVars, todo, finishVars, sources, call, queueVars, seen, fresh>>

JoinPostAggregate ==
  /\ cycle = "post"
  /\ hooks = {}
  /\ Goto("over")
  /\ UNCHANGED <<mainVars, todo, hooks, finishVars, sources, call, queueVars, seen, fresh>>

CycleStep ==
  \/ StartCycle
  \/ \E k \in Kinds, s \in Sources : Collect(k, s)
  \/ CallPreAggregate
  \/ JoinPreAggregate
  \/ \E s \in Sources : ClearRaw(s)
  \/ AllCleared
  \/ CallPostAggregate
  \/ JoinPostAggregate

-----------------------------------------------------------------------------
(* Session::finish, called by a thread other than main's.                  *)

FinishBegins ==
  /\ ~exiting
  /\ exiting' = TRUE
  /\ finish' = "join"
  /\ UNCHANGED <<dump_raw, main, cycleVars, closing, closed, sources, call>>
  /\ UNCHANGED <<queueVars, seen, fresh>>

(* Faulty variant: there is no test whether there is a thread to join. *)
FinishJoinsBlindly ==
  /\ finish = "join"
  /\ cycle = "over"
  /\ cycle' = "none"
  /\ finish' = "close"
  /\ closing' = sources
  /\ UNCHANGED <<mainVars, todo, hooks, closed, sources, call, queueVars, seen, fresh>>

(* aggregate_thread is joined if there is one. *)
FinishJoins ==
  /\ finish = "join"
  /\ cycle \in {"none", "over"}
  /\ cycle' = "none"
  /\ finish' = "close"
  /\ closing' = sources
  /\ UNCHANGED <<mainVars, todo, hooks, closed, sources, call, queueVars, seen, fresh>>

(* close() of one source: both queues are emptied. *)
CloseSource(s) ==
  /\ s \in closing
  /\ closing' = closing \ {s}
  /\ data' = [k \in Kinds |-> [data[k] EXCEPT ![s] = <<>>]]
  /\ last' = [k \in Kinds |-> [last[k] EXCEPT ![s] = 0]]
  /\ UNCHANGED <<mainVars, cycleVars, finish, closed, sources, call, made, seen, fresh>>

FinishCloses ==
  /\ finish = "close"
  /\ closing = {}
  /\ closed' = TRUE
  /\ finish' = "done"
  /\ UNCHANGED <<mainVars, cycleVars, closing, sources, call, queueVars, seen, fresh>>

(* The loop has ended, the data is closed and no cycle runs. *)
AtRest ==
  /\ main = "stopped" /\ finish = "done" /\ cycle \in {"none", "over"}
  /\ UNCHANGED vars

Next ==
  \/ \E s \in Sources : CreateDataSource(s)
  \/ \E t \in Threads : Track(t) \/ \E c \in Calls : BeginCreate(t, c)
  \/ MainContinues \/ MainStops \/ MainJoins \/ MainSpawns
  \/ CycleStep
  \/ \E p \in Plugins : HookReturns(p)
  \/ FinishBegins \/ FinishJoins
  \/ \E s \in Sources : CloseSource(s)
  \/ FinishCloses
  \/ AtRest

Spec == Init /\ [][Next]_vars

(* The main loop, the cycle's thread and finish are scheduled, and a       *)
(* callback returns once its calls of the data handler have.               *)
LiveSpec ==
  /\ Spec
  /\ WF_vars(MainContinues \/ MainStops \/ MainJoins \/ MainSpawns)
  /\ WF_vars(CycleStep)
  /\ \A p \in Plugins : WF_vars(HookReturns(p) \/ Track(p))
  /\ WF_vars(FinishJoins \/ (\E s \in Sources : CloseSource(s)) \/ FinishCloses)

-----------------------------------------------------------------------------
(* Type invariant: what each variable may hold. *)
TypeOK ==
  /\ dump_raw \in BOOLEAN /\ exiting \in BOOLEAN /\ closed \in BOOLEAN
  /\ main \in {"loop", "join", "spawn", "stopped"}
  /\ cycle \in CyclePoints
  /\ finish \in FinishPoints
  /\ todo \in SUBSET Sources /\ closing \in SUBSET Sources /\ sources \in SUBSET Sources
  /\ hooks \in SUBSET Plugins
  /\ call \in [Threads -> Calls \cup {None}]
  /\ data \in [Kinds -> [Sources -> Seq(Nat)]]
  /\ seen \in [Kinds -> [Sources -> Seq(Nat)]]
  /\ last \in [Kinds -> [Sources -> Nat]]
  /\ made \in [Kinds -> [Sources -> Nat]]
  /\ fresh \in [Sources -> SUBSET Nat]

Elements(q) == {q[i] : i \in 1..Len(q)}

(* close() has been called on s. *)
Emptied(s) == finish \in {"close", "done"} /\ s \notin closing

(* A frame is handed to the plugins once at most and never after a younger *)
(* one of its source and kind, whatever was dropped, cleared or tracked    *)
(* between two cycles, as long as the source is open.                      *)
DeliveredOnceInOrder ==
  \A k \in Kinds, s \in Sources : ~Emptied(s) =>
    \A i, j \in 1..Len(seen[k][s]) : i < j => seen[k][s][i] < seen[k][s][j]

(* A frame was handed out, will be by the next cycle, or so many younger   *)
(* ones were tracked that the queue could not hold it.                     *)
Kept(k, s) ==
  \A f \in 1..made[k][s] :
    \/ f \in Elements(seen[k][s])
    \/ f \in Elements(data[k][s]) /\ f > last[k][s]
    \/ made[k][s] - f >= Capacity(k)

(* Frames are lost by the limits of the queues only, as long as raw frames *)
(* are not dumped and the source is open.                                  *)
LostByLimitsOnly ==
  \A k \in Kinds, s \in Sources :
    (~Emptied(s) /\ ~(k = "raw" /\ dump_raw)) => Kept(k, s)

(* Every aggregate a pre_aggregate callback has tracked in this cycle is   *)
(* handed to the post_aggregate callbacks of the same cycle.               *)
AggregatesReachPost ==
  cycle = "post" =>
    \A s \in Sources : \A f \in fresh[s] :
      \/ f \in Elements(seen["agg"][s])
      \/ made["agg"][s] - f >= MaxAgg
      \/ Emptied(s)

(* A raw frame reaches the plugins, unless the queue is too short for it,  *)
(* raw frames are dumped or the session ends.                              *)
FramesReachPlugins ==
  \A s \in Sources : \A f \in 1..RawFrames :
    (made["raw"][s] >= f) ~>
      (f \in Elements(seen["raw"][s]) \/ made["raw"][s] - f >= MaxRaw \/ dump_raw \/ exiting)

(* Once the session ends, the loop stops and finish gets to its end. *)
SessionEnds == exiting ~> (main = "stopped" /\ finish = "done")
=============================================================================
