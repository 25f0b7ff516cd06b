----------------------------- MODULE SqliteStore -----------------------------
(***************************************************************************)
(* What the sqlite-db plugin keeps over the end of a session, crashes      *)
(* included: the aggregated frames and the states.                         *)
(*                                                                         *)
(* A frame that post_aggregate is given is inserted in the table           *)
(* dataframes, and gets the id of the row that the connection inserted     *)
(* last.  It may change afterwards: when the last reference to it is gone, *)
(* its destructor calls the plugin back, which updates the row of its id.  *)
(* state_change inserts every new value of a state in the table states, by *)
(* the same connection and in another thread: if it comes between the two  *)
(* steps of a frame, the frame gets the id of a row of states.             *)
(* The constructor puts the youngest frames of the table back in the data  *)
(* handler and sets every state to the youngest value of the table; the    *)
(* plugin joins the session's list only when its constructor is done.      *)
(*                                                                         *)
(* SQLite itself is external: a statement is atomic and durable.  Its      *)
(* datetime() cuts times to seconds, and rows of the same second come in   *)
(* any order.  There is one data source and one sqlite-db plugin, which is *)
(* not unloaded.  The clock is not set back.  An update that stays in the  *)
(* queue of set_state is a SetState or RestoreState that comes late or     *)
(* never.                                                                  *)
(***************************************************************************)
EXTENDS Naturals, Sequences, FiniteSets, SequencesExt, FiniteSetsExt

CONSTANTS
  Keys,        (* the names of the states                                   *)
  Values,      (* the values of the states                                  *)
  None,        (* no value, no callback under way                           *)
  MaxAgg,      (* Config::max_agg_packets                                   *)
  MaxRecent,   (* max_recent_data                                           *)
  MaxFrames,   (* bound: how many frames are made                           *)
  MaxEdits,    (* bound: how often frames are changed                       *)
  MaxSets,     (* bound: how often a state is set                           *)
  MaxStarts,   (* bound: how many sessions there are                        *)
  MaxTime      (* bound: the last second of the clock                       *)

ASSUME StoreAssumption ==
  /\ None \notin Values \cup [key : Keys, value : Values]
  /\ {MaxAgg, MaxRecent, MaxFrames, MaxEdits, MaxSets, MaxStarts, MaxTime} \subseteq Nat

VARIABLES
  now,        (* the time, in seconds                                       *)
  starts,     (* how many sessions were started                             *)
  phase,      (* the session: "down", "opening" the plugin, what it keeps   *)
              (* is "restored", or the plugin is "loaded"                   *)
  rows,       (* table dataframes; the df_id of a row is its place          *)
  rowid,      (* what sqlite3_last_insert_rowid returns                     *)
  made,       (* how many frames were made                                  *)
  edits,      (* how often one was changed                                  *)
  objs,       (* the frames in memory: a function on serial numbers         *)
  queue,      (* agg_data: serial numbers                                   *)
  last,       (* the serial number of last_agg, 0 if there is none          *)
  cycle,      (* the aggregation: "idle", started "with" or "without" the   *)
              (* plugin in its list of plugins, in "post"_aggregate, or     *)
              (* there between the insertion of a row and its id, "insert"  *)
  hand,       (* serial numbers of the frames the cycle was given           *)
  todo,       (* those of them post_aggregate has not inserted yet          *)
  sets,       (* how often a state was set                                  *)
  registry,   (* Session::states                                            *)
  aware,      (* the state worker's list of plugins has the plugin          *)
  hook,       (* the state_change callback under way, or None               *)
  restoring,  (* what the constructor has set each state to, until it is    *)
              (* written                                                    *)
  records,    (* table states                                               *)
  truth,      (* history, per row: what its frame has become                *)
  torn,       (* history: rows whose frame a crash cut off                  *)
  mixed,      (* history: rows after which a state was inserted before the  *)
              (* row's frame took its id                                    *)
  spoilt,     (* history: rows that the frame of one in mixed wrote to      *)
  missed,     (* history: states with a value that was not recorded         *)
  final       (* history: what a state was at the end of the session before *)

frameVars == <<rows, made, edits, objs, queue, last, cycle, hand, todo, truth, torn, spoilt>>
idVars == <<rowid, mixed>>
stateVars == <<sets, registry, aware, hook, restoring, records, missed, final>>
vars == <<now, starts, phase, rows, made, edits, objs, queue, last, cycle, hand, todo, truth,
          torn, spoilt, rowid, mixed, sets, registry, aware, hook, restoring, records, missed, final>>

(* id is what the frame takes for its row, update: it has the destructor   *)
(* callback; row (history) is the row that was inserted for it, or 0.      *)
Frame  == [frame : Nat, version : Nat, time : Nat, id : Nat, update : BOOLEAN, row : Nat]
Row    == [frame : Nat, version : Nat, time : Nat]
Record == [key : Keys, value : Values, time : Nat]

NoStates == [k \in Keys |-> None]

Init ==
  /\ now = 0 /\ starts = 0 /\ phase = "down"
  /\ rows = <<>> /\ made = 0 /\ edits = 0 /\ truth = <<>> /\ torn = {} /\ spoilt = {}
  /\ rowid = 0 /\ mixed = {}
  /\ objs = <<>> /\ queue = <<>> /\ last = 0
  /\ cycle = "idle" /\ hand = {} /\ todo = <<>>
  /\ sets = 0 /\ registry = NoStates /\ aware = FALSE /\ hook = None
  /\ restoring = NoStates /\ records = <<>> /\ missed = {} /\ final = NoStates

Up == phase # "down"

Tick ==
  /\ now < MaxTime
  /\ now' = now + 1
  /\ UNCHANGED <<starts, phase, frameVars, idVars, stateVars>>

-----------------------------------------------------------------------------
(* Frames.                                                                 *)

(* Faulty variant: the test whether the plugin is loaded is inverted. *)
NotUpdated(os, gone) == UNCHANGED <<rows, spoilt>>

(* update_in_db of the frames in gone: each writes what it has become to   *)
(* the row of its id, if there is one; of several the last one stays.      *)
Updated(os, gone) ==
  LET writers(i) == {o \in gone : os[o].update /\ os[o].id = i}
      written    == {i \in DOMAIN rows : writers(i) # {}}
  IN  /\ \E by \in [written -> gone] :
           /\ \A i \in written : by[i] \in writers(i)
           /\ rows' = [i \in 1..Len(rows) |->
                IF i \in written
                THEN [frame |-> os[by[i]].frame, version |-> os[by[i]].version, time |-> os[by[i]].time]
                ELSE rows[i]]
      /\ spoilt' = spoilt \cup {i \in written : \E o \in writers(i) : os[o].row \in mixed}

(* Faulty variant: last_agg is a plain pointer. *)
ReleaseUncounted(os, q, l, h) ==
  LET used == ToSet(q) \cup h
  IN  /\ queue' = q /\ last' = l /\ hand' = h
      /\ objs' = [o \in DOMAIN os \cap used |-> os[o]]
      /\ Updated(os, DOMAIN os \ used)

(* q, l and h are all that refers to frames from now on: the others are    *)
(* destroyed, which runs their callbacks.                                  *)
Release(os, q, l, h) ==
  LET used == ToSet(q) \cup {l} \cup h
  IN  /\ queue' = q /\ last' = l /\ hand' = h
      /\ objs' = [o \in DOMAIN os \cap used |-> os[o]]
      /\ Updated(os, DOMAIN os \ used)

(* New frames are tracked one after the other: the oldest are dropped. *)
Track(frames) ==
  LET base  == Max({0} \cup DOMAIN objs)
      fresh == (base + 1)..(base + Len(frames))
      q     == queue \o [i \in 1..Len(frames) |-> base + i]
  IN  Release([o \in DOMAIN objs \cup fresh |-> IF o \in fresh THEN frames[o - base] ELSE objs[o]],
              SubSeq(q, Max({1, Len(q) - MaxAgg + 1}), Len(q)), last, hand)

(* A plugin makes an aggregated frame. *)
CreateAgg ==
  /\ Up /\ made < MaxFrames
  /\ made' = made + 1
  /\ Track(<<[frame |-> made + 1, version |-> 0, time |-> now, id |-> 0, update |-> FALSE,
             row |-> 0]>>)
  /\ UNCHANGED <<now, starts, phase, edits, cycle, todo, truth, torn, idVars, stateVars>>

(* A plugin changes the data of a frame. *)
Edit(o) ==
  /\ edits < MaxEdits
  /\ edits' = edits + 1
  /\ objs' = [objs EXCEPT ![o].version = @ + 1]
  /\ truth' = IF objs[o].row # 0 THEN [truth EXCEPT ![objs[o].row] = objs[o].version + 1] ELSE truth
  /\ UNCHANGED <<now, starts, phase, rows, made, queue, last, cycle, hand, todo, torn, spoilt>>
  /\ UNCHANGED <<idVars, stateVars>>

(* The aggregation takes its copy of the list of plugins. *)
StartCycle ==
  /\ Up /\ cycle = "idle"
  /\ cycle' = IF phase = "loaded" THEN "with" ELSE "without"
  /\ UNCHANGED <<now, starts, phase, rows, made, edits, objs, queue, last, hand, todo, truth>>
  /\ UNCHANGED <<torn, spoilt, idVars, stateVars>>

(* get_new_aggs: the frames behind the last one that was handed out. *)
Collect ==
  LET at  == {0} \cup {i \in DOMAIN queue : queue[i] = last}
      new == SubSeq(queue, Max(at) + 1, Len(queue))
  IN  /\ cycle \in {"with", "without"}
      /\ Release(objs, queue, IF new = <<>> THEN last ELSE Last(new), ToSet(new))
      /\ todo' = IF cycle = "with" THEN new ELSE <<>>
      /\ cycle' = "post"
      /\ UNCHANGED <<now, starts, phase, made, edits, truth, torn, idVars, stateVars>>

(* update_df: a row is inserted for the frame. *)
InsertRow ==
  LET o == objs[Head(todo)]
  IN  /\ cycle = "post" /\ todo # <<>>
      /\ cycle' = "insert"
      /\ rows' = Append(rows, [frame |-> o.frame, version |-> o.version, time |-> o.time])
      /\ rowid' = Len(rows) + 1
      /\ truth' = Append(truth, o.version)
      /\ objs' = [objs EXCEPT ![Head(todo)].row = Len(rows) + 1]
      /\ UNCHANGED <<now, starts, phase, made, edits, queue, last, hand, todo, torn, spoilt>>
      /\ UNCHANGED <<mixed, stateVars>>

(* Faulty variant: the id is asked for before the row is inserted. *)
TakeIdBefore ==
  /\ cycle = "insert"
  /\ cycle' = "post"
  /\ objs' = [objs EXCEPT ![Head(todo)].id = Max({1, rowid - 1}), ![Head(todo)].update = TRUE]
  /\ todo' = Tail(todo)
  /\ UNCHANGED <<now, starts, phase, rows, made, edits, queue, last, hand, truth, torn, spoilt>>
  /\ UNCHANGED <<idVars, stateVars>>

(* The frame gets the id of the row inserted last, and the callback. *)
TakeId ==
  /\ cycle = "insert"
  /\ cycle' = "post"
  /\ objs' = [objs EXCEPT ![Head(todo)].id = rowid, ![Head(todo)].update = TRUE]
  /\ todo' = Tail(todo)
  /\ UNCHANGED <<now, starts, phase, rows, made, edits, queue, last, hand, truth, torn, spoilt>>
  /\ UNCHANGED <<idVars, stateVars>>

(* The cycle returns and lets go of its frames. *)
EndCycle ==
  /\ cycle = "post" /\ todo = <<>>
  /\ cycle' = "idle"
  /\ Release(objs, queue, last, {})
  /\ UNCHANGED <<now, starts, phase, made, edits, todo, truth, torn, idVars, stateVars>>

-----------------------------------------------------------------------------
(* States.                                                                 *)

Of(k) == {i \in DOMAIN records : records[i].key = k}

LastRecorded(k) == IF Of(k) = {} THEN None ELSE records[Max(Of(k))].value

(* Faulty variant: last and next are swapped. *)
WriteSwapped(k, v) ==
  /\ hook = None
  /\ registry' = [registry EXCEPT ![k] = v]
  /\ hook' = IF aware THEN [key |-> k, value |-> registry[k]] ELSE None
  /\ missed' = IF aware \/ LastRecorded(k) = v THEN missed \ {k} ELSE missed \cup {k}

(* The worker of the state registry writes an update and, if the plugin is *)
(* in its list, starts the callback.                                       *)
Write(k, v) ==
  /\ hook = None
  /\ registry' = [registry EXCEPT ![k] = v]
  /\ hook' = IF aware THEN [key |-> k, value |-> v] ELSE None
  /\ missed' = IF aware \/ LastRecorded(k) = v THEN missed \ {k} ELSE missed \cup {k}

(* An update of another plugin. *)
SetState(k, v) ==
  /\ Up /\ sets < MaxSets
  /\ sets' = sets + 1
  /\ Write(k, v)
  /\ UNCHANGED <<now, starts, phase, frameVars, idVars, aware, restoring, records, final>>

(* One of the constructor's. *)
RestoreState(k) ==
  /\ restoring[k] # None
  /\ restoring' = [restoring EXCEPT ![k] = None]
  /\ Write(k, restoring[k])
  /\ UNCHANGED <<now, starts, phase, frameVars, idVars, sets, aware, records, final>>

(* state_change, also between the two steps of a frame. *)
RecordState ==
  /\ hook # None
  /\ records' = Append(records, [key |-> hook.key, value |-> hook.value, time |-> now])
  /\ rowid' = Len(records) + 1
  /\ mixed' = IF cycle = "insert" THEN mixed \cup {Len(rows)} ELSE mixed
  /\ hook' = None
  /\ UNCHANGED <<now, starts, phase, frameVars, sets, registry, aware, restoring, missed, final>>

(* A worker with a new list of plugins takes over. *)
NewWorker ==
  /\ phase = "loaded" /\ ~aware
  /\ hook = None
  /\ aware' = TRUE
  /\ UNCHANGED <<now, starts, phase, frameVars, idVars, sets, registry, hook, restoring, records, missed, final>>

-----------------------------------------------------------------------------
(* Sessions.                                                               *)

Start ==
  /\ phase = "down" /\ starts < MaxStarts
  /\ starts' = starts + 1
  /\ phase' = "opening"
  /\ UNCHANGED <<now, frameVars, idVars, stateVars>>

(* ORDER BY datetime(df_time) DESC LIMIT max_recent_data: the rows that may *)
(* be chosen, oldest id first.                                             *)
Recent ==
  {is \in [1..Min({MaxRecent, Len(rows)}) -> DOMAIN rows] :
    /\ \A m, n \in DOMAIN is : m < n => is[m] < is[n]
    /\ \A i \in ToSet(is), j \in DOMAIN rows \ ToSet(is) : rows[i].time >= rows[j].time}

(* Faulty variant: the order of the rows is forgotten. *)
AnyOf(k) == {records[i].value : i \in Of(k)}

(* ORDER BY datetime(state_time) DESC LIMIT 1, None if there is no row. *)
Youngest(k) ==
  {records[i].value : i \in {j \in Of(k) : \A l \in Of(k) : records[l].time <= records[j].time}}

(* The constructor: frames of the table are tracked, oldest id first, and  *)
(* for every state in the table set_state is called.                       *)
Restore ==
  /\ phase = "opening"
  /\ phase' = "restored"
  /\ \E is \in Recent :
       Track([n \in DOMAIN is |->
         LET row == rows[is[n]]
         IN  [frame |-> row.frame, version |-> row.version, time |-> row.time,
              id |-> is[n], update |-> FALSE, row |-> 0]])
  /\ restoring' \in {r \in [Keys -> Values \cup {None}] :
                       \A k \in Keys : IF Of(k) = {} THEN r[k] = None ELSE r[k] \in Youngest(k)}
  /\ UNCHANGED <<now, starts, made, edits, cycle, todo, truth, torn, idVars>>
  /\ UNCHANGED <<sets, registry, aware, hook, records, missed, final>>

(* load_plugin puts the plugin in the session's list. *)
Load ==
  /\ phase = "restored"
  /\ phase' = "loaded"
  /\ UNCHANGED <<now, starts, frameVars, idVars, stateVars>>

(* The memory of the process is gone. *)
Forget ==
  /\ phase' = "down"
  /\ cycle' = "idle" /\ todo' = <<>>
  /\ registry' = NoStates /\ aware' = FALSE /\ hook' = None /\ restoring' = NoStates
  /\ missed' = {} /\ rowid' = 0
  /\ final' = [k \in Keys |->
       IF registry[k] = None THEN final[k]
       ELSE IF k \in missed \/ (hook # None /\ hook.key = k) THEN None ELSE registry[k]]

(* finish: the threads are joined and the data sources closed, while the   *)
(* plugin is still loaded.                                                 *)
Finish ==
  /\ phase = "loaded" /\ cycle = "idle" /\ hook = None
  /\ Release(objs, <<>>, 0, {})
  /\ Forget
  /\ UNCHANGED <<now, starts, made, edits, truth, torn, mixed, sets, records>>

(* The process ends at any other moment. *)
Crash ==
  /\ Up
  /\ torn' = torn \cup ({objs[o].row : o \in DOMAIN objs} \ {0})
  /\ objs' = <<>> /\ queue' = <<>> /\ last' = 0 /\ hand' = {}
  /\ Forget
  /\ UNCHANGED <<now, starts, rows, made, edits, truth, spoilt, mixed, sets, records>>

AtRest == phase = "down" /\ starts = MaxStarts /\ UNCHANGED vars

Next ==
  \/ Tick
  \/ CreateAgg
  \/ \E o \in DOMAIN objs : Edit(o)
  \/ StartCycle \/ Collect \/ InsertRow \/ TakeId \/ EndCycle
  \/ \E k \in Keys, v \in Values : SetState(k, v)
  \/ \E k \in Keys : RestoreState(k)
  \/ RecordState \/ NewWorker
  \/ Start \/ Restore \/ Load \/ Finish \/ Crash
  \/ AtRest

Spec == Init /\ [][Next]_vars

-----------------------------------------------------------------------------
(* Type invariant: what each variable may hold; nothing refers to a frame  *)
(* that was destroyed.                                                     *)
TypeOK ==
  /\ now \in 0..MaxTime /\ starts \in 0..MaxStarts /\ made \in 0..MaxFrames
  /\ sets \in 0..MaxSets /\ edits \in 0..MaxEdits
  /\ phase \in {"down", "opening", "restored", "loaded"}
  /\ cycle \in {"idle", "with", "without", "post", "insert"}
  /\ rows \in Seq(Row) /\ rowid \in Nat
  /\ \A o \in DOMAIN objs : o \in Nat /\ objs[o] \in Frame
  /\ ToSet(queue) \cup ToSet(todo) \cup hand \cup ({last} \ {0}) \subseteq DOMAIN objs
  /\ registry \in [Keys -> Values \cup {None}]
  /\ restoring \in [Keys -> Values \cup {None}]
  /\ hook \in [key : Keys, value : Values] \cup {None}
  /\ aware \in BOOLEAN
  /\ records \in Seq(Record)
  /\ truth \in Seq(Nat) /\ torn \cup mixed \cup spoilt \subseteq DOMAIN rows
  /\ missed \subseteq Keys /\ final \in [Keys -> Values \cup {None}]

(* No row is lost, and a frame that dies writes to no row but its own,     *)
(* whatever sessions and restored copies of frames came before: a row      *)
(* stays its frame's unless a frame wrote to it that took its id after a   *)
(* state was inserted.                                                     *)
RowsKept ==
  [][/\ Len(rows') >= Len(rows)
     /\ \A i \in DOMAIN rows \ spoilt' :
          rows'[i].frame = rows[i].frame /\ rows'[i].time = rows[i].time]_vars

(* A row holds what its frame has become in the end, unless the frame is   *)
(* still in memory or was when the process crashed; or a state was         *)
(* inserted before that frame, or another that wrote to the row, took its  *)
(* id.                                                                     *)
FinalDataSaved ==
  \A i \in DOMAIN rows \ (mixed \cup spoilt) :
    \/ rows[i].version = truth[i]
    \/ i \in torn
    \/ \E o \in DOMAIN objs : objs[o].row = i

(* The registry and the table agree on a state once its callback is done,  *)
(* unless it was set while the plugin was not in the worker's list.        *)
RegistryRecorded ==
  \A k \in Keys \ missed :
    (registry[k] # None /\ ~(hook # None /\ hook.key = k)) => LastRecorded(k) = registry[k]

(* No other value of k was recorded in the second of the last one. *)
AloneInSecond(k) ==
  \A i \in Of(k) : records[i].time = records[Max(Of(k))].time => records[i].value = LastRecorded(k)

(* A state comes back as the session before left it, if that one had       *)
(* recorded it and no other value of it in the same second.                *)
StatesComeBack ==
  \A k \in Keys :
    (phase = "restored" /\ restoring[k] # None /\ final[k] # None /\ AloneInSecond(k))
      => restoring[k] = final[k]
=============================================================================
