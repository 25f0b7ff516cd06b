# FPSI in TLA+

FPSI is a small C++ program that collects data, keeps a registry of states and
exchanges messages between nodes. Nearly everything in it is done by plugins,
which the session calls on threads of their own. The code is short; what is
hard about it is who runs at the same time as whom. These specifications are
about that: which thread holds which lock, what it has read and still believes,
and what it waits for.

Paths below are paths in the repository. `session.cpp` is
`src/session/session.cpp`.

## 1. The system

| Component | State | Operations | Interacts with |
|---|---|---|---|
| **State registry** (`session.cpp:127-179`) | `states`, and in `set_state`: `state_queue`, `set_state_lock`, `state_queue_lock`; `state_thread` | `set_state`, `get_state`, `get_state_keys` | starts a worker, which runs every plugin's `state_change` in threads; plugins call `set_state` from anywhere, callbacks included |
| **Data handler, data sources** (`src/data/`) | the map of sources, `closed`; per source two bounded queues and `last_raw`, `last_agg` | `create_data_source`, `create_raw`, `create_agg`, `get_new_raws`, `get_new_aggs`, `clear_raw`, `close_data_sources` | plugins' threads produce, the aggregation cycle consumes, `finish` closes |
| **Aggregation** (`session.cpp:50-104`, `main.cpp:50-54`) | `aggregate_thread` | `aggregate_data` | runs `pre_aggregate` and `post_aggregate` of every plugin in threads |
| **Messages** (`session.cpp:181-265`) | `broadcast_thread`, `receive_thread`, their locks, `node_times` | `broadcast`, `receive` | plugins call both; `receive` broadcasts again what it has accepted |
| **ZeroMQ plugin** (`plugins/zeromq`) | socket, `comm_lock`, `recv_thread` | receiving loop, `broadcast` callback | calls `receive`, is called by `broadcast` |
| **Network of nodes** | one `node_times` per node | messages flood over pair sockets | |
| **End of a session** (`session.cpp:366-390`, `main.cpp`) | `exiting` | `finish` | called by the interrupt handler, the window of imgui-gui and main |
| **Plugin registry** (`session.cpp:267-360`) | `plugins`, `plugin_lock`, the life of each plugin | `load_plugin`, `unload_plugin`, `get_plugin`, `get_loaded_plugins`, `~Session` | everybody takes copies of the list; who drops the last reference runs the destructor |
| **imgui-gui plugin** (`plugins/imgui-gui`) | `gui_thread` | `event_loop`, load, unload and quit buttons, destructor | its thread walks a copy of the list in every frame, loads, unloads and calls `finish` |
| **Dataframes** (`src/data/dataframe.cpp`) | id, data, destructor callbacks | setters, destruction when the last reference goes | sqlite-db adds a callback |
| **sqlite-db plugin** (`plugins/sqlite-db`) | tables `dataframes` and `states` | restore at construction, `post_aggregate`, `state_change`, update at a frame's end | |
| **Pacing** (`src/util/time.cpp`, `agg_delay_ms`) | `last_time` | `active_sleep_since_last` | main loop |
| Configuration, YAML conversion, logging, times as text, other plugins | | | not modelled, section 8 |

Hard behaviours, each listed at its line under `hazards` in PROJECT.json:
locks that one thread takes and another releases; snapshots of the plugin list
that are older than the list; joins of threads that themselves wait; `exiting`,
a flag tested and set without a lock; frames evicted between two collections;
messages that come twice, late or in a circle, from nodes whose clocks are set
back; plugins that are destroyed by whoever happens to hold the last reference,
their own thread included; crashes between a row's insertion and its update;
ids made of times that are too coarse, or asked for a step too late.

What makes each component correct:

- State registry: updates take effect one after the other, in the order they
  were queued; plugins are told what really changed; `set_state` never blocks
  on a callback.
- Data and aggregation: no frame is handed out twice or out of order, none is
  lost except by the configured limits, an aggregate made in a cycle is handed
  out in that cycle.
- Messages: what leaves a socket, is forwarded, or is accepted keeps the order
  of its sender, without copies, and without gaps but for sends that failed; all plugins
  hear a message first.
- Network: each message is heard once by each node, and by all of them.
- End: `finish` leaves behind only what was being started when it began, and returns.
- Plugin registry: the session calls a plugin only while it is alive; the plugin dies
  when no copy of the list refers to it any more; its destructor keeps nobody else from
  going on; `load_plugin` returns the plugin it loaded.
- sqlite-db: a row belongs to one frame for ever and holds its last version;
  states come back.

## 2. Modules

| Module | Models | Kind |
|---|---|---|
| `UpdateQueue` | what the state registry promises: one queue of updates | abstract specification |
| `StateRegistry` | `set_state`, its worker, its callbacks | detailed, implements `UpdateQueue` |
| `PluginRegistry` | `load_plugin`, `unload_plugin`, copies of the list, destructors, `~Session`, the window | detailed |
| `MCPluginRegistry` | values of its constants | for TLC |
| `DataFlow` | data handler, sources, aggregation, end of the data | detailed |
| `ForwardingNode` | what a node promises the others: younger messages only, one at a time, each passed on once | abstract specification |
| `Messaging` | `broadcast`, `receive`, ZeroMQ plugin, inside one node | detailed, implements `ForwardingNode` |
| `Gossip` | the same between nodes, one step per handler | detailed, one level above `Messaging`; each node implements `ForwardingNode` |
| `Shutdown` | the frame shared by the four operations that start threads, and `finish` | detailed, one level above the others |
| `SqliteStore` | sqlite-db over several sessions, frames as counted references | detailed |
| `X_proofs` for `StateRegistry`, `PluginRegistry`, `DataFlow`, `ForwardingNode`, `Messaging`, `Gossip`, `Shutdown`, `SqliteStore` | theorems about `X` | proofs |

Each configuration file names its module: `X.cfg` and the `X...cfg` variants are run on
`X.tla`, those of `PluginRegistry` on `MCPluginRegistry.tla`. Names are those of the code
wherever it has one; a variable's comment says which member, static or local it stands for,
and `map` in PROJECT.json gives the lines of every definition. A definition marked "faulty
variant" is a mistake one might make in the code; it is part of no specification, but
PROJECT.json names it under `mutants`: put in the place of the definition it stands before,
it breaks the property named there.

### StateRegistry

A thread inside `set_state` is at a point `pc`: *push* (it wants
`state_queue_lock`), *try* (`try_lock`), *join*, *spawn*, *assign*. Points
lie where another thread can get in between: before every lock, before the
join, and between the start of the new thread and the assignment of its handle
to `state_thread`, since a thread runs before its handle is stored. The
copy of the queue, the assignment and the clear happen under
`state_queue_lock`, which `queue_lock` models.

The worker goes *start* (copies the plugin list), *next* (`get_state`),
*write*, *hooks*, *unlock*, *leaving* (after the unlock, before its copies are
destroyed), *over*. `get_state` and the write take `state_lock` separately, so
they are two steps. The callbacks are threads: `hooks` holds those that have
not returned, and a plugin in `hooks` may itself be inside `set_state`.
Plugins are loaded and unloaded at any moment; unloading one that is in the
worker's copy leaves its destructor to the worker (`LeaveDestroying`).

A second start over a joinable handle is `SpawnTerminates`: it ends all
activity, as `std::terminate` does.

### PluginRegistry

A plugin's `life` goes from *out* through *alive* and *dying*, its destructor
running in the thread `by`, to *dead*. References are what the code's
`shared_ptr`s are: the list has one, every copy of it (`held`), and the plugin a
caller of `load_plugin` was returned (`got`). `LetGo` is the end of a
reference: if it was the last, the destructor begins, in that thread and
nowhere else. A copy of the list is destroyed element by element
(`Drop`), with a destructor in between wherever one runs. `Unload` is all that
`unload_plugin` does under `plugin_lock`; the lock stays taken if the
destructor of what it found begins there, since `found_plugin` is destroyed
before the guard.

Two of the session's threads walk copies, those of `aggregate_data` and `broadcast`, one
restarted by main and one by the loop of an echoecho. The callbacks run in threads of their
own, on plain pointers: `calling` says of which plugins, from the copy to the join, and is
no reference. The threads of `receive` and `set_state` do the same and would add states, no new
case: they are in the modules of their own. The window is *open* between two frames, then
*draw*s, walks its copy (*frame*) and may press one button; it *leave*s its frame by
dropping its copy. A destructor joins what the plugin's joins: the loop of echoecho, which
ends with the session, the counter's, which is told to end, the window's, which throws when
it is the thread it runs in. Names may clash, as they may in the code: `load_plugin` does
not compare them, and `unload_plugin` takes the first plugin of a name. What the user typed
or configured may be no JSON: `LoadThrows` ends the process, since nobody catches what
`json::parse` throws (`imgui-gui.cpp:271`); `crashed` tells this (*thrown*) from a thread
that joins itself and from `back()` of an empty list (*fault*). `finish` is here only as far
as its joins matter; its races are those of `Shutdown`. An interrupt is taken while main
sleeps.

### DataFlow

Frames are numbered per source and kind. One definition serves raw and
aggregated frames where the code has two equal functions. `create_raw` and
`create_agg` are two steps, the test of `closed` (`BeginCreate`) and the
tracking under the queue's lock with eviction (`Track`). The cycle visits the
sources in any order, one step per source and function; callbacks run at once
and only aggregates they track before they return count for their cycle. `Collect` is the
test of `closed`, the copy of one queue and the search for the last frame in one step. Nobody
else uses the pointer while the source is open; what a close in between does is in section 5,
and `DeliveredOnceInOrder` and `LostByLimitsOnly` are about open sources.
`dump_raw` is chosen at the start: both configurations are checked.

`create_data_source` inserts in a `std::map` that other threads read
without a lock. That is undefined behaviour with no useful bound on its outcomes;
the model makes the insertion atomic, so nothing here says that it is safe.

### Messaging

A caller of `broadcast` is at *lock* or *join*; the thread it starts runs one callback per
plugin (`out_hooks`). A ZeroMQ loop is at *top* (tests `exiting`), *want* (`comm_lock`),
*held* (reads), *lock* (`receive_lock`), *join*. The loop holds `comm_lock` all the way
through `receive`, as the code does. The client and the server loop are the same code but
for the socket. The thread of `receive` first runs the callbacks (`in_hooks`), then is
itself a caller of `broadcast` (`Relay`). Messages that arrive have any sender, this node
and none included, and any time, so copies and stale ones are among them. ZeroMQ is
external: a `zmq_send` that succeeds returns once another node is connected (`SocketSends`).
It may also fail or be short, at any time; that is logged, and nobody sends the message
again: `SocketFails` leaves `None` in its place on the `wire`.

For the abstract node what was `accepted` is received, and the message of the receive thread is
pending from its acceptance until `broadcast` has packed it.

### Gossip

A node is what its peers see of `Messaging`: it accepts by `node_times`, hands the message
on to all links, itself being one of the senders. A message carries the time its sender's
clock showed, which may be that of the message before, or an earlier one after the clock was
set back. The nodes see times only; the numbers the messages have in the model are history.
Links are FIFO and lossless, as pair sockets are while they are connected and `zmq_send`
does not fail. A send that fails loses the message for the node behind the link, so that
`NoGaps` and `ReachesAllNodes` say nothing of it; `Messaging` has those sends. The
abstraction leaves out the threads, and with them the circular wait of section 5. That it
leaves out nothing else of a node's doings is what `ForwardingNode` is for: it is
implemented by the threads of `Messaging` and, seen through the times its messages carry, by
each node here.

### Shutdown

`receive`, `broadcast`, `aggregate_data` and `set_state` share a frame: test `exiting`,
lock, test and join the old thread, start the new one. `Enter`, `Lock`, `Join` and `Start`
are those steps, with the slot as a parameter; set_state only tries its lock and gives it to
its thread. `finish` tests and joins the slots in the order of `FinishOrder`, without any
lock. Main leaves its loop when the session is exiting, wherever another `finish` is, and
destroys the session. What it waits for are destructors of plugins, and those run in main
only if no copy of the list keeps the plugins alive (`Copied`): a thread of the session that
has not ended has one, and a window has one from the copy in its frame (`FrameCopies`) to
the end of that frame. So main does not wait for a window that is inside `finish` because
its button was pressed, and waits for one that calls it after its last frame. A broadcast's
thread may be *blocked* in a send without a peer.

### SqliteStore

Frames are objects that live while the queue, `last_agg` or a running cycle refers to them;
`Release` says what is referred to from now on, destroys the rest and runs their callbacks,
which is what the `shared_ptr`s do. A frame is inserted in two steps, the INSERT
(`InsertRow`) and `sqlite3_last_insert_rowid` with the callback (`TakeId`). `state_change`
inserts by the same connection in another thread (`RecordState`), also between the two: the
frame then has the number of a row of the other table. `mixed` and `spoilt` name the rows
whose frame took such a number, and those that such a frame wrote to. Statements are atomic
and durable (SQLite is external). Times are seconds, since `datetime()` cuts to seconds, and
rows of the same second come in any order. A session ends by `Finish` or at any moment by
`Crash`; then the next one starts from the tables. There is one data source and one
sqlite-db plugin. The clock does not go back here: after a clock that was set back the
youngest record is not the last one. A `set_state` of the constructor may be stranded in the
queue like any other (finding 1): it is a `RestoreState` that comes late or never.
`StatesComeBack` speaks of what the constructor asks for, not of when it is written.

## 3. Runs

`state_registry` and the others are the names in PROJECT.json.

| Run | Bounds | Distinct states | Shows |
|---|---|---|---|
| `state_registry` | 2 callers, 1 plugin that also calls, 2 keys, 2 values, 3 calls | 520,112 | lock handed over, plugins' copies agree, refinement of `UpdateQueue`, `set_state` returns |
| `state_registry_stranded` | 1 caller, 1 plugin, 2 calls | violation | an update stays in the queue (finding 1) |
| `data_flow` | 1 thread, 1 plugin, 1 source, 3 raw and 2 aggregated frames, queues of 2 and 1 | 219,618 | order and loss of the frames of open sources; progress, also after eviction and clearing; the end |
| `messaging` | 1 sender, 2 sockets, 1 peer, 1 sent, 2 read, 1 failed send for each socket | 2,073,680 | order on the wire, forwarding, acceptance, refinement of `ForwardingNode` |
| `messaging_live` | 1 sender, 1 socket, 1 other plugin whose `receive` may broadcast | 56,475 | progress unless blocked, the circular wait is final |
| `messaging_circular` | same, no exception for the circular wait | violation | finding 2 |
| `gossip` | triangle of 3 nodes, the sender behind one of them, 3 messages, times 1 to 3, clock set back once | 62,164 | once, in order, no gaps, reaches all, each node refines `ForwardingNode` |
| `gossip_same_time` | 2 nodes, 2 messages | violation | finding 3 |
| `shutdown` | 1 plugin thread, window, main, 3 calls | 319,344 | what may be left behind, quiet, `finish` returns unless stuck |
| `plugin_registry` | window and counter configured, an echoecho on offer under the counter's name | 449,017 | who calls, loads, destroys and waits for plugins; the end is reached |
| `plugin_registry_killed` | same | violation | finding 4 |
| `sqlite_store` | 1 state, 2 values, 2 frames, queue of 1, 2 sessions, 2 seconds | 2,620,471 | rows, last versions, states over a crash |

Why the bounds are enough for what is asked:

- Registry: three calls are a worker, an update queued while it runs, and a third caller
  that finds the lock either way; the finding needs two. Two keys tell a mixed-up key from a
  mixed-up value.
- Data: three raw frames over a queue of two force eviction, also of
  the frame `last_raw` points to. Sources share nothing but the flag
  `closed` and the order in which a cycle visits them, so one source shows what
  several would.
- Messages: two sockets are needed for two loops inside `receive`, two incoming messages for
  a thread to join. Times 0 and 1 make equal, older and younger messages. One failed send
  for each socket makes either of two messages, or the last, the missing one.
- Gossip: the triangle makes copies come by two ways and go round; two nodes hear of
  the sender by forwarding only. Three messages are one of the usual kind, one with a
  time set back, and one for which the clock has caught up. The theorems of section 6
  say the same of every network.
- Shutdown: every one of the four slots may be filled by each caller, three times in all,
  so a slot is refilled, or three slots are filled, while two threads finish.
- Plugin registry: three plugins of the three kinds there are: the window, one
  whose destructor waits for the end of the session, one whose destructor ends of itself.
  The loaded one may be unloaded while nobody, the cycle, the broadcast or both hold
  copies, and the configured ones at the end. Two of them have one name, so that the window
  unloads the counter when it means the echoecho, and the echoecho next.
- Store: a queue of one and two frames make a frame die by eviction in the cycle that
  inserted it or later; two sessions with two seconds give records of equal and of different
  times. Two values set are enough for a state inserted between the two steps of either
  frame, before which none, one or both rows are there.

The bounds that cut an unbounded counter are the constants `Max...`,
`RawFrames` and `AggFrames`; their comments say *bound*. When they are reached the systems
come to rest, which is an action `AtRest` (a self-loop) where deadlock is
checked. `Messaging` and `PluginRegistry` are run without deadlock checking,
because the code does deadlock: finding 2, and the `CircularWait` of the
registry, where the broadcast's thread drops the last reference to an unloaded
echoecho and its destructor waits for the loop that waits for that thread.

## 4. Fairness

- `StateRegistry`: weak fairness of each thread inside `set_state` and of the
  worker. They only wait for locks of which the holder is never held up, and
  for the previous worker. Callbacks and destructors get none in `LiveSpec`:
  `SetStateReturns` holds even if they hang. `WellBehavedSpec` adds them, to make the
  finding the stronger.
- `DataFlow`: weak fairness of main, the cycle, callbacks and finish: threads
  that are scheduled, callbacks that return. Producers get none.
- `Messaging`: weak fairness of threads and callbacks, strong fairness where a
  mutex is contended again and again. `std::mutex` is not fair, and the ZeroMQ
  loop, which never sleeps, releases `comm_lock` only to take it again. So
  this is an assumption about the scheduler, not something the code ensures; without
  it even `broadcast` could starve. Whether somebody connects to a socket is
  left open: hence `SendBlocked`.
- `Gossip`: weak fairness of reading from each link and of forwarding at each node.
- `PluginRegistry`: weak fairness of main, the window, the session's threads and
  destructors that can go on; for a loop of echoecho of what it has begun
  and of its end, not of calling again. `EndIsReached` and
  `UnloadedIsDestroyed` name what may stop them: two threads in a circular
  wait, a destructor that waits for the session's end.
- `Shutdown`: weak fairness of calls under way, of `finish`, and of the session's threads,
  which end if their callbacks return. The callbacks of `broadcast` need not: one may wait
  for a `comm_lock` that a plugin holds over `receive`, which joins the thread that waits
  for this broadcast (finding 2), or for a peer. So its thread gets strong fairness of
  ending while no plugin is inside `receive` and no send blocks, and none otherwise: a mutex
  that is free again and again is got, as in `Messaging`. `FinishEnds` excepts the circular
  wait and the send that blocks for ever. Nobody is obliged to call.

## 5. Findings

Runs that expect a violation check what a comment of the code says.

1. **A queued update is stranded** (`session.cpp:169-170`). "If state thread is not running,
   go ahead and run thread": a caller that comes while the worker is done with its batch but
   has not unlocked finds the lock taken and leaves; the same happens to every `set_state`
   called from a `state_change` callback. The update waits for the next `set_state`, whoever
   makes it. `ImplementsUpdateQueue` shows that it is late, never lost or overtaken.
2. **Circular wait** (`zeromq-socket.cpp:42-57,107`). "Continue looking for
   messages": two messages in a row, one plugin. The loop, holding `comm_lock`,
   joins the receive thread, which in `broadcast` joins the broadcast thread, whose callback
   wants `comm_lock`. `CircularWaitIsFinal` shows that nothing gets out
   of it, `finish` included.
3. **Ids that are not unique** (`session.cpp:193,230`). "Give unique message id":
   two broadcasts in one millisecond. The same happens to what a node sends after its
   clock was set back, until the clock has caught up; `ReachesAllNodes`
   says of which messages more can be promised.
4. **A plugin that outlives its session, or destroys itself** (`session.cpp:39`,
   `imgui-gui.cpp:154`). "Plugins are automatically killed properly as shared
   pointers": the button "Quit" sets `exiting` in the window's thread, in the middle of
   a frame. main's own `finish` returns at once because `exiting` is set, and
   `~Session` empties the list, but the copy of the window's frame keeps imgui-gui
   alive: main is gone, and the session with it, while the window's thread still
   uses it. If the frame ends a little earlier, when the list is empty already, the last
   reference is the window's own: the destructor joins the thread it runs in, and
   the exception ends the process.
   `SoundUntilDestroyed` shows that it cannot happen before `~Session` begins, unless
   another plugin has the window's name (see below).

Seen while reading, with no run of their own:

- **A thread started over a joinable handle** (`session.cpp:166-176`): the state
  worker unlocks `set_state_lock` itself and may do so before the handle of its thread
  is stored; the next caller then finds nothing to join and stores another. It is the action
  `SpawnTerminates`, which `state_registry` reaches.
- **Threads left behind by `finish`** ("Close threads.", `session.cpp:364`): a call that
  tested `exiting` before it was set may start its thread after `finish` has passed it, and
  a second `finish` returns at once while the first is at work. `CleanFinish` says that only
  the slots of such calls (`stragglers`), and that of `broadcast` if one was of `receive`,
  may be left joinable, which is what then terminates the process in `~Session`; the second
  is how finding 4 begins.
- **Row numbers of the wrong table** (`sqlite-db.cpp:250-258`): `sqlite3_last_insert_rowid`
  is asked for in a second call on a connection that the state worker uses at the same time
  (`state_change`, 190). A state inserted between gives the frame the number of a row of
  `states`, and its destructor overwrites the row of another frame, or none; its own row
  keeps the first version. `RowsKept` and `FinalDataSaved` except the rows reached this way,
  by name, and show that no other is.
- **An exception nobody catches** (`imgui-gui.cpp:271`): `json::parse` of what the user
  typed, an empty field included, throws in the thread of the window, which ends the
  program. So does a configuration that is no JSON of the expected kind in main. It is the
  action `LoadThrows`.
- A close between the copy of a queue (`datahandler.cpp:95,115`) and the search for the last
  frame resets the pointer: the search fails, and the running cycle is given all frames of
  the copy again. Frames are also tracked in a source that is closed already, until `closed`
  is set after the last source (`datahandler.cpp:32-37`); nobody asks for them.
- **An unloaded echoecho may stop the node**: see `CircularWait` in `PluginRegistry`.
- counter registers a display with imgui-gui that captures `this` (`counter.cpp:40`); it is
  called in every frame (`imgui-gui.cpp:192`) after the counter was unloaded and destroyed. No
  property says that it is not: `CalledWhileAlive` is about the callbacks of the session.
- `--dump-raw-after-agg` promises to dump data "immediately after used"
  (`config.cpp:29`); frames tracked between the collection (`session.cpp:65`) and the
  dump (79-83) are dropped unseen. `LostByLimitsOnly` excepts raw frames of
  sessions that dump for this reason.
- "Dump data before killing plugins" (`session.cpp:387`): a `create_raw` that has
  tested `closed` tracks into a closed source, and what it tracks is not dumped.
- README's config keys `aggregations-per-second` in the file and
  `--agg-per-second` on the command line differ, although the README says they are the
  same (`config.cpp:32,64`); sqlite-db reads `db_path`, its README says `db-path`.
- `active_sleep_since_last` (`time.cpp:68`) remembers the time before it slept, so
  that every second call does not sleep (the TODO at `main.cpp:51`).
- sqlite-db inserts restored frames again, since `get_new_aggs` hands them out:
  the table fills with copies, which `max_recent_data` then counts. Its
  lambda `update_in_db` is static and keeps the `this` of the first plugin
  object. Two such plugins overwrite each other's frame ids.
- `unload_plugin` would run the destructor under `plugin_lock` if it held the last
  reference, although its comment (352-353) says that happens after the return.
  `DestroyedOutsideLock` shows that it does not come to that, whatever the names are: the
  plugin it finds is in the copy of the list that its caller, the window or main, holds. For
  main that rests on a frame of the window pressing one button at most: a frame that
  unloaded a plugin and loaded another of its name, while main destroys the session, would
  let main find by name what is in no copy.
- **A plugin loaded under the window's name** (`imgui-gui.cpp:234-236`): the unload button
  of the window is disabled by identity, but `unload_plugin` goes by name. If the user loads
  a second plugin under the name of imgui-gui and presses its button, the first of that name
  is unloaded, which is the window itself; its last reference goes at the end of the frame,
  in its own thread, which then joins itself. `WindowNamedAlone` excepts it.

## 6. Proofs

Eight modules of theorems are checked by TLAPS, for every value of the constants that
satisfies the assumption of the module: that the kinds of threads and names are different
from each other and from `None`, that bounds are numbers, in `Gossip` that a link joins two
different nodes. Plugins may have any names, equal ones included. No fairness is assumed,
nothing else is.

| Module | Theorem | Property |
|---|---|---|
| `StateRegistry_proofs` | `TypeCorrect`, `LockSafe`, `JoinSafe`, `MirrorsCorrect` | `TypeOK`, `LockHandedOver`, `JoinNeverWaitsForCallbacks`, `MirrorsAgree` |
| | `RegistryImplementsUpdateQueue` | `ImplementsUpdateQueue` |
| `PluginRegistry_proofs` | `TypeCorrect`, `CalledAlive`, `ReturnsOwn` | `TypeOK`, `CalledWhileAlive`, `LoadReturnsOwn` |
| | `OutsideLock`, `SoundBefore` | `DestroyedOutsideLock`, `SoundUntilDestroyed` |
| `DataFlow_proofs` | `TypeCorrect`, `OnceInOrder`, `LimitsOnly` | `TypeOK`, `DeliveredOnceInOrder`, `LostByLimitsOnly` |
| | `FreshAggregates` | `AggregatesReachPost` |
| `Messaging_proofs` | `TypeCorrect`, `OnceOnly`, `WireInOrder` | `TypeOK`, `AcceptedOnce`, `WireFollowsBroadcasts` |
| | `HeardFirst`, `InOrder`, `DeadlockIsFinal` | `HeardBeforeForwarded`, `ForwardedInOrder`, `CircularWaitIsFinal` |
| | `RefinesForwardingNode`, `LeavesRising` | `ImplementsForwardingNode`, `Node!PassedOnRising` |
| `ForwardingNode_proofs` | `PassesOnRising` | `PassedOnRising` |
| `Gossip_proofs` | `TypeCorrect`, `InOrder`, `Gapless` | `TypeOK`, `HeardOnceInOrder`, `NoGaps` |
| | `RefinesForwardingNodes` | `NodesImplementForwardingNode` |
| `Shutdown_proofs` | `TypeCorrect`, `CleanEnd`, `StaysQuiet` | `TypeOK`, `CleanFinish`, `QuietForGood` |
| `SqliteStore_proofs` | `TypeCorrect`, `RowsStay`, `FramesSaved` | `TypeOK`, `RowsKept`, `FinalDataSaved` |
| | `RegistryFollowed`, `StatesReturn` | `RegistryRecorded`, `StatesComeBack` |

Each proof has the same shape: an inductive invariant (`CoreInv` with `ViewInv` in the first
module, `IInv` in the others), a lemma per conjunct with one step per
action, and the theorems at the end. What the invariants say, and why the properties are
not inductive without it:

**State registry.** That the lock has one owner depends on which points of the worker
hold it; that no join waits for a callback depends on callbacks running only at one of
these points. `CoreInv` is `TypeOK`, `LockHandedOver`,

- `QueueLockInv`: `state_queue_lock` is held exactly by the caller that stores a handle;
- `HandleInv`: if the handle is empty and nobody is about to store one, there is no
  worker; this is what makes a new worker never run beside an old one, in
  spite of the gap before the handle is stored;
- `WorkInv`: only a worker that holds the lock has updates, has one
  when it writes, and has callbacks only where it waits for them.

`ViewInv` relates what is known to what is: `ValueInv` (the value read before the write
is still the value at the write, although `state_lock` is released in between),
`AudienceInv` (a plugin loaded before the copy is in the copy) and `MirrorsAgree`.
The refinement maps the abstract queue to what is left of the worker's batch followed
by `state_queue`, which counts as empty while a caller is between copying and
clearing it. Pushing is `Submit`, writing is `Apply`, every other step
stutters; the start of a worker stutters because the batch is empty then, by
`WorkInv`.

**Plugin registry.** A callback's thread has a plain pointer, so that nothing in `LetGo`
protects the plugin: `CallingHeld` says that what is called is in the worker's copy from the
start of the callbacks to their join, and `CopiesLive` that whatever is in the list or in a
copy is alive. That in turn needs `Handled`: a plugin that is constructed and not yet
appended is in neither, but alive and nobody else's, so that appending it puts a live plugin
in the list.

`LoadReturnsOwn` is about the gap between two holds of `plugin_lock`. `LoadOrder` adds to it
what a loading thread has before it appends: main's plugins are of the configuration, the
window's are on offer, both load one at a time, and only the window and the end of the
session unload.

`DestroyedOutsideLock` is about who else refers to what `unload_plugin` finds.
`KnownToWindow` says that the list only grows behind the copy a frame walks, so that the
first plugin of a name in the list is in the copy. `KnownToMain` says that while the session
is destroyed the list is what main still has to unload until the window presses its one
button, and differs from it by one plugin afterwards. So the plugin found is in a copy, and
a destructor begins only when a copy is let go, with no lock held. `SoundUntilDestroyed`
needs that the window's plugin is in the list, or on its way into it, from its construction
until the session is destroyed (`Listed`): its own button is disabled, and nothing else has
its name. So no copy has the last reference to it, and `load_plugin` never finds the list
empty.

**Data flow.** `Good` is about one queue, its pointer, the number of frames tracked and what was
handed out: the queue holds the last tracked frames without a gap, and what was handed out is
behind the pointer or has left the queue. It survives the eviction of the very frame the
pointer points to, which is the case the code's loop over the queue is unsure of. `Ordered`
places the flag `closed` at the end, `FreshPassed` follows the second loop of the
cycle over the sources.

**Messaging.** `Placed` says what is in the hands of each thread at each of its points;
`Noted` that `node_times` is the time of the last message accepted of each name, which makes
the test of `receive` one of all messages before; `LastSent` that what a socket has sent or
still has to send ends with the message being broadcast; `HeardByAll` that the message about
to be forwarded was heard by every plugin whose callback has returned. `LastAccepted` ties
the message of the receive thread to the end of what was accepted, and counts: when it is
broadcast, all before it have been. `ForwardedInOrder` numbers the forwarded messages by the
cardinality of the set of those up to each, so that no recursion is needed to filter a
sequence.

The refinement of `ForwardingNode` maps `AcceptMessage` to `Receive` (the join makes pending
empty, `Noted` and the test of `node_times` make the message younger than all of its
sender), the start of a broadcast to `PassOn` or `SendOwn`, `DropForward` to `GiveUp`, the
raising of `exiting` to `End`; every other step stutters. `PassesOnRising` is proved of the
abstract node alone, and `LeavesRising` takes it over to the threads.

**Gossip.** The property is global, the code local: a node sees only its links. `Offered`
says that all a node has sent or forwarded to a neighbour was accepted there, is on the
link, or is covered by something as young that was or is. `Behind` says that a message on a link
comes after something as young as anything its sender had sent before it. With both, the test
of `receive` skips nothing (`Dominated`, `NoGaps`); `TimesMatch` and `Rising` tie times to
numbers. That a node forwards before it accepts the next message is used in `Offered`;
without it the proof fails where the mutant `AcceptOverwriting` fails.

Each node is the `ForwardingNode` it is named for. The abstract node knows no numbers, only
stamps, which are functions of what senders have sent; `Stamped` and `StampStays` say that a
message keeps its stamp while others are sent. `Accept` is then `Receive` by `Rising` and
`TimesMatch`, `Forward` is `PassOn`, `Originate` is `SendOwn`, and a step of one node is a
stutter of every other.

**Shutdown.** `Behind` says that what a `finish` has passed stays empty, but for the slots
in `Late`. It needs to know that apart from the calls of `stragglers` only the receive
thread can still be inside a call (`Ordered`), that this call is a `broadcast`
(`RelayForwards`), which is after `receive` in the order of `finish`, and that no second
receive thread starts meanwhile (`Alone`, the lock of `receive`).

**sqlite-db.** `FInv` is about the frames. `Linked` says that a frame with the callback of
its destructor has the number of its own row, unless it is `mixed`, knows what its row must
become, and that no second frame has that row, which is what the destructor relies on.
`InBetween` is about the frame between its two steps: it is the head of what the cycle still
has to insert, its row is the last one, and `rowid` is that row as long as it is not
`mixed`. `Linked` would be lost if a frame were inserted twice: `HandedOutOnce` says that
what is behind the pointer was not inserted, which needs that the queue ascends and starts
behind a pointer whose frame was evicted (`Queued`). `SInv` is about the states.
`Remembered` says that the last record of a state is what the session before left, until
this one records it; `Timed` that records are in the order of time, so that the youngest row
is the last one, up to rows of one second.

Only model-checked: the liveness properties (out of the prover's reach, as is `ENABLED`),
which are `SetStateReturns`, `FramesReachPlugins`, `SessionEnds`, `BroadcastReturns`,
`LoopsStop`, `ReachesAllNodes`, `FinishEnds`, `EndIsReached` and `UnloadedIsDestroyed`, and
the violations. Every invariant and every action property of the runs is a theorem. The
types of `StateRegistry`, `Messaging` and `Gossip` are theorems only, and left out of the
runs.

## 7. What could follow

- An abstract `FrameStream` (frames of a source are handed out in order, with gaps only at the
  limit) that `DataFlow` implements: now two properties that are proved on their own.
- The pace of the main loop, if a promise about it is ever made.

## 8. Not modelled

- `src/include` holds vendored headers (nlohmann's json, CLI11, date, rang): nearly all
  lines of the repository, none of them FPSI's own. Of FPSI's own code, which is `src/src`
  and `src/plugins`, the modules cover what keeps state between threads.
- Configuration and its parsing: read once before the first thread starts; its values are
  CONSTANTS.
- YAML conversion, the text of times, logging: stateless, or output that
  nothing reads.
- The pace of the main loop (`agg_delay_ms`, `active_sleep_since_last`): floating point and
  the clock. A cycle may begin at any moment in `DataFlow` and `PluginRegistry`.
- Drawing in imgui-gui and its data and state windows, which read copies; the map of
  displays.
- usb-radio, whose constructor lists devices and whose callbacks do nothing, and template.
- `get_plugin`, `get_state_keys`: they only read, under one lock.
- SQLite, ZeroMQ, `dlopen`: external. Failures of SQLite statements, which the code ignores,
  a clock set back between two records of a state, and messages larger than the receiving
  buffer of 10 kB.
- A second interrupt, which ends the process at once, and an interrupt taken in another
  place than main's sleep: what a handler may call there is undefined.
