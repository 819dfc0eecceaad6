# A TLA+ model of Program Activity Tracker

The tracker records what a Windows program does. A native ETW consumer writes
JSON lines to its stdout; a Python backend (FastAPI on one asyncio loop, plus
threads) supervises one native process per session, keeps a live tail per
session in memory, persists events to SQLite and streams them to WebSocket
clients; a React UI, a Tk launcher and an MCP bridge sit on top.

This directory models how an event travels from the kernel's buffers through the
native process and its pipe to a pump thread, into memory, onto disk and out to
subscribers; how sessions are created, stopped, purged and rehydrated; what
SQLite's locks do to all of it; how the launcher supervises the backend; how the
UI follows the live stream; how log files are written, rotated and followed; and
what the MCP tools see of a table that changes under them.
Everything is translated from the code; `PROJECT.json` maps each definition to
its lines.

## 1. Inventory

### The parts, their state, their operations

| Part | State | Operations that change it | What makes it correct |
|---|---|---|---|
| Session store, data path (`backend/app/store.py`) | `_sessions`, `_events` rings, `_write_q`, `_drained`, the writer's batch, `_stop_writer`, tables `sessions` and `events` | `create`, `mark_session_status`, `purge_session`, `purge_inactive_sessions`, `add_event`, `_writer_loop`/`_flush_batch`, `_retention_loop`, `flush`, `shutdown`, `_rehydrate` | memory agrees with disk; no orphan events; an event is stored once, in order, or given up with its batch; a restart loses only what was not committed |
| The store's SQLite connections | the shared `_conn` with its implicit transaction, the writer's connection, the retention connection, the WAL write lock | every SQL statement, its busy timeout, commit and rollback | no lock is held by a method that has returned; errors are reported; reads are fresh |
| Session handlers (`backend/app/api_routes.py`) | `_capture`, a session's `capture` status, the request being served | `create_session`, `stop_session`, `cleanup_sessions` | every native process can be stopped; one stop ladder per session; nothing is revived |
| Event hub and live stream (`store.py` `EventHub`, `api_routes.py` `stream_session`, `make_event_handler`) | subscriber queues, scheduled publishes, per-connection backlog | `publish`, `subscribe`, `unsubscribe`, the replay and tail loops | no gap between replay and tail; order; dropped clients learn of it |
| Capture service (`service/capture_service.py`) | the child process, two pump threads, statistics, `_running` | `start` with its hello handshake, `stop` ladder, `_stdout_pump`, `_stderr_pump` | `start` succeeds only with a live child; `stop` ends with none; an unexpected end is noticed |
| Native process (`service/native/src`) | ETW session, tracked pids, file-object and registry caches, stdin watcher, output lock | trace callbacks, seeding, stop, stats thread | children are followed; no stale path; no orphaned ETW session |
| Launcher (`launcher/tracker_launcher.py`) | backend child, crash counters and backoff timer, log tail, button states | start, stop, restart, crash hook, health polling, kill capture | at most one backend; a deliberate stop is never taken for a crash |
| Log streams (`/ws/logs`, `useLogStream.ts`, launcher `LogTail`) | file offset, partial line, rotation, the page's entries and the keys it has seen | poll, send, reopen, dedup | no line lost or cut; what the page drops, it shows |
| UI (`ui/src`) | visible events, `lastTsRef`, socket and backoff, query results | stream client, query hook, session list | the list belongs to the selected session, ordered, without duplicates or gaps |
| MCP bridge (`mcp/src/mcp_tracker`) | page offset, tail timestamp | pagination, tail, export | a scan of a growing table skips and repeats nothing |
| Observability, auth, icons, configuration | counters, caches, log handlers | - | - |

### How they interact

* **Pump thread → store → loop.** `CaptureService._stdout_pump` calls the
  handler of `make_event_handler` on its own thread: `store.add_event` (ring and
  write queue) and then `run_coroutine_threadsafe(hub.publish(...))`. The
  publish runs later, on the loop.
* **Loop.** `create_session` is `async` but never awaits: while it waits for the
  native hello the loop does nothing else. `emit_event` runs on the loop
  too. `stream_session` awaits sends and queue reads.
* **Threadpool.** `stop_session`, `cleanup_sessions` and the query routes are
  plain functions: Starlette runs each on a thread, concurrently with each other,
  the loop and the pumps.
* **Writer thread and retention thread.** They share the SQLite file with
  `_conn`, each through its own connection, under SQLite's own locking only.
* **Native process → pump thread.** Lines on a pipe: a hello, then events and
  heartbeats. The other way there is only the end of stdin. ETW sessions belong
  to the kernel and outlive a process that is killed.
* **UI and MCP** use HTTP and WebSocket; **the launcher** starts and stops the
  backend as a child, polls `/api/health` and follows its log files itself.

### Behaviours that are hard

Clear-before-put against check-then-set (`_drained`); one transaction for a
batch of many sessions; late deliveries after a purge; a writer stopped before
its producers; a process that dies between memory and disk; one WAL write lock
with a 5 s timeout; DELETE against DELETE against cleanup against a starting
capture; replay and tail joined without a gap while events are already scheduled;
subscribers that are dropped; file rotation under a tail; a UI that switches
sessions while responses are in flight. `PROJECT.json` lists each under
"hazards" with its line.

## 2. Modules

| Module | Models | Abstracts |
|---|---|---|
| `EventLog` | the abstract promise of the data path: accept, store or discard, retain, purge | - |
| `SessionStore` | the data path of `store.py`, statement by statement | rows to ids, timestamps, statuses to `capture`, locks of SQLite to "may fail" |
| `SessionStore_proofs` | theorems about `SessionStore` | |
| `StoreConnections` | which connection holds the write lock, snapshots, errors that leave a transaction open | table contents to one id per session, event data to "newest or old" |
| `SessionLifecycle`, `SessionLifecycle_proofs` | create, stop, cleanup, the native process, its pump | events, statistics, the Windows calls |
| `LiveStream`, `LiveStream_proofs` | hub, replay and tail of each connection, dropping | payloads, coalescing of sends |
| `StreamClient`, `StreamClient_proofs` | the UI's `useEventStream`: backfill, socket, frame batching, dedup, reconnect, switch of session | the backend to "accepted, published, committed later"; backoff delays; error texts |
| `Launcher` | the backend process, its output pump, the Tk thread with its callbacks and timers, stop and restart workers, restart after a crash | counters, setup, widgets |
| `Launcher_proofs` | theorems about `Launcher` | |
| `LogFiles` | the rotating handler, `read_log_tail`, `/api/logs`, `/ws/logs`, `useLogStream`, the launcher's `LogTail` threads and their pane | a line to its number, its length in bytes and its `entryKey`; several streams to one |
| `McpTools` | paging with a cursor (`query_events` and `search_events`), the rollup and its cached resource, a repeated `tail_events`, `export_session`, over a table with a writer and a sweep | a row to its id, timestamp and whether the filter lets it through; one tool per behaviour, they share nothing but the table |
| `NativeEvents` | the target (environment), the kernel's queue, `PidFilter` with its cap, the cache of file objects, the handle snapshot that seeds it | event fields, registry and network events, TDH decoding |
| `CapturePipe`, `CapturePipe_proofs` | extends `NativeEvents` with the wrapper's `start`, `_stdout_pump` and `stop`, the native `wmain`, stdin watcher, trace sessions, the pipe, kills and the backend's death | timeouts to "may happen now", `stats()`, the stderr pump |
| `Filters` | the elements of a sequence that are in a set, in their order: what the code does with a comprehension or a loop with `continue` | |
| `Readers_proofs` | theorems about those who read what others write: `LogFiles`, `McpTools`, `StoreConnections` | |
| `Queues_proofs` | what appending, taking the tail, concatenating and filtering do to the range of a sequence; sequences in an order (`Pairwise`), least elements, induction and definition by recursion over `0..n`; used by the proof modules | |

`SessionStore` implements `EventLog`: `Log == INSTANCE EventLog WITH ...` maps
`used` to the handed-off events, `pending` to what the batch and the queue
hold, `stored` and `rows` to the tables. `MC*` modules only define the small
instances, symmetry sets included; `Launcher`, `McpTools` and `CapturePipe` need none.

### State and actions against the code

* **`SessionStore`.** A thread's `add_event` is three steps because three
  shared objects are touched in turn (ring under the lock, `_drained.clear()`,
  `_write_q.put`). The writer's loop is cut at each read or write of shared
  state: `get` with timeout, the emptiness test, `_drained.set()`, draining up to
  `_WRITER_BATCH_MAX`, the transaction, the stop test, the leftover pass.
  A failed batch is a step of its own: it raises because an event's session is
  gone (foreign key) or, when `LockTimeouts`, because of a lock. `Restart`
  is the end of the process at any point followed by `__init__`:
  rows and events survive, queue, batch, rings and threads do not, active
  rows become `interrupted`.
* **`StoreConnections`.** A request enters `_lock`, executes, commits or raises.
  Python's `sqlite3` opens a transaction before a DML statement and leaves it open
  when that statement raises, so `open` outlives the request until the next
  commit on `_conn`; a SELECT in it pins `snapshot`.
* **`SessionLifecycle`.** `create_session` is a sequence of steps on the loop
  (`CreateReserve … CreateMark`); `StopRequest(h, s, p)` cannot name the session
  under creation because the loop is not running; handlers run step by step
  beside each other. A crash of the native process is `NativeExit`. The stop ladder is
  modelled by its rungs: `StopClose`, then `StopWaited` or, when the 3 s are over and the
  process is still there, `StopTerminate`, again a wait, then `StopKill`, after which
  nobody waits; a terminated or killed process is `doomed` and ends in a step of its
  own (`NativeDies`), before or after the handler has gone on.
* **`LiveStream`.** `PumpAdd`/`PumpSchedule` are the two statements of the
  handler, `LoopPublish` a scheduled coroutine, `Emit` the loop's own publish,
  `Subscribe` the part of `stream_session` without an await, `ReplaySend`,
  `TailSend`, `SendDone` and `SendFail` the awaits of its loops.
* **`StreamClient`.** A run of the hook's effect (one per selection) has its own
  `conn`, `since`, `items` and `wire`, because its closure has its own `cancelled`
  and `socket`; what lives in refs (`lastTs`, `seen`, `pending`) and state
  (`shown`) is shared by all of them. `connect()` is cut at its one await: `Answer`
  is the backend reading the table, `Receive` the rest up to `new WebSocket`, `Open`
  the backend's subscription. `Select` is the cleanup of the old effect and the
  synchronous part of the new one; `Deselect` is what an empty session id does.
  `History` is what the backend had accepted before the page was opened; how much of
  it is committed by then is open. `SeenCap` is a constant of its own with
  `SeenCap >= MaxEvents`, all that the code's factor of 2 is needed for.
  The `events` of the hook are not trimmed from outside here; `App.tsx` does that
  while the view is paused (see the plan).
* **`Launcher`.** The Tk thread does one thing at a time: `ClickStart`, `ClickStop`,
  `PressRestart`, `RunCallback` and the timers are whole handlers, but `_on_start`
  is cut in two (`StartBegins`, `Spawn`) because the setup and `Popen` take long
  enough for the threads to move. `running` is a `poll()`, and only a `poll()` or
  a `wait()` sets `returncode`; the output pump reads `returncode` without
  either, so `reaped` is a variable of its own. Workers, pumps and readiness threads
  interleave with everything and reach the window only through `tk`.
* **`LogFiles`.** `Emit` is `shouldRollover`, the rename and the write of one
  record; while a tail read has the file open, and perhaps while a follower reads, the
  rename fails and the record is gone, as on Windows. `read_log_tail` is one step per chunk, because
  a writer may append between two. The WebSocket handler is cut at its awaits:
  `TakeSize` after the backlog was sent, `PollStat`, `PollRead`, `Send`. `TailStat`
  and `TailRead` are the two system calls of a launcher thread's loop; `Drain` is the
  pane's timer. What the page shows (`hook`) is changed by an answer, a message, the
  toggle of the mode and a reconnect. `KeyOf` is the page's `entryKey`: `dedup` remembers
  keys, not lines (`Keys`, `Fresh`, `Seen`), and in the run two of the lines have the same.
* **`McpTools`.** One HTTP request is one step, between two of them `CommitRow` adds a
  row with any timestamp and `Prune` deletes the oldest. `Page` is a call of
  `query_events` or `search_events`, which page alike and differ in the filters they
  send; it and `RollupPage` share the backend's order by `(ts, id)`. `ExportLine` reads
  from the cursor that was opened (`export.snap`), not from the table.
  The definitions of this module and of `StoreConnections` are named so that
  one module of proofs can extend both and `LogFiles` (`ToolsSpec`, `ConnectionsSpec`).
* **`NativeEvents`.** The target's own steps put events into `kernel`; `Handle*` are
  the branches of the event callback. An open file has
  the name it was opened under and, after a `Rename`, another one; the event of a use or of a
  rename may carry the latter, and `HandleUse` then shows it and leaves the cache alone.
  `TakeTable`, `TakeNames`, `SeedEntry` are the
  enumeration of handles, the resolution of each path, and the stores into the cache,
  with the callback in between. `named` holds the objects whose cache entry came from a
  create event: an entry that the cap drops while the seed is under way can be made
  again from the snapshot, with a name that may be out of date, so `SeedCache` keeps in
  `named` only what no store of the seed dropped (`Seeding`). With two handles
  the difference shows; the proof attempt found it.
* **`CapturePipe`.** `main` and `call` are the next steps of `wmain` and of
  `start()`/`stop()`. `Consuming` is when the callback thread runs, which is before
  the seed and until `Stop` has drained it. `NativeDies` ends a process that was
  terminated; its trace session stays in `sessions`.

## 3. What the runs check

| Run (cfg) | Question | Result |
|---|---|---|
| `StoreData` | foreign key, one place per event, storage in hand-off order, with failing statements | holds |
| `StoreRestart` | types; a writer that has returned left nothing earlier than the stop behind; which events a returned `flush()` may leave undecided; a running writer decides every event and sets `_drained` again; the data path implements `EventLog`; all across a restart | holds |
| `StoreNeighbourLoss` | the writer gives up only events of purged sessions | violated |
| `Connections` | the write lock is returned; memory, disk and what queries see differ only after a reported error; every request is answered | holds |
| `Lifecycle` | every native process is reachable; one ladder per session; nothing purged or stopped is revived; a stop ends, and the process it was for is gone in the end, whatever it does with its stdin | holds |
| `Stream` | no gap between replay and tail, for exactly the open connections; the tail in order, duplicates only for events in flight; what is owed to a subscriber is sent | holds |
| `Launcher` | at most one backend, and none outlives the window; Start is offered only while none runs; the buttons always come back; "Starting" does not stay | holds |
| `LauncherCrash` | a crash of the backend is noticed | violated |
| `Client` | one socket, of the selected session; what the hook is given is added, once; the list ends with the latest; it reconnects | holds |
| `Logs` | the tail read returns the last whole lines; both followers keep order and skip only what was rotated away; the last keys the page has marked as seen are those of what it shows; every line in the file is sent on the socket and shown in the launcher's pane | holds |
| `Mcp` | how much a walk can miss and repeat; how stale the cached summary is; what a tail can miss, and that it catches up; an export is one moment of the table | holds |
| `Capture` | the filter follows the target's kin and nobody else; no event is shown under another file's path; trace sessions have owners; unwanted native processes end; each line is given to the backend once, in order | holds |

The type invariant of a module is checked by `StoreRestart`, proved for `Launcher`,
and elsewhere the first conjunct of one of the invariants of the module's run. Each
property is a conjunction of what belongs together; in the mutants one of its
conjuncts is broken.

`GivenIsAddedOnce` says how far "once" goes: the hook remembers the last `SEEN_CAP` ids,
so an id can be added again once more than that many others came after it, and no
sooner.

### What the violated runs say

Each checks a sentence of the repository against what the code does.

1. **A neighbour's event is lost** (`docs/architecture.md:133`): a batch is one
   transaction; `OR IGNORE` does not cover foreign keys.
2. **A crash may go unnoticed** (`README.md:44`): the output pump reads `returncode`
   at end of file; when nothing has polled the process since it died, that is
   `None`, and the pump ends without calling the crash hook.

### Other disagreements

Seen while modelling; the models behave as the code does, and no run is spent on
them.

* End of file of a native process is not surfaced
  (`launcher/tracker_launcher.py:2076`): the pump ends, the session stays `live`. The
  same when the consumer fails to start, because the hello is sent before
  (`service/native/src/main.cpp:348`).
* A dropped subscriber stays connected (`backend/app/store.py:654`): its handler
  waits on a queue nobody fills.
* Events between backfill and subscription vanish (`useEventStream.ts:30`): the
  socket is opened with `replay=false`, so an event accepted after the query was
  answered, or accepted before but committed after, is in neither; the next message
  moves `lastTsRef` past it.
* After a switch of session the list goes on with the previous session's events and
  timestamp (`Select` leaves `shown` and `lastTs`).
* `flush()` may return while the writer still holds an uncommitted event, although it
  says "until all queued writes have been committed" (`store.py:497`): `add_event`
  clears `_drained`, the writer, which has seen an empty queue, sets it, and the event is put
  and taken out again. `FlushCommits` says that this is the only case.
* A second DELETE is answered "stopped" (`api_routes.py:308`) while the first is on
  the stop ladder and the native process may still run; and nobody waits for a process
  that was killed (`capture_service.py:360`).
* The log page's `entryKey` is "strong enough to suppress the 100-line backlog re-send"
  (`useLogStream.ts:24`) but also drops a new line whose time stamp, of one second
  (`observability.py:104`), level, logger and message are those of one it remembers, which
  request records often share. `SeenIsShown` promises an entry with the same key.
* After a rename of an open file the native process goes on naming it, in events that
  carry no name, as it was opened: renames are subscribed to
  (`provider_guids.hpp:49`, `53`) and shown under the name they carry
  (`event_consumer.cpp:459`), but only a create event changes the cache
  (`event_consumer.cpp:407`).
* `export_session` counts the events of a csv file by its newline bytes
  (`exporting.py:56`): a field with a newline makes the number too large.
  `ExportIsOneMoment` speaks of rows without.
* The native orphan sweep matches `tracker_capture-` (`main.cpp:252`), the wrapper
  names its sessions `ActivityTracker-`: against `docs/threat-model.md:46` and
  `service/native/README.md:75`, a killed process's session is never swept by it. The
  launcher's `_cleanup_orphans` uses the right prefix.
* Children that run when the capture starts are not followed (`README.md:10`); the
  creation time of the target is never passed, so its check is off
  (`docs/threat-model.md:45`).
* A close event carries no path (`event_consumer.cpp`, comment at line 219): the
  object is forgotten before the path is resolved.
* A reconnect of the log page asks for no backlog, so the lines written meanwhile are
  skipped (`useLogStream.ts:129`).
* The MCP resource "latest 200 events" returns the oldest 200
  (`mcp_tracker/resources.py:62`).

### Bounds, and why they are enough

* **Sessions: two** (`StoreData`, `Connections`, `Lifecycle`, `Client`).
  Properties relate one session to "another one": a batch with a purged and a
  living session, or a switch from one to the other, is the interesting case.
  `StoreRestart` uses one, it is about an event's way through queue, batch and
  restart.
* **Events: two or three; threads: two.** Order and duplication need two events,
  a batch plus a queue behind it needs three. Two adders and a writer give every
  interleaving of `clear`, `put`, `get`, `set`.
* **`RingSize` 1 or 2, `BatchMax` 2, `SubQueueSize` 1**: small so that a ring
  overwrites, a batch fills, a queue overflows.
* **`MaxRestarts` 0 or 1, `Stops`**: name whether a behaviour includes a restart
  or a shutdown. One restart is enough: `Init` differs from its state only in
  the tables, and a second one finds nothing new.
* **`Births`, `Marks`**: the capture values `create` and `mark_session_status` are
  called with; runs take one of each kind (active, final).
* **`Slow`**: the connections whose transaction may outlast the busy timeout; the
  run takes the retention sweep, the one that deletes an unbounded number of rows.
* **Handlers: two**, requests: two; a third would repeat the second.
* **`MaxStarts` 3, `MaxClicks` 3**: a start, a restart that overtakes it and a
  restart after a crash. `CrashRestartCap` is 1 (3 in the code) and `ReadyTries` 1 (60
  in the code): both limits are reached.
* **`MaxEffects` 2, `MaxCloses` 1**: a switch, or a clearing followed by a new
  selection, with the old effect's request in flight; one lost connection.
  `MaxEvents` 2 (5000 in the code), `SeenCap` 2 (10 000), `BackfillMax` 2 (1000),
  `RingSize` 2 (50 000): the three events of one session overflow each; `History` is one
  event of the other.
* **`Logs`**: five lines of two bytes, the second and third with one key, in a file of
  `MaxBytes` 7, so it rotates after three; `Chunk` 3 ends inside a line; `Backlog` 1,
  `TailLines` 2, `MaxEntries` 2 are
  all exceeded; `MaxTails` 1 and `MaxMoves` 2 are one thread and a toggle, failure or
  stop. `Burst` is an assumption, not only a bound: between two polls less than a
  third of a file is written, or a follower could find a rotated file as long as the old
  one. One request of the page is in flight; a record is one `write`.
* **`Mcp`**: `MaxRows` 3 over pages of 1 and 2 gives a full, a partial and an empty
  page; `TailLimit` 2 is reached; `Ttl` 1 of `MaxClock` 3 expires twice; one request
  fails.
* **`Capture`**: three pids are the target, a child and a stranger that may get
  either's pid; `MaxPids` 2 is reached; two objects, two paths and one handle make a
  handle or an object stand for something else; `CacheCap` 1 evicts; `PipeCap` 2
  blocks the writer. `plain` splits the bound: with a plain target (it only uses what
  it has open, `MaxUses` 2) every fault and two starts are explored; with one that does
  anything, renames included (`MaxOps` 3), there is one start, no fault, and the wrapper
  keeps up.
* Event and session ids are drawn once (`uuid4`); histories such as `handoff`,
  `born`, `ladders`, `due` are bounded by that.
* Symmetry is used in `StoreData` only, over the threads, which no constant
  distinguishes; that run checks no liveness.

`CHECK_DEADLOCK FALSE` is set where the system may stop: a shut-down store, a
launcher that is closed, ids, lines or starts that are all used up with no request
pending.

### Fairness

* `SessionStore`: weak fairness of the writer only. It is a thread whose every
  wait has a timeout. Nothing is assumed of callers.
* `StoreConnections`: strong fairness of a request's entry into `_lock` and of its
  answer (the lock is released again and again; SQLite polls until its
  timeout, and then raises), weak fairness of the end of a background
  transaction.
* `SessionLifecycle`: weak fairness of `create_session`'s steps (it runs on the loop
  with timeouts), of each handler's step (each wait has a timeout), of a pump at
  end of file, and of the end of a process that was terminated or killed, which the
  system sees to. None that a process looks at its stdin.
* `LiveStream`: weak fairness of the loop, of a pump between its two statements,
  of sends to a client that is there.
* `StreamClient`: weak fairness of each effect's requests, socket and timer (they are
  answered, fail or fire). Nothing is assumed of messages, frames, the user or the
  network's losses: the one liveness property does not need them.
* `Launcher`: weak fairness of the Tk loop and of each thread (their waits have
  timeouts), strong fairness of the timers (they fire between other callbacks). Only
  `LauncherCrash` needs it: without it the pump might never reach end of file.
* `LogFiles`: weak fairness of the stream's polls and sends, of the launcher's tail
  loop and of the pane's timer; nothing of writers, users or requests.
* `McpTools`: weak fairness of the tail client, whose requests are answered and whose
  deadline passes. Nothing of the other tools: their properties are invariants.
* `CapturePipe`: weak fairness of the native main thread, the callback, the stdin
  watcher, the wrapper's hello, pump and stop steps, and of a process that was
  terminated. None of `MainNames`, which may hang over a handle, and none of
  `HelloTimeout`, of `stop()` being called or of any fault.

## 4. What is proved

The `*_proofs` modules prove, with `SMT`, `Zenon` and `PTL`, every invariant and
every action property that a passing run checks, and the refinement of `EventLog`. The
theorems hold for every value of the constants that satisfies the modules' named
assumptions: types of the constants, limits of at least one, and markers such as
`Null` or `NoEvent` that are no value of what they mark. Two assumptions of `LogFiles` say more
and are explained below. Sets of
sessions, events, threads, handlers, connections, pids, objects and paths are
arbitrary, infinite ones included; only `Handle` is assumed finite, because the
snapshot lists the handles.

Each theorem follows one argument: an invariant (`IInv`, or a conjunction of named
parts) holds initially, every action preserves it, and it implies the property. In most
modules there is a lemma per group of actions; what a lemma needs of sequences and sets
is proved apart, most of it in `Queues_proofs`.

### The store (`SessionStore_proofs`)

`TypeCorrect`, `ForeignKeyHolds`, `HeldOnceHolds`, `StoredInOrderHolds`,
`FlushCommitsHolds`, `ShutdownKeepsEarlierHolds`, `ImplementsEventLog`.

`TypeOK` is not inductive: `AddPut` appends `adding[t]` to the
queue, so one has to know that a thread past `AddRing` works on a real event
(`AddingOK`). `ForeignKey` is inductive with it: rows leave only with their
events, and a batch commits only when all of its sessions have rows. `HeldOnce`
is not: that a put event is new needs that an id being added is in neither
the queue, the batch nor the table and is added by one thread (`AddingNew`); that the
writer's batch is empty when it gets needs the writer's phase (`BatchPhase`); that
what is held has been handed off needs `Places`. `RefInv` is the
conjunction. The refinement proof has one lemma per action (`Refine*`): every
step is a step of `EventLog` or leaves its four variables unchanged.

For the order, all that happens to queue, batch and table is one of six moves
(`Moves`), which preserve that the queue's places follow the hand-off and that the
batch is ahead of the queue (`OrderInv`). What `shutdown()` leaves behind
rests on `NothingReturns`, an event never re-enters the queue, and on where the
writer can be once the stop flag is set (`StopInv`). For `flush()` it is not enough that the
queue was empty: an event in the batch counts as well. `RacedInv` says that while
`_drained` is set, or is about to be, what is not decided was put after that look (`raced`), and
`FlushInv` carries that from the flag's test to the return.

### Its connections (`Readers_proofs`)

`TypeCorrect`, `WriteLockIsReturnedHolds`, `MutualExclusion`,
`DivergenceIsReportedHolds`. `_lock` has one owner (`MutexInv`), so one request at a
time is between changing memory and committing (`MemoryAhead`, `Working`); whoever is not
at work on a session has left memory and disk equal or raised (`Agree`). That a
read is fresh until an error needs that a transaction or a snapshot left open comes from a
statement that raised (`OpenInv`, `SnapshotInv`).

### The handlers (`SessionLifecycle_proofs`)

`TypeCorrect`, `NativeIsReachableHolds`, `OneLadderHolds`, and the action property
`NoRevivalHolds`. The service is popped from `_capture` by one handler, and no handler works on
the session that `create_session` has not answered for yet (`HandlerOK`, `CreateOK`); hence
every native process is `create_session`'s, a handler's on the ladder, terminated or killed
already, or can be found by the next request (`Owned`).

### The live stream (`LiveStream_proofs`)

`TypeCorrect`, `NoGapHolds`, `TailInOrderHolds`. What is scheduled and what the pump holds
is the end of the pump's log (`PumpOK`), so an event is published after all those
before it in the log; a connection's tail and queue together have events that are published, once
and in that order (`TailOK`); replay and tail share only what was on its way at the
subscription (`ReplayOK`); and what a subscriber is owed is somewhere between the pump and it
(`OwedOK`).

### The UI's hook (`StreamClient_proofs`)

`TypeCorrect`, `OneSocketHolds`, `GivenIsAddedOnceHolds`, `ListEndsWithLatestHolds`. The
effect that runs is the last that was started, and one whose cleanup has run has neither
socket nor timer, though its request may be in flight (`Running`); what is on its
way to an effect is of its session (`OfSession`). An answer without a `since` replaces the list, which
loses nothing because nothing has been added by then (`Untouched`). `Remembers`
ties `seen` to the end of what was added: as the dedup is a recursion, its result
is described by what it adds (`Dedups`) and shown by induction along its input.

### The launcher (`Launcher_proofs`)

`TypeCorrect`, `NoOrphanBackendHolds`, `StartOnlyWhileDownHolds`,
`NotLockedOutHolds` and `TransitionsAreReleasedHolds` (together
`ButtonsComeBackHolds`), `StartSettlesHolds`. Their invariant adds to the five
properties what makes
them inductive: a spawn only happens with no backend alive (`OneBackend`); buttons
are shown exactly when no transition is busy (`Buttons`: `busy = {} <=> offer #
"none"`), which every poster of a refresh preserves; a release is never dropped
between worker, timer and Tk callback; and no thread posts the status "starting",
only `_on_start` sets it.

### The capture (`CapturePipe_proofs`)

`TypeCorrect`, `SessionsHaveOwnersHolds`, `FilterFollowsKinHolds`,
`NamedPathIsRightHolds`, `GivenInOrder`; of `CapturePipe.Spec`, that is with every way a
start, a stop or the process can end.

* `SessionsHaveOwners` needs how far the native process can be with what was started and
  shut down (`Control`) and where its session must be there (`Owned`).
* `FilterFollowsKin` relates the target as it is now to a filter that lags behind by the kernel's
  queue, of any length. `Consistent` says how the starts and stops of a pid
  alternate in the queue; `Filtered` what the next event about a pid may
  expect of the filter; `Followed` that what comes last in the queue about a pid is
  how the pid is now, and that the filter is right about one with nothing in the queue. The
  three are preserved by the handling of the first event (`FilterHandled`) and by
  the addition of one (`FilterPosted`).
* `NamedPathIsRight` has the same shape over the opens of an object: `Openings`, `Named` and
  `Current` follow the name it was opened under, which no rename changes (`About`, `Same`),
  with the cache's list and paths kept about the same objects by each of its
  operations (`TouchOK`, `ForgetOK`, `ResolveOK`) and, along the recursion of the seed,
  by all of `SeedCache` (`SeedingOK`).
* `GivenInOrder` is the safety half of `WrittenIsGiven`: while the wrapper reads, the numbers of the
  event lines in the pipe are those written and not yet given, in order
  (`Numbered`).

### The log files (`Readers_proofs`)

`LogsInvHolds`, `TailsReturnLastLines`, `WhatIsSeenIsShown`; `FollowInvHolds`,
`FollowersKeepOrder`. Of any number of lines of any lengths, any `Chunk`, `MaxBytes`,
`Backlog` and `MaxEntries`.

* `TailIsLastLines`: a read that is under way started at the end of some line of the file it
  has open (`ReadAt`), which nobody renames meanwhile; `ReadsLastLines` shows that the items of
  the last chunks, cut at the newlines, then end with the last whole lines. The
  assumption `LenOf[n] >= 2` (a record and its newline) is needed: over lines of one byte
  the loop counts newlines that belong to empty lines, which the code drops afterwards, and fewer
  lines come back. The handler's format writes no empty record.
* `SeenIsShown`: of any `KeyOf`. `HookInv` says that there is a handler only for an open
  socket and that a
  page still waiting for an answer is empty, so that the answer which replaces the
  list drops nothing that is marked as seen.
* `FollowersInOrder` is not inductive, it says nothing of where a follower is.
  `FollowInv` does: what it has read ends at an offset it knows, with at most `since`
  lines after it, or the file was started again after its last look (`Sleeping`, `Polling`
  for the WebSocket; `Waiting`, `Opening` for a thread of the launcher). A rotation
  needs a file that is full, so the last size it saw was then above two thirds of
  `MaxBytes`, while the new file holds less than a third at the next look: the size
  has fallen, and the follower starts again. That is the assumption
  `3 * Burst * LenOf[n] < MaxBytes`, `Burst` being the lines written between two looks:
  without it a rotated file can have grown past the old offset, and the code then
  skips or cuts lines.
* The two followers differ. The stream reads up to the size it saw; the launcher reads
  to the end of the file, which may be past the size that it will compare with. So the end of
  what a thread has read lies after its last stat, and the first read of a file
  that is rotated between stat and open is repeated: `Replayed` says that what is
  shown twice is a first part (`A`) of what follows (`A` and more). The stream shows
  nothing twice.

### The MCP tools (`Readers_proofs`)

`ToolsInvHolds`, `WalksAreBounded`, `CachedSummariesAreFresh`, `TailsMissOnlyLate`,
`ExportsAreOneMoment`. The invariant (`ToolsInv`) says of a walk under way what the
property says of one that is over. `MissedBehind`, the rows it started with that
are now before its cursor and not fetched, has at most `pruned` elements: a deleted row before the
cursor moves one unread row there, a new one moves a read row away, and a page covers what the
cursor passes. `Again`, the rows fetched that are now after the cursor, together
with the repetitions there already are, has at most `shifted`. For the cache, a row
committed before the rollup began was in the table at its start (`born < walk.at`); for the
tail, what is before `latest` is given, fetched or late (`TailInv`); for the export,
the file is the header and a first part of the snapshot (`ExportInv`).
`CachedSummaryIsFresh` needs that a summary client's rows all pass the filter
(`TableInv`), and that the clock runs at all (`MaxClock` is positive).

### Induction

What a recursively defined function computes is shown without a principle of induction that
takes a formula: a set of naturals that is not empty has a least element
(`NatMin`), hence a set that contains 0 and is closed under the
successor contains every natural up to a bound (`Induction`), hence a function defined by recursion
exists and has its values (`Recursion`). `FilterRange` describes `Filter` that way, for
sequences of any length.

### Only model-checked

* Liveness under fairness: `WriterCatchesUp`, `RequestsEnd`, `StopKills`,
  `EventuallyDelivered`, `Reconnects`, `LinesArrive`, `TailCatchesUp`, `NativeEnds`, and
  the second half of `WrittenIsGiven`. The prover has no `ENABLED` and no rule for
  fairness.
* The two violated properties, of which TLC has the counterexample.

## 5. Not modelled

* **Native**: the cache of registry keys, which, unlike that of file objects, any event
  with a name refreshes (`event_consumer.cpp:428`); the console control handler of
  `main.cpp`; network events, which keep no state; TDH decoding, JSON, `list_processes` and the
  other wrappers of Windows calls; reuse of the target's own pid before the start.
* **Wrapper and backend**: `stats()`, the stderr pump and the metrics, which nothing
  depends on; process listing and target resolution; authentication and request
  tracing, stateless per request; contents and layout of events; the `OSError` branches of
  the log stream's loop (`api_routes.py:547`, `560`), which skip one poll.
* **Launcher**: the metrics poller; a stop worker that is overtaken by a start and
  then ends the new backend's tails and poller; setup and widgets.
* **UI**: the query hook and the pause of the live view; rendering.
* **MCP**: tools that pass one request through, and prompts.
* Icons, configuration, migrations, build scripts: pure I/O.

## 6. Plan

What would come next, in this order:

1. **UI, continued**: **`QueryHook`**, responses out of order under one shared
   `cancelledRef`; the pause of the live view (`App.tsx`), which takes events out of
   the list and clears its buffer on resume; `StreamClient`'s backend as an
   abstraction of `LiveStream`.
2. **`CapturePipe` and `SessionLifecycle`**: the `native` and `pump` part of
   `SessionLifecycle` as an abstraction of `CapturePipe`.
3. **`Launcher`, continued**: the poller, and the tails of `LogFiles` composed with
   the workers that start and stop them.
4. **`NativeEvents`, continued**: the cache of registry keys.
5. **Pure algorithms** against reference definitions: path translation,
   `is_safe_exe_path`, query construction.
6. **Proofs**: the safety of what runs check is proved; next are the refinements of 1
   and 2.
