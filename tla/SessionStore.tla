---------------------------- MODULE SessionStore ----------------------------
(***************************************************************************)
(* The data path of backend/app/store.py: the in-memory sessions and live  *)
(* rings, the write queue, the background writer thread with its batches   *)
(* and its `_drained` flag, flush(), shutdown(), the SQLite tables as the  *)
(* writer and the session operations change them, and a process that dies  *)
(* and rehydrates.  Threads interleave between the statements that touch   *)
(* shared state; a method that runs under `_lock` and whose intermediate   *)
(* states no lock-free reader can tell apart is one step.                  *)
(*                                                                         *)
(* A session is abstracted to its `capture` field (`status` follows it).   *)
(* SQLite is the pair dbSessions, dbEvents of committed contents; which    *)
(* connection holds the write lock, and when a statement therefore fails   *)
(* with "database is locked", is the subject of StoreConnections: here any *)
(* statement may fail that way when LockTimeouts is TRUE.                  *)
(***************************************************************************)
EXTENDS Integers, Sequences, Functions

CONSTANTS Session,       \* session ids
          Event,         \* event ids
          SidOf,         \* the session an event names
          Thread,        \* threads that call add_event (pumps, emit handlers)
          Flusher,       \* threads that call flush()
          Absent,        \* "no such key" / "no such row"
          NoEvent,       \* a thread that is adding nothing
          SHUTDOWN,      \* the sentinel object of the write queue
          RingSize,      \* settings.event_ring_size
          BatchMax,      \* _WRITER_BATCH_MAX
          Births,        \* capture values create() is called with
          Marks,         \* capture values mark_session_status() is called with
          LockTimeouts,  \* may a statement fail with "database is locked"?
          Stops,         \* bound: does the behaviour include shutdown()?
          MaxRestarts    \* bound: process restarts in a behaviour

Active == {"live", "initializing", "tracking"}
Capture == Active \union {"needs_admin", "failed", "stopped", "interrupted"}

ASSUME StoreAssumption ==
    /\ SidOf \in [Event -> Session]
    /\ Absent \notin Capture
    /\ NoEvent \notin Event
    /\ SHUTDOWN \notin Event
    /\ RingSize \in Nat \ {0}
    /\ BatchMax \in Nat \ {0}
    /\ Births \subseteq {"initializing", "needs_admin"}
    /\ Marks \subseteq Capture \ {"interrupted"}
    /\ LockTimeouts \in BOOLEAN
    /\ Stops \in BOOLEAN
    /\ MaxRestarts \in Nat

VARIABLES
    sessions,     \* _sessions: capture value per session, or Absent
    ring,         \* _events: the bounded live tail of each session
    queue,        \* _write_q: events and the SHUTDOWN sentinel
    drained,      \* _drained
    adding,       \* per thread: the event add_event is working on
    addPc,        \* per thread: next statement of add_event
    writer,       \* where the writer thread is
    batch,        \* the writer's `batch` (or `leftovers`)
    lastBatch,    \* the writer's `shutdown_requested`
    flushPc,      \* per flusher: where in flush() it is
    flushFrom,    \* history: events handed off when it called flush()
    stopPc,       \* where shutdown() is
    stopFrom,     \* history: events handed off when _writer_stop was set
    dbSessions,   \* committed rows of table sessions
    dbEvents,     \* committed rows of table events
    born,         \* history: session ids drawn so far
    handoff,      \* history: events in the order they entered the queue
    raced,        \* history: undecided events put after the writer's look at
                  \* the empty queue and cleared for before its set()
    restarts      \* history: process restarts so far

memory == <<sessions, ring>>
adder  == <<adding, addPc>>
writerVars == <<writer, batch, lastBatch>>
flushVars  == <<flushPc, flushFrom>>
stopVars   == <<stopPc, stopFrom>>
db         == <<dbSessions, dbEvents>>
vars == <<sessions, ring, queue, drained, adding, addPc, writer, batch,
          lastBatch, flushPc, flushFrom, stopPc, stopFrom, dbSessions,
          dbEvents, born, handoff, raced, restarts>>

\* What the steps of one thread leave alone.
batchRest  == <<memory, adder, flushVars, stopVars, born, handoff, restarts>>
writerRest == <<batchRest, raced>>
flushRest  == <<memory, queue, drained, adder, writerVars, stopVars, db,
                born, handoff, raced, restarts>>
stopRest   == <<memory, drained, adder, writerVars, flushVars, db, born,
                handoff, raced, restarts>>

\* Events that have been handed off and that only memory still holds.
Held == Range(batch) \union (Range(queue) \ {SHUTDOWN})

\* Events some thread has drawn an id for.
Drawn == Range(handoff) \union (Range(adding) \ {NoEvent})

Rows == {s \in Session : dbSessions[s] # Absent}

\* The writer has found the queue empty and has yet to say so.
Setting == writer \in {"empty", "idle", "mark", "lastFlush", "lastMark"}

\* `_writer_stop.is_set()`
WriterStop == stopPc # "up"

TypeOK ==
    /\ sessions \in [Session -> Capture \union {Absent}]
    /\ ring \in [Session -> Seq(Event)]
    /\ queue \in Seq(Event \union {SHUTDOWN})
    /\ drained \in BOOLEAN
    /\ adding \in [Thread -> Event \union {NoEvent}]
    /\ addPc \in [Thread -> {"idle", "clear", "put"}]
    /\ writer \in {"get", "empty", "idle", "collect", "flush", "check",
                   "mark", "next", "leftover", "lastFlush", "lastMark", "exited"}
    /\ batch \in Seq(Event)
    /\ lastBatch \in BOOLEAN
    /\ flushPc \in [Flusher -> {"out", "queue", "drained", "ok"}]
    /\ flushFrom \in [Flusher -> Nat]
    /\ stopPc \in {"up", "stopSet", "join", "halted"}
    /\ stopFrom \in Nat
    /\ dbSessions \in [Session -> Capture \union {Absent}]
    /\ dbEvents \in SUBSET Event
    /\ born \in SUBSET Session
    /\ handoff \in Seq(Event)
    /\ raced \in SUBSET Event
    /\ restarts \in Nat

Init ==
    /\ sessions = [s \in Session |-> Absent]
    /\ ring = [s \in Session |-> <<>>]
    /\ queue = <<>>
    /\ drained = TRUE
    /\ adding = [t \in Thread |-> NoEvent]
    /\ addPc = [t \in Thread |-> "idle"]
    /\ writer = "get"
    /\ batch = <<>>
    /\ lastBatch = FALSE
    /\ flushPc = [f \in Flusher |-> "out"]
    /\ flushFrom = [f \in Flusher |-> 0]
    /\ stopPc = "up"
    /\ stopFrom = 0
    /\ dbSessions = [s \in Session |-> Absent]
    /\ dbEvents = {}
    /\ born = {}
    /\ handoff = <<>>
    /\ raced = {}
    /\ restarts = 0

-----------------------------------------------------------------------------
(* Mutants.  Each is an action below with one plausible mistake in it; the *)
(* mutation runs put it in the action's place and expect the property it   *)
(* is paired with to fail.                                                 *)

\* A sentinel met by the first get() is taken for an event.
WriterGetNoSentinel ==
    /\ writer = "get"
    /\ queue # <<>>
    /\ queue' = Tail(queue)
    /\ batch' = <<Head(queue)>>
    /\ writer' = "collect"
    /\ UNCHANGED <<writerRest, drained, lastBatch, db>>

\* PRAGMA foreign_keys left off: the rows are deleted, their events stay.
DeleteRowsNoCascade(S) ==
    /\ dbSessions' = [s \in Session |-> IF s \in S THEN Absent ELSE dbSessions[s]]
    /\ UNCHANGED dbEvents

\* `batch` is not emptied between two rounds of the loop.
WriterFlushKeepsBatch ==
    /\ writer = "flush"
    /\ \/ /\ \A e \in Range(batch) : SidOf[e] \in Rows
          /\ dbEvents' = dbEvents \union Range(batch)
       \/ /\ \E e \in Range(batch) : SidOf[e] \notin Rows
          /\ UNCHANGED dbEvents
    /\ writer' = "check"
    /\ UNCHANGED <<writerRest, queue, drained, batch, lastBatch, dbSessions>>

\* A batch whose transaction failed is put back at the end of the queue.
WriterFlushRequeues ==
    /\ writer = "flush"
    /\ batch' = <<>>
    /\ \/ /\ \A e \in Range(batch) : SidOf[e] \in Rows
          /\ dbEvents' = dbEvents \union Range(batch)
          /\ UNCHANGED queue
       \/ /\ LockTimeouts
          /\ queue' = queue \o batch
          /\ UNCHANGED dbEvents
    /\ writer' = "check"
    /\ UNCHANGED <<writerRest, drained, lastBatch, dbSessions>>

\* The sentinel ends the round without a flush.
WriterCollectForgets ==
    /\ writer = "collect"
    /\ Len(batch) < BatchMax
    /\ queue # <<>>
    /\ queue' = Tail(queue)
    /\ IF Head(queue) = SHUTDOWN
       THEN lastBatch' = TRUE /\ writer' = "leftover" /\ batch' = <<>>
       ELSE batch' = Append(batch, Head(queue)) /\ UNCHANGED <<lastBatch, writer>>
    /\ UNCHANGED <<writerRest, drained, db>>

\* The stop flag alone ends the thread.
WriterEmptyCheckHasty ==
    /\ writer = "empty"
    /\ writer' = IF WriterStop THEN "exited" ELSE "idle"
    /\ UNCHANGED <<writerRest, queue, drained, batch, lastBatch, db>>

\* An idle writer does not say that it is drained.
WriterIdleSilent ==
    /\ writer = "idle"
    /\ writer' = "get"
    /\ UNCHANGED <<writerRest, queue, drained, batch, lastBatch, db>>

\* `_drained` is set after every batch, without a look at the queue.
WriterCheckHasty ==
    /\ writer = "check"
    /\ writer' = "mark"
    /\ UNCHANGED <<writerRest, queue, drained, batch, lastBatch, db>>

-----------------------------------------------------------------------------
(* The session operations.  Each changes memory first and SQLite second,   *)
(* so a statement that fails leaves the two apart.                         *)

Locked == LockTimeouts /\ UNCHANGED db

Create(s, c) ==
    /\ s \notin born
    /\ born' = born \union {s}
    /\ sessions' = [sessions EXCEPT ![s] = c]
    /\ \/ dbSessions' = [dbSessions EXCEPT ![s] = c] /\ UNCHANGED dbEvents
       \/ Locked
    /\ UNCHANGED <<ring, queue, drained, adder, writerVars, flushVars,
                   stopVars, handoff, raced, restarts>>

\* A status for a session that is gone updates nothing, in memory or on disk.
MarkStatus(s, c) ==
    /\ s \in born
    /\ sessions' = [sessions EXCEPT ![s] = IF @ = Absent THEN Absent ELSE c]
    /\ \/ /\ dbSessions' = [dbSessions EXCEPT ![s] = IF @ = Absent THEN Absent ELSE c]
          /\ UNCHANGED dbEvents
       \/ Locked
    /\ UNCHANGED <<ring, queue, drained, adder, writerVars, flushVars,
                   stopVars, born, handoff, raced, restarts>>

\* DELETE FROM sessions with the cascade of schema.sql.
DeleteRows(S) ==
    /\ dbSessions' = [s \in Session |-> IF s \in S THEN Absent ELSE dbSessions[s]]
    /\ dbEvents' = {e \in dbEvents : SidOf[e] \notin S}

Forget(S) ==
    /\ sessions' = [s \in Session |-> IF s \in S THEN Absent ELSE sessions[s]]
    /\ ring' = [s \in Session |-> IF s \in S THEN <<>> ELSE ring[s]]
    /\ DeleteRows(S) \/ Locked
    /\ UNCHANGED <<queue, drained, adder, writerVars, flushVars, stopVars,
                   born, handoff, raced, restarts>>

PurgeSession(s) == s \in born /\ Forget({s})

PurgeInactive ==
    LET removed == {s \in Session : sessions[s] \notin Active \union {Absent}}
    IN  removed # {} /\ Forget(removed)

-----------------------------------------------------------------------------
(* add_event: three statements, no lock, on any number of threads.  The    *)
(* session need not exist any more: emit checked it earlier, a pump never  *)
(* does.                                                                   *)

PushRing(r, e) ==
    IF Len(r) < RingSize THEN Append(r, e) ELSE Append(Tail(r), e)

AddRing(t, e) ==
    /\ addPc[t] = "idle"
    /\ e \notin Drawn
    /\ SidOf[e] \in born
    /\ adding' = [adding EXCEPT ![t] = e]
    /\ ring' = [ring EXCEPT ![SidOf[e]] = PushRing(@, e)]
    /\ addPc' = [addPc EXCEPT ![t] = "clear"]
    /\ UNCHANGED <<sessions, queue, drained, writerVars, flushVars, stopVars,
                   db, born, handoff, raced, restarts>>

AddClear(t) ==
    /\ addPc[t] = "clear"
    /\ drained' = FALSE
    /\ addPc' = [addPc EXCEPT ![t] = "put"]
    /\ UNCHANGED <<memory, queue, adding, writerVars, flushVars, stopVars,
                   db, born, handoff, raced, restarts>>

AddPut(t) ==
    /\ addPc[t] = "put"
    /\ queue' = Append(queue, adding[t])
    /\ handoff' = Append(handoff, adding[t])
    /\ raced' = IF drained \/ Setting THEN raced \union {adding[t]} ELSE raced
    /\ adding' = [adding EXCEPT ![t] = NoEvent]
    /\ addPc' = [addPc EXCEPT ![t] = "idle"]
    /\ UNCHANGED <<memory, drained, writerVars, flushVars, stopVars, db,
                   born, restarts>>

-----------------------------------------------------------------------------
(* _writer_loop.                                                           *)

WriterGet ==
    /\ writer = "get"
    /\ queue # <<>>
    /\ queue' = Tail(queue)
    /\ IF Head(queue) = SHUTDOWN
       THEN lastBatch' = TRUE /\ UNCHANGED batch
       ELSE batch' = <<Head(queue)>> /\ UNCHANGED lastBatch
    /\ writer' = "collect"
    /\ UNCHANGED <<writerRest, drained, db>>

\* get() gave up after 0.5 s; the queue may fill again before the next test.
WriterEmpty ==
    /\ writer = "get"
    /\ queue = <<>>
    /\ writer' = "empty"
    /\ UNCHANGED <<writerRest, queue, drained, batch, lastBatch, db>>

WriterEmptyCheck ==
    /\ writer = "empty"
    /\ writer' = IF WriterStop /\ queue = <<>> THEN "exited" ELSE "idle"
    /\ UNCHANGED <<writerRest, queue, drained, batch, lastBatch, db>>

WriterIdle ==
    /\ writer = "idle"
    /\ drained' = TRUE
    /\ writer' = "get"
    /\ UNCHANGED <<writerRest, queue, batch, lastBatch, db>>

WriterCollect ==
    /\ writer = "collect"
    /\ Len(batch) < BatchMax
    /\ queue # <<>>
    /\ queue' = Tail(queue)
    /\ IF Head(queue) = SHUTDOWN
       THEN lastBatch' = TRUE /\ writer' = "flush" /\ UNCHANGED batch
       ELSE batch' = Append(batch, Head(queue)) /\ UNCHANGED <<lastBatch, writer>>
    /\ UNCHANGED <<writerRest, drained, db>>

\* The batch is full, its 0.1 s are over, or get() timed out.
WriterCollectEnd ==
    /\ writer = "collect"
    /\ writer' = "flush"
    /\ UNCHANGED <<writerRest, queue, drained, batch, lastBatch, db>>

\* One transaction: INSERT OR IGNORE skips ids already there, but a row whose
\* session has no row raises and rolls the whole batch back.  The exception is
\* logged and the batch is not retried.
FlushBatch ==
    /\ batch' = <<>>
    /\ raced' = raced \ Range(batch)
    /\ \/ /\ \A e \in Range(batch) : SidOf[e] \in Rows
          /\ dbEvents' = dbEvents \union Range(batch)
          /\ UNCHANGED dbSessions
       \/ /\ \E e \in Range(batch) : SidOf[e] \notin Rows
          /\ UNCHANGED db
       \/ batch # <<>> /\ Locked

WriterFlush ==
    /\ writer = "flush"
    /\ FlushBatch
    /\ writer' = "check"
    /\ UNCHANGED <<batchRest, queue, drained, lastBatch>>

WriterCheck ==
    /\ writer = "check"
    /\ writer' = IF queue = <<>> THEN "mark" ELSE "next"
    /\ UNCHANGED <<writerRest, queue, drained, batch, lastBatch, db>>

WriterMark ==
    /\ writer = "mark"
    /\ drained' = TRUE
    /\ writer' = "next"
    /\ UNCHANGED <<writerRest, queue, batch, lastBatch, db>>

WriterNext ==
    /\ writer = "next"
    /\ writer' = IF lastBatch THEN "leftover" ELSE "get"
    /\ UNCHANGED <<writerRest, queue, drained, batch, lastBatch, db>>

WriterLeftover ==
    /\ writer = "leftover"
    /\ IF queue = <<>>
       THEN writer' = "lastFlush" /\ UNCHANGED <<queue, batch>>
       ELSE /\ queue' = Tail(queue)
            /\ batch' = IF Head(queue) = SHUTDOWN THEN batch
                        ELSE Append(batch, Head(queue))
            /\ UNCHANGED writer
    /\ UNCHANGED <<writerRest, drained, lastBatch, db>>

WriterLastFlush ==
    /\ writer = "lastFlush"
    /\ FlushBatch
    /\ writer' = "lastMark"
    /\ UNCHANGED <<batchRest, queue, drained, lastBatch>>

WriterLastMark ==
    /\ writer = "lastMark"
    /\ drained' = TRUE
    /\ writer' = "exited"
    /\ UNCHANGED <<writerRest, queue, batch, lastBatch, db>>

Writer ==
    \/ WriterGet \/ WriterEmpty \/ WriterEmptyCheck \/ WriterIdle
    \/ WriterCollect \/ WriterCollectEnd \/ WriterFlush \/ WriterCheck
    \/ WriterMark \/ WriterNext \/ WriterLeftover \/ WriterLastFlush
    \/ WriterLastMark

-----------------------------------------------------------------------------
(* Retention, flush(), shutdown() and a process that ends.                 *)

\* Events older than the cutoff; a sweep that meets a lock changes nothing.
Retention(E) ==
    /\ E # {}
    /\ dbEvents' = dbEvents \ E
    /\ UNCHANGED <<memory, queue, drained, adder, writerVars, flushVars,
                   stopVars, dbSessions, born, handoff, raced, restarts>>

FlushCall(f) ==
    /\ flushPc[f] \in {"out", "ok"}
    /\ flushPc' = [flushPc EXCEPT ![f] = "queue"]
    /\ flushFrom' = [flushFrom EXCEPT ![f] = Len(handoff)]
    /\ UNCHANGED flushRest

FlushCheckQueue(f) ==
    /\ flushPc[f] = "queue"
    /\ queue = <<>>
    /\ flushPc' = [flushPc EXCEPT ![f] = "drained"]
    /\ UNCHANGED <<flushRest, flushFrom>>

\* `_drained` not set: wait and test the queue again.
FlushCheckDrained(f) ==
    /\ flushPc[f] = "drained"
    /\ flushPc' = [flushPc EXCEPT ![f] = IF drained THEN "ok" ELSE "queue"]
    /\ UNCHANGED <<flushRest, flushFrom>>

FlushTimeout(f) ==
    /\ flushPc[f] = "queue"
    /\ flushPc' = [flushPc EXCEPT ![f] = "out"]
    /\ flushFrom' = [flushFrom EXCEPT ![f] = 0]
    /\ UNCHANGED flushRest

ShutdownSignal ==
    /\ Stops
    /\ stopPc = "up"
    /\ stopPc' = "stopSet"
    /\ stopFrom' = Len(handoff)
    /\ UNCHANGED <<stopRest, queue>>

ShutdownSentinel ==
    /\ stopPc = "stopSet"
    /\ queue' = Append(queue, SHUTDOWN)
    /\ stopPc' = "join"
    /\ UNCHANGED <<stopRest, stopFrom>>

\* The join gives up after 5 s whether or not the writer is done; then the
\* retention thread is joined, captures are stopped, the connection closed.
ShutdownJoin ==
    /\ stopPc = "join"
    /\ stopPc' = "halted"
    /\ UNCHANGED <<stopRest, queue, stopFrom>>

\* The process dies (at any point, or after shutdown()) and the next one
\* builds its store: threads restart, rows caught mid-capture are interrupted.
Rehydrated(c) == IF c \in Active THEN "interrupted" ELSE c

Restart ==
    /\ restarts < MaxRestarts
    /\ restarts' = restarts + 1
    /\ dbSessions' = [s \in Session |-> Rehydrated(dbSessions[s])]
    /\ sessions' = dbSessions'
    /\ ring' = [s \in Session |-> <<>>]
    /\ queue' = <<>>
    /\ drained' = TRUE
    /\ adding' = [t \in Thread |-> NoEvent]
    /\ addPc' = [t \in Thread |-> "idle"]
    /\ writer' = "get"
    /\ batch' = <<>>
    /\ lastBatch' = FALSE
    /\ flushPc' = [f \in Flusher |-> "out"]
    /\ flushFrom' = [f \in Flusher |-> 0]
    /\ stopPc' = "up"
    /\ stopFrom' = 0
    /\ raced' = {}
    /\ UNCHANGED <<dbEvents, born, handoff>>

-----------------------------------------------------------------------------
SessionOp ==
    \/ \E s \in Session, c \in Births : Create(s, c)
    \/ \E s \in Session, c \in Marks : MarkStatus(s, c)
    \/ \E s \in Session : PurgeSession(s)
    \/ PurgeInactive

AddEvent(t) == (\E e \in Event : AddRing(t, e)) \/ AddClear(t) \/ AddPut(t)

Flush(f) ==
    \/ FlushCall(f) \/ FlushCheckQueue(f) \/ FlushCheckDrained(f) \/ FlushTimeout(f)

Shutdown == ShutdownSignal \/ ShutdownSentinel \/ ShutdownJoin

Next ==
    \/ SessionOp
    \/ \E t \in Thread : AddEvent(t)
    \/ Writer
    \/ \E E \in SUBSET dbEvents : Retention(E)
    \/ \E f \in Flusher : Flush(f)
    \/ Shutdown
    \/ Restart

Spec == Init /\ [][Next]_vars

\* The writer is a daemon thread that never waits without a timeout, so the
\* scheduler runs it again and again; nothing else is assumed fair.
FairSpec == Spec /\ WF_vars(Writer)

-----------------------------------------------------------------------------
(* Properties.                                                             *)

\* A stored event belongs to a session that has a row: events.session_id
\* REFERENCES sessions ON DELETE CASCADE, against purges, cleanups, batches
\* in flight and restarts.
ForeignKey == \A e \in dbEvents : SidOf[e] \in Rows

\* An event is in one place at a time: once in the writer's batch or once in
\* the queue, and in neither when it is stored; INSERT OR IGNORE has nothing
\* to hide.
HeldOnce ==
    LET all == batch \o queue
    IN  /\ \A i, j \in DOMAIN all : all[i] = all[j] /\ all[i] # SHUTDOWN => i = j
        /\ Held \intersect dbEvents = {}

\* Events become durable in the order they were handed off: when a later one
\* is stored, no earlier one is still waiting (a restart finds a prefix, minus
\* whole batches that failed).
StoredInOrder ==
    \A i, j \in DOMAIN handoff :
        i < j /\ handoff[j] \in dbEvents => handoff[i] \notin Held

\* What a flush() that returns without a timeout is worth: everything handed
\* off before the call is decided, stored or given up.  One thing only escapes
\* it: an event in the writer's hands whose put() came after a look of the writer
\* at the empty queue and whose clear() came before the set() that follows it.
FlushCommits ==
    \A f \in Flusher : flushPc[f] = "ok" =>
        \A i \in 1..flushFrom[f] : handoff[i] \in Held =>
            handoff[i] \in Range(batch) \intersect raced

\* A writer thread that has returned left nothing behind that was handed off
\* before shutdown() set the stop flag.
ShutdownKeepsEarlier ==
    writer = "exited" => \A i \in 1..stopFrom : handoff[i] \notin Held

\* The writer gives up an event only if that event's own session is gone
\* (docs/architecture.md: "The writer thread persists the same event").
LostOnlyIfPurged ==
    [][\A e \in Range(batch) :
          /\ e \notin Range(batch') \union dbEvents'
          /\ restarts' = restarts
          => SidOf[e] \notin Rows]_vars

\* The data path implements the abstract event log.
Log == INSTANCE EventLog WITH
          MayFail <- LockTimeouts,
          used <- Range(handoff),
          pending <- Held,
          stored <- dbEvents,
          rows <- Rows
LogSpec == Log!Spec

\* A running writer catches up: an event handed off is decided, stored or given
\* up with its batch, and `_drained` does not stay cleared, so flush() cannot be
\* left to its timeout by the race between clear(), put() and set().  Only
\* shutdown() may leave them waiting.
WriterCatchesUp ==
    /\ \A e \in Event : e \in Held ~> (e \notin Held \/ WriterStop)
    /\ ~drained ~> (drained \/ WriterStop)

=============================================================================
