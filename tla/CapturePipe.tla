---------------------------- MODULE CapturePipe -----------------------------
(***************************************************************************)
(* A CaptureService (service/capture_service.py) and the native process    *)
(* it spawns (service/native/src/main.cpp): the hello handshake, the pump  *)
(* of stdout, the stop ladder, and the kernel trace sessions, which        *)
(* outlive a process that is killed.  NativeEvents says what the native    *)
(* process does with the events; a line on its stdout carries each one it  *)
(* emits.                                                                  *)
(*                                                                         *)
(* One capture at a time is followed, beside the session of a neighbour    *)
(* that captures all the while.  A service is started once, so starts are  *)
(* starts of new services; the next one comes when the process and the     *)
(* pump of the one before are gone.  A write to a full pipe waits.         *)
(***************************************************************************)
EXTENDS NativeEvents

CONSTANTS PipeCap,      \* lines the stdout pipe holds
          MaxStarts,    \* bound: starts, when the target is plain
          MaxStats      \* bound: heartbeats per start

ASSUME CapturePipeAssumption ==
    /\ {PipeCap, MaxStarts} \subseteq Nat \ {0}
    /\ MaxStats \in Nat

VARIABLES
    call,      \* where the wrapper is: the next step of start() or stop()
    main,      \* the next step of the native main thread
    starts,    \* the number of the start, which names its trace session
    sessions,  \* trace sessions the kernel has; 0 is the neighbour's
    killed,    \* history: starts whose native process was terminated
    doomed,    \* the native process has been told to terminate
    shutdown,  \* g_shutdown
    stdin,     \* whether the wrapper's end is open
    pipe,      \* lines on stdout that have not been read
    pump,      \* the stdout pump thread
    written,   \* history: events whose line has been written
    beats,     \* heartbeats written
    given      \* history: what on_event was called with

wrapper == <<call, starts, stdin>>
output  == <<pipe, written, beats>>
process == <<main, sessions, killed, doomed, shutdown>>
input   == <<pump, given>>
vars == <<eventVars, wrapper, output, process, input>>

Neighbour == 0
NativePrefix == "tracker_capture-"
WrapperPrefix == "ActivityTracker-"

Line == [kind : {"hello", "old", "stats", "torn"}] \union [kind : {"event"}, n : 1..MaxOps]

\* The native process runs; its callback thread runs.
Up == main \notin {"none", "gone"}
Consuming == main \in {"table", "names", "store", "run", "drain"}
Dead == call = "dead"

TypeOK ==
    /\ EventsTypeOK
    /\ call \in {"idle", "hello", "started", "closing", "terminating", "joining",
                 "stopped", "failed", "dead"}
    /\ main \in {"none", "sweep", "trace", "hello", "enable", "consume", "table",
                 "names", "store", "run", "drain", "close", "gone"}
    /\ starts \in 0..MaxStarts
    /\ sessions \in SUBSET (0..MaxStarts)
    /\ killed \in SUBSET (1..MaxStarts)
    /\ {doomed, shutdown} \subseteq BOOLEAN
    /\ stdin \in {"open", "closed"}
    /\ pipe \in Seq(Line)
    /\ pump \in {"none", "run", "ended"}
    /\ written \in 0..MaxOps
    /\ beats \in 0..MaxStats
    /\ given \in Seq(1..MaxOps)

Init ==
    /\ EventsInit
    /\ call = "idle"
    /\ main = "none"
    /\ starts = 0
    /\ sessions = {Neighbour}
    /\ killed = {}
    /\ doomed = FALSE
    /\ shutdown = FALSE
    /\ stdin = "open"
    /\ pipe = <<>>
    /\ pump = "none"
    /\ written = 0
    /\ beats = 0
    /\ given = <<>>

\* WriteStdoutLine: a reader that is gone makes the write fail, unnoticed.
Room == Dead \/ Len(pipe) < PipeCap
Put(line) == Room /\ pipe' = IF Dead THEN pipe ELSE Append(pipe, line)

\* Bound: how far the wrapper lags behind is explored with a plain target only.
Keeping == plain \/ pipe = <<>>

-----------------------------------------------------------------------------
(* start().                                                                *)

MayStart ==
    /\ call \in {"idle", "stopped", "failed", "dead"}
    /\ ~Up
    /\ pump # "run"
    /\ starts < IF plain THEN MaxStarts ELSE 1
    /\ starts' = starts + 1

\* No administrator, no binary, or no process.
StartRefused ==
    /\ plain
    /\ MayStart
    /\ call' = "failed"
    /\ UNCHANGED <<eventVars, stdin, output, process, input>>

Spawned ==
    /\ MayStart
    /\ call' = "hello"
    /\ main' = "sweep"
    /\ doomed' = FALSE
    /\ shutdown' = FALSE
    /\ stdin' = "open"
    /\ pipe' = <<>>
    /\ pump' = "none"
    /\ written' = 0
    /\ beats' = 0
    /\ given' = <<>>
    /\ filter' = {Root}
    /\ capped' = FALSE
    /\ cache' = EmptyCache
    /\ snap' = <<>>
    /\ last' = Nothing
    /\ named' = {}
    /\ UNCHANGED <<target, traced, kernel, sessions, killed>>

\* Mutant of the next one: the reader takes all that is in the pipe.
HelloReadAhead ==
    /\ call = "hello"
    /\ pipe # <<>>
    /\ Head(pipe).kind = "hello"
    /\ call' = "started"
    /\ pump' = "run"
    /\ pipe' = <<>>
    /\ UNCHANGED <<eventVars, process, starts, stdin, written, beats, given>>

\* The helper thread reads one line; after a hello of the right version the
\* pump reads on.
HelloRead ==
    /\ call = "hello"
    /\ pipe # <<>>
    /\ Head(pipe).kind = "hello"
    /\ call' = "started"
    /\ pump' = "run"
    /\ pipe' = Tail(pipe)
    /\ UNCHANGED <<eventVars, process, starts, stdin, written, beats, given>>

HelloRefused ==
    /\ call = "hello"
    /\ pipe # <<>>
    /\ Head(pipe).kind # "hello"
    /\ call' = "failed"
    /\ pipe' = Tail(pipe)
    /\ doomed' = TRUE
    /\ UNCHANGED <<eventVars, main, sessions, killed, shutdown, starts, stdin,
                   written, beats, input>>

\* The process has exited and no line has been read yet, a hello in the pipe or
\* not; or stdout ended without one.
HelloExited ==
    /\ call = "hello"
    /\ ~Up
    /\ call' = "failed"
    /\ UNCHANGED <<eventVars, process, starts, stdin, output, input>>

HelloTimeout ==
    /\ plain
    /\ call = "hello"
    /\ call' = "failed"
    /\ doomed' = TRUE
    /\ UNCHANGED <<eventVars, main, sessions, killed, shutdown, starts, stdin,
                   output, input>>

-----------------------------------------------------------------------------
(* _stdout_pump and stop().                                                *)

\* Heartbeats are kept aside and a line that is no JSON is counted; whether
\* on_event raises makes no difference.
PumpRead ==
    /\ pump = "run"
    /\ pipe # <<>>
    /\ pipe' = Tail(pipe)
    /\ given' = IF Head(pipe).kind = "event" THEN Append(given, Head(pipe).n) ELSE given
    /\ UNCHANGED <<eventVars, process, wrapper, written, beats, pump>>

PumpEof ==
    /\ pump = "run"
    /\ pipe = <<>>
    /\ ~Up
    /\ pump' = "ended"
    /\ UNCHANGED <<eventVars, process, wrapper, output, given>>

Stop ==
    /\ plain
    /\ call = "started"
    /\ call' = "closing"
    /\ stdin' = "closed"
    /\ UNCHANGED <<eventVars, process, starts, output, input>>

StopWaited ==
    /\ call = "closing"
    /\ ~Up
    /\ call' = "joining"
    /\ UNCHANGED <<eventVars, process, starts, stdin, output, input>>

\* After 3 s; kill() after 2 s more is terminate() again.
StopTimeout ==
    /\ call = "closing"
    /\ Up
    /\ call' = "terminating"
    /\ doomed' = TRUE
    /\ UNCHANGED <<eventVars, main, sessions, killed, shutdown, starts, stdin,
                   output, input>>

StopTerminated ==
    /\ call = "terminating"
    /\ call' = "joining"
    /\ UNCHANGED <<eventVars, process, starts, stdin, output, input>>

\* The pump has ended, or 2 s are over and it goes on alone.
StopJoined ==
    /\ call = "joining"
    /\ call' = "stopped"
    /\ UNCHANGED <<eventVars, process, starts, stdin, output, input>>

\* The backend's process ends, and with it both ends of the pipes it held.
BackendDies ==
    /\ plain
    /\ call \in {"hello", "started", "closing", "terminating", "joining"}
    /\ call' = "dead"
    /\ stdin' = "closed"
    /\ pipe' = <<>>
    /\ pump' = "ended"
    /\ UNCHANGED <<eventVars, process, starts, written, beats, given>>

-----------------------------------------------------------------------------
(* The native process: wmain, StdinWatcher, the heartbeat.                 *)

Goes(from, to) == main = from /\ ~doomed /\ Keeping /\ main' = to

\* SweepOrphans stops what is named like the default session of a bare native
\* process; every session here has the wrapper's name.
Swept == {s \in sessions : WrapperPrefix = NativePrefix}

MainSweep ==
    /\ Goes("sweep", "trace")
    /\ sessions' = sessions \ Swept
    /\ UNCHANGED <<eventVars, killed, doomed, shutdown, wrapper, output, input>>

\* The name has a uuid: no other session has it.
MainTrace ==
    /\ Goes("trace", "hello")
    /\ sessions' = sessions \union {starts}
    /\ UNCHANGED <<eventVars, killed, doomed, shutdown, wrapper, output, input>>

MainTraceFails ==
    /\ plain
    /\ Goes("trace", "gone")
    /\ UNCHANGED <<eventVars, sessions, killed, doomed, shutdown, wrapper, output, input>>

MainHello ==
    /\ Goes("hello", "enable")
    /\ \E k \in IF plain THEN {"hello", "old"} ELSE {"hello"} : Put([kind |-> k])
    /\ UNCHANGED <<eventVars, sessions, killed, doomed, shutdown, wrapper, written,
                   beats, input>>

MainEnable ==
    /\ Goes("enable", "consume")
    /\ traced' = TRUE
    /\ UNCHANGED <<target, kernel, native, sessions, killed, doomed, shutdown, wrapper,
                   output, input>>

MainConsume ==
    /\ Goes("consume", "table")
    /\ UNCHANGED <<eventVars, sessions, killed, doomed, shutdown, wrapper, output, input>>

SessionStopped ==
    /\ sessions' = sessions \ {starts}
    /\ traced' = FALSE

\* Mutant of the next one: the session is left to the exit.
MainConsumeFailsOnly ==
    /\ plain
    /\ Goes("consume", "gone")
    /\ traced' = FALSE
    /\ kernel' = <<>>
    /\ UNCHANGED <<target, native, sessions, killed, doomed, shutdown, wrapper, output,
                   input>>

\* The hello is out by then.
MainConsumeFails ==
    /\ plain
    /\ Goes("consume", "gone")
    /\ SessionStopped
    /\ kernel' = <<>>
    /\ UNCHANGED <<target, native, killed, doomed, shutdown, wrapper, output, input>>

MainTable ==
    /\ Goes("table", "names")
    /\ TakeTable
    /\ UNCHANGED <<sessions, killed, doomed, shutdown, wrapper, output, input>>

MainNames ==
    /\ Goes("names", "store")
    /\ TakeNames
    /\ UNCHANGED <<sessions, killed, doomed, shutdown, wrapper, output, input>>

MainSeed ==
    /\ Goes("store", "run")
    /\ SeedCache
    /\ UNCHANGED <<sessions, killed, doomed, shutdown, wrapper, output, input>>

\* The callback thread: one event, and its line if it has one.
Callback ==
    /\ Consuming
    /\ ~doomed
    /\ Room
    /\ Keeping
    /\ HandleEvent
    /\ IF last'.emitted
       THEN /\ written' = written + 1
            /\ Put([kind |-> "event", n |-> written'])
       ELSE UNCHANGED <<pipe, written>>
    /\ UNCHANGED <<beats, process, wrapper, input>>

Heartbeat ==
    /\ Consuming
    /\ ~doomed
    /\ plain
    /\ beats < MaxStats
    /\ beats' = beats + 1
    /\ Put([kind |-> "stats"])
    /\ UNCHANGED <<eventVars, process, wrapper, written, input>>

\* Mutant of the next one: a pipe that broke is taken for one with nothing in it.
StdinEofWhenClosed ==
    /\ main = "run"
    /\ ~doomed
    /\ ~shutdown
    /\ stdin = "closed"
    /\ ~Dead
    /\ shutdown' = TRUE
    /\ SessionStopped
    /\ UNCHANGED <<target, kernel, native, main, killed, doomed, wrapper, output, input>>

\* The watcher thread, which starts after the seed.
StdinEof ==
    /\ main = "run"
    /\ ~doomed
    /\ ~shutdown
    /\ stdin = "closed"
    /\ shutdown' = TRUE
    /\ SessionStopped
    /\ UNCHANGED <<target, kernel, native, main, killed, doomed, wrapper, output, input>>

MainLoopEnds ==
    /\ Goes("run", "drain")
    /\ shutdown
    /\ UNCHANGED <<eventVars, sessions, killed, doomed, shutdown, wrapper, output, input>>

\* consumer.Stop joins the heartbeat and the callback thread: neither may hang
\* in a write.  What the callback has not been given is dropped.
MainDrain ==
    /\ Goes("drain", "close")
    /\ kernel = <<>> \/ Room
    /\ kernel' = <<>>
    /\ UNCHANGED <<target, traced, native, sessions, killed, doomed, shutdown, wrapper,
                   output, input>>

MainExit ==
    /\ Goes("close", "gone")
    /\ SessionStopped
    /\ UNCHANGED <<target, kernel, native, killed, doomed, shutdown, wrapper, output, input>>

\* Somebody ends the native process: the launcher's taskkill of the tree, or a
\* crash.
NativeKilled ==
    /\ plain
    /\ Up
    /\ ~doomed
    /\ doomed' = TRUE
    /\ UNCHANGED <<eventVars, main, sessions, killed, shutdown, wrapper, output, input>>

\* No handler runs: the trace session stays, and a line may be cut short.
NativeDies ==
    /\ doomed
    /\ Up
    /\ main' = "gone"
    /\ killed' = killed \union {starts}
    /\ traced' = FALSE
    /\ kernel' = <<>>
    /\ \/ UNCHANGED pipe
       \/ Consuming /\ kernel # <<>> /\ Put([kind |-> "torn"])
    /\ UNCHANGED <<target, native, sessions, doomed, shutdown, wrapper, written, beats, input>>

-----------------------------------------------------------------------------

Wrapper ==
    \/ StartRefused \/ Spawned
    \/ HelloRead \/ HelloRefused \/ HelloExited \/ HelloTimeout
    \/ PumpRead \/ PumpEof
    \/ Stop \/ StopWaited \/ StopTimeout \/ StopTerminated \/ StopJoined
    \/ BackendDies

NativeMain ==
    \/ MainSweep \/ MainTrace \/ MainTraceFails \/ MainHello \/ MainEnable
    \/ MainConsume \/ MainConsumeFails \/ MainTable \/ MainSeed
    \/ MainLoopEnds \/ MainDrain \/ MainExit

\* What the target does between the start and the enabling of the providers is
\* as seen, or unseen, as what it does before the start.
TargetStep ==
    /\ main \in {"none", "consume"} \/ Consuming
    /\ Keeping
    /\ Target
    /\ UNCHANGED <<wrapper, output, process, input>>

Next ==
    \/ TargetStep
    \/ Wrapper
    \/ NativeMain \/ MainNames
    \/ Callback \/ Heartbeat \/ StdinEof
    \/ NativeKilled \/ NativeDies

Spec == Init /\ [][Next]_vars

\* Threads that can go on do, and timeouts expire; but asking for the path of
\* a handle (MainNames) may never return.
FairSpec ==
    /\ Spec
    /\ WF_vars(NativeMain)
    /\ WF_vars(Callback)
    /\ WF_vars(StdinEof)
    /\ WF_vars(NativeDies)
    /\ WF_vars(HelloRead \/ HelloRefused \/ HelloExited)
    /\ WF_vars(PumpRead \/ PumpEof)
    /\ WF_vars(StopWaited \/ StopTimeout \/ StopTerminated \/ StopJoined)

-----------------------------------------------------------------------------
(* Properties.                                                             *)

\* A trace session is nobody's leftover unless its native process was killed,
\* whichever way a start or a stop went; and nobody takes away the session of a
\* capture that goes on, not the sweep at another one's start nor a stop or an
\* exit of another one.
SessionsHaveOwners ==
    /\ TypeOK
    /\ \A s \in sessions \ {Neighbour} : s \in killed \/ (s = starts /\ Up)
    /\ Neighbour \in sessions
    /\ Consuming /\ ~shutdown => starts \in sessions

\* A native process that nobody wants ends: after a start that raised; after a
\* stop(), which comes to its end itself even if the process hangs; and after
\* the backend died, when it takes its session with it unless it hangs over a
\* handle's path or is killed.
NativeEnds ==
    /\ (call = "failed") ~> ~Up
    /\ (call = "closing") ~> ((call = "stopped" /\ ~Up) \/ Dead)
    /\ Dead ~> (main = "names" \/ (~Up /\ starts \notin sessions \ killed))

\* on_event is called with the events in the order they were written, none twice
\* and none left out in between, whatever else is on the pipe and however the
\* process ends; and each line written while the wrapper reads is given to it,
\* also if the callback raised for one before, or stop() has begun.
WrittenIsGiven ==
    /\ [](given = [i \in 1..Len(given) |-> i])
    /\ \A n \in 1..MaxUses :
           (call = "started" /\ written = n) ~> (Len(given) >= n \/ Dead)
=============================================================================
