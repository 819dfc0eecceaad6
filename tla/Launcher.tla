------------------------------ MODULE Launcher ------------------------------
(***************************************************************************)
(* The launcher's supervision of the backend (launcher/tracker_launcher.py):*)
(* BackendProcess with one output pump per start, the Tk main thread with  *)
(* its buttons, its callbacks posted by after(0, ...) and its timers, the  *)
(* readiness threads, the stop and restart workers, and the restart after  *)
(* a crash.                                                                *)
(*                                                                         *)
(* The n-th successful Popen is process n.  Popen.returncode is set by     *)
(* poll() and wait() only, and on Windows nothing else reaps a child:      *)
(* `reaped` says that one of them has seen the exit.  terminate() is       *)
(* TerminateProcess, it ends the process with a non-zero code; the wait    *)
(* that follows is one step with it.                                       *)
(***************************************************************************)
EXTENDS Integers, Sequences, Functions

CONSTANTS CrashRestartCap,  \* _crash_restart_cap
          ReadyTries,       \* attempts of _wait_until_ready (60)
          MaxStarts,        \* bound: successful Popen calls in a behaviour
          MaxClicks         \* bound: actions of the user in a behaviour

Process == 1..MaxStarts
Worker == {"stop", "restart"}
Transition == Worker \union {"start"}
Status == {"stopped", "starting", "running", "stopping", "error"}
Callback == Status \union {"releaseStop", "releaseRestart", "onStart", "armRestart"}

ASSUME LauncherAssumption ==
    /\ CrashRestartCap \in Nat
    /\ ReadyTries \in Nat \ {0}
    /\ MaxStarts \in Nat \ {0}
    /\ MaxClicks \in Nat

VARIABLES
    proc,         \* backend._proc: the process started last, 0 for None
    alive,        \* processes that run
    code,         \* how `_proc` exited: every way but "zero" is a code # 0
    reaped,       \* is its `returncode` set?
    intentional,  \* backend._intentional_stop
    pump,         \* per process: where its _pump thread is
    ready,        \* per process: where its _wait_until_ready thread is
    tries,        \* per process: attempts that thread has left
    worker,       \* where _stop_worker and _restart_worker are
    main,         \* the Tk thread: in its loop, inside _on_start, or gone
    tk,           \* callbacks posted to it
    restarts,     \* armed backoff timers
    releases,     \* armed release timers (800 ms, 600 ms)
    busy,         \* _busy
    offer,        \* enabled buttons: none, Start, or Stop and Restart
    status,       \* the status label
    crashes,      \* _crash_restart_count
    clicks        \* what the user has done so far, for the bound

process == <<proc, alive, code, reaped>>
threads == <<pump, ready, tries, worker>>
window  == <<busy, offer, status>>
timers  == <<restarts, releases>>
vars == <<process, intentional, threads, main, tk, timers, window, crashes, clicks>>

TypeOK ==
    /\ proc \in 0..MaxStarts
    /\ alive \in SUBSET Process
    /\ code \in {"none", "zero", "crash", "killed"}
    /\ reaped \in BOOLEAN
    /\ intentional \in BOOLEAN
    /\ pump \in [Process -> {"off", "read", "decide", "told"}]
    /\ ready \in [Process -> {"off", "poll", "report"}]
    /\ tries \in [Process -> 0..ReadyTries]
    /\ worker \in [Worker -> {"off", "ask", "kill", "post"}]
    /\ main \in {"loop", "spawn", "closed"}
    /\ tk \in Seq(Callback)
    /\ restarts \in Nat
    /\ releases \in SUBSET {"start", "stop"}
    /\ busy \in SUBSET Transition
    /\ offer \in {"none", "start", "stop"}
    /\ status \in Status
    /\ crashes \in Nat
    /\ clicks \in 0..MaxClicks

Init ==
    /\ proc = 0
    /\ alive = {}
    /\ code = "none"
    /\ reaped = FALSE
    /\ intentional = FALSE
    /\ pump = [p \in Process |-> "off"]
    /\ ready = [p \in Process |-> "off"]
    /\ tries = [p \in Process |-> 0]
    /\ worker = [w \in Worker |-> "off"]
    /\ main = "loop"
    /\ tk = <<>>
    /\ restarts = 0
    /\ releases = {}
    /\ busy = {}
    /\ offer = "start"
    /\ status = "stopped"
    /\ crashes = 0
    /\ clicks = 0

\* `running`: a poll(), which reaps a process that has exited.
Running == proc \in alive
Polled == proc # 0 /\ ~Running

\* _refresh_button_states after `busy` became b: a transition in flight keeps
\* the buttons disabled.
Refresh(b) ==
    IF b # {} THEN UNCHANGED <<offer, reaped>>
    ELSE /\ offer' = IF Running THEN "stop" ELSE "start"
         /\ reaped' = Polled

SetStatus(s) == status' = s /\ Refresh(busy)

Release(t) == busy' = busy \ {t} /\ Refresh(busy \ {t})

\* TerminateProcess and the wait for the process that `_proc` names.
Terminate ==
    /\ alive' = alive \ {proc}
    /\ code' = IF Running THEN "killed" ELSE code
    /\ reaped' = TRUE

-----------------------------------------------------------------------------
(* _on_start, on the Tk thread: by the button, after a restart, or by the  *)
(* backoff timer.                                                          *)

StartIgnored ==
    /\ "start" \in busy
    /\ UNCHANGED <<window, releases, reaped, intentional, main>>

\* Mutant of the next one: the buttons stay as they are.
StartEnteredQuietly ==
    /\ "start" \notin busy
    /\ busy' = busy \union {"start"}
    /\ reaped' = Polled
    /\ UNCHANGED offer

StartEntered ==
    /\ "start" \notin busy
    /\ busy' = busy \union {"start"}
    /\ offer' = "none"
    /\ reaped' = Polled

StartWhileUp ==
    /\ StartEntered
    /\ Running
    /\ releases' = releases \union {"start"}
    /\ UNCHANGED <<status, intentional, main>>

\* _ensure_setup remembers that it succeeded; a backend that was started once
\* has passed it.
StartNoSetup ==
    /\ StartEntered
    /\ proc = 0
    /\ status' = "error"
    /\ releases' = releases \union {"start"}
    /\ UNCHANGED <<intentional, main>>

\* Mutant of the next one: a backend that runs is started again.
StartBeginsAnyway ==
    /\ StartEntered
    /\ status' = "starting"
    /\ intentional' = FALSE
    /\ main' = "spawn"
    /\ UNCHANGED releases

\* Up to and including `_intentional_stop = False`.
StartBegins ==
    /\ StartEntered
    /\ ~Running
    /\ status' = "starting"
    /\ intentional' = FALSE
    /\ main' = "spawn"
    /\ UNCHANGED releases

OnStart == StartIgnored \/ StartWhileUp \/ StartNoSetup \/ StartBegins

startRest == <<proc, alive, code, threads, crashes>>

ClickStart ==
    /\ main = "loop"
    /\ offer = "start"
    /\ OnStart
    /\ UNCHANGED <<startRest, tk, restarts>>

\* The backoff (1 s, 2 s, 4 s) is over.
RestartTimer ==
    /\ main = "loop"
    /\ restarts > 0
    /\ restarts' = restarts - 1
    /\ OnStart
    /\ UNCHANGED <<startRest, tk>>

\* Popen, its pump and its readiness thread.
Spawn ==
    /\ main = "spawn"
    /\ proc < MaxStarts
    /\ proc' = proc + 1
    /\ alive' = alive \union {proc'}
    /\ code' = "none"
    /\ reaped' = FALSE
    /\ pump' = [pump EXCEPT ![proc'] = "read"]
    /\ ready' = [ready EXCEPT ![proc'] = "poll"]
    /\ tries' = [tries EXCEPT ![proc'] = ReadyTries]
    /\ releases' = releases \union {"start"}
    /\ main' = "loop"
    /\ UNCHANGED <<intentional, worker, tk, restarts,
                   window, crashes>>

\* Mutant of the next one: a Popen that raises leaves the label alone.
SpawnFailsSilently ==
    /\ main = "spawn"
    /\ releases' = releases \union {"start"}
    /\ main' = "loop"
    /\ UNCHANGED <<process, intentional, threads, tk, restarts, window, crashes>>

SpawnFails ==
    /\ main = "spawn"
    /\ SetStatus("error")
    /\ releases' = releases \union {"start"}
    /\ main' = "loop"
    /\ UNCHANGED <<proc, alive, code, intentional, threads, tk, restarts, busy,
                   crashes>>

-----------------------------------------------------------------------------
(* Stop, restart and close.                                                *)

\* Mutant of the next one: a Stop that finds no backend is never released.
ClickStopStaysBusy ==
    /\ main = "loop"
    /\ offer = "stop"
    /\ "stop" \notin busy
    /\ crashes' = 0
    /\ busy' = busy \union {"stop"}
    /\ offer' = "none"
    /\ reaped' = Polled
    /\ worker' = IF Running THEN [worker EXCEPT !["stop"] = "ask"] ELSE worker
    /\ status' = IF Running THEN "stopping" ELSE "stopped"
    /\ UNCHANGED <<proc, alive, code, intentional, pump, ready, tries, main,
                   tk, timers>>

ClickStop ==
    /\ main = "loop"
    /\ offer = "stop"
    /\ "stop" \notin busy
    /\ crashes' = 0
    /\ busy' = busy \union {"stop"}
    /\ offer' = "none"
    /\ reaped' = Polled
    /\ IF Running
       THEN /\ worker' = [worker EXCEPT !["stop"] = "ask"]
            /\ status' = "stopping"
            /\ UNCHANGED releases
       ELSE /\ status' = "stopped"
            /\ releases' = releases \union {"stop"}
            /\ UNCHANGED worker
    /\ UNCHANGED <<proc, alive, code, intentional, pump, ready, tries, main,
                   tk, restarts>>

\* The button, or F5, which no disabled button stops.
PressRestart ==
    /\ main = "loop"
    /\ "restart" \notin busy
    /\ busy' = busy \union {"restart"}
    /\ offer' = "none"
    /\ worker' = [worker EXCEPT !["restart"] = "ask"]
    /\ UNCHANGED <<process, intentional, pump, ready, tries, main, tk, timers,
                   status, crashes>>

\* backend.stop(): nothing to do for a backend that does not run.
WorkerAsk(w) ==
    /\ worker[w] = "ask"
    /\ reaped' = Polled
    /\ intentional' = (intentional \/ Running)
    /\ worker' = [worker EXCEPT ![w] =
                     IF Running THEN "kill" ELSE "post"]
    /\ tk' = IF w = "restart" /\ Running THEN Append(tk, "stopping") ELSE tk
    /\ UNCHANGED <<proc, alive, code, pump, ready, tries, main, timers, window,
                   crashes>>

WorkerKill(w) ==
    /\ worker[w] = "kill"
    /\ Terminate
    /\ worker' = [worker EXCEPT ![w] = "post"]
    /\ UNCHANGED <<proc, intentional, pump, ready, tries, main, tk, timers,
                   window, crashes>>

WorkerPost(w) ==
    /\ worker[w] = "post"
    /\ tk' = tk \o (IF w = "stop" THEN <<"stopped", "releaseStop">>
                                  ELSE <<"onStart", "releaseRestart">>)
    /\ worker' = [worker EXCEPT ![w] = "off"]
    /\ UNCHANGED <<process, intentional, pump, ready, tries, main, timers,
                   window, crashes>>

\* _on_close, confirmed: backend.stop(), and with the window go its callbacks,
\* its timers and all (daemon) threads.
Close ==
    /\ main = "loop"
    /\ main' = "closed"
    /\ intentional' = (intentional \/ Running)
    /\ IF Running THEN Terminate
       ELSE reaped' = Polled /\ UNCHANGED <<alive, code>>
    /\ pump' = [p \in Process |-> "off"]
    /\ ready' = [p \in Process |-> "off"]
    /\ tries' = [p \in Process |-> 0]
    /\ worker' = [w \in Worker |-> "off"]
    /\ tk' = <<>>
    /\ restarts' = 0
    /\ releases' = {}
    /\ UNCHANGED <<proc, window, crashes>>

-----------------------------------------------------------------------------
(* Callbacks and timers of the Tk thread.                                  *)

callbackRest == <<proc, alive, code, threads, crashes>>

RunCallback ==
    LET call == Head(tk) IN
    /\ main = "loop"
    /\ tk # <<>>
    /\ tk' = Tail(tk)
    /\ \/ /\ call \in Status
          /\ SetStatus(call)
          /\ UNCHANGED <<busy, timers, intentional, main>>
       \/ /\ call = "releaseStop"
          /\ Release("stop")
          /\ UNCHANGED <<status, timers, intentional, main>>
       \/ /\ call = "releaseRestart"
          /\ Release("restart")
          /\ UNCHANGED <<status, timers, intentional, main>>
       \/ /\ call = "armRestart"
          /\ restarts' = restarts + 1
          /\ UNCHANGED <<window, reaped, releases, intentional, main>>
       \/ /\ call = "onStart"
          /\ OnStart
          /\ UNCHANGED restarts
    /\ UNCHANGED callbackRest

ReleaseTimer(t) ==
    /\ main = "loop"
    /\ t \in releases
    /\ releases' = releases \ {t}
    /\ Release(t)
    /\ UNCHANGED <<proc, alive, code, intentional, threads, main, tk, restarts,
                   status, crashes>>

-----------------------------------------------------------------------------
(* The backend, its pump and its readiness thread.                         *)

\* uvicorn returns, or dies of an unhandled exception or of a kill.
Exit(c) ==
    /\ Running
    /\ alive' = alive \ {proc}
    /\ code' = c
    /\ UNCHANGED <<proc, reaped, intentional, threads, main, tk, timers, window,
                   crashes>>

\* End of file: `rc = self._proc.returncode`, of whatever `_proc` is now.
\* Nothing more happens for an rc in (0, None).
PumpEof(p) ==
    /\ pump[p] = "read"
    /\ p \notin alive
    /\ pump' = [pump EXCEPT ![p] =
                   IF reaped /\ code # "zero" THEN "decide" ELSE "off"]
    /\ UNCHANGED <<process, intentional, ready, tries, worker, main, tk, timers,
                   window, crashes>>

\* `not self._intentional_stop`: call _on_backend_crashed.
PumpDecide(p) ==
    /\ pump[p] = "decide"
    /\ IF intentional
       THEN pump' = [pump EXCEPT ![p] = "off"] /\ UNCHANGED <<crashes, tk>>
       ELSE /\ pump' = [pump EXCEPT ![p] = "told"]
            /\ crashes' = crashes + 1
            /\ tk' = Append(tk, IF crashes' > CrashRestartCap THEN "error" ELSE "armRestart")
    /\ UNCHANGED <<process, intentional, ready, tries, worker, main, timers,
                   window>>

ReadyEnds(p, s) ==
    /\ ready' = [ready EXCEPT ![p] = "off"]
    /\ tries' = [tries EXCEPT ![p] = 0]
    /\ tk' = Append(tk, s)

\* One attempt: give up, or poll the process and ask GET /api/health, which a
\* backend that runs answers, or does not yet.
ReadyPoll(p) ==
    /\ ready[p] = "poll"
    /\ IF tries[p] = 0
       THEN ReadyEnds(p, "error") /\ UNCHANGED reaped
       ELSE /\ reaped' = Polled
            /\ \/ ~Running /\ ReadyEnds(p, "error")
               \/ /\ Running
                  /\ ready' = [ready EXCEPT ![p] = "report"]
                  /\ UNCHANGED <<tries, tk>>
               \/ /\ Running
                  /\ tries' = [tries EXCEPT ![p] = @ - 1]
                  /\ UNCHANGED <<ready, tk>>
    /\ UNCHANGED <<proc, alive, code, intentional, pump, worker, main,
                   timers, window, crashes>>

ReadyReport(p) ==
    /\ ready[p] = "report"
    /\ crashes' = 0
    /\ ReadyEnds(p, "running")
    /\ UNCHANGED <<process, intentional, pump, worker, main, timers,
                   window>>

User == (ClickStart \/ ClickStop \/ PressRestart \/ Close) /\ clicks < MaxClicks
                                                           /\ clicks' = clicks + 1
TkStep == (Spawn \/ SpawnFails \/ RunCallback) /\ UNCHANGED clicks
Backoff == RestartTimer /\ UNCHANGED clicks
ReleaseStep(t) == ReleaseTimer(t) /\ UNCHANGED clicks
WorkerStep(w) == (WorkerAsk(w) \/ WorkerKill(w) \/ WorkerPost(w)) /\ UNCHANGED clicks
ReadyStep(p) == (ReadyPoll(p) \/ ReadyReport(p)) /\ UNCHANGED clicks
PumpStep(p) == (PumpEof(p) \/ PumpDecide(p)) /\ UNCHANGED clicks
Ends == \E c \in {"zero", "crash"} : Exit(c) /\ UNCHANGED clicks

Next ==
    \/ User
    \/ TkStep
    \/ Backoff
    \/ \E t \in {"start", "stop"} : ReleaseStep(t)
    \/ \E w \in Worker : WorkerStep(w)
    \/ \E p \in Process : PumpStep(p) \/ ReadyStep(p)
    \/ Ends

Spec == Init /\ [][Next]_vars

\* The Tk loop runs what was posted, its timers fire, each thread goes on (its
\* waits have timeouts).  Nothing is assumed of the user or of the backend.
FairSpec ==
    /\ Spec
    /\ WF_vars(TkStep)
    /\ SF_vars(Backoff)
    /\ \A t \in {"start", "stop"} : SF_vars(ReleaseStep(t))
    /\ \A w \in Worker : WF_vars(WorkerStep(w))
    /\ \A p \in Process : WF_vars(PumpStep(p)) /\ WF_vars(ReadyStep(p))

-----------------------------------------------------------------------------
(* Properties.                                                             *)

\* At most one backend runs, it is the one `_proc` names (so stop() can reach
\* it), and none outlives the launcher, whatever clicks, timers and workers
\* overlap.
NoOrphanBackend ==
    /\ alive \subseteq {proc}
    /\ main = "closed" => alive = {}

\* Start is never offered while a backend is up, though workers, timers and
\* the readiness thread re-derive the buttons at any time.
StartOnlyWhileDown == offer = "start" => ~Running

\* When no transition is in flight some button is enabled, however releases
\* overlap.
NotLockedOut == busy = {} => offer # "none"

\* A transition in flight has its release still to come: a worker that will
\* post it, a callback, a timer or _on_start itself, even when other
\* transitions begin before it ends.
TransitionsAreReleased ==
    main # "closed" =>
        /\ "start" \in busy => main = "spawn" \/ "start" \in releases
        /\ "stop" \in busy => \/ worker["stop"] # "off"
                              \/ "stop" \in releases
                              \/ "releaseStop" \in Range(tk)
        /\ "restart" \in busy => \/ worker["restart"] # "off"
                                 \/ "releaseRestart" \in Range(tk)

\* The user is never locked out: the buttons are disabled only while a
\* transition is in flight, and each transition is going to be released.
ButtonsComeBack == NotLockedOut /\ TransitionsAreReleased

\* The window does not say "Starting" for ever: _on_start is still at it, a
\* readiness thread will report, or a status is already posted.
StartSettles ==
    main # "closed" /\ status = "starting" =>
        \/ main = "spawn"
        \/ \E p \in Process : ready[p] # "off"
        \/ Range(tk) \intersect Status # {}

\* README.md: "if `uvicorn` dies unexpectedly, the launcher backs off (1 s,
\* 2 s, 4 s) and re-spawns": the crash hook is called, unless somebody stops
\* the backend meanwhile.
CrashIsNoticed ==
    \A p \in Process :
        (proc = p /\ code = "crash") ~> (pump[p] = "told" \/ intentional \/ main = "closed")
=============================================================================
