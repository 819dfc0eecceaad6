-------------------------- MODULE Launcher_proofs --------------------------
(***************************************************************************)
(* Proofs about the launcher, for every number of starts, of actions of    *)
(* the user, of readiness attempts and of restarts after a crash.          *)
(***************************************************************************)
EXTENDS Launcher, Queues_proofs

-----------------------------------------------------------------------------
(* Type correctness.                                                       *)

LEMMA TypeInit == Init => TypeOK
<1> SUFFICES ASSUME Init
             PROVE  TypeOK
    OBVIOUS
<1>1. tk \in Seq(Callback)
    <2>1. <<>> \in Seq(Callback)
        OBVIOUS
    <2> QED
        BY <2>1 DEF Init
<1>2. /\ proc \in 0..MaxStarts
      /\ clicks \in 0..MaxClicks
      /\ tries \in [Process -> 0..ReadyTries]
    BY LauncherAssumption DEF Init
<1>3. /\ alive \in SUBSET Process /\ reaped \in BOOLEAN /\ intentional \in BOOLEAN
      /\ code \in {"none", "zero", "crash", "killed"}
      /\ pump \in [Process -> {"off", "read", "decide", "told"}]
      /\ ready \in [Process -> {"off", "poll", "report"}]
      /\ worker \in [Worker -> {"off", "ask", "kill", "post"}]
      /\ main \in {"loop", "spawn", "closed"}
      /\ releases \in SUBSET {"start", "stop"}
      /\ busy \in SUBSET Transition
      /\ offer \in {"none", "start", "stop"}
      /\ status \in Status
      /\ restarts \in Nat /\ crashes \in Nat
    BY DEF Init, Transition, Status
<1> QED
    BY <1>1, <1>2, <1>3 DEF TypeOK

\* Polling answers with a Boolean and re-deriving the buttons keeps their type.
LEMMA TypeRefresh ==
    ASSUME TypeOK, NEW b, Refresh(b)
    PROVE  reaped' \in BOOLEAN /\ offer' \in {"none", "start", "stop"}
<1>1. Polled \in BOOLEAN
    BY DEF Polled
<1> QED
    BY <1>1 DEF Refresh, TypeOK

\* _on_start keeps the type of what it changes.
LEMMA TypeOnStart ==
    ASSUME TypeOK, OnStart, main = "loop"
    PROVE  /\ reaped' \in BOOLEAN /\ intentional' \in BOOLEAN
           /\ main' \in {"loop", "spawn", "closed"}
           /\ releases' \in SUBSET {"start", "stop"}
           /\ busy' \in SUBSET Transition
           /\ offer' \in {"none", "start", "stop"}
           /\ status' \in Status
<1> USE DEF TypeOK, Transition, Status
<1>0. Polled \in BOOLEAN
    BY DEF Polled
<1>1. CASE StartIgnored
    BY <1>1 DEF StartIgnored, window
<1>2. CASE StartWhileUp
    BY <1>0, <1>2 DEF StartWhileUp, StartEntered
<1>3. CASE StartNoSetup
    BY <1>0, <1>3 DEF StartNoSetup, StartEntered
<1>4. CASE StartBegins
    BY <1>0, <1>4 DEF StartBegins, StartEntered
<1> QED
    BY <1>1, <1>2, <1>3, <1>4 DEF OnStart

LEMMA TypeUser == TypeOK /\ User => TypeOK'
<1> SUFFICES ASSUME TypeOK, User
             PROVE  TypeOK'
    OBVIOUS
<1>0. clicks' \in 0..MaxClicks /\ Polled \in BOOLEAN
    BY LauncherAssumption DEF User, TypeOK, Polled
<1>1. CASE ClickStart
    <2>1. /\ reaped' \in BOOLEAN /\ intentional' \in BOOLEAN
          /\ main' \in {"loop", "spawn", "closed"}
          /\ releases' \in SUBSET {"start", "stop"}
          /\ busy' \in SUBSET Transition
          /\ offer' \in {"none", "start", "stop"}
          /\ status' \in Status
        BY <1>1, TypeOnStart DEF ClickStart
    <2>2. UNCHANGED <<proc, alive, code, pump, ready, tries, worker, crashes, tk, restarts>>
        BY <1>1 DEF ClickStart, startRest, threads
    <2> QED
        BY <1>0, <2>1, <2>2 DEF TypeOK
<1>2. CASE ClickStop
    <2>1. /\ reaped' \in BOOLEAN /\ crashes' \in Nat /\ offer' = "none"
          /\ busy' = busy \union {"stop"}
        BY <1>0, <1>2 DEF ClickStop
    <2>2. /\ worker' \in [Worker -> {"off", "ask", "kill", "post"}]
          /\ status' \in Status /\ releases' \in SUBSET {"start", "stop"}
        BY <1>2 DEF ClickStop, TypeOK, Status
    <2>3. UNCHANGED <<proc, alive, code, intentional, pump, ready, tries, main, tk, restarts>>
        BY <1>2 DEF ClickStop
    <2> QED
        BY <1>0, <2>1, <2>2, <2>3 DEF TypeOK, Transition, Worker
<1>3. CASE PressRestart
    <2>1. /\ worker' \in [Worker -> {"off", "ask", "kill", "post"}]
          /\ busy' \in SUBSET Transition /\ offer' = "none"
        BY <1>3 DEF PressRestart, TypeOK, Transition, Worker
    <2>2. UNCHANGED <<proc, alive, code, reaped, intentional, pump, ready, tries,
                      main, tk, restarts, releases, status, crashes>>
        BY <1>3 DEF PressRestart, process, timers
    <2> QED
        BY <1>0, <2>1, <2>2 DEF TypeOK
<1>4. CASE Close
    <2>1. /\ main' = "closed" /\ intentional' \in BOOLEAN /\ reaped' \in BOOLEAN
          /\ alive' \in SUBSET Process /\ code' \in {"none", "zero", "crash", "killed"}
        BY <1>0, <1>4 DEF Close, Terminate, TypeOK, Running
    <2>2. /\ pump' \in [Process -> {"off", "read", "decide", "told"}]
          /\ ready' \in [Process -> {"off", "poll", "report"}]
          /\ tries' \in [Process -> 0..ReadyTries]
          /\ worker' \in [Worker -> {"off", "ask", "kill", "post"}]
        BY <1>4, LauncherAssumption DEF Close
    <2>3. tk' \in Seq(Callback)
        <3>1. <<>> \in Seq(Callback)
            OBVIOUS
        <3> QED
            BY <1>4, <3>1 DEF Close
    <2>4. /\ restarts' = 0 /\ releases' = {}
          /\ UNCHANGED <<proc, busy, offer, status, crashes>>
        BY <1>4 DEF Close, window
    <2> QED
        BY <1>0, <2>1, <2>2, <2>3, <2>4 DEF TypeOK
<1> QED
    BY <1>1, <1>2, <1>3, <1>4 DEF User

LEMMA TypeCallback == TypeOK /\ RunCallback => 
                        /\ reaped' \in BOOLEAN /\ intentional' \in BOOLEAN
                        /\ main' \in {"loop", "spawn", "closed"}
                        /\ releases' \in SUBSET {"start", "stop"}
                        /\ restarts' \in Nat
                        /\ busy' \in SUBSET Transition
                        /\ offer' \in {"none", "start", "stop"}
                        /\ status' \in Status
                        /\ tk' \in Seq(Callback)
<1> SUFFICES ASSUME TypeOK, RunCallback
             PROVE  /\ reaped' \in BOOLEAN /\ intentional' \in BOOLEAN
                    /\ main' \in {"loop", "spawn", "closed"}
                    /\ releases' \in SUBSET {"start", "stop"}
                    /\ restarts' \in Nat
                    /\ busy' \in SUBSET Transition
                    /\ offer' \in {"none", "start", "stop"}
                    /\ status' \in Status
                    /\ tk' \in Seq(Callback)
    OBVIOUS
<1> DEFINE call == Head(tk)
<1>1. tk' \in Seq(Callback)
    <2>1. tk \in Seq(Callback) /\ tk # <<>> /\ tk' = Tail(tk)
        BY DEF RunCallback, TypeOK
    <2> QED
        BY <2>1, RangeTail
<1>2. CASE call \in Status /\ SetStatus(call) /\ UNCHANGED <<busy, timers, intentional, main>>
    <2>1. reaped' \in BOOLEAN /\ offer' \in {"none", "start", "stop"}
        BY <1>2, TypeRefresh DEF SetStatus
    <2> QED
        BY <1>1, <1>2, <2>1 DEF SetStatus, timers, TypeOK
<1>3. ASSUME NEW t \in {"stop", "restart"}, Release(t),
             UNCHANGED <<status, timers, intentional, main>>
      PROVE  /\ reaped' \in BOOLEAN /\ offer' \in {"none", "start", "stop"}
             /\ busy' \in SUBSET Transition
             /\ UNCHANGED <<status, restarts, releases, intentional, main>>
    <2>1. reaped' \in BOOLEAN /\ offer' \in {"none", "start", "stop"}
        BY <1>3, TypeRefresh DEF Release
    <2> QED
        BY <1>3, <2>1 DEF Release, timers, TypeOK
<1>4. CASE restarts' = restarts + 1 /\ UNCHANGED <<window, reaped, releases, intentional, main>>
    BY <1>1, <1>4 DEF window, TypeOK
<1>5. CASE OnStart /\ UNCHANGED restarts
    <2>1. main = "loop"
        BY DEF RunCallback
    <2> QED
        BY <1>1, <1>5, <2>1, TypeOnStart DEF TypeOK
<1>6. CASE \E t \in {"stop", "restart"} : Release(t) /\ UNCHANGED <<status, timers, intentional, main>>
    BY <1>1, <1>3, <1>6 DEF TypeOK
<1> QED
    BY <1>2, <1>4, <1>5, <1>6 DEF RunCallback

LEMMA TypeTk == TypeOK /\ TkStep => TypeOK'
<1> SUFFICES ASSUME TypeOK, TkStep
             PROVE  TypeOK'
    OBVIOUS
<1>1. clicks' = clicks
    BY DEF TkStep
<1>2. CASE Spawn
    <2>1. /\ proc < MaxStarts /\ proc' = proc + 1 /\ proc \in 0..MaxStarts
          /\ alive' = alive \union {proc'}
        BY <1>2 DEF Spawn, TypeOK
    <2>2. proc' \in 0..MaxStarts /\ alive' \in SUBSET Process
        BY <2>1, LauncherAssumption DEF TypeOK, Process
    <2>3. /\ pump' \in [Process -> {"off", "read", "decide", "told"}]
          /\ ready' \in [Process -> {"off", "poll", "report"}]
        BY <1>2 DEF Spawn, TypeOK
    <2>4. tries' \in [Process -> 0..ReadyTries]
        <3>1. tries' = [tries EXCEPT ![proc'] = ReadyTries] /\ ReadyTries \in 0..ReadyTries
            BY <1>2, LauncherAssumption DEF Spawn
        <3> QED
            BY <3>1 DEF TypeOK
    <2>5. /\ code' = "none" /\ reaped' = FALSE /\ main' = "loop"
          /\ releases' \in SUBSET {"start", "stop"}
          /\ UNCHANGED <<intentional, worker, tk, restarts, busy, offer, status, crashes>>
        BY <1>2 DEF Spawn, window, TypeOK
    <2> QED
        BY <1>1, <2>2, <2>3, <2>4, <2>5 DEF TypeOK
<1>3. CASE SpawnFails
    <2>1. /\ status' = "error" /\ Refresh(busy) /\ main' = "loop"
          /\ releases' = releases \union {"start"}
          /\ UNCHANGED <<proc, alive, code, intentional, pump, ready, tries, worker, tk,
                         restarts, busy, crashes>>
        BY <1>3 DEF SpawnFails, SetStatus, threads
    <2>2. reaped' \in BOOLEAN /\ offer' \in {"none", "start", "stop"}
        BY <2>1, TypeRefresh
    <2> QED
        BY <1>1, <2>1, <2>2 DEF TypeOK, Status
<1>4. CASE RunCallback
    <2>1. UNCHANGED <<proc, alive, code, pump, ready, tries, worker, crashes>>
        BY <1>4 DEF RunCallback, callbackRest, threads
    <2> QED
        BY <1>1, <1>4, <2>1, TypeCallback DEF TypeOK
<1> QED
    BY <1>2, <1>3, <1>4 DEF TkStep

LEMMA TypeTimers ==
    TypeOK /\ (Backoff \/ \E t \in {"start", "stop"} : ReleaseStep(t)) => TypeOK'
<1> SUFFICES ASSUME TypeOK, Backoff \/ \E t \in {"start", "stop"} : ReleaseStep(t)
             PROVE  TypeOK'
    OBVIOUS
<1>1. CASE Backoff
    <2>1. /\ main = "loop" /\ OnStart /\ restarts > 0 /\ restarts' = restarts - 1
          /\ UNCHANGED <<proc, alive, code, pump, ready, tries, worker, crashes, tk, clicks>>
        BY <1>1 DEF Backoff, RestartTimer, startRest, threads
    <2>2. restarts' \in Nat
        BY <2>1 DEF TypeOK
    <2> QED
        BY <2>1, <2>2, TypeOnStart DEF TypeOK
<1>2. ASSUME NEW t \in {"start", "stop"}, ReleaseStep(t)
      PROVE  TypeOK'
    <2>1. /\ Release(t) /\ releases' = releases \ {t}
          /\ UNCHANGED <<proc, alive, code, intentional, pump, ready, tries, worker, main,
                         tk, restarts, status, crashes, clicks>>
        BY <1>2 DEF ReleaseStep, ReleaseTimer, threads
    <2>2. reaped' \in BOOLEAN /\ offer' \in {"none", "start", "stop"} /\ busy' = busy \ {t}
        BY <2>1, TypeRefresh DEF Release
    <2> QED
        BY <2>1, <2>2 DEF TypeOK
<1> QED
    BY <1>1, <1>2

LEMMA TypeWorker ==
    ASSUME TypeOK, NEW w \in Worker, WorkerStep(w)
    PROVE  TypeOK'
<1>0. clicks' = clicks /\ Polled \in BOOLEAN /\ Running \in BOOLEAN
    BY DEF WorkerStep, Polled, Running
<1>1. CASE WorkerAsk(w)
    <2>1. /\ reaped' \in BOOLEAN /\ intentional' \in BOOLEAN
          /\ worker' \in [Worker -> {"off", "ask", "kill", "post"}]
        BY <1>0, <1>1 DEF WorkerAsk, TypeOK
    <2>2. tk' \in Seq(Callback)
        <3>1. "stopping" \in Callback /\ tk \in Seq(Callback)
            BY DEF TypeOK, Callback, Status
        <3> QED
            BY <1>1, <3>1 DEF WorkerAsk
    <2>3. UNCHANGED <<proc, alive, code, pump, ready, tries, main, restarts, releases,
                      busy, offer, status, crashes>>
        BY <1>1 DEF WorkerAsk, timers, window
    <2> QED
        BY <1>0, <2>1, <2>2, <2>3 DEF TypeOK
<1>2. CASE WorkerKill(w)
    <2>1. /\ alive' \in SUBSET Process /\ code' \in {"none", "zero", "crash", "killed"}
          /\ reaped' = TRUE
        BY <1>2 DEF WorkerKill, Terminate, TypeOK
    <2>2. worker' \in [Worker -> {"off", "ask", "kill", "post"}]
        BY <1>2 DEF WorkerKill, TypeOK
    <2>3. UNCHANGED <<proc, intentional, pump, ready, tries, main, tk, restarts,
                      releases, busy, offer, status, crashes>>
        BY <1>2 DEF WorkerKill, timers, window
    <2> QED
        BY <1>0, <2>1, <2>2, <2>3 DEF TypeOK
<1>3. CASE WorkerPost(w)
    <2>1. worker' \in [Worker -> {"off", "ask", "kill", "post"}]
        BY <1>3 DEF WorkerPost, TypeOK
    <2>2. tk' \in Seq(Callback)
        <3>1. /\ <<"stopped", "releaseStop">> \in Seq(Callback)
              /\ <<"onStart", "releaseRestart">> \in Seq(Callback)
            BY DEF Callback, Status
        <3>2. tk \in Seq(Callback)
            BY DEF TypeOK
        <3> QED
            BY <1>3, <3>1, <3>2 DEF WorkerPost
    <2>3. UNCHANGED <<proc, alive, code, reaped, intentional, pump, ready, tries, main,
                      restarts, releases, busy, offer, status, crashes>>
        BY <1>3 DEF WorkerPost, process, timers, window
    <2> QED
        BY <1>0, <2>1, <2>2, <2>3 DEF TypeOK
<1> QED
    BY <1>1, <1>2, <1>3 DEF WorkerStep

LEMMA TypeBackend ==
    ASSUME TypeOK, Ends \/ \E p \in Process : PumpStep(p) \/ ReadyStep(p)
    PROVE  TypeOK'
<1>1. CASE Ends
    <2>1. /\ alive' \in SUBSET Process /\ code' \in {"none", "zero", "crash", "killed"}
          /\ UNCHANGED <<proc, reaped, intentional, pump, ready, tries, worker, main, tk,
                         restarts, releases, busy, offer, status, crashes, clicks>>
        BY <1>1 DEF Ends, Exit, TypeOK, threads, timers, window
    <2> QED
        BY <2>1 DEF TypeOK
<1>2. ASSUME NEW p \in Process, PumpEof(p), UNCHANGED clicks
      PROVE  TypeOK'
    <2>1. pump' \in [Process -> {"off", "read", "decide", "told"}]
        BY <1>2 DEF PumpEof, TypeOK
    <2>2. UNCHANGED <<proc, alive, code, reaped, intentional, ready, tries, worker, main, tk,
                      restarts, releases, busy, offer, status, crashes, clicks>>
        BY <1>2 DEF PumpEof, process, timers, window
    <2> QED
        BY <2>1, <2>2 DEF TypeOK
<1>3. ASSUME NEW p \in Process, PumpDecide(p), UNCHANGED clicks
      PROVE  TypeOK'
    <2>1. pump' \in [Process -> {"off", "read", "decide", "told"}] /\ crashes' \in Nat
        <3>1. \/ pump' = [pump EXCEPT ![p] = "off"] /\ crashes' = crashes
              \/ pump' = [pump EXCEPT ![p] = "told"] /\ crashes' = crashes + 1
            BY <1>3, Zenon DEF PumpDecide
        <3> QED
            BY <3>1 DEF TypeOK
    <2>2. tk' \in Seq(Callback)
        <3>1. "error" \in Callback /\ "armRestart" \in Callback /\ tk \in Seq(Callback)
            BY DEF TypeOK, Callback, Status
        <3> QED
            BY <1>3, <3>1 DEF PumpDecide
    <2>3. UNCHANGED <<proc, alive, code, reaped, intentional, ready, tries, worker, main,
                      restarts, releases, busy, offer, status, clicks>>
        BY <1>3 DEF PumpDecide, process, timers, window
    <2> QED
        BY <2>1, <2>2, <2>3 DEF TypeOK
<1>4. ASSUME NEW p \in Process, NEW s \in {"error", "running"}, ReadyEnds(p, s)
      PROVE  /\ ready' \in [Process -> {"off", "poll", "report"}]
             /\ tries' \in [Process -> 0..ReadyTries]
             /\ tk' \in Seq(Callback)
    <2>1. s \in Callback /\ tk \in Seq(Callback) /\ 0 \in 0..ReadyTries
        BY LauncherAssumption DEF TypeOK, Callback, Status
    <2> QED
        BY <1>4, <2>1 DEF ReadyEnds, TypeOK
<1>5. ASSUME NEW p \in Process, ReadyPoll(p), UNCHANGED clicks
      PROVE  TypeOK'
    <2>1. /\ ready' \in [Process -> {"off", "poll", "report"}]
          /\ tries' \in [Process -> 0..ReadyTries]
          /\ tk' \in Seq(Callback)
        <3>1. CASE ReadyEnds(p, "error")
            BY <1>4, <3>1
        <3>2. CASE ready' = [ready EXCEPT ![p] = "report"] /\ UNCHANGED <<tries, tk>>
            BY <3>2 DEF TypeOK
        <3>3. CASE tries[p] # 0 /\ tries' = [tries EXCEPT ![p] = @ - 1] /\ UNCHANGED <<ready, tk>>
            <4>1. tries[p] - 1 \in 0..ReadyTries
                BY <3>3, LauncherAssumption DEF TypeOK
            <4> QED
                BY <3>3, <4>1 DEF TypeOK
        <3> QED
            BY <1>5, <3>1, <3>2, <3>3 DEF ReadyPoll
    <2>2. reaped' \in BOOLEAN
        BY <1>5 DEF ReadyPoll, Polled, TypeOK
    <2>3. UNCHANGED <<proc, alive, code, intentional, pump, worker, main, restarts, releases,
                      busy, offer, status, crashes, clicks>>
        BY <1>5 DEF ReadyPoll, timers, window
    <2> QED
        BY <2>1, <2>2, <2>3 DEF TypeOK
<1>6. ASSUME NEW p \in Process, ReadyReport(p), UNCHANGED clicks
      PROVE  TypeOK'
    <2>1. ReadyEnds(p, "running") /\ crashes' = 0
        BY <1>6 DEF ReadyReport
    <2>2. UNCHANGED <<proc, alive, code, reaped, intentional, pump, worker, main, restarts,
                      releases, busy, offer, status, clicks>>
        BY <1>6 DEF ReadyReport, process, timers, window
    <2> QED
        BY <1>4, <2>1, <2>2 DEF TypeOK
<1> QED
    BY <1>1, <1>2, <1>3, <1>5, <1>6 DEF PumpStep, ReadyStep

LEMMA TypeStep == TypeOK /\ [Next]_vars => TypeOK'
<1> SUFFICES ASSUME TypeOK, [Next]_vars
             PROVE  TypeOK'
    OBVIOUS
<1>1. CASE UNCHANGED vars
    BY <1>1 DEF vars, process, threads, window, timers, TypeOK
<1> QED
    BY <1>1, TypeUser, TypeTk, TypeTimers, TypeWorker, TypeBackend DEF Next

\* Every variable of the launcher keeps its type.
THEOREM TypeCorrect == Spec => []TypeOK
<1>1. Init => TypeOK
    BY TypeInit
<1>2. TypeOK /\ [Next]_vars => TypeOK'
    BY TypeStep
<1> QED
    BY <1>1, <1>2, PTL DEF Spec
-----------------------------------------------------------------------------
(* One backend.  A start polls before it spawns, and nothing else can start *)
(* a process while the Tk thread is between the two.                        *)

OneBackend ==
    /\ alive \subseteq {proc}
    /\ main \in {"spawn", "closed"} => alive = {}

\* _on_start stays in the loop, or goes on to spawn when no backend runs.
LEMMA OnStartMain ==
    ASSUME OnStart
    PROVE  \/ main' = main
           \/ main' = "spawn" /\ ~Running
BY DEF OnStart, StartIgnored, StartWhileUp, StartNoSetup, StartBegins

LEMMA OneBackendStep == TypeOK /\ OneBackend /\ [Next]_vars => OneBackend'
<1> SUFFICES ASSUME TypeOK, OneBackend, [Next]_vars
             PROVE  OneBackend'
    OBVIOUS
<1> USE DEF OneBackend
<1>1. ASSUME UNCHANGED <<proc, alive, main>>
      PROVE  OneBackend'
    BY <1>1
<1>2. ASSUME OnStart, UNCHANGED <<proc, alive>>
      PROVE  OneBackend'
    BY <1>2, OnStartMain DEF Running
<1>3. CASE User
    <2>1. CASE ClickStart
        BY <1>2, <2>1 DEF ClickStart, startRest
    <2>2. CASE ClickStop
        BY <1>1, <2>2 DEF ClickStop
    <2>3. CASE PressRestart
        BY <1>1, <2>3 DEF PressRestart, process
    <2>4. CASE Close
        BY <2>4 DEF Close, Terminate, Running
    <2> QED
        BY <1>3, <2>1, <2>2, <2>3, <2>4 DEF User
<1>4. CASE TkStep
    <2>1. CASE Spawn
        BY <2>1 DEF Spawn
    <2>2. CASE SpawnFails
        BY <2>2 DEF SpawnFails
    <2>3. CASE RunCallback
        <3>1. UNCHANGED <<proc, alive>>
            BY <2>3 DEF RunCallback, callbackRest
        <3>2. OnStart \/ UNCHANGED main
            BY <2>3 DEF RunCallback
        <3> QED
            BY <1>1, <1>2, <3>1, <3>2
    <2> QED
        BY <1>4, <2>1, <2>2, <2>3 DEF TkStep
<1>5. CASE Backoff
    BY <1>2, <1>5 DEF Backoff, RestartTimer, startRest
<1>6. ASSUME NEW t \in {"start", "stop"}, ReleaseStep(t)
      PROVE  OneBackend'
    BY <1>1, <1>6 DEF ReleaseStep, ReleaseTimer
<1>7. ASSUME NEW w \in Worker, WorkerStep(w)
      PROVE  OneBackend'
    <2>1. CASE WorkerAsk(w)
        BY <1>1, <2>1 DEF WorkerAsk
    <2>2. CASE WorkerKill(w)
        BY <2>2 DEF WorkerKill, Terminate
    <2>3. CASE WorkerPost(w)
        BY <1>1, <2>3 DEF WorkerPost, process
    <2> QED
        BY <1>7, <2>1, <2>2, <2>3 DEF WorkerStep
<1>8. ASSUME NEW p \in Process, PumpStep(p)
      PROVE  OneBackend'
    BY <1>1, <1>8 DEF PumpStep, PumpEof, PumpDecide, process
<1>9. ASSUME NEW p \in Process, ReadyStep(p)
      PROVE  OneBackend'
    BY <1>1, <1>9 DEF ReadyStep, ReadyPoll, ReadyReport, process
<1>10. CASE Ends
    BY <1>10 DEF Ends, Exit
<1>11. CASE UNCHANGED vars
    BY <1>1, <1>11 DEF vars, process
<1> QED
    BY <1>3, <1>4, <1>5, <1>6, <1>7, <1>8, <1>9, <1>10, <1>11 DEF Next

\* At most one backend runs, stop() can reach it, and it does not outlive the
\* window.
THEOREM NoOrphanBackendHolds == Spec => []NoOrphanBackend
<1>1. Init => OneBackend
    BY DEF Init, OneBackend
<1>2. TypeOK /\ OneBackend /\ [Next]_vars => OneBackend'
    BY OneBackendStep
<1>3. OneBackend => NoOrphanBackend
    BY DEF OneBackend, NoOrphanBackend
<1> QED
    BY <1>1, <1>2, <1>3, TypeCorrect, PTL DEF Spec

-----------------------------------------------------------------------------
(* The buttons.  They are disabled exactly while a transition is in flight: *)
(* a process is only spawned inside one, so no button changes meaning       *)
(* meanwhile.                                                               *)

Buttons ==
    /\ busy = {} <=> offer # "none"
    /\ main = "spawn" => "start" \in busy
    /\ StartOnlyWhileDown

LEMMA ButtonsRefresh ==
    ASSUME Buttons, main' # "spawn", UNCHANGED <<proc, alive>>,
           busy' \subseteq busy, Refresh(busy')
    PROVE  Buttons'
<1>1. CASE busy' = {}
    BY <1>1 DEF Buttons, Refresh, StartOnlyWhileDown, Running
<1>2. CASE busy' # {}
    BY <1>2 DEF Buttons, Refresh, StartOnlyWhileDown, Running
<1> QED
    BY <1>1, <1>2

LEMMA ButtonsOnStart ==
    ASSUME Buttons, OnStart, main = "loop", UNCHANGED <<proc, alive>>
    PROVE  Buttons'
<1>1. CASE StartIgnored
    BY <1>1 DEF StartIgnored, window, Buttons, StartOnlyWhileDown, Running
<1>2. CASE StartEntered
    BY <1>2 DEF StartEntered, Buttons, StartOnlyWhileDown
<1> QED
    BY <1>1, <1>2 DEF OnStart, StartWhileUp, StartNoSetup, StartBegins

LEMMA ButtonsStep == Buttons /\ [Next]_vars => Buttons'
<1> SUFFICES ASSUME Buttons, [Next]_vars
             PROVE  Buttons'
    OBVIOUS
<1>1. ASSUME UNCHANGED <<proc, busy, offer>>, alive' \subseteq alive,
             main' = "spawn" => main = "spawn"
      PROVE  Buttons'
    BY <1>1 DEF Buttons, StartOnlyWhileDown, Running
<1>2. ASSUME offer' = "none", busy' # {}, main' # "spawn"
      PROVE  Buttons'
    BY <1>2 DEF Buttons, StartOnlyWhileDown
<1>3. CASE User
    <2>1. CASE ClickStart
        BY <2>1, ButtonsOnStart DEF ClickStart, startRest
    <2>2. CASE ClickStop
        BY <1>2, <2>2 DEF ClickStop
    <2>3. CASE PressRestart
        BY <1>2, <2>3 DEF PressRestart
    <2>4. CASE Close
        BY <1>1, <2>4 DEF Close, Terminate, window
    <2> QED
        BY <1>3, <2>1, <2>2, <2>3, <2>4 DEF User
<1>4. CASE TkStep
    <2>1. CASE Spawn
        <3>1. main = "spawn" /\ main' = "loop" /\ UNCHANGED <<busy, offer>>
            BY <2>1 DEF Spawn, window
        <3> QED
            BY <3>1 DEF Buttons, StartOnlyWhileDown
    <2>2. CASE SpawnFails
        BY <2>2, ButtonsRefresh DEF SpawnFails, SetStatus
    <2>3. CASE RunCallback
        <3>1. UNCHANGED <<proc, alive>> /\ main = "loop"
            BY <2>3 DEF RunCallback, callbackRest
        <3>2. CASE SetStatus(Head(tk)) /\ UNCHANGED <<busy, timers, intentional, main>>
            BY <3>1, <3>2, ButtonsRefresh DEF SetStatus
        <3>3. CASE \E t \in {"stop", "restart"} : Release(t) /\ UNCHANGED main
            BY <3>1, <3>3, ButtonsRefresh DEF Release
        <3>4. CASE UNCHANGED <<window, main>>
            BY <1>1, <3>1, <3>4 DEF window
        <3>5. CASE OnStart
            BY <3>1, <3>5, ButtonsOnStart
        <3> QED
            BY <2>3, <3>2, <3>3, <3>4, <3>5 DEF RunCallback
    <2> QED
        BY <1>4, <2>1, <2>2, <2>3 DEF TkStep
<1>5. CASE Backoff
    BY <1>5, ButtonsOnStart DEF Backoff, RestartTimer, startRest
<1>6. ASSUME NEW t \in {"start", "stop"}, ReleaseStep(t)
      PROVE  Buttons'
    BY <1>6, ButtonsRefresh DEF ReleaseStep, ReleaseTimer, Release
<1>7. ASSUME NEW w \in Worker, WorkerStep(w)
      PROVE  Buttons'
    BY <1>1, <1>7 DEF WorkerStep, WorkerAsk, WorkerKill, WorkerPost, Terminate, process, window
<1>8. ASSUME NEW p \in Process, PumpStep(p) \/ ReadyStep(p)
      PROVE  Buttons'
    BY <1>1, <1>8
       DEF PumpStep, PumpEof, PumpDecide, ReadyStep, ReadyPoll, ReadyReport, process, window
<1>9. CASE Ends
    BY <1>1, <1>9 DEF Ends, Exit, window
<1>10. CASE UNCHANGED vars
    BY <1>1, <1>10 DEF vars, process, window
<1> QED
    BY <1>3, <1>4, <1>5, <1>6, <1>7, <1>8, <1>9, <1>10 DEF Next

LEMMA ButtonsHold == Spec => []Buttons
<1>1. Init => Buttons
    BY DEF Init, Buttons, StartOnlyWhileDown, Running
<1>2. Buttons /\ [Next]_vars => Buttons'
    BY ButtonsStep
<1> QED
    BY <1>1, <1>2, PTL DEF Spec

\* Start is offered only while no backend runs.
THEOREM StartOnlyWhileDownHolds == Spec => []StartOnlyWhileDown
<1>1. Buttons => StartOnlyWhileDown
    BY DEF Buttons
<1> QED
    BY <1>1, ButtonsHold, PTL

\* With no transition in flight some button is enabled.
THEOREM NotLockedOutHolds == Spec => []NotLockedOut
<1>1. Buttons => NotLockedOut
    BY DEF Buttons, NotLockedOut
<1> QED
    BY <1>1, ButtonsHold, PTL

-----------------------------------------------------------------------------
(* Releases.  A worker hands its duty over to a callback, the Tk thread to  *)
(* a timer, and nothing but the release itself takes it away.               *)

\* A callback that is not run stays posted.
LEMMA TkTail ==
    ASSUME TypeOK, tk # <<>>, tk' = Tail(tk)
    PROVE  /\ Range(tk) = {Head(tk)} \union Range(tk')
           /\ Head(tk) \in Callback
BY RangeTail DEF TypeOK

\* The workers and the backend's threads only add callbacks.
LEMMA TkGrows ==
    ASSUME TypeOK,
           \/ \E w \in Worker : WorkerStep(w)
           \/ \E p \in Process : PumpStep(p) \/ ReadyStep(p)
    PROVE  Range(tk) \subseteq Range(tk') /\ "starting" \notin Range(tk') \ Range(tk)
<1>0. tk \in Seq(Callback)
    BY DEF TypeOK
<1>1. ASSUME NEW e \in Callback, e # "starting", tk' = Append(tk, e)
      PROVE  Range(tk) \subseteq Range(tk') /\ "starting" \notin Range(tk') \ Range(tk)
    <2>1. Range(tk') = Range(tk) \union {e}
        BY <1>0, <1>1, RangeAppend
    <2> QED
        BY <1>1, <2>1
<1>2. ASSUME UNCHANGED tk
      PROVE  Range(tk) \subseteq Range(tk') /\ "starting" \notin Range(tk') \ Range(tk)
    BY <1>2
<1>3. ASSUME NEW w \in Worker, WorkerPost(w)
      PROVE  Range(tk) \subseteq Range(tk') /\ "starting" \notin Range(tk') \ Range(tk)
    <2>1. PICK d \in {<<"stopped", "releaseStop">>, <<"onStart", "releaseRestart">>} :
            tk' = tk \o d
        BY <1>3 DEF WorkerPost
    <2>2. d \in Seq(Callback) /\ "starting" \notin Range(d)
        <3>1. CASE d = <<"stopped", "releaseStop">>
            BY <3>1 DEF Callback, Status, Range
        <3>2. CASE d = <<"onStart", "releaseRestart">>
            BY <3>2 DEF Callback, Status, Range
        <3> QED
            BY <3>1, <3>2
    <2>3. Range(tk') = Range(tk) \union Range(d)
        BY <1>0, <2>1, <2>2, RangeConcat
    <2> QED
        BY <2>2, <2>3
<1>4. ASSUME NEW w \in Worker, WorkerAsk(w)
      PROVE  Range(tk) \subseteq Range(tk') /\ "starting" \notin Range(tk') \ Range(tk)
    <2>1. "stopping" \in Callback /\ (tk' = tk \/ tk' = Append(tk, "stopping"))
        BY <1>4 DEF WorkerAsk, Callback, Status
    <2> QED
        BY <1>1, <1>2, <2>1
<1>5. ASSUME NEW w \in Worker, WorkerKill(w)
      PROVE  UNCHANGED tk
    BY <1>5 DEF WorkerKill
<1>6. ASSUME NEW p \in Process, PumpStep(p)
      PROVE  Range(tk) \subseteq Range(tk') /\ "starting" \notin Range(tk') \ Range(tk)
    <2>1. tk' = tk \/ \E e \in {"error", "armRestart"} : tk' = Append(tk, e)
        BY <1>6, Zenon DEF PumpStep, PumpEof, PumpDecide
    <2>2. \A e \in {"error", "armRestart"} : e \in Callback /\ e # "starting"
        BY DEF Callback, Status
    <2> QED
        BY <1>1, <1>2, <2>1, <2>2
<1>7. ASSUME NEW p \in Process, ReadyStep(p)
      PROVE  Range(tk) \subseteq Range(tk') /\ "starting" \notin Range(tk') \ Range(tk)
    <2>1. tk' = tk \/ \E e \in {"error", "running"} : tk' = Append(tk, e)
        BY <1>7 DEF ReadyStep, ReadyPoll, ReadyReport, ReadyEnds
    <2>2. \A e \in {"error", "running"} : e \in Callback /\ e # "starting"
        BY DEF Callback, Status
    <2> QED
        BY <1>1, <1>2, <2>1, <2>2
<1> QED
    BY <1>2, <1>3, <1>4, <1>5, <1>6, <1>7 DEF WorkerStep

LEMMA ReleasesStep ==
    TypeOK /\ TransitionsAreReleased /\ [Next]_vars => TransitionsAreReleased'
<1> SUFFICES ASSUME TypeOK, TransitionsAreReleased, [Next]_vars
             PROVE  TransitionsAreReleased'
    OBVIOUS
<1> USE DEF TransitionsAreReleased
<1>1. ASSUME UNCHANGED <<main, releases, busy>>, Range(tk) \subseteq Range(tk'),
             NEW w \in Worker, \A v \in Worker \ {w} : worker'[v] = worker[v],
             worker'[w] # "off" \/ worker[w] = "off"
      PROVE  TransitionsAreReleased'
    BY <1>1 DEF Worker
<1>2. ASSUME UNCHANGED <<main, releases, busy, worker>>, Range(tk) \subseteq Range(tk')
      PROVE  TransitionsAreReleased'
    BY <1>2
<1>3. ASSUME OnStart, main = "loop", UNCHANGED worker,
             Range(tk) \ {"onStart"} \subseteq Range(tk')
      PROVE  TransitionsAreReleased'
    <2>1. CASE StartIgnored
        BY <1>3, <2>1 DEF StartIgnored, window
    <2>2. CASE StartWhileUp \/ StartNoSetup
        BY <1>3, <2>2 DEF StartWhileUp, StartNoSetup, StartEntered
    <2>3. CASE StartBegins
        BY <1>3, <2>3 DEF StartBegins, StartEntered
    <2> QED
        BY <1>3, <2>1, <2>2, <2>3 DEF OnStart
<1>4. CASE User
    <2>1. CASE ClickStart
        BY <1>3, <2>1 DEF ClickStart, startRest, threads
    <2>2. CASE ClickStop
        <3>1. /\ main = "loop" /\ UNCHANGED <<main, tk>> /\ busy' = busy \union {"stop"}
              /\ \/ worker' = [worker EXCEPT !["stop"] = "ask"] /\ UNCHANGED releases
                 \/ releases' = releases \union {"stop"} /\ UNCHANGED worker
            BY <2>2 DEF ClickStop
        <3> QED
            BY <3>1 DEF TypeOK, Worker
    <2>3. CASE PressRestart
        <3>1. /\ main = "loop" /\ UNCHANGED <<main, tk, releases>>
              /\ busy' = busy \union {"restart"}
              /\ worker' = [worker EXCEPT !["restart"] = "ask"]
            BY <2>3 DEF PressRestart, timers
        <3> QED
            BY <3>1 DEF TypeOK, Worker
    <2>4. CASE Close
        BY <2>4 DEF Close
    <2> QED
        BY <1>4, <2>1, <2>2, <2>3, <2>4 DEF User
<1>5. CASE TkStep
    <2>1. CASE Spawn
        <3>1. /\ main = "spawn" /\ releases' = releases \union {"start"}
              /\ UNCHANGED <<busy, worker, tk>>
            BY <2>1 DEF Spawn, window
        <3> QED
            BY <3>1
    <2>2. CASE SpawnFails
        <3>1. /\ main = "spawn" /\ releases' = releases \union {"start"}
              /\ UNCHANGED <<busy, worker, tk>>
            BY <2>2 DEF SpawnFails, threads
        <3> QED
            BY <3>1
    <2>3. CASE RunCallback
        <3>1. main = "loop" /\ UNCHANGED worker /\ Range(tk) = {Head(tk)} \union Range(tk')
            BY <2>3, TkTail DEF RunCallback, callbackRest, threads
        <3>2. CASE Head(tk) \in Status /\ UNCHANGED <<busy, timers, main>>
            BY <3>1, <3>2 DEF Status, timers
        <3>3. CASE Head(tk) = "releaseStop" /\ Release("stop") /\ UNCHANGED <<timers, main>>
            BY <3>1, <3>3 DEF Release, timers
        <3>4. CASE Head(tk) = "releaseRestart" /\ Release("restart") /\ UNCHANGED <<timers, main>>
            BY <3>1, <3>4 DEF Release, timers
        <3>5. CASE Head(tk) = "armRestart" /\ UNCHANGED <<window, releases, main>>
            BY <3>1, <3>5 DEF window
        <3>6. CASE Head(tk) = "onStart" /\ OnStart
            BY <1>3, <3>1, <3>6
        <3> QED
            BY <2>3, <3>2, <3>3, <3>4, <3>5, <3>6 DEF RunCallback
    <2> QED
        BY <1>5, <2>1, <2>2, <2>3 DEF TkStep
<1>6. CASE Backoff
    BY <1>3, <1>6 DEF Backoff, RestartTimer, startRest, threads
<1>7. ASSUME NEW t \in {"start", "stop"}, ReleaseStep(t)
      PROVE  TransitionsAreReleased'
    <2>1. /\ busy' = busy \ {t} /\ releases' = releases \ {t}
          /\ UNCHANGED <<main, worker, tk>>
        BY <1>7 DEF ReleaseStep, ReleaseTimer, Release, threads
    <2> QED
        BY <2>1
<1>8. ASSUME NEW w \in Worker, WorkerStep(w)
      PROVE  TransitionsAreReleased'
    <2>1. UNCHANGED <<main, releases, busy>> /\ Range(tk) \subseteq Range(tk')
        BY <1>8, TkGrows DEF WorkerStep, WorkerAsk, WorkerKill, WorkerPost, timers, window
    <2>2. CASE WorkerAsk(w) \/ WorkerKill(w)
        <3>1. /\ \A v \in Worker \ {w} : worker'[v] = worker[v]
              /\ worker'[w] \in {"kill", "post"}
            BY <2>2 DEF WorkerAsk, WorkerKill, TypeOK
        <3> QED
            BY <1>1, <2>1, <3>1
    <2>3. CASE WorkerPost(w)
        <3>1. /\ \A v \in Worker \ {w} : worker'[v] = worker[v]
              /\ tk' = tk \o (IF w = "stop" THEN <<"stopped", "releaseStop">>
                                            ELSE <<"onStart", "releaseRestart">>)
            BY <2>3 DEF WorkerPost, TypeOK
        <3>2. CASE w = "stop"
            <4>1. "releaseStop" \in Range(tk')
                <5>1. /\ tk \in Seq(Callback)
                      /\ <<"stopped", "releaseStop">> \in Seq(Callback)
                    BY DEF TypeOK, Callback, Status
                <5>2. "releaseStop" \in Range(<<"stopped", "releaseStop">>)
                    <6>1. 2 \in DOMAIN <<"stopped", "releaseStop">> /\ <<"stopped", "releaseStop">>[2] = "releaseStop"
                        OBVIOUS
                    <6> QED
                        BY <6>1, Zenon DEF Range
                <5>3. tk' = tk \o <<"stopped", "releaseStop">>
                    BY <3>1, <3>2, Zenon
                <5>4. Range(tk') = Range(tk) \union Range(<<"stopped", "releaseStop">>)
                    BY <5>1, <5>3, RangeConcat
                <5> QED
                    BY <5>2, <5>4
            <4> QED
                BY <2>1, <3>1, <3>2, <4>1 DEF Worker
        <3>3. CASE w = "restart"
            <4>1. "releaseRestart" \in Range(tk')
                <5>1. /\ tk \in Seq(Callback)
                      /\ <<"onStart", "releaseRestart">> \in Seq(Callback)
                    BY DEF TypeOK, Callback, Status
                <5>2. "releaseRestart" \in Range(<<"onStart", "releaseRestart">>)
                    <6>1. 2 \in DOMAIN <<"onStart", "releaseRestart">> /\ <<"onStart", "releaseRestart">>[2] = "releaseRestart"
                        OBVIOUS
                    <6> QED
                        BY <6>1, Zenon DEF Range
                <5>3. tk' = tk \o <<"onStart", "releaseRestart">>
                    BY <3>1, <3>3, Zenon
                <5>4. Range(tk') = Range(tk) \union Range(<<"onStart", "releaseRestart">>)
                    BY <5>1, <5>3, RangeConcat
                <5> QED
                    BY <5>2, <5>4
            <4> QED
                BY <2>1, <3>1, <3>3, <4>1 DEF Worker
        <3> QED
            BY <3>2, <3>3 DEF Worker
    <2> QED
        BY <1>8, <2>2, <2>3 DEF WorkerStep
<1>9. ASSUME NEW p \in Process, PumpStep(p) \/ ReadyStep(p)
      PROVE  TransitionsAreReleased'
    <2>1. UNCHANGED <<main, releases, busy, worker>>
        BY <1>9 DEF PumpStep, PumpEof, PumpDecide, ReadyStep, ReadyPoll, ReadyReport, timers, window
    <2> QED
        BY <1>2, <1>9, <2>1, TkGrows
<1>10. CASE Ends
    BY <1>2, <1>10 DEF Ends, Exit, threads, timers, window
<1>11. CASE UNCHANGED vars
    BY <1>2, <1>11 DEF vars, threads, timers, window
<1> QED
    BY <1>4, <1>5, <1>6, <1>7, <1>8, <1>9, <1>10, <1>11 DEF Next

\* Every transition in flight has its release still to come.
THEOREM TransitionsAreReleasedHolds == Spec => []TransitionsAreReleased
<1>1. Init => TransitionsAreReleased
    BY DEF Init, TransitionsAreReleased
<1>2. TypeOK /\ TransitionsAreReleased /\ [Next]_vars => TransitionsAreReleased'
    BY ReleasesStep
<1> QED
    BY <1>1, <1>2, TypeCorrect, PTL DEF Spec

\* The buttons are disabled only while a transition is in flight that is going
\* to be released: _on_start, _on_stop and the two workers never lock the user
\* out.
THEOREM ButtonsComeBackHolds == Spec => []ButtonsComeBack
<1>1. NotLockedOut /\ TransitionsAreReleased => ButtonsComeBack
    BY DEF ButtonsComeBack
<1> QED
    BY <1>1, NotLockedOutHolds, TransitionsAreReleasedHolds, PTL

-----------------------------------------------------------------------------
(* "Starting" is only ever set by _on_start itself, and nobody posts it: a  *)
(* posted status therefore ends it.                                         *)

Settles == StartSettles /\ "starting" \notin Range(tk)

LEMMA SettlesStep == TypeOK /\ Settles /\ [Next]_vars => Settles'
<1> SUFFICES ASSUME TypeOK, Settles, [Next]_vars
             PROVE  Settles'
    OBVIOUS
<1> USE DEF Settles, StartSettles
<1>1. ASSUME Range(tk) \intersect Status \subseteq Range(tk'), "starting" \notin Range(tk'),
             main' = main,
             status' = status, \A p \in Process : ready[p] # "off" => ready'[p] # "off"
      PROVE  Settles'
    BY <1>1
<1>2. ASSUME OnStart, UNCHANGED ready,
             Range(tk) \ {"onStart"} \subseteq Range(tk'), Range(tk') \subseteq Range(tk)
      PROVE  Settles'
    <2>1. CASE StartIgnored \/ StartWhileUp
        BY <1>1, <1>2, <2>1 DEF StartIgnored, StartWhileUp, window, Status
    <2>2. CASE StartNoSetup
        BY <1>2, <2>2 DEF StartNoSetup
    <2>3. CASE StartBegins
        BY <1>2, <2>3 DEF StartBegins
    <2> QED
        BY <1>2, <2>1, <2>2, <2>3 DEF OnStart
<1>3. CASE User
    <2>1. CASE ClickStart
        BY <1>2, <2>1 DEF ClickStart, startRest, threads
    <2>2. CASE ClickStop
        <3>1. status' \in {"stopping", "stopped"} /\ UNCHANGED tk
            BY <2>2 DEF ClickStop
        <3> QED
            BY <3>1
    <2>3. CASE PressRestart
        BY <1>1, <2>3 DEF PressRestart
    <2>4. CASE Close
        <3>1. main' = "closed" /\ tk' = <<>>
            BY <2>4 DEF Close
        <3> QED
            BY <3>1 DEF Range
    <2> QED
        BY <1>3, <2>1, <2>2, <2>3, <2>4 DEF User
<1>4. CASE TkStep
    <2>1. CASE Spawn
        <3>1. proc' \in Process /\ ready' = [ready EXCEPT ![proc'] = "poll"] /\ UNCHANGED tk
            BY <2>1, LauncherAssumption DEF Spawn, TypeOK, Process
        <3>2. ready'[proc'] # "off"
            BY <3>1 DEF TypeOK
        <3> QED
            BY <3>1, <3>2
    <2>2. CASE SpawnFails
        BY <2>2 DEF SpawnFails, SetStatus
    <2>3. CASE RunCallback
        <3>1. UNCHANGED ready /\ Range(tk) = {Head(tk)} \union Range(tk')
            BY <2>3, TkTail DEF RunCallback, callbackRest, threads
        <3>2. CASE SetStatus(Head(tk))
            BY <3>1, <3>2 DEF SetStatus
        <3>3. CASE Head(tk) \notin Status /\ UNCHANGED <<status, main>>
            BY <1>1, <3>1, <3>3
        <3>4. CASE Head(tk) = "onStart" /\ OnStart
            BY <1>2, <3>1, <3>4
        <3>5. "releaseStop" \notin Status /\ "releaseRestart" \notin Status /\ "armRestart" \notin Status
            BY DEF Status
        <3> QED
            BY <2>3, <3>2, <3>3, <3>4, <3>5 DEF RunCallback, window
    <2> QED
        BY <1>4, <2>1, <2>2, <2>3 DEF TkStep
<1>5. CASE Backoff
    BY <1>2, <1>5 DEF Backoff, RestartTimer, startRest, threads
<1>6. ASSUME NEW t \in {"start", "stop"}, ReleaseStep(t)
      PROVE  Settles'
    BY <1>1, <1>6 DEF ReleaseStep, ReleaseTimer, threads
<1>7. ASSUME NEW w \in Worker, WorkerStep(w)
      PROVE  Settles'
    <2>1. UNCHANGED <<main, status, ready>>
        BY <1>7 DEF WorkerStep, WorkerAsk, WorkerKill, WorkerPost, window
    <2> QED
        BY <1>1, <1>7, <2>1, TkGrows
<1>8. ASSUME NEW p \in Process, PumpStep(p)
      PROVE  Settles'
    <2>1. UNCHANGED <<main, status, ready>>
        BY <1>8 DEF PumpStep, PumpEof, PumpDecide, window
    <2> QED
        BY <1>1, <1>8, <2>1, TkGrows
<1>9. ASSUME NEW p \in Process, ReadyStep(p)
      PROVE  Settles'
    <2>1. /\ UNCHANGED <<main, status>>
          /\ Range(tk) \subseteq Range(tk') /\ "starting" \notin Range(tk')
        BY <1>9, TkGrows DEF ReadyStep, ReadyPoll, ReadyReport, window
    <2>2. CASE \A q \in Process : ready[q] # "off" => ready'[q] # "off"
        BY <1>1, <2>1, <2>2
    <2>3. CASE \E s \in Status : ReadyEnds(p, s)
        <3>1. PICK s \in Status : tk' = Append(tk, s)
            BY <2>3 DEF ReadyEnds
        <3>2. tk \in Seq(Callback) /\ s \in Callback
            BY DEF TypeOK, Callback
        <3>3. Range(tk') = Range(tk) \union {s}
            BY <3>1, <3>2, RangeAppend
        <3> QED
            BY <2>1, <3>3
    <2>4. \/ \E s \in Status : ReadyEnds(p, s)
          \/ UNCHANGED ready
          \/ ready' = [ready EXCEPT ![p] = "report"]
        <3>1. "error" \in Status /\ "running" \in Status
            BY DEF Status
        <3> QED
            BY <1>9, <3>1 DEF ReadyStep, ReadyPoll, ReadyReport
    <2> QED
        BY <2>2, <2>3, <2>4 DEF TypeOK
<1>10. CASE Ends
    BY <1>1, <1>10 DEF Ends, Exit, threads, window
<1>11. CASE UNCHANGED vars
    BY <1>1, <1>11 DEF vars, threads, window
<1> QED
    BY <1>3, <1>4, <1>5, <1>6, <1>7, <1>8, <1>9, <1>10, <1>11 DEF Next

\* The window never says "Starting" with nobody left to correct it.
THEOREM StartSettlesHolds == Spec => []StartSettles
<1>1. Init => Settles
    <2>1. Range(<<>>) = {}
        BY DEF Range
    <2> QED
        BY <2>1 DEF Init, Settles, StartSettles
<1>2. TypeOK /\ Settles /\ [Next]_vars => Settles'
    BY SettlesStep
<1>3. Settles => StartSettles
    BY DEF Settles
<1> QED
    BY <1>1, <1>2, <1>3, TypeCorrect, PTL DEF Spec

=============================================================================
