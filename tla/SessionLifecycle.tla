-------------------------- MODULE SessionLifecycle --------------------------
(***************************************************************************)
(* The life of a tracking session across the handlers of                   *)
(* backend/app/api_routes.py: create_session on the event loop,            *)
(* stop_session and cleanup_sessions on threadpool threads, the capture    *)
(* services the store keeps per session, the native process behind each    *)
(* service and the pump thread that reads it.                              *)
(*                                                                         *)
(* create_session never awaits: while it runs, the loop starts no other    *)
(* handler and sends no response, so no request can name the new session   *)
(* before it is done; threads that already run, and pumps, go on.          *)
(***************************************************************************)
CONSTANTS Session,    \* session ids
          Handler,    \* threadpool threads serving DELETE and cleanup
          Absent,     \* no entry in `_sessions`
          NoSession   \* a handler, or the loop, that works on none

Active == {"live", "initializing", "tracking"}
Capture == Active \union {"needs_admin", "failed", "stopped", "interrupted"}

ASSUME LifecycleAssumption ==
    /\ Absent \notin Capture
    /\ NoSession \notin Session

VARIABLES
    capture,    \* `_sessions[s]["capture"]`, or Absent
    attached,   \* keys of `_capture`: sessions with a service to stop
    native,     \* sessions whose native process runs
    doomed,     \* sessions whose native process was terminated or killed
    pump,       \* sessions whose stdout pump thread runs
    creating,   \* the session create_session is working on
    createPc,   \* its next step
    pc,         \* per handler: its next step
    sid,        \* per handler: the session of the request
    purge,      \* per handler: the request's purge flag
    born,       \* history: ids drawn
    ladders     \* history: sessions whose stop ladder has been entered

creation == <<creating, createPc>>
handler  == <<pc, sid, purge>>
vars == <<capture, attached, native, doomed, pump, creating, createPc, pc, sid,
          purge, born, ladders>>

\* A handler that has taken s's service out of `_capture` and is stopping it:
\* at each rung of the ladder, or joining the pumps.
InLadder(h, s) == pc[h] \in {"close", "wait", "waitAgain", "join"} /\ sid[h] = s
Stopping(s) == \E h \in Handler : InLadder(h, s)

TypeOK ==
    /\ capture \in [Session -> Capture \union {Absent}]
    /\ attached \in SUBSET Session
    /\ native \in SUBSET Session
    /\ doomed \in SUBSET Session
    /\ pump \in SUBSET Session
    /\ creating \in Session \union {NoSession}
    /\ createPc \in {"idle", "start", "hello", "attach", "mark"}
    /\ pc \in [Handler -> {"idle", "detach", "close", "wait", "waitAgain", "join", "finish"}]
    /\ sid \in [Handler -> Session \union {NoSession}]
    /\ purge \in [Handler -> BOOLEAN]
    /\ born \in SUBSET Session
    /\ ladders \in SUBSET Session

Init ==
    /\ capture = [s \in Session |-> Absent]
    /\ attached = {}
    /\ native = {}
    /\ doomed = {}
    /\ pump = {}
    /\ creating = NoSession
    /\ createPc = "idle"
    /\ pc = [h \in Handler |-> "idle"]
    /\ sid = [h \in Handler |-> NoSession]
    /\ purge = [h \in Handler |-> FALSE]
    /\ born = {}
    /\ ladders = {}

\* Mutant of the next one: the status is written through the dict that the
\* handler got before.
WrittenAnyway(s, c) == [capture EXCEPT ![s] = c]

\* mark_session_status and the handlers' own writes to the session dict: a
\* session that is gone is not written.
Written(s, c) == [capture EXCEPT ![s] = IF @ = Absent THEN Absent ELSE c]

CreateDone == creating' = NoSession /\ createPc' = "idle"

HandlerDone(h) ==
    /\ pc' = [pc EXCEPT ![h] = "idle"]
    /\ sid' = [sid EXCEPT ![h] = NoSession]
    /\ purge' = [purge EXCEPT ![h] = FALSE]

-----------------------------------------------------------------------------
(* Mutants.                                                                *)

\* A rejected hello leaves the native process behind.
CreateFailLeaks ==
    /\ createPc = "hello"
    /\ capture' = Written(creating, "failed")
    /\ CreateDone
    /\ UNCHANGED <<attached, native, doomed, pump, handler, born, ladders>>

\* The service is looked up and left in `_capture`.
DetachLooksOnly(h) ==
    /\ pc[h] = "detach"
    /\ pc' = [pc EXCEPT ![h] = IF sid[h] \in attached THEN "close" ELSE "finish"]
    /\ UNCHANGED <<capture, attached, native, doomed, pump, creation, sid, purge, born, ladders>>

\* A wait that timed out is taken for one that returned.
StopOnlyAsks(h) ==
    /\ pc[h] = "wait"
    /\ sid[h] \in native
    /\ pc' = [pc EXCEPT ![h] = "join"]
    /\ UNCHANGED <<capture, attached, native, doomed, pump, creation, sid, purge, born,
                   ladders>>

-----------------------------------------------------------------------------
(* create_session.                                                         *)

\* Without administrator rights the row is all there is.
CreateWithoutAdmin(s) ==
    /\ createPc = "idle"
    /\ s \notin born
    /\ born' = born \union {s}
    /\ capture' = [capture EXCEPT ![s] = "needs_admin"]
    /\ UNCHANGED <<attached, native, doomed, pump, creation, handler, ladders>>

CreateReserve(s) ==
    /\ createPc = "idle"
    /\ s \notin born
    /\ born' = born \union {s}
    /\ capture' = [capture EXCEPT ![s] = "initializing"]
    /\ creating' = s
    /\ createPc' = "start"
    /\ UNCHANGED <<attached, native, doomed, pump, handler, ladders>>

CreateSpawn ==
    /\ createPc = "start"
    /\ native' = native \union {creating}
    /\ createPc' = "hello"
    /\ UNCHANGED <<capture, attached, doomed, pump, creating, handler, born, ladders>>

\* No binary, no spawn, or rights lost in between.
CreateRefused(c) ==
    /\ createPc = "start"
    /\ c \in {"failed", "needs_admin"}
    /\ capture' = Written(creating, c)
    /\ CreateDone
    /\ UNCHANGED <<attached, native, doomed, pump, handler, born, ladders>>

\* No hello in time, an early exit, or the wrong protocol version: terminate()
\* without a wait.
CreateFail ==
    /\ createPc = "hello"
    /\ doomed' = doomed \union {creating}
    /\ capture' = Written(creating, "failed")
    /\ CreateDone
    /\ UNCHANGED <<attached, native, pump, handler, born, ladders>>

CreateHello ==
    /\ createPc = "hello"
    /\ creating \in native
    /\ pump' = pump \union {creating}
    /\ createPc' = "attach"
    /\ UNCHANGED <<capture, attached, native, doomed, creating, handler, born, ladders>>

CreateAttach ==
    /\ createPc = "attach"
    /\ attached' = attached \union {creating}
    /\ createPc' = "mark"
    /\ UNCHANGED <<capture, native, doomed, pump, creating, handler, born, ladders>>

CreateMark ==
    /\ createPc = "mark"
    /\ capture' = Written(creating, "live")
    /\ CreateDone
    /\ UNCHANGED <<attached, native, doomed, pump, handler, born, ladders>>

-----------------------------------------------------------------------------
(* stop_session and cleanup_sessions.                                      *)

StopRequest(h, s, p) ==
    /\ pc[h] = "idle"
    /\ creating # s
    /\ capture[s] # Absent
    /\ pc' = [pc EXCEPT ![h] = "detach"]
    /\ sid' = [sid EXCEPT ![h] = s]
    /\ purge' = [purge EXCEPT ![h] = p]
    /\ UNCHANGED <<capture, attached, native, doomed, pump, creation, born, ladders>>

\* dict.pop: of several requests for one session, one gets the service.
StopDetach(h) ==
    /\ pc[h] = "detach"
    /\ attached' = attached \ {sid[h]}
    /\ pc' = [pc EXCEPT ![h] = IF sid[h] \in attached THEN "close" ELSE "finish"]
    /\ UNCHANGED <<capture, native, doomed, pump, creation, sid, purge, born, ladders>>

\* service.stop(), rung by rung.  The native process may leave at any time, and
\* may ignore that its stdin was closed.
StopClose(h) ==
    /\ pc[h] = "close"
    /\ ladders' = ladders \union {sid[h]}
    /\ pc' = [pc EXCEPT ![h] = "wait"]
    /\ UNCHANGED <<capture, attached, native, doomed, pump, creation, sid, purge, born>>

\* proc.wait() returns, the first or the second time.
StopWaited(h) ==
    /\ pc[h] \in {"wait", "waitAgain"}
    /\ sid[h] \notin native
    /\ pc' = [pc EXCEPT ![h] = "join"]
    /\ UNCHANGED <<capture, attached, native, doomed, pump, creation, sid, purge, born, ladders>>

\* The 3 s of the first wait are over.
StopTerminate(h) ==
    /\ pc[h] = "wait"
    /\ sid[h] \in native
    /\ doomed' = doomed \union {sid[h]}
    /\ pc' = [pc EXCEPT ![h] = "waitAgain"]
    /\ UNCHANGED <<capture, attached, native, pump, creation, sid, purge, born, ladders>>

\* The 2 s of the second are over; nobody waits for a killed process.
StopKill(h) ==
    /\ pc[h] = "waitAgain"
    /\ sid[h] \in native
    /\ doomed' = doomed \union {sid[h]}
    /\ pc' = [pc EXCEPT ![h] = "join"]
    /\ UNCHANGED <<capture, attached, native, pump, creation, sid, purge, born, ladders>>

\* The pumps are joined for 2 s each, done or not.
StopJoin(h) ==
    /\ pc[h] = "join"
    /\ pc' = [pc EXCEPT ![h] = "finish"]
    /\ UNCHANGED <<capture, attached, native, doomed, pump, creation, sid, purge, born, ladders>>

StopFinish(h) ==
    /\ pc[h] = "finish"
    /\ capture' = IF purge[h] THEN [capture EXCEPT ![sid[h]] = Absent]
                  ELSE Written(sid[h], "stopped")
    /\ HandlerDone(h)
    /\ UNCHANGED <<attached, native, doomed, pump, creation, born, ladders>>

Cleanup ==
    /\ \E s \in Session : capture[s] \notin Active \union {Absent}
    /\ capture' = [s \in Session |-> IF capture[s] \in Active THEN capture[s] ELSE Absent]
    /\ UNCHANGED <<attached, native, doomed, pump, creation, handler, born, ladders>>

-----------------------------------------------------------------------------
(* The native process and its pump.                                        *)

\* The process sees its stdin closed, crashes, is ended by the launcher's "Kill
\* capture", or dies of the terminate() or kill() above.
NativeExit(s) ==
    /\ s \in native
    /\ native' = native \ {s}
    /\ UNCHANGED <<capture, attached, doomed, pump, creation, handler, born, ladders>>

NativeDies(s) == s \in doomed /\ NativeExit(s)

\* End of file on stdout ends the pump; nothing else is told.
PumpEof(s) ==
    /\ s \in pump
    /\ s \notin native
    /\ pump' = pump \ {s}
    /\ UNCHANGED <<capture, attached, native, doomed, creation, handler, born, ladders>>

Create ==
    \/ \E s \in Session : CreateWithoutAdmin(s) \/ CreateReserve(s)
    \/ CreateSpawn \/ (\E c \in Capture : CreateRefused(c)) \/ CreateFail
    \/ CreateHello \/ CreateAttach \/ CreateMark

CreateStep == createPc # "idle" /\ Create

Stop(h) ==
    \/ StopDetach(h) \/ StopClose(h) \/ StopWaited(h) \/ StopTerminate(h)
    \/ StopKill(h) \/ StopJoin(h) \/ StopFinish(h)

Next ==
    \/ Create
    \/ \E h \in Handler :
          \/ \E s \in Session, p \in BOOLEAN : StopRequest(h, s, p)
          \/ Stop(h)
    \/ Cleanup
    \/ \E s \in Session : NativeExit(s) \/ PumpEof(s)

Spec == Init /\ [][Next]_vars

\* Every wait of the handlers has a timeout, so each goes on; a pump reads on;
\* the system ends a process that was terminated or killed.  Nothing says that a
\* native process ever looks at its stdin.
FairSpec ==
    /\ Spec
    /\ WF_vars(CreateStep)
    /\ \A h \in Handler : WF_vars(Stop(h))
    /\ \A s \in Session : WF_vars(NativeDies(s)) /\ WF_vars(PumpEof(s))

-----------------------------------------------------------------------------
(* Properties.                                                             *)

\* A native process that runs is somebody's to stop: create_session is still
\* at it, a handler is, it has been terminated or killed already, or a DELETE can
\* reach it (its session is listed as active and its service is in `_capture`).
NativeIsReachable ==
    /\ TypeOK
    /\ \A s \in native :
           \/ s = creating
           \/ Stopping(s)
           \/ s \in doomed
           \/ capture[s] \in Active /\ s \in attached

\* One handler at a time runs the stop ladder of a session, however many
\* DELETEs arrive, and none runs it twice.
OneLadder ==
    \A s \in Session :
        /\ \A g, h \in Handler : InLadder(g, s) /\ InLadder(h, s) => g = h
        /\ s \in ladders => s \notin attached

\* Nothing is revived, though handlers still hold a session's id and write its
\* status: one that was purged or cleaned up does not come back, and one that
\* left the active states is not made active again by a late write of
\* create_session or of a second DELETE.
NoRevival ==
    [][\A s \in born :
          /\ capture[s] = Absent => capture'[s] = Absent
          /\ capture[s] \notin Active => capture'[s] \notin Active]_vars

\* A stop request ends, even when the native process ignores its stdin
\* (docs/threat-model.md: "stop() ladder times out and falls through"), and one
\* that got the service leaves no native process behind.
StopKills ==
    /\ \A h \in Handler : pc[h] = "detach" ~> pc[h] = "idle"
    /\ \A s \in Session : Stopping(s) ~> s \notin native
=============================================================================
