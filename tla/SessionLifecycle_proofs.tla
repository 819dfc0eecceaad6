----------------------- MODULE SessionLifecycle_proofs -----------------------
(***************************************************************************)
(* Proofs about the life of a session, for any number of sessions and of   *)
(* threadpool threads that stop, purge and clean them up.                  *)
(***************************************************************************)
EXTENDS SessionLifecycle, TLAPS

\* While create_session works on a session it is listed as initializing, has a
\* process only once it was spawned, and a service from "mark" on.
CreateOK ==
    /\ createPc = "idle" <=> creating = NoSession
    /\ createPc # "idle" => capture[creating] = "initializing" /\ creating \in born
    /\ createPc = "start" => creating \notin native
    /\ createPc \in {"start", "hello", "attach"} => creating \notin attached
    /\ createPc = "mark" => creating \in attached

UnbornOK ==
    \A s \in Session \ born : capture[s] = Absent /\ s \notin native /\ s \notin attached

\* A handler works on a session it was given a response about, so not on the
\* one create_session is at; past the pop the service is out of `_capture`, and
\* a handler that joins the pumps has seen the process end or has terminated it.
HandlerOK ==
    \A h \in Handler :
        /\ pc[h] # "idle" => sid[h] \in born /\ sid[h] # creating
        /\ pc[h] \in {"close", "wait", "waitAgain", "join", "finish"} => sid[h] \notin attached
        /\ pc[h] = "join" => sid[h] \notin native \/ sid[h] \in doomed

LadderOK ==
    /\ ladders \subseteq born
    /\ creating \notin ladders
    /\ \A s \in Session : s \in ladders => s \notin attached

OneAtATime ==
    \A s \in Session : \A g, h \in Handler : InLadder(g, s) /\ InLadder(h, s) => g = h

\* A native process belongs to create_session, to a handler on a rung of the
\* ladder, or to a session that is listed as active with its service, unless it
\* was terminated or killed.
Owned ==
    \A s \in native :
        \/ s = creating
        \/ s \in doomed
        \/ \E h \in Handler : pc[h] \in {"close", "wait", "waitAgain"} /\ sid[h] = s
        \/ capture[s] \in Active /\ s \in attached

IInv == /\ TypeOK
        /\ CreateOK
        /\ UnbornOK
        /\ HandlerOK
        /\ LadderOK
        /\ OneAtATime
        /\ Owned

-----------------------------------------------------------------------------
(* create_session.                                                         *)

\* At the start there is no session, no service and no process.
LEMMA InitIInv == Init => IInv
<1> SUFFICES ASSUME Init
             PROVE  IInv
    OBVIOUS
<1>1. TypeOK
    BY DEF Init, TypeOK
<1>2. CreateOK /\ UnbornOK
    BY LifecycleAssumption DEF Init, CreateOK, UnbornOK
<1>3. HandlerOK /\ LadderOK /\ OneAtATime /\ Owned
    BY DEF Init, HandlerOK, LadderOK, OneAtATime, InLadder, Owned
<1> QED
    BY <1>1, <1>2, <1>3 DEF IInv

\* A session without a process.
LEMMA CreateWithoutAdminStep ==
    ASSUME IInv, NEW s \in Session, CreateWithoutAdmin(s)
    PROVE  IInv'
<1> USE LifecycleAssumption DEF IInv, CreateWithoutAdmin, creation, handler
<1>1. TypeOK'
    BY DEF TypeOK, Capture, Active, Written
<1>2. CreateOK'
    BY DEF TypeOK, CreateOK, Capture, Active, Written, UnbornOK, HandlerOK
<1>3. UnbornOK'
    BY DEF TypeOK, UnbornOK, CreateOK, HandlerOK, Written
<1>4. HandlerOK'
    BY DEF TypeOK, HandlerOK, CreateOK, UnbornOK
<1>5. LadderOK'
    BY DEF TypeOK, LadderOK, CreateOK, HandlerOK
<1>6. OneAtATime'
    BY DEF TypeOK, OneAtATime, InLadder, HandlerOK
<1>7. Owned'
    BY DEF TypeOK, Owned, CreateOK, UnbornOK, HandlerOK, Active, Capture, Written
<1> QED
    BY <1>1, <1>2, <1>3, <1>4, <1>5, <1>6, <1>7

\* A new session is nobody else's.
LEMMA CreateReserveStep ==
    ASSUME IInv, NEW s \in Session, CreateReserve(s)
    PROVE  IInv'
<1> USE LifecycleAssumption DEF IInv, CreateReserve, handler
<1>1. TypeOK'
    BY DEF TypeOK, Capture, Active, Written
<1>2. CreateOK'
    BY DEF TypeOK, CreateOK, Capture, Active, Written, UnbornOK, HandlerOK
<1>3. UnbornOK'
    BY DEF TypeOK, UnbornOK, CreateOK, HandlerOK, Written
<1>4. HandlerOK'
    BY DEF TypeOK, HandlerOK, CreateOK, UnbornOK
<1>5. LadderOK'
    BY DEF TypeOK, LadderOK, CreateOK, HandlerOK
<1>6. OneAtATime'
    BY DEF TypeOK, OneAtATime, InLadder, HandlerOK
<1>7. Owned'
    BY DEF TypeOK, Owned, CreateOK, UnbornOK, HandlerOK, Active, Capture, Written
<1> QED
    BY <1>1, <1>2, <1>3, <1>4, <1>5, <1>6, <1>7

\* The process starts as create_session's own.
LEMMA CreateSpawnStep ==
    ASSUME IInv, CreateSpawn
    PROVE  IInv'
<1> USE LifecycleAssumption DEF IInv, CreateSpawn, handler
<1>1. TypeOK'
    BY DEF TypeOK, CreateOK
<1>2. CreateOK'
    BY DEF TypeOK, CreateOK, Capture, Active, Written, UnbornOK, HandlerOK
<1>3. UnbornOK'
    BY DEF TypeOK, UnbornOK, CreateOK, HandlerOK, Written
<1>4. HandlerOK'
    BY DEF TypeOK, HandlerOK, CreateOK, UnbornOK
<1>5. LadderOK'
    BY DEF TypeOK, LadderOK, CreateOK, HandlerOK
<1>6. OneAtATime'
    BY DEF TypeOK, OneAtATime, InLadder, HandlerOK
<1>7. Owned'
    BY DEF TypeOK, Owned, CreateOK, UnbornOK, HandlerOK, Active, Capture, Written
<1> QED
    BY <1>1, <1>2, <1>3, <1>4, <1>5, <1>6, <1>7

\* Before the process is spawned create_session gives up with a status only.
LEMMA CreateRefusedStep ==
    ASSUME IInv, NEW c \in Capture, CreateRefused(c)
    PROVE  IInv'
<1> USE LifecycleAssumption DEF IInv, CreateRefused, CreateDone, handler
<1>1. TypeOK'
    BY DEF TypeOK, Capture, Active, Written
<1>2. CreateOK'
    BY DEF TypeOK, CreateOK, Capture, Active, Written, UnbornOK, HandlerOK
<1>3. UnbornOK'
    BY DEF TypeOK, UnbornOK, CreateOK, HandlerOK, Written
<1>4. HandlerOK'
    BY DEF TypeOK, HandlerOK, CreateOK, UnbornOK
<1>5. LadderOK'
    BY DEF TypeOK, LadderOK, CreateOK, HandlerOK
<1>6. OneAtATime'
    BY DEF TypeOK, OneAtATime, InLadder, HandlerOK
<1>7. Owned'
    BY DEF TypeOK, Owned, CreateOK, UnbornOK, HandlerOK, Active, Capture, Written
<1> QED
    BY <1>1, <1>2, <1>3, <1>4, <1>5, <1>6, <1>7

\* A failed hello terminates the process.
LEMMA CreateFailStep ==
    ASSUME IInv, CreateFail
    PROVE  IInv'
<1> USE LifecycleAssumption DEF IInv, CreateFail, CreateDone, handler
<1>1. TypeOK'
    BY DEF TypeOK, Capture, Active, Written, CreateOK
<1>2. CreateOK'
    BY DEF TypeOK, CreateOK, Capture, Active, Written, UnbornOK, HandlerOK
<1>3. UnbornOK'
    BY DEF TypeOK, UnbornOK, CreateOK, HandlerOK, Written
<1>4. HandlerOK'
    BY DEF TypeOK, HandlerOK, CreateOK, UnbornOK
<1>5. LadderOK'
    BY DEF TypeOK, LadderOK, CreateOK, HandlerOK
<1>6. OneAtATime'
    BY DEF TypeOK, OneAtATime, InLadder, HandlerOK
<1>7. Owned'
    BY DEF TypeOK, Owned, CreateOK, UnbornOK, HandlerOK, Active, Capture, Written
<1> QED
    BY <1>1, <1>2, <1>3, <1>4, <1>5, <1>6, <1>7

\* The pump starts for a process that is there.
LEMMA CreateHelloStep ==
    ASSUME IInv, CreateHello
    PROVE  IInv'
<1> USE LifecycleAssumption DEF IInv, CreateHello, handler
<1>1. TypeOK'
    BY DEF TypeOK, Capture, Active, Written
<1>2. CreateOK'
    BY DEF TypeOK, CreateOK, Capture, Active, Written, UnbornOK, HandlerOK
<1>3. UnbornOK'
    BY DEF TypeOK, UnbornOK, CreateOK, HandlerOK, Written
<1>4. HandlerOK'
    BY DEF TypeOK, HandlerOK, CreateOK, UnbornOK
<1>5. LadderOK'
    BY DEF TypeOK, LadderOK, CreateOK, HandlerOK
<1>6. OneAtATime'
    BY DEF TypeOK, OneAtATime, InLadder, HandlerOK
<1>7. Owned'
    BY DEF TypeOK, Owned, CreateOK, UnbornOK, HandlerOK, Active, Capture, Written
<1> QED
    BY <1>1, <1>2, <1>3, <1>4, <1>5, <1>6, <1>7

\* The service is in `_capture` before the session is live.
LEMMA CreateAttachStep ==
    ASSUME IInv, CreateAttach
    PROVE  IInv'
<1> USE LifecycleAssumption DEF IInv, CreateAttach, handler
<1>1. TypeOK'
    BY DEF TypeOK, CreateOK
<1>2. CreateOK'
    BY DEF TypeOK, CreateOK, Capture, Active, Written, UnbornOK, HandlerOK
<1>3. UnbornOK'
    BY DEF TypeOK, UnbornOK, CreateOK, HandlerOK, Written
<1>4. HandlerOK'
    BY DEF TypeOK, HandlerOK, CreateOK, UnbornOK
<1>5. LadderOK'
    BY DEF TypeOK, LadderOK, CreateOK, HandlerOK
<1>6. OneAtATime'
    BY DEF TypeOK, OneAtATime, InLadder, HandlerOK
<1>7. Owned'
    BY DEF TypeOK, Owned, CreateOK, UnbornOK, HandlerOK, Active, Capture, Written
<1> QED
    BY <1>1, <1>2, <1>3, <1>4, <1>5, <1>6, <1>7

\* From now on a DELETE reaches the process.
LEMMA CreateMarkStep ==
    ASSUME IInv, CreateMark
    PROVE  IInv'
<1> USE LifecycleAssumption DEF IInv, CreateMark, CreateDone, handler
<1>1. TypeOK'
    BY DEF TypeOK, Capture, Active, Written
<1>2. CreateOK'
    BY DEF TypeOK, CreateOK, Capture, Active, Written, UnbornOK, HandlerOK
<1>3. UnbornOK'
    BY DEF TypeOK, UnbornOK, CreateOK, HandlerOK, Written
<1>4. HandlerOK'
    BY DEF TypeOK, HandlerOK, CreateOK, UnbornOK
<1>5. LadderOK'
    BY DEF TypeOK, LadderOK, CreateOK, HandlerOK
<1>6. OneAtATime'
    BY DEF TypeOK, OneAtATime, InLadder, HandlerOK
<1>7. Owned'
    BY DEF TypeOK, Owned, CreateOK, UnbornOK, HandlerOK, Active, Capture, Written
<1> QED
    BY <1>1, <1>2, <1>3, <1>4, <1>5, <1>6, <1>7

-----------------------------------------------------------------------------
(* stop_session, cleanup_sessions and the native process.                  *)

\* A request names a session that create_session is done with.
LEMMA StopRequestStep ==
    ASSUME IInv, NEW h \in Handler, NEW s \in Session, NEW p \in BOOLEAN, StopRequest(h, s, p)
    PROVE  IInv'
<1> USE LifecycleAssumption DEF IInv, StopRequest, creation
<1>1. TypeOK'
    BY DEF TypeOK, Capture, Active, Written
<1>2. CreateOK'
    BY DEF TypeOK, CreateOK, Capture, Active, Written, UnbornOK, HandlerOK
<1>3. UnbornOK'
    BY DEF TypeOK, UnbornOK, CreateOK, HandlerOK, Written
<1>4. HandlerOK'
    BY DEF TypeOK, HandlerOK, CreateOK, UnbornOK
<1>5. LadderOK'
    BY DEF TypeOK, LadderOK, CreateOK, HandlerOK
<1>6. OneAtATime'
    BY DEF TypeOK, OneAtATime, InLadder, HandlerOK
<1>7. Owned'
    BY DEF TypeOK, Owned, CreateOK, UnbornOK, HandlerOK, Active, Capture, Written
<1> QED
    BY <1>1, <1>2, <1>3, <1>4, <1>5, <1>6, <1>7

\* One handler gets the service; the others find nothing to stop.
LEMMA StopDetachStep ==
    ASSUME IInv, NEW h \in Handler, StopDetach(h)
    PROVE  IInv'
<1> USE LifecycleAssumption DEF IInv, StopDetach, creation
<1>1. TypeOK'
    BY DEF TypeOK, Capture, Active, Written
<1>2. CreateOK'
    BY DEF TypeOK, CreateOK, Capture, Active, Written, UnbornOK, HandlerOK
<1>3. UnbornOK'
    BY DEF TypeOK, UnbornOK, CreateOK, HandlerOK, Written
<1>4. HandlerOK'
    BY DEF TypeOK, HandlerOK, CreateOK, UnbornOK
<1>5. LadderOK'
    BY DEF TypeOK, LadderOK, CreateOK, HandlerOK
<1>6. OneAtATime'
    BY DEF TypeOK, OneAtATime, InLadder, HandlerOK
<1>7. Owned'
    BY DEF TypeOK, Owned, CreateOK, UnbornOK, HandlerOK, Active, Capture, Written
<1> QED
    BY <1>1, <1>2, <1>3, <1>4, <1>5, <1>6, <1>7

\* The handler that got the service enters the ladder.
LEMMA StopCloseStep ==
    ASSUME IInv, NEW h \in Handler, StopClose(h)
    PROVE  IInv'
<1> USE LifecycleAssumption DEF IInv, StopClose, creation
<1>1. TypeOK'
    BY DEF TypeOK, HandlerOK
<1>2. CreateOK'
    BY DEF TypeOK, CreateOK, Capture, Active, Written, UnbornOK, HandlerOK
<1>3. UnbornOK'
    BY DEF TypeOK, UnbornOK, CreateOK, HandlerOK, Written
<1>4. HandlerOK'
    BY DEF TypeOK, HandlerOK, CreateOK, UnbornOK
<1>5. LadderOK'
    BY DEF TypeOK, LadderOK, CreateOK, HandlerOK
<1>6. OneAtATime'
    BY DEF TypeOK, OneAtATime, InLadder, HandlerOK
<1>7. Owned'
    BY DEF TypeOK, Owned, CreateOK, UnbornOK, HandlerOK, Active, Capture, Written
<1> QED
    BY <1>1, <1>2, <1>3, <1>4, <1>5, <1>6, <1>7

\* A wait that returns has seen the process end.
LEMMA StopWaitedStep ==
    ASSUME IInv, NEW h \in Handler, StopWaited(h)
    PROVE  IInv'
<1> USE LifecycleAssumption DEF IInv, StopWaited, creation
<1>1. TypeOK'
    BY DEF TypeOK, HandlerOK
<1>2. CreateOK'
    BY DEF TypeOK, CreateOK, Capture, Active, Written, UnbornOK, HandlerOK
<1>3. UnbornOK'
    BY DEF TypeOK, UnbornOK, CreateOK, HandlerOK, Written
<1>4. HandlerOK'
    BY DEF TypeOK, HandlerOK, CreateOK, UnbornOK
<1>5. LadderOK'
    BY DEF TypeOK, LadderOK, CreateOK, HandlerOK
<1>6. OneAtATime'
    BY DEF TypeOK, OneAtATime, InLadder, HandlerOK
<1>7. Owned'
    BY DEF TypeOK, Owned, CreateOK, UnbornOK, HandlerOK, Active, Capture, Written
<1> QED
    BY <1>1, <1>2, <1>3, <1>4, <1>5, <1>6, <1>7

\* A wait that times out is followed by terminate().
LEMMA StopTerminateStep ==
    ASSUME IInv, NEW h \in Handler, StopTerminate(h)
    PROVE  IInv'
<1> USE LifecycleAssumption DEF IInv, StopTerminate, creation
<1>1. TypeOK'
    BY DEF TypeOK, HandlerOK
<1>2. CreateOK'
    BY DEF TypeOK, CreateOK, Capture, Active, Written, UnbornOK, HandlerOK
<1>3. UnbornOK'
    BY DEF TypeOK, UnbornOK, CreateOK, HandlerOK, Written
<1>4. HandlerOK'
    BY DEF TypeOK, HandlerOK, CreateOK, UnbornOK
<1>5. LadderOK'
    BY DEF TypeOK, LadderOK, CreateOK, HandlerOK
<1>6. OneAtATime'
    BY DEF TypeOK, OneAtATime, InLadder, HandlerOK
<1>7. Owned'
    BY DEF TypeOK, Owned, CreateOK, UnbornOK, HandlerOK, Active, Capture, Written
<1> QED
    BY <1>1, <1>2, <1>3, <1>4, <1>5, <1>6, <1>7

\* The second one by kill(), and by no third.
LEMMA StopKillStep ==
    ASSUME IInv, NEW h \in Handler, StopKill(h)
    PROVE  IInv'
<1> USE LifecycleAssumption DEF IInv, StopKill, creation
<1>1. TypeOK'
    BY DEF TypeOK, HandlerOK
<1>2. CreateOK'
    BY DEF TypeOK, CreateOK, Capture, Active, Written, UnbornOK, HandlerOK
<1>3. UnbornOK'
    BY DEF TypeOK, UnbornOK, CreateOK, HandlerOK, Written
<1>4. HandlerOK'
    BY DEF TypeOK, HandlerOK, CreateOK, UnbornOK
<1>5. LadderOK'
    BY DEF TypeOK, LadderOK, CreateOK, HandlerOK
<1>6. OneAtATime'
    BY DEF TypeOK, OneAtATime, InLadder, HandlerOK
<1>7. Owned'
    BY DEF TypeOK, Owned, CreateOK, UnbornOK, HandlerOK, Active, Capture, Written
<1> QED
    BY <1>1, <1>2, <1>3, <1>4, <1>5, <1>6, <1>7

\* The pumps are joined when the process is gone or killed.
LEMMA StopJoinStep ==
    ASSUME IInv, NEW h \in Handler, StopJoin(h)
    PROVE  IInv'
<1> USE LifecycleAssumption DEF IInv, StopJoin, creation
<1>1. TypeOK'
    BY DEF TypeOK, Capture, Active, Written
<1>2. CreateOK'
    BY DEF TypeOK, CreateOK, Capture, Active, Written, UnbornOK, HandlerOK
<1>3. UnbornOK'
    BY DEF TypeOK, UnbornOK, CreateOK, HandlerOK, Written
<1>4. HandlerOK'
    BY DEF TypeOK, HandlerOK, CreateOK, UnbornOK
<1>5. LadderOK'
    BY DEF TypeOK, LadderOK, CreateOK, HandlerOK
<1>6. OneAtATime'
    BY DEF TypeOK, OneAtATime, InLadder, HandlerOK
<1>7. Owned'
    BY DEF TypeOK, Owned, CreateOK, UnbornOK, HandlerOK, Active, Capture, Written
<1> QED
    BY <1>1, <1>2, <1>3, <1>4, <1>5, <1>6, <1>7

\* The status is written when the service is out of `_capture`.
LEMMA StopFinishStep ==
    ASSUME IInv, NEW h \in Handler, StopFinish(h)
    PROVE  IInv'
<1> USE LifecycleAssumption DEF IInv, StopFinish, HandlerDone, creation
<1>1. TypeOK'
    BY DEF TypeOK, Capture, Active, Written
<1>2. CreateOK'
    BY DEF TypeOK, CreateOK, Capture, Active, Written, UnbornOK, HandlerOK
<1>3. UnbornOK'
    BY DEF TypeOK, UnbornOK, CreateOK, HandlerOK, Written
<1>4. HandlerOK'
    BY DEF TypeOK, HandlerOK, CreateOK, UnbornOK
<1>5. LadderOK'
    BY DEF TypeOK, LadderOK, CreateOK, HandlerOK
<1>6. OneAtATime'
    BY DEF TypeOK, OneAtATime, InLadder, HandlerOK
<1>7. Owned'
    BY DEF TypeOK, Owned, CreateOK, UnbornOK, HandlerOK, Active, Capture, Written
<1> QED
    BY <1>1, <1>2, <1>3, <1>4, <1>5, <1>6, <1>7

\* Sessions that are listed as active are not cleaned up.
LEMMA CleanupStep ==
    ASSUME IInv, Cleanup
    PROVE  IInv'
<1> USE LifecycleAssumption DEF IInv, Cleanup, creation, handler
<1>1. TypeOK'
    BY DEF TypeOK, Capture, Active, Written
<1>2. CreateOK'
    BY DEF TypeOK, CreateOK, Capture, Active, Written, UnbornOK, HandlerOK
<1>3. UnbornOK'
    BY DEF TypeOK, UnbornOK, CreateOK, HandlerOK, Written
<1>4. HandlerOK'
    BY DEF TypeOK, HandlerOK, CreateOK, UnbornOK
<1>5. LadderOK'
    BY DEF TypeOK, LadderOK, CreateOK, HandlerOK
<1>6. OneAtATime'
    BY DEF TypeOK, OneAtATime, InLadder, HandlerOK
<1>7. Owned'
    BY DEF TypeOK, Owned, CreateOK, UnbornOK, HandlerOK, Active, Capture, Written
<1> QED
    BY <1>1, <1>2, <1>3, <1>4, <1>5, <1>6, <1>7

\* A process that ends by itself leaves nothing to stop.
LEMMA NativeStep ==
    ASSUME IInv, NEW s \in Session, NativeExit(s) \/ PumpEof(s)
    PROVE  IInv'
<1> USE LifecycleAssumption DEF IInv, NativeExit, PumpEof, creation, handler
<1>1. TypeOK'
    BY DEF TypeOK, Capture, Active, Written
<1>2. CreateOK'
    BY DEF TypeOK, CreateOK, Capture, Active, Written, UnbornOK, HandlerOK
<1>3. UnbornOK'
    BY DEF TypeOK, UnbornOK, CreateOK, HandlerOK, Written
<1>4. HandlerOK'
    BY DEF TypeOK, HandlerOK, CreateOK, UnbornOK
<1>5. LadderOK'
    BY DEF TypeOK, LadderOK, CreateOK, HandlerOK
<1>6. OneAtATime'
    BY DEF TypeOK, OneAtATime, InLadder, HandlerOK
<1>7. Owned'
    BY DEF TypeOK, Owned, CreateOK, UnbornOK, HandlerOK, Active, Capture, Written
<1> QED
    BY <1>1, <1>2, <1>3, <1>4, <1>5, <1>6, <1>7

\* Every step keeps the invariant.
LEMMA StepIInv == IInv /\ [Next]_vars => IInv'
<1> SUFFICES ASSUME IInv, [Next]_vars
             PROVE  IInv'
    OBVIOUS
<1>1. CASE UNCHANGED vars
    BY <1>1 DEF vars, IInv, TypeOK, CreateOK, UnbornOK, HandlerOK, LadderOK, OneAtATime,
       InLadder, Owned
<1>2. CASE Create
    BY <1>2, CreateWithoutAdminStep, CreateReserveStep, CreateSpawnStep, CreateRefusedStep,
       CreateFailStep, CreateHelloStep, CreateAttachStep, CreateMarkStep DEF Create
<1>3. ASSUME NEW h \in Handler, Stop(h)
      PROVE  IInv'
    BY <1>3, StopDetachStep, StopCloseStep, StopWaitedStep, StopTerminateStep, StopKillStep,
       StopJoinStep, StopFinishStep DEF Stop
<1> QED
    BY <1>1, <1>2, <1>3, StopRequestStep, CleanupStep, NativeStep DEF Next

\* The invariant the theorems rest on.
LEMMA IInvHolds == Spec => []IInv
BY InitIInv, StepIInv, PTL DEF Spec

-----------------------------------------------------------------------------
(* Theorems.                                                               *)

\* Every variable keeps its type.
THEOREM TypeCorrect == Spec => []TypeOK
<1>1. IInv => TypeOK
    BY DEF IInv
<1> QED
    BY <1>1, IInvHolds, PTL

\* No interleaving of create_session with DELETE, purge and cleanup leaves a
\* native process that nobody is stopping and no DELETE can reach.
THEOREM NativeIsReachableHolds == Spec => []NativeIsReachable
<1>1. IInv => NativeIsReachable
    BY DEF IInv, Owned, NativeIsReachable, Stopping, InLadder
<1> QED
    BY <1>1, IInvHolds, PTL

\* However many DELETEs arrive for a session, one of them runs its stop ladder,
\* and none runs it again.
THEOREM OneLadderHolds == Spec => []OneLadder
<1>1. IInv => OneLadder
    BY DEF IInv, OneAtATime, LadderOK, OneLadder
<1> QED
    BY <1>1, IInvHolds, PTL

\* What a session's status may never do, in one step: come back from Absent, or
\* turn active again.
Kept ==
    \A s \in born :
        /\ capture[s] = Absent => capture'[s] = Absent
        /\ capture[s] \notin Active => capture'[s] \notin Active

\* A step writes an active status only to a session that is new or, at the end
\* of create_session, still listed as initializing.
LEMMA StepKept == IInv /\ [Next]_vars => Kept
<1> SUFFICES ASSUME IInv, [Next]_vars, NEW s \in born
             PROVE  /\ capture[s] = Absent => capture'[s] = Absent
                    /\ capture[s] \notin Active => capture'[s] \notin Active
    BY DEF Kept
<1> USE LifecycleAssumption DEF IInv, TypeOK
<1>1. CASE UNCHANGED capture
    BY <1>1
<1>2. CASE \E r \in Session : CreateWithoutAdmin(r) \/ CreateReserve(r)
    BY <1>2 DEF CreateWithoutAdmin, CreateReserve
<1>3. CASE (\E c \in Capture : CreateRefused(c)) \/ CreateFail \/ CreateMark
    BY <1>3 DEF CreateRefused, CreateFail, CreateMark, Written, CreateOK, Active, Capture
<1>4. ASSUME NEW h \in Handler, StopFinish(h)
      PROVE  /\ capture[s] = Absent => capture'[s] = Absent
             /\ capture[s] \notin Active => capture'[s] \notin Active
    BY <1>4 DEF StopFinish, Written, HandlerOK, Active, Capture
<1>5. CASE Cleanup
    BY <1>5 DEF Cleanup, Active, Capture
<1> QED
    BY <1>1, <1>2, <1>3, <1>4, <1>5 DEF Next, Create, Stop, CreateSpawn, CreateHello,
       CreateAttach, StopRequest, StopDetach, StopClose, StopWaited, StopTerminate, StopKill,
       StopJoin, NativeExit, PumpEof, vars

\* A session that is gone stays gone, and one that left the active states is
\* not made active again, whoever still holds its id.
THEOREM NoRevivalHolds == Spec => NoRevival
<1>1. IInv /\ [Next]_vars => [\A s \in born :
          /\ capture[s] = Absent => capture'[s] = Absent
          /\ capture[s] \notin Active => capture'[s] \notin Active]_vars
    BY StepKept DEF Kept
<1> QED
    BY <1>1, IInvHolds, PTL DEF Spec, NoRevival
=============================================================================
