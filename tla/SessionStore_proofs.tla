------------------------ MODULE SessionStore_proofs ------------------------
(***************************************************************************)
(* Proofs about the data path of the store, for any number of sessions,    *)
(* events, threads and flushers, any ring and batch size, any number of    *)
(* restarts.                                                               *)
(***************************************************************************)
EXTENDS SessionStore, Queues_proofs

-----------------------------------------------------------------------------
(* Sequences.                                                              *)

\* Every event occurs at most once; the sentinel may occur more often.
Once(q) == \A i, j \in DOMAIN q : q[i] = q[j] /\ q[i] # SHUTDOWN => i = j

\* The empty sequence has no elements, and none of them twice.
LEMMA EmptySequence == Range(<<>>) = {} /\ Once(<<>>)
BY DEF Range, Once

\* Appending a new event keeps every event unique.
LEMMA OnceAppend ==
    ASSUME NEW S, NEW q \in Seq(S), NEW e \in S, Once(q), e \notin Range(q) \/ e = SHUTDOWN
    PROVE  Once(Append(q, e))
<1>1. DOMAIN q = 1..Len(q) /\ DOMAIN Append(q, e) = 1..(Len(q) + 1) /\ Len(q) \in Nat
    OBVIOUS
<1>2. \A i \in 1..Len(q) : Append(q, e)[i] = q[i]
    OBVIOUS
<1>3. Append(q, e)[Len(q) + 1] = e
    OBVIOUS
<1>4. \A i \in 1..Len(q) : q[i] = e => e = SHUTDOWN
    BY <1>1 DEF Range
<1> QED
    BY <1>1, <1>2, <1>3, <1>4 DEF Once

\* The head of a sequence of unique events is not in its tail.
LEMMA OnceTail ==
    ASSUME NEW S, NEW q \in Seq(S), q # <<>>, Once(q)
    PROVE  Once(Tail(q)) /\ (Head(q) # SHUTDOWN => Head(q) \notin Range(Tail(q)))
<1>1. Len(q) \in Nat \ {0} /\ DOMAIN q = 1..Len(q) /\ DOMAIN Tail(q) = 1..(Len(q) - 1)
    OBVIOUS
<1>2. Head(q) = q[1] /\ \A i \in 1..(Len(q) - 1) : Tail(q)[i] = q[i + 1]
    OBVIOUS
<1>3. Once(Tail(q))
    <2> SUFFICES ASSUME NEW i \in 1..(Len(q) - 1), NEW j \in 1..(Len(q) - 1),
                        Tail(q)[i] = Tail(q)[j], Tail(q)[i] # SHUTDOWN
                 PROVE  i = j
        BY <1>1 DEF Once
    <2>1. i + 1 \in DOMAIN q /\ j + 1 \in DOMAIN q
        BY <1>1
    <2>2. i + 1 = j + 1
        BY <1>2, <2>1 DEF Once
    <2> QED
        BY <2>2
<1>4. Head(q) # SHUTDOWN => \A i \in 1..(Len(q) - 1) : Tail(q)[i] # Head(q)
    <2> SUFFICES ASSUME Head(q) # SHUTDOWN, NEW i \in 1..(Len(q) - 1), Tail(q)[i] = Head(q)
                 PROVE  FALSE
        OBVIOUS
    <2>1. i + 1 \in DOMAIN q /\ 1 \in DOMAIN q
        BY <1>1
    <2>2. i + 1 = 1
        BY <1>2, <2>1 DEF Once
    <2> QED
        BY <2>2
<1> QED
    BY <1>1, <1>3, <1>4 DEF Range

-----------------------------------------------------------------------------
(* Type correctness.                                                       *)

\* A thread holds an event from its first statement of add_event to its last.
AddingOK == \A t \in Thread : addPc[t] = "idle" <=> adding[t] = NoEvent

TypeInv == TypeOK /\ AddingOK

LEMMA TypeInit == Init => TypeInv
<1> SUFFICES ASSUME Init
             PROVE  TypeInv
    OBVIOUS
<1>1. TypeOK
    <2>1. <<>> \in Seq(Event) /\ <<>> \in Seq(Event \union {SHUTDOWN})
        OBVIOUS
    <2>2. ring \in [Session -> Seq(Event)]
        BY <2>1 DEF Init
    <2>3. /\ queue \in Seq(Event \union {SHUTDOWN})
          /\ batch \in Seq(Event)
          /\ handoff \in Seq(Event)
        BY <2>1 DEF Init
    <2>4. sessions \in [Session -> Capture \union {Absent}]
        BY DEF Init
    <2>5. dbSessions \in [Session -> Capture \union {Absent}]
        BY DEF Init
    <2>6. dbEvents \in SUBSET Event /\ born \in SUBSET Session
        BY DEF Init
    <2> QED
        BY <2>2, <2>3, <2>4, <2>5, <2>6 DEF Init, TypeOK
<1>2. AddingOK
    BY DEF Init, AddingOK
<1> QED
    BY <1>1, <1>2 DEF TypeInv

\* Session operations keep TypeInv.
LEMMA TypeSessionOp == TypeInv /\ SessionOp => TypeInv'
<1> SUFFICES ASSUME TypeInv, SessionOp
             PROVE  TypeInv'
    OBVIOUS
<1> USE StoreAssumption DEF TypeInv, TypeOK, AddingOK, Locked, memory, adder,
        writerVars, flushVars, stopVars, db
<1>1. ASSUME NEW s \in Session, NEW c \in Births, Create(s, c)
      PROVE  TypeInv'
    <2>1. c \in Capture
        BY DEF Capture, Active
    <2>2. /\ born' \in SUBSET Session
          /\ sessions' \in [Session -> Capture \union {Absent}]
        BY <1>1, <2>1 DEF Create
    <2>3. /\ dbSessions' \in [Session -> Capture \union {Absent}]
          /\ dbEvents' \in SUBSET Event
        <3>1. \/ dbSessions' = [dbSessions EXCEPT ![s] = c] /\ UNCHANGED dbEvents
              \/ UNCHANGED db
            BY <1>1 DEF Create
        <3>2. CASE dbSessions' = [dbSessions EXCEPT ![s] = c] /\ UNCHANGED dbEvents
            BY <2>1, <3>2
        <3>3. CASE UNCHANGED db
            BY <3>3
        <3> QED
            BY <3>1, <3>2, <3>3
    <2>4. UNCHANGED <<ring, queue, drained, adding, addPc, writer, batch, lastBatch, flushPc,
                      flushFrom, stopPc, stopFrom, handoff, raced, restarts>>
        BY <1>1 DEF Create
    <2> QED
        BY <2>2, <2>3, <2>4
<1>2. ASSUME NEW s \in Session, NEW c \in Marks, MarkStatus(s, c)
      PROVE  TypeInv'
    <2>1. c \in Capture
        OBVIOUS
    <2>2. sessions' \in [Session -> Capture \union {Absent}]
        BY <1>2, <2>1 DEF MarkStatus
    <2>3. /\ dbSessions' \in [Session -> Capture \union {Absent}]
          /\ dbEvents' \in SUBSET Event
        BY <1>2, <2>1 DEF MarkStatus
    <2>4. UNCHANGED <<ring, queue, drained, adding, addPc, writer, batch, lastBatch, flushPc,
                      flushFrom, stopPc, stopFrom, born, handoff, raced, restarts>>
        BY <1>2 DEF MarkStatus
    <2> QED
        BY <2>2, <2>3, <2>4
<1>3. ASSUME NEW S \in SUBSET Session, Forget(S)
      PROVE  TypeInv'
    BY <1>3 DEF Forget, DeleteRows
<1>4. ASSUME NEW s \in Session, PurgeSession(s)
      PROVE  TypeInv'
    BY <1>3, <1>4 DEF PurgeSession
<1>5. CASE PurgeInactive
    BY <1>3, <1>5 DEF PurgeInactive
<1> QED
    BY <1>1, <1>2, <1>4, <1>5 DEF SessionOp

\* add_event keeps TypeInv.
LEMMA TypeAddEvent ==
    ASSUME TypeInv, NEW t \in Thread, AddEvent(t)
    PROVE  TypeInv'
<1> USE StoreAssumption DEF TypeInv, TypeOK, AddingOK, memory, adder,
        writerVars, flushVars, stopVars, db
<1>1. ASSUME NEW e \in Event, AddRing(t, e)
      PROVE  TypeInv'
    <2>1. \A s \in Session : PushRing(ring[s], e) \in Seq(Event)
        BY RangeTail DEF PushRing
    <2>2. ring' \in [Session -> Seq(Event)]
        BY <1>1, <2>1 DEF AddRing
    <2> QED
        BY <1>1, <2>2 DEF AddRing
<1>2. CASE AddClear(t)
    BY <1>2 DEF AddClear
<1>3. CASE AddPut(t)
    <2>1. adding[t] \in Event
        BY <1>3 DEF AddPut
    <2>2. queue' \in Seq(Event \union {SHUTDOWN}) /\ handoff' \in Seq(Event)
        BY <1>3, <2>1 DEF AddPut
    <2> QED
        BY <1>3, <2>2 DEF AddPut
<1> QED
    BY <1>1, <1>2, <1>3 DEF AddEvent

\* The writer keeps TypeInv.
LEMMA TypeWriter == TypeInv /\ Writer => TypeInv'
<1> SUFFICES ASSUME TypeInv, Writer
             PROVE  TypeInv'
    OBVIOUS
<1> USE StoreAssumption DEF TypeInv, TypeOK, AddingOK, writerRest, batchRest, memory, adder,
        flushVars, stopVars, db
<1>1. ASSUME queue # <<>>
      PROVE  /\ Tail(queue) \in Seq(Event \union {SHUTDOWN})
             /\ Head(queue) \in Event \union {SHUTDOWN}
    BY <1>1, RangeTail
<1>2. CASE WriterGet
    <2>1. Head(queue) # SHUTDOWN => <<Head(queue)>> \in Seq(Event)
        BY <1>1, <1>2 DEF WriterGet
    <2> QED
        BY <1>1, <1>2, <2>1 DEF WriterGet
<1>3. CASE WriterEmpty \/ WriterEmptyCheck \/ WriterIdle \/ WriterCollectEnd
    BY <1>3 DEF WriterEmpty, WriterEmptyCheck, WriterIdle, WriterCollectEnd
<1>4. CASE WriterCollect
    <2>1. Head(queue) # SHUTDOWN => Append(batch, Head(queue)) \in Seq(Event)
        BY <1>1, <1>4 DEF WriterCollect
    <2> QED
        BY <1>1, <1>4, <2>1 DEF WriterCollect
<1>5. ASSUME FlushBatch
      PROVE  /\ batch' \in Seq(Event) /\ dbEvents' \in SUBSET Event
             /\ raced' \in SUBSET Event /\ UNCHANGED dbSessions
    BY <1>5 DEF FlushBatch, Locked, Range
<1>6. CASE WriterFlush \/ WriterLastFlush
    BY <1>5, <1>6 DEF WriterFlush, WriterLastFlush
<1>7. CASE WriterCheck \/ WriterMark \/ WriterNext \/ WriterLastMark
    BY <1>7 DEF WriterCheck, WriterMark, WriterNext, WriterLastMark
<1>8. CASE WriterLeftover
    <2>1. CASE queue = <<>>
        BY <1>8, <2>1 DEF WriterLeftover
    <2>2. CASE queue # <<>>
        <3>1. Head(queue) # SHUTDOWN => Append(batch, Head(queue)) \in Seq(Event)
            BY <1>1, <2>2
        <3> QED
            BY <1>1, <1>8, <2>2, <3>1 DEF WriterLeftover
    <2> QED
        BY <2>1, <2>2
<1> QED
    BY <1>2, <1>3, <1>4, <1>6, <1>7, <1>8 DEF Writer

\* Retention, flush(), shutdown() and a restart keep TypeInv.
LEMMA TypeOther ==
    ASSUME TypeInv,
           \/ \E E \in SUBSET dbEvents : Retention(E)
           \/ \E f \in Flusher : Flush(f)
           \/ Shutdown
           \/ Restart
    PROVE  TypeInv'
<1> USE StoreAssumption DEF TypeInv, TypeOK, AddingOK, memory, adder, writerVars,
        flushVars, stopVars, db
<1>1. ASSUME NEW E \in SUBSET dbEvents, Retention(E)
      PROVE  TypeInv'
    BY <1>1 DEF Retention
<1>2. ASSUME NEW f \in Flusher, Flush(f)
      PROVE  TypeInv'
    <2> USE DEF flushRest
    <2>1. Len(handoff) \in Nat
        OBVIOUS
    <2>2. CASE FlushCall(f)
        BY <2>1, <2>2 DEF FlushCall
    <2>3. CASE FlushCheckQueue(f) \/ FlushCheckDrained(f)
        BY <2>3 DEF FlushCheckQueue, FlushCheckDrained
    <2>4. CASE FlushTimeout(f)
        BY <2>4 DEF FlushTimeout
    <2> QED
        BY <1>2, <2>2, <2>3, <2>4 DEF Flush
<1>3. CASE Shutdown
    <2>1. Append(queue, SHUTDOWN) \in Seq(Event \union {SHUTDOWN}) /\ Len(handoff) \in Nat
        OBVIOUS
    <2> QED
        BY <1>3, <2>1 DEF Shutdown, ShutdownSignal, ShutdownSentinel, ShutdownJoin, stopRest
<1>4. CASE Restart
    <2>1. \A c \in Capture \union {Absent} : Rehydrated(c) \in Capture \union {Absent}
        BY DEF Rehydrated, Capture
    <2>2. sessions' \in [Session -> Capture \union {Absent}] /\ dbSessions' = sessions'
        BY <1>4, <2>1 DEF Restart
    <2>3. TypeOK'
        <3>1. <<>> \in Seq(Event) /\ <<>> \in Seq(Event \union {SHUTDOWN})
            OBVIOUS
        <3>2. ring' \in [Session -> Seq(Event)]
            BY <1>4, <3>1 DEF Restart
        <3>3. queue' \in Seq(Event \union {SHUTDOWN}) /\ batch' \in Seq(Event)
            BY <1>4, <3>1 DEF Restart
        <3>4. adding' \in [Thread -> Event \union {NoEvent}]
            BY <1>4 DEF Restart
        <3>5. addPc' \in [Thread -> {"idle", "clear", "put"}]
            BY <1>4 DEF Restart
        <3>6. flushPc' \in [Flusher -> {"out", "queue", "drained", "ok"}]
            BY <1>4 DEF Restart
        <3>7. flushFrom' \in [Flusher -> Nat]
            BY <1>4 DEF Restart
        <3>8. drained' \in BOOLEAN /\ lastBatch' \in BOOLEAN
            BY <1>4, Zenon DEF Restart
        <3>9. writer' = "get" /\ stopPc' = "up" /\ stopFrom' = 0
            BY <1>4, Zenon DEF Restart
        <3>10. restarts' \in Nat
            BY <1>4 DEF Restart
        <3>11. UNCHANGED <<dbEvents, born, handoff>> /\ raced' = {}
            BY <1>4, Zenon DEF Restart
        <3> HIDE DEF Restart, AddingOK
        <3> QED
            BY <2>2, <3>2, <3>3, <3>4, <3>5, <3>6, <3>7, <3>8, <3>9, <3>10, <3>11
    <2>4. AddingOK'
        BY <1>4 DEF Restart
    <2> QED
        BY <2>3, <2>4
<1> QED
    BY <1>1, <1>2, <1>3, <1>4

\* Every step keeps TypeInv.
LEMMA TypeStep == TypeInv /\ [Next]_vars => TypeInv'
<1> SUFFICES ASSUME TypeInv, [Next]_vars
             PROVE  TypeInv'
    OBVIOUS
<1>1. CASE UNCHANGED vars
    BY <1>1 DEF vars, TypeInv, TypeOK, AddingOK
<1> QED
    BY <1>1, TypeSessionOp, TypeAddEvent, TypeWriter, TypeOther DEF Next

\* Every variable of the store keeps its type, whatever the interleaving of
\* request threads, pumps, writer and flushers, and over any number of restarts.
THEOREM TypeCorrect == Spec => []TypeOK
<1>1. TypeInv => TypeOK
    BY DEF TypeInv
<1> QED
    BY <1>1, TypeInit, TypeStep, PTL DEF Spec

-----------------------------------------------------------------------------
(* The foreign key.                                                        *)

\* Session operations keep every stored event's session in its table.
LEMMA ForeignKeySessionOp == TypeInv /\ ForeignKey /\ SessionOp => ForeignKey'
<1> SUFFICES ASSUME TypeInv, ForeignKey, SessionOp
             PROVE  ForeignKey'
    OBVIOUS
<1> USE DEF ForeignKey, Rows
<1>1. SidOf \in [Event -> Session] /\ dbEvents \subseteq Event
        /\ dbSessions \in [Session -> Capture \union {Absent}] /\ Absent \notin Capture
    BY StoreAssumption DEF TypeInv, TypeOK
<1>2. CASE UNCHANGED db
    BY <1>2 DEF db
<1>3. ASSUME NEW s \in Session, NEW c \in Capture, UNCHANGED dbEvents,
             \/ dbSessions' = [dbSessions EXCEPT ![s] = c]
             \/ dbSessions' = [dbSessions EXCEPT ![s] = IF @ = Absent THEN Absent ELSE c]
      PROVE  ForeignKey'
    BY <1>1, <1>3
<1>4. ASSUME NEW s \in Session, NEW c \in Births, Create(s, c)
      PROVE  ForeignKey'
    <2>1. c \in Capture
        BY StoreAssumption DEF Capture, Active
    <2> QED
        BY <1>2, <1>3, <1>4, <2>1 DEF Create, Locked
<1>5. ASSUME NEW s \in Session, NEW c \in Marks, MarkStatus(s, c)
      PROVE  ForeignKey'
    <2>1. c \in Capture
        BY StoreAssumption
    <2> QED
        BY <1>2, <1>3, <1>5, <2>1 DEF MarkStatus, Locked
<1>6. ASSUME NEW S \in SUBSET Session, Forget(S)
      PROVE  ForeignKey'
    <2>1. CASE DeleteRows(S)
        BY <1>1, <2>1 DEF DeleteRows
    <2> QED
        BY <1>2, <1>6, <2>1 DEF Forget, Locked
<1>7. ASSUME NEW s \in Session, PurgeSession(s)
      PROVE  ForeignKey'
    BY <1>6, <1>7 DEF PurgeSession
<1>8. CASE PurgeInactive
    BY <1>6, <1>8 DEF PurgeInactive
<1> QED
    BY <1>4, <1>5, <1>7, <1>8 DEF SessionOp

\* Only a flush adds events, and only of sessions that have a row.
LEMMA ForeignKeyWriter == TypeInv /\ ForeignKey /\ Writer => ForeignKey'
<1> SUFFICES ASSUME TypeInv, ForeignKey, Writer
             PROVE  ForeignKey'
    OBVIOUS
<1>1. CASE UNCHANGED db
    BY <1>1 DEF db, ForeignKey, Rows
<1>2. ASSUME FlushBatch
      PROVE  ForeignKey'
    <2>1. CASE /\ \A e \in Range(batch) : SidOf[e] \in Rows
               /\ dbEvents' = dbEvents \union Range(batch)
               /\ UNCHANGED dbSessions
        BY <2>1 DEF ForeignKey, Rows
    <2> QED
        BY <1>1, <1>2, <2>1 DEF FlushBatch, Locked
<1>3. CASE WriterFlush \/ WriterLastFlush
    BY <1>2, <1>3 DEF WriterFlush, WriterLastFlush
<1>4. CASE WriterGet \/ WriterEmpty \/ WriterEmptyCheck \/ WriterIdle
    BY <1>1, <1>4 DEF WriterGet, WriterEmpty, WriterEmptyCheck, WriterIdle
<1>5. CASE WriterCollect \/ WriterCollectEnd \/ WriterCheck \/ WriterMark
    BY <1>1, <1>5 DEF WriterCollect, WriterCollectEnd, WriterCheck, WriterMark
<1>6. CASE WriterNext \/ WriterLeftover \/ WriterLastMark
    BY <1>1, <1>6 DEF WriterNext, WriterLeftover, WriterLastMark
<1> QED
    BY <1>3, <1>4, <1>5, <1>6 DEF Writer

\* Every step keeps the foreign key.
LEMMA ForeignKeyStep == TypeInv /\ ForeignKey /\ [Next]_vars => ForeignKey'
<1> SUFFICES ASSUME TypeInv, ForeignKey, [Next]_vars
             PROVE  ForeignKey'
    OBVIOUS
<1>1. CASE UNCHANGED db
    BY <1>1 DEF db, ForeignKey, Rows
<1>2. CASE UNCHANGED vars
    BY <1>1, <1>2 DEF vars, db
<1>3. ASSUME NEW t \in Thread, AddEvent(t)
      PROVE  ForeignKey'
    BY <1>1, <1>3 DEF AddEvent, AddRing, AddClear, AddPut
<1>4. ASSUME NEW E \in SUBSET dbEvents, Retention(E)
      PROVE  ForeignKey'
    BY <1>4 DEF Retention, ForeignKey, Rows
<1>5. ASSUME NEW f \in Flusher, Flush(f)
      PROVE  ForeignKey'
    BY <1>1, <1>5 DEF Flush, FlushCall, FlushCheckQueue, FlushCheckDrained,
                      FlushTimeout, flushRest
<1>6. CASE Shutdown
    BY <1>1, <1>6 DEF Shutdown, ShutdownSignal, ShutdownSentinel, ShutdownJoin, stopRest
<1>7. CASE Restart
    <2>1. \A c : Rehydrated(c) = Absent => c = Absent
        BY StoreAssumption DEF Rehydrated, Capture
    <2> QED
        BY <1>7, <2>1 DEF Restart, ForeignKey, Rows, TypeInv, TypeOK
<1> QED
    BY <1>2, <1>3, <1>4, <1>5, <1>6, <1>7, ForeignKeySessionOp, ForeignKeyWriter DEF Next

\* Every stored event's session has a row, whatever purges, cleanups, batches
\* in flight, failed statements and restarts interleave.
THEOREM ForeignKeyHolds == Spec => []ForeignKey
<1>1. Init => TypeInv /\ ForeignKey
    BY TypeInit DEF Init, ForeignKey
<1>2. TypeInv /\ ForeignKey /\ [Next]_vars => (TypeInv /\ ForeignKey)'
    BY TypeStep, ForeignKeyStep
<1> QED
    BY <1>1, <1>2, PTL DEF Spec

-----------------------------------------------------------------------------
(* Where the events are.  HeldOnce is not inductive: that a batch is empty *)
(* when the writer fetches the first event of the next one, and that an    *)
(* event about to be handed off is nowhere yet, come from DataInv.         *)

\* Between two rounds the writer holds nothing.
BatchPhase ==
    writer \notin {"collect", "flush", "leftover", "lastFlush"} => batch = <<>>

\* What a thread is adding has not been handed off, and is its own.
AddingNew ==
    /\ \A t \in Thread : adding[t] \notin Range(handoff)
    /\ \A t, u \in Thread : adding[t] = adding[u] /\ adding[t] # NoEvent => t = u

\* Everything in the batch, the queue and the table has been handed off, and
\* is in one of them, once.
Places ==
    /\ Range(batch) \subseteq Range(handoff)
    /\ Range(queue) \subseteq Range(handoff) \union {SHUTDOWN}
    /\ dbEvents \subseteq Range(handoff)
    /\ Range(batch) \intersect Range(queue) = {}
    /\ (Range(batch) \union Range(queue)) \intersect dbEvents = {}
    /\ Once(batch)
    /\ Once(queue)

DataInv == BatchPhase /\ AddingNew /\ Places

\* Before anything is handed off nothing is anywhere.
LEMMA DataInit == Init => DataInv
<1> SUFFICES ASSUME Init
             PROVE  DataInv
    OBVIOUS
<1>1. batch = <<>> /\ queue = <<>> /\ handoff = <<>> /\ dbEvents = {}
    BY Zenon DEF Init
<1>2. Range(batch) = {} /\ Range(queue) = {} /\ Range(handoff) = {}
    BY <1>1, EmptySequence
<1>3. Once(batch) /\ Once(queue)
    BY <1>1, EmptySequence
<1>4. \A t \in Thread : adding[t] = NoEvent
    BY DEF Init
<1> QED
    BY <1>1, <1>2, <1>3, <1>4 DEF DataInv, BatchPhase, AddingNew, Places

\* Deleting stored events keeps DataInv.
LEMMA DataDelete ==
    ASSUME DataInv, dbEvents' \subseteq dbEvents,
           UNCHANGED <<queue, batch, handoff, adding, writer>>
    PROVE  DataInv'
BY DEF DataInv, BatchPhase, AddingNew, Places, Once

\* add_event keeps DataInv.
LEMMA DataAddEvent ==
    ASSUME TypeInv, DataInv, NEW t \in Thread, AddEvent(t)
    PROVE  DataInv'
<1>1. ASSUME NEW e \in Event, AddRing(t, e)
      PROVE  DataInv'
    <2>1. /\ e \notin Range(handoff)
          /\ \A u \in Thread : adding[u] # e
          /\ adding' = [adding EXCEPT ![t] = e]
          /\ UNCHANGED <<queue, batch, handoff, dbEvents, writer>>
        BY <1>1, StoreAssumption
        DEF AddRing, Drawn, Range, writerVars, db, TypeInv, TypeOK
    <2>2. AddingNew'
        BY <2>1 DEF DataInv, AddingNew, TypeInv, TypeOK
    <2>3. BatchPhase' /\ Places'
        BY <2>1 DEF DataInv, BatchPhase, Places, Once
    <2> QED
        BY <2>2, <2>3 DEF DataInv
<1>2. CASE AddClear(t)
    BY <1>2, DataDelete DEF AddClear, writerVars, db
<1>3. CASE AddPut(t)
    <2> DEFINE e == adding[t]
    <2>1. /\ e \in Event /\ e # SHUTDOWN /\ e # NoEvent
          /\ queue' = Append(queue, e)
          /\ handoff' = Append(handoff, e)
          /\ adding' = [adding EXCEPT ![t] = NoEvent]
          /\ UNCHANGED <<batch, dbEvents, writer>>
        BY <1>3, StoreAssumption DEF AddPut, writerVars, db, TypeInv, TypeOK, AddingOK
    <2>2. Range(handoff') = Range(handoff) \union {e}
        BY <2>1, RangeAppend DEF TypeInv, TypeOK
    <2>3. Range(queue') = Range(queue) \union {e}
        <3>1. queue \in Seq(Event \union {SHUTDOWN}) /\ e \in Event \union {SHUTDOWN}
            BY <2>1 DEF TypeInv, TypeOK
        <3> QED
            BY <2>1, <3>1, RangeAppend
    <2>4. e \notin Range(handoff)
        BY DEF DataInv, AddingNew
    <2>5. Once(queue')
        BY <2>1, <2>4, OnceAppend DEF DataInv, Places, TypeInv, TypeOK
    <2>6. AddingNew'
        <3>1. NoEvent \notin Range(handoff')
            BY <2>1, <2>2, StoreAssumption DEF TypeInv, TypeOK, Range
        <3> QED
            BY <2>1, <2>2, <3>1 DEF DataInv, AddingNew, TypeInv, TypeOK
    <2>7. Places'
        BY <2>1, <2>2, <2>3, <2>4, <2>5 DEF DataInv, Places, Once
    <2>8. BatchPhase'
        BY <2>1 DEF DataInv, BatchPhase
    <2> QED
        BY <2>6, <2>7, <2>8 DEF DataInv
<1> QED
    BY <1>1, <1>2, <1>3 DEF AddEvent

\* Taking the head of the queue, into the batch if it is an event, keeps Places.
LEMMA DataTake ==
    ASSUME TypeInv, Places, queue # <<>>, queue' = Tail(queue),
           batch' = IF Head(queue) = SHUTDOWN THEN batch ELSE Append(batch, Head(queue)),
           UNCHANGED <<handoff, dbEvents>>
    PROVE  /\ Places'
           /\ Range(batch') \union (Range(queue') \ {SHUTDOWN})
                = Range(batch) \union (Range(queue) \ {SHUTDOWN})
<1>1. /\ Head(queue) \in Event \union {SHUTDOWN}
      /\ Range(queue) = {Head(queue)} \union Range(queue')
    BY RangeTail DEF TypeInv, TypeOK
<1>2. Once(queue') /\ (Head(queue) # SHUTDOWN => Head(queue) \notin Range(queue'))
    BY OnceTail DEF TypeInv, TypeOK, Places
<1>3. CASE Head(queue) = SHUTDOWN
    <2>1. batch' = batch /\ Once(batch')
        BY <1>3 DEF Places, Once
    <2> QED
        BY <1>1, <1>2, <1>3, <2>1 DEF Places
<1>4. CASE Head(queue) # SHUTDOWN
    <2>1. Head(queue) \in Event /\ Head(queue) \notin Range(batch)
        BY <1>1, <1>4 DEF Places
    <2>2. Range(batch') = Range(batch) \union {Head(queue)}
        BY <1>4, <2>1, RangeAppend DEF TypeInv, TypeOK
    <2>3. Once(batch')
        BY <1>4, <2>1, OnceAppend DEF Places, TypeInv, TypeOK
    <2> QED
        BY <1>1, <1>2, <1>4, <2>1, <2>2, <2>3 DEF Places
<1> QED
    BY <1>3, <1>4

\* The writer keeps DataInv.
LEMMA DataWriter == TypeInv /\ DataInv /\ Writer => DataInv'
<1> SUFFICES ASSUME TypeInv, DataInv, Writer
             PROVE  DataInv'
    OBVIOUS
<1> USE DEF writerRest
<1>1. ASSUME UNCHANGED batchRest
      PROVE  AddingNew' /\ UNCHANGED handoff
    BY <1>1 DEF DataInv, AddingNew, batchRest, adder
<1>2. CASE WriterGet
    <2>1. /\ batch = <<>> /\ writer' = "collect" /\ queue # <<>> /\ queue' = Tail(queue)
          /\ IF Head(queue) = SHUTDOWN THEN batch' = batch ELSE batch' = <<Head(queue)>>
          /\ UNCHANGED <<batchRest, dbEvents>>
        BY <1>2 DEF WriterGet, DataInv, BatchPhase, db
    <2>2. \A e : Append(<<>>, e) = <<e>>
        OBVIOUS
    <2>3. batch' = IF Head(queue) = SHUTDOWN THEN batch ELSE Append(batch, Head(queue))
        BY <2>1, <2>2
    <2> QED
        BY <1>1, <2>1, <2>3, DataTake DEF DataInv, BatchPhase
<1>3. CASE WriterCollect
    <2>1. /\ writer' \in {"collect", "flush"} /\ queue # <<>> /\ queue' = Tail(queue)
          /\ batch' = IF Head(queue) = SHUTDOWN THEN batch ELSE Append(batch, Head(queue))
          /\ UNCHANGED <<batchRest, dbEvents>>
        BY <1>3 DEF WriterCollect, db
    <2> QED
        BY <1>1, <2>1, DataTake DEF DataInv, BatchPhase
<1>4. CASE WriterLeftover
    <2>1. CASE queue = <<>>
        BY <1>1, <1>4, <2>1 DEF WriterLeftover, DataInv, BatchPhase, Places, Once, db
    <2>2. CASE queue # <<>>
        <3>1. /\ writer' = "leftover" /\ queue' = Tail(queue)
              /\ batch' = IF Head(queue) = SHUTDOWN THEN batch ELSE Append(batch, Head(queue))
              /\ UNCHANGED <<batchRest, dbEvents>>
            BY <1>4, <2>2 DEF WriterLeftover, db
        <3> QED
            BY <1>1, <2>2, <3>1, DataTake DEF DataInv, BatchPhase
    <2> QED
        BY <2>1, <2>2
<1>5. CASE WriterFlush \/ WriterLastFlush
    <2>1. /\ batch' = <<>> /\ UNCHANGED <<batchRest, queue>>
          /\ dbEvents' = dbEvents \/ dbEvents' = dbEvents \union Range(batch)
        <3>1. FlushBatch /\ UNCHANGED <<batchRest, queue>>
            BY <1>5 DEF WriterFlush, WriterLastFlush
        <3>2. CASE UNCHANGED db
            BY <3>1, <3>2 DEF FlushBatch, db
        <3>3. CASE dbEvents' = dbEvents \union Range(batch)
            BY <3>1, <3>3 DEF FlushBatch
        <3> QED
            BY <3>1, <3>2, <3>3, Zenon DEF FlushBatch, Locked
    <2>2. Range(batch') = {} /\ Once(batch')
        BY <2>1, EmptySequence
    <2>3. Once(queue')
        BY <2>1 DEF DataInv, Places, Once
    <2>4. Range(queue') = Range(queue) /\ UNCHANGED handoff
        BY <1>1, <2>1
    <2>5. Places'
        BY <2>1, <2>2, <2>3, <2>4 DEF DataInv, Places
    <2> QED
        BY <1>1, <2>1, <2>5 DEF DataInv, BatchPhase
<1>6. ASSUME UNCHANGED <<batchRest, queue, batch, db>>, BatchPhase'
      PROVE  DataInv'
    BY <1>1, <1>6 DEF DataInv, Places, Once, db
<1>7. CASE WriterEmpty \/ WriterEmptyCheck \/ WriterIdle \/ WriterCollectEnd
    BY <1>6, <1>7 DEF WriterEmpty, WriterEmptyCheck, WriterIdle, WriterCollectEnd,
                      DataInv, BatchPhase
<1>8. CASE WriterCheck \/ WriterMark \/ WriterNext \/ WriterLastMark
    BY <1>6, <1>8 DEF WriterCheck, WriterMark, WriterNext, WriterLastMark,
                      DataInv, BatchPhase
<1> QED
    BY <1>2, <1>3, <1>4, <1>5, <1>7, <1>8 DEF Writer

\* Every step keeps DataInv.
LEMMA DataStep == TypeInv /\ DataInv /\ [Next]_vars => DataInv'
<1> SUFFICES ASSUME TypeInv, DataInv, [Next]_vars
             PROVE  DataInv'
    OBVIOUS
<1>1. CASE UNCHANGED vars
    BY <1>1, DataDelete DEF vars
<1>2. CASE SessionOp
    <2>1. ASSUME NEW S, Forget(S)
          PROVE  DataInv'
        BY <2>1, DataDelete DEF Forget, DeleteRows, Locked, adder, writerVars, db
    <2>2. ASSUME NEW s \in Session, NEW c, Create(s, c) \/ MarkStatus(s, c)
          PROVE  DataInv'
        BY <2>2, DataDelete DEF Create, MarkStatus, Locked, adder, writerVars, db
    <2> QED
        BY <1>2, <2>1, <2>2 DEF SessionOp, PurgeSession, PurgeInactive
<1>3. ASSUME NEW E \in SUBSET dbEvents, Retention(E)
      PROVE  DataInv'
    BY <1>3, DataDelete DEF Retention, adder, writerVars
<1>4. ASSUME NEW f \in Flusher, Flush(f)
      PROVE  DataInv'
    BY <1>4, DataDelete DEF Flush, FlushCall, FlushCheckQueue, FlushCheckDrained,
                            FlushTimeout, flushRest, adder, writerVars, db
<1>5. CASE ShutdownSignal \/ ShutdownJoin
    BY <1>5, DataDelete DEF ShutdownSignal, ShutdownJoin, stopRest, adder, writerVars, db
<1>6. CASE ShutdownSentinel
    <2>1. queue' = Append(queue, SHUTDOWN)
            /\ UNCHANGED <<batch, handoff, adding, writer, dbEvents>>
        BY <1>6 DEF ShutdownSentinel, stopRest, adder, writerVars, db
    <2>2. queue \in Seq(Event \union {SHUTDOWN}) /\ SHUTDOWN \in Event \union {SHUTDOWN}
        BY DEF TypeInv, TypeOK
    <2>3. Range(queue') = Range(queue) \union {SHUTDOWN}
        BY <2>1, <2>2, RangeAppend
    <2>4. Once(queue')
        BY <2>1, <2>2, OnceAppend DEF DataInv, Places
    <2>5. SHUTDOWN \notin Range(batch) \union dbEvents
        BY StoreAssumption DEF TypeInv, TypeOK, Range
    <2>6. Places'
        BY <2>1, <2>3, <2>4, <2>5 DEF DataInv, Places, Once
    <2> QED
        BY <2>1, <2>6 DEF DataInv, BatchPhase, AddingNew
<1>7. CASE Restart
    <2>1. batch' = <<>> /\ queue' = <<>> /\ handoff' = handoff /\ dbEvents' = dbEvents
        BY <1>7, Zenon DEF Restart
    <2>2. \A t \in Thread : adding'[t] = NoEvent
        BY <1>7 DEF Restart
    <2>3. NoEvent \notin Range(handoff)
        BY StoreAssumption DEF TypeInv, TypeOK, Range
    <2>4. AddingNew'
        BY <2>1, <2>2, <2>3 DEF AddingNew
    <2>5. Places' /\ BatchPhase'
        BY <2>1, EmptySequence DEF DataInv, Places, BatchPhase
    <2> QED
        BY <2>4, <2>5 DEF DataInv
<1> QED
    BY <1>1, <1>2, <1>3, <1>4, <1>5, <1>6, <1>7, DataAddEvent, DataWriter DEF Next, Shutdown

\* An event is in the batch, in the queue or in the table, in one of them
\* only and only once.
THEOREM HeldOnceHolds == Spec => []HeldOnce
<1>1. TypeInv /\ DataInv => HeldOnce
    <2> SUFFICES ASSUME TypeInv, DataInv
                 PROVE  HeldOnce
        OBVIOUS
    <2>1. Held \intersect dbEvents = {}
        BY DEF Held, DataInv, Places
    <2> DEFINE all == batch \o queue
               n == Len(batch)
               m == Len(queue)
    <2>2. /\ n \in Nat /\ m \in Nat
          /\ DOMAIN batch = 1..n /\ DOMAIN queue = 1..m /\ DOMAIN all = 1..(n + m)
          /\ \A i \in 1..n : all[i] = batch[i]
          /\ \A i \in (n + 1)..(n + m) : all[i] = queue[i - n] /\ i - n \in 1..m
        BY DEF TypeInv, TypeOK
    <2>3. \A i \in 1..n, k \in 1..m : batch[i] # queue[k]
        BY <2>2 DEF DataInv, Places, Range
    <2>4. ASSUME NEW i \in DOMAIN all, NEW j \in DOMAIN all,
                 all[i] = all[j], all[i] # SHUTDOWN
          PROVE  i = j
        <3>1. CASE i \in 1..n /\ j \in 1..n
            BY <2>2, <2>4, <3>1 DEF DataInv, Places, Once
        <3>2. CASE i \notin 1..n /\ j \notin 1..n
            <4>1. i \in (n + 1)..(n + m) /\ j \in (n + 1)..(n + m)
                BY <2>2, <3>2
            <4>2. i - n = j - n
                BY <2>2, <2>4, <4>1 DEF DataInv, Places, Once
            <4> QED
                BY <2>2, <4>1, <4>2
        <3>3. CASE i \in 1..n <=> j \notin 1..n
            BY <2>2, <2>3, <2>4, <3>3
        <3> QED
            BY <3>1, <3>2, <3>3
    <2> QED
        BY <2>1, <2>4 DEF HeldOnce
<1>2. Init => TypeInv /\ DataInv
    BY TypeInit, DataInit
<1>3. TypeInv /\ DataInv /\ [Next]_vars => (TypeInv /\ DataInv)'
    BY TypeStep, DataStep
<1> QED
    BY <1>1, <1>2, <1>3, PTL DEF Spec

-----------------------------------------------------------------------------
(* The refinement of EventLog.                                             *)

RefInv == TypeInv /\ ForeignKey /\ DataInv

\* Session operations admit and remove rows, or change nothing that is stored.
LEMMA RefineSessionOp ==
    ASSUME RefInv, SessionOp
    PROVE  Log!Next \/ UNCHANGED Log!logVars
<1> USE DEF RefInv, Log!logVars
<1>1. ASSUME UNCHANGED <<handoff, batch, queue, db>>
      PROVE  UNCHANGED Log!logVars
    BY <1>1 DEF Held, Rows, db
<1>2. /\ dbSessions \in [Session -> Capture \union {Absent}] /\ Absent \notin Capture
      /\ dbEvents \subseteq Event /\ SidOf \in [Event -> Session]
    BY StoreAssumption DEF TypeInv, TypeOK
<1>3. ASSUME NEW s \in Session, NEW c \in Births, Create(s, c)
      PROVE  Log!Next \/ UNCHANGED Log!logVars
    <2>1. c # Absent
        BY StoreAssumption DEF Capture, Active
    <2>2. CASE dbSessions' = [dbSessions EXCEPT ![s] = c] /\ UNCHANGED dbEvents
        <3>1. Rows' = Rows \union {s}
            BY <1>2, <2>1, <2>2 DEF Rows
        <3>2. UNCHANGED <<handoff, batch, queue>>
            BY <1>3 DEF Create, writerVars
        <3>3. Log!Admit(s)
            BY <2>2, <3>1, <3>2 DEF Log!Admit, Held
        <3> QED
            BY <3>3 DEF Log!Next
    <2> QED
        BY <1>1, <1>3, <2>2 DEF Create, Locked, writerVars
<1>4. ASSUME NEW s \in Session, NEW c \in Marks, MarkStatus(s, c)
      PROVE  UNCHANGED Log!logVars
    <2>1. c # Absent
        BY StoreAssumption
    <2>2. Rows' = Rows /\ UNCHANGED dbEvents
        BY <1>2, <1>4, <2>1 DEF MarkStatus, Locked, db, Rows
    <2>3. UNCHANGED <<handoff, batch, queue>>
        BY <1>4 DEF MarkStatus, writerVars
    <2> QED
        BY <2>2, <2>3 DEF Held
<1>5. ASSUME NEW S \in SUBSET Session, Forget(S)
      PROVE  Log!Next \/ UNCHANGED Log!logVars
    <2>1. UNCHANGED <<handoff, batch, queue>>
        BY <1>5 DEF Forget, writerVars
    <2>2. CASE DeleteRows(S)
        <3>1. Rows' = Rows \ S
            BY <1>2, <2>2 DEF DeleteRows, Rows
        <3>2. dbEvents' = {e \in dbEvents : SidOf[e] \notin S \intersect Rows}
            BY <2>2 DEF DeleteRows, ForeignKey
        <3>3. Log!Remove(S \intersect Rows)
            BY <2>1, <3>1, <3>2 DEF Log!Remove, Held
        <3> QED
            BY <3>3 DEF Log!Next
    <2> QED
        BY <1>1, <1>5, <2>1, <2>2 DEF Forget, Locked
<1>6. ASSUME NEW s \in Session, PurgeSession(s)
      PROVE  Log!Next \/ UNCHANGED Log!logVars
    BY <1>5, <1>6 DEF PurgeSession
<1>7. ASSUME PurgeInactive
      PROVE  Log!Next \/ UNCHANGED Log!logVars
    BY <1>5, <1>7 DEF PurgeInactive
<1> QED
    BY <1>3, <1>4, <1>6, <1>7 DEF SessionOp

\* Of the writer's steps the flushes store or discard what the batch holds;
\* the others only move events between the queue and the batch.
LEMMA RefineWriter ==
    ASSUME RefInv, Writer
    PROVE  Log!Next \/ UNCHANGED Log!logVars
<1> USE DEF RefInv, Log!logVars
<1>1. ASSUME UNCHANGED <<writerRest, db>>, Held' = Held
      PROVE  UNCHANGED Log!logVars
    BY <1>1 DEF Rows, db, writerRest, batchRest
<1>2. ASSUME queue # <<>>, queue' = Tail(queue),
             batch' = IF Head(queue) = SHUTDOWN THEN batch ELSE Append(batch, Head(queue)),
             UNCHANGED <<writerRest, db>>
      PROVE  Held' = Held
    BY <1>2, DataTake DEF DataInv, Held, writerRest, batchRest, db
<1>3. CASE WriterGet
    <2>1. batch = <<>> /\ \A e : Append(<<>>, e) = <<e>>
        BY <1>3 DEF WriterGet, DataInv, BatchPhase
    <2>2. batch' = IF Head(queue) = SHUTDOWN THEN batch ELSE Append(batch, Head(queue))
        BY <1>3, <2>1 DEF WriterGet
    <2> QED
        BY <1>1, <1>2, <1>3, <2>2 DEF WriterGet
<1>4. CASE WriterCollect
    <2>1. batch' = IF Head(queue) = SHUTDOWN THEN batch ELSE Append(batch, Head(queue))
        BY <1>4 DEF WriterCollect
    <2> QED
        BY <1>1, <1>2, <1>4, <2>1 DEF WriterCollect
<1>5. CASE WriterLeftover
    <2>1. CASE queue = <<>>
        BY <1>1, <1>5, <2>1 DEF WriterLeftover, Held
    <2>2. CASE queue # <<>>
        BY <1>1, <1>2, <1>5, <2>2 DEF WriterLeftover
    <2> QED
        BY <2>1, <2>2
<1>6. CASE WriterFlush \/ WriterLastFlush
    <2> DEFINE B == Range(batch)
    <2>1. FlushBatch /\ UNCHANGED <<queue, handoff>>
        BY <1>6 DEF WriterFlush, WriterLastFlush, writerRest, batchRest
    <2>2. batch' = <<>>
        BY <2>1 DEF FlushBatch
    <2>3. Held' = Held \ B
        <3>1. Range(batch') = {}
            BY <2>2, EmptySequence
        <3> QED
            BY <2>1, <3>1 DEF Held, DataInv, Places
    <2>4. B \in SUBSET Held
        <3>1. SHUTDOWN \notin B
            BY StoreAssumption DEF TypeInv, TypeOK, Range
        <3> QED
            BY <3>1 DEF Held
    <2>5. CASE B = {}
        <3>1. UNCHANGED db
            BY <2>1, <2>5, Zenon DEF FlushBatch, Locked, db
        <3> QED
            BY <2>1, <2>3, <2>5, <3>1 DEF Rows, db
    <2>6. CASE B # {} /\ (\A e \in B : SidOf[e] \in Rows) /\ dbEvents' = dbEvents \union B
                 /\ UNCHANGED dbSessions
        <3>1. Log!Store(B)
            BY <2>1, <2>3, <2>6 DEF Log!Store, Rows
        <3> QED
            BY <2>4, <3>1 DEF Log!Next
    <2>7. CASE B # {} /\ (LockTimeouts \/ \E e \in B : SidOf[e] \notin Rows) /\ UNCHANGED db
        <3>1. Log!Discard(B)
            BY <2>1, <2>3, <2>7, Zenon DEF Log!Discard, Rows, db
        <3> QED
            BY <2>4, <3>1 DEF Log!Next
    <2> QED
        BY <2>1, <2>5, <2>6, <2>7, Zenon DEF FlushBatch, Locked
<1>7. CASE WriterEmpty \/ WriterEmptyCheck \/ WriterIdle \/ WriterCollectEnd
    BY <1>1, <1>7 DEF WriterEmpty, WriterEmptyCheck, WriterIdle, WriterCollectEnd, Held
<1>8. CASE WriterCheck \/ WriterMark \/ WriterNext \/ WriterLastMark
    BY <1>1, <1>8 DEF WriterCheck, WriterMark, WriterNext, WriterLastMark, Held
<1> QED
    BY <1>3, <1>4, <1>5, <1>6, <1>7, <1>8 DEF Writer

\* Every step of the store is a step of the log or none.
LEMMA RefineStep == RefInv /\ [Next]_vars => [Log!Next]_Log!logVars
<1> SUFFICES ASSUME RefInv, [Next]_vars
             PROVE  Log!Next \/ UNCHANGED Log!logVars
    OBVIOUS
<1> USE DEF RefInv, Log!logVars
<1>1. ASSUME UNCHANGED <<handoff, batch, queue, db>>
      PROVE  UNCHANGED Log!logVars
    BY <1>1 DEF Held, Rows, db
<1>2. CASE UNCHANGED vars
    BY <1>1, <1>2 DEF vars, db
<1>3. ASSUME NEW t \in Thread, AddPut(t)
      PROVE  Log!Next
    <2> DEFINE e == adding[t]
    <2>1. /\ e \in Event /\ e # SHUTDOWN /\ e \notin Range(handoff)
          /\ queue' = Append(queue, e)
          /\ handoff' = Append(handoff, e)
          /\ UNCHANGED <<batch, db>>
        BY <1>3, StoreAssumption
        DEF AddPut, writerVars, TypeInv, TypeOK, AddingOK, DataInv, AddingNew
    <2>2. /\ queue \in Seq(Event \union {SHUTDOWN}) /\ e \in Event \union {SHUTDOWN}
          /\ handoff \in Seq(Event)
        BY <2>1 DEF TypeInv, TypeOK
    <2>3. Range(queue') = Range(queue) \union {e}
        BY <2>1, <2>2, RangeAppend
    <2>4. Range(handoff') = Range(handoff) \union {e}
        BY <2>1, <2>2, RangeAppend
    <2>5. Log!Accept(e)
        BY <2>1, <2>3, <2>4 DEF Log!Accept, Held, Rows, db
    <2> QED
        BY <2>1, <2>5 DEF Log!Next
<1>4. ASSUME NEW t \in Thread, AddEvent(t)
      PROVE  Log!Next \/ UNCHANGED Log!logVars
    BY <1>1, <1>3, <1>4 DEF AddEvent, AddRing, AddClear, writerVars
<1>5. ASSUME NEW E \in SUBSET dbEvents, Retention(E)
      PROVE  Log!Next
    <2>1. Log!Expire(E)
        BY <1>5 DEF Retention, Log!Expire, Held, Rows, writerVars
    <2> QED
        BY <2>1 DEF Log!Next
<1>6. ASSUME NEW f \in Flusher, Flush(f)
      PROVE  UNCHANGED Log!logVars
    BY <1>1, <1>6 DEF Flush, FlushCall, FlushCheckQueue, FlushCheckDrained,
                      FlushTimeout, flushRest, writerVars
<1>7. CASE ShutdownSignal \/ ShutdownJoin
    BY <1>1, <1>7 DEF ShutdownSignal, ShutdownJoin, stopRest, writerVars
<1>8. CASE ShutdownSentinel
    <2>1. queue' = Append(queue, SHUTDOWN) /\ UNCHANGED <<batch, handoff, db>>
        BY <1>8 DEF ShutdownSentinel, stopRest, writerVars
    <2>2. queue \in Seq(Event \union {SHUTDOWN}) /\ SHUTDOWN \in Event \union {SHUTDOWN}
        BY DEF TypeInv, TypeOK
    <2>3. Range(queue') = Range(queue) \union {SHUTDOWN}
        BY <2>1, <2>2, RangeAppend
    <2> QED
        BY <2>1, <2>3 DEF Held, Rows, db
<1>9. CASE Restart
    <2>1. batch' = <<>> /\ queue' = <<>> /\ UNCHANGED <<handoff, dbEvents>>
        BY <1>9, Zenon DEF Restart
    <2>2. Held' = {}
        BY <2>1, EmptySequence DEF Held
    <2>3. \A c : Rehydrated(c) = Absent <=> c = Absent
        BY StoreAssumption DEF Rehydrated, Capture, Active
    <2>4. Rows' = Rows
        BY <1>9, <2>3 DEF Restart, Rows
    <2>5. Log!Crash
        BY <2>1, <2>2, <2>4 DEF Log!Crash
    <2> QED
        BY <2>5 DEF Log!Next
<1> QED
    BY <1>2, <1>4, <1>5, <1>6, <1>7, <1>8, <1>9, RefineSessionOp, RefineWriter
    DEF Next, Shutdown

\* The data path implements the event log: group by group, what was handed
\* off is stored under existing sessions or given up, and only purges and
\* retention take back what is stored.
THEOREM ImplementsEventLog == Spec => LogSpec
<1>1. Init => Log!Init
    <2> SUFFICES ASSUME Init
                 PROVE  Log!Init
        OBVIOUS
    <2>1. batch = <<>> /\ queue = <<>> /\ handoff = <<>> /\ dbEvents = {}
        BY Zenon DEF Init
    <2>2. Rows = {}
        BY DEF Init, Rows
    <2> QED
        BY <2>1, <2>2, EmptySequence DEF Log!Init, Held
<1>2. Init => RefInv
    BY TypeInit, DataInit DEF RefInv, Init, ForeignKey
<1>3. RefInv /\ [Next]_vars => RefInv'
    BY TypeStep, ForeignKeyStep, DataStep DEF RefInv
<1> QED
    BY <1>1, <1>2, <1>3, RefineStep, PTL DEF Spec, LogSpec, Log!Spec

-----------------------------------------------------------------------------
(* The order of the events.  Six moves are all that happens to the queue,  *)
(* the batch and the table.                                                *)

Stay == UNCHANGED <<queue, batch, handoff>> /\ dbEvents' \subseteq dbEvents

HandOff(e) ==
    /\ e \in Event \ Range(handoff)
    /\ queue' = Append(queue, e)
    /\ handoff' = Append(handoff, e)
    /\ UNCHANGED <<batch, dbEvents>>

Signal == queue' = Append(queue, SHUTDOWN) /\ UNCHANGED <<batch, handoff, dbEvents>>

Take ==
    /\ queue # <<>>
    /\ queue' = Tail(queue)
    /\ batch' = IF Head(queue) = SHUTDOWN THEN batch ELSE Append(batch, Head(queue))
    /\ UNCHANGED <<handoff, dbEvents>>

Decide ==
    /\ batch' = <<>>
    /\ dbEvents' \in {dbEvents, dbEvents \union Range(batch)}
    /\ UNCHANGED <<queue, handoff>>

Drop == queue' = <<>> /\ batch' = <<>> /\ UNCHANGED <<handoff, dbEvents>>

Move == Stay \/ (\E e \in Event : HandOff(e)) \/ Signal \/ Take \/ Decide \/ Drop

\* The writer takes, decides, or leaves the events alone.
LEMMA WriterMoves == DataInv /\ Writer => Take \/ Decide \/ Stay
<1> SUFFICES ASSUME DataInv, Writer
             PROVE  Take \/ Decide \/ Stay
    OBVIOUS
<1>1. CASE WriterGet
    <2>1. batch = <<>> /\ \A e : Append(<<>>, e) = <<e>>
        BY <1>1 DEF WriterGet, DataInv, BatchPhase
    <2> QED
        BY <1>1, <2>1 DEF WriterGet, Take, writerRest, batchRest, db
<1>2. CASE WriterCollect
    BY <1>2 DEF WriterCollect, Take, writerRest, batchRest, db
<1>3. CASE WriterLeftover
    BY <1>3 DEF WriterLeftover, Take, Stay, writerRest, batchRest, db
<1>4. CASE WriterFlush \/ WriterLastFlush
    <2>1. FlushBatch /\ UNCHANGED <<queue, handoff>>
        BY <1>4 DEF WriterFlush, WriterLastFlush, writerRest, batchRest
    <2>2. dbEvents' \in {dbEvents, dbEvents \union Range(batch)}
        BY <2>1, Zenon DEF FlushBatch, Locked, db
    <2> QED
        BY <2>1, <2>2 DEF FlushBatch, Decide
<1>5. CASE WriterEmpty \/ WriterEmptyCheck \/ WriterIdle \/ WriterCollectEnd
    BY <1>5 DEF WriterEmpty, WriterEmptyCheck, WriterIdle, WriterCollectEnd, Stay,
                writerRest, batchRest, db
<1>6. CASE WriterCheck \/ WriterMark \/ WriterNext \/ WriterLastMark
    BY <1>6 DEF WriterCheck, WriterMark, WriterNext, WriterLastMark, Stay, writerRest, batchRest,
                db
<1> QED
    BY <1>1, <1>2, <1>3, <1>4, <1>5, <1>6 DEF Writer

\* Every step is one of the moves.
LEMMA Moves == TypeInv /\ DataInv /\ [Next]_vars => Move
<1> SUFFICES ASSUME TypeInv, DataInv, [Next]_vars
             PROVE  Move
    OBVIOUS
<1> USE DEF Move
<1>1. CASE UNCHANGED vars
    BY <1>1 DEF vars, Stay
<1>2. CASE SessionOp
    <2>1. ASSUME NEW S, Forget(S)
          PROVE  Stay
        BY <2>1 DEF Forget, DeleteRows, Locked, writerVars, db, Stay
    <2>2. ASSUME NEW s \in Session, NEW c, Create(s, c) \/ MarkStatus(s, c)
          PROVE  Stay
        BY <2>2 DEF Create, MarkStatus, Locked, writerVars, db, Stay
    <2> QED
        BY <1>2, <2>1, <2>2 DEF SessionOp, PurgeSession, PurgeInactive
<1>3. ASSUME NEW t \in Thread, AddEvent(t)
      PROVE  Move
    <2>1. CASE AddPut(t)
        <3>1. adding[t] \in Event \ Range(handoff)
            BY <2>1 DEF AddPut, TypeInv, TypeOK, AddingOK, DataInv, AddingNew
        <3>2. HandOff(adding[t])
            BY <2>1, <3>1 DEF AddPut, HandOff, writerVars, db
        <3> QED
            BY <3>1, <3>2
    <2> QED
        BY <1>3, <2>1 DEF AddEvent, AddRing, AddClear, writerVars, db, Stay
<1>4. ASSUME NEW E \in SUBSET dbEvents, Retention(E)
      PROVE  Stay
    BY <1>4 DEF Retention, writerVars, Stay
<1>5. ASSUME NEW f \in Flusher, Flush(f)
      PROVE  Stay
    BY <1>5 DEF Flush, FlushCall, FlushCheckQueue, FlushCheckDrained, FlushTimeout,
                flushRest, writerVars, db, Stay
<1>6. CASE Shutdown
    BY <1>6 DEF Shutdown, ShutdownSignal, ShutdownJoin, ShutdownSentinel, stopRest,
                writerVars, db, Stay, Signal
<1>7. CASE Restart
    BY <1>7, Zenon DEF Restart, Drop
<1> QED
    BY <1>1, <1>2, <1>3, <1>4, <1>5, <1>6, <1>7, WriterMoves DEF Next

\* Queue positions follow the order of the hand-off.
QueueInOrder ==
    \A k, l \in DOMAIN queue, i, j \in DOMAIN handoff :
        queue[k] = handoff[i] /\ queue[l] = handoff[j] /\ k < l => i < j

\* What is still queued was handed off after what is in the batch.
BatchFirst ==
    \A i, j \in DOMAIN handoff :
        i < j /\ handoff[j] \in Range(batch) => handoff[i] \notin Range(queue)

OrderInv == QueueInOrder /\ BatchFirst /\ StoredInOrder

\* The lengths and elements that the proofs below compute with.
LEMMA AppendAt ==
    ASSUME NEW S, NEW q \in Seq(S), NEW e
    PROVE  /\ Len(q) \in Nat
           /\ DOMAIN q = 1..Len(q)
           /\ DOMAIN Append(q, e) = 1..(Len(q) + 1)
           /\ \A i \in 1..Len(q) : Append(q, e)[i] = q[i]
           /\ Append(q, e)[Len(q) + 1] = e
OBVIOUS

\* An event that is handed off is last in the queue and last of the history.
LEMMA OrderHandOff ==
    ASSUME TypeInv, DataInv, OrderInv, NEW e \in Event, HandOff(e)
    PROVE  OrderInv'
<1> DEFINE n == Len(handoff)
           m == Len(queue)
<1>1. queue \in Seq(Event \union {SHUTDOWN}) /\ handoff \in Seq(Event)
    BY DEF TypeInv, TypeOK
<1>2. /\ n \in Nat /\ DOMAIN handoff = 1..n /\ DOMAIN handoff' = 1..(n + 1)
      /\ \A i \in 1..n : handoff'[i] = handoff[i]
      /\ handoff'[n + 1] = e
    BY <1>1, AppendAt DEF HandOff
<1>3. /\ m \in Nat /\ DOMAIN queue = 1..m /\ DOMAIN queue' = 1..(m + 1)
      /\ \A k \in 1..m : queue'[k] = queue[k]
      /\ queue'[m + 1] = e
    BY <1>1, AppendAt DEF HandOff
<1>4. e \notin Range(handoff) /\ e # SHUTDOWN
    BY StoreAssumption DEF HandOff
<1>5. e \notin Range(queue) /\ e \notin Range(batch) /\ e \notin dbEvents
    BY <1>4 DEF DataInv, Places
<1>6. Range(queue') = Range(queue) \union {e}
    BY <1>1, RangeAppend DEF HandOff
<1>7. UNCHANGED <<batch, dbEvents>>
    BY DEF HandOff
<1> HIDE DEF n, m
<1>8. QueueInOrder'
    <2> SUFFICES ASSUME NEW k \in 1..(m + 1), NEW l \in 1..(m + 1),
                        NEW i \in 1..(n + 1), NEW j \in 1..(n + 1),
                        queue'[k] = handoff'[i], queue'[l] = handoff'[j], k < l
                 PROVE  i < j
        BY <1>2, <1>3 DEF QueueInOrder
    <2>1. k \in 1..m
        BY <1>3
    <2>2. i \in 1..n
        <3>1. queue'[k] # e
            BY <1>3, <1>5, <2>1 DEF Range
        <3> QED
            BY <1>2, <3>1
    <2>3. CASE j = n + 1
        BY <1>2, <2>2, <2>3
    <2>4. CASE j # n + 1
        <3>1. j \in 1..n /\ handoff'[j] = handoff[j]
            BY <1>2, <2>4
        <3>2. queue'[l] # e
            BY <1>2, <1>4, <3>1 DEF Range
        <3>3. l \in 1..m
            BY <1>3, <3>2
        <3> QED
            BY <1>2, <1>3, <2>1, <2>2, <3>1, <3>3 DEF OrderInv, QueueInOrder
    <2> QED
        BY <2>3, <2>4
<1>9. BatchFirst'
    <2> SUFFICES ASSUME NEW i \in 1..(n + 1), NEW j \in 1..(n + 1), i < j,
                        handoff'[j] \in Range(batch)
                 PROVE  handoff'[i] \notin Range(queue')
        BY <1>2, <1>7 DEF BatchFirst
    <2>1. i \in 1..n /\ j \in 1..n
        BY <1>2, <1>5
    <2>2. handoff[i] \notin Range(queue) /\ handoff[i] # e
        BY <1>2, <1>4, <2>1 DEF OrderInv, BatchFirst, Range
    <2> QED
        BY <1>2, <1>6, <2>1, <2>2
<1>10. StoredInOrder'
    <2> SUFFICES ASSUME NEW i \in 1..(n + 1), NEW j \in 1..(n + 1), i < j,
                        handoff'[j] \in dbEvents
                 PROVE  handoff'[i] \notin Held'
        BY <1>2, <1>7 DEF StoredInOrder
    <2>1. i \in 1..n /\ j \in 1..n
        BY <1>2, <1>5
    <2>2. handoff[i] \notin Held /\ handoff[i] # e
        BY <1>2, <1>4, <2>1 DEF OrderInv, StoredInOrder, Range
    <2> QED
        BY <1>2, <1>6, <1>7, <2>1, <2>2 DEF Held
<1> QED
    BY <1>8, <1>9, <1>10 DEF OrderInv

\* The head of the queue was handed off before the rest of it.
LEMMA OrderTake ==
    ASSUME TypeInv, DataInv, OrderInv, Take
    PROVE  OrderInv'
<1> DEFINE m == Len(queue)
<1>1. /\ m \in Nat \ {0} /\ DOMAIN queue = 1..m /\ DOMAIN queue' = 1..(m - 1)
      /\ Head(queue) = queue[1]
      /\ \A k \in 1..(m - 1) : queue'[k] = queue[k + 1]
    BY DEF Take, TypeInv, TypeOK
<1>2. handoff' = handoff /\ dbEvents' = dbEvents /\ DOMAIN handoff \subseteq Int
    BY DEF Take, TypeInv, TypeOK
<1>3. Held' = Held
    BY DataTake DEF Take, DataInv, Held
<1>4. Range(queue') \subseteq Range(queue) /\ Range(batch') \subseteq Range(batch) \union {Head(queue)}
    <2>1. Range(queue) = {Head(queue)} \union Range(queue')
        BY RangeTail DEF Take, TypeInv, TypeOK
    <2>2. CASE Head(queue) = SHUTDOWN
        BY <2>1, <2>2 DEF Take
    <2>3. CASE Head(queue) # SHUTDOWN
        <3>1. Head(queue) \in Event
            BY <2>3, RangeTail DEF Take, TypeInv, TypeOK
        <3> QED
            BY <2>1, <2>3, <3>1, RangeAppend DEF Take, TypeInv, TypeOK
    <2> QED
        BY <2>2, <2>3
<1> HIDE DEF m
<1>5. QueueInOrder'
    <2> SUFFICES ASSUME NEW k \in 1..(m - 1), NEW l \in 1..(m - 1),
                        NEW i \in DOMAIN handoff, NEW j \in DOMAIN handoff,
                        queue'[k] = handoff[i], queue'[l] = handoff[j], k < l
                 PROVE  i < j
        BY <1>1, <1>2 DEF QueueInOrder
    <2>1. k + 1 \in 1..m /\ l + 1 \in 1..m /\ k + 1 < l + 1
        BY <1>1
    <2> QED
        BY <1>1, <2>1 DEF OrderInv, QueueInOrder
<1>6. BatchFirst'
    <2> SUFFICES ASSUME NEW i \in DOMAIN handoff, NEW j \in DOMAIN handoff, i < j,
                        handoff[j] \in Range(batch'), handoff[i] \in Range(queue')
                 PROVE  FALSE
        BY <1>2 DEF BatchFirst
    <2>1. handoff[j] = Head(queue)
        BY <1>4 DEF OrderInv, BatchFirst
    <2>2. PICK k \in 1..(m - 1) : queue'[k] = handoff[i]
        BY <1>1 DEF Range
    <2>3. 1 \in 1..m /\ k + 1 \in 1..m /\ 1 < k + 1
        BY <1>1
    <2>4. j < i
        BY <1>1, <2>1, <2>2, <2>3 DEF OrderInv, QueueInOrder
    <2> QED
        BY <1>2, <2>4
<1>7. StoredInOrder'
    BY <1>2, <1>3 DEF OrderInv, StoredInOrder
<1> QED
    BY <1>5, <1>6, <1>7 DEF OrderInv

\* The other moves take events away, or add a sentinel.
LEMMA OrderOther ==
    ASSUME TypeInv, DataInv, OrderInv, Stay \/ Signal \/ Decide \/ Drop
    PROVE  OrderInv'
<1>1. CASE Stay
    BY <1>1 DEF Stay, OrderInv, QueueInOrder, BatchFirst, StoredInOrder, Held
<1>2. CASE Signal
    <2> DEFINE m == Len(queue)
    <2>1. queue \in Seq(Event \union {SHUTDOWN}) /\ SHUTDOWN \in Event \union {SHUTDOWN}
        BY DEF TypeInv, TypeOK
    <2>2. /\ m \in Nat /\ DOMAIN queue = 1..m /\ DOMAIN queue' = 1..(m + 1)
          /\ \A k \in 1..m : queue'[k] = queue[k]
          /\ queue'[m + 1] = SHUTDOWN
        BY <1>2, <2>1, AppendAt DEF Signal
    <2>3. Range(queue') = Range(queue) \union {SHUTDOWN}
        BY <1>2, <2>1, RangeAppend DEF Signal
    <2>4. \A i \in DOMAIN handoff : handoff[i] # SHUTDOWN
        BY StoreAssumption DEF TypeInv, TypeOK
    <2>5. UNCHANGED <<batch, handoff, dbEvents>>
        BY <1>2 DEF Signal
    <2> HIDE DEF m
    <2>6. QueueInOrder'
        <3> SUFFICES ASSUME NEW k \in 1..(m + 1), NEW l \in 1..(m + 1),
                            NEW i \in DOMAIN handoff, NEW j \in DOMAIN handoff,
                            queue'[k] = handoff[i], queue'[l] = handoff[j], k < l
                     PROVE  i < j
            BY <2>2, <2>5 DEF QueueInOrder
        <3>1. k \in 1..m /\ l \in 1..m
            BY <2>2, <2>4
        <3> QED
            BY <2>2, <3>1 DEF OrderInv, QueueInOrder
    <2>7. BatchFirst' /\ StoredInOrder'
        BY <2>3, <2>4, <2>5 DEF OrderInv, BatchFirst, StoredInOrder, Held
    <2> QED
        BY <2>6, <2>7 DEF OrderInv
<1>3. CASE Decide
    <2>1. Range(batch') = {} /\ Held' \subseteq Held /\ Held' \subseteq Range(queue)
        BY <1>3, EmptySequence DEF Decide, Held
    <2>2. QueueInOrder' /\ BatchFirst'
        BY <1>3, <2>1 DEF Decide, OrderInv, QueueInOrder, BatchFirst
    <2>3. StoredInOrder'
        BY <1>3, <2>1 DEF Decide, OrderInv, BatchFirst, StoredInOrder
    <2> QED
        BY <2>2, <2>3 DEF OrderInv
<1>4. CASE Drop
    <2>1. DOMAIN queue' = {} /\ Range(batch') = {} /\ Held' = {}
        BY <1>4, EmptySequence DEF Drop, Held
    <2> QED
        BY <2>1 DEF OrderInv, QueueInOrder, BatchFirst, StoredInOrder
<1> QED
    BY <1>1, <1>2, <1>3, <1>4

\* When an event is stored, no event that was handed off before it is still
\* waiting: a crash leaves a prefix of the hand-off, minus failed batches.
THEOREM StoredInOrderHolds == Spec => []StoredInOrder
<1>1. Init => OrderInv
    <2> SUFFICES ASSUME Init
                 PROVE  OrderInv
        OBVIOUS
    <2>1. handoff = <<>>
        BY Zenon DEF Init
    <2>2. DOMAIN handoff = {}
        BY <2>1
    <2> QED
        BY <2>2 DEF OrderInv, QueueInOrder, BatchFirst, StoredInOrder
<1>2. TypeInv /\ DataInv /\ OrderInv /\ [Next]_vars => OrderInv'
    BY Moves, OrderHandOff, OrderTake, OrderOther DEF Move
<1>3. OrderInv => StoredInOrder
    BY DEF OrderInv
<1> QED
    BY <1>1, <1>2, <1>3, TypeInit, DataInit, TypeStep, DataStep, PTL DEF Spec

-----------------------------------------------------------------------------
(* What flush() and shutdown() leave behind.                               *)

\* The hand-off only grows, and an event that has left the queue, or memory
\* altogether, never returns there.
LEMMA NothingReturns ==
    ASSUME TypeInv, DataInv, [Next]_vars
    PROVE  /\ Len(handoff) \in Nat /\ Len(handoff') \in Nat /\ Len(handoff) <= Len(handoff')
           /\ \A i \in 1..Len(handoff) :
                 /\ handoff'[i] = handoff[i]
                 /\ handoff[i] \notin Range(queue) => handoff[i] \notin Range(queue')
                 /\ handoff[i] \notin Held => handoff[i] \notin Held'
<1>1. /\ queue \in Seq(Event \union {SHUTDOWN}) /\ handoff \in Seq(Event)
      /\ batch \in Seq(Event)
    BY DEF TypeInv, TypeOK
<1>2. /\ Len(handoff) \in Nat /\ DOMAIN handoff = 1..Len(handoff)
      /\ \A i \in 1..Len(handoff) : handoff[i] \in Range(handoff) /\ handoff[i] # SHUTDOWN
    BY <1>1, StoreAssumption DEF Range
<1>3. ASSUME handoff' = handoff, Range(queue') \subseteq Range(queue) \union {SHUTDOWN},
             Held' \subseteq Held
      PROVE  /\ Len(handoff') = Len(handoff)
             /\ \A i \in 1..Len(handoff) :
                   /\ handoff'[i] = handoff[i]
                   /\ handoff[i] \notin Range(queue) => handoff[i] \notin Range(queue')
                   /\ handoff[i] \notin Held => handoff[i] \notin Held'
    BY <1>2, <1>3
<1>4. CASE Stay
    BY <1>2, <1>3, <1>4 DEF Stay, Held
<1>5. ASSUME NEW e \in Event, HandOff(e)
      PROVE  /\ Len(handoff') = Len(handoff) + 1
             /\ \A i \in 1..Len(handoff) :
                   /\ handoff'[i] = handoff[i]
                   /\ handoff[i] \notin Range(queue) => handoff[i] \notin Range(queue')
                   /\ handoff[i] \notin Held => handoff[i] \notin Held'
    <2>1. Range(queue') = Range(queue) \union {e} /\ batch' = batch
        BY <1>1, <1>5, RangeAppend DEF HandOff
    <2>2. \A i \in 1..Len(handoff) : handoff'[i] = handoff[i] /\ handoff[i] # e
        BY <1>1, <1>2, <1>5, AppendAt DEF HandOff
    <2>3. Len(handoff') = Len(handoff) + 1
        BY <1>1, <1>5 DEF HandOff
    <2> QED
        BY <2>1, <2>2, <2>3 DEF Held
<1>6. CASE Signal
    <2>1. Range(queue') = Range(queue) \union {SHUTDOWN}
        BY <1>1, <1>6, RangeAppend DEF Signal
    <2> QED
        BY <1>2, <1>3, <1>6, <2>1 DEF Signal, Held
<1>7. CASE Take
    <2>1. Held' = Held
        BY <1>7, DataTake DEF Take, DataInv, Held
    <2>2. Range(queue') \subseteq Range(queue)
        BY <1>1, <1>7, RangeTail DEF Take
    <2> QED
        BY <1>2, <1>3, <1>7, <2>1, <2>2 DEF Take
<1>8. CASE Decide \/ Drop
    <2>1. Range(batch') = {} /\ Range(queue') \subseteq Range(queue)
        BY <1>8, EmptySequence DEF Decide, Drop
    <2> QED
        BY <1>2, <1>3, <1>8, <2>1 DEF Decide, Drop, Held
<1> QED
    BY <1>2, <1>4, <1>5, <1>6, <1>7, <1>8, Moves DEF Move

\* What the writer is about to announce, or has announced, as drained: whatever
\* is left was put after its look at the empty queue.
RacedInv ==
    /\ Setting => Range(queue) \ {SHUTDOWN} \subseteq raced
    /\ drained => Held \subseteq raced

\* An event stays marked until it is decided.
LEMMA RacedKept ==
    ASSUME TypeInv, DataInv, [Next]_vars
    PROVE  \A e \in Held' : e \in raced => e \in raced'
<1>1. CASE UNCHANGED vars \/ SessionOp
    BY <1>1, Zenon DEF vars, SessionOp, Create, MarkStatus, PurgeSession, PurgeInactive, Forget
<1>2. ASSUME NEW t \in Thread, AddEvent(t)
      PROVE  raced \subseteq raced'
    BY <1>2 DEF AddEvent, AddRing, AddClear, AddPut
<1>3. CASE Writer
    <2>1. CASE WriterFlush \/ WriterLastFlush
        <3>1. batch' = <<>> /\ queue' = queue /\ raced' = raced \ Range(batch)
            BY <2>1 DEF WriterFlush, WriterLastFlush, FlushBatch
        <3>2. Held' \subseteq Range(queue)
            BY <3>1, EmptySequence DEF Held
        <3> QED
            BY <3>1, <3>2 DEF DataInv, Places
    <2>2. CASE UNCHANGED writerRest
        BY <2>2 DEF writerRest
    <2> QED
        BY <1>3, <2>1, <2>2 DEF Writer, WriterGet, WriterEmpty, WriterEmptyCheck, WriterIdle,
           WriterCollect, WriterCollectEnd, WriterCheck, WriterMark, WriterNext,
           WriterLeftover, WriterLastMark
<1>4. ASSUME NEW E \in SUBSET dbEvents, Retention(E)
      PROVE  raced' = raced
    BY <1>4 DEF Retention
<1>5. ASSUME NEW f \in Flusher, Flush(f)
      PROVE  raced' = raced
    BY <1>5 DEF Flush, FlushCall, FlushCheckQueue, FlushCheckDrained, FlushTimeout, flushRest
<1>6. CASE Shutdown
    BY <1>6 DEF Shutdown, ShutdownSignal, ShutdownSentinel, ShutdownJoin, stopRest
<1>7. CASE Restart
    <2>1. queue' = <<>> /\ batch' = <<>>
        BY <1>7, Zenon DEF Restart
    <2> QED
        BY <2>1, EmptySequence DEF Held
<1> QED
    BY <1>1, <1>2, <1>3, <1>4, <1>5, <1>6, <1>7 DEF Next

\* The writer sets the flag only after it has found the queue empty.
LEMMA RacedWriter == TypeInv /\ DataInv /\ RacedInv /\ Writer => RacedInv'
<1> SUFFICES ASSUME TypeInv, DataInv, RacedInv, Writer
             PROVE  RacedInv'
    OBVIOUS
<1> USE DEF RacedInv, Setting
<1>1. ASSUME writer' \notin {"empty", "idle", "mark", "lastFlush", "lastMark"},
             Held' \subseteq Held, UNCHANGED <<drained, raced>>
      PROVE  RacedInv'
    BY <1>1
<1>2. CASE WriterGet \/ WriterCollect
    <2>1. Take
        <3>1. CASE WriterGet
            <4>1. batch = <<>> /\ \A e : Append(<<>>, e) = <<e>>
                BY <3>1 DEF WriterGet, DataInv, BatchPhase
            <4> QED
                BY <3>1, <4>1 DEF WriterGet, Take, writerRest, batchRest, db
        <3> QED
            BY <1>2, <3>1 DEF WriterCollect, Take, writerRest, batchRest, db
    <2>2. Held' = Held
        BY <2>1, DataTake DEF Take, DataInv, Held
    <2> QED
        BY <1>1, <1>2, <2>2 DEF WriterGet, WriterCollect, writerRest
<1>3. CASE WriterLeftover
    <2>1. UNCHANGED <<drained, raced>>
        BY <1>3 DEF WriterLeftover, writerRest
    <2>2. CASE queue = <<>>
        <3>1. Range(queue') = {} /\ Held' = Held
            BY <1>3, <2>2, EmptySequence DEF WriterLeftover, Held
        <3> QED
            BY <2>1, <3>1
    <2>3. CASE queue # <<>>
        <3>1. Take /\ writer' = "leftover"
            BY <1>3, <2>3 DEF WriterLeftover, Take, writerRest, batchRest, db
        <3>2. Held' = Held
            BY <3>1, DataTake DEF Take, DataInv, Held
        <3> QED
            BY <1>1, <2>1, <3>1, <3>2
    <2> QED
        BY <2>2, <2>3
<1>4. CASE WriterFlush \/ WriterLastFlush
    <2>1. /\ batch' = <<>> /\ raced' = raced \ Range(batch)
          /\ UNCHANGED <<queue, drained>>
          /\ Setting' => Setting
        BY <1>4 DEF WriterFlush, WriterLastFlush, FlushBatch
    <2>2. Range(batch) \intersect Range(queue) = {}
        BY DEF DataInv, Places
    <2>3. Held' = Range(queue) \ {SHUTDOWN}
        BY <2>1, EmptySequence DEF Held
    <2>4. Held' \subseteq Held
        BY <2>3 DEF Held
    <2> QED
        BY <2>1, <2>2, <2>3, <2>4
<1>5. CASE WriterEmpty \/ WriterCheck
    <2>1. UNCHANGED <<queue, batch, drained, raced>> /\ (queue = <<>> \/ writer' = "next")
        BY <1>5 DEF WriterEmpty, WriterCheck, writerRest
    <2>2. Held' = Held /\ (queue = <<>> => Range(queue') = {})
        BY <2>1, EmptySequence DEF Held
    <2> QED
        BY <2>1, <2>2
<1>6. CASE WriterEmptyCheck
    <2>1. writer = "empty" /\ UNCHANGED <<queue, batch, drained, raced>>
        BY <1>6 DEF WriterEmptyCheck, writerRest
    <2> QED
        BY <2>1 DEF Held
<1>7. CASE WriterIdle \/ WriterMark \/ WriterLastMark
    <2>1. /\ writer \in {"idle", "mark", "lastMark"}
          /\ writer' \in {"get", "next", "exited"}
          /\ UNCHANGED <<queue, batch, raced>>
        BY <1>7 DEF WriterIdle, WriterMark, WriterLastMark, writerRest
    <2>2. batch = <<>>
        BY <2>1 DEF DataInv, BatchPhase
    <2>3. Held' = Range(queue) \ {SHUTDOWN}
        BY <2>1, <2>2, EmptySequence DEF Held
    <2> QED
        BY <2>1, <2>3
<1>8. CASE WriterCollectEnd \/ WriterNext
    BY <1>1, <1>8 DEF WriterCollectEnd, WriterNext, writerRest, Held
<1> QED
    BY <1>2, <1>3, <1>4, <1>5, <1>6, <1>7, <1>8 DEF Writer

\* Every step keeps RacedInv.
LEMMA RacedStep == TypeInv /\ DataInv /\ RacedInv /\ [Next]_vars => RacedInv'
<1> SUFFICES ASSUME TypeInv, DataInv, RacedInv, [Next]_vars
             PROVE  RacedInv'
    OBVIOUS
<1>1. ASSUME UNCHANGED <<queue, writerVars, raced>>, drained' => drained
      PROVE  RacedInv'
    BY <1>1 DEF RacedInv, Setting, Held, writerVars
<1>2. CASE UNCHANGED vars \/ SessionOp
    <2>1. UNCHANGED <<queue, drained, writerVars, raced>>
        BY <1>2, Zenon DEF vars, writerVars, SessionOp, Create, MarkStatus, PurgeSession,
           PurgeInactive, Forget
    <2> QED
        BY <1>1, <2>1
<1>3. ASSUME NEW t \in Thread, AddEvent(t)
      PROVE  RacedInv'
    <2>1. CASE AddClear(t) \/ \E e \in Event : AddRing(t, e)
        BY <1>1, <2>1 DEF AddRing, AddClear
    <2>2. CASE AddPut(t)
        <3>1. /\ queue' = Append(queue, adding[t])
              /\ raced' = IF drained \/ Setting THEN raced \union {adding[t]} ELSE raced
              /\ UNCHANGED <<drained, writer, batch>>
            BY <2>2 DEF AddPut, writerVars
        <3>2. queue \in Seq(Event \union {SHUTDOWN}) /\ adding[t] \in Event \union {SHUTDOWN}
            BY <2>2 DEF AddPut, TypeInv, TypeOK, AddingOK
        <3>3. Range(queue') = Range(queue) \union {adding[t]}
            BY <3>1, <3>2, RangeAppend
        <3>4. Held' \subseteq Held \union {adding[t]}
            BY <3>1, <3>3 DEF Held
        <3>5. Setting' = Setting
            BY <3>1 DEF Setting
        <3> QED
            BY <3>1, <3>3, <3>4, <3>5 DEF RacedInv
    <2> QED
        BY <1>3, <2>1, <2>2 DEF AddEvent
<1>4. ASSUME NEW E \in SUBSET dbEvents, Retention(E)
      PROVE  RacedInv'
    BY <1>1, <1>4 DEF Retention
<1>5. ASSUME NEW f \in Flusher, Flush(f)
      PROVE  RacedInv'
    BY <1>1, <1>5 DEF Flush, FlushCall, FlushCheckQueue, FlushCheckDrained, FlushTimeout,
       flushRest
<1>6. CASE Shutdown
    <2>1. CASE ShutdownSentinel
        <3>1. queue' = Append(queue, SHUTDOWN) /\ UNCHANGED <<drained, writer, batch, raced>>
            BY <2>1 DEF ShutdownSentinel, stopRest, writerVars
        <3>2. queue \in Seq(Event \union {SHUTDOWN}) /\ SHUTDOWN \in Event \union {SHUTDOWN}
            BY DEF TypeInv, TypeOK
        <3>3. Range(queue') = Range(queue) \union {SHUTDOWN}
            BY <3>1, <3>2, RangeAppend
        <3>4. Held' = Held
            BY <3>1, <3>3 DEF Held
        <3> QED
            BY <3>1, <3>3, <3>4 DEF RacedInv, Setting
    <2> QED
        BY <1>1, <1>6, <2>1 DEF Shutdown, ShutdownSignal, ShutdownJoin, stopRest
<1>7. CASE Restart
    <2>1. queue' = <<>> /\ batch' = <<>>
        BY <1>7, Zenon DEF Restart
    <2> QED
        BY <2>1, EmptySequence DEF RacedInv, Held
<1> QED
    BY <1>2, <1>3, <1>4, <1>5, <1>6, <1>7, RacedWriter DEF Next

\* A flusher that has seen the queue empty knows that everything handed off
\* before its call has left it; one that then saw the flag knows that what is
\* still in the writer's hands was put behind the writer's back.
FlushInv ==
    \A f \in Flusher :
        /\ flushFrom[f] <= Len(handoff)
        /\ flushPc[f] \in {"drained", "ok"} =>
              \A i \in 1..flushFrom[f] : handoff[i] \notin Range(queue)
        /\ flushPc[f] = "ok" =>
              \A i \in 1..flushFrom[f] : handoff[i] \in Held => handoff[i] \in raced

\* Steps of others do not bring back what a flusher has seen go.
LEMMA FlushStep ==
    TypeInv /\ DataInv /\ RacedInv /\ FlushInv /\ [Next]_vars => FlushInv'
<1> SUFFICES ASSUME TypeInv, DataInv, RacedInv, FlushInv, [Next]_vars
             PROVE  FlushInv'
    OBVIOUS
<1>1. /\ Len(handoff) \in Nat /\ Len(handoff') \in Nat /\ Len(handoff) <= Len(handoff')
      /\ \A i \in 1..Len(handoff) :
            /\ handoff'[i] = handoff[i]
            /\ handoff[i] \notin Range(queue) => handoff[i] \notin Range(queue')
            /\ handoff[i] \in Held' => handoff[i] \in Held
            /\ handoff[i] \in Held' /\ handoff[i] \in raced => handoff[i] \in raced'
    BY NothingReturns, RacedKept
<1>2. flushFrom \in [Flusher -> Nat] /\ flushPc \in [Flusher -> {"out", "queue", "drained", "ok"}]
    BY DEF TypeInv, TypeOK
<1>3. CASE UNCHANGED flushVars
    BY <1>1, <1>2, <1>3 DEF FlushInv, flushVars
<1>4. ASSUME NEW f \in Flusher, Flush(f)
      PROVE  FlushInv'
    <2>1. UNCHANGED <<queue, handoff>>
        BY <1>4 DEF Flush, FlushCall, FlushCheckQueue, FlushCheckDrained, FlushTimeout, flushRest
    <2>2. CASE FlushCall(f)
        BY <1>1, <1>2, <2>1, <2>2 DEF FlushCall, FlushInv
    <2>3. CASE FlushCheckQueue(f)
        <3>1. Range(queue) = {}
            BY <2>3, EmptySequence DEF FlushCheckQueue
        <3>2. Held' = Held /\ raced' = raced
            BY <2>1, <2>3 DEF FlushCheckQueue, flushRest, writerVars, Held
        <3> QED
            BY <1>2, <2>1, <2>3, <3>1, <3>2 DEF FlushCheckQueue, FlushInv
    <2>4. CASE FlushCheckDrained(f)
        <3>1. drained => Held \subseteq raced
            BY DEF RacedInv
        <3>2. Held' = Held /\ raced' = raced
            BY <2>1, <2>4 DEF FlushCheckDrained, flushRest, writerVars, Held
        <3> QED
            BY <1>2, <2>1, <2>4, <3>1, <3>2 DEF FlushCheckDrained, FlushInv
    <2>5. CASE FlushTimeout(f)
        BY <1>1, <1>2, <2>1, <2>5 DEF FlushTimeout, FlushInv
    <2> QED
        BY <1>4, <2>2, <2>3, <2>4, <2>5 DEF Flush
<1>5. CASE Restart
    <2>1. flushPc' = [f \in Flusher |-> "out"] /\ flushFrom' = [f \in Flusher |-> 0]
        BY <1>5, Zenon DEF Restart
    <2> QED
        BY <1>1, <2>1 DEF FlushInv
<1>6. CASE UNCHANGED vars \/ SessionOp
    BY <1>3, <1>6, Zenon DEF vars, flushVars, SessionOp, Create, MarkStatus, PurgeSession,
       PurgeInactive, Forget
<1>7. ASSUME NEW t \in Thread, AddEvent(t)
      PROVE  UNCHANGED flushVars
    BY <1>7 DEF AddEvent, AddRing, AddClear, AddPut
<1>8. CASE Writer
    <2>1. UNCHANGED batchRest
        BY <1>8 DEF writerRest, Writer, WriterGet, WriterEmpty, WriterEmptyCheck, WriterIdle,
           WriterCollect, WriterCollectEnd, WriterFlush, WriterCheck, WriterMark, WriterNext,
           WriterLeftover, WriterLastFlush, WriterLastMark
    <2> QED
        BY <1>3, <2>1 DEF batchRest
<1>9. ASSUME NEW E \in SUBSET dbEvents, Retention(E)
      PROVE  UNCHANGED flushVars
    BY <1>9 DEF Retention
<1>10. CASE Shutdown
    BY <1>3, <1>10 DEF Shutdown, ShutdownSignal, ShutdownSentinel, ShutdownJoin, stopRest
<1> QED
    BY <1>3, <1>4, <1>5, <1>6, <1>7, <1>8, <1>9, <1>10 DEF Next

\* When flush() returns without a timeout, everything handed off before the call
\* is decided, except an event in the writer's hands whose add_event() overlapped the
\* writer's setting of `_drained` (store.py:489 and 497).
THEOREM FlushCommitsHolds == Spec => []FlushCommits
<1>1. Init => RacedInv /\ FlushInv
    <2> SUFFICES ASSUME Init
                 PROVE  RacedInv /\ FlushInv
        OBVIOUS
    <2>1. /\ flushPc = [f \in Flusher |-> "out"] /\ flushFrom = [f \in Flusher |-> 0]
          /\ queue = <<>> /\ batch = <<>>
        BY Zenon DEF Init
    <2>2. Len(handoff) = 0
        BY DEF Init
    <2>3. Held = {} /\ Range(queue) = {}
        BY <2>1, EmptySequence DEF Held
    <2> QED
        BY <2>1, <2>2, <2>3 DEF FlushInv, RacedInv
<1>2. FlushInv => FlushCommits
    BY DEF FlushInv, FlushCommits, Held
<1> QED
    BY <1>1, <1>2, RacedStep, FlushStep, TypeInit, DataInit, TypeStep, DataStep, PTL DEF Spec

\* A writer gets to its last flush by the sentinel, which shutdown() puts in the
\* queue after it has set the stop flag.
StopControl ==
    /\ SHUTDOWN \in Range(queue) \/ lastBatch => stopPc \in {"join", "halted"}
    /\ writer \in {"leftover", "lastFlush", "lastMark"} => lastBatch
    /\ writer = "exited" => stopPc # "up"

\* From its last look at the queue on, the writer has taken what was handed off
\* before the flag was set; from its last flush on, it has decided it.
StopEvents ==
    /\ stopFrom <= Len(handoff)
    /\ writer = "lastFlush" => \A i \in 1..stopFrom : handoff[i] \notin Range(queue)
    /\ writer \in {"lastMark", "exited"} => \A i \in 1..stopFrom : handoff[i] \notin Held

StopInv == StopControl /\ StopEvents

\* Steps that leave the writer and shutdown() where they are.
LEMMA StopOthers ==
    ASSUME TypeInv, DataInv, StopInv, [Next]_vars, UNCHANGED <<writer, lastBatch, stopVars>>,
           SHUTDOWN \in Range(queue') => SHUTDOWN \in Range(queue)
    PROVE  StopInv'
<1>1. stopFrom \in Nat
    BY DEF TypeInv, TypeOK
<1>2. StopControl'
    BY DEF StopInv, StopControl, stopVars
<1>3. StopEvents'
    BY <1>1, NothingReturns DEF StopInv, StopEvents, stopVars
<1> QED
    BY <1>2, <1>3 DEF StopInv

\* The steps of the writer.
LEMMA StopWriter ==
    ASSUME TypeInv, DataInv, StopInv, Writer
    PROVE  StopInv'
<1> USE DEF StopInv
<1>1. UNCHANGED <<stopVars, handoff>> /\ stopFrom \in Nat
    BY DEF Writer, WriterGet, WriterEmpty, WriterEmptyCheck, WriterIdle,
       WriterCollect, WriterCollectEnd, WriterFlush, WriterCheck, WriterMark, WriterNext,
       WriterLeftover, WriterLastFlush, WriterLastMark, writerRest, batchRest, TypeInv, TypeOK
<1>2. ASSUME queue # <<>>, queue' = Tail(queue)
      PROVE  /\ Range(queue') \subseteq Range(queue)
             /\ Head(queue) \in Range(queue)
    BY <1>2, RangeTail DEF TypeInv, TypeOK
<1>3. CASE WriterGet \/ WriterCollect
    <2>1. /\ writer' \in {"collect", "flush"} /\ queue # <<>> /\ queue' = Tail(queue)
          /\ lastBatch' = lastBatch \/ Head(queue) = SHUTDOWN
        BY <1>3 DEF WriterGet, WriterCollect
    <2>2. StopControl'
        BY <1>1, <1>2, <2>1 DEF StopControl, stopVars
    <2>3. StopEvents'
        BY <1>1, <2>1 DEF StopEvents, stopVars
    <2> QED
        BY <2>2, <2>3
<1>4. CASE WriterLeftover
    <2>1. /\ writer = "leftover" /\ lastBatch' = lastBatch
          /\ Range(queue') \subseteq Range(queue)
          /\ writer' = "leftover" \/ (writer' = "lastFlush" /\ Range(queue') = {})
        BY <1>2, <1>4, EmptySequence DEF WriterLeftover
    <2>2. StopControl'
        BY <1>1, <2>1 DEF StopControl, stopVars
    <2>3. StopEvents'
        BY <1>1, <2>1 DEF StopEvents, stopVars
    <2> QED
        BY <2>2, <2>3
<1>5. CASE WriterLastFlush
    <2>1. /\ writer = "lastFlush" /\ writer' = "lastMark"
          /\ lastBatch' = lastBatch /\ queue' = queue
          /\ batch' = <<>>
        BY <1>5 DEF WriterLastFlush, FlushBatch
    <2>2. Held' \subseteq Range(queue)
        BY <2>1, EmptySequence DEF Held
    <2>3. StopControl'
        BY <1>1, <2>1 DEF StopControl, stopVars
    <2>4. StopEvents'
        BY <1>1, <2>1, <2>2 DEF StopEvents, stopVars
    <2> QED
        BY <2>3, <2>4
<1>6. CASE WriterLastMark
    <2>1. /\ writer = "lastMark" /\ writer' = "exited"
          /\ UNCHANGED <<lastBatch, queue, batch>>
        BY <1>6 DEF WriterLastMark
    <2>2. StopControl'
        BY <1>1, <2>1 DEF StopControl, stopVars
    <2>3. StopEvents'
        BY <1>1, <2>1 DEF StopEvents, stopVars, Held
    <2> QED
        BY <2>2, <2>3
<1>7. CASE WriterEmptyCheck
    <2>1. writer = "empty" /\ UNCHANGED <<lastBatch, queue, batch>>
        BY <1>7 DEF WriterEmptyCheck
    <2>2. writer' = "idle" \/ (writer' = "exited" /\ stopPc # "up" /\ queue = <<>>)
        BY <1>7 DEF WriterEmptyCheck, WriterStop
    <2>3. batch = <<>>
        BY <2>1 DEF DataInv, BatchPhase
    <2>4. writer' = "exited" => Held' = {}
        BY <2>1, <2>2, <2>3, EmptySequence DEF Held
    <2>5. StopControl'
        BY <1>1, <2>1, <2>2 DEF StopControl, stopVars
    <2>6. StopEvents'
        BY <1>1, <2>2, <2>4 DEF StopEvents, stopVars
    <2> QED
        BY <2>5, <2>6
<1>8. CASE WriterNext
    <2>1. /\ writer' \in {"get", "leftover"} /\ (writer' = "leftover" => lastBatch)
          /\ UNCHANGED <<lastBatch, queue>>
        BY <1>8 DEF WriterNext
    <2>2. StopControl'
        BY <1>1, <2>1 DEF StopControl, stopVars
    <2>3. StopEvents'
        BY <1>1, <2>1 DEF StopEvents, stopVars
    <2> QED
        BY <2>2, <2>3
<1>9. CASE \/ WriterEmpty \/ WriterIdle \/ WriterCollectEnd
           \/ WriterFlush \/ WriterCheck \/ WriterMark
    <2>1. /\ writer' \in {"empty", "get", "flush", "check", "mark", "next"}
          /\ UNCHANGED <<lastBatch, queue>>
        BY <1>9 DEF WriterEmpty, WriterIdle, WriterCollectEnd, WriterFlush, WriterCheck,
                    WriterMark
    <2>2. StopControl'
        BY <1>1, <2>1 DEF StopControl, stopVars
    <2>3. StopEvents'
        BY <1>1, <2>1 DEF StopEvents, stopVars
    <2> QED
        BY <2>2, <2>3
<1> QED
    BY <1>3, <1>4, <1>5, <1>6, <1>7, <1>8, <1>9 DEF Writer

\* The steps of shutdown().
LEMMA StopShutdown ==
    ASSUME TypeInv, DataInv, StopInv, Shutdown
    PROVE  StopInv'
<1> USE DEF StopInv
<1>1. UNCHANGED <<writer, lastBatch, batch, handoff>>
    BY DEF Shutdown, ShutdownSignal, ShutdownSentinel, ShutdownJoin, stopRest, writerVars
<1>2. CASE ShutdownSignal
    <2>1. /\ stopPc = "up" /\ stopPc' = "stopSet" /\ stopFrom' = Len(handoff)
          /\ queue' = queue
        BY <1>2 DEF ShutdownSignal
    <2>2. ~lastBatch /\ SHUTDOWN \notin Range(queue)
          /\ writer \notin {"leftover", "lastFlush", "lastMark", "exited"}
        BY <2>1 DEF StopControl
    <2>3. Len(handoff) \in Nat
        BY DEF TypeInv, TypeOK
    <2> QED
        BY <1>1, <2>1, <2>2, <2>3 DEF StopControl, StopEvents
<1>3. CASE ShutdownSentinel
    <2>1. /\ stopPc = "stopSet" /\ stopPc' = "join" /\ stopFrom' = stopFrom
          /\ queue' = Append(queue, SHUTDOWN)
        BY <1>3 DEF ShutdownSentinel
    <2>2. queue \in Seq(Event \union {SHUTDOWN}) /\ SHUTDOWN \in Event \union {SHUTDOWN}
        BY DEF TypeInv, TypeOK
    <2>3. Range(queue') = Range(queue) \union {SHUTDOWN}
        BY <2>1, <2>2, RangeAppend
    <2>4. Held' = Held /\ writer # "lastFlush"
        BY <1>1, <2>1, <2>3 DEF Held, StopControl
    <2>5. StopControl'
        BY <1>1, <2>1 DEF StopControl
    <2>6. StopEvents'
        BY <1>1, <2>1, <2>4 DEF StopEvents
    <2> QED
        BY <2>5, <2>6
<1>4. CASE ShutdownJoin
    BY <1>1, <1>4 DEF ShutdownJoin, StopControl, StopEvents, Held
<1> QED
    BY <1>2, <1>3, <1>4 DEF Shutdown

\* Every step keeps StopInv.
LEMMA StopStep == TypeInv /\ DataInv /\ StopInv /\ [Next]_vars => StopInv'
<1> SUFFICES ASSUME TypeInv, DataInv, StopInv, [Next]_vars
             PROVE  StopInv'
    OBVIOUS
<1>1. ASSUME UNCHANGED <<writer, lastBatch, stopVars, queue>>
      PROVE  StopInv'
    BY <1>1, StopOthers
<1>2. CASE UNCHANGED vars \/ SessionOp
    BY <1>1, <1>2, Zenon DEF vars, stopVars, writerVars, SessionOp, Create, MarkStatus,
       PurgeSession, PurgeInactive, Forget
<1>3. ASSUME NEW t \in Thread, AddEvent(t)
      PROVE  StopInv'
    <2>1. CASE AddPut(t)
        <3>1. /\ adding[t] \in Event /\ adding[t] # SHUTDOWN
              /\ queue' = Append(queue, adding[t])
              /\ UNCHANGED <<writer, lastBatch, stopVars>>
            BY <2>1, StoreAssumption DEF AddPut, writerVars, TypeInv, TypeOK, AddingOK
        <3>2. queue \in Seq(Event \union {SHUTDOWN}) /\ adding[t] \in Event \union {SHUTDOWN}
            BY <3>1 DEF TypeInv, TypeOK
        <3>3. Range(queue') = Range(queue) \union {adding[t]}
            BY <3>1, <3>2, RangeAppend
        <3> QED
            BY <3>1, <3>3, StopOthers
    <2> QED
        BY <1>1, <1>3, <2>1 DEF AddEvent, AddRing, AddClear, writerVars
<1>4. ASSUME NEW E \in SUBSET dbEvents, Retention(E)
      PROVE  StopInv'
    BY <1>1, <1>4 DEF Retention, writerVars
<1>5. ASSUME NEW f \in Flusher, Flush(f)
      PROVE  StopInv'
    BY <1>1, <1>5 DEF Flush, FlushCall, FlushCheckQueue, FlushCheckDrained, FlushTimeout,
       flushRest, writerVars
<1>6. CASE Restart
    <2>1. /\ writer' = "get" /\ lastBatch' = FALSE /\ stopFrom' = 0
          /\ queue' = <<>> /\ handoff' = handoff
        BY <1>6, Zenon DEF Restart
    <2>2. Range(queue') = {} /\ Len(handoff) \in Nat
        BY <2>1, EmptySequence DEF TypeInv, TypeOK
    <2> QED
        BY <2>1, <2>2 DEF StopInv, StopControl, StopEvents
<1> QED
    BY <1>2, <1>3, <1>4, <1>5, <1>6, StopWriter, StopShutdown DEF Next

\* A writer thread that has returned has decided everything that was handed off
\* before shutdown() set the stop flag, however the sentinel, its timeouts and
\* other threads' puts fell.
THEOREM ShutdownKeepsEarlierHolds == Spec => []ShutdownKeepsEarlier
<1>1. Init => StopInv
    <2> SUFFICES ASSUME Init
                 PROVE  StopInv
        OBVIOUS
    <2>1. queue = <<>> /\ lastBatch = FALSE /\ writer = "get" /\ stopFrom = 0 /\ handoff = <<>>
        BY Zenon DEF Init
    <2>2. Range(queue) = {} /\ Len(handoff) = 0
        BY <2>1, EmptySequence
    <2> QED
        BY <2>1, <2>2 DEF StopInv, StopControl, StopEvents
<1>2. StopInv => ShutdownKeepsEarlier
    BY DEF StopInv, StopEvents, ShutdownKeepsEarlier
<1> QED
    BY <1>1, <1>2, StopStep, TypeInit, DataInit, TypeStep, DataStep, PTL DEF Spec
=============================================================================
