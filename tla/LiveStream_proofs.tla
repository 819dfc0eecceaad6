-------------------------- MODULE LiveStream_proofs --------------------------
(***************************************************************************)
(* Proofs about the live stream of a session, for any number of events and *)
(* connections, any ring and queue size, and any timestamps.               *)
(***************************************************************************)
EXTENDS LiveStream, Queues_proofs

\* What the tail of a connection has taken from the hub so far.
Tailing(c) == tailed[c] \o subq[c]

\* What the replay of a connection is made of.
Replaying(c) == Range(replayed[c]) \union Range(todo[c])

\* How many of the pump's events have been published.
Published == Len(pumpLog) - Len(scheduled) - (IF pumpHolds = NoEvent THEN 0 ELSE 1)

\* The hub has the open connections that it has not dropped, and nothing is
\* kept for a connection before it subscribes.
SubsOK ==
    /\ subs = {c \in Conn : ws[c] = "open" /\ c \notin cut}
    /\ \A c \in Conn : ws[c] = "off" =>
          c \notin cut /\ replayed[c] = <<>> /\ tailed[c] = <<>> /\ subq[c] = <<>>

OwedOK ==
    \A c \in subs :
        due[c] \subseteq Range(replayed[c]) \union Range(todo[c])
                         \union Range(tailed[c]) \union Range(subq[c])
                         \union Unpublished

\* What is scheduled and what the pump holds is the end of the pump's log.
PumpOK ==
    /\ Published >= 0
    /\ \A i \in DOMAIN scheduled : scheduled[i] = pumpLog[Published + i]
    /\ pumpHolds # NoEvent => pumpHolds = pumpLog[Len(pumpLog)]
    /\ IsInjective(pumpLog)
    /\ Range(pumpLog) \intersect emitted = {}
    /\ Range(ring) \subseteq Added

\* A tail t has each of its events once, out of `all`; those of the log are among
\* its first p, and in the order of the log.
Ordered(t, log, p, all) ==
    /\ IsInjective(t)
    /\ Range(t) \subseteq all
    /\ \A i \in DOMAIN t, m \in DOMAIN log : t[i] = log[m] => m <= p
    /\ \A i, j \in DOMAIN t, m, n \in DOMAIN log :
          t[i] = log[m] /\ t[j] = log[n] /\ m < n => i < j

TailOK(c) == Ordered(Tailing(c), pumpLog, Published, Added)

\* The replay and the tail of a connection share what was on its way to the hub
\* when it subscribed.
ReplayOK(c) ==
    /\ Replaying(c) \subseteq Added
    /\ Range(Tailing(c)) \intersect Replaying(c) \subseteq flight[c]
    /\ ws[c] # "off" => Unpublished \intersect Replaying(c) \subseteq flight[c]

IInv == /\ TypeOK
        /\ SubsOK
        /\ OwedOK
        /\ PumpOK
        /\ \A c \in Conn : TailOK(c) /\ ReplayOK(c)

-----------------------------------------------------------------------------
(* Sequences.                                                              *)

\* The empty sequence has no elements.
LEMMA NoElements == Range(<<>>) = {} /\ DOMAIN <<>> = {} /\ Len(<<>>) = 0
BY DEF Range

\* What Append does to length, domain and elements.
LEMMA AppendAt ==
    ASSUME NEW S, NEW q \in Seq(S), NEW e \in S
    PROVE  /\ Append(q, e) \in Seq(S)
           /\ Len(q) \in Nat /\ Len(Append(q, e)) = Len(q) + 1
           /\ DOMAIN q = 1..Len(q) /\ DOMAIN Append(q, e) = 1..(Len(q) + 1)
           /\ \A i \in 1..Len(q) : Append(q, e)[i] = q[i]
           /\ Append(q, e)[Len(q) + 1] = e
OBVIOUS

\* Adding at the end of the second part adds at the end of the whole.
LEMMA ConcatAppend ==
    ASSUME NEW S, NEW q \in Seq(S), NEW r \in Seq(S), NEW e \in S
    PROVE  q \o Append(r, e) = Append(q \o r, e)
<1>1. Append(r, e) = r \o <<e>> /\ Append(q \o r, e) = (q \o r) \o <<e>>
    BY AppendIsConcat, ConcatProperties
<1>2. <<e>> \in Seq(S)
    OBVIOUS
<1> QED
    BY <1>1, <1>2, ConcatAssociative

\* An element that moves from the head of the second part to the end of the
\* first leaves the whole as it is.
LEMMA ConcatMove ==
    ASSUME NEW S, NEW q \in Seq(S), NEW r \in Seq(S), r # <<>>
    PROVE  Append(q, Head(r)) \o Tail(r) = q \o r
<1>1. /\ Head(r) \in S /\ Tail(r) \in Seq(S) /\ <<Head(r)>> \in Seq(S)
      /\ r = <<Head(r)>> \o Tail(r)
    OBVIOUS
<1>2. Append(q, Head(r)) = q \o <<Head(r)>>
    BY <1>1, AppendIsConcat
<1>3. (q \o <<Head(r)>>) \o Tail(r) = q \o (<<Head(r)>> \o Tail(r))
    BY <1>1, ConcatAssociative
<1> QED
    BY <1>1, <1>2, <1>3

\* The pump's next event at the end of a tail, or an event that is not the
\* pump's.
LEMMA OrderedAppend ==
    ASSUME NEW t \in Seq(Event), NEW log \in Seq(Event), IsInjective(log),
           NEW p \in Int, NEW q \in Int, p <= q, NEW all, NEW more, all \subseteq more,
           Ordered(t, log, p, all), NEW e \in Event, e \notin Range(t), e \in more,
           \A m \in DOMAIN log : log[m] = e => p < m /\ m <= q
    PROVE  Ordered(Append(t, e), log, q, more)
<1> DEFINE l == Len(t)
           u == Append(t, e)
<1>1. /\ l \in Nat /\ DOMAIN t = 1..l /\ DOMAIN u = 1..(l + 1)
      /\ \A i \in 1..l : u[i] = t[i] /\ t[i] # e
      /\ u[l + 1] = e
    BY AppendAt DEF Range
<1>2. Range(u) = Range(t) \union {e}
    BY RangeAppend
<1>3. DOMAIN log \subseteq Int
    OBVIOUS
<1> HIDE DEF l, u
<1>4. IsInjective(u)
    BY <1>1 DEF Ordered, IsInjective
<1>5. Range(u) \subseteq more
    BY <1>2 DEF Ordered
<1>6. ASSUME NEW i \in DOMAIN u, NEW m \in DOMAIN log, u[i] = log[m]
      PROVE  m <= q
    BY <1>1, <1>3, <1>6 DEF Ordered
<1>7. ASSUME NEW i \in DOMAIN u, NEW j \in DOMAIN u,
             NEW m \in DOMAIN log, NEW n \in DOMAIN log,
             u[i] = log[m], u[j] = log[n], m < n
      PROVE  i < j
    <2>1. CASE i \in 1..l /\ j \in 1..l
        BY <1>1, <1>7, <2>1 DEF Ordered
    <2>2. CASE i \in 1..l /\ j = l + 1
        BY <1>1, <2>2
    <2>3. CASE i = l + 1 /\ j \in 1..l
        <3>1. n <= p /\ p < m
            BY <1>1, <1>7, <2>3 DEF Ordered
        <3> QED
            BY <1>3, <1>7, <3>1
    <2>4. CASE i = l + 1 /\ j = l + 1
        BY <1>3, <1>7, <2>4 DEF IsInjective
    <2> QED
        BY <1>1, <2>1, <2>2, <2>3, <2>4
<1> QED
    BY <1>4, <1>5, <1>6, <1>7 DEF Ordered, u

\* A longer log whose new event is in no tail.
LEMMA OrderedLonger ==
    ASSUME NEW t, NEW log \in Seq(Event), NEW p, NEW all,
           Ordered(t, log, p, all), NEW e \in Event, e \notin all
    PROVE  Ordered(t, Append(log, e), p, all \union {e})
<1> DEFINE l == Len(log)
           u == Append(log, e)
<1>1. /\ l \in Nat /\ DOMAIN log = 1..l /\ DOMAIN u = 1..(l + 1)
      /\ \A m \in 1..l : u[m] = log[m]
      /\ u[l + 1] = e
    BY AppendAt
<1>2. \A i \in DOMAIN t : t[i] # e
    BY DEF Ordered, Range
<1> HIDE DEF l, u
<1>3. \A i \in DOMAIN t, m \in DOMAIN u : t[i] = u[m] => m \in DOMAIN log /\ t[i] = log[m]
    BY <1>1, <1>2
<1>4. Ordered(t, u, p, all \union {e})
    BY <1>3 DEF Ordered
<1> QED
    BY <1>4 DEF u

\* More events published or added.
LEMMA OrderedLater ==
    ASSUME NEW t, NEW log \in Seq(Event), NEW p \in Int, NEW q \in Int, p <= q,
           NEW all, NEW more, all \subseteq more, Ordered(t, log, p, all)
    PROVE  Ordered(t, log, q, more)
<1>1. DOMAIN log \subseteq Int
    OBVIOUS
<1> QED
    BY <1>1 DEF Ordered

-----------------------------------------------------------------------------
(* Types.                                                                  *)

\* What the replay sends comes from the ring.
LEMMA AfterRing ==
    ASSUME TypeOK, NEW since
    PROVE  After(since) \in Seq(Event) /\ Range(After(since)) \subseteq Range(ring)
BY FilterRange DEF After, TypeOK

\* The ring after an append.
LEMMA PushedRing ==
    ASSUME TypeOK, NEW e \in Event
    PROVE  /\ Pushed(e) \in Seq(Event) /\ Len(Pushed(e)) <= RingSize
           /\ Range(Pushed(e)) \subseteq Range(ring) \union {e}
<1>1. ring \in Seq(Event) /\ Len(ring) <= RingSize /\ RingSize \in Nat \ {0}
    BY StreamAssumption DEF TypeOK
<1>2. CASE Len(ring) < RingSize
    BY <1>1, <1>2, RangeAppend DEF Pushed
<1>3. CASE ~ (Len(ring) < RingSize)
    <2> DEFINE q == Tail(ring)
    <2>1. ring # <<>> /\ q \in Seq(Event) /\ Len(q) = Len(ring) - 1
        BY <1>1, <1>3
    <2>2. Range(q) \subseteq Range(ring)
        BY <1>1, <2>1, RangeTail
    <2>3. Pushed(e) = Append(q, e)
        BY <1>3 DEF Pushed
    <2> HIDE DEF q
    <2>4. Range(Append(q, e)) = Range(q) \union {e}
        BY <2>1, RangeAppend
    <2> QED
        BY <1>1, <2>1, <2>2, <2>3, <2>4
<1> QED
    BY <1>2, <1>3

\* The queues and the hub after a publish.
LEMMA PublishType ==
    ASSUME TypeOK, NEW e \in Event, Publish(e)
    PROVE  /\ subq' \in [Conn -> Seq(Event)]
           /\ \A c \in Conn : Len(subq'[c]) <= SubQueueSize
           /\ subs' \in SUBSET Conn /\ cut' \in SUBSET Conn
<1>1. subq' = [c \in Conn |-> IF c \in subs \ {d \in subs : Len(subq[d]) = SubQueueSize}
                               THEN Append(subq[c], e) ELSE subq[c]]
    BY DEF Publish
<1>2. ASSUME NEW c \in Conn
      PROVE  subq'[c] \in Seq(Event) /\ Len(subq'[c]) <= SubQueueSize
    <2>1. subq[c] \in Seq(Event) /\ Len(subq[c]) <= SubQueueSize /\ Len(subq[c]) \in Nat
        BY DEF TypeOK
    <2> QED
        BY <1>1, <2>1, StreamAssumption
<1> QED
    BY <1>1, <1>2 DEF Publish, TypeOK

\* Every step keeps the types.
LEMMA TypeStep == TypeOK /\ [Next]_vars => TypeOK'
<1> SUFFICES ASSUME TypeOK, [Next]_vars
             PROVE  TypeOK'
    OBVIOUS
<1> USE DEF source, sockets
<1>1. CASE UNCHANGED vars
    BY <1>1 DEF TypeOK, vars
<1>2. ASSUME NEW e \in Event, PumpAdd(e)
      PROVE  TypeOK'
    <2>1. ring' \in Seq(Event) /\ Len(ring') <= RingSize
        BY <1>2, PushedRing DEF PumpAdd
    <2>2. due' \in [Conn -> SUBSET Event] /\ pumpLog' \in Seq(Event)
        BY <1>2 DEF PumpAdd, Owed, TypeOK
    <2> QED
        BY <1>2, <2>1, <2>2 DEF PumpAdd, TypeOK
<1>3. ASSUME NEW e \in Event, Emit(e)
      PROVE  TypeOK'
    <2>1. ring' \in Seq(Event) /\ Len(ring') <= RingSize
        BY <1>3, PushedRing DEF Emit
    <2>2. due' \in [Conn -> SUBSET Event]
        BY <1>3 DEF Emit, Owed, TypeOK
    <2>3. /\ subq' \in [Conn -> Seq(Event)] /\ \A c \in Conn : Len(subq'[c]) <= SubQueueSize
          /\ subs' \in SUBSET Conn /\ cut' \in SUBSET Conn
        BY <1>3, PublishType DEF Emit
    <2> QED
        BY <1>3, <2>1, <2>2, <2>3 DEF Emit, TypeOK
<1>4. CASE PumpSchedule
    <2>1. scheduled' \in Seq(Event)
        BY <1>4 DEF PumpSchedule, TypeOK
    <2> QED
        BY <1>4, <2>1 DEF PumpSchedule, TypeOK
<1>5. CASE LoopPublish
    <2>1. Head(scheduled) \in Event /\ scheduled' \in Seq(Event)
        BY <1>5 DEF LoopPublish, TypeOK
    <2>2. /\ subq' \in [Conn -> Seq(Event)] /\ \A c \in Conn : Len(subq'[c]) <= SubQueueSize
          /\ subs' \in SUBSET Conn /\ cut' \in SUBSET Conn
        BY <1>5, <2>1, PublishType DEF LoopPublish
    <2> QED
        BY <1>5, <2>1, <2>2 DEF LoopPublish, TypeOK
<1>6. ASSUME NEW c \in Conn, NEW replay \in BOOLEAN, NEW since, Subscribe(c, replay, since)
      PROVE  TypeOK'
    <2> DEFINE first == IF replay THEN After(since) ELSE <<>>
               owed == IF replay THEN Range(After(since)) ELSE {}
    <2>1. first \in Seq(Event)
        BY AfterRing
    <2>2. owed \in SUBSET Event /\ Unpublished \in SUBSET Event
        BY AfterRing DEF Unpublished, Range, TypeOK
    <2>3. todo' = [todo EXCEPT ![c] = first] /\ due' = [due EXCEPT ![c] = owed]
        BY <1>6 DEF Subscribe
    <2> HIDE DEF first, owed
    <2> QED
        BY <1>6, <2>1, <2>2, <2>3 DEF Subscribe, TypeOK
<1>7. ASSUME NEW c \in Conn, ReplaySend(c)
      PROVE  TypeOK'
    <2>1. /\ Head(todo[c]) \in Event /\ Tail(todo[c]) \in Seq(Event)
          /\ Append(replayed[c], Head(todo[c])) \in Seq(Event)
        BY <1>7 DEF ReplaySend, TypeOK
    <2> QED
        BY <1>7, <2>1 DEF ReplaySend, TypeOK
<1>8. ASSUME NEW c \in Conn, TailSend(c)
      PROVE  TypeOK'
    <2>1. /\ Head(subq[c]) \in Event /\ Tail(subq[c]) \in Seq(Event)
          /\ Append(tailed[c], Head(subq[c])) \in Seq(Event)
          /\ Len(Tail(subq[c])) <= SubQueueSize
        BY <1>8, StreamAssumption DEF TailSend, TypeOK
    <2> QED
        BY <1>8, <2>1 DEF TailSend, TypeOK
<1>9. ASSUME NEW c \in Conn, SendDone(c) \/ SendFail(c)
      PROVE  TypeOK'
    BY <1>9 DEF SendDone, SendFail, TypeOK
<1> QED
    BY <1>1, <1>2, <1>3, <1>4, <1>5, <1>6, <1>7, <1>8, <1>9 DEF Next, Send

-----------------------------------------------------------------------------
(* What the steps do to the hub's queues and to what is on its way to it.  *)

\* A published event goes to the end of the queue of each subscriber that is
\* kept, and nowhere else.
LEMMA PublishQueues ==
    ASSUME TypeOK, NEW e \in Event, Publish(e), NEW c \in Conn
    PROVE  /\ c \in subs' => c \in subs /\ subq'[c] = Append(subq[c], e)
           /\ \/ subq'[c] = subq[c]
              \/ c \in subs /\ subq'[c] = Append(subq[c], e)
           /\ Range(subq[c]) \subseteq Range(subq'[c])
           /\ c \in subs' => Range(subq'[c]) = Range(subq[c]) \union {e}
<1>1. subq'[c] = IF c \in subs' THEN Append(subq[c], e) ELSE subq[c]
    BY DEF Publish
<1>2. subs' \subseteq subs
    BY DEF Publish
<1>3. Range(Append(subq[c], e)) = Range(subq[c]) \union {e}
    BY RangeAppend DEF TypeOK
<1> QED
    BY <1>1, <1>2, <1>3

\* What has been added and not published after a step.
LEMMA UnpublishedStep ==
    ASSUME TypeOK, [Next]_vars
    PROVE  /\ \A e \in Event : PumpAdd(e) => Unpublished' = Unpublished \union {e}
           /\ PumpSchedule => Unpublished' = Unpublished
           /\ LoopPublish => Unpublished = Unpublished' \union {Head(scheduled)}
<1>1. ASSUME NEW e \in Event, PumpAdd(e)
      PROVE  Unpublished' = Unpublished \union {e}
    BY <1>1, StreamAssumption DEF PumpAdd, Unpublished
<1>2. ASSUME PumpSchedule
      PROVE  Unpublished' = Unpublished
    <2>1. /\ pumpHolds \in Event /\ pumpHolds' = NoEvent /\ scheduled \in Seq(Event)
          /\ scheduled' = Append(scheduled, pumpHolds)
        BY <1>2 DEF PumpSchedule, TypeOK
    <2>2. Range(scheduled') = Range(scheduled) \union {pumpHolds}
        BY <2>1, RangeAppend
    <2> QED
        BY <2>1, <2>2, StreamAssumption DEF Unpublished
<1>3. ASSUME LoopPublish
      PROVE  Unpublished = Unpublished' \union {Head(scheduled)}
    <2>1. Range(scheduled) = {Head(scheduled)} \union Range(scheduled')
        BY <1>3, RangeTail DEF LoopPublish, TypeOK
    <2> QED
        BY <1>3, <2>1 DEF LoopPublish, Unpublished, source
<1> QED
    BY <1>1, <1>2, <1>3

-----------------------------------------------------------------------------
(* No gap.                                                                 *)

\* Every step keeps the hub's subscribers and what they are owed.
LEMMA NoGapStep == TypeOK /\ SubsOK /\ OwedOK /\ [Next]_vars => SubsOK' /\ OwedOK'
<1> SUFFICES ASSUME TypeOK, SubsOK, OwedOK, [Next]_vars
             PROVE  SubsOK' /\ OwedOK'
    OBVIOUS
<1> USE DEF source, sockets
<1>1. CASE UNCHANGED vars
    BY <1>1 DEF SubsOK, OwedOK, Unpublished, vars
<1>2. ASSUME NEW e \in Event, PumpAdd(e)
      PROVE  SubsOK' /\ OwedOK'
    <2>1. SubsOK'
        BY <1>2 DEF PumpAdd, SubsOK
    <2>2. Unpublished' = Unpublished \union {e}
        BY <1>2, UnpublishedStep
    <2>3. OwedOK'
        BY <1>2, <2>2 DEF PumpAdd, Owed, OwedOK, TypeOK
    <2> QED
        BY <2>1, <2>3
<1>3. ASSUME NEW e \in Event, Publish(e), UNCHANGED <<ws, todo, replayed, tailed>>,
             \A c \in Conn : due'[c] \subseteq due[c] \union {e},
             Unpublished \subseteq Unpublished' \union {e}
      PROVE  SubsOK' /\ OwedOK'
    <2>1. subs' = {c \in Conn : ws'[c] = "open" /\ c \notin cut'}
        BY <1>3 DEF Publish, SubsOK
    <2>2. \A c \in Conn : ws[c] = "off" => c \notin subs /\ c \notin cut' /\ subq'[c] = subq[c]
        BY <1>3 DEF Publish, SubsOK
    <2>3. SubsOK'
        BY <1>3, <2>1, <2>2 DEF SubsOK
    <2>4. OwedOK'
        <3> SUFFICES ASSUME NEW c \in subs'
                     PROVE  due'[c] \subseteq Range(replayed[c]) \union Range(todo[c])
                              \union Range(tailed[c]) \union Range(subq'[c]) \union Unpublished'
            BY <1>3 DEF OwedOK
        <3>1. c \in Conn /\ c \in subs /\ Range(subq'[c]) = Range(subq[c]) \union {e}
            BY <1>3, <2>1, PublishQueues
        <3> QED
            BY <1>3, <3>1 DEF OwedOK
    <2> QED
        BY <2>3, <2>4
<1>4. ASSUME NEW e \in Event, Emit(e)
      PROVE  SubsOK' /\ OwedOK'
    <2>1. \A c \in Conn : due'[c] \subseteq due[c] \union {e}
        BY <1>4 DEF Emit, Owed
    <2>2. Unpublished' = Unpublished
        BY <1>4 DEF Emit, Unpublished
    <2> QED
        BY <1>3, <1>4, <2>1, <2>2 DEF Emit
<1>5. CASE LoopPublish
    <2>1. Head(scheduled) \in Event
        BY <1>5 DEF LoopPublish, TypeOK
    <2>2. Unpublished = Unpublished' \union {Head(scheduled)}
        BY <1>5, UnpublishedStep
    <2> QED
        BY <1>3, <1>5, <2>1, <2>2 DEF LoopPublish
<1>6. CASE PumpSchedule
    <2>1. Unpublished' = Unpublished
        BY <1>6, UnpublishedStep
    <2> QED
        BY <1>6, <2>1 DEF PumpSchedule, SubsOK, OwedOK
<1>7. ASSUME UNCHANGED <<scheduled, pumpHolds>>
      PROVE  Unpublished' = Unpublished
    BY <1>7 DEF Unpublished
<1>8. ASSUME NEW c \in Conn, NEW replay \in BOOLEAN, NEW since, Subscribe(c, replay, since)
      PROVE  SubsOK' /\ OwedOK'
    <2>1. SubsOK'
        BY <1>8 DEF Subscribe, SubsOK, TypeOK
    <2>2. due'[c] \subseteq Range(todo'[c])
        BY <1>8 DEF Subscribe, TypeOK
    <2>3. \A d \in Conn : d # c => /\ d \in subs' <=> d \in subs
                                   /\ due'[d] = due[d] /\ todo'[d] = todo[d]
        BY <1>8 DEF Subscribe, TypeOK
    <2>4. UNCHANGED <<replayed, tailed, subq, scheduled, pumpHolds>>
        BY <1>8 DEF Subscribe
    <2>5. OwedOK'
        BY <1>7, <2>1, <2>2, <2>3, <2>4 DEF OwedOK, SubsOK
    <2> QED
        BY <2>1, <2>5
<1>9. ASSUME NEW c \in Conn, ReplaySend(c)
      PROVE  SubsOK' /\ OwedOK'
    <2>1. SubsOK'
        BY <1>9 DEF ReplaySend, SubsOK
    <2>2. Range(todo[c]) = {Head(todo[c])} \union Range(Tail(todo[c])) /\ Head(todo[c]) \in Event
        BY <1>9, RangeTail DEF ReplaySend, TypeOK
    <2>3. Range(Append(replayed[c], Head(todo[c]))) = Range(replayed[c]) \union {Head(todo[c])}
        BY <2>2, RangeAppend DEF TypeOK
    <2>4. /\ todo'[c] = Tail(todo[c]) /\ replayed'[c] = Append(replayed[c], Head(todo[c]))
          /\ \A d \in Conn : d # c => todo'[d] = todo[d] /\ replayed'[d] = replayed[d]
        BY <1>9 DEF ReplaySend, TypeOK
    <2>5. UNCHANGED <<subs, due, tailed, subq, scheduled, pumpHolds>>
        BY <1>9 DEF ReplaySend
    <2>6. \A d \in Conn : Range(replayed'[d]) \union Range(todo'[d])
                            = Range(replayed[d]) \union Range(todo[d])
        BY <2>2, <2>3, <2>4
    <2>7. OwedOK'
        BY <1>7, <2>5, <2>6 DEF OwedOK, TypeOK
    <2> QED
        BY <2>1, <2>7
<1>10. ASSUME NEW c \in Conn, TailSend(c)
      PROVE  SubsOK' /\ OwedOK'
    <2>1. SubsOK'
        BY <1>10 DEF TailSend, SubsOK
    <2>2. Range(subq[c]) = {Head(subq[c])} \union Range(Tail(subq[c])) /\ Head(subq[c]) \in Event
        BY <1>10, RangeTail DEF TailSend, TypeOK
    <2>3. Range(Append(tailed[c], Head(subq[c]))) = Range(tailed[c]) \union {Head(subq[c])}
        BY <2>2, RangeAppend DEF TypeOK
    <2>4. /\ subq'[c] = Tail(subq[c]) /\ tailed'[c] = Append(tailed[c], Head(subq[c]))
          /\ \A d \in Conn : d # c => subq'[d] = subq[d] /\ tailed'[d] = tailed[d]
        BY <1>10 DEF TailSend, TypeOK
    <2>5. UNCHANGED <<subs, due, replayed, todo, scheduled, pumpHolds>>
        BY <1>10 DEF TailSend
    <2>6. \A d \in Conn : Range(tailed'[d]) \union Range(subq'[d])
                            = Range(tailed[d]) \union Range(subq[d])
        BY <2>2, <2>3, <2>4
    <2>7. ASSUME NEW d \in subs', NEW e \in due'[d], e \notin Unpublished'
          PROVE  e \in Range(replayed'[d]) \union Range(todo'[d])
                       \union Range(tailed'[d]) \union Range(subq'[d])
        <3>1. d \in Conn /\ d \in subs /\ e \in due[d] /\ e \notin Unpublished
            BY <1>7, <2>5, <2>7 DEF TypeOK
        <3>2. \/ e \in Range(replayed[d]) \union Range(todo[d])
              \/ e \in Range(tailed[d]) \union Range(subq[d])
            BY <3>1 DEF OwedOK
        <3> QED
            BY <2>5, <2>6, <3>1, <3>2
    <2>8. OwedOK'
        BY <2>7 DEF OwedOK
    <2> QED
        BY <2>1, <2>8
<1>11. ASSUME NEW c \in Conn, SendDone(c) \/ SendFail(c)
      PROVE  SubsOK' /\ OwedOK'
    BY <1>7, <1>11 DEF SendDone, SendFail, SubsOK, OwedOK, TypeOK
<1> QED
    BY <1>1, <1>2, <1>4, <1>5, <1>6, <1>8, <1>9, <1>10, <1>11 DEF Next, Send

-----------------------------------------------------------------------------
(* The order of the tail.                                                  *)

\* The pump's log, its schedule and its count of published events are numbers
\* and sequences of the sizes the arithmetic needs.
LEMMA Counts ==
    ASSUME TypeOK
    PROVE  /\ Len(pumpLog) \in Nat /\ DOMAIN pumpLog = 1..Len(pumpLog)
           /\ Len(scheduled) \in Nat /\ DOMAIN scheduled = 1..Len(scheduled)
           /\ Published \in Int
           /\ pumpHolds = NoEvent => Published + Len(scheduled) = Len(pumpLog)
           /\ pumpHolds # NoEvent => Published + Len(scheduled) + 1 = Len(pumpLog)
BY DEF TypeOK, Published

\* What the steps do to the count of published events.
LEMMA PublishedStep ==
    ASSUME TypeOK, [Next]_vars
    PROVE  /\ \A e \in Event : PumpAdd(e) => Published' = Published
           /\ PumpSchedule => Published' = Published
           /\ LoopPublish => Published' = Published + 1
<1>1. ASSUME NEW e \in Event, PumpAdd(e)
      PROVE  Published' = Published
    <2>1. Len(pumpLog') = Len(pumpLog) + 1
        BY <1>1, AppendAt DEF PumpAdd, TypeOK
    <2> QED
        BY <1>1, <2>1, Counts, StreamAssumption DEF PumpAdd, Published
<1>2. ASSUME PumpSchedule
      PROVE  Published' = Published
    <2>1. pumpHolds \in Event /\ Len(scheduled') = Len(scheduled) + 1
        BY <1>2, AppendAt DEF PumpSchedule, TypeOK
    <2>2. /\ Published' = Len(pumpLog) - Len(scheduled') - 0
          /\ Published = Len(pumpLog) - Len(scheduled) - 1
        BY <1>2 DEF PumpSchedule, Published
    <2> QED
        BY <2>1, <2>2, Counts
<1>3. ASSUME LoopPublish
      PROVE  Published' = Published + 1
    <2>1. Len(scheduled') = Len(scheduled) - 1
        BY <1>3 DEF LoopPublish, TypeOK
    <2> DEFINE held == IF pumpHolds = NoEvent THEN 0 ELSE 1
    <2>2. /\ Published' = Len(pumpLog) - Len(scheduled') - held
          /\ Published = Len(pumpLog) - Len(scheduled) - held
        BY <1>3 DEF LoopPublish, Published, source
    <2>3. held \in Nat
        OBVIOUS
    <2> HIDE DEF held
    <2> QED
        BY <2>1, <2>2, <2>3, Counts
<1> QED
    BY <1>1, <1>2, <1>3

\* The step that publishes takes the log's next event.
LEMMA NextOfLog ==
    ASSUME TypeOK, PumpOK, LoopPublish
    PROVE  /\ Published + 1 \in DOMAIN pumpLog
           /\ Head(scheduled) = pumpLog[Published + 1]
<1>1. scheduled \in Seq(Event) /\ scheduled # <<>>
    BY DEF LoopPublish, TypeOK
<1>2. Len(scheduled) >= 1 /\ Head(scheduled) = scheduled[1]
    BY <1>1
<1> QED
    BY <1>2, Counts DEF PumpOK

\* Every step keeps the pump's log.
LEMMA PumpStep == TypeOK /\ PumpOK /\ [Next]_vars => PumpOK'
<1> SUFFICES ASSUME TypeOK, PumpOK, [Next]_vars
             PROVE  PumpOK'
    OBVIOUS
<1> USE DEF source, sockets
<1>1. ASSUME UNCHANGED <<pumpHolds, scheduled, pumpLog, emitted, ring>>
      PROVE  PumpOK'
    BY <1>1 DEF PumpOK, Published, Added
<1>2. ASSUME NEW e \in Event, PumpAdd(e)
      PROVE  PumpOK'
    <2>1. /\ Len(pumpLog') = Len(pumpLog) + 1 /\ DOMAIN pumpLog' = 1..(Len(pumpLog) + 1)
          /\ \A i \in 1..Len(pumpLog) : pumpLog'[i] = pumpLog[i]
          /\ pumpLog'[Len(pumpLog) + 1] = e
        BY <1>2, AppendAt DEF PumpAdd, TypeOK
    <2>2. Range(pumpLog') = Range(pumpLog) \union {e} /\ e \notin Range(pumpLog) \union emitted
        BY <1>2, RangeAppend DEF PumpAdd, Added, TypeOK
    <2>3. Published' = Published /\ Published + Len(scheduled) = Len(pumpLog)
        BY <1>2, PublishedStep, Counts DEF PumpAdd
    <2>4. \A i \in DOMAIN scheduled' : scheduled'[i] = pumpLog'[Published' + i]
        BY <1>2, <2>1, <2>3, Counts DEF PumpAdd, PumpOK
    <2>5. \A i \in 1..Len(pumpLog) : pumpLog[i] # e
        BY <2>2, Counts DEF Range
    <2>6. IsInjective(pumpLog')
        BY <2>1, <2>5, Counts DEF PumpOK, IsInjective
    <2>7. pumpHolds' = pumpLog'[Len(pumpLog')]
        BY <1>2, <2>1 DEF PumpAdd
    <2>8. Range(ring') \subseteq Added'
        BY <1>2, <2>2, PushedRing DEF PumpAdd, PumpOK, Added
    <2> QED
        BY <1>2, <2>2, <2>3, <2>4, <2>6, <2>7, <2>8 DEF PumpAdd, PumpOK
<1>3. ASSUME NEW e \in Event, Emit(e)
      PROVE  PumpOK'
    <2>1. UNCHANGED <<pumpHolds, scheduled, pumpLog, Published>>
        BY <1>3 DEF Emit, Published
    <2>2. emitted' = emitted \union {e} /\ e \notin Range(pumpLog)
        BY <1>3 DEF Emit, Added
    <2>3. Range(ring') \subseteq Added'
        BY <1>3, <2>1, <2>2, PushedRing DEF Emit, PumpOK, Added
    <2> QED
        BY <2>1, <2>2, <2>3 DEF PumpOK
<1>4. CASE PumpSchedule
    <2>1. /\ Len(scheduled') = Len(scheduled) + 1
          /\ DOMAIN scheduled' = 1..(Len(scheduled) + 1)
          /\ \A i \in 1..Len(scheduled) : scheduled'[i] = scheduled[i]
          /\ scheduled'[Len(scheduled) + 1] = pumpHolds
        BY <1>4, AppendAt DEF PumpSchedule, TypeOK
    <2>2. Published' = Published /\ Published + Len(scheduled) + 1 = Len(pumpLog)
        BY <1>4, PublishedStep, Counts DEF PumpSchedule
    <2>3. pumpHolds = pumpLog[Published + (Len(scheduled) + 1)]
        BY <1>4, <2>2, Counts DEF PumpSchedule, PumpOK
    <2>4. \A i \in DOMAIN scheduled' : scheduled'[i] = pumpLog[Published + i]
        BY <2>1, <2>3, Counts DEF PumpOK
    <2> QED
        BY <1>4, <2>2, <2>4 DEF PumpSchedule, PumpOK, Added
<1>5. CASE LoopPublish
    <2>1. /\ scheduled \in Seq(Event) /\ scheduled # <<>> /\ scheduled' = Tail(scheduled)
          /\ UNCHANGED <<ring, pumpHolds, pumpLog, emitted>>
        BY <1>5 DEF LoopPublish, TypeOK
    <2>2. \A i \in DOMAIN scheduled' : i \in Nat /\ i + 1 \in DOMAIN scheduled
                                       /\ scheduled'[i] = scheduled[i + 1]
        BY <2>1
    <2>3. Published' = Published + 1
        BY <1>5, PublishedStep
    <2>4. \A i \in DOMAIN scheduled' : scheduled'[i] = pumpLog[Published' + i]
        BY <2>2, <2>3, Counts DEF PumpOK
    <2> QED
        BY <2>1, <2>3, <2>4, Counts DEF PumpOK, Added
<1>6. ASSUME NEW c \in Conn, Send(c) \/ SendFail(c)
      PROVE  PumpOK'
    BY <1>1, <1>6 DEF Send, ReplaySend, TailSend, SendDone, SendFail
<1>7. ASSUME NEW c \in Conn, NEW replay \in BOOLEAN, NEW since, Subscribe(c, replay, since)
      PROVE  PumpOK'
    BY <1>1, <1>7 DEF Subscribe
<1> QED
    BY <1>1, <1>2, <1>3, <1>4, <1>5, <1>6, <1>7 DEF Next, vars

\* A tail is a sequence of events.
LEMMA TailType ==
    ASSUME TypeOK, NEW c \in Conn
    PROVE  Tailing(c) \in Seq(Event)
BY ConcatProperties DEF Tailing, TypeOK

\* A send moves an event from the queue to the end of what was sent.
LEMMA TailKept ==
    ASSUME TypeOK, NEW c \in Conn, NEW d \in Conn, TailSend(d)
    PROVE  Tailing(c)' = Tailing(c)
<1>1. CASE c = d
    <2>1. /\ tailed'[c] = Append(tailed[c], Head(subq[c]))
          /\ subq'[c] = Tail(subq[c]) /\ subq[c] # <<>>
          /\ tailed[c] \in Seq(Event) /\ subq[c] \in Seq(Event)
        BY <1>1 DEF TailSend, TypeOK
    <2> QED
        BY <2>1, ConcatMove DEF Tailing
<1>2. CASE c # d
    BY <1>2 DEF TailSend, Tailing, TypeOK
<1> QED
    BY <1>1, <1>2

\* The event that a publish appends is new to every tail, and it is the log's next
\* one or none of the log.
LEMMA TailPublish ==
    ASSUME TypeOK, IsInjective(pumpLog), NEW e \in Event, Publish(e),
           UNCHANGED <<pumpLog, tailed>>,
           Published' \in Int, Published <= Published', Added \subseteq Added', e \in Added',
           \A m \in DOMAIN pumpLog : pumpLog[m] = e => Published < m /\ m <= Published',
           NEW c \in Conn, TailOK(c), e \notin Range(Tailing(c))
    PROVE  TailOK(c)'
<1> DEFINE t == Tailing(c)
<1>1. t \in Seq(Event) /\ Published \in Int /\ pumpLog \in Seq(Event)
    BY TailType, Counts DEF TypeOK
<1>2. CASE subq'[c] = subq[c]
    <2>1. Tailing(c)' = t
        BY <1>2 DEF Tailing
    <2>2. Ordered(t, pumpLog, Published', Added')
        BY <1>1, OrderedLater DEF TailOK
    <2> QED
        BY <2>1, <2>2 DEF TailOK
<1>3. CASE subq'[c] = Append(subq[c], e)
    <2>1. Tailing(c)' = Append(t, e)
        BY <1>3, ConcatAppend DEF Tailing, TypeOK
    <2>2. Ordered(Append(t, e), pumpLog, Published', Added')
        BY <1>1, OrderedAppend DEF TailOK
    <2> QED
        BY <2>1, <2>2 DEF TailOK
<1> QED
    BY <1>2, <1>3, PublishQueues

\* Every step keeps the order of a tail.
LEMMA TailStep ==
    ASSUME TypeOK, SubsOK, PumpOK, [Next]_vars, NEW c \in Conn, TailOK(c)
    PROVE  TailOK(c)'
<1> USE DEF source, sockets
<1>1. /\ pumpLog \in Seq(Event) /\ Published \in Int /\ IsInjective(pumpLog)
      /\ Tailing(c) \in Seq(Event)
      /\ Ordered(Tailing(c), pumpLog, Published, Added)
    BY Counts, TailType DEF TypeOK, PumpOK, TailOK
<1>2. ASSUME UNCHANGED <<pumpHolds, scheduled, pumpLog, emitted>>, Tailing(c)' = Tailing(c)
      PROVE  TailOK(c)'
    BY <1>2, <1>1 DEF TailOK, Published, Added
<1>3. ASSUME NEW e \in Event, PumpAdd(e)
      PROVE  TailOK(c)'
    <2>1. /\ pumpLog' = Append(pumpLog, e) /\ e \notin Added
          /\ Tailing(c)' = Tailing(c) /\ Published' = Published
        BY <1>3, PublishedStep DEF PumpAdd, Tailing
    <2>2. Added' = Added \union {e}
        BY <1>1, <1>3, RangeAppend DEF PumpAdd, Added
    <2>3. Ordered(Tailing(c), Append(pumpLog, e), Published, Added \union {e})
        BY <1>1, <2>1, OrderedLonger
    <2> QED
        BY <2>1, <2>2, <2>3 DEF TailOK
<1>4. ASSUME NEW e \in Event, Emit(e)
      PROVE  TailOK(c)'
    <2>1. Added' = Added \union {e} /\ e \notin Added /\ Published' = Published
        BY <1>4 DEF Emit, Added, Published
    <2>2. \A m \in DOMAIN pumpLog : pumpLog[m] # e
        BY <2>1 DEF Added, Range
    <2>3. e \notin Range(Tailing(c))
        BY <1>1, <2>1 DEF Ordered
    <2>4. Publish(e) /\ UNCHANGED <<pumpLog, tailed>>
        BY <1>4 DEF Emit
    <2> QED
        BY <1>1, <2>1, <2>2, <2>3, <2>4, TailPublish
<1>5. CASE PumpSchedule
    <2>1. Published' = Published
        BY <1>5, PublishedStep
    <2>2. UNCHANGED <<pumpLog, emitted, tailed, subq>>
        BY <1>5 DEF PumpSchedule
    <2> QED
        BY <1>1, <2>1, <2>2 DEF TailOK, Tailing, Added
<1>6. CASE LoopPublish
    <2> DEFINE e == Head(scheduled)
    <2>1. /\ e \in Event /\ Publish(e) /\ UNCHANGED <<pumpLog, emitted, tailed>>
        BY <1>6 DEF LoopPublish, TypeOK
    <2>2. Published + 1 \in DOMAIN pumpLog /\ e = pumpLog[Published + 1]
        BY <1>6, NextOfLog
    <2>3. Published' = Published + 1
        BY <1>6, PublishedStep
    <2> HIDE DEF e
    <2>4. e \in Added' /\ Added' = Added
        BY <2>1, <2>2 DEF Added, Range
    <2>5. \A m \in DOMAIN pumpLog : pumpLog[m] = e => m = Published + 1
        BY <1>1, <2>2 DEF IsInjective
    <2>6. e \notin Range(Tailing(c))
        BY <1>1, <2>2 DEF Ordered, Range
    <2> QED
        BY <1>1, <2>1, <2>3, <2>4, <2>5, <2>6, TailPublish
<1>7. ASSUME NEW d \in Conn, NEW replay \in BOOLEAN, NEW since, Subscribe(d, replay, since)
      PROVE  TailOK(c)'
    BY <1>2, <1>7 DEF Subscribe, Tailing
<1>8. ASSUME NEW d \in Conn, ReplaySend(d) \/ SendDone(d) \/ SendFail(d)
      PROVE  TailOK(c)'
    BY <1>2, <1>8 DEF ReplaySend, SendDone, SendFail, Tailing
<1>9. ASSUME NEW d \in Conn, TailSend(d)
      PROVE  TailOK(c)'
    <2>1. Tailing(c)' = Tailing(c)
        BY <1>9, TailKept
    <2> QED
        BY <1>2, <1>9, <2>1 DEF TailSend
<1>10. CASE UNCHANGED vars
    BY <1>2, <1>10 DEF vars, Tailing
<1> QED
    BY <1>3, <1>4, <1>5, <1>6, <1>7, <1>8, <1>9, <1>10 DEF Next, Send

\* Every step keeps what the replay and the tail of a connection share.
LEMMA ReplayStep ==
    ASSUME TypeOK, SubsOK, PumpOK, [Next]_vars, NEW c \in Conn, TailOK(c), ReplayOK(c)
    PROVE  ReplayOK(c)'
<1> USE DEF source, sockets
<1>1. /\ Tailing(c) \in Seq(Event) /\ Range(Tailing(c)) \subseteq Added
      /\ Replaying(c) \subseteq Added
      /\ Range(Tailing(c)) \intersect Replaying(c) \subseteq flight[c]
      /\ ws[c] # "off" => Unpublished \intersect Replaying(c) \subseteq flight[c]
    BY TailType DEF TailOK, Ordered, ReplayOK
<1>2. ASSUME Range(Tailing(c)') = Range(Tailing(c)), Replaying(c)' = Replaying(c),
             Unpublished' \intersect Added \subseteq Unpublished, flight'[c] = flight[c],
             Added \subseteq Added', ws'[c] # "off" => ws[c] # "off"
      PROVE  ReplayOK(c)'
    BY <1>1, <1>2 DEF ReplayOK
<1>3. ASSUME NEW e \in Event, Publish(e), UNCHANGED <<ws, todo, replayed, tailed, flight>>,
             Unpublished' \subseteq Unpublished, Added \subseteq Added',
             e \in Added => e \in Unpublished
      PROVE  ReplayOK(c)'
    <2>1. Replaying(c)' = Replaying(c)
        BY <1>3 DEF Replaying
    <2>2. CASE subq'[c] = subq[c]
        <3>1. Tailing(c)' = Tailing(c)
            BY <1>3, <2>2 DEF Tailing
        <3> QED
            BY <1>2, <1>3, <2>1, <3>1
    <2>3. CASE c \in subs /\ subq'[c] = Append(subq[c], e)
        <3>1. Tailing(c)' = Append(Tailing(c), e)
            BY <1>3, <2>3, ConcatAppend DEF Tailing, TypeOK
        <3>2. Range(Tailing(c)') = Range(Tailing(c)) \union {e}
            BY <1>1, <3>1, RangeAppend
        <3>3. ws[c] # "off"
            BY <2>3 DEF SubsOK
        <3>4. e \in Replaying(c) => e \in flight[c]
            BY <1>1, <1>3, <3>3
        <3> QED
            BY <1>1, <1>3, <2>1, <3>2, <3>3, <3>4 DEF ReplayOK
    <2> QED
        BY <1>3, <2>2, <2>3, PublishQueues
<1>4. ASSUME NEW e \in Event, PumpAdd(e)
      PROVE  ReplayOK(c)'
    <2>1. Unpublished' = Unpublished \union {e} /\ e \notin Added
        BY <1>4, UnpublishedStep DEF PumpAdd
    <2>2. Added \subseteq Added'
        BY <1>4, RangeAppend DEF PumpAdd, Added, TypeOK
    <2> QED
        BY <1>2, <1>4, <2>1, <2>2 DEF PumpAdd, Tailing, Replaying
<1>5. ASSUME NEW e \in Event, Emit(e)
      PROVE  ReplayOK(c)'
    <2>1. Unpublished' = Unpublished /\ Added \subseteq Added' /\ e \notin Added
        BY <1>5 DEF Emit, Unpublished, Added
    <2> QED
        BY <1>3, <1>5, <2>1 DEF Emit
<1>6. CASE PumpSchedule
    <2>1. Unpublished' = Unpublished
        BY <1>6, UnpublishedStep
    <2> QED
        BY <1>2, <1>6, <2>1 DEF PumpSchedule, Tailing, Replaying, Added
<1>7. CASE LoopPublish
    <2>1. Head(scheduled) \in Event /\ Unpublished = Unpublished' \union {Head(scheduled)}
        BY <1>7, UnpublishedStep DEF LoopPublish, TypeOK
    <2>2. Added' = Added
        BY <1>7 DEF LoopPublish, Added
    <2> QED
        BY <1>3, <1>7, <2>1, <2>2 DEF LoopPublish
<1>8. ASSUME NEW d \in Conn, NEW replay \in BOOLEAN, NEW since, Subscribe(d, replay, since)
      PROVE  ReplayOK(c)'
    <2>1. /\ UNCHANGED <<replayed, tailed, subq>>
          /\ Unpublished' = Unpublished /\ Added' = Added
        BY <1>8 DEF Subscribe, Unpublished, Added
    <2>2. CASE c # d
        BY <1>2, <1>8, <2>1, <2>2 DEF Subscribe, Tailing, Replaying, TypeOK
    <2>3. CASE c = d
        <3>1. flight'[c] = Unpublished' /\ ws[c] = "off"
            BY <1>8, <2>1, <2>3 DEF Subscribe, TypeOK
        <3>2. replayed[c] = <<>> /\ tailed[c] = <<>> /\ subq[c] = <<>>
            BY <3>1 DEF SubsOK
        <3>3. todo'[c] = IF replay THEN After(since) ELSE <<>>
            BY <1>8, <2>3 DEF Subscribe, TypeOK
        <3>4. Range(todo'[c]) \subseteq Added
            <4>1. Range(After(since)) \subseteq Added
                BY AfterRing DEF PumpOK
            <4> QED
                BY <3>3, <4>1, NoElements
        <3>5. Replaying(c)' \subseteq Added'
            BY <2>1, <3>2, <3>4, NoElements DEF Replaying
        <3>6. Range(Tailing(c)') = {}
            <4>1. Tailing(c)' = <<>>
                BY <2>1, <3>2 DEF Tailing
            <4> QED
                BY <4>1, NoElements
        <3> QED
            BY <3>1, <3>5, <3>6 DEF ReplayOK
    <2> QED
        BY <2>2, <2>3
<1>9. ASSUME NEW d \in Conn, ReplaySend(d)
      PROVE  ReplayOK(c)'
    <2>1. /\ UNCHANGED <<tailed, subq, flight, ws>>
          /\ Unpublished' = Unpublished /\ Added' = Added
        BY <1>9 DEF ReplaySend, Unpublished, Added
    <2>2. Replaying(c)' = Replaying(c)
        <3>1. CASE c # d
            BY <1>9, <3>1 DEF ReplaySend, Replaying, TypeOK
        <3>2. CASE c = d
            <4>1. /\ todo'[c] = Tail(todo[c]) /\ replayed'[c] = Append(replayed[c], Head(todo[c]))
                  /\ todo[c] \in Seq(Event) /\ todo[c] # <<>> /\ replayed[c] \in Seq(Event)
                BY <1>9, <3>2 DEF ReplaySend, TypeOK
            <4>2. Range(todo[c]) = {Head(todo[c])} \union Range(todo'[c]) /\ Head(todo[c]) \in Event
                BY <4>1, RangeTail
            <4>3. Range(replayed'[c]) = Range(replayed[c]) \union {Head(todo[c])}
                BY <4>1, <4>2, RangeAppend
            <4> QED
                BY <4>2, <4>3 DEF Replaying
        <3> QED
            BY <3>1, <3>2
    <2> QED
        BY <1>2, <2>1, <2>2 DEF Tailing
<1>10. ASSUME NEW d \in Conn, TailSend(d)
      PROVE  ReplayOK(c)'
    <2>1. /\ UNCHANGED <<replayed, todo, flight, ws>>
          /\ Unpublished' = Unpublished /\ Added' = Added
        BY <1>10 DEF TailSend, Unpublished, Added
    <2>2. Tailing(c)' = Tailing(c)
        BY <1>10, TailKept
    <2> QED
        BY <1>2, <2>1, <2>2 DEF Replaying
<1>11. ASSUME NEW d \in Conn, SendDone(d) \/ SendFail(d)
      PROVE  ReplayOK(c)'
    <2>1. /\ UNCHANGED <<replayed, todo, tailed, subq, flight>>
          /\ Unpublished' = Unpublished /\ Added' = Added
          /\ ws'[c] # "off" => ws[c] # "off"
        BY <1>11 DEF SendDone, SendFail, Unpublished, Added, TypeOK
    <2> QED
        BY <1>2, <2>1 DEF Tailing, Replaying
<1>12. CASE UNCHANGED vars
    BY <1>2, <1>12 DEF vars, Tailing, Replaying, Unpublished, Added
<1> QED
    BY <1>4, <1>5, <1>6, <1>7, <1>8, <1>9, <1>10, <1>11, <1>12 DEF Next, Send

\* At the start nothing was added and nobody is subscribed.
LEMMA InitOK == Init => IInv
<1> SUFFICES ASSUME Init
             PROVE  IInv
    OBVIOUS
<1>1. <<>> \in Seq(Event) /\ Len(<<>>) = 0
    OBVIOUS
<1>2. TypeOK
    BY <1>1, StreamAssumption DEF Init, TypeOK
<1>3. SubsOK /\ OwedOK
    BY DEF Init, SubsOK, OwedOK
<1>4. Published = 0 /\ Unpublished = {} /\ Added = {}
    BY <1>1, NoElements DEF Init, Published, Unpublished, Added
<1>5. PumpOK
    BY <1>4, NoElements DEF Init, PumpOK, IsInjective
<1>6. ASSUME NEW c \in Conn
      PROVE  TailOK(c) /\ ReplayOK(c)
    <2>1. Tailing(c) = <<>> /\ Replaying(c) = {} /\ pumpLog = <<>>
        BY NoElements DEF Init, Tailing, Replaying
    <2>2. TailOK(c)
        BY <2>1, NoElements DEF TailOK, Ordered, IsInjective
    <2>3. ReplayOK(c)
        BY <1>4, <2>1, NoElements DEF ReplayOK
    <2> QED
        BY <2>2, <2>3
<1> QED
    BY <1>2, <1>3, <1>5, <1>6 DEF IInv

\* Every step keeps the invariant.
LEMMA IInvStep == IInv /\ [Next]_vars => IInv'
BY TypeStep, NoGapStep, PumpStep, TailStep, ReplayStep DEF IInv

\* Every variable keeps its type: the ring and the subscribers' queues stay
\* within their bounds.
THEOREM TypeCorrect == Spec => []TypeOK
<1>1. IInv => TypeOK
    BY DEF IInv
<1> QED
    BY <1>1, InitOK, IInvStep, PTL DEF Spec

\* Whatever a subscriber is owed is sent to it or on its way, across the switch
\* from replay to tail, and the hub's subscribers are the open connections that
\* it has not dropped.
THEOREM NoGapHolds == Spec => []NoGap
<1>1. IInv => NoGap
    BY DEF IInv, SubsOK, OwedOK, NoGap
<1> QED
    BY <1>1, InitOK, IInvStep, PTL DEF Spec

\* A connection gets the pump's events in the pump's order and each once, and
\* sees an event in the replay and again in the tail only if it was on its way
\* to the hub when the connection subscribed.
THEOREM TailInOrderHolds == Spec => []TailInOrder
<1>1. ASSUME IInv, NEW c \in Conn
      PROVE  LET tail == tailed[c] \o subq[c]
             IN  /\ IsInjective(tail)
                 /\ Range(tail) \intersect (Range(replayed[c]) \union Range(todo[c]))
                    \subseteq flight[c]
                 /\ \A i, j \in DOMAIN tail, m, n \in DOMAIN pumpLog :
                       tail[i] = pumpLog[m] /\ tail[j] = pumpLog[n] /\ m < n => i < j
    BY <1>1 DEF IInv, TailOK, Ordered, ReplayOK, Tailing, Replaying
<1>2. IInv => TailInOrder
    BY <1>1 DEF TailInOrder
<1> QED
    BY <1>2, InitOK, IInvStep, PTL DEF Spec
=============================================================================
