----------------------------- MODULE LiveStream -----------------------------
(***************************************************************************)
(* The live stream of one session: the capture callback that appends to    *)
(* the ring and schedules hub.publish on the event loop, emit_event that   *)
(* does both on the loop itself, EventHub with a bounded queue per         *)
(* subscriber (backend/app/store.py), the WebSocket handler that           *)
(* subscribes, replays the ring and tails its queue                        *)
(* (stream_session in backend/app/api_routes.py).                          *)
(*                                                                         *)
(* A step on the event loop is what runs between two awaits.  The hub      *)
(* keeps sessions apart, so one is enough; payloads always serialise.      *)
(***************************************************************************)
EXTENDS Integers, Sequences, Functions, Filters

CONSTANTS Event,         \* events of the session
          Conn,          \* WebSocket connections to it
          NoEvent,       \* the pump holds none
          Null,          \* an absent query parameter
          TsOf,          \* the timestamp of each event
          RingSize,      \* settings.event_ring_size
          SubQueueSize   \* settings.subscriber_queue_size

ASSUME StreamAssumption ==
    /\ NoEvent \notin Event
    /\ TsOf \in [Event -> Nat]
    /\ Null \notin Nat
    /\ RingSize \in Nat \ {0}
    /\ SubQueueSize \in Nat \ {0}

VARIABLES
    ring,        \* the deque of the session
    pumpHolds,   \* event in the ring whose publish is not yet scheduled
    scheduled,   \* publish coroutines waiting on the loop, in order
    subs,        \* hub._subscribers of the session
    ws,          \* per connection: "off", "open", "closed"
    todo,        \* per connection: what is left of the replay
    sending,     \* per connection: the event its send_text is working on
    subq,        \* per connection: its asyncio.Queue
    replayed,    \* history: per connection, what the replay gave to send_text
    tailed,      \* history: per connection, what the tail gave to send_text
    due,         \* history: per connection, events it is owed
    flight,      \* history: per connection, events added but not published
                 \* when it subscribed
    cut,         \* connections the hub has dropped: dropped_subscribers
                 \* is their number
    pumpLog,     \* history: the pump's events in the order it added them
    emitted      \* history: events added by emit_event

source == <<pumpHolds, pumpLog, emitted>>
sockets == <<ws, todo, sending, subq, replayed, tailed, due, flight>>
vars == <<ring, pumpHolds, scheduled, subs, ws, todo, sending, subq,
          replayed, tailed, due, flight, cut, pumpLog, emitted>>

Added == Range(pumpLog) \union emitted

\* Events in the ring that no subscriber's queue has been offered yet.
Unpublished == Range(scheduled) \union ({pumpHolds} \ {NoEvent})

TypeOK ==
    /\ ring \in Seq(Event) /\ Len(ring) <= RingSize
    /\ pumpHolds \in Event \union {NoEvent}
    /\ scheduled \in Seq(Event)
    /\ subs \in SUBSET Conn
    /\ ws \in [Conn -> {"off", "open", "closed"}]
    /\ todo \in [Conn -> Seq(Event)]
    /\ sending \in [Conn -> Event \union {NoEvent}]
    /\ subq \in [Conn -> Seq(Event)]
    /\ \A c \in Conn : Len(subq[c]) <= SubQueueSize
    /\ replayed \in [Conn -> Seq(Event)]
    /\ tailed \in [Conn -> Seq(Event)]
    /\ due \in [Conn -> SUBSET Event]
    /\ flight \in [Conn -> SUBSET Event]
    /\ cut \in SUBSET Conn
    /\ pumpLog \in Seq(Event)
    /\ emitted \in SUBSET Event

Init ==
    /\ ring = <<>>
    /\ pumpHolds = NoEvent
    /\ scheduled = <<>>
    /\ subs = {}
    /\ ws = [c \in Conn |-> "off"]
    /\ todo = [c \in Conn |-> <<>>]
    /\ sending = [c \in Conn |-> NoEvent]
    /\ subq = [c \in Conn |-> <<>>]
    /\ replayed = [c \in Conn |-> <<>>]
    /\ tailed = [c \in Conn |-> <<>>]
    /\ due = [c \in Conn |-> {}]
    /\ flight = [c \in Conn |-> {}]
    /\ cut = {}
    /\ pumpLog = <<>>
    /\ emitted = {}

\* What the replay of a connection with this `since` sends of the ring.
After(since) == Filter(ring, {e \in Event : since = Null \/ TsOf[e] > since})

\* Mutant of the next one: a full queue loses the event and keeps its
\* subscriber.
PublishSkips(e) ==
    /\ subq' = [c \in Conn |-> IF c \in subs /\ Len(subq[c]) < SubQueueSize
                               THEN Append(subq[c], e) ELSE subq[c]]
    /\ UNCHANGED <<subs, cut>>

\* EventHub.publish: put_nowait per subscriber; one whose queue is full leaves
\* the hub, and its handler is told nothing.
Publish(e) ==
    LET full == {c \in subs : Len(subq[c]) = SubQueueSize}
    IN  /\ subq' = [c \in Conn |-> IF c \in subs \ full THEN Append(subq[c], e)
                                  ELSE subq[c]]
        /\ subs' = subs \ full
        /\ cut' = cut \union full

-----------------------------------------------------------------------------
(* Mutants.                                                                *)

\* The callback swallows a failed hand-over to the loop.
PumpScheduleFails ==
    /\ pumpHolds # NoEvent
    /\ pumpHolds' = NoEvent
    /\ UNCHANGED <<ring, scheduled, subs, sockets, cut, pumpLog, emitted>>

\* An event that is sent stays at the head of the queue.
TailSendAgain(c) ==
    /\ ws[c] = "open"
    /\ sending[c] = NoEvent
    /\ todo[c] = <<>>
    /\ subq[c] # <<>>
    /\ Len(tailed[c]) < 3
    /\ sending' = [sending EXCEPT ![c] = Head(subq[c])]
    /\ tailed' = [tailed EXCEPT ![c] = Append(@, Head(subq[c]))]
    /\ UNCHANGED <<ring, source, scheduled, subs, ws, todo, subq, replayed, due,
                   flight, cut>>

-----------------------------------------------------------------------------
(* Sources of events.  The pump is a thread: between its two statements    *)
(* anything may happen on the loop.                                        *)

\* deque(maxlen=RingSize).append
Pushed(e) == IF Len(ring) < RingSize THEN Append(ring, e) ELSE Append(Tail(ring), e)

\* An event is owed to whoever is subscribed when it is added.
Owed(e) == [c \in Conn |-> IF c \in subs THEN due[c] \union {e} ELSE due[c]]

PumpAdd(e) ==
    /\ pumpHolds = NoEvent
    /\ e \notin Added
    /\ ring' = Pushed(e)
    /\ due' = Owed(e)
    /\ pumpHolds' = e
    /\ pumpLog' = Append(pumpLog, e)
    /\ UNCHANGED <<scheduled, subs, ws, todo, sending, subq, replayed, tailed,
                   flight, cut, emitted>>

PumpSchedule ==
    /\ pumpHolds # NoEvent
    /\ scheduled' = Append(scheduled, pumpHolds)
    /\ pumpHolds' = NoEvent
    /\ UNCHANGED <<ring, subs, sockets, cut, pumpLog, emitted>>

LoopPublish ==
    /\ scheduled # <<>>
    /\ scheduled' = Tail(scheduled)
    /\ Publish(Head(scheduled))
    /\ UNCHANGED <<ring, source, ws, todo, sending, replayed, tailed, due, flight>>

Emit(e) ==
    /\ e \notin Added
    /\ ring' = Pushed(e)
    /\ due' = Owed(e)
    /\ emitted' = emitted \union {e}
    /\ Publish(e)
    /\ UNCHANGED <<pumpHolds, pumpLog, scheduled, ws, todo, sending, replayed,
                   tailed, flight>>

-----------------------------------------------------------------------------
(* stream_session.  subscribe() and the copy of the ring have no await     *)
(* between them; every send has.                                           *)

Subscribe(c, replay, since) ==
    /\ ws[c] = "off"
    /\ ws' = [ws EXCEPT ![c] = "open"]
    /\ subs' = subs \union {c}
    /\ todo' = [todo EXCEPT ![c] = IF replay THEN After(since) ELSE <<>>]
    /\ due' = [due EXCEPT ![c] = IF replay THEN Range(After(since)) ELSE {}]
    /\ flight' = [flight EXCEPT ![c] = Unpublished]
    /\ UNCHANGED <<ring, source, scheduled, sending, subq, replayed, tailed, cut>>

\* send_text takes its event from the copy of the ring first, from the queue
\* when that is used up; SendDone is the return of its await.
ReplaySend(c) ==
    /\ ws[c] = "open"
    /\ sending[c] = NoEvent
    /\ todo[c] # <<>>
    /\ sending' = [sending EXCEPT ![c] = Head(todo[c])]
    /\ todo' = [todo EXCEPT ![c] = Tail(@)]
    /\ replayed' = [replayed EXCEPT ![c] = Append(@, Head(todo[c]))]
    /\ UNCHANGED <<ring, source, scheduled, subs, ws, subq, tailed, due, flight,
                   cut>>

TailSend(c) ==
    /\ ws[c] = "open"
    /\ sending[c] = NoEvent
    /\ todo[c] = <<>>
    /\ subq[c] # <<>>
    /\ sending' = [sending EXCEPT ![c] = Head(subq[c])]
    /\ subq' = [subq EXCEPT ![c] = Tail(@)]
    /\ tailed' = [tailed EXCEPT ![c] = Append(@, Head(subq[c]))]
    /\ UNCHANGED <<ring, source, scheduled, subs, ws, todo, replayed, due, flight,
                   cut>>

SendDone(c) ==
    /\ ws[c] = "open"
    /\ sending[c] # NoEvent
    /\ sending' = [sending EXCEPT ![c] = NoEvent]
    /\ UNCHANGED <<ring, source, scheduled, subs, ws, todo, subq, replayed, tailed,
                   due, flight, cut>>

\* A client that has gone is noticed by a send only, never by the wait for the
\* queue; the handler returns and its `finally` unsubscribes.
SendFail(c) ==
    /\ ws[c] = "open"
    /\ sending[c] # NoEvent
    /\ ws' = [ws EXCEPT ![c] = "closed"]
    /\ sending' = [sending EXCEPT ![c] = NoEvent]
    /\ subs' = subs \ {c}
    /\ UNCHANGED <<ring, source, scheduled, todo, subq, replayed, tailed, due,
                   flight, cut>>

Send(c) == ReplaySend(c) \/ TailSend(c) \/ SendDone(c)

Next ==
    \/ \E e \in Event : PumpAdd(e) \/ Emit(e)
    \/ PumpSchedule
    \/ LoopPublish
    \/ \E c \in Conn :
          \/ \E replay \in BOOLEAN, since \in Range(TsOf) \union {Null} :
                Subscribe(c, replay, since)
          \/ Send(c)
          \/ SendFail(c)

Spec == Init /\ [][Next]_vars

\* The loop runs what is scheduled, the pump goes on after its first
\* statement, a client that is there reads.
FairSpec ==
    /\ Spec
    /\ WF_vars(PumpSchedule)
    /\ WF_vars(LoopPublish)
    /\ \A c \in Conn : WF_vars(Send(c))

-----------------------------------------------------------------------------
(* Properties.                                                             *)

\* No gap: whatever a subscriber is owed (the part of the ring it asked to
\* have replayed and every event added since) has been sent to it or is still
\* on its way, across the switch from replay to tail.  The hub's subscribers are
\* the open connections it has not dropped: nobody else is forgotten or kept.
NoGap ==
    /\ TypeOK
    /\ subs = {c \in Conn : ws[c] = "open" /\ c \notin cut}
    /\ \A c \in subs :
           due[c] \subseteq Range(replayed[c]) \union Range(todo[c])
                            \union Range(tailed[c]) \union Range(subq[c])
                            \union Unpublished

\* The tail delivers the pump's events in the order the pump added them, and
\* each event once.  An event reaches a connection twice only if it was in the
\* ring but not yet published when the connection subscribed: once in the
\* replay, once in the tail.
TailInOrder ==
    \A c \in Conn :
        LET tail == tailed[c] \o subq[c]
        IN  /\ IsInjective(tail)
            /\ Range(tail) \intersect (Range(replayed[c]) \union Range(todo[c]))
               \subseteq flight[c]
            /\ \A i, j \in DOMAIN tail, m, n \in DOMAIN pumpLog :
                   tail[i] = pumpLog[m] /\ tail[j] = pumpLog[n] /\ m < n => i < j

\* What a subscriber is owed is sent to it, unless it is dropped or goes away.
EventuallyDelivered ==
    \A c \in Conn, e \in Event :
        c \in subs /\ e \in due[c]
            ~> c \notin subs \/ e \in Range(replayed[c]) \union Range(tailed[c])
=============================================================================
