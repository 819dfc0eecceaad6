---------------------------- MODULE StreamClient ----------------------------
(***************************************************************************)
(* The UI's side of the live stream (ui/src/hooks/useEventStream.ts): one  *)
(* effect per selected session, which backfills over HTTP, opens a         *)
(* WebSocket, collects messages for the next animation frame, drops        *)
(* repeated ids, and reconnects with backoff; and the cleanup that ends    *)
(* an effect when the selection changes while requests are in flight.      *)
(*                                                                         *)
(* JavaScript runs one callback at a time: a step is one callback, from    *)
(* its start or its last await to the next.  The backend is what the hook  *)
(* sees of it: events are accepted, published to open sockets, and         *)
(* committed some time later (SessionStore, LiveStream); a subscriber is   *)
(* not dropped here.  Delays of the backoff are left out.                  *)
(***************************************************************************)
EXTENDS Integers, Sequences, FiniteSets, Functions, Filters

CONSTANTS Session,      \* sessions that can be selected
          Event,        \* event ids, compared as the query's ORDER BY does
          SidOf,        \* the session of each event
          TsOf,         \* the timestamp of each event
          History,      \* what the backend accepted before the page was opened
          Null,         \* no session selected, no timestamp
          MaxEvents,    \* MAX_EVENTS
          SeenCap,      \* SEEN_CAP, which the hook makes 2 * MAX_EVENTS
          BackfillMax,  \* default `limit` of GET /events
          RingSize,     \* settings.event_ring_size
          MaxEffects,   \* bound: selections in a behaviour
          MaxCloses     \* bound: connections lost in a behaviour

Effect == 1..MaxEffects

ASSUME ClientAssumption ==
    /\ Event \subseteq Nat
    /\ SidOf \in [Event -> Session]
    /\ TsOf \in [Event -> Nat]
    /\ History \in Seq(Event)
    /\ Null \notin Session /\ Null \notin Nat
    /\ MaxEvents \in Nat \ {0}
    /\ SeenCap \in Nat /\ SeenCap >= MaxEvents
    /\ BackfillMax \in Nat \ {0}
    /\ RingSize \in Nat \ {0}
    /\ MaxEffects \in Nat \ {0}
    /\ MaxCloses \in Nat

VARIABLES
    accepted,   \* the backend: events in the order it accepted them
    durable,    \* the backend: how many of them are committed
    selected,   \* the hook's sessionId
    effect,     \* the effect that runs now, the last of those started
    target,     \* per effect: its sessionId
    conn,       \* per effect: where its connect() or its socket is
    since,      \* per effect: the `since` of its HTTP request, while there is one
    items,      \* per effect: the answer on its way to it
    wire,       \* per effect: messages on their way to it
    shown,      \* `events`, the list on the screen
    pending,    \* pendingRef, flushed by the next animation frame
    lastTs,     \* lastTsRef
    seen,       \* seenOrderRef, and seenIdsRef as its range
    closes,     \* connections lost so far, for the bound
    committed,  \* history: what the running effect added to the list
    due         \* history: what the running effect was given, by an answer
                \* or by an open socket that has not failed since

backend == <<accepted, durable>>
page    == <<shown, pending, lastTs, seen, committed>>
effects == <<selected, effect, target>>
vars == <<accepted, durable, selected, effect, target, conn, since, items,
          wire, shown, pending, lastTs, seen, closes, committed, due>>

TypeOK ==
    /\ accepted \in Seq(Event)
    /\ durable \in 0..Len(accepted)
    /\ selected \in Session \union {Null}
    /\ effect \in 0..MaxEffects
    /\ target \in [Effect -> Session \union {Null}]
    /\ conn \in [Effect -> {"off", "fetch", "answered", "connecting", "open",
                            "backoff", "ended"}]
    /\ since \in [Effect -> Nat \union {Null}]
    /\ items \in [Effect -> Seq(Event)]
    /\ wire \in [Effect -> Seq(Event)]
    /\ shown \in Seq(Event) /\ Len(shown) <= MaxEvents
    /\ pending \in Seq(Event)
    /\ lastTs \in Nat \union {Null}
    /\ seen \in Seq(Event) /\ Len(seen) <= SeenCap
    /\ closes \in 0..MaxCloses
    /\ committed \in Seq(Event)
    /\ due \in SUBSET Event

Init ==
    /\ accepted = History
    /\ durable \in 0..Len(History)
    /\ selected = Null
    /\ effect = 0
    /\ target = [e \in Effect |-> Null]
    /\ conn = [e \in Effect |-> "off"]
    /\ since = [e \in Effect |-> Null]
    /\ items = [e \in Effect |-> <<>>]
    /\ wire = [e \in Effect |-> <<>>]
    /\ shown = <<>>
    /\ pending = <<>>
    /\ lastTs = Null
    /\ seen = <<>>
    /\ closes = 0
    /\ committed = <<>>
    /\ due = {}

\* `slice(-n)` of a list that has become too long.
LastOf(q, n) == IF Len(q) > n THEN SubSeq(q, Len(q) - n + 1, Len(q)) ELSE q

\* The effect's own `cancelled`: set by its cleanup.
Cancelled(e) == e # effect \/ selected = Null

\* ORDER BY ts, id: the place of a row is the number of rows before it.
InOrder(S) ==
    LET Before(v) == {w \in S : TsOf[w] < TsOf[v] \/ (TsOf[w] = TsOf[v] /\ w < v)}
    IN  [i \in 1..Cardinality(S) |-> CHOOSE v \in S : Cardinality(Before(v)) = i - 1]

\* GET /events: the oldest BackfillMax committed events from `ts` on.
Backfill(s, ts) ==
    LET all == InOrder({v \in Range(SubSeq(accepted, 1, durable)) :
                           SidOf[v] = s /\ (ts = Null \/ TsOf[v] >= ts)})
    IN  SubSeq(all, 1, IF Len(all) < BackfillMax THEN Len(all) ELSE BackfillMax)

\* What a socket opened without `replay=false` is sent first.
Replay(s) == LastOf(Filter(accepted, {v \in Event : SidOf[v] = s}), RingSize)

\* dedupAndCommit: what of `incoming` is new, in order.
Dedup(incoming) ==
    LET out[i \in 0..Len(incoming)] ==
            IF i = 0 THEN <<>>
            ELSE IF incoming[i] \in Range(seen) \union Range(out[i - 1]) THEN out[i - 1]
            ELSE Append(out[i - 1], incoming[i])
    IN  out[Len(incoming)]

\* The new ones go into the seen set, the list and the history.
Commit(base, fresh) ==
    /\ seen' = LastOf(seen \o fresh, SeenCap)
    /\ shown' = LastOf(base \o fresh, MaxEvents)
    /\ committed' = committed \o fresh

-----------------------------------------------------------------------------
(* Mutants.                                                                *)

\* The check of `cancelled` after the await is missing.
ReceiveStale(e) ==
    LET fresh == Dedup(items[e])
    IN  /\ conn[e] = "answered"
        /\ items' = [items EXCEPT ![e] = <<>>]
        /\ Commit(IF since[e] = Null THEN <<>> ELSE shown, fresh)
        /\ lastTs' = IF items[e] = <<>> THEN lastTs ELSE TsOf[items[e][Len(items[e])]]
        /\ due' = due \union Range(items[e])
        /\ conn' = [conn EXCEPT ![e] = "connecting"]
        /\ since' = [since EXCEPT ![e] = Null]
        /\ UNCHANGED <<backend, effects, wire, pending, closes>>

\* An answer replaces the list, the one to a request with `since` too.
ReceiveReplaces(e) ==
    LET fresh == Dedup(items[e])
    IN  /\ conn[e] = "answered"
        /\ ~Cancelled(e)
        /\ IF fresh = <<>> THEN UNCHANGED <<seen, shown, committed>>
           ELSE Commit(<<>>, fresh)
        /\ lastTs' = IF items[e] = <<>> THEN lastTs ELSE TsOf[items[e][Len(items[e])]]
        /\ due' = due \union Range(items[e])
        /\ items' = [items EXCEPT ![e] = <<>>]
        /\ conn' = [conn EXCEPT ![e] = "connecting"]
        /\ since' = [since EXCEPT ![e] = Null]
        /\ UNCHANGED <<backend, effects, wire, pending, closes>>

\* A message that arrives while a frame is waited for replaces the others.
MessageReplaces(e) ==
    /\ conn[e] = "open"
    /\ wire[e] # <<>>
    /\ wire' = [wire EXCEPT ![e] = Tail(@)]
    /\ lastTs' = TsOf[Head(wire[e])]
    /\ pending' = <<Head(wire[e])>>
    /\ UNCHANGED <<backend, effects, conn, since, items, shown, seen, closes,
                   committed, due>>

\* The timer of a lost connection is not armed.
LoseQuietly(e) ==
    /\ conn[e] \in {"connecting", "open"}
    /\ closes < MaxCloses
    /\ closes' = closes + 1
    /\ due' = due \ Range(wire[e])
    /\ wire' = [wire EXCEPT ![e] = <<>>]
    /\ conn' = [conn EXCEPT ![e] = "off"]
    /\ UNCHANGED <<backend, effects, since, items, page>>

-----------------------------------------------------------------------------
(* The backend.                                                            *)

Accept(v) ==
    /\ v \notin Range(accepted)
    /\ accepted' = Append(accepted, v)
    /\ LET to == {e \in Effect : conn[e] = "open" /\ target[e] = SidOf[v]}
       IN  /\ wire' = [e \in Effect |-> IF e \in to THEN Append(wire[e], v) ELSE wire[e]]
           /\ due' = IF effect \in to THEN due \union {v} ELSE due
    /\ UNCHANGED <<durable, effects, conn, since, items, page, closes>>

Persist ==
    /\ durable < Len(accepted)
    /\ durable' = durable + 1
    /\ UNCHANGED <<accepted, effects, conn, since, items, wire, page, closes, due>>

-----------------------------------------------------------------------------
(* The hook.                                                               *)

\* The cleanup of the effect that runs: its timer, its frame and its socket go;
\* an HTTP request stays in flight.
Cleaned ==
    [e \in Effect |-> IF conn[e] \in {"connecting", "open", "backoff"} THEN "ended"
                      ELSE conn[e]]

Select(s) ==
    /\ effect < MaxEffects
    /\ s # selected
    /\ selected' = s
    /\ effect' = effect + 1
    /\ target' = [target EXCEPT ![effect'] = s]
    /\ conn' = [Cleaned EXCEPT ![effect'] = "fetch"]
    /\ since' = [since EXCEPT ![effect'] = lastTs]
    /\ wire' = [e \in Effect |-> <<>>]
    /\ pending' = <<>>
    /\ seen' = <<>>
    /\ committed' = <<>>
    /\ due' = {}
    /\ UNCHANGED <<backend, items, shown, lastTs, closes>>

\* No session, or a time range other than live: the list is emptied too.
Deselect ==
    /\ selected # Null
    /\ selected' = Null
    /\ conn' = Cleaned
    /\ wire' = [e \in Effect |-> <<>>]
    /\ shown' = <<>>
    /\ pending' = <<>>
    /\ lastTs' = Null
    /\ seen' = <<>>
    /\ committed' = <<>>
    /\ due' = {}
    /\ UNCHANGED <<backend, effect, target, since, items, closes>>

\* The backend reads the table.
Answer(e) ==
    /\ conn[e] = "fetch"
    /\ conn' = [conn EXCEPT ![e] = "answered"]
    /\ items' = [items EXCEPT ![e] = Backfill(target[e], since[e])]
    /\ UNCHANGED <<backend, effects, since, wire, page, closes, due>>

\* The request fails; connect() goes on to the socket all the same.
AnswerFails(e) ==
    /\ conn[e] = "fetch"
    /\ conn' = [conn EXCEPT ![e] = "answered"]
    /\ UNCHANGED <<backend, effects, since, items, wire, page, closes, due>>

\* connect() after its await.
ReceiveCancelled(e) ==
    /\ conn[e] = "answered"
    /\ Cancelled(e)
    /\ conn' = [conn EXCEPT ![e] = "ended"]
    /\ items' = [items EXCEPT ![e] = <<>>]
    /\ since' = [since EXCEPT ![e] = Null]
    /\ UNCHANGED <<backend, effects, wire, page, closes, due>>

Receive(e) ==
    LET fresh == Dedup(items[e])
    IN  /\ conn[e] = "answered"
        /\ ~Cancelled(e)
        /\ IF fresh = <<>> THEN UNCHANGED <<seen, shown, committed>>
           ELSE Commit(IF since[e] = Null THEN <<>> ELSE shown, fresh)
        /\ lastTs' = IF items[e] = <<>> THEN lastTs ELSE TsOf[items[e][Len(items[e])]]
        /\ due' = due \union Range(items[e])
        /\ items' = [items EXCEPT ![e] = <<>>]
        /\ conn' = [conn EXCEPT ![e] = "connecting"]
        /\ since' = [since EXCEPT ![e] = Null]
        /\ UNCHANGED <<backend, effects, wire, pending, closes>>

\* The backend subscribes the socket; a client that knows a timestamp asked for
\* no replay.
Open(e) ==
    LET first == IF lastTs = Null THEN Replay(target[e]) ELSE <<>>
    IN  /\ conn[e] = "connecting"
        /\ conn' = [conn EXCEPT ![e] = "open"]
        /\ wire' = [wire EXCEPT ![e] = first]
        /\ due' = due \union Range(first)
        /\ UNCHANGED <<backend, effects, since, items, page, closes>>

\* onmessage.
Message(e) ==
    /\ conn[e] = "open"
    /\ wire[e] # <<>>
    /\ wire' = [wire EXCEPT ![e] = Tail(@)]
    /\ lastTs' = TsOf[Head(wire[e])]
    /\ pending' = Append(pending, Head(wire[e]))
    /\ UNCHANGED <<backend, effects, conn, since, items, shown, seen, closes,
                   committed, due>>

\* The animation frame that onmessage asked for.
Frame ==
    /\ pending # <<>>
    /\ pending' = <<>>
    /\ Commit(shown, Dedup(pending))
    /\ UNCHANGED <<backend, effects, conn, since, items, wire, lastTs, closes, due>>

\* onclose with any other code than 1000 and 4404: what was on the wire is lost
\* and a timer armed.
Lose(e) ==
    /\ conn[e] \in {"connecting", "open"}
    /\ closes < MaxCloses
    /\ closes' = closes + 1
    /\ due' = due \ Range(wire[e])
    /\ wire' = [wire EXCEPT ![e] = <<>>]
    /\ conn' = [conn EXCEPT ![e] = "backoff"]
    /\ UNCHANGED <<backend, effects, since, items, page>>

\* onclose with one of these: the hook gives up.
Finish(e) ==
    /\ conn[e] \in {"connecting", "open"}
    /\ conn' = [conn EXCEPT ![e] = "ended"]
    /\ due' = due \ Range(wire[e])
    /\ wire' = [wire EXCEPT ![e] = <<>>]
    /\ UNCHANGED <<backend, effects, since, items, page, closes>>

\* The timer calls connect() again.
Reconnect(e) ==
    /\ conn[e] = "backoff"
    /\ conn' = [conn EXCEPT ![e] = "fetch"]
    /\ since' = [since EXCEPT ![e] = lastTs]
    /\ UNCHANGED <<backend, effects, items, wire, page, closes, due>>

Connect(e) == Answer(e) \/ AnswerFails(e) \/ ReceiveCancelled(e) \/ Receive(e) \/ Open(e)

Next ==
    \/ \E v \in Event : Accept(v)
    \/ Persist
    \/ \E s \in Session : Select(s)
    \/ Deselect
    \/ \E e \in Effect : Connect(e) \/ Message(e) \/ Lose(e) \/ Finish(e) \/ Reconnect(e)
    \/ Frame

Spec == Init /\ [][Next]_vars

\* Requests are answered or fail, sockets open or close, timers fire; the rest
\* is up to the user and the network.
FairSpec == Spec /\ \A e \in Effect : WF_vars(Connect(e) \/ Reconnect(e))

-----------------------------------------------------------------------------
(* Properties.                                                             *)

\* However fast the selection changes while requests are in flight, at most one
\* socket is open or opening, that of the session selected now.
OneSocket ==
    /\ TypeOK
    /\ \A e \in Effect : conn[e] \in {"connecting", "open"} =>
           ~Cancelled(e) /\ target[e] = selected

\* What an answer or an open socket gave the effect reaches the list, through
\* the frame's batching, the dedup and the cap: it is on the wire, waits for a
\* frame, or was added.  And it is added once, though backfill, replay and tail
\* overlap and a reconnect asks for the boundary again: an id can come back only
\* when the hook has forgotten it, SeenCap others later.
GivenIsAddedOnce ==
    /\ selected # Null =>
           due \subseteq Range(wire[effect]) \union Range(pending) \union Range(committed)
    /\ \A v \in Range(committed) : SidOf[v] = selected
    /\ \A i, j \in DOMAIN committed :
           i < j /\ committed[i] = committed[j] => j - i > SeenCap

\* The list on the screen ends with what the running effect added last.
ListEndsWithLatest ==
    LET n == IF Len(committed) < MaxEvents THEN Len(committed) ELSE MaxEvents
    IN  Len(shown) >= n /\ LastOf(shown, n) = LastOf(committed, n)

\* While a session stays selected its stream gets connected again after every
\* loss and failed request, unless it is told to give up.
Reconnects ==
    \A e \in Effect : ~Cancelled(e) ~> (conn[e] \in {"open", "ended"} \/ Cancelled(e))
=============================================================================
