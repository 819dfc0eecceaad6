------------------------------ MODULE McpTools ------------------------------
(***************************************************************************)
(* The reading tools of the MCP bridge (mcp/src/mcp_tracker): paging with  *)
(* an offset cursor, the rollup of a session and its cache, tail_events    *)
(* asked again and again, and the export to a file; over the two ways the  *)
(* backend reads the rows of a session (query_events, iter_events) while   *)
(* its writer adds rows and its retention sweep deletes the oldest.        *)
(*                                                                         *)
(* A row is its id; queries see the rows in the order of (ts, id).  The    *)
(* tools share nothing but the table, so a behaviour has one kind of       *)
(* client.  Every HTTP request is one step; other steps come in between.   *)
(***************************************************************************)
EXTENDS Integers, Sequences, FiniteSets, Functions, Filters

CONSTANTS MaxPage,     \* the largest limit query_events asks for (1000)
          PerCall,     \* per_call of summarize_session (1000)
          MaxEvents,   \* max_events of the resource's rollup (5000)
          Ttl,         \* _SUMMARY_TTL_SECONDS
          TailLimit,   \* limit of tail_events
          Header,      \* the header line of a csv export
          MaxRows,     \* bound: rows added
          MaxClock,    \* bound: seconds that pass
          MaxFails     \* bound: requests that fail

ASSUME McpToolsAssumption ==
    /\ {MaxPage, PerCall, MaxEvents, Ttl, TailLimit, MaxClock} \subseteq Nat \ {0}
    /\ {MaxRows, MaxFails} \subseteq Nat
    /\ Header \notin Nat

Row == 1..MaxRows
Time == 0..MaxClock
Client == {"query", "summary", "tail", "export"}
Format == {"csv", "jsonl"}

VARIABLES
    client,  \* which of the tools this behaviour is about
    clock,   \* the clock, in seconds
    rows,    \* per id: its timestamp, when it was committed, and whether the
             \* filters of the client let it through
    table,   \* the ids in the table, in the order of (ts, id)
    walk,    \* a walk by offsets: query_events by cursor, or a rollup
    cache,   \* the summary resource's entry of _cache
    follow,  \* a client that repeats tail_events
    late,    \* rows committed with a ts before the one the tail is at
    export,  \* a call of export_session and the file it writes
    fails    \* failed requests so far, for the bound

toolsVars == <<client, clock, rows, table, walk, cache, follow, late, export, fails>>

Ts(r) == rows[r].ts

IdleWalk == [run |-> FALSE, offset |-> 0, got |-> <<>>, start |-> {},
             at |-> 0, shifted |-> 0, pruned |-> 0]
NoEntry == [at |-> -Ttl, got |-> {}, cut |-> FALSE, pruned |-> 0]
IdleExport == [pc |-> "idle", format |-> "csv", snap |-> <<>>, sent |-> 0,
               file |-> <<>>, count |-> 0]

ToolsTypeOK ==
    /\ client \in Client
    /\ clock \in Time
    /\ rows \in Seq([ts : Time, born : Time, hit : BOOLEAN]) /\ Len(rows) <= MaxRows
    /\ table \in Seq(1..Len(rows))
    /\ walk \in [run : BOOLEAN, offset : Nat, got : Seq(Row), start : SUBSET Row, at : Time,
                 shifted : Nat, pruned : Nat]
    /\ cache \in [at : Time \union {-Ttl}, got : SUBSET Row, cut : BOOLEAN, pruned : Nat]
    /\ follow \in [pc : {"idle", "fetch", "wait"}, since : Time, latest : Time,
                   items : Seq(Row), seen : SUBSET Row]
    /\ late \subseteq Row
    /\ export \in [pc : {"idle", "header", "rows", "done", "failed"}, format : Format,
                   snap : Seq(Row), sent : Nat, file : Seq(Row \union {Header}), count : Nat]
    /\ fails \in 0..MaxFails

ToolsInit ==
    /\ client \in Client
    /\ clock = 1
    /\ rows = <<>> /\ table = <<>>
    /\ walk = IdleWalk
    /\ cache = NoEntry
    /\ follow = [pc |-> "idle", since |-> 0, latest |-> 0, items |-> <<>>, seen |-> {}]
    /\ late = {}
    /\ export = IdleExport
    /\ fails = 0

tools == <<cache, export, fails>>

Tick ==
    /\ clock < MaxClock /\ clock' = clock + 1
    /\ UNCHANGED <<client, rows, table, walk, follow, late, tools>>

(***************************************************************************)
(* The backend: the writer commits a row, late ones among earlier rows;    *)
(* the sweep deletes what is older than its cutoff; the two reads.  Only   *)
(* the walks are followed with a filter that leaves rows out.              *)
(***************************************************************************)
Hits == {r \in DOMAIN rows : rows[r].hit}
Since(t) == {r \in DOMAIN rows : t <= Ts(r)}
Before(t) == {r \in DOMAIN rows : Ts(r) < t}

Found(s) == Filter(s, Hits)

CommitRow(ts, hit) ==
    LET id == Len(rows) + 1
        before == Filter(table, Before(ts + 1))
        after == Filter(table, Since(ts + 1))
    IN  /\ id <= MaxRows /\ ts \in 1..clock
        /\ hit \/ client = "query"
        /\ rows' = Append(rows, [ts |-> ts, born |-> clock, hit |-> hit])
        /\ table' = Append(before, id) \o after
        /\ walk' = [walk EXCEPT !.shifted = IF walk.run /\ hit /\ Len(Found(before)) < walk.offset
                                                   THEN @ + 1 ELSE @]
        /\ late' = IF ts < follow.latest THEN late \union {id} ELSE late
        /\ UNCHANGED <<client, clock, follow, tools>>

Prune(cutoff) ==
    LET kept == Filter(table, Since(cutoff))
        gone == Len(Found(table)) - Len(Found(kept))
    IN  /\ kept # table
        /\ table' = kept
        /\ walk' = [walk EXCEPT !.pruned = IF ~walk.run THEN @
                                           ELSE IF gone < walk.offset THEN @ + gone
                                           ELSE @ + walk.offset]
        /\ UNCHANGED <<client, clock, rows, follow, late, tools>>

\* GET /events: WHERE ts >= from ORDER BY ts, id LIMIT limit OFFSET offset
QueryEvents(from, limit, offset) ==
    LET found == Filter(table, Hits \intersect Since(from))
        last == IF offset + limit < Len(found) THEN offset + limit ELSE Len(found)
    IN  SubSeq(found, offset + 1, last)

\* GET /export: the rows of the read transaction that its cursor holds.
Snapshot == Found(table)

(***************************************************************************)
(* query_events and search_events: one page per call, each with a limit of *)
(* its own; the cursor is the offset among the rows found.                 *)
(***************************************************************************)
Clamp(limit) == IF limit < 1 THEN 1 ELSE IF limit > MaxPage THEN MaxPage ELSE limit

walkRest == <<client, clock, rows, table, follow, late, export>>

WalkStart ==
    /\ \/ client = "query"
       \/ client = "summary" /\ clock - cache.at >= Ttl
    /\ ~walk.run
    /\ walk' = [IdleWalk EXCEPT !.run = TRUE, !.start = Range(Found(table)), !.at = clock]
    /\ UNCHANGED <<walkRest, cache, fails>>

PageUnclamped(limit) ==
    LET items == QueryEvents(0, Clamp(limit), walk.offset)
    IN  /\ walk.run
        /\ walk' = [walk EXCEPT !.got = @ \o items,
                                !.run = Len(items) = Clamp(limit),
                                !.offset = @ + (IF limit < 1 THEN 1 ELSE limit)]
        /\ UNCHANGED <<walkRest, cache, fails>>

OffsetPage(limit) ==
    LET items == QueryEvents(0, Clamp(limit), walk.offset)
    IN  /\ walk.run
        /\ walk' = [walk EXCEPT !.got = @ \o items,
                                !.run = Len(items) = Clamp(limit),
                                !.offset = @ + Clamp(limit)]
        /\ UNCHANGED <<walkRest, cache, fails>>

Page(limit) == client = "query" /\ OffsetPage(limit)

(***************************************************************************)
(* The rollup: pages of PerCall until max_events or a short page; then the *)
(* resource keeps it, stamped with the time at which the rollup began.     *)
(***************************************************************************)
Rollup(stamp) ==
    LET left == MaxEvents - Len(walk.got)
        batch == IF left < PerCall THEN left ELSE PerCall
        chunk == QueryEvents(0, batch, walk.offset)
        got == walk.got \o chunk
        over == Len(chunk) < batch \/ Len(got) = MaxEvents
    IN  /\ client = "summary" /\ walk.run
        /\ walk' = [walk EXCEPT !.got = got, !.run = ~over, !.offset = @ + Len(chunk)]
        /\ cache' = IF over THEN [at |-> stamp, got |-> Range(got), cut |-> Len(got) = MaxEvents,
                                  pruned |-> walk.pruned]
                    ELSE cache
        /\ UNCHANGED <<walkRest, fails>>

RollupPageStampedLate == Rollup(clock)
RollupPage == Rollup(walk.at)

\* A failed page leaves the cursor with the client; a failed rollup is gone.
WalkFail ==
    /\ walk.run /\ fails < MaxFails
    /\ fails' = fails + 1
    /\ walk' = IF client = "summary" THEN IdleWalk ELSE walk
    /\ UNCHANGED <<walkRest, cache>>

(***************************************************************************)
(* tail_events, called with the latest_timestamp of the answer before.     *)
(* Its polls and the next call ask for rows since then, that one included. *)
(***************************************************************************)
tailRest == <<client, clock, rows, table, walk, late, cache, export>>

Answered(f) == [f EXCEPT !.pc = "idle", !.since = f.latest, !.seen = @ \union Range(f.items)]

TailCall ==
    /\ client = "tail" /\ follow.pc = "idle"
    /\ follow' = [follow EXCEPT !.pc = "fetch", !.latest = follow.since, !.items = <<>>]
    /\ UNCHANGED <<tailRest, fails>>

Fetched(new, latest) ==
    LET f == [follow EXCEPT !.items = @ \o new, !.latest = latest, !.pc = "wait"]
    IN  /\ client = "tail" /\ follow.pc = "fetch"
        /\ follow' = IF new # <<>> /\ Len(f.items) >= TailLimit THEN Answered(f) ELSE f
        /\ UNCHANGED <<tailRest, fails>>

TailFetchAfter ==
    LET new == QueryEvents(IF follow.latest = 0 THEN 0 ELSE follow.latest + 1, TailLimit, 0)
    IN  Fetched(new, IF new = <<>> THEN follow.latest ELSE Ts(new[Len(new)]))

TailFetchFirst ==
    LET new == QueryEvents(follow.latest, TailLimit, 0)
    IN  Fetched(new, IF new = <<>> THEN follow.latest ELSE Ts(new[1]))

TailFetch ==
    LET new == QueryEvents(follow.latest, TailLimit, 0)
    IN  Fetched(new, IF new = <<>> THEN follow.latest ELSE Ts(new[Len(new)]))

TailAgain ==
    /\ follow.pc = "wait"
    /\ follow' = [follow EXCEPT !.pc = "fetch"]
    /\ UNCHANGED <<tailRest, fails>>

TailDeadline ==
    /\ follow.pc = "wait"
    /\ follow' = Answered(follow)
    /\ UNCHANGED <<tailRest, fails>>

TailFail ==
    /\ follow.pc = "fetch" /\ fails < MaxFails
    /\ fails' = fails + 1
    /\ follow' = [follow EXCEPT !.pc = "idle", !.latest = follow.since, !.items = <<>>]
    /\ UNCHANGED tailRest

(***************************************************************************)
(* export_session: the rows are those of the read transaction the cursor   *)
(* of iter_events holds; line_count counts newlines, the header's too.     *)
(***************************************************************************)
exportRest == <<client, clock, rows, table, walk, follow, late, cache>>

ExportOpen(format) ==
    /\ client = "export" /\ export.pc \in {"idle", "done", "failed"}
    /\ export' = [IdleExport EXCEPT !.pc = "header", !.format = format]
    /\ UNCHANGED <<exportRest, fails>>

ExportHeader ==
    /\ export.pc = "header"
    /\ export' = [export EXCEPT !.pc = "rows", !.snap = Snapshot,
                                !.file = IF export.format = "csv" THEN <<Header>> ELSE <<>>,
                                !.count = IF export.format = "csv" THEN 1 ELSE 0]
    /\ UNCHANGED <<exportRest, fails>>

Line(from) ==
    /\ export.pc = "rows" /\ export.sent < Len(from)
    /\ export' = [export EXCEPT !.sent = @ + 1, !.count = @ + 1,
                                !.file = Append(@, from[export.sent + 1])]
    /\ UNCHANGED <<exportRest, fails>>

ExportLineLive == Line(Snapshot)
ExportLine == Line(export.snap)

ExportDone ==
    /\ export.pc = "rows" /\ export.sent >= Len(export.snap)
    /\ export' = [export EXCEPT !.pc = "done",
                                !.count = IF export.format = "csv" /\ @ > 0 THEN @ - 1 ELSE @]
    /\ UNCHANGED <<exportRest, fails>>

\* The stream breaks: an error for the caller, and what was written stays.
ExportFail ==
    /\ export.pc \in {"header", "rows"} /\ fails < MaxFails
    /\ fails' = fails + 1
    /\ export' = [export EXCEPT !.pc = "failed"]
    /\ UNCHANGED exportRest

ToolsNext ==
    \/ Tick
    \/ \E t \in Time : Prune(t) \/ \E hit \in BOOLEAN : CommitRow(t, hit)
    \/ WalkStart \/ \E limit \in 0..(MaxPage + 1) : Page(limit)
    \/ RollupPage \/ WalkFail
    \/ TailCall \/ TailFetch \/ TailAgain \/ TailDeadline \/ TailFail
    \/ \E format \in Format : ExportOpen(format)
    \/ ExportHeader \/ ExportLine \/ ExportDone \/ ExportFail

ToolsSpec == ToolsInit /\ [][ToolsNext]_toolsVars

\* A client that follows a session calls again; its requests are answered
\* (MaxFails of them by an error) and its deadline passes.
ToolsFairSpec ==
    /\ ToolsSpec
    /\ WF_toolsVars(TailCall) /\ WF_toolsVars(TailFetch) /\ WF_toolsVars(TailDeadline)

(***************************************************************************)
(* Properties.                                                             *)
(***************************************************************************)
\* Paging by offset over a table that changes: a walk that came to its end
\* has missed at most as many of the rows it started with as the retention
\* sweep took from the pages it had behind it, whatever limits its pages
\* asked for, and it has repeated at most as many rows as were committed with a
\* timestamp that put them into those pages.
WalkIsBounded ==
    /\ ToolsTypeOK
    /\ client = "query" /\ ~walk.run =>
           Cardinality((walk.start \intersect Range(table)) \ Range(walk.got)) <= walk.pruned
    /\ Len(walk.got) - Cardinality(Range(walk.got)) <= walk.shifted

\* While the summary resource answers from its cache, every row committed
\* Ttl ago or earlier is counted, apart from rows beyond max_events and from
\* as many as the sweep made it miss.
CachedSummaryIsFresh ==
    clock - cache.at < Ttl /\ ~cache.cut =>
        Cardinality({r \in Range(table) : rows[r].born <= clock - Ttl /\ r \notin cache.got})
            <= cache.pruned

\* A client that passes latest_timestamp back has been given every row before
\* it, failed calls and full answers included, apart from rows that were
\* committed with an earlier timestamp than the tail had reached.
TailMissesOnlyLate ==
    \A r \in Range(table) : Ts(r) < follow.since => r \in follow.seen \union late

\* An export that succeeds has written the rows of one moment, in order and
\* once each, and reports their number, while rows are committed and deleted
\* under it.
ExportIsOneMoment ==
    export.pc = "done" =>
        /\ export.file = (IF export.format = "csv" THEN <<Header>> ELSE <<>>) \o export.snap
        /\ export.count = Len(export.snap)

\* Whoever keeps calling tail_events is given every row in the end, unless it
\* comes late, is deleted first, or TailLimit rows have the same timestamp.
Crowded == \E t \in Time : Cardinality({r \in Range(table) : Ts(r) = t}) >= TailLimit

TailCatchesUp ==
    \A r \in Row :
        client = "tail" /\ r \in Range(table)
            ~> r \in follow.seen \/ r \in late \/ r \notin Range(table) \/ Crowded

=============================================================================
