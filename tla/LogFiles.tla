------------------------------ MODULE LogFiles ------------------------------
(***************************************************************************)
(* One log file of the backend and everything that follows it: the         *)
(* rotating handler that writes it (backend/app/observability.py), the     *)
(* backward tail read, the HTTP and WebSocket handlers that serve it       *)
(* (backend/app/api_routes.py), the browser's useLogStream hook, and the   *)
(* launcher's LogTail threads (launcher/tracker_launcher.py).              *)
(*                                                                         *)
(* A line is its number in the order of writing, LenOf[n] bytes long with  *)
(* its newline.  The handler appends a line in one write, so a file is a   *)
(* sequence of lines; offsets and sizes are in bytes, and a read that      *)
(* starts or ends inside a line gives a Torn item.  On Windows a file that *)
(* somebody has open cannot be renamed.  KeyOf is the entryKey by which    *)
(* the page tells entries apart, numbered: time stamp (to the second),     *)
(* level, logger and message, so that different lines may have the same.   *)
(***************************************************************************)
EXTENDS Integers, Sequences, SequencesExt, FiniteSets, Filters

CONSTANTS LenOf,       \* bytes of each line, newline included
          KeyOf,       \* the entryKey of each item
          MaxBytes,    \* maxBytes of the RotatingFileHandler
          Chunk,       \* bytes read_log_tail reads at a time
          Backlog,     \* lines asked for on the first connect
          TailLines,   \* lines asked for by the page that is not live
          MaxEntries,  \* MAX_ENTRIES of the hook
          Burst,       \* assumption: lines written between two polls
          MaxTails,    \* bound: starts of the launcher's tail
          MaxMoves,    \* bound: starts, stops, toggles and failed connections
          Torn         \* an item that is not a whole line

MaxLines == Len(LenOf)
Thread == 1..MaxTails
Stream == 0  \* the WebSocket handler, as a follower of the file
Item == 1..MaxLines \union {Torn}

EndOf(f) ==
    LET end[i \in 0..Len(f)] == IF i = 0 THEN 0 ELSE end[i - 1] + LenOf[f[i]]
    IN  end

Size(f) == EndOf(f)[Len(f)]

\* A line is a record and its newline.  A poll that finds the file replaced must
\* not find it as long as before: what is written between two polls is far less
\* than a file holds.
ASSUME LogFilesAssumption ==
    /\ LenOf \in Seq(Nat \ {0, 1})
    /\ KeyOf \in [Item -> Nat]
    /\ {MaxBytes, Chunk, TailLines, MaxEntries, Burst} \subseteq Nat \ {0}
    /\ {Backlog, MaxTails, MaxMoves} \subseteq Nat
    /\ \A n \in 1..MaxLines : 3 * Burst * LenOf[n] < MaxBytes
    /\ TailLines <= MaxEntries
    /\ Torn \notin Nat

VARIABLES
    written,  \* lines given to the handler
    file,     \* the lines of the file
    reading,  \* per user of read_log_tail: its open file and where it is
    ws,       \* the WebSocket handler
    since,    \* per follower: lines written since it looked at the file
    hook,     \* the state and refs of useLogStream
    tails,    \* the LogTail threads of one pane, and what it shows of each
    queue,    \* _pending of the pane: texts that append() was given
    moves     \* what users and the network did so far, for the bound

panes == <<tails, queue>>
vars == <<written, file, reading, ws, since, hook, panes, moves>>

Reader == {"ws", "get"}

Closed == [pc |-> "closed", size |-> 0, now |-> 0, out |-> <<>>, sent |-> <<>>, from |-> 0]
NotReading == [open |-> FALSE, want |-> 0, end |-> 0, pos |-> 0]
NewTail == [pc |-> "loop", stop |-> FALSE, pos |-> 0, last |-> 0, pane |-> <<>>]

TypeOK ==
    /\ written \in 0..MaxLines
    /\ file \in Seq(1..MaxLines)
    /\ reading \in [Reader -> [open : BOOLEAN, want : Nat, end : Nat, pos : Nat]]
    /\ ws \in [pc : {"closed", "backlog", "first", "sleep", "read", "send"},
               size : Nat, now : Nat, out : Seq(Item), sent : Seq(Item), from : 0..MaxLines]
    /\ since \in [{Stream} \union Thread -> 0..Burst]
    /\ hook \in [mode : {"off", "live", "static"}, sock : {"none", "connecting", "open", "wait"},
                 first : BOOLEAN, asked : BOOLEAN,
                 entries : Seq(Item), order : Seq(Nat), pending : Seq(Item)]
    /\ tails \in [Thread -> [pc : {"none", "loop", "read", "ended"}, stop : BOOLEAN,
                           pos : Nat, last : Nat, pane : Seq(Item)]]
    /\ queue \in Seq([by : Thread, text : Seq(Item)])
    /\ moves \in 0..MaxMoves

Init ==
    /\ written = 0 /\ file = <<>>
    /\ reading = [r \in Reader |-> NotReading]
    /\ ws = Closed
    /\ since = [f \in {Stream} \union Thread |-> 0]
    /\ hook = [mode |-> "off", sock |-> "none", first |-> TRUE, asked |-> FALSE,
               entries |-> <<>>, order |-> <<>>, pending |-> <<>>]
    /\ tails = [t \in Thread |-> [NewTail EXCEPT !.pc = "none"]]
    /\ queue = <<>>
    /\ moves = 0

(***************************************************************************)
(* Bytes and lines.  EndOf(f)[i] is the offset at which line i of f ends.  *)
(***************************************************************************)
\* The positions of s that are in K, in their order
Positions(s, K) == Filter([i \in 1..Len(s) |-> i], K)

\* What reading the bytes from..upto-1 of the file gives, by splitlines() and
\* json.loads: a line that is cut is Torn, one that is only its newline is
\* blank and skipped.
Items(from, upto) ==
    LET end == EndOf(file)
        cut(i) == IF from <= end[i - 1] /\ end[i] - 1 <= upto THEN file[i] ELSE Torn
        touched == Positions(file, {i \in DOMAIN file : from < end[i] - 1 /\ end[i - 1] < upto})
    IN  [i \in 1..Len(touched) |-> cut(touched[i])]

Newlines(from, upto) == Cardinality({i \in DOMAIN file : from < EndOf(file)[i] /\ EndOf(file)[i] <= upto})

\* s[-n:], which is all of s when n is 0
LastOf(s, n) == IF n = 0 \/ n > Len(s) THEN s ELSE SubSeq(s, Len(s) - n + 1, Len(s))

(***************************************************************************)
(* The handler that writes.  A rollover renames the file; while somebody   *)
(* has it open that fails, and the record is dropped by handleError.  A    *)
(* follower that is about to read may have it open or not.                 *)
(***************************************************************************)
Move == moves < MaxMoves /\ moves' = moves + 1

Following == (IF ws.pc \in {"sleep", "read", "send"} THEN {Stream} ELSE {})
             \union {t \in Thread : tails[t].pc \in {"loop", "read"}}

HeldOpen == \E r \in Reader : reading[r].open
Looking == ws.pc = "read" \/ \E t \in Thread : tails[t].pc = "read"

Emit ==
    LET n == written + 1
        full == Size(file) + LenOf[n] >= MaxBytes
    IN  /\ written < MaxLines
        /\ \A f \in Following : since[f] < Burst
        /\ written' = n
        /\ \/ ~full /\ file' = Append(file, n)
           \/ full /\ ~HeldOpen /\ file' = <<n>>
           \/ full /\ (HeldOpen \/ Looking) /\ UNCHANGED file
        /\ since' = [f \in DOMAIN since |-> IF f \in Following THEN since[f] + 1 ELSE 0]
        /\ UNCHANGED <<reading, ws, hook, panes, moves>>

(***************************************************************************)
(* read_log_tail: from the end of the file backwards, a chunk at a time,   *)
(* until the buffer holds more newlines than lines are wanted.             *)
(***************************************************************************)
Opened(want) == [open |-> TRUE, want |-> want, end |-> Size(file), pos |-> Size(file)]

LoopEndsEarly(r) ==
    reading[r].pos = 0 \/ Newlines(reading[r].pos, reading[r].end) >= reading[r].want

LoopEnds(r) ==
    reading[r].pos = 0 \/ Newlines(reading[r].pos, reading[r].end) > reading[r].want

ReadChunk(r) ==
    /\ reading[r].open /\ ~LoopEnds(r)
    /\ reading' = [reading EXCEPT ![r].pos = IF Chunk < @ THEN @ - Chunk ELSE 0]
    /\ UNCHANGED <<written, file, ws, since, hook, panes, moves>>

ReadItems(r) == LastOf(Items(reading[r].pos, reading[r].end), reading[r].want)

(***************************************************************************)
(* The WebSocket handler.  When its client has gone, what it still does    *)
(* reaches nobody: the model forgets it.                                   *)
(***************************************************************************)
Accept ==
    /\ hook.sock = "connecting"
    /\ hook' = [hook EXCEPT !.sock = "open"]
    /\ IF hook.first /\ Backlog > 0
       THEN /\ ws' = [Closed EXCEPT !.pc = "backlog"]
            /\ reading' = [reading EXCEPT !["ws"] = Opened(Backlog)]
       ELSE /\ ws' = [Closed EXCEPT !.pc = "first"]
            /\ UNCHANGED reading
    /\ UNCHANGED <<written, file, since, panes, moves>>

BacklogRead ==
    /\ ws.pc = "backlog" /\ LoopEnds("ws")
    /\ ws' = [ws EXCEPT !.pc = "first", !.out = ReadItems("ws")]
    /\ reading' = [reading EXCEPT !["ws"] = NotReading]
    /\ UNCHANGED <<written, file, since, hook, panes, moves>>

\* One send_text; the browser's onmessage appends it to pendingRef.
Send ==
    /\ ws.out # <<>>
    /\ ws' = [ws EXCEPT !.out = Tail(@),
                        !.sent = IF ws.pc = "send" THEN Append(@, Head(ws.out)) ELSE @,
                        !.pc = IF @ = "send" /\ Len(ws.out) = 1 THEN "sleep" ELSE @]
    /\ hook' = [hook EXCEPT !.pending = Append(@, Head(ws.out))]
    /\ UNCHANGED <<written, file, reading, since, panes, moves>>

\* The size from which the live part starts is taken after the backlog.
TakeSize ==
    /\ ws.pc = "first" /\ ws.out = <<>>
    /\ ws' = [ws EXCEPT !.pc = "sleep", !.size = Size(file), !.from = written]
    /\ since' = [since EXCEPT ![Stream] = 0]
    /\ UNCHANGED <<written, file, reading, hook, panes, moves>>

PollStatNoReset ==
    /\ ws.pc = "sleep"
    /\ ws' = [ws EXCEPT !.now = Size(file), !.pc = IF Size(file) > ws.size THEN "read" ELSE @]
    /\ since' = [since EXCEPT ![Stream] = 0]
    /\ UNCHANGED <<written, file, reading, hook, panes, moves>>

PollStat ==
    LET size == IF Size(file) < ws.size THEN 0 ELSE ws.size
    IN  /\ ws.pc = "sleep"
        /\ ws' = [ws EXCEPT !.size = size, !.now = Size(file),
                            !.pc = IF Size(file) = size THEN @ ELSE "read"]
        /\ since' = [since EXCEPT ![Stream] = 0]
        /\ UNCHANGED <<written, file, reading, hook, panes, moves>>

PollReadRestat ==
    LET items == Items(ws.size, ws.now)
    IN  /\ ws.pc = "read"
        /\ ws' = [ws EXCEPT !.out = items, !.size = Size(file),
                            !.pc = IF items = <<>> THEN "sleep" ELSE "send"]
        /\ UNCHANGED <<written, file, reading, since, hook, panes, moves>>

PollRead ==
    LET items == Items(ws.size, ws.now)
    IN  /\ ws.pc = "read"
        /\ ws' = [ws EXCEPT !.out = items, !.size = ws.now,
                            !.pc = IF items = <<>> THEN "sleep" ELSE "send"]
        /\ UNCHANGED <<written, file, reading, since, hook, panes, moves>>

(***************************************************************************)
(* The hook.  Its effect runs again whenever the page toggles live; the    *)
(* cleanup closes the socket, cancels the frame and sets `cancelled` for   *)
(* the request in flight.  One request is in flight at a time.             *)
(***************************************************************************)
Select(mode) ==
    /\ Move
    /\ mode # hook.mode
    /\ mode = "static" => ~reading["get"].open
    /\ hook' = [mode |-> mode, sock |-> IF mode = "live" THEN "connecting" ELSE "none",
                first |-> TRUE, asked |-> mode = "static",
                entries |-> <<>>, order |-> <<>>, pending |-> <<>>]
    /\ ws' = Closed
    /\ reading' = [reading EXCEPT !["ws"] = NotReading,
                                  !["get"] = IF mode = "static" THEN Opened(TailLines) ELSE @]
    /\ UNCHANGED <<written, file, since, panes>>

Drop ==
    /\ hook.sock \in {"connecting", "open"}
    /\ Move
    /\ hook' = [hook EXCEPT !.sock = "wait"]
    /\ ws' = Closed
    /\ reading' = [reading EXCEPT !["ws"] = NotReading]
    /\ UNCHANGED <<written, file, since, panes>>

Reconnect ==
    /\ hook.sock = "wait"
    /\ hook' = [hook EXCEPT !.sock = "connecting", !.first = FALSE]
    /\ UNCHANGED <<written, file, reading, ws, since, panes, moves>>

Keys(items) == [i \in 1..Len(items) |-> KeyOf[items[i]]]

\* dedup: the entries whose keys have not been seen, and the order of the keys
\* with the oldest forgotten.  An entry is dropped for the key of another one.
Fresh(items, order) ==
    LET key == Keys(items)
        new == Positions(items, {i \in DOMAIN items : /\ key[i] \notin Range(order)
                                                    /\ \A j \in 1..(i - 1) : key[j] # key[i]})
    IN  [i \in 1..Len(new) |-> items[new[i]]]

Seen(items, order) == LastOf(order \o Keys(Fresh(items, order)), 2 * MaxEntries)

Flush ==
    /\ hook.pending # <<>>
    /\ hook' = [hook EXCEPT !.pending = <<>>,
                            !.order = Seen(hook.pending, @),
                            !.entries = LastOf(@ \o Fresh(hook.pending, hook.order), MaxEntries)]
    /\ UNCHANGED <<written, file, reading, ws, since, panes, moves>>

\* GET /api/logs/{stream}
LogsTail == ReadItems("get")

LogsAnswerAlways ==
    /\ reading["get"].open /\ LoopEnds("get")
    /\ reading' = [reading EXCEPT !["get"] = NotReading]
    /\ hook' = [hook EXCEPT !.asked = FALSE,
                            !.order = Seen(LogsTail, @),
                            !.entries = Fresh(LogsTail, hook.order)]
    /\ UNCHANGED <<written, file, ws, since, panes, moves>>

LogsAnswer ==
    /\ reading["get"].open /\ LoopEnds("get")
    /\ reading' = [reading EXCEPT !["get"] = NotReading]
    /\ IF hook.asked
       THEN hook' = [hook EXCEPT !.asked = FALSE,
                                 !.order = Seen(LogsTail, @),
                                 !.entries = Fresh(LogsTail, hook.order)]
       ELSE UNCHANGED hook
    /\ UNCHANGED <<written, file, ws, since, panes, moves>>

(***************************************************************************)
(* The launcher's LogTail: stat, then open and read to the end.  A start   *)
(* of the backend stops the threads there are and starts one, which reads  *)
(* the file from its beginning; a stop only sets their events.             *)
(***************************************************************************)
StopAll == [t \in Thread |-> [tails[t] EXCEPT !.stop = tails[t].pc # "none"]]

StartTails(t) ==
    /\ Move
    /\ tails[t].pc = "none" /\ \A u \in 1..(t - 1) : tails[u].pc # "none"
    /\ tails' = [StopAll EXCEPT ![t] = NewTail]
    /\ since' = [since EXCEPT ![t] = 0]
    /\ UNCHANGED <<written, file, reading, ws, hook, queue>>

StopTails ==
    /\ Move
    /\ \E t \in Thread : tails[t].pc # "none" /\ ~tails[t].stop
    /\ tails' = StopAll
    /\ UNCHANGED <<written, file, reading, ws, since, hook, queue>>

TailStat(t) ==
    /\ tails[t].pc = "loop"
    /\ tails' = [tails EXCEPT ![t] =
           IF tails[t].stop THEN [tails[t] EXCEPT !.pc = "ended"]
           ELSE [tails[t] EXCEPT !.pc = "read", !.last = Size(file),
                                 !.pos = IF Size(file) < tails[t].last THEN 0 ELSE tails[t].pos]]
    /\ since' = [since EXCEPT ![t] = 0]
    /\ UNCHANGED <<written, file, reading, ws, hook, moves, queue>>

\* What was read, if anything, goes to append().
Appended(t) ==
    IF tails[t].pos < Size(file)
    THEN Append(queue, [by |-> t, text |-> Items(tails[t].pos, Size(file))])
    ELSE queue

TailRead(t) ==
    /\ tails[t].pc = "read"
    /\ tails' = [tails EXCEPT ![t].pc = "loop", ![t].pos = IF @ < Size(file) THEN Size(file) ELSE @]
    /\ queue' = Appended(t)
    /\ UNCHANGED <<written, file, reading, ws, since, hook, moves>>

\* The pane's timer: everything that is queued is joined and inserted.
Shown(t) ==
    LET pane[i \in 0..Len(queue)] ==
            IF i = 0 THEN tails[t].pane
            ELSE IF queue[i].by = t THEN pane[i - 1] \o queue[i].text
            ELSE pane[i - 1]
    IN  pane[Len(queue)]

Drain ==
    /\ queue # <<>>
    /\ queue' = <<>>
    /\ tails' = [t \in Thread |-> [tails[t] EXCEPT !.pane = Shown(t)]]
    /\ UNCHANGED <<written, file, reading, ws, since, hook, moves>>

Next ==
    \/ Emit
    \/ \E r \in Reader : ReadChunk(r)
    \/ Accept \/ BacklogRead \/ Send \/ TakeSize \/ PollStat \/ PollRead
    \/ \E mode \in {"live", "static"} : Select(mode)
    \/ Drop \/ Reconnect \/ Flush \/ LogsAnswer
    \/ \E t \in Thread : StartTails(t) \/ TailStat(t) \/ TailRead(t)
    \/ StopTails \/ Drain

Spec == Init /\ [][Next]_vars

\* Both followers are loops with a sleep in them, the sends end, and the pane's
\* timer is set again each time it fires.
FairSpec ==
    /\ Spec
    /\ WF_vars(PollStat) /\ WF_vars(PollRead) /\ WF_vars(Send) /\ WF_vars(Drain)
    /\ \A t \in Thread : WF_vars(TailStat(t)) /\ WF_vars(TailRead(t))

(***************************************************************************)
(* Properties.                                                             *)
(***************************************************************************)
Ascending(s) ==
    \A i \in DOMAIN s : s[i] \in Nat /\ \A j \in 1..(i - 1) : s[j] < s[i]

\* What is missing between `from` and the last item of s has left the file.
MissingAreRotated(s, from) ==
    s # <<>> => (from + 1 .. Last(s)) \intersect Range(file) \subseteq Range(s)

\* Only a first part of it is repeated.
InOrder(pane) ==
    \E k \in 0..Len(pane) :
        LET again == SubSeq(pane, k + 1, Len(pane))
        IN  /\ Ascending(again) /\ MissingAreRotated(again, 0)
            /\ IsPrefix(SubSeq(pane, 1, k), again)

\* The backward read of read_log_tail returns exactly the last lines the
\* file had when it was opened, each of them whole, wherever the borders of
\* the chunks fall.
TailIsLastLines ==
    /\ TypeOK
    /\ \A r \in Reader : reading[r].open /\ LoopEnds(r) =>
           \E k \in 0..Len(file) :
               /\ Size(SubSeq(file, 1, k)) = reading[r].end
               /\ ReadItems(r) = LastOf(SubSeq(file, 1, k), reading[r].want)

\* A live log stream sends whole lines, in the order they were written and
\* each one once, also when the file is written between the stat and the
\* read of a poll and when it is rotated under the poll; after its first look
\* at the size it skips no line that is still in the file.  So does a thread of
\* the launcher, which remembers where it read to and not how much the stat
\* saw; only its first read can be repeated, when the file is rotated between
\* the first stat and the open.
FollowersInOrder ==
    /\ Ascending(ws.sent) /\ MissingAreRotated(ws.sent, ws.from)
    /\ \A t \in Thread : InOrder(tails[t].pane)

\* The memory by which the log page drops entries agrees with the page: for each
\* of the last keys that it has marked as seen, up to the limit of the page, it
\* shows an entry with that key, in the same order, and nothing else.  A late
\* answer of the request of an earlier mode does not take one away, so what is
\* dropped for a recent key has an entry with its key in its place (which may
\* be that of a different line: two lines can have the same key).
SeenIsShown == Keys(hook.entries) = LastOf(hook.order, MaxEntries)

\* A live stream sends on its socket, and a thread of the launcher shows in its
\* pane, what there is in the file, unless it is stopped: every line that is not
\* rotated away first.  (What the page then drops by its keys is not meant.)
\* (Whoever writes pauses now and then, here after the last line.)
LinesArrive ==
    /\ ws.pc = "sleep"
           ~> \/ {n \in Range(file) : ws.from < n} \subseteq Range(ws.sent)
              \/ ws.pc \notin {"sleep", "read", "send"}
    /\ \A t \in Thread :
           tails[t].pc = "loop" ~> Range(file) \subseteq Range(tails[t].pane) \/ tails[t].stop

=============================================================================
