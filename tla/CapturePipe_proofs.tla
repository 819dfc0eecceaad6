------------------------- MODULE CapturePipe_proofs -------------------------
(***************************************************************************)
(* Proofs about a capture: its trace sessions, the filter of pids and the  *)
(* cache of file objects, for any processes, handles, objects and paths,   *)
(* any caps of the filter, the cache and the pipe, and any number of       *)
(* starts and of things that the target does.                              *)
(***************************************************************************)
EXTENDS CapturePipe, Queues_proofs, FiniteSetTheorems

\* Before the providers are enabled.
Early == main \in {"none", "sweep", "trace", "hello", "enable"}

\* The trace session of the capture is there from MainTrace until the watcher or
\* the end of the process stops it.
Traces == main \in {"hello", "enable", "consume", "table", "names", "store", "run"}

\* How far the native process can be with what has been started and shut down.
\* A target that is not plain is captured once.
Control ==
    /\ starts = 0 => main = "none"
    /\ ~plain => starts <= 1
    /\ ~plain /\ starts # 0 => main # "none"
    /\ shutdown => main \in {"run", "drain", "close", "gone"}
    /\ main \in {"drain", "close"} => shutdown
    /\ shutdown \/ ~Up => ~traced
    /\ main = "close" \/ ~Up => kernel = <<>>
    /\ plain => alive = {Root} /\ kin = {Root}

\* Trace sessions of this capture and of earlier ones.
Owned ==
    /\ \A s \in sessions : s <= starts
    /\ \A s \in sessions \ {Neighbour} : s \in killed \/ (s = starts /\ Up)
    /\ Neighbour \in sessions
    /\ main \in {"sweep", "trace"} => starts \notin sessions
    /\ Traces /\ ~shutdown => starts \in sessions

\* Nothing has been followed yet.
Unused ==
    Early =>
        /\ ~traced /\ kernel = <<>>
        /\ filter = {Root} /\ ~capped /\ named = {} /\ cache = EmptyCache
        /\ last = Nothing
        /\ kin \subseteq {Root} /\ (Root \in kin \/ rootGone)

\* No event is handled twice.
Counted == written + Len(kernel) <= ops

\* The entries of the handle table, then of the snapshot.
SnapOK ==
    /\ main = "names" => snap \in Seq([handle : Handle, object : Object])
    /\ main = "store" => snap \in Seq([object : Object, path : Path])

\* What an event says.
EventOK ==
    \A i \in 1..Len(kernel) :
        /\ kernel[i].op = "start" => kernel[i].by \in Pid /\ kernel[i].object = Closed
        /\ kernel[i].op \in {"open", "use", "close"} =>
               kernel[i].object \in Object /\ kernel[i].opened \in Path
        /\ kernel[i].op = "open" => kernel[i].path = kernel[i].opened

\* The files that are open.
OpenOK ==
    /\ \A h \in InUse : open[h].owner \in alive
    /\ \A g, h \in InUse : open[g].object = open[h].object => g = h

\* The list of the cache and its paths.
Caches ==
    {c \in [lru : Seq(Object), paths : UNION {[D -> Path] : D \in SUBSET Object}] :
        Range(c.lru) = DOMAIN c.paths /\ IsInjective(c.lru) /\ Len(c.lru) <= CacheCap}

CacheOK == cache \in Caches /\ named \subseteq DOMAIN cache.paths

-----------------------------------------------------------------------------
(* The filter.                                                             *)

\* A process starts or stops; and who does what an event is about.
Life(e, p) == e.op \in {"start", "stop"} /\ e.pid = p

Actor(e) == IF e.op = "start" THEN e.by ELSE e.pid

\* Of p, no start and no stop between the places i and j of q.
Quiet(q, i, j, p) == \A k \in 1..Len(q) : i < k /\ k < j => ~Life(q[k], p)

\* What an event says of a process, the start of this process said before; and a
\* pid is started again only after its stop.
Consistent(q) ==
    \A i, j \in 1..Len(q) : \A p \in Pid :
        i < j /\ Life(q[i], p) /\ Quiet(q, i, j, p) =>
            /\ q[j].op # "stop" /\ Actor(q[j]) = p => q[i].op = "start" /\ q[j].kin = q[i].kin
            /\ q[j].op = "start" /\ q[j].pid = p => q[i].op = "stop"

\* A process without a start or a stop on the way is in the filter if its events
\* say that it should be.
Filtered(q, S) ==
    \A j \in 1..Len(q) : \A p \in Pid :
        Quiet(q, 0, j, p) =>
            /\ q[j].op # "stop" /\ Actor(q[j]) = p =>
                   /\ p \in S /\ ~rootGone => q[j].kin
                   /\ ~capped /\ q[j].kin => p \in S
            /\ q[j].op = "start" /\ q[j].pid = p /\ p \in S => rootGone

\* While traced, the last that is on the way about a process is what it is now; of
\* one with nothing on the way the filter knows.
Followed(q, S) ==
    traced => \A p \in Pid :
        /\ \A i \in 1..Len(q) : Life(q[i], p) /\ Quiet(q, i, Len(q) + 1, p) =>
               /\ p \in alive => q[i].op = "start" /\ (p \in kin <=> q[i].kin)
               /\ p \notin alive => q[i].op = "stop"
        /\ Quiet(q, 0, Len(q) + 1, p) =>
               /\ p \in alive => /\ p \in S /\ ~rootGone => p \in kin
                                 /\ ~capped /\ p \in kin => p \in S
               /\ p \notin alive /\ p \in S => rootGone

FilterOK ==
    /\ Consistent(kernel)
    /\ Filtered(kernel, filter)
    /\ Followed(kernel, filter)
    /\ IsFiniteSet(filter) /\ Cardinality(filter) <= MaxPids

Told ==
    /\ last.emitted /\ ~rootGone => last.kin
    /\ last.kin /\ last.op # "stop" /\ ~capped => last.op = "none" \/ last.emitted

-----------------------------------------------------------------------------
(* The cache.                                                              *)

OpenOf(e, o) == e.op = "open" /\ e.object = o

\* Of o, no open between the places i and j of q.
Kept(q, i, j, o) == \A k \in 1..Len(q) : i < k /\ k < j => ~OpenOf(q[k], o)

\* An object is used by the process that opened it last and was opened under the
\* name of that opening, and a process uses nothing opened before it was started.
Openings(q) ==
    \A i, j \in 1..Len(q) : i < j /\ q[j].op = "use" =>
        /\ OpenOf(q[i], q[j].object) /\ Kept(q, i, j, q[j].object) =>
               q[j].pid = q[i].pid /\ q[j].opened = q[i].opened
        /\ q[i].op = "start" /\ q[i].pid = q[j].pid => ~Kept(q, i, j, q[j].object)

\* An object with a name from a create event was opened under it when a process of
\* the filter uses it, until it is opened again.
Named(q, S, N, paths) ==
    \A j \in 1..Len(q) :
        q[j].op = "use" /\ q[j].pid \in S /\ q[j].object \in N /\ Kept(q, 0, j, q[j].object)
            => q[j].opened = paths[q[j].object]

\* The same of the uses to come of an open file f.
Ahead(q, f, S, N, paths) ==
    /\ \A i \in 1..Len(q) : Kept(q, i, Len(q) + 1, f.object) =>
           /\ OpenOf(q[i], f.object) => q[i].pid = f.owner /\ q[i].opened = f.opened
           /\ ~(q[i].op = "start" /\ q[i].pid = f.owner)
    /\ f.owner \in S /\ f.object \in N /\ Kept(q, 0, Len(q) + 1, f.object)
           => f.opened = paths[f.object]

Current(q, S, N, paths) == traced => \A h \in InUse : Ahead(q, open[h], S, N, paths)

NamesOK ==
    /\ Openings(kernel)
    /\ Named(kernel, filter, named, cache.paths)
    /\ Current(kernel, filter, named, cache.paths)

Shown ==
    last.emitted /\ last.object \in named /\ last.op # "open"
        => last.shown = IF last.path = Closed THEN last.opened ELSE last.path

\* The wrapper's part of TypeOK.
ServiceOK ==
    /\ call \in {"idle", "hello", "started", "closing", "terminating", "joining",
                 "stopped", "failed", "dead"}
    /\ main \in {"none", "sweep", "trace", "hello", "enable", "consume", "table",
                 "names", "store", "run", "drain", "close", "gone"}
    /\ starts \in 0..MaxStarts
    /\ sessions \in SUBSET (0..MaxStarts)
    /\ killed \in SUBSET (1..MaxStarts)
    /\ {doomed, shutdown} \subseteq BOOLEAN
    /\ stdin \in {"open", "closed"}
    /\ pipe \in Seq(Line)
    /\ pump \in {"none", "run", "ended"}
    /\ written \in 0..MaxOps
    /\ beats \in 0..MaxStats
    /\ given \in Seq(1..MaxOps)

-----------------------------------------------------------------------------
(* Queues.                                                                 *)

LEMMA TailAt ==
    ASSUME NEW S, NEW q \in Seq(S), q # <<>>
    PROVE  /\ Tail(q) \in Seq(S) /\ Len(Tail(q)) = Len(q) - 1
           /\ Len(q) \in Nat \ {0} /\ Head(q) = q[1] /\ q[1] \in S
           /\ \A i \in 1..Len(Tail(q)) : Tail(q)[i] = q[i + 1]
OBVIOUS

LEMMA AppendAt ==
    ASSUME NEW S, NEW q \in Seq(S), NEW e \in S
    PROVE  /\ Append(q, e) \in Seq(S) /\ Len(Append(q, e)) = Len(q) + 1
           /\ Len(q) \in Nat
           /\ \A i \in 1..Len(q) : Append(q, e)[i] = q[i]
           /\ Append(q, e)[Len(q) + 1] = e
OBVIOUS

\* A set of numbers up to n that is not empty has a greatest element.
LEMMA NatMax ==
    ASSUME NEW n \in Nat, NEW T \in SUBSET (1..n), T # {}
    PROVE  \E i \in T : \A k \in T : k <= i
<1> DEFINE U == {m \in 0..n : n - m \in T}
<1>1. U \in SUBSET Nat
    OBVIOUS
<1>2. U # {}
    <2>1. PICK i \in T : TRUE
        OBVIOUS
    <2>2. n - i \in 0..n /\ n - (n - i) = i
        BY <2>1
    <2>3. n - i \in U
        BY <2>1, <2>2
    <2> QED
        BY <2>3
<1>3. PICK m \in U : \A k \in U : m <= k
    <2> HIDE DEF U
    <2> QED
        BY <1>1, <1>2, NatMin
<1>4. n - m \in T
    BY <1>3
<1>5. ASSUME NEW k \in T
      PROVE  k <= n - m
    <2>1. k \in 1..n /\ n - k \in 0..n /\ n - (n - k) = k
        OBVIOUS
    <2>2. n - k \in U
        BY <2>1
    <2>3. m <= n - k /\ m \in 0..n
        BY <1>3, <2>2
    <2> QED
        BY <2>1, <2>3
<1> QED
    BY <1>4, <1>5

\* What is between two places of the rest of a queue is between the next two.
LEMMA QuietTail ==
    ASSUME NEW q \in Seq(Event), q # <<>>, NEW p, NEW i \in Nat, NEW j \in Nat,
           Quiet(Tail(q), i, j, p)
    PROVE  /\ Quiet(q, i + 1, j + 1, p)
           /\ i = 0 /\ ~Life(q[1], p) => Quiet(q, 0, j + 1, p)
<1>1. /\ Len(Tail(q)) = Len(q) - 1 /\ Len(q) \in Nat
      /\ \A k \in 1..Len(Tail(q)) : Tail(q)[k] = q[k + 1]
    BY TailAt
<1>2. ASSUME NEW k \in 1..Len(q), i + 1 < k, k < j + 1
      PROVE  ~Life(q[k], p)
    <2>1. k - 1 \in 1..Len(Tail(q)) /\ i < k - 1 /\ k - 1 < j /\ (k - 1) + 1 = k
        BY <1>1, <1>2
    <2> QED
        BY <1>1, <2>1 DEF Quiet
<1>3. ASSUME i = 0, ~Life(q[1], p), NEW k \in 1..Len(q), 0 < k, k < j + 1
      PROVE  ~Life(q[k], p)
    <2>1. k = 1 \/ i + 1 < k
        BY <1>3
    <2> QED
        BY <1>2, <1>3, <2>1
<1> QED
    BY <1>2, <1>3 DEF Quiet

\* Up to the end of a queue, an addition to it makes no difference.
LEMMA QuietAppend ==
    ASSUME NEW q \in Seq(Event), NEW e \in Event, NEW p, NEW i \in Nat, NEW j \in Nat,
           Quiet(Append(q, e), i, j, p)
    PROVE  /\ Quiet(q, i, j, p)
           /\ i < Len(q) + 1 /\ Len(q) + 1 < j => ~Life(e, p)
           /\ j > Len(q) + 1 => Quiet(q, i, Len(q) + 1, p)
<1>1. /\ Len(Append(q, e)) = Len(q) + 1 /\ Len(q) \in Nat
      /\ \A k \in 1..Len(q) : Append(q, e)[k] = q[k]
      /\ Append(q, e)[Len(q) + 1] = e
    BY AppendAt
<1>2. ASSUME NEW k \in 1..Len(q), i < k, k < j
      PROVE  ~Life(q[k], p)
    <2>1. k \in 1..Len(Append(q, e)) /\ Append(q, e)[k] = q[k]
        BY <1>1
    <2> QED
        BY <1>2, <2>1 DEF Quiet
<1>3. ASSUME i < Len(q) + 1, Len(q) + 1 < j
      PROVE  ~Life(e, p)
    <2>1. Len(q) + 1 \in 1..Len(Append(q, e))
        BY <1>1
    <2> QED
        BY <1>1, <1>3, <2>1 DEF Quiet
<1>4. ASSUME j > Len(q) + 1
      PROVE  Quiet(q, i, Len(q) + 1, p)
    BY <1>1, <1>2, <1>4 DEF Quiet
<1> QED
    BY <1>2, <1>3, <1>4 DEF Quiet

LEMMA KeptTail ==
    ASSUME NEW q \in Seq(Event), q # <<>>, NEW o, NEW i \in Nat, NEW j \in Nat,
           Kept(Tail(q), i, j, o)
    PROVE  /\ Kept(q, i + 1, j + 1, o)
           /\ i = 0 /\ ~OpenOf(q[1], o) => Kept(q, 0, j + 1, o)
<1>1. /\ Len(Tail(q)) = Len(q) - 1 /\ Len(q) \in Nat
      /\ \A k \in 1..Len(Tail(q)) : Tail(q)[k] = q[k + 1]
    BY TailAt
<1>2. ASSUME NEW k \in 1..Len(q), i + 1 < k, k < j + 1
      PROVE  ~OpenOf(q[k], o)
    <2>1. k - 1 \in 1..Len(Tail(q)) /\ i < k - 1 /\ k - 1 < j /\ (k - 1) + 1 = k
        BY <1>1, <1>2
    <2> QED
        BY <1>1, <2>1 DEF Kept
<1>3. ASSUME i = 0, ~OpenOf(q[1], o), NEW k \in 1..Len(q), 0 < k, k < j + 1
      PROVE  ~OpenOf(q[k], o)
    <2>1. k = 1 \/ i + 1 < k
        BY <1>3
    <2> QED
        BY <1>2, <1>3, <2>1
<1> QED
    BY <1>2, <1>3 DEF Kept

LEMMA KeptAppend ==
    ASSUME NEW q \in Seq(Event), NEW e \in Event, NEW o, NEW i \in Nat, NEW j \in Nat,
           Kept(Append(q, e), i, j, o)
    PROVE  /\ Kept(q, i, j, o)
           /\ i < Len(q) + 1 /\ Len(q) + 1 < j => ~OpenOf(e, o)
           /\ j > Len(q) + 1 => Kept(q, i, Len(q) + 1, o)
<1>1. /\ Len(Append(q, e)) = Len(q) + 1 /\ Len(q) \in Nat
      /\ \A k \in 1..Len(q) : Append(q, e)[k] = q[k]
      /\ Append(q, e)[Len(q) + 1] = e
    BY AppendAt
<1>2. ASSUME NEW k \in 1..Len(q), i < k, k < j
      PROVE  ~OpenOf(q[k], o)
    <2>1. k \in 1..Len(Append(q, e)) /\ Append(q, e)[k] = q[k]
        BY <1>1
    <2> QED
        BY <1>2, <2>1 DEF Kept
<1>3. ASSUME i < Len(q) + 1, Len(q) + 1 < j
      PROVE  ~OpenOf(e, o)
    <2>1. Len(q) + 1 \in 1..Len(Append(q, e))
        BY <1>1
    <2> QED
        BY <1>1, <1>3, <2>1 DEF Kept
<1>4. ASSUME j > Len(q) + 1
      PROVE  Kept(q, i, Len(q) + 1, o)
    BY <1>1, <1>2, <1>4 DEF Kept
<1> QED
    BY <1>2, <1>3, <1>4 DEF Kept

-----------------------------------------------------------------------------
(* The filter follows the queue.                                           *)

\* The first event of the queue is handled: the filter says of its process what
\* the event said of it, and the same as before of the others.
LEMMA FilterHandled ==
    ASSUME kernel \in Seq(Event), kernel # <<>>, kernel' = Tail(kernel),
           Consistent(kernel), Filtered(kernel, filter), Followed(kernel, filter),
           UNCHANGED <<rootGone, alive, kin, traced>>,
           capped => capped',
           \A p \in Pid : ~Life(kernel[1], p) => (p \in filter' <=> p \in filter),
           kernel[1].op = "start" =>
               /\ kernel[1].pid \in filter' /\ ~rootGone => kernel[1].kin
               /\ ~capped' /\ kernel[1].kin => kernel[1].pid \in filter',
           kernel[1].op = "stop" => kernel[1].pid \notin filter'
    PROVE  Consistent(kernel') /\ Filtered(kernel, filter)' /\ Followed(kernel, filter)'
<1> DEFINE q == kernel
           t == Tail(kernel)
<1>1. /\ Len(t) = Len(q) - 1 /\ Len(q) \in Nat \ {0}
      /\ \A i \in 1..Len(t) : t[i] = q[i + 1]
    BY TailAt
<1>2. \A i \in 1..Len(t) : i + 1 \in 1..Len(q)
    BY <1>1
<1>3. 1 \in 1..Len(q) /\ Len(t) + 1 \in Nat /\ (Len(t) + 1) + 1 = Len(q) + 1
    BY <1>1
<1>4. Consistent(t)
    <2> SUFFICES ASSUME NEW i \in 1..Len(t), NEW j \in 1..Len(t), NEW p \in Pid,
                        i < j, Life(t[i], p), Quiet(t, i, j, p)
                 PROVE  /\ t[j].op # "stop" /\ Actor(t[j]) = p =>
                               t[i].op = "start" /\ t[j].kin = t[i].kin
                        /\ t[j].op = "start" /\ t[j].pid = p => t[i].op = "stop"
        BY DEF Consistent
    <2>1. Quiet(q, i + 1, j + 1, p)
        BY QuietTail
    <2>2. i + 1 < j + 1
        OBVIOUS
    <2> QED
        BY <1>1, <1>2, <2>1, <2>2 DEF Consistent
<1>5. ASSUME NEW j \in 1..Len(t), NEW p \in Pid, Quiet(t, 0, j, p)
      PROVE  /\ t[j].op # "stop" /\ Actor(t[j]) = p =>
                    /\ p \in filter' /\ ~rootGone => t[j].kin
                    /\ ~capped' /\ t[j].kin => p \in filter'
             /\ t[j].op = "start" /\ t[j].pid = p /\ p \in filter' => rootGone
    <2>1. Quiet(q, 1, j + 1, p) /\ (~Life(q[1], p) => Quiet(q, 0, j + 1, p))
        BY <1>5, QuietTail
    <2>2. CASE ~Life(q[1], p)
        BY <1>1, <1>2, <2>1, <2>2 DEF Filtered
    <2>3. CASE Life(q[1], p)
        <3>1. 1 < j + 1
            OBVIOUS
        <3>2. /\ t[j].op # "stop" /\ Actor(t[j]) = p => q[1].op = "start" /\ t[j].kin = q[1].kin
              /\ t[j].op = "start" /\ t[j].pid = p => q[1].op = "stop"
            BY <1>1, <1>2, <1>3, <2>1, <2>3, <3>1 DEF Consistent
        <3>3. q[1].pid = p
            BY <2>3 DEF Life
        <3> QED
            BY <3>2, <3>3
    <2> QED
        BY <2>2, <2>3
<1>6. ASSUME traced, NEW p \in Pid
      PROVE  /\ \A i \in 1..Len(t) : Life(t[i], p) /\ Quiet(t, i, Len(t) + 1, p) =>
                    /\ p \in alive => t[i].op = "start" /\ (p \in kin <=> t[i].kin)
                    /\ p \notin alive => t[i].op = "stop"
             /\ Quiet(t, 0, Len(t) + 1, p) =>
                    /\ p \in alive => /\ p \in filter' /\ ~rootGone => p \in kin
                                      /\ ~capped' /\ p \in kin => p \in filter'
                    /\ p \notin alive /\ p \in filter' => rootGone
    <2>1. ASSUME NEW i \in 1..Len(t), Life(t[i], p), Quiet(t, i, Len(t) + 1, p)
          PROVE  /\ p \in alive => t[i].op = "start" /\ (p \in kin <=> t[i].kin)
                 /\ p \notin alive => t[i].op = "stop"
        <3>1. Quiet(q, i + 1, Len(q) + 1, p)
            BY <1>3, <2>1, QuietTail
        <3> QED
            BY <1>1, <1>2, <1>6, <2>1, <3>1 DEF Followed
    <2>2. ASSUME Quiet(t, 0, Len(t) + 1, p)
          PROVE  /\ p \in alive => /\ p \in filter' /\ ~rootGone => p \in kin
                                   /\ ~capped' /\ p \in kin => p \in filter'
                 /\ p \notin alive /\ p \in filter' => rootGone
        <3>1. /\ Quiet(q, 1, Len(q) + 1, p)
              /\ ~Life(q[1], p) => Quiet(q, 0, Len(q) + 1, p)
            BY <1>3, <2>2, QuietTail
        <3>2. CASE ~Life(q[1], p)
            BY <1>6, <3>1, <3>2 DEF Followed
        <3>3. CASE Life(q[1], p)
            <4>1. /\ p \in alive => q[1].op = "start" /\ (p \in kin <=> q[1].kin)
                  /\ p \notin alive => q[1].op = "stop"
                BY <1>3, <1>6, <3>1, <3>3 DEF Followed
            <4>2. q[1].pid = p
                BY <3>3 DEF Life
            <4> QED
                BY <4>1, <4>2
        <3> QED
            BY <3>2, <3>3
    <2> QED
        BY <2>1, <2>2
<1> HIDE DEF t
<1>7. kernel' = t
    BY DEF t
<1>8. Filtered(kernel, filter)'
    BY <1>5, <1>7 DEF Filtered
<1>9. Followed(kernel, filter)'
    BY <1>6, <1>7 DEF Followed
<1> QED
    BY <1>4, <1>7, <1>8, <1>9

\* The target does something and the kernel reports it.
LEMMA FilterPosted ==
    ASSUME kernel \in Seq(Event), NEW e \in Event, traced, kernel' = Append(kernel, e),
           Consistent(kernel), Filtered(kernel, filter), Followed(kernel, filter),
           UNCHANGED <<traced, filter, capped>>,
           rootGone => rootGone',
           \A p \in Pid : ~Life(e, p) =>
               (p \in alive' <=> p \in alive) /\ (p \in kin' <=> p \in kin),
           e.op = "start" =>
               /\ e.pid \notin alive /\ e.pid \in alive' /\ (e.pid \in kin' <=> e.kin)
               /\ e.by \in alive /\ (e.by \in kin <=> e.kin),
           e.op = "stop" => e.pid \notin alive',
           e.op \notin {"start", "stop"} => e.pid \in alive /\ (e.pid \in kin <=> e.kin)
    PROVE  Consistent(kernel') /\ Filtered(kernel, filter)' /\ Followed(kernel, filter)'
<1> DEFINE q == kernel
           a == Append(kernel, e)
           n == Len(kernel)
<1>1. /\ a \in Seq(Event) /\ Len(a) = n + 1 /\ n \in Nat
      /\ \A i \in 1..n : a[i] = q[i]
      /\ a[n + 1] = e
    BY AppendAt
<1>2. \A i \in 1..n : q[i] \in Event
    OBVIOUS
<1>3. /\ \A i \in 1..Len(a) : i \in 1..n \/ i = n + 1
      /\ (n + 1) + 1 > n + 1
    BY <1>1
<1>4. \A p \in Pid :
          /\ \A i \in 1..n : Life(q[i], p) /\ Quiet(q, i, n + 1, p) =>
                 /\ p \in alive => q[i].op = "start" /\ (p \in kin <=> q[i].kin)
                 /\ p \notin alive => q[i].op = "stop"
          /\ Quiet(q, 0, n + 1, p) =>
                 /\ p \in alive => /\ p \in filter /\ ~rootGone => p \in kin
                                   /\ ~capped /\ p \in kin => p \in filter
                 /\ p \notin alive /\ p \in filter => rootGone
    BY DEF Followed
<1>5. \A p \in Pid :
          /\ e.op # "stop" /\ Actor(e) = p => p \in alive /\ (e.kin <=> p \in kin)
          /\ e.op = "start" /\ e.pid = p => p \notin alive
    BY DEF Actor
<1>6. Consistent(a)
    <2>1. ASSUME NEW i \in 1..Len(a), NEW j \in 1..Len(a), NEW p \in Pid,
                 i < j, Life(a[i], p), Quiet(a, i, j, p)
          PROVE  /\ a[j].op # "stop" /\ Actor(a[j]) = p =>
                        a[i].op = "start" /\ a[j].kin = a[i].kin
                 /\ a[j].op = "start" /\ a[j].pid = p => a[i].op = "stop"
        <3>1. Quiet(q, i, j, p)
            BY <2>1, QuietAppend
        <3>2. i \in 1..n /\ a[i] = q[i] /\ i < j /\ Life(q[i], p)
            BY <1>1, <1>3, <2>1
        <3>3. CASE j \in 1..n
            BY <1>1, <3>1, <3>2, <3>3 DEF Consistent
        <3>4. CASE j = n + 1
            <4>1. /\ p \in alive => q[i].op = "start" /\ (p \in kin <=> q[i].kin)
                  /\ p \notin alive => q[i].op = "stop"
                BY <1>4, <3>1, <3>2, <3>4
            <4>2. a[j] = e /\ e.kin \in BOOLEAN /\ q[i].kin \in BOOLEAN
                BY <1>1, <1>2, <3>2, <3>4 DEF Event
            <4>3. e.op # "stop" /\ Actor(e) = p => q[i].op = "start" /\ e.kin = q[i].kin
                BY <1>5, <4>1, <4>2
            <4>4. e.op = "start" /\ e.pid = p => q[i].op = "stop"
                BY <1>5, <4>1
            <4> QED
                BY <3>2, <4>2, <4>3, <4>4
        <3> QED
            BY <1>3, <3>3, <3>4
    <2> HIDE DEF a
    <2> QED
        BY <2>1 DEF Consistent
<1>7. ASSUME NEW j \in 1..Len(a), NEW p \in Pid, Quiet(a, 0, j, p)
      PROVE  /\ a[j].op # "stop" /\ Actor(a[j]) = p =>
                    /\ p \in filter /\ ~rootGone' => a[j].kin
                    /\ ~capped /\ a[j].kin => p \in filter
             /\ a[j].op = "start" /\ a[j].pid = p /\ p \in filter => rootGone'
    <2>1. Quiet(q, 0, j, p)
        BY <1>7, QuietAppend
    <2>2. CASE j \in 1..n
        BY <1>1, <2>1, <2>2 DEF Filtered
    <2>3. CASE j = n + 1
        <3>1. a[j] = e
            BY <1>1, <2>3
        <3>2. /\ p \in alive => /\ p \in filter /\ ~rootGone => p \in kin
                                /\ ~capped /\ p \in kin => p \in filter
              /\ p \notin alive /\ p \in filter => rootGone
            BY <1>4, <2>1, <2>3
        <3> QED
            BY <1>5, <3>1, <3>2
    <2> QED
        BY <1>3, <2>2, <2>3
<1>8. ASSUME NEW p \in Pid
      PROVE  /\ \A i \in 1..Len(a) : Life(a[i], p) /\ Quiet(a, i, Len(a) + 1, p) =>
                    /\ p \in alive' => a[i].op = "start" /\ (p \in kin' <=> a[i].kin)
                    /\ p \notin alive' => a[i].op = "stop"
             /\ Quiet(a, 0, Len(a) + 1, p) =>
                    /\ p \in alive' => /\ p \in filter /\ ~rootGone' => p \in kin'
                                       /\ ~capped /\ p \in kin' => p \in filter
                    /\ p \notin alive' /\ p \in filter => rootGone'
    <2>1. ASSUME NEW i \in 1..Len(a), Life(a[i], p), Quiet(a, i, Len(a) + 1, p)
          PROVE  /\ p \in alive' => a[i].op = "start" /\ (p \in kin' <=> a[i].kin)
                 /\ p \notin alive' => a[i].op = "stop"
        <3>1. CASE i = n + 1
            BY <1>1, <2>1, <3>1 DEF Life
        <3>2. CASE i \in 1..n
            <4>1. i < n + 1 /\ i \in Nat /\ Len(a) + 1 \in Nat /\ Len(a) + 1 > n + 1
                BY <1>1, <3>2
            <4>2. Quiet(q, i, n + 1, p) /\ ~Life(e, p)
                BY <2>1, <4>1, QuietAppend
            <4> QED
                BY <1>1, <1>4, <2>1, <3>2, <4>2
        <3> QED
            BY <1>3, <3>1, <3>2
    <2>2. ASSUME Quiet(a, 0, Len(a) + 1, p)
          PROVE  /\ p \in alive' => /\ p \in filter /\ ~rootGone' => p \in kin'
                                    /\ ~capped /\ p \in kin' => p \in filter
                 /\ p \notin alive' /\ p \in filter => rootGone'
        <3>1. 0 < n + 1 /\ 0 \in Nat /\ Len(a) + 1 \in Nat /\ Len(a) + 1 > n + 1
            BY <1>1
        <3>2. Quiet(q, 0, n + 1, p) /\ ~Life(e, p)
            BY <2>2, <3>1, QuietAppend
        <3> QED
            BY <1>4, <3>2
    <2> QED
        BY <2>1, <2>2
<1> HIDE DEF a
<1>9. kernel' = a /\ filter' = filter /\ capped' = capped
    BY DEF a
<1>10. Filtered(kernel, filter)'
    BY <1>7, <1>9 DEF Filtered
<1>11. Followed(kernel, filter)'
    BY <1>8, <1>9 DEF Followed
<1> QED
    BY <1>6, <1>9, <1>10, <1>11

-----------------------------------------------------------------------------
(* The operations on the cache.                                            *)

LEMMA CachesAre ==
    ASSUME NEW c
    PROVE  c \in Caches <=>
               /\ c = [lru |-> c.lru, paths |-> c.paths]
               /\ c.lru \in Seq(Object)
               /\ c.paths \in [Range(c.lru) -> Path]
               /\ IsInjective(c.lru) /\ Len(c.lru) <= CacheCap
<1>1. ASSUME c \in Caches
      PROVE  /\ c = [lru |-> c.lru, paths |-> c.paths]
             /\ c.lru \in Seq(Object)
             /\ c.paths \in [Range(c.lru) -> Path]
             /\ IsInjective(c.lru) /\ Len(c.lru) <= CacheCap
    <2>1. /\ c \in [lru : Seq(Object), paths : UNION {[D -> Path] : D \in SUBSET Object}]
          /\ Range(c.lru) = DOMAIN c.paths /\ IsInjective(c.lru) /\ Len(c.lru) <= CacheCap
        BY <1>1 DEF Caches
    <2>2. c.paths \in UNION {[D -> Path] : D \in SUBSET Object}
        BY <2>1
    <2>3. PICK D \in SUBSET Object : c.paths \in [D -> Path]
        BY <2>2
    <2>4. DOMAIN c.paths = D
        BY <2>3
    <2> QED
        BY <2>1, <2>3, <2>4
<1>2. ASSUME c = [lru |-> c.lru, paths |-> c.paths], c.lru \in Seq(Object),
             c.paths \in [Range(c.lru) -> Path],
             IsInjective(c.lru), Len(c.lru) <= CacheCap
      PROVE  c \in Caches
    <2>1. Range(c.lru) \in SUBSET Object
        BY <1>2 DEF Range
    <2>2. c.paths \in UNION {[D -> Path] : D \in SUBSET Object}
        BY <1>2, <2>1
    <2>3. Range(c.lru) = DOMAIN c.paths
        BY <1>2
    <2> DEFINE l == c.lru
               m == c.paths
    <2>4. [lru |-> l, paths |-> m] \in
              [lru : Seq(Object), paths : UNION {[D -> Path] : D \in SUBSET Object}]
        BY <1>2, <2>2
    <2> QED
        BY <1>2, <2>3, <2>4 DEF Caches
<1> QED
    BY <1>1, <1>2

\* Touch makes an entry and may drop others, but none when it has one already.
LEMMA TouchOK ==
    ASSUME NEW c \in Caches, NEW o \in Object, NEW x \in Path
    PROVE  /\ Touch(c, o, x) \in Caches
           /\ o \in DOMAIN Touch(c, o, x).paths
           /\ Touch(c, o, x).paths[o] = x
           /\ DOMAIN Touch(c, o, x).paths \subseteq DOMAIN c.paths \union {o}
           /\ o \in DOMAIN c.paths => DOMAIN Touch(c, o, x).paths = DOMAIN c.paths
           /\ \A f \in DOMAIN Touch(c, o, x).paths \ {o} :
                  Touch(c, o, x).paths[f] = c.paths[f]
<1> DEFINE q == c.lru
           r == Filter(q, Object \ {o})
           l == <<o>> \o r
           m == IF Len(l) < CacheCap THEN Len(l) ELSE CacheCap
           cut == SubSeq(l, 1, m)
           t == [lru |-> cut, paths |-> [f \in Range(cut) |-> IF f = o THEN x ELSE c.paths[f]]]
<1>1. /\ q \in Seq(Object) /\ c.paths \in [Range(q) -> Path]
      /\ IsInjective(q) /\ Len(q) <= CacheCap
    BY CachesAre
<1>2. CacheCap \in Nat \ {0}
    BY NativeEventsAssumption
<1>3. Touch(c, o, x) = t
    BY DEF Touch
<1>4. /\ r \in Seq(Object) /\ Range(r) = Range(q) \intersect (Object \ {o})
      /\ Len(r) <= Len(q)
      /\ \A j \in 1..Len(q) : q[j] \notin Object \ {o} => Len(r) < Len(q)
      /\ IsInjective(r)
    BY <1>1, FilterRange
<1> HIDE DEF r
<1>5. /\ l \in Seq(Object) /\ Len(l) = Len(r) + 1 /\ Len(r) \in Nat
      /\ l[1] = o /\ \A i \in 1..Len(r) : l[i + 1] = r[i]
    BY <1>4
<1>6. DOMAIN l = 1..(Len(r) + 1) /\ DOMAIN r = 1..Len(r) /\ DOMAIN q = 1..Len(q)
    BY <1>1, <1>4, <1>5
<1> HIDE DEF l
<1>7. Range(q) \subseteq Object /\ Range(r) = Range(q) \ {o}
    <2>1. Range(q) \subseteq Object
        BY <1>1 DEF Range
    <2> QED
        BY <1>4, <2>1
<1>8. \A i \in 2..Len(l) : i - 1 \in 1..Len(r) /\ l[i] = r[i - 1]
    <2> SUFFICES ASSUME NEW i \in 2..Len(l)
                 PROVE  i - 1 \in 1..Len(r) /\ l[i] = r[i - 1]
        OBVIOUS
    <2>1. i - 1 \in 1..Len(r) /\ (i - 1) + 1 = i
        BY <1>5
    <2> QED
        BY <1>5, <2>1
<1>9. m \in 1..Len(l) /\ m <= CacheCap
    BY <1>2, <1>5
<1> HIDE DEF m
<1>10. /\ cut \in Seq(Object) /\ Len(cut) = m
       /\ \A i \in 1..m : cut[i] = l[i]
    BY <1>5, <1>9
<1>11. DOMAIN cut = 1..m
    BY <1>10
<1> HIDE DEF cut
<1>12. o \in Range(cut)
    <2>1. 1 \in 1..m
        BY <1>5, <1>9
    <2> QED
        BY <1>5, <1>10, <1>11, <2>1 DEF Range
<1>13. Range(cut) \subseteq Range(r) \union {o}
    <2> SUFFICES ASSUME NEW i \in 1..m
                 PROVE  cut[i] \in Range(r) \union {o}
        BY <1>11 DEF Range
    <2>1. i = 1 \/ i \in 2..Len(l)
        BY <1>5, <1>9
    <2>2. cut[i] = l[i]
        BY <1>10
    <2> QED
        BY <1>5, <1>6, <1>8, <2>1, <2>2 DEF Range
<1>14. IsInjective(cut)
    <2> SUFFICES ASSUME NEW i \in 1..m, NEW j \in 1..m, cut[i] = cut[j]
                 PROVE  i = j
        BY <1>11 DEF IsInjective
    <2>1. /\ i = 1 \/ i \in 2..Len(l)
          /\ j = 1 \/ j \in 2..Len(l)
        BY <1>5, <1>9
    <2>2. l[i] = l[j]
        BY <1>10
    <2>3. \A k \in 2..Len(l) : l[k] # o
        <3> SUFFICES ASSUME NEW k \in 2..Len(l)
                     PROVE  l[k] # o
            OBVIOUS
        <3>1. l[k] \in Range(r)
            BY <1>6, <1>8 DEF Range
        <3> QED
            BY <1>7, <3>1
    <2>4. CASE i \in 2..Len(l) /\ j \in 2..Len(l)
        <3>1. r[i - 1] = r[j - 1] /\ i - 1 \in DOMAIN r /\ j - 1 \in DOMAIN r
            BY <1>6, <1>8, <2>2, <2>4
        <3>2. i - 1 = j - 1
            BY <1>4, <3>1 DEF IsInjective
        <3> QED
            BY <2>4, <3>2
    <2> QED
        BY <1>5, <2>1, <2>2, <2>3, <2>4
<1>15. t.lru = cut /\ t.paths = [f \in Range(cut) |-> IF f = o THEN x ELSE c.paths[f]]
    OBVIOUS
<1>16. t.paths \in [Range(cut) -> Path]
    BY <1>1, <1>7, <1>13, <1>15
<1>17. t \in Caches
    <2>1. t = [lru |-> t.lru, paths |-> t.paths]
        OBVIOUS
    <2> QED
        BY <1>9, <1>10, <1>14, <1>15, <1>16, <2>1, CachesAre
<1>18. DOMAIN t.paths = Range(cut) /\ DOMAIN c.paths = Range(q)
    BY <1>1, <1>15
<1>19. ASSUME o \in DOMAIN c.paths
       PROVE  DOMAIN t.paths = DOMAIN c.paths
    <2>1. PICK j \in 1..Len(q) : q[j] = o
        BY <1>6, <1>18, <1>19 DEF Range
    <2>2. Len(r) < Len(q)
        BY <1>4, <2>1
    <2>3. m = Len(l)
        BY <1>1, <1>2, <1>5, <2>2 DEF m
    <2>4. Range(r) \subseteq Range(cut)
        <3> SUFFICES ASSUME NEW i \in 1..Len(r)
                     PROVE  r[i] \in Range(cut)
            BY <1>6 DEF Range
        <3>1. i + 1 \in 1..m
            BY <1>5, <2>3
        <3>2. cut[i + 1] = r[i]
            BY <1>5, <1>10, <3>1
        <3> QED
            BY <1>11, <3>1, <3>2 DEF Range
    <2> QED
        BY <1>7, <1>12, <1>13, <1>18, <1>19, <2>4
<1>20. /\ o \in DOMAIN t.paths /\ t.paths[o] = x
       /\ DOMAIN t.paths \subseteq DOMAIN c.paths \union {o}
       /\ \A f \in DOMAIN t.paths \ {o} : t.paths[f] = c.paths[f]
    BY <1>7, <1>12, <1>13, <1>15, <1>18
<1> HIDE DEF t
<1> QED
    BY <1>3, <1>17, <1>19, <1>20

\* Forget drops one entry.
LEMMA ForgetOK ==
    ASSUME NEW c \in Caches, NEW o \in Object
    PROVE  /\ Forget(c, o) \in Caches
           /\ DOMAIN Forget(c, o).paths = DOMAIN c.paths \ {o}
           /\ \A f \in DOMAIN Forget(c, o).paths : Forget(c, o).paths[f] = c.paths[f]
<1> DEFINE q == c.lru
           l == Filter(q, Object \ {o})
           t == [lru |-> l, paths |-> [f \in Range(l) |-> c.paths[f]]]
<1>1. /\ q \in Seq(Object) /\ c.paths \in [Range(q) -> Path]
      /\ IsInjective(q) /\ Len(q) <= CacheCap
    BY CachesAre
<1>2. CacheCap \in Nat \ {0}
    BY NativeEventsAssumption
<1>3. Forget(c, o) = t
    BY DEF Forget
<1>4. /\ l \in Seq(Object) /\ Range(l) = Range(q) \intersect (Object \ {o})
      /\ Len(l) <= Len(q)
      /\ IsInjective(l)
    BY <1>1, FilterRange
<1> HIDE DEF l
<1>5. Range(q) \subseteq Object
    BY <1>1 DEF Range
<1>6. Len(l) <= CacheCap
    BY <1>1, <1>2, <1>4
<1>7. t.lru = l /\ t.paths = [f \in Range(l) |-> c.paths[f]]
    OBVIOUS
<1>8. t.paths \in [Range(l) -> Path]
    BY <1>1, <1>4, <1>7
<1>9. t \in Caches
    <2>1. t = [lru |-> t.lru, paths |-> t.paths]
        OBVIOUS
    <2> QED
        BY <1>4, <1>6, <1>7, <1>8, <2>1, CachesAre
<1>10. /\ DOMAIN t.paths = DOMAIN c.paths \ {o}
       /\ \A f \in DOMAIN t.paths : t.paths[f] = c.paths[f]
    BY <1>1, <1>4, <1>5, <1>7
<1> HIDE DEF t
<1> QED
    BY <1>3, <1>9, <1>10

\* Resolve changes the order only.
LEMMA ResolveOK ==
    ASSUME NEW c \in Caches, NEW o \in Object
    PROVE  Resolve(c, o) \in Caches /\ Resolve(c, o).paths = c.paths
<1>1. c.paths \in [Range(c.lru) -> Path]
    BY CachesAre
<1>2. CASE o \in DOMAIN c.paths
    <2> DEFINE x == c.paths[o]
               t == Touch(c, o, x)
    <2>1. x \in Path /\ Resolve(c, o) = t
        BY <1>1, <1>2 DEF Resolve
    <2> HIDE DEF x
    <2>2. /\ t \in Caches /\ t.paths[o] = x /\ DOMAIN t.paths = DOMAIN c.paths
          /\ \A f \in DOMAIN t.paths \ {o} : t.paths[f] = c.paths[f]
        BY <1>2, <2>1, TouchOK
    <2>3. t.paths \in [Range(t.lru) -> Path]
        BY <2>2, CachesAre
    <2> HIDE DEF t
    <2>4. \A f \in DOMAIN c.paths : t.paths[f] = c.paths[f]
        BY <2>2 DEF x
    <2>5. t.paths = c.paths
        BY <1>1, <2>2, <2>3, <2>4
    <2> QED
        BY <2>1, <2>2, <2>5
<1> QED
    BY <1>2 DEF Resolve

\* An entry of the snapshot is made if there is none.
LEMMA SeedEntryOK ==
    ASSUME NEW c \in Caches, NEW e \in [object : Object, path : Path]
    PROVE  /\ SeedEntry(c, e) \in Caches
           /\ \A f \in DOMAIN SeedEntry(c, e).paths \intersect DOMAIN c.paths :
                  SeedEntry(c, e).paths[f] = c.paths[f]
<1>1. e.object \in Object /\ e.path \in Path
    OBVIOUS
<1>2. CASE e.object \in DOMAIN c.paths
    BY <1>2 DEF SeedEntry
<1>3. CASE e.object \notin DOMAIN c.paths
    <2> DEFINE o == e.object
               x == e.path
               t == Touch(c, o, x)
    <2> HIDE DEF o, x
    <2>1. t \in Caches /\ \A f \in DOMAIN t.paths \ {o} : t.paths[f] = c.paths[f]
        BY <1>1, TouchOK DEF o, x
    <2>2. SeedEntry(c, e) = t
        BY <1>3 DEF SeedEntry, o, x
    <2> HIDE DEF t
    <2> QED
        BY <1>3, <2>1, <2>2 DEF o
<1> QED
    BY <1>2, <1>3

\* What the function of Seeding says.
Seeds(g) ==
    g = [i \in 0..Len(snap) |-> IF i = 0 THEN cache ELSE SeedEntry(g[i - 1], snap[i])]

\* An entry that is there all through the seeding keeps its path.
LEMMA SeedingOK ==
    ASSUME cache \in Caches, snap \in Seq([object : Object, path : Path])
    PROVE  /\ Seeding[Len(snap)] \in Caches
           /\ Seeding[0] = cache
           /\ \A o : (\A i \in 0..Len(snap) : o \in DOMAIN Seeding[i].paths)
                         => Seeding[Len(snap)].paths[o] = cache.paths[o]
<1> DEFINE n == Len(snap)
           E == [object : Object, path : Path]
           step == [p \in Caches \X (1..n) |-> SeedEntry(p[1], snap[p[2]])]
<1>0. snap \in Seq(E) /\ \A e \in E : e \in [object : Object, path : Path]
    OBVIOUS
<1> HIDE DEF E
<1>1. n \in Nat /\ \A i \in 1..n : snap[i] \in E
    BY <1>0
<1> HIDE DEF n
<1>2. step \in [Caches \X (1..n) -> Caches]
    <2>1. ASSUME NEW p \in Caches \X (1..n)
          PROVE  SeedEntry(p[1], snap[p[2]]) \in Caches
        <3>1. p[1] \in Caches /\ snap[p[2]] \in E
            BY <1>1
        <3> QED
            BY <1>0, <3>1, SeedEntryOK
    <2> QED
        BY <2>1
<1>3. \A c \in Caches, i \in 1..n : step[<<c, i>>] = SeedEntry(c, snap[i])
    OBVIOUS
<1> HIDE DEF step
<1>4. Recursive(Caches, cache, step, n)
    BY <1>2 DEF Recursive
<1>5. \E g : Seeds(g)
    <2>1. PICK g : Follows(g, Caches, cache, step, n)
        BY <1>1, <1>4, Recursion
    <2>2. /\ g \in [0..n -> Caches] /\ g[0] = cache
          /\ \A i \in 1..n : g[i] = step[<<g[i - 1], i>>]
        BY <2>1 DEF Follows
    <2>3. ASSUME NEW i \in 0..n
          PROVE  g[i] = IF i = 0 THEN cache ELSE SeedEntry(g[i - 1], snap[i])
        <3>1. CASE i = 0
            BY <2>2, <3>1
        <3>2. CASE i # 0
            <4>1. i \in 1..n /\ i - 1 \in 0..n
                BY <1>1, <3>2
            <4>2. g[i - 1] \in Caches /\ g[i] = step[<<g[i - 1], i>>]
                BY <2>2, <4>1
            <4> QED
                BY <1>3, <3>2, <4>1, <4>2
        <3> QED
            BY <3>1, <3>2
    <2>4. g = [i \in 0..n |-> g[i]]
        BY <2>2
    <2>5. Seeds(g)
        BY <2>3, <2>4 DEF Seeds, n
    <2> QED
        BY <2>5
<1> DEFINE after == CHOOSE g : Seeds(g)
<1>6. Seeding = after
    BY DEF Seeding, Seeds
<1>7. Seeds(after)
    BY <1>5
<1> HIDE DEF after
<1>8. \A i \in 0..n : after[i] = IF i = 0 THEN cache ELSE SeedEntry(after[i - 1], snap[i])
    BY <1>7 DEF Seeds, n
<1>9. after[0] = cache
    BY <1>1, <1>8
<1>10. ASSUME NEW o, \A i \in 0..n : o \in DOMAIN after[i].paths
       PROVE  after[n].paths[o] = cache.paths[o]
    <2> DEFINE G == {i \in 0..n : after[i] \in Caches /\ after[i].paths[o] = cache.paths[o]}
    <2>1. 0 \in G
        BY <1>1, <1>9
    <2>2. ASSUME NEW i \in 1..n, i - 1 \in G
          PROVE  i \in G
        <3>1. i \in 0..n /\ i # 0 /\ i - 1 \in 0..n
            BY <1>1
        <3>2. after[i] = SeedEntry(after[i - 1], snap[i]) /\ after[i - 1] \in Caches
              /\ after[i - 1].paths[o] = cache.paths[o]
            BY <1>8, <2>2, <3>1
        <3> DEFINE c == after[i - 1]
                   e == snap[i]
                   t == SeedEntry(c, e)
        <3>3. e \in E /\ c \in Caches /\ after[i] = t
            BY <1>1, <3>2
        <3>4. o \in DOMAIN c.paths \intersect DOMAIN t.paths
            BY <1>10, <3>1, <3>3
        <3> HIDE DEF c, e
        <3>5. t \in Caches /\ t.paths[o] = c.paths[o]
            BY <1>0, <3>3, <3>4, SeedEntryOK
        <3> QED
            BY <3>1, <3>2, <3>3, <3>5 DEF c
    <2> HIDE DEF G
    <2>3. \A i \in 1..n : i - 1 \in G => i \in G
        BY <2>2
    <2>4. \A i \in 0..n : i \in G
        BY <1>1, <2>1, <2>3, Induction
    <2> QED
        BY <1>1, <2>4 DEF G
<1>11. after[n] \in Caches
    <2> DEFINE G == {i \in 0..n : after[i] \in Caches}
    <2>1. 0 \in G
        BY <1>1, <1>9
    <2>2. ASSUME NEW i \in 1..n, i - 1 \in G
          PROVE  i \in G
        <3>1. i \in 0..n /\ i # 0 /\ i - 1 \in 0..n
            BY <1>1
        <3>2. after[i] = SeedEntry(after[i - 1], snap[i]) /\ after[i - 1] \in Caches
              /\ snap[i] \in E
            BY <1>1, <1>8, <2>2, <3>1
        <3> QED
            BY <1>0, <3>1, <3>2, SeedEntryOK
    <2> HIDE DEF G
    <2>3. \A i \in 1..n : i - 1 \in G => i \in G
        BY <2>2
    <2>4. \A i \in 0..n : i \in G
        BY <1>1, <2>1, <2>3, Induction
    <2> QED
        BY <1>1, <2>4 DEF G
<1> QED
    BY <1>6, <1>9, <1>10, <1>11 DEF n

-----------------------------------------------------------------------------
(* The steps, by what they do to the events.                               *)

\* The process goes on or comes to an end, and the events stay or are dropped.
GoesOn ==
    /\ UNCHANGED <<target, native, written>>
    /\ kernel' \in {kernel, <<>>}
    /\ traced' \in {traced, FALSE}
    /\ kernel' # kernel => ~traced'
    /\ main' \in {"names", "store"} => main' = main
    /\ Early' => Early

LEMMA StepKinds ==
    ASSUME [Next]_vars, ServiceOK, Control
    PROVE  \/ TargetStep \/ Callback \/ Spawned \/ MainEnable
           \/ MainTable \/ MainNames \/ MainSeed
           \/ GoesOn
<1>1. CASE UNCHANGED vars
    BY <1>1 DEF vars, eventVars, output, process, GoesOn, Early
<1>2. CASE StartRefused
    BY <1>2 DEF StartRefused, eventVars, output, process, GoesOn, Early
<1>3. CASE HelloRead \/ HelloRefused \/ HelloExited \/ HelloTimeout \/ PumpRead \/ PumpEof
    BY <1>3 DEF HelloRead, HelloRefused, HelloExited, HelloTimeout, PumpRead, PumpEof,
                eventVars, output, process, GoesOn, Early
<1>4. CASE Stop \/ StopWaited \/ StopTimeout \/ StopTerminated \/ StopJoined \/ BackendDies
    BY <1>4 DEF Stop, StopWaited, StopTimeout, StopTerminated, StopJoined, BackendDies,
                eventVars, output, process, GoesOn, Early
<1>5. CASE MainSweep \/ MainTrace \/ MainTraceFails \/ MainHello
    BY <1>5 DEF MainSweep, MainTrace, MainTraceFails, MainHello, Goes,
                eventVars, output, process, GoesOn, Early
<1>6. CASE MainConsume \/ MainConsumeFails \/ MainLoopEnds \/ MainDrain \/ MainExit
    BY <1>6 DEF MainConsume, MainConsumeFails, MainLoopEnds, MainDrain, MainExit, Goes,
                SessionStopped, Control, eventVars, output, process, GoesOn, Early
<1>7. CASE Heartbeat \/ StdinEof \/ NativeKilled \/ NativeDies
    BY <1>7 DEF Heartbeat, StdinEof, NativeKilled, NativeDies,
                SessionStopped, eventVars, output, process, GoesOn, Early
<1> QED
    BY <1>1, <1>2, <1>3, <1>4, <1>5, <1>6, <1>7 DEF Next, Wrapper, NativeMain

\* Taking the snapshot and seeding the cache with it.
LEMMA SnapshotKeeps ==
    ASSUME TakeTable \/ TakeNames \/ SeedCache
    PROVE  UNCHANGED <<target, traced, kernel, filter, capped, last>>
<1>1. CASE TakeTable
    BY <1>1, Zenon DEF TakeTable
<1>2. CASE TakeNames
    BY <1>2, Zenon DEF TakeNames
<1>3. CASE SeedCache
    BY <1>3, Zenon DEF SeedCache
<1> QED
    BY <1>1, <1>2, <1>3

LEMMA ControlStep ==
    ASSUME [Next]_vars, ServiceOK, EventsTypeOK, Control, Unused
    PROVE  Control'
<1> USE DEF Control, Up
<1>1. CASE UNCHANGED vars
    BY <1>1 DEF vars, eventVars, wrapper, output, process, target
<1>2. CASE StartRefused \/ Spawned
    BY <1>2 DEF StartRefused, Spawned, MayStart, ServiceOK, eventVars, output, process, target
<1>3. CASE HelloRead \/ HelloRefused \/ HelloExited \/ HelloTimeout \/ PumpRead \/ PumpEof
    BY <1>3 DEF HelloRead, HelloRefused, HelloExited, HelloTimeout, PumpRead, PumpEof,
                eventVars, wrapper, output, process, target
<1>4. CASE Stop \/ StopWaited \/ StopTimeout \/ StopTerminated \/ StopJoined \/ BackendDies
    BY <1>4 DEF Stop, StopWaited, StopTimeout, StopTerminated, StopJoined, BackendDies,
                eventVars, wrapper, output, process, target
<1>5. CASE MainSweep \/ MainTrace \/ MainTraceFails \/ MainHello \/ MainEnable
    BY <1>5 DEF MainSweep, MainTrace, MainTraceFails, MainHello, MainEnable, Goes, Unused, Early,
                eventVars, wrapper, output, process, target
<1>6. CASE MainConsume \/ MainConsumeFails \/ MainLoopEnds \/ MainDrain \/ MainExit
    BY <1>6 DEF MainConsume, MainConsumeFails, MainLoopEnds, MainDrain, MainExit, Goes,
                SessionStopped, eventVars, wrapper, output, process, target
<1>7. CASE Heartbeat \/ StdinEof \/ NativeKilled \/ NativeDies
    BY <1>7 DEF Heartbeat, StdinEof, NativeKilled, NativeDies, Consuming,
                SessionStopped, eventVars, wrapper, output, process, target
<1>8. CASE MainTable \/ MainNames \/ MainSeed
    <2>1. UNCHANGED <<target, traced, kernel>>
        BY <1>8, SnapshotKeeps DEF MainTable, MainNames, MainSeed
    <2> QED
        BY <1>8, <2>1 DEF MainTable, MainNames, MainSeed, Goes, wrapper, output, process, target
<1>9. CASE Callback
    <2>1. Consuming /\ UNCHANGED <<starts, main, shutdown>>
        BY <1>9 DEF Callback, wrapper, process
    <2>2. UNCHANGED <<plain, traced, alive, kin>>
        BY <1>9 DEF Callback, HandleEvent, HandleStart, HandleStop, HandleStranger,
                    HandleOpen, HandleUse, HandleClose, target
    <2>3. main # "close" /\ Up
        BY <2>1 DEF Consuming
    <2> QED
        BY <2>1, <2>2, <2>3
<1>10. CASE TargetStep
    <2>1. /\ main \in {"none", "consume"} \/ Consuming
          /\ UNCHANGED <<starts, main, shutdown>>
          /\ Target
        BY <1>10 DEF TargetStep, wrapper, process
    <2>2. UNCHANGED <<plain, traced>>
        BY <2>1 DEF Target, Spawn, Exit, Open, Use, Rename, Close, Does
    <2>3. plain => UNCHANGED <<alive, kin>>
        BY <2>1 DEF Target, Spawn, Exit, Open, Use, Rename, Close, Does
    <2>4. ~traced => kernel' = kernel
        BY <2>1 DEF Target, Spawn, Exit, Open, Use, Rename, Close, Post, PostLife
    <2>5. main # "close"
        BY <2>1 DEF Consuming
    <2> QED
        BY <2>1, <2>2, <2>3, <2>4, <2>5
<1> QED
    BY <1>1, <1>2, <1>3, <1>4, <1>5, <1>6, <1>7, <1>8, <1>9, <1>10 DEF Next, Wrapper, NativeMain

LEMMA OwnedStep ==
    ASSUME [Next]_vars, ServiceOK, Control, Owned
    PROVE  Owned'
<1> USE DEF Owned, Up, Traces
<1>1. CASE UNCHANGED vars
    BY <1>1 DEF vars, wrapper, output, process
<1>2. CASE StartRefused \/ Spawned
    <2>1. /\ ~Up /\ starts' = starts + 1 /\ UNCHANGED <<sessions, killed>>
          /\ main' \in {main, "sweep"}
        BY <1>2 DEF StartRefused, Spawned, MayStart, process
    <2>2. \A s \in sessions : s \in Nat /\ s <= starts /\ starts \in Nat
        BY DEF ServiceOK
    <2>3. \A s \in sessions : s <= starts' /\ s # starts'
        BY <2>1, <2>2
    <2>4. starts' \notin sessions
        BY <2>3
    <2>5. \A s \in sessions \ {Neighbour} : s \in killed
        BY <2>1
    <2>6. ~Traces'
        BY <2>1
    <2> QED
        BY <2>1, <2>3, <2>4, <2>5, <2>6
<1>3. CASE HelloRead \/ HelloRefused \/ HelloExited \/ HelloTimeout \/ PumpRead \/ PumpEof
    BY <1>3 DEF HelloRead, HelloRefused, HelloExited, HelloTimeout, PumpRead, PumpEof,
                wrapper, output, process
<1>4. CASE Stop \/ StopWaited \/ StopTimeout \/ StopTerminated \/ StopJoined \/ BackendDies
    BY <1>4 DEF Stop, StopWaited, StopTimeout, StopTerminated, StopJoined, BackendDies,
                wrapper, output, process
<1>5. CASE MainSweep
    <2>1. Swept = {}
        BY DEF Swept, WrapperPrefix, NativePrefix
    <2> QED
        BY <1>5, <2>1 DEF MainSweep, Goes, wrapper, output
<1>6. CASE MainTrace
    BY <1>6 DEF MainTrace, Goes, ServiceOK, wrapper, output
<1>7. CASE MainTraceFails \/ MainHello \/ MainEnable
    BY <1>7 DEF MainTraceFails, MainHello, MainEnable, Goes, wrapper, output
<1>8. CASE MainConsume \/ MainConsumeFails \/ MainLoopEnds \/ MainDrain \/ MainExit
    BY <1>8 DEF MainConsume, MainConsumeFails, MainLoopEnds, MainDrain, MainExit, Goes,
                SessionStopped, Control, Neighbour, wrapper, output
<1>9. CASE Heartbeat \/ NativeKilled
    BY <1>9 DEF Heartbeat, NativeKilled, wrapper, output, process
<1>10. CASE StdinEof
    BY <1>10 DEF StdinEof, SessionStopped, Control, Neighbour, wrapper, output
<1>11. CASE NativeDies
    BY <1>11 DEF NativeDies, wrapper
<1>12. CASE MainTable \/ MainNames \/ MainSeed
    BY <1>12 DEF MainTable, MainNames, MainSeed, Goes, wrapper, output, process
<1>13. CASE Callback \/ TargetStep
    BY <1>13 DEF Callback, TargetStep, wrapper, process
<1> QED
    BY <1>1, <1>2, <1>3, <1>4, <1>5, <1>6, <1>7, <1>8, <1>9, <1>10, <1>11, <1>12, <1>13
       DEF Next, Wrapper, NativeMain

-----------------------------------------------------------------------------
(* The types of the events.                                                *)

\* The first event of the queue is handled.
LEMMA Handles ==
    ASSUME HandleEvent, kernel \in Seq(Event)
    PROVE  /\ kernel # <<>> /\ kernel' = Tail(kernel) /\ kernel[1] \in Event
           /\ UNCHANGED <<target, traced, snap>>
           /\ \/ HandleStart(kernel[1]) \/ HandleStop(kernel[1]) \/ HandleStranger(kernel[1])
              \/ HandleOpen(kernel[1]) \/ HandleUse(kernel[1]) \/ HandleClose(kernel[1])
<1>1. PICK e \in Range(kernel) :
          \/ HandleStart(e) \/ HandleStop(e) \/ HandleStranger(e)
          \/ HandleOpen(e) \/ HandleUse(e) \/ HandleClose(e)
    BY DEF HandleEvent
<1>2. Take(e) /\ UNCHANGED <<target, traced, snap>>
    BY <1>1 DEF HandleStart, HandleStop, HandleStranger, HandleOpen, HandleUse, HandleClose
<1>3. kernel # <<>> /\ kernel' = Tail(kernel) /\ e = Head(kernel)
    BY <1>2 DEF Take
<1>4. Head(kernel) = kernel[1] /\ kernel[1] \in Event
    BY <1>3, TailAt
<1> QED
    BY <1>1, <1>2, <1>3, <1>4

\* What the cache and the named objects become.
LEMMA CacheHandled ==
    ASSUME HandleEvent, kernel \in Seq(Event), EventOK, CacheOK
    PROVE  CacheOK' /\ EventOK'
<1> DEFINE e == kernel[1]
<1>1. /\ kernel # <<>> /\ kernel' = Tail(kernel) /\ e \in Event
      /\ \/ HandleStart(e) \/ HandleStop(e) \/ HandleStranger(e)
         \/ HandleOpen(e) \/ HandleUse(e) \/ HandleClose(e)
    BY Handles
<1>2. /\ Len(kernel') = Len(kernel) - 1 /\ Len(kernel) \in Nat \ {0}
      /\ \A i \in 1..Len(kernel') : kernel'[i] = kernel[i + 1]
    BY <1>1, TailAt
<1>3. EventOK'
    <2>1. \A i \in 1..Len(kernel') : i + 1 \in 1..Len(kernel)
        BY <1>2
    <2> QED
        BY <1>2, <2>1 DEF EventOK
<1>4. /\ e.op \in {"open", "use", "close"} => e.object \in Object /\ e.opened \in Path
      /\ e.op = "open" => e.path = e.opened
    <2>1. 1 \in 1..Len(kernel)
        BY <1>2
    <2> QED
        BY <2>1 DEF EventOK
<1> HIDE DEF e
<1>5. cache \in Caches /\ named \subseteq DOMAIN cache.paths
    BY DEF CacheOK
<1>6. CASE HandleStart(e) \/ HandleStop(e) \/ HandleStranger(e)
    <2>1. UNCHANGED <<cache, named>>
        BY <1>6 DEF HandleStart, HandleStop, HandleStranger
    <2> QED
        BY <1>3, <1>5, <2>1 DEF CacheOK
<1>7. CASE HandleOpen(e)
    <2>1. /\ e.op = "open" /\ cache' = Touch(cache, e.object, e.path)
          /\ named' = (named \union {e.object}) \intersect DOMAIN cache'.paths
        BY <1>7 DEF HandleOpen
    <2>2. cache' \in Caches
        BY <1>4, <1>5, <2>1, TouchOK
    <2> QED
        BY <1>3, <2>1, <2>2 DEF CacheOK
<1>8. CASE HandleUse(e)
    <2>1. /\ e.op = "use" /\ named' = named
          /\ cache' = Resolve(cache, e.object) \/ cache' = cache
        BY <1>8 DEF HandleUse
    <2>2. cache' \in Caches /\ cache'.paths = cache.paths
        BY <1>4, <1>5, <2>1, ResolveOK
    <2> QED
        BY <1>3, <1>5, <2>1, <2>2 DEF CacheOK
<1>9. CASE HandleClose(e)
    <2>1. e.op = "close" /\ cache' = Forget(cache, e.object) /\ named' = named \ {e.object}
        BY <1>9 DEF HandleClose
    <2>2. cache' \in Caches /\ DOMAIN cache'.paths = DOMAIN cache.paths \ {e.object}
        BY <1>4, <1>5, <2>1, ForgetOK
    <2> QED
        BY <1>3, <1>5, <2>1, <2>2 DEF CacheOK
<1> QED
    BY <1>1, <1>6, <1>7, <1>8, <1>9

\* The part of EventsTypeOK that is about the target.
TargetOK ==
    /\ plain \in BOOLEAN
    /\ ops \in 0..MaxOps
    /\ alive \in SUBSET Pid
    /\ kin \in SUBSET alive
    /\ open \in [Handle -> OpenFile \union {Closed}]
    /\ rootGone \in BOOLEAN

\* The file that an event is about; and the same file, renamed or not.
About(f, e) == f.owner = e.pid /\ f.object = e.object /\ f.opened = e.opened

Same(f, g) == f.owner = g.owner /\ f.object = g.object /\ f.opened = g.opened

\* What the target does is reported if it is traced: by an event that says what
\* has become of its process and of the file it is about.
Report(e) ==
    /\ kernel' = Append(kernel, e)
    /\ e.op = "start" => e.by \in alive /\ e.pid \in alive' \ alive
                             /\ (e.by \in kin <=> e.kin) /\ (e.pid \in kin' <=> e.kin)
                             /\ open' = open /\ e.object = Closed
    /\ e.op = "stop" => /\ e.pid \notin alive'
                        /\ \A h \in InUse' : h \in InUse /\ open'[h] = open[h]
    /\ e.op \in {"open", "use", "close"} =>
           /\ e.object \in Object /\ e.opened \in Path
           /\ e.pid \in alive /\ (e.pid \in kin <=> e.kin)
           /\ UNCHANGED <<alive, kin>>
    /\ e.op = "open" => /\ e.path = e.opened
                        /\ \A g \in InUse : open[g].object # e.object
                        /\ \A h \in InUse' : \/ h \in InUse /\ open'[h] = open[h]
                                             \/ About(open'[h], e)
    /\ e.op = "use" => /\ \A h \in InUse' : h \in InUse /\ Same(open'[h], open[h])
                       /\ \E h \in InUse : About(open[h], e)
    /\ e.op = "close" => \A h \in InUse' : h \in InUse /\ open'[h] = open[h]
    /\ \A p \in Pid : ~Life(e, p) => (p \in alive' <=> p \in alive) /\ (p \in kin' <=> p \in kin)

LEMMA TargetSteps ==
    ASSUME Target, TargetOK, OpenOK, traced \in BOOLEAN
    PROVE  /\ UNCHANGED <<traced, native, plain>>
           /\ ops' = ops + 1
           /\ rootGone => rootGone'
           /\ TargetOK' /\ OpenOK'
           /\ traced => rootGone' = rootGone /\ \E e \in Event : Report(e)
           /\ ~traced => /\ kernel' = kernel
                         /\ kin' \subseteq kin
                         /\ Root \in kin \ kin' => rootGone'
<1> DEFINE life(op, p, by) == [op |-> op, pid |-> p, by |-> by, object |-> Closed,
                               opened |-> Closed, path |-> Closed, kin |-> p \in kin']
           ev(op, f, x) == [op |-> op, pid |-> f.owner, by |-> Closed, object |-> f.object,
                            opened |-> f.opened, path |-> x, kin |-> f.owner \in kin']
<1>1. MaxOps \in Nat /\ MaxUses \in 0..MaxOps
    BY NativeEventsAssumption
<1>2. ASSUME Does
      PROVE  /\ UNCHANGED <<traced, native, plain>>
             /\ ops' = ops + 1 /\ ops' \in 0..MaxOps /\ plain' \in BOOLEAN
    BY <1>1, <1>2 DEF Does, TargetOK
<1>3. ASSUME NEW p \in Pid, NEW q \in Pid, Spawn(p, q)
      PROVE  /\ Does /\ TargetOK' /\ OpenOK' /\ rootGone' = rootGone
             /\ traced => \E e \in Event : Report(e)
             /\ ~traced => kernel' = kernel /\ kin' = kin
    <2>1. /\ Does /\ p \in alive /\ q \notin alive
          /\ alive' = alive \union {q}
          /\ kin' = IF traced /\ p \in kin THEN kin \union {q} ELSE kin
          /\ open' = open /\ rootGone' = rootGone
          /\ kernel' = IF traced THEN Append(kernel, life("start", q, p))
                       ELSE kernel
        BY <1>3 DEF Spawn, PostLife
    <2>2. TargetOK'
        BY <1>2, <2>1 DEF TargetOK
    <2>3. OpenOK'
        BY <2>1 DEF OpenOK, InUse
    <2> DEFINE e == life("start", q, p)
    <2>4. e \in Event
        BY DEF Event, Op
    <2>5. /\ e.op = "start" /\ e.pid = q /\ e.by = p /\ (e.kin <=> q \in kin')
          /\ e.object = Closed
        OBVIOUS
    <2> HIDE DEF e
    <2>6. ASSUME traced
          PROVE  Report(e)
        <3>1. kernel' = Append(kernel, e)
            BY <2>1, <2>6 DEF e
        <3>2. q \in alive' \ alive /\ q \notin kin /\ (p \in kin <=> q \in kin')
            BY <2>1, <2>6 DEF TargetOK
        <3>3. \A r \in Pid : r # q => (r \in alive' <=> r \in alive) /\ (r \in kin' <=> r \in kin)
            BY <2>1
        <3> QED
            BY <2>1, <2>5, <3>1, <3>2, <3>3 DEF Report, Life
    <2> QED
        BY <2>1, <2>2, <2>3, <2>4, <2>6
<1>4. ASSUME NEW p \in Pid, Exit(p)
      PROVE  /\ Does /\ TargetOK' /\ OpenOK'
             /\ rootGone' = (rootGone \/ (p = Root /\ ~traced))
             /\ kin' = kin \ {p}
             /\ traced => \E e \in Event : Report(e)
             /\ ~traced => kernel' = kernel
    <2>1. /\ Does /\ p \in alive
          /\ alive' = alive \ {p}
          /\ kin' = kin \ {p}
          /\ open' = [h \in Handle |->
                         IF h \in InUse /\ open[h].owner = p THEN Closed ELSE open[h]]
          /\ rootGone' = (rootGone \/ (p = Root /\ ~traced))
          /\ kernel' = IF traced THEN Append(kernel, life("stop", p, Closed))
                       ELSE kernel
        BY <1>4 DEF Exit, PostLife
    <2>2. TargetOK'
        <3>1. open' \in [Handle -> OpenFile \union {Closed}]
            BY <2>1 DEF TargetOK
        <3> QED
            BY <1>2, <2>1, <3>1 DEF TargetOK
    <2>3. \A h \in InUse' : h \in InUse /\ open'[h] = open[h] /\ open[h].owner # p
        BY <2>1 DEF InUse
    <2>4. OpenOK'
        <3>1. \A h \in InUse' : open'[h].owner \in alive'
            BY <2>1, <2>3 DEF OpenOK
        <3>2. \A g, h \in InUse' : open'[g].object = open'[h].object => g = h
            BY <2>3 DEF OpenOK
        <3> QED
            BY <3>1, <3>2 DEF OpenOK
    <2> DEFINE e == life("stop", p, Closed)
    <2>5. e \in Event
        BY DEF Event, Op
    <2>6. e.op = "stop" /\ e.pid = p
        OBVIOUS
    <2> HIDE DEF e
    <2>7. ASSUME traced
          PROVE  Report(e)
        <3>1. kernel' = Append(kernel, e)
            BY <2>1, <2>7 DEF e
        <3>2. \A r \in Pid : r # p => (r \in alive' <=> r \in alive) /\ (r \in kin' <=> r \in kin)
            BY <2>1
        <3> QED
            BY <2>1, <2>3, <2>6, <3>1, <3>2 DEF Report, Life
    <2> QED
        BY <2>1, <2>2, <2>4, <2>5, <2>7
<1>5. ASSUME NEW p \in Pid, NEW h \in Handle, NEW o \in Object, NEW x \in Path, Open(p, h, o, x)
      PROVE  /\ Does /\ TargetOK' /\ OpenOK' /\ rootGone' = rootGone
             /\ traced => \E e \in Event : Report(e)
             /\ ~traced => kernel' = kernel /\ kin' = kin
    <2> DEFINE f == [owner |-> p, object |-> o, opened |-> x, path |-> x]
               e == ev("open", f, x)
    <2>1. /\ Does /\ p \in alive /\ open[h] = Closed
          /\ \A g \in InUse : open[g].object # o
          /\ open' = [open EXCEPT ![h] = f]
          /\ alive' = alive /\ kin' = kin /\ rootGone' = rootGone
          /\ kernel' = IF traced THEN Append(kernel, e) ELSE kernel
        BY <1>5 DEF Open, Post
    <2>2. f \in OpenFile /\ f.owner = p /\ f.object = o
        BY DEF OpenFile
    <2>3. e \in Event
        BY DEF Event, Op
    <2>4. /\ e.op = "open" /\ e.pid = p /\ e.object = o /\ e.opened = x /\ e.path = x
          /\ (e.kin <=> p \in kin')
        OBVIOUS
    <2>5. About(f, e)
        BY DEF About
    <2> HIDE DEF e, f
    <2>6. TargetOK'
        <3>1. open' \in [Handle -> OpenFile \union {Closed}]
            BY <2>1, <2>2 DEF TargetOK
        <3> QED
            BY <1>2, <2>1, <3>1 DEF TargetOK
    <2>7. \A g \in InUse' : \/ g \in InUse /\ open'[g] = open[g]
                            \/ g = h /\ open'[g] = f
        <3>1. open \in [Handle -> OpenFile \union {Closed}]
            BY DEF TargetOK
        <3>2. \A g \in Handle : open'[g] = IF g = h THEN f ELSE open[g]
            BY <2>1, <3>1
        <3> QED
            BY <3>2 DEF InUse
    <2>8. OpenOK'
        <3>1. \A g \in InUse' : open'[g].owner \in alive'
            BY <2>1, <2>2, <2>7 DEF OpenOK
        <3>2. \A g, k \in InUse' : open'[g].object = open'[k].object => g = k
            <4> SUFFICES ASSUME NEW g \in InUse', NEW k \in InUse',
                                open'[g].object = open'[k].object
                         PROVE  g = k
                OBVIOUS
            <4>1. CASE g \in InUse /\ open'[g] = open[g] /\ k \in InUse /\ open'[k] = open[k]
                BY <4>1 DEF OpenOK
            <4> QED
                BY <2>1, <2>2, <2>7, <4>1
        <3> QED
            BY <3>1, <3>2 DEF OpenOK
    <2>9. ASSUME traced
          PROVE  Report(e)
        BY <2>1, <2>4, <2>5, <2>7, <2>9 DEF Report
    <2> QED
        BY <2>1, <2>3, <2>6, <2>8, <2>9
<1>6. ASSUME NEW h \in Handle, Use(h)
      PROVE  /\ Does /\ TargetOK' /\ OpenOK' /\ rootGone' = rootGone
             /\ traced => \E e \in Event : Report(e)
             /\ ~traced => kernel' = kernel /\ kin' = kin
    <2> DEFINE f == open[h]
    <2>1. /\ Does /\ h \in InUse
          /\ UNCHANGED <<alive, kin, open, rootGone>>
        BY <1>6 DEF Use
    <2>2. PICK x \in {Closed, f.path} :
              kernel' = IF traced THEN Append(kernel, ev("use", f, x)) ELSE kernel
        BY <1>6 DEF Use, Post
    <2> DEFINE e == ev("use", f, x)
    <2>3. f \in OpenFile /\ f.owner \in alive
        BY <2>1 DEF TargetOK, OpenOK, InUse
    <2>4. f.owner \in Pid /\ f.object \in Object /\ f.opened \in Path /\ f.path \in Path
        BY <2>3 DEF OpenFile
    <2>5. e \in Event
        BY <2>4 DEF Event, Op
    <2>6. e.op = "use" /\ e.pid = f.owner /\ e.object = f.object /\ (e.kin <=> f.owner \in kin')
          /\ e.opened = f.opened
        OBVIOUS
    <2> HIDE DEF e, f
    <2>7. TargetOK'
        BY <1>2, <2>1 DEF TargetOK
    <2>8. OpenOK'
        BY <2>1 DEF OpenOK, InUse
    <2>9. /\ \E g \in InUse : About(open[g], e)
          /\ \A g \in InUse' : g \in InUse /\ Same(open'[g], open[g])
        BY <2>1, <2>6 DEF f, About, Same, InUse
    <2>10. ASSUME traced
           PROVE  Report(e)
        BY <2>1, <2>2, <2>3, <2>4, <2>6, <2>9, <2>10 DEF Report, Life, e
    <2> QED
        BY <2>1, <2>2, <2>5, <2>7, <2>8, <2>10
<1>12. ASSUME NEW h \in Handle, NEW z \in Path, Rename(h, z)
      PROVE  /\ Does /\ TargetOK' /\ OpenOK' /\ rootGone' = rootGone
             /\ traced => \E e \in Event : Report(e)
             /\ ~traced => kernel' = kernel /\ kin' = kin
    <2> DEFINE f == open[h]
               New(g) == IF g \in InUse /\ open[g].path = f.path
                         THEN [open[g] EXCEPT !.path = z] ELSE open[g]
    <2>1. /\ Does /\ h \in InUse
          /\ UNCHANGED <<alive, kin, rootGone>>
          /\ open' = [g \in Handle |-> New(g)]
        BY <1>12 DEF Rename
    <2>2. PICK x \in {Closed, z} :
              kernel' = IF traced THEN Append(kernel, ev("use", f, x)) ELSE kernel
        BY <1>12 DEF Rename, Post
    <2> DEFINE e == ev("use", f, x)
    <2>3. f \in OpenFile /\ f.owner \in alive
        BY <2>1 DEF TargetOK, OpenOK, InUse
    <2>4. f.owner \in Pid /\ f.object \in Object /\ f.opened \in Path
        BY <2>3 DEF OpenFile
    <2>5. e \in Event
        BY <2>4 DEF Event, Op
    <2>6. e.op = "use" /\ e.pid = f.owner /\ e.object = f.object /\ (e.kin <=> f.owner \in kin')
          /\ e.opened = f.opened
        OBVIOUS
    <2> HIDE DEF e
    <2>7. \A g \in Handle : /\ g \in InUse => New(g) \in OpenFile /\ Same(New(g), open[g])
                            /\ g \notin InUse => New(g) = Closed
        <3> SUFFICES ASSUME NEW g \in Handle
                     PROVE  /\ g \in InUse => New(g) \in OpenFile /\ Same(New(g), open[g])
                            /\ g \notin InUse => New(g) = Closed
            OBVIOUS
        <3>1. CASE g \notin InUse
            BY <3>1 DEF InUse
        <3>2. CASE g \in InUse
            <4>1. open[g] \in OpenFile
                BY <3>2 DEF TargetOK, InUse
            <4>2. /\ [open[g] EXCEPT !.path = z] \in OpenFile
                  /\ Same([open[g] EXCEPT !.path = z], open[g])
                  /\ Same(open[g], open[g])
                BY <4>1 DEF OpenFile, Same
            <4> QED
                BY <3>2, <4>1, <4>2
        <3> QED
            BY <3>1, <3>2
    <2> HIDE DEF New, f
    <2>8. \A g \in Handle : open'[g] = New(g)
        BY <2>1
    <2>9. \A g \in InUse' : g \in InUse /\ Same(open'[g], open[g])
        BY <2>7, <2>8 DEF InUse
    <2>10. TargetOK'
        <3>1. \A g \in Handle : New(g) \in OpenFile \union {Closed}
            BY <2>7
        <3>2. open' \in [Handle -> OpenFile \union {Closed}]
            BY <2>1, <3>1
        <3> QED
            BY <1>2, <2>1, <3>2 DEF TargetOK
    <2>11. OpenOK'
        BY <2>1, <2>9 DEF OpenOK, Same
    <2>12. \E g \in InUse : About(open[g], e)
        BY <2>1, <2>6 DEF f, About
    <2>13. ASSUME traced
           PROVE  Report(e)
        BY <2>1, <2>2, <2>3, <2>4, <2>6, <2>9, <2>12, <2>13 DEF Report, Life, e
    <2> QED
        BY <2>1, <2>2, <2>5, <2>10, <2>11, <2>13
<1>7. ASSUME NEW h \in Handle, Close(h)
      PROVE  /\ Does /\ TargetOK' /\ OpenOK' /\ rootGone' = rootGone
             /\ traced => \E e \in Event : Report(e)
             /\ ~traced => kernel' = kernel /\ kin' = kin
    <2> DEFINE f == open[h]
               e == ev("close", f, Closed)
    <2>1. /\ Does /\ h \in InUse
          /\ UNCHANGED <<alive, kin, rootGone>>
          /\ open' = [open EXCEPT ![h] = Closed]
          /\ kernel' = IF traced THEN Append(kernel, e) ELSE kernel
        BY <1>7 DEF Close, Post
    <2>2. f \in OpenFile /\ f.owner \in alive
        BY <2>1 DEF TargetOK, OpenOK, InUse
    <2>3. f.owner \in Pid /\ f.object \in Object /\ f.opened \in Path
        BY <2>2 DEF OpenFile
    <2>4. e \in Event
        BY <2>3 DEF Event, Op
    <2>5. /\ e.op = "close" /\ e.pid = f.owner /\ e.object = f.object /\ e.opened = f.opened
          /\ (e.kin <=> f.owner \in kin')
        OBVIOUS
    <2> HIDE DEF e, f
    <2>6. TargetOK'
        BY <1>2, <2>1 DEF TargetOK
    <2>7. \A g \in InUse' : g \in InUse /\ open'[g] = open[g]
        BY <2>1 DEF InUse, TargetOK
    <2>8. OpenOK'
        BY <2>1, <2>7 DEF OpenOK
    <2>9. ASSUME traced
          PROVE  Report(e)
        BY <2>1, <2>2, <2>3, <2>5, <2>7, <2>9 DEF Report
    <2> QED
        BY <2>1, <2>4, <2>6, <2>8, <2>9
<1> HIDE DEF ev
<1>8. CASE \E p, q \in Pid : Spawn(p, q)
    <2>1. PICK p, q \in Pid : Spawn(p, q)
        BY <1>8
    <2> QED
        BY <1>2, <1>3, <2>1
<1>9. CASE \E p \in Pid : Exit(p)
    <2>1. PICK p \in Pid : Exit(p)
        BY <1>9
    <2>2. /\ Does /\ TargetOK' /\ OpenOK'
          /\ rootGone' = (rootGone \/ (p = Root /\ ~traced))
          /\ kin' = kin \ {p}
          /\ traced => \E e \in Event : Report(e)
          /\ ~traced => kernel' = kernel
        BY <1>4, <2>1
    <2>3. rootGone => rootGone'
        BY <2>2
    <2>4. traced => rootGone' = rootGone
        BY <2>2 DEF TargetOK
    <2>5. ~traced => kin' \subseteq kin /\ (Root \in kin \ kin' => rootGone')
        BY <2>2
    <2> QED
        BY <1>2, <2>2, <2>3, <2>4, <2>5
<1>10. CASE \E p \in Pid, h \in Handle, o \in Object, x \in Path : Open(p, h, o, x)
    <2>1. PICK p \in Pid, h \in Handle, o \in Object, x \in Path : Open(p, h, o, x)
        BY <1>10
    <2> QED
        BY <1>2, <1>5, <2>1
<1>11. CASE \E h \in Handle : Use(h) \/ Close(h) \/ \E x \in Path : Rename(h, x)
    <2>1. PICK h \in Handle : Use(h) \/ Close(h) \/ \E x \in Path : Rename(h, x)
        BY <1>11
    <2>2. CASE \E x \in Path : Rename(h, x)
        <3>1. PICK x \in Path : Rename(h, x)
            BY <2>2
        <3> QED
            BY <1>2, <1>12, <3>1
    <2> QED
        BY <1>2, <1>6, <1>7, <2>1, <2>2
<1> QED
    BY <1>8, <1>9, <1>10, <1>11 DEF Target

LEMMA CachesType ==
    ASSUME NEW c \in Caches
    PROVE  /\ c.lru \in Seq(Object) /\ Range(c.paths) \subseteq Path
           /\ DOMAIN c.paths = Range(c.lru) /\ DOMAIN c.paths \subseteq Object
           /\ c.paths \in [DOMAIN c.paths -> Path]
<1>1. c.lru \in Seq(Object) /\ c.paths \in [Range(c.lru) -> Path]
    BY CachesAre
<1>2. Range(c.lru) \subseteq Object
    BY <1>1 DEF Range
<1>3. DOMAIN c.paths = Range(c.lru)
    BY <1>1
<1>4. Range(c.paths) \subseteq Path
    BY <1>1, <1>3 DEF Range
<1> QED
    BY <1>1, <1>2, <1>3, <1>4

LEMMA EmptyCacheOK == EmptyCache \in Caches
<1> DEFINE l == <<>>
           m == <<>>
<1>1. l \in Seq(Object) /\ Len(l) = 0 /\ DOMAIN l = {} /\ m = [x \in {} |-> x]
    OBVIOUS
<1>2. Range(l) = {} /\ IsInjective(l)
    BY <1>1 DEF Range, IsInjective
<1>3. m \in [Range(l) -> Path]
    BY <1>1, <1>2
<1>4. Len(l) <= CacheCap
    BY <1>1, NativeEventsAssumption
<1>5. EmptyCache = [lru |-> l, paths |-> m]
    BY DEF EmptyCache
<1> HIDE DEF l, m
<1> DEFINE c == [lru |-> l, paths |-> m]
<1>6. c.lru = l /\ c.paths = m /\ c = [lru |-> c.lru, paths |-> c.paths]
    OBVIOUS
<1> HIDE DEF c
<1>7. c \in Caches
    BY <1>1, <1>2, <1>3, <1>4, <1>6, CachesAre
<1> QED
    BY <1>5, <1>7 DEF c

\* What is known of the events without the filter and the names.
Events ==
    /\ EventsTypeOK /\ Unused /\ Counted /\ SnapOK /\ EventOK /\ OpenOK /\ CacheOK

LEMMA EventsGoOn ==
    ASSUME Events, ServiceOK, GoesOn
    PROVE  Events'
<1>1. /\ UNCHANGED <<plain, ops, alive, kin, open, rootGone>>
      /\ UNCHANGED <<filter, capped, cache, snap, last, named>>
      /\ UNCHANGED written
      /\ kernel' = kernel \/ kernel' = <<>>
      /\ traced' = traced \/ traced' = FALSE
      /\ main' \in {"names", "store"} => main' = main
      /\ Early' => Early
    BY DEF GoesOn, target, native
<1>2. kernel \in Seq(Event) /\ Len(kernel) \in Nat /\ <<>> \in Seq(Event) /\ Len(<<>>) = 0
    BY DEF Events, EventsTypeOK
<1>3. EventsTypeOK'
    BY <1>1, <1>2 DEF Events, EventsTypeOK
<1>4. Unused'
    <2>1. SUFFICES ASSUME Early'
                   PROVE  Unused'
        BY DEF Unused
    <2>2. /\ ~traced /\ kernel = <<>>
          /\ filter = {Root} /\ ~capped /\ named = {} /\ cache = EmptyCache
          /\ last = Nothing
          /\ kin \subseteq {Root} /\ (Root \in kin \/ rootGone)
        BY <1>1, <2>1 DEF Events, Unused
    <2>3. kernel' = <<>> /\ ~traced'
        BY <1>1, <2>2
    <2>4. Nothing' = Nothing /\ EmptyCache' = EmptyCache
        BY DEF Nothing, EmptyCache
    <2> QED
        BY <1>1, <2>2, <2>3, <2>4 DEF Unused
<1>5. Counted'
    <2>1. written \in Nat /\ ops \in Nat /\ written + Len(kernel) <= ops
        BY NativeEventsAssumption DEF ServiceOK, Events, EventsTypeOK, Counted
    <2>2. Len(kernel') = Len(kernel) \/ Len(kernel') = 0
        BY <1>1, <1>2
    <2> QED
        BY <1>1, <1>2, <2>1, <2>2 DEF Counted
<1>6. SnapOK'
    BY <1>1 DEF Events, SnapOK
<1>7. EventOK'
    <2>1. CASE kernel' = kernel
        BY <2>1 DEF Events, EventOK
    <2>2. CASE kernel' = <<>>
        <3>1. Len(kernel') = 0
            BY <1>2, <2>2
        <3> QED
            BY <3>1 DEF EventOK
    <2> QED
        BY <1>1, <2>1, <2>2
<1>8. OpenOK' /\ CacheOK'
    BY <1>1 DEF Events, OpenOK, CacheOK, InUse
<1> QED
    BY <1>3, <1>4, <1>5, <1>6, <1>7, <1>8 DEF Events

LEMMA EventsTarget ==
    ASSUME Events, Control, ServiceOK, TargetStep
    PROVE  Events'
<1>1. TargetOK /\ traced \in BOOLEAN /\ OpenOK
    BY DEF Events, EventsTypeOK, TargetOK
<1>2. /\ Target
      /\ UNCHANGED <<written, main>>
      /\ main \in {"none", "consume", "table", "names", "store", "run", "drain"}
    BY DEF TargetStep, output, process, Consuming
<1>3. /\ UNCHANGED <<traced, native, plain>>
      /\ ops' = ops + 1
      /\ rootGone => rootGone'
      /\ TargetOK' /\ OpenOK'
      /\ traced => rootGone' = rootGone /\ \E e \in Event : Report(e)
      /\ ~traced => /\ kernel' = kernel
                    /\ kin' \subseteq kin
                    /\ Root \in kin \ kin' => rootGone'
    BY <1>1, <1>2, TargetSteps
<1>4. UNCHANGED <<filter, capped, cache, snap, last, named>>
    BY <1>3 DEF native
<1>5. kernel \in Seq(Event) /\ Len(kernel) \in Nat
    BY DEF Events, EventsTypeOK
<1>6. \/ kernel' = kernel
      \/ \E e \in Event : /\ kernel' = Append(kernel, e)
                          /\ e.op = "start" => e.by \in Pid /\ e.object = Closed
                          /\ e.op \in {"open", "use", "close"} =>
                                 e.object \in Object /\ e.opened \in Path
                          /\ e.op = "open" => e.path = e.opened
    BY <1>1, <1>3 DEF Report, TargetOK
<1>7. kernel' \in Seq(Event) /\ Len(kernel') <= Len(kernel) + 1 /\ Len(kernel') \in Nat
    <2>1. CASE kernel' = kernel
        BY <1>5, <2>1
    <2>2. ASSUME NEW e \in Event, kernel' = Append(kernel, e)
          PROVE  kernel' \in Seq(Event) /\ Len(kernel') <= Len(kernel) + 1 /\ Len(kernel') \in Nat
        BY <1>5, <2>2, AppendAt
    <2> QED
        BY <1>6, <2>1, <2>2
<1>8. EventsTypeOK'
    BY <1>1, <1>3, <1>4, <1>7 DEF Events, EventsTypeOK, TargetOK
<1>9. Unused'
    BY <1>2, <1>3, <1>4 DEF Events, Unused, Early
<1>10. Counted'
    <2>1. written \in Nat /\ ops \in Nat
        BY <1>1, NativeEventsAssumption DEF ServiceOK, TargetOK
    <2>2. written + Len(kernel) <= ops
        BY DEF Events, Counted
    <2> QED
        BY <1>2, <1>3, <1>5, <1>7, <2>1, <2>2 DEF Counted
<1>11. SnapOK'
    BY <1>2, <1>4 DEF Events, SnapOK
<1>12. EventOK'
    <2>1. CASE kernel' = kernel
        BY <2>1 DEF Events, EventOK
    <2>2. ASSUME NEW e \in Event, kernel' = Append(kernel, e),
                 e.op = "start" => e.by \in Pid /\ e.object = Closed,
                 e.op \in {"open", "use", "close"} => e.object \in Object /\ e.opened \in Path,
                 e.op = "open" => e.path = e.opened
          PROVE  EventOK'
        <3>1. /\ Len(kernel') = Len(kernel) + 1
              /\ \A i \in 1..Len(kernel) : kernel'[i] = kernel[i]
              /\ kernel'[Len(kernel) + 1] = e
            BY <1>5, <2>2, AppendAt
        <3>2. \A i \in 1..Len(kernel') : i \in 1..Len(kernel) \/ i = Len(kernel) + 1
            BY <1>5, <3>1
        <3>3. EventOK
            BY DEF Events
        <3> QED
            BY <2>2, <3>1, <3>2, <3>3 DEF EventOK
    <2> QED
        BY <1>6, <2>1, <2>2
<1>13. CacheOK'
    BY <1>4 DEF Events, CacheOK
<1> QED
    BY <1>3, <1>8, <1>9, <1>10, <1>11, <1>12, <1>13 DEF Events

LEMMA EventsCallback ==
    ASSUME Events, ServiceOK, Callback
    PROVE  Events'
<1>1. /\ HandleEvent /\ main' = main
      /\ main \in {"table", "names", "store", "run", "drain"}
      /\ written' = IF last'.emitted THEN written + 1 ELSE written
    BY DEF Callback, Consuming, process
<1>2. kernel \in Seq(Event)
    BY DEF Events, EventsTypeOK
<1> DEFINE e == kernel[1]
<1>3. /\ kernel # <<>> /\ kernel' = Tail(kernel) /\ e \in Event
      /\ UNCHANGED <<target, traced, snap>>
      /\ \/ HandleStart(e) \/ HandleStop(e) \/ HandleStranger(e)
         \/ HandleOpen(e) \/ HandleUse(e) \/ HandleClose(e)
    BY <1>1, <1>2, Handles
<1> HIDE DEF e
<1>4. UNCHANGED <<plain, ops, alive, kin, open, rootGone>>
    BY <1>3 DEF target
<1>5. kernel' \in Seq(Event) /\ Len(kernel') = Len(kernel) - 1 /\ Len(kernel) \in Nat \ {0}
    BY <1>2, <1>3, TailAt
<1>6. CacheOK' /\ EventOK'
    BY <1>1, <1>2, CacheHandled DEF Events
<1>7. filter' \in SUBSET Pid /\ capped' \in BOOLEAN
    <2>1. filter \in SUBSET Pid /\ capped \in BOOLEAN /\ e.pid \in Pid
        BY <1>3 DEF Events, EventsTypeOK, Event
    <2>2. CASE HandleStart(e)
        BY <2>1, <2>2 DEF HandleStart, AddIfParentTracked
    <2>3. CASE HandleStop(e)
        BY <2>1, <2>3 DEF HandleStop
    <2>4. CASE HandleStranger(e) \/ HandleOpen(e) \/ HandleUse(e) \/ HandleClose(e)
        BY <2>1, <2>4 DEF HandleStranger, HandleOpen, HandleUse, HandleClose
    <2> QED
        BY <1>3, <2>2, <2>3, <2>4
<1>8. /\ cache'.lru \in Seq(Object) /\ Range(cache'.paths) \subseteq Path
      /\ named' \in SUBSET Object
    <2>1. cache' \in Caches /\ named' \subseteq DOMAIN cache'.paths
        BY <1>6 DEF CacheOK
    <2>2. /\ cache'.lru \in Seq(Object) /\ Range(cache'.paths) \subseteq Path
          /\ DOMAIN cache'.paths \subseteq Object
        BY <2>1, CachesType
    <2> QED
        BY <2>1, <2>2
<1>9. EventsTypeOK'
    BY <1>3, <1>4, <1>5, <1>7, <1>8 DEF Events, EventsTypeOK
<1>10. Unused' /\ SnapOK'
    BY <1>1, <1>3 DEF Events, Unused, Early, SnapOK
<1>11. Counted'
    <2>1. written \in Nat /\ ops \in Nat
        BY NativeEventsAssumption DEF ServiceOK, Events, EventsTypeOK
    <2>2. written + Len(kernel) <= ops
        BY DEF Events, Counted
    <2>3. written' <= written + 1
        BY <1>1, <2>1
    <2>4. written' \in Nat
        BY <1>1, <2>1
    <2> QED
        BY <1>4, <1>5, <2>1, <2>2, <2>3, <2>4 DEF Counted
<1>12. OpenOK'
    BY <1>4 DEF Events, OpenOK, InUse
<1> QED
    BY <1>6, <1>9, <1>10, <1>11, <1>12 DEF Events

\* The table of handles, the names and the seed.
LEMMA EventsSnapshot ==
    ASSUME Events, MainTable \/ MainNames \/ MainSeed
    PROVE  Events'
<1>1. /\ UNCHANGED <<target, traced, kernel, filter, capped, last>>
      /\ UNCHANGED written
    BY SnapshotKeeps DEF MainTable, MainNames, MainSeed, output
<1>2. UNCHANGED <<plain, ops, alive, kin, open, rootGone>>
    BY <1>1 DEF target
<1>3. OpenOK' /\ EventOK' /\ Counted'
    BY <1>1, <1>2 DEF Events, OpenOK, InUse, EventOK, Counted
<1>4. Unused'
    BY DEF Unused, Early, MainTable, MainNames, MainSeed, Goes
<1>5. SnapOK' /\ CacheOK'
    <2>1. CASE MainTable
        <3>1. /\ TakeTable /\ main' = "names" /\ UNCHANGED <<cache, named>>
            BY <2>1, Zenon DEF MainTable, TakeTable, Goes
        <3> DEFINE own == {h \in InUse : open[h].owner = Root}
                   n == Cardinality(own)
        <3>2. n \in Nat /\ own \subseteq Handle
            <4>1. own \subseteq Handle
                BY DEF InUse
            <4> QED
                BY <4>1, FS_Subset, FS_CardinalityType, NativeEventsAssumption
        <3>3. PICK order \in [1..n -> own] :
                  snap' = [i \in 1..n |-> [handle |-> order[i], object |-> open[order[i]].object]]
            BY <3>1 DEF TakeTable
        <3> HIDE DEF n
        <3>4. \A i \in 1..n : [handle |-> order[i], object |-> open[order[i]].object] \in
                                  [handle : Handle, object : Object]
            <4> SUFFICES ASSUME NEW i \in 1..n
                         PROVE  order[i] \in Handle /\ open[order[i]].object \in Object
                OBVIOUS
            <4>1. order[i] \in InUse /\ order[i] \in Handle
                BY <3>2 DEF InUse
            <4>2. open[order[i]] \in OpenFile
                BY <4>1 DEF Events, EventsTypeOK, InUse
            <4> QED
                BY <4>1, <4>2 DEF OpenFile
        <3>5. snap' \in Seq([handle : Handle, object : Object])
            BY <3>2, <3>3, <3>4
        <3> QED
            BY <3>1, <3>5 DEF SnapOK, CacheOK, Events
    <2>2. CASE MainNames
        <3>1. /\ TakeNames /\ main = "names" /\ main' = "store" /\ UNCHANGED <<cache, named>>
            BY <2>2, Zenon DEF MainNames, TakeNames, Goes
        <3> DEFINE E == [handle : Handle, object : Object]
                   K == {e \in Range(snap) : e.handle \in InUse /\ open[e.handle].owner = Root}
                   still == Filter(snap, K)
        <3>2. snap \in Seq(E)
            BY <3>1 DEF Events, SnapOK
        <3>3. still \in Seq(E) /\ Range(still) = Range(snap) \intersect K
            <4> HIDE DEF E, K
            <4> QED
                BY <3>2, FilterRange
        <3>4. snap' = [i \in 1..Len(still) |-> [object |-> still[i].object,
                                                path |-> open[still[i].handle].path]]
            BY <3>1 DEF TakeNames
        <3> HIDE DEF still
        <3>5. Len(still) \in Nat /\ DOMAIN still = 1..Len(still) /\ \A i \in 1..Len(still) : still[i] \in E
            <4> HIDE DEF E
            <4> QED
                BY <3>3
        <3>6. ASSUME NEW i \in 1..Len(still)
              PROVE  [object |-> still[i].object, path |-> open[still[i].handle].path] \in
                         [object : Object, path : Path]
            <4>1. still[i] \in E /\ still[i] \in K
                BY <3>3, <3>5 DEF Range
            <4>2. open[still[i].handle] \in OpenFile
                BY <4>1 DEF Events, EventsTypeOK, InUse
            <4> QED
                BY <4>1, <4>2 DEF OpenFile
        <3>7. snap' \in Seq([object : Object, path : Path])
            BY <3>4, <3>5, <3>6
        <3> QED
            BY <3>1, <3>7 DEF SnapOK, CacheOK, Events
    <2>3. CASE MainSeed
        <3>1. /\ SeedCache /\ main = "store" /\ main' = "run"
            BY <2>3 DEF MainSeed, Goes
        <3>2. cache \in Caches /\ snap \in Seq([object : Object, path : Path])
            BY <3>1 DEF Events, SnapOK, CacheOK
        <3>3. Len(snap) \in Nat /\ Len(snap) \in 0..Len(snap)
            BY <3>2
        <3>4. /\ cache' = Seeding[Len(snap)]
              /\ named' = {o \in named : \A i \in 0..Len(snap) : o \in DOMAIN Seeding[i].paths}
            BY <3>1 DEF SeedCache
        <3>5. cache' \in Caches /\ named' \subseteq DOMAIN cache'.paths
            BY <3>2, <3>3, <3>4, SeedingOK
        <3> QED
            BY <3>1, <3>5 DEF SnapOK, CacheOK
    <2> QED
        BY <2>1, <2>2, <2>3
<1>6. EventsTypeOK'
    <2>1. cache' \in Caches /\ named' \subseteq DOMAIN cache'.paths
        BY <1>5 DEF CacheOK
    <2>2. /\ cache'.lru \in Seq(Object) /\ Range(cache'.paths) \subseteq Path
          /\ DOMAIN cache'.paths \subseteq Object
        BY <2>1, CachesType
    <2> QED
        BY <1>1, <1>2, <2>1, <2>2 DEF Events, EventsTypeOK
<1> QED
    BY <1>3, <1>4, <1>5, <1>6 DEF Events

LEMMA EventsSpawned ==
    ASSUME Events, Control, ServiceOK, Spawned
    PROVE  Events'
<1>1. /\ ~Up /\ starts < (IF plain THEN MaxStarts ELSE 1)
      /\ main' = "sweep" /\ written' = 0
      /\ filter' = {Root} /\ capped' = FALSE /\ cache' = EmptyCache /\ snap' = <<>>
      /\ last' = Nothing /\ named' = {}
      /\ UNCHANGED <<target, traced, kernel>>
    BY DEF Spawned, MayStart
<1>2. UNCHANGED <<plain, ops, alive, kin, open, rootGone>>
    BY <1>1 DEF target
<1>3. ~traced /\ kernel = <<>>
    BY <1>1 DEF Control
<1>4. CacheOK'
    <2>1. cache' \in Caches
        BY <1>1, EmptyCacheOK
    <2> QED
        BY <1>1, <2>1 DEF CacheOK
<1>5. kin \subseteq {Root} /\ (Root \in kin \/ rootGone)
    <2>1. CASE main = "none"
        BY <2>1 DEF Events, Unused, Early
    <2>2. CASE main # "none"
        <3>1. starts # 0
            BY <2>2 DEF Control
        <3>2. plain
            BY <1>1, <3>1 DEF ServiceOK, Events, EventsTypeOK
        <3> QED
            BY <3>2 DEF Control
    <2> QED
        BY <2>1, <2>2
<1>6. Unused'
    <2>1. Nothing' = Nothing /\ EmptyCache' = EmptyCache
        BY DEF Nothing, EmptyCache
    <2> QED
        BY <1>1, <1>2, <1>3, <1>5, <2>1 DEF Unused
<1>7. EventsTypeOK'
    <2>1. cache' \in Caches
        BY <1>4 DEF CacheOK
    <2>2. cache'.lru \in Seq(Object) /\ Range(cache'.paths) \subseteq Path
        BY <2>1, CachesType
    <2> QED
        BY <1>1, <1>2, <2>2, NativeEventsAssumption DEF Events, EventsTypeOK
<1>8. OpenOK' /\ EventOK'
    BY <1>1, <1>2 DEF Events, OpenOK, InUse, EventOK
<1>9. Counted'
    <2>1. Len(kernel') = 0 /\ ops' \in Nat
        BY <1>1, <1>2, <1>3, NativeEventsAssumption DEF Events, EventsTypeOK
    <2> QED
        BY <1>1, <2>1 DEF Counted
<1>10. SnapOK'
    BY <1>1 DEF SnapOK
<1> QED
    BY <1>4, <1>6, <1>7, <1>8, <1>9, <1>10 DEF Events

LEMMA EventsEnable ==
    ASSUME Events, MainEnable
    PROVE  Events'
<1>1. /\ main' = "consume" /\ traced' = TRUE
      /\ UNCHANGED <<target, kernel, native, written>>
    BY DEF MainEnable, Goes, output
<1>2. /\ UNCHANGED <<plain, ops, alive, kin, open, rootGone>>
      /\ UNCHANGED <<filter, capped, cache, snap, last, named>>
    BY <1>1 DEF target, native
<1>3. EventsTypeOK'
    BY <1>1, <1>2 DEF Events, EventsTypeOK
<1>4. OpenOK' /\ CacheOK' /\ EventOK' /\ Counted'
    BY <1>1, <1>2 DEF Events, OpenOK, InUse, CacheOK, EventOK, Counted
<1>5. Unused' /\ SnapOK'
    BY <1>1 DEF Unused, Early, SnapOK
<1> QED
    BY <1>3, <1>4, <1>5 DEF Events

-----------------------------------------------------------------------------
(* The wrapper.                                                            *)

LEMMA ServiceStep ==
    ASSUME [Next]_vars, ServiceOK, Events, Events', Control
    PROVE  ServiceOK'
<1> USE DEF ServiceOK
<1>0. {PipeCap, MaxStarts} \subseteq Nat \ {0} /\ MaxStats \in Nat /\ MaxOps \in Nat
    BY CapturePipeAssumption, NativeEventsAssumption
<1>1. CASE UNCHANGED vars
    BY <1>1 DEF vars, wrapper, output, process, input
<1>2. CASE StartRefused \/ Spawned
    <2>1. starts' = starts + 1 /\ starts < MaxStarts
        BY <1>0, <1>2 DEF StartRefused, Spawned, MayStart
    <2>2. starts' \in 0..MaxStarts
        BY <1>0, <2>1
    <2>3. CASE StartRefused
        BY <2>2, <2>3 DEF StartRefused, output, process, input
    <2>4. CASE Spawned
        <3>1. /\ call' = "hello" /\ main' = "sweep" /\ doomed' = FALSE /\ shutdown' = FALSE
              /\ stdin' = "open" /\ pump' = "none" /\ written' = 0 /\ beats' = 0
              /\ pipe' = <<>> /\ given' = <<>> /\ sessions' = sessions /\ killed' = killed
            BY <2>4 DEF Spawned
        <3>2. pipe' \in Seq(Line) /\ given' \in Seq(1..MaxOps)
            BY <3>1
        <3>3. written' \in 0..MaxOps /\ beats' \in 0..MaxStats
            BY <1>0, <3>1
        <3> QED
            BY <2>2, <3>1, <3>2, <3>3
    <2> QED
        BY <1>2, <2>3, <2>4
<1>3. CASE HelloRead \/ HelloRefused \/ HelloExited \/ HelloTimeout \/ PumpEof
    <2>1. pipe # <<>> => Tail(pipe) \in Seq(Line)
        OBVIOUS
    <2> QED
        BY <1>3, <2>1 DEF HelloRead, HelloRefused, HelloExited, HelloTimeout, PumpEof,
                wrapper, output, process, input
<1>4. CASE PumpRead
    <2>1. /\ pipe # <<>> /\ pipe' = Tail(pipe)
          /\ given' = IF Head(pipe).kind = "event" THEN Append(given, Head(pipe).n) ELSE given
          /\ UNCHANGED <<process, wrapper, written, beats, pump>>
        BY <1>4 DEF PumpRead
    <2>2. Tail(pipe) \in Seq(Line) /\ Head(pipe) \in Line
        BY <2>1
    <2>3. Head(pipe).kind = "event" => Head(pipe).n \in 1..MaxOps
        BY <2>2 DEF Line
    <2>4. given' \in Seq(1..MaxOps)
        <3>1. CASE Head(pipe).kind = "event"
            <4> DEFINE n == Head(pipe).n
            <4>1. n \in 1..MaxOps /\ given' = Append(given, n)
                BY <2>1, <2>3, <3>1
            <4> HIDE DEF n
            <4> QED
                BY <4>1
        <3> QED
            BY <2>1, <3>1
    <2> QED
        <3>1. UNCHANGED <<call, main, starts, sessions, killed, doomed, shutdown, stdin, pump,
                          written, beats>>
            BY <2>1 DEF process, wrapper
        <3> QED
            BY <2>1, <2>2, <2>4, <3>1
<1>5. CASE Stop \/ StopWaited \/ StopTimeout \/ StopTerminated \/ StopJoined \/ BackendDies
    <2>1. CASE Stop \/ StopWaited \/ StopTerminated \/ StopJoined
        BY <2>1 DEF Stop, StopWaited, StopTerminated, StopJoined, output, process, input
    <2>2. CASE StopTimeout
        BY <2>2 DEF StopTimeout, output, input
    <2>3. CASE BackendDies
        BY <2>3 DEF BackendDies, process
    <2> QED
        BY <1>5, <2>1, <2>2, <2>3
<1>6. CASE MainSweep \/ MainTrace \/ MainTraceFails \/ MainEnable
    BY <1>6 DEF MainSweep, MainTrace, MainTraceFails, MainEnable, Goes, wrapper, output, input
<1>7. \A line \in Line : Put(line) => pipe' \in Seq(Line)
    BY DEF Put
<1>8. CASE MainHello
    <2>1. PICK k \in {"hello", "old"} : Put([kind |-> k])
        BY <1>8 DEF MainHello
    <2>2. [kind |-> k] \in Line
        BY DEF Line
    <2>3. pipe' \in Seq(Line)
        BY <1>7, <2>1, <2>2
    <2> QED
        BY <1>8, <2>3 DEF MainHello, Goes, wrapper, input
<1>9. CASE MainConsume \/ MainConsumeFails \/ MainLoopEnds \/ MainDrain \/ MainExit
    BY <1>9 DEF MainConsume, MainConsumeFails, MainLoopEnds, MainDrain, MainExit, Goes,
                SessionStopped, wrapper, output, input
<1>10. CASE Heartbeat
    <2>1. [kind |-> "stats"] \in Line
        BY DEF Line
    <2>2. pipe' \in Seq(Line)
        BY <1>7, <1>10, <2>1 DEF Heartbeat
    <2>3. beats' \in 0..MaxStats
        BY <1>0, <1>10 DEF Heartbeat
    <2> QED
        BY <1>10, <2>2, <2>3 DEF Heartbeat, process, wrapper, input
<1>11. CASE StdinEof \/ NativeKilled
    BY <1>11 DEF StdinEof, NativeKilled, SessionStopped, wrapper, output, process, input
<1>12. CASE NativeDies
    <2>1. [kind |-> "torn"] \in Line
        BY DEF Line
    <2>2. pipe' \in Seq(Line)
        BY <1>7, <1>12, <2>1 DEF NativeDies
    <2>3. starts \in 1..MaxStarts
        BY <1>12 DEF NativeDies, Up, Control
    <2> QED
        BY <1>12, <2>2, <2>3 DEF NativeDies, wrapper, input
<1>13. CASE MainTable \/ MainNames \/ MainSeed
    BY <1>13 DEF MainTable, MainNames, MainSeed, Goes, wrapper, output, input
<1>14. CASE Callback
    <2>1. /\ IF last'.emitted
             THEN /\ written' = written + 1
                  /\ Put([kind |-> "event", n |-> written'])
             ELSE UNCHANGED <<pipe, written>>
          /\ UNCHANGED <<beats, process, wrapper, input>>
        BY <1>14 DEF Callback
    <2>2. written' \in 0..MaxOps
        <3>1. /\ ops' \in 0..MaxOps /\ kernel' \in Seq(Event)
              /\ written' + Len(kernel') <= ops'
            BY DEF Events, EventsTypeOK, Counted
        <3>2. Len(kernel') \in Nat /\ written' \in Nat
            BY <2>1, <3>1
        <3> QED
            BY <1>0, <3>1, <3>2
    <2>3. pipe' \in Seq(Line)
        <3>1. CASE last'.emitted
            <4>1. written' \in 1..MaxOps
                BY <2>1, <2>2, <3>1
            <4>2. [kind |-> "event", n |-> written'] \in Line
                BY <4>1 DEF Line
            <4> QED
                BY <1>7, <2>1, <3>1, <4>2
        <3> QED
            BY <2>1, <3>1
    <2> QED
        BY <2>1, <2>2, <2>3 DEF process, wrapper, input
<1>15. CASE TargetStep
    BY <1>15 DEF TargetStep, wrapper, output, process, input
<1> QED
    BY <1>1, <1>2, <1>3, <1>4, <1>5, <1>6, <1>8, <1>9, <1>10, <1>11, <1>12, <1>13, <1>14,
       <1>15 DEF Next, Wrapper, NativeMain

-----------------------------------------------------------------------------
(* The invariant that needs no filter and no names.                        *)

Base ==
    ServiceOK /\ Events /\ Control /\ Owned

LEMMA BaseInit == Init => Base
<1> SUFFICES ASSUME Init
             PROVE  Base
    OBVIOUS
<1> USE DEF Init
<1>0. MaxOps \in Nat /\ Root \in Pid
    BY NativeEventsAssumption
<1>1. MaxStarts \in Nat \ {0} /\ MaxStats \in Nat
    BY CapturePipeAssumption
<1>2. cache = EmptyCache /\ named = {} /\ kernel = <<>> /\ EventsInit
    BY DEF EventsInit
<1>3. CacheOK
    BY <1>2, EmptyCacheOK DEF CacheOK
<1>4. Len(kernel) = 0 /\ kernel \in Seq(Event)
    BY <1>2
<1>5. open \in [Handle -> OpenFile \union {Closed}]
    BY <1>0 DEF EventsInit, OpenFile
<1>6. EventsTypeOK
    <2>1. cache.lru \in Seq(Object) /\ Range(cache.paths) \subseteq Path
        BY <1>3, CachesType DEF CacheOK
    <2>2. alive \in SUBSET Pid /\ kin \in SUBSET alive /\ filter \in SUBSET Pid
        BY <1>0 DEF EventsInit
    <2> QED
        <3>1. /\ plain \in BOOLEAN /\ ops = 0 /\ traced = FALSE /\ capped = FALSE
              /\ rootGone = FALSE /\ named = {}
            BY <1>2 DEF EventsInit
        <3>2. ops \in 0..MaxOps /\ named \in SUBSET Object
            BY <1>0, <3>1
        <3> QED
            BY <1>4, <1>5, <2>1, <2>2, <3>1, <3>2 DEF EventsTypeOK
<1>7. OpenOK
    <2>1. \A h \in InUse : open[h].owner = Root
        BY DEF EventsInit, InUse
    <2> QED
        BY <1>2, <2>1 DEF OpenOK, EventsInit
<1>8. Unused /\ SnapOK /\ EventOK /\ Counted
    BY <1>2, <1>4 DEF EventsInit, Unused, SnapOK, EventOK, Counted
<1>9. ServiceOK
    <2>1. pipe \in Seq(Line) /\ given \in Seq(1..MaxOps)
        OBVIOUS
    <2>2. written \in 0..MaxOps /\ beats \in 0..MaxStats /\ starts \in 0..MaxStarts
        BY <1>0, <1>1
    <2>3. sessions \in SUBSET (0..MaxStarts) /\ killed \in SUBSET (1..MaxStarts)
        BY <1>1 DEF Neighbour
    <2> QED
        BY <2>1, <2>2, <2>3 DEF ServiceOK
<1>10. Control
    BY DEF Control, Up, EventsInit
<1>11. Owned
    BY DEF Owned, Neighbour, Traces
<1> QED
    BY <1>3, <1>6, <1>7, <1>8, <1>9, <1>10, <1>11 DEF Base, Events

LEMMA BaseStep ==
    ASSUME Base, [Next]_vars
    PROVE  Base'
<1>1. ServiceOK /\ Events /\ Control /\ Owned
    BY DEF Base
<1>2. Events'
    BY <1>1, StepKinds, EventsGoOn, EventsTarget, EventsCallback, EventsSpawned, EventsEnable,
       EventsSnapshot
<1>3. ServiceOK' /\ Owned'
    BY <1>1, <1>2, ServiceStep, OwnedStep
<1>4. Control'
    BY <1>1, ControlStep DEF Events
<1> QED
    BY <1>2, <1>3, <1>4 DEF Base

LEMMA BaseTypes == Base => TypeOK
BY DEF Base, Events, ServiceOK, TypeOK

\* The variables keep their types: no history outgrows its bound.
THEOREM TypeCorrect == Spec => []TypeOK
<1>1. Init => Base
    BY BaseInit
<1>2. Base /\ [Next]_vars => Base'
    BY BaseStep
<1>3. Base => TypeOK
    BY BaseTypes
<1> QED
    BY <1>1, <1>2, <1>3, PTL DEF Spec

\* No trace session outlives its capture but through a killed native process, and
\* none is taken from a capture that goes on.
THEOREM SessionsHaveOwnersHolds == Spec => []SessionsHaveOwners
<1>1. Init => Base
    BY BaseInit
<1>2. Base /\ [Next]_vars => Base'
    BY BaseStep
<1>3. Base => SessionsHaveOwners
    <2> SUFFICES ASSUME Base
                 PROVE  SessionsHaveOwners
        OBVIOUS
    <2>1. /\ \A s \in sessions \ {Neighbour} : s \in killed \/ (s = starts /\ Up)
          /\ Neighbour \in sessions
          /\ Traces /\ ~shutdown => starts \in sessions
        BY DEF Base, Owned
    <2>2. main = "drain" => shutdown
        BY DEF Base, Control
    <2> QED
        BY <2>1, <2>2, BaseTypes DEF SessionsHaveOwners, Traces, Consuming
<1> QED
    BY <1>1, <1>2, <1>3, PTL DEF Spec

-----------------------------------------------------------------------------
(* The filter follows the target and what it started.                      *)

LEMMA FilterCallback ==
    ASSUME Base, FilterOK, Callback
    PROVE  FilterOK' /\ Told'
<1> DEFINE e == kernel[1]
<1>1. /\ HandleEvent /\ kernel \in Seq(Event) /\ EventOK
      /\ filter \in SUBSET Pid /\ capped \in BOOLEAN /\ rootGone \in BOOLEAN
    BY DEF Callback, Base, Events, EventsTypeOK
<1>2. /\ kernel # <<>> /\ kernel' = Tail(kernel) /\ e \in Event
      /\ UNCHANGED <<target, traced>>
      /\ \/ HandleStart(e) \/ HandleStop(e) \/ HandleStranger(e)
         \/ HandleOpen(e) \/ HandleUse(e) \/ HandleClose(e)
    BY <1>1, Handles
<1>3. UNCHANGED <<rootGone, alive, kin, traced>>
    BY <1>2 DEF target
<1>4. 1 \in 1..Len(kernel) /\ e.pid \in Pid /\ (e.op = "start" => e.by \in Pid) /\ e.kin \in BOOLEAN
    <2>1. 1 \in 1..Len(kernel)
        BY <1>1, <1>2, TailAt
    <2> QED
        BY <1>1, <1>2, <2>1 DEF EventOK, Event
<1>5. Consistent(kernel) /\ Filtered(kernel, filter) /\ Followed(kernel, filter)
    BY DEF FilterOK
<1>6. \A p \in Pid : Quiet(kernel, 0, 1, p)
    <2>1. \A k \in 1..Len(kernel) : ~(0 < k /\ k < 1)
        OBVIOUS
    <2> QED
        BY <2>1 DEF Quiet
<1>7. ASSUME NEW p \in Pid
      PROVE  /\ e.op # "stop" /\ Actor(e) = p =>
                    /\ p \in filter /\ ~rootGone => e.kin
                    /\ ~capped /\ e.kin => p \in filter
             /\ e.op = "start" /\ e.pid = p /\ p \in filter => rootGone
    BY <1>4, <1>5, <1>6 DEF Filtered
<1> DEFINE Says(op, k, emitted) == last'.op = op /\ last'.kin = k /\ last'.emitted = emitted
<1>8. \A emitted, shown : Made(e, emitted, shown) => Says(e.op, e.kin, emitted)
    BY DEF Made
<1> DEFINE Goes1 == /\ capped => capped'
                    /\ \A p \in Pid : ~Life(e, p) => (p \in filter' <=> p \in filter)
                    /\ e.op = "start" => /\ e.pid \in filter' /\ ~rootGone => e.kin
                                         /\ ~capped' /\ e.kin => e.pid \in filter'
                    /\ e.op = "stop" => e.pid \notin filter'
                    /\ IsFiniteSet(filter') /\ Cardinality(filter') <= MaxPids
                    /\ Told'
<1>9. Goes1 => FilterOK' /\ Told'
    BY <1>1, <1>2, <1>3, <1>5, FilterHandled DEF FilterOK
<1> HIDE DEF e
<1>10. IsFiniteSet(filter) /\ Cardinality(filter) <= MaxPids /\ MaxPids \in Nat
       /\ Cardinality(filter) \in Nat
    BY NativeEventsAssumption, FS_CardinalityType DEF FilterOK
<1>11. CASE HandleStart(e)
    <2>1. /\ e.op = "start" /\ filter' = AddIfParentTracked(e.by, e.pid)
          /\ capped' = (capped \/ (e.by \in filter /\ e.pid \notin filter'))
          /\ Says("start", e.kin, e.pid \in filter')
        BY <1>8, <1>11 DEF HandleStart
    <2>2. /\ e.by \in filter /\ ~rootGone => e.kin
          /\ ~capped /\ e.kin => e.by \in filter
          /\ e.pid \in filter => rootGone
        BY <1>4, <1>7, <2>1 DEF Actor
    <2>3. filter' = IF e.by \in filter /\ Cardinality(filter) < MaxPids
                    THEN filter \union {e.pid} ELSE filter
        BY <2>1 DEF AddIfParentTracked
    <2>4. IsFiniteSet(filter') /\ Cardinality(filter') <= MaxPids
        <3>1. CASE filter' = filter
            BY <1>10, <3>1
        <3>2. CASE Cardinality(filter) < MaxPids /\ filter' = filter \union {e.pid}
            <4>1. /\ IsFiniteSet(filter \union {e.pid})
                  /\ \/ Cardinality(filter \union {e.pid}) = Cardinality(filter)
                     \/ Cardinality(filter \union {e.pid}) = Cardinality(filter) + 1
                BY <1>10, FS_AddElement
            <4> QED
                BY <1>10, <3>2, <4>1
        <3> QED
            BY <2>3, <3>1, <3>2
    <2>5. \A p \in Pid : ~Life(e, p) => (p \in filter' <=> p \in filter)
        BY <2>1, <2>3 DEF Life
    <2>6. /\ e.pid \in filter' /\ ~rootGone => e.kin
          /\ ~capped' /\ e.kin => e.pid \in filter'
          /\ capped => capped'
        BY <2>1, <2>2, <2>3
    <2>7. Told'
        BY <1>3, <2>1, <2>6 DEF Told
    <2> QED
        BY <1>9, <2>1, <2>4, <2>5, <2>6, <2>7
<1>12. CASE HandleStop(e)
    <2>1. /\ e.op = "stop" /\ filter' = filter \ {e.pid} /\ capped' = capped
          /\ Says("stop", e.kin, FALSE)
        BY <1>8, <1>12 DEF HandleStop
    <2>2. IsFiniteSet(filter') /\ Cardinality(filter') <= MaxPids
        <3>1. filter' \subseteq filter
            BY <2>1
        <3>2. IsFiniteSet(filter') /\ Cardinality(filter') <= Cardinality(filter)
              /\ Cardinality(filter') \in Nat
            BY <1>10, <3>1, FS_Subset, FS_CardinalityType
        <3> QED
            BY <1>10, <3>2
    <2>3. \A p \in Pid : ~Life(e, p) => (p \in filter' <=> p \in filter)
        BY <2>1 DEF Life
    <2>4. Told'
        BY <2>1 DEF Told
    <2> QED
        BY <1>9, <2>1, <2>2, <2>3, <2>4
<1>13. CASE HandleStranger(e) \/ HandleOpen(e) \/ HandleUse(e) \/ HandleClose(e)
    <2>1. /\ e.op \in {"open", "use", "close"} /\ filter' = filter /\ capped' = capped
          /\ Says(e.op, e.kin, e.pid \in filter)
        <3>1. CASE HandleStranger(e)
            <4>1. /\ e.op \in {"open", "use", "close"} /\ filter' = filter /\ capped' = capped
                  /\ e.pid \notin filter
                BY <3>1 DEF HandleStranger
            <4>2. Says(e.op, e.kin, FALSE)
                BY <1>8, <3>1 DEF HandleStranger
            <4>3. (e.pid \in filter) = FALSE
                BY <4>1
            <4> QED
                BY <4>1, <4>2, <4>3
        <3>2. CASE HandleOpen(e)
            BY <1>8, <3>2 DEF HandleOpen
        <3>3. CASE HandleUse(e)
            BY <1>8, <3>3 DEF HandleUse
        <3>4. CASE HandleClose(e)
            BY <1>8, <3>4 DEF HandleClose
        <3> QED
            BY <1>13, <3>1, <3>2, <3>3, <3>4
    <2>2. /\ e.pid \in filter /\ ~rootGone => e.kin
          /\ ~capped /\ e.kin => e.pid \in filter
        BY <1>4, <1>7, <2>1 DEF Actor
    <2>3. Told'
        BY <1>3, <2>1, <2>2 DEF Told
    <2> QED
        BY <1>9, <1>10, <2>1, <2>3
<1> QED
    BY <1>2, <1>11, <1>12, <1>13

LEMMA FilterStep ==
    ASSUME Base, FilterOK, Told, [Next]_vars
    PROVE  FilterOK' /\ Told'
<1>1. /\ ServiceOK /\ Events /\ Control
      /\ EventsTypeOK /\ Unused /\ OpenOK
    BY DEF Base, Events
<1>2. CASE GoesOn
    <2>1. /\ UNCHANGED <<filter, capped, last, alive, kin, rootGone>>
          /\ kernel' = kernel \/ kernel' = <<>>
          /\ traced' = traced \/ traced' = FALSE
          /\ kernel' # kernel => ~traced'
        BY <1>2 DEF GoesOn, target, native
    <2>2. Consistent(kernel') /\ Filtered(kernel, filter)'
        <3>1. CASE kernel' = kernel
            BY <2>1, <3>1 DEF FilterOK, Filtered
        <3>2. CASE kernel' = <<>>
            <4>1. Len(kernel') = 0
                BY <3>2
            <4> QED
                BY <4>1 DEF Consistent, Filtered
        <3> QED
            BY <2>1, <3>1, <3>2
    <2>3. Followed(kernel, filter)'
        BY <2>1 DEF FilterOK, Followed
    <2>4. Told'
        BY <2>1 DEF Told
    <2> QED
        BY <2>1, <2>2, <2>3, <2>4 DEF FilterOK
<1>3. CASE TargetStep
    <2>1. TargetOK /\ traced \in BOOLEAN /\ kernel \in Seq(Event) /\ Target
        BY <1>1, <1>3 DEF EventsTypeOK, TargetOK, TargetStep
    <2>2. /\ UNCHANGED <<traced, native, plain>>
          /\ rootGone => rootGone'
          /\ traced => rootGone' = rootGone /\ \E e \in Event : Report(e)
          /\ ~traced => kernel' = kernel
        BY <1>1, <2>1, TargetSteps
    <2>3. UNCHANGED <<filter, capped, last>>
        BY <2>2 DEF native
    <2>4. Told'
        BY <2>2, <2>3 DEF Told
    <2>5. CASE traced
        <3>1. PICK e \in Event : Report(e)
            BY <2>2, <2>5
        <3>2. /\ kernel' = Append(kernel, e)
              /\ \A p \in Pid : ~Life(e, p) =>
                     (p \in alive' <=> p \in alive) /\ (p \in kin' <=> p \in kin)
              /\ e.op = "start" =>
                     /\ e.pid \notin alive /\ e.pid \in alive' /\ (e.pid \in kin' <=> e.kin)
                     /\ e.by \in alive /\ (e.by \in kin <=> e.kin)
              /\ e.op = "stop" => e.pid \notin alive'
              /\ e.op \notin {"start", "stop"} => e.pid \in alive /\ (e.pid \in kin <=> e.kin)
            BY <3>1 DEF Report, Event, Op
        <3>3. Consistent(kernel) /\ Filtered(kernel, filter) /\ Followed(kernel, filter)
            BY DEF FilterOK
        <3>4. Consistent(kernel') /\ Filtered(kernel, filter)' /\ Followed(kernel, filter)'
            BY <2>1, <2>2, <2>3, <2>5, <3>2, <3>3, FilterPosted
        <3> QED
            BY <2>3, <2>4, <3>4 DEF FilterOK
    <2>6. CASE ~traced
        <3>1. Filtered(kernel, filter)'
            BY <2>2, <2>3, <2>6 DEF FilterOK, Filtered
        <3>2. Followed(kernel, filter)'
            BY <2>2, <2>6 DEF Followed
        <3> QED
            BY <2>2, <2>3, <2>4, <2>6, <3>1, <3>2 DEF FilterOK
    <2> QED
        BY <2>5, <2>6
<1>4. CASE Callback
    BY <1>4, FilterCallback
<1>5. CASE Spawned
    <2>1. /\ filter' = {Root} /\ last' = Nothing /\ UNCHANGED <<traced, kernel>> /\ ~Up
        BY <1>5 DEF Spawned, MayStart
    <2>2. Len(kernel') = 0 /\ ~traced'
        BY <1>1, <2>1 DEF Control
    <2>3. Consistent(kernel') /\ Filtered(kernel, filter)' /\ Followed(kernel, filter)'
        BY <2>2 DEF Consistent, Filtered, Followed
    <2>4. IsFiniteSet(filter') /\ Cardinality(filter') <= MaxPids
        <3>1. IsFiniteSet({Root}) /\ Cardinality({Root}) = 1
            BY FS_Singleton
        <3> QED
            BY <2>1, <3>1, NativeEventsAssumption
    <2>5. Told'
        <3>1. last'.emitted = FALSE /\ last'.op = "none"
            BY <2>1 DEF Nothing
        <3> QED
            BY <3>1 DEF Told
    <2> QED
        BY <2>3, <2>4, <2>5 DEF FilterOK
<1>6. CASE MainEnable
    <2>1. /\ Early /\ UNCHANGED <<kernel, filter, capped, last, alive, kin, rootGone>>
        BY <1>6 DEF MainEnable, Goes, Early, target, native
    <2>2. /\ filter = {Root} /\ kernel = <<>> /\ kin \subseteq {Root}
          /\ Root \in kin \/ rootGone
          /\ kin \subseteq alive
        BY <1>1, <2>1 DEF Unused, EventsTypeOK
    <2>3. Len(kernel') = 0
        BY <2>1, <2>2
    <2>4. Consistent(kernel') /\ Filtered(kernel, filter)'
        BY <2>3 DEF Consistent, Filtered
    <2>5. Followed(kernel, filter)'
        BY <2>1, <2>2, <2>3 DEF Followed
    <2>6. Told'
        BY <2>1 DEF Told
    <2> QED
        BY <2>1, <2>4, <2>5, <2>6 DEF FilterOK
<1>7. CASE MainTable \/ MainNames \/ MainSeed
    <2>1. UNCHANGED <<target, traced, kernel, filter, capped, last>>
        BY <1>7, SnapshotKeeps DEF MainTable, MainNames, MainSeed
    <2>2. UNCHANGED <<alive, kin, rootGone>>
        BY <2>1 DEF target
    <2>3. Filtered(kernel, filter)' /\ Followed(kernel, filter)'
        BY <2>1, <2>2 DEF FilterOK, Filtered, Followed
    <2> QED
        BY <2>1, <2>2, <2>3 DEF FilterOK, Told
<1> QED
    BY <1>1, <1>2, <1>3, <1>4, <1>5, <1>6, <1>7, StepKinds

LEMMA FilterInit ==
    ASSUME Init
    PROVE  FilterOK /\ Told
<1>1. /\ kernel = <<>> /\ filter = {Root} /\ last = Nothing /\ traced = FALSE
    BY DEF Init, EventsInit
<1>2. Len(kernel) = 0 /\ ~traced
    BY <1>1
<1>3. Consistent(kernel) /\ Filtered(kernel, filter) /\ Followed(kernel, filter)
    BY <1>2 DEF Consistent, Filtered, Followed
<1>4. IsFiniteSet(filter) /\ Cardinality(filter) <= MaxPids
    <2>1. IsFiniteSet({Root}) /\ Cardinality({Root}) = 1
        BY FS_Singleton
    <2> QED
        BY <1>1, <2>1, NativeEventsAssumption
<1>5. Told
    BY <1>1 DEF Told, Nothing
<1> QED
    BY <1>3, <1>4, <1>5 DEF FilterOK

\* Who is in the filter without running has a stop event on its way.
LEMMA StopIsOnItsWay ==
    ASSUME FilterOK, kernel \in Seq(Event), traced, ~rootGone,
           NEW p \in Pid, p \in filter, p \notin alive
    PROVE  \E e \in Range(kernel) : e.op = "stop" /\ e.pid = p
<1> DEFINE n == Len(kernel)
           T == {i \in 1..n : Life(kernel[i], p)}
<1>1. n \in Nat /\ DOMAIN kernel = 1..n
    OBVIOUS
<1>2. /\ \A i \in 1..n : Life(kernel[i], p) /\ Quiet(kernel, i, n + 1, p) => kernel[i].op = "stop"
      /\ ~Quiet(kernel, 0, n + 1, p)
    BY DEF FilterOK, Followed
<1>3. T # {}
    BY <1>2 DEF Quiet
<1>4. PICK i \in T : \A k \in T : k <= i
    <2> HIDE DEF T
    <2>1. T \in SUBSET (1..n)
        BY DEF T
    <2> QED
        BY <1>1, <1>3, <2>1, NatMax
<1>5. Quiet(kernel, i, n + 1, p)
    <2> SUFFICES ASSUME NEW k \in 1..n, i < k, Life(kernel[k], p)
                 PROVE  FALSE
        BY DEF Quiet
    <2>1. k \in T /\ i \in 1..n
        OBVIOUS
    <2>2. k <= i
        BY <1>4, <2>1
    <2> QED
        BY <2>1, <2>2
<1>6. kernel[i].op = "stop" /\ kernel[i].pid = p
    BY <1>2, <1>5 DEF Life
<1>7. kernel[i] \in Range(kernel)
    BY <1>1 DEF Range
<1> QED
    BY <1>6, <1>7

\* What is emitted was done by the target or by what it, or such a process,
\* started while traced; nothing of theirs is left out; and the filter keeps
\* within its cap, for processes that run or are about to be removed.
THEOREM FilterFollowsKinHolds == Spec => []FilterFollowsKin
<1> DEFINE I == Base /\ FilterOK /\ Told
<1>1. Init => I
    BY BaseInit, FilterInit
<1>2. I /\ [Next]_vars => I'
    BY BaseStep, FilterStep
<1>3. I => FilterFollowsKin
    <2> SUFFICES ASSUME I
                 PROVE  FilterFollowsKin
        OBVIOUS
    <2>1. kernel \in Seq(Event) /\ filter \in SUBSET Pid
        BY DEF Base, Events, EventsTypeOK
    <2>2. traced /\ ~rootGone =>
              \A p \in filter \ alive : \E e \in Range(kernel) : e.op = "stop" /\ e.pid = p
        BY <2>1, StopIsOnItsWay
    <2> QED
        BY <2>2 DEF FilterFollowsKin, FilterOK, Told
<1> QED
    BY <1>1, <1>2, <1>3, PTL DEF Spec

-----------------------------------------------------------------------------
(* A cached object with a name from a create event.                        *)

LEMMA NamesHandled ==
    ASSUME kernel \in Seq(Event), kernel # <<>>, kernel' = Tail(kernel), NamesOK,
           open \in [Handle -> OpenFile \union {Closed}],
           UNCHANGED <<traced, open>>,
           \A p \in filter' \ filter : kernel[1].op = "start" /\ kernel[1].pid = p,
           \A o \in named' : ~OpenOf(kernel[1], o) =>
               o \in named /\ cache'.paths[o] = cache.paths[o],
           \A o \in named' : OpenOf(kernel[1], o) =>
               kernel[1].pid \notin filter' \/ cache'.paths[o] = kernel[1].opened
    PROVE  NamesOK'
<1> DEFINE q == kernel
           t == Tail(kernel)
<1>1. /\ Len(t) = Len(q) - 1 /\ Len(q) \in Nat \ {0}
      /\ \A i \in 1..Len(t) : t[i] = q[i + 1]
    BY TailAt
<1>2. /\ \A i \in 1..Len(t) : i + 1 \in 1..Len(q)
      /\ 1 \in 1..Len(q) /\ Len(t) + 1 \in Nat /\ (Len(t) + 1) + 1 = Len(q) + 1
    BY <1>1
<1>3. Openings(q) /\ Named(q, filter, named, cache.paths) /\ Current(q, filter, named, cache.paths)
    BY DEF NamesOK
<1>4. Openings(t)
    <2> SUFFICES ASSUME NEW i \in 1..Len(t), NEW j \in 1..Len(t), i < j, t[j].op = "use",
                        Kept(t, i, j, t[j].object)
                 PROVE  /\ OpenOf(t[i], t[j].object) =>
                               t[j].pid = t[i].pid /\ t[j].opened = t[i].opened
                        /\ ~(t[i].op = "start" /\ t[i].pid = t[j].pid)
        BY DEF Openings
    <2>1. Kept(q, i + 1, j + 1, t[j].object)
        BY KeptTail
    <2>2. i + 1 < j + 1
        OBVIOUS
    <2>3. t[i] = q[i + 1] /\ t[j] = q[j + 1]
        BY <1>1
    <2>4. i + 1 \in 1..Len(q) /\ j + 1 \in 1..Len(q)
        BY <1>2
    <2> QED
        BY <1>3, <2>1, <2>2, <2>3, <2>4 DEF Openings
\* The object is used, or open, under path x by process p, with no open of it on
\* the way.
<1>5. ASSUME NEW o, NEW p, NEW x, p \in filter', o \in named',
             OpenOf(q[1], o) => p = q[1].pid /\ x = q[1].opened,
             ~(q[1].op = "start" /\ q[1].pid = p),
             ~OpenOf(q[1], o) /\ p \in filter /\ o \in named => x = cache.paths[o]
      PROVE  x = cache'.paths[o]
    <2>1. CASE OpenOf(q[1], o)
        BY <1>5, <2>1
    <2>2. CASE ~OpenOf(q[1], o)
        BY <1>5, <2>2
    <2> QED
        BY <2>1, <2>2
<1>6. ASSUME NEW j \in 1..Len(t), t[j].op = "use", t[j].pid \in filter', t[j].object \in named',
             Kept(t, 0, j, t[j].object)
      PROVE  t[j].opened = cache'.paths[t[j].object]
    <2> DEFINE o == t[j].object
    <2>1. Kept(q, 1, j + 1, o) /\ (~OpenOf(q[1], o) => Kept(q, 0, j + 1, o))
        BY <1>6, KeptTail
    <2>2. t[j] = q[j + 1] /\ j + 1 \in 1..Len(q) /\ 1 < j + 1
        BY <1>1, <1>2
    <2>3. /\ OpenOf(q[1], o) => t[j].pid = q[1].pid /\ t[j].opened = q[1].opened
          /\ ~(q[1].op = "start" /\ q[1].pid = t[j].pid)
        BY <1>2, <1>3, <1>6, <2>1, <2>2 DEF Openings
    <2>4. ~OpenOf(q[1], o) /\ t[j].pid \in filter /\ o \in named => t[j].opened = cache.paths[o]
        BY <1>3, <1>6, <2>1, <2>2 DEF Named
    <2> QED
        BY <1>5, <1>6, <2>3, <2>4
<1>7. ASSUME NEW f, Ahead(q, f, filter, named, cache.paths)
      PROVE  Ahead(t, f, filter', named', cache'.paths)
    <2> DEFINE o == f.object
    <2>1. /\ \A i \in 1..Len(q) : Kept(q, i, Len(q) + 1, o) =>
                 /\ OpenOf(q[i], o) => q[i].pid = f.owner /\ q[i].opened = f.opened
                 /\ ~(q[i].op = "start" /\ q[i].pid = f.owner)
          /\ f.owner \in filter /\ o \in named /\ Kept(q, 0, Len(q) + 1, o)
                 => f.opened = cache.paths[o]
        BY <1>7 DEF Ahead
    <2> HIDE DEF o
    <2>2. ASSUME NEW i \in 1..Len(t), Kept(t, i, Len(t) + 1, o)
          PROVE  /\ OpenOf(t[i], o) => t[i].pid = f.owner /\ t[i].opened = f.opened
                 /\ ~(t[i].op = "start" /\ t[i].pid = f.owner)
        <3>1. Kept(q, i + 1, Len(q) + 1, o)
            BY <1>2, <2>2, KeptTail
        <3>2. t[i] = q[i + 1] /\ i + 1 \in 1..Len(q)
            BY <1>1, <1>2
        <3> QED
            BY <2>1, <3>1, <3>2
    <2>3. ASSUME f.owner \in filter', o \in named', Kept(t, 0, Len(t) + 1, o)
          PROVE  f.opened = cache'.paths[o]
        <3>1. /\ Kept(q, 1, Len(q) + 1, o)
              /\ ~OpenOf(q[1], o) => Kept(q, 0, Len(q) + 1, o)
            BY <1>2, <2>3, KeptTail
        <3>2. /\ OpenOf(q[1], o) => f.owner = q[1].pid /\ f.opened = q[1].opened
              /\ ~(q[1].op = "start" /\ q[1].pid = f.owner)
            BY <1>2, <2>1, <3>1
        <3> QED
            BY <1>5, <2>1, <2>3, <3>1, <3>2
    <2> QED
        BY <2>2, <2>3 DEF Ahead, o
<1>8. kernel' = t /\ InUse' = InUse
    BY DEF InUse
<1> HIDE DEF t
<1>9. Named(kernel, filter, named, cache.paths)'
    BY <1>6, <1>8 DEF Named
<1>10. Current(kernel, filter, named, cache.paths)'
    <2>1. traced' => \A h \in InUse' : open'[h] = open[h] /\ h \in InUse /\ traced
        BY <1>8
    <2> QED
        BY <1>3, <1>7, <1>8, <2>1 DEF Current
<1> QED
    BY <1>4, <1>8, <1>9, <1>10 DEF NamesOK

LEMMA NamesPosted ==
    ASSUME kernel \in Seq(Event), NEW e \in Event, Report(e), traced, NamesOK, OpenOK,
           TargetOK, UNCHANGED <<traced, filter, named, cache>>
    PROVE  NamesOK'
<1> DEFINE q == kernel
           a == Append(kernel, e)
           n == Len(kernel)
<1>1. /\ a \in Seq(Event) /\ Len(a) = n + 1 /\ n \in Nat
      /\ \A i \in 1..n : a[i] = q[i]
      /\ a[n + 1] = e
    BY AppendAt
<1>2. /\ \A i \in 1..Len(a) : i \in 1..n \/ i = n + 1
      /\ Len(a) + 1 \in Nat /\ n + 1 < Len(a) + 1 /\ n + 1 \in Nat
    BY <1>1
<1>3. /\ Openings(q) /\ Named(q, filter, named, cache.paths)
      /\ \A h \in InUse : Ahead(q, open[h], filter, named, cache.paths)
    BY DEF NamesOK, Current
<1>4. ASSUME e.op = "use"
      PROVE  /\ \A i \in 1..n : Kept(q, i, n + 1, e.object) =>
                    /\ OpenOf(q[i], e.object) => q[i].pid = e.pid /\ q[i].opened = e.opened
                    /\ ~(q[i].op = "start" /\ q[i].pid = e.pid)
             /\ e.pid \in filter /\ e.object \in named /\ Kept(q, 0, n + 1, e.object)
                    => e.opened = cache.paths[e.object]
    <2>1. PICK h \in InUse : About(open[h], e)
        BY <1>4 DEF Report
    <2> DEFINE f == open[h]
    <2>2. f.owner = e.pid /\ f.object = e.object /\ f.opened = e.opened
        BY <2>1 DEF About
    <2>3. Ahead(q, f, filter, named, cache.paths)
        BY <1>3
    <2> HIDE DEF f
    <2> QED
        BY <2>2, <2>3 DEF Ahead
<1>5. Openings(a)
    <2> SUFFICES ASSUME NEW i \in 1..Len(a), NEW j \in 1..Len(a), i < j, a[j].op = "use",
                        Kept(a, i, j, a[j].object)
                 PROVE  /\ OpenOf(a[i], a[j].object) =>
                               a[j].pid = a[i].pid /\ a[j].opened = a[i].opened
                        /\ ~(a[i].op = "start" /\ a[i].pid = a[j].pid)
        BY DEF Openings
    <2>1. Kept(q, i, j, a[j].object)
        <3> DEFINE o == a[j].object
        <3>1. Kept(Append(q, e), i, j, o) /\ i \in Nat /\ j \in Nat
            OBVIOUS
        <3> HIDE DEF o
        <3>2. Kept(q, i, j, o)
            BY <3>1, KeptAppend
        <3> QED
            BY <3>2 DEF o
    <2>2. i \in 1..n /\ a[i] = q[i]
        BY <1>1, <1>2
    <2>3. CASE j \in 1..n
        <3>1. a[j] = q[j]
            BY <1>1, <2>3
        <3> QED
            BY <1>3, <2>1, <2>2, <2>3, <3>1 DEF Openings
    <2>4. CASE j = n + 1
        <3>1. a[j] = e
            BY <1>1, <2>4
        <3> QED
            BY <1>4, <2>1, <2>2, <2>4, <3>1
    <2> QED
        BY <1>2, <2>3, <2>4
<1>6. ASSUME NEW j \in 1..Len(a), a[j].op = "use", a[j].pid \in filter, a[j].object \in named,
             Kept(a, 0, j, a[j].object)
      PROVE  a[j].opened = cache.paths[a[j].object]
    <2>1. Kept(q, 0, j, a[j].object)
        <3> DEFINE o == a[j].object
        <3>1. Kept(Append(q, e), 0, j, o) /\ 0 \in Nat /\ j \in Nat
            BY <1>6
        <3> HIDE DEF o
        <3>2. Kept(q, 0, j, o)
            BY <3>1, KeptAppend
        <3> QED
            BY <3>2 DEF o
    <2>2. CASE j \in 1..n
        <3>1. a[j] = q[j]
            BY <1>1, <2>2
        <3> QED
            BY <1>3, <1>6, <2>1, <2>2, <3>1 DEF Named
    <2>3. CASE j = n + 1
        <3>1. a[j] = e
            BY <1>1, <2>3
        <3> QED
            BY <1>4, <1>6, <2>1, <2>3, <3>1
    <2> QED
        BY <1>2, <2>2, <2>3
\* A file that stays open.
<1>7. ASSUME NEW h \in InUse
      PROVE  Ahead(a, open[h], filter, named, cache.paths)
    <2> DEFINE f == open[h]
               o == f.object
    <2>1. /\ \A i \in 1..n : Kept(q, i, n + 1, o) =>
                 /\ OpenOf(q[i], o) => q[i].pid = f.owner /\ q[i].opened = f.opened
                 /\ ~(q[i].op = "start" /\ q[i].pid = f.owner)
          /\ f.owner \in filter /\ o \in named /\ Kept(q, 0, n + 1, o)
                 => f.opened = cache.paths[o]
        BY <1>3 DEF Ahead
    <2>2. f.owner \in alive
        BY DEF OpenOK
    <2>3. ~OpenOf(e, o) /\ ~(e.op = "start" /\ e.pid = f.owner)
        BY <2>2 DEF OpenOf, Report
    <2> HIDE DEF o, f
    <2>4. ASSUME NEW i \in 1..Len(a), Kept(a, i, Len(a) + 1, o)
          PROVE  /\ OpenOf(a[i], o) => a[i].pid = f.owner /\ a[i].opened = f.opened
                 /\ ~(a[i].op = "start" /\ a[i].pid = f.owner)
        <3>1. CASE i \in 1..n
            <4>1. Kept(q, i, n + 1, o)
                BY <1>2, <2>4, KeptAppend
            <4> QED
                BY <1>1, <2>1, <3>1, <4>1
        <3>2. CASE i = n + 1
            BY <1>1, <2>3, <3>2
        <3> QED
            BY <1>2, <3>1, <3>2
    <2>5. ASSUME f.owner \in filter, o \in named, Kept(a, 0, Len(a) + 1, o)
          PROVE  f.opened = cache.paths[o]
        <3>1. Kept(q, 0, n + 1, o)
            BY <1>2, <2>5, KeptAppend
        <3> QED
            BY <2>1, <2>5, <3>1
    <2>6. Ahead(a, f, filter, named, cache.paths)
        BY <2>4, <2>5 DEF Ahead, o
    <2> QED
        BY <2>6 DEF f
\* One that has just been opened.
<1>8. ASSUME NEW f, e.op = "open", f.owner = e.pid, f.object = e.object, f.opened = e.opened
      PROVE  Ahead(a, f, filter, named, cache.paths)
    <2>1. OpenOf(e, f.object)
        BY <1>8 DEF OpenOf
    <2>2. ASSUME NEW i \in Nat, Kept(a, i, Len(a) + 1, f.object)
          PROVE  i >= n + 1
        BY <1>1, <1>2, <2>1, <2>2, KeptAppend
    <2>3. ASSUME NEW i \in 1..Len(a), Kept(a, i, Len(a) + 1, f.object)
          PROVE  a[i] = e
        <3>1. i >= n + 1
            BY <2>2, <2>3
        <3>2. i = n + 1
            BY <1>1, <3>1
        <3> QED
            BY <1>1, <3>2
    <2>4. ~Kept(a, 0, Len(a) + 1, f.object)
        BY <1>1, <2>2
    <2> HIDE DEF a
    <2> QED
        BY <1>8, <2>3, <2>4 DEF Ahead
<1>9. ASSUME NEW h \in InUse'
      PROVE  Ahead(a, open'[h], filter, named, cache.paths)
    <2>1. \/ h \in InUse /\ Same(open'[h], open[h])
          \/ e.op = "open" /\ About(open'[h], e)
        <3>1. e.op \in {"start", "stop", "open", "use", "close"}
            BY DEF Event, Op
        <3>2. CASE e.op \in {"start", "use"}
            BY <3>2 DEF Report, InUse, Same
        <3>3. CASE e.op \in {"stop", "open", "close"}
            BY <3>3 DEF Report, Same
        <3> QED
            BY <3>1, <3>2, <3>3
    <2>2. CASE h \in InUse /\ Same(open'[h], open[h])
        <3>1. Ahead(a, open[h], filter, named, cache.paths)
            BY <1>7, <2>2
        <3> HIDE DEF a
        <3> QED
            BY <2>2, <3>1 DEF Ahead, Same
    <2>3. CASE e.op = "open" /\ About(open'[h], e)
        <3> DEFINE f == open'[h]
        <3>1. e.op = "open" /\ f.owner = e.pid /\ f.object = e.object /\ f.opened = e.opened
            BY <2>3 DEF About
        <3> HIDE DEF f
        <3>2. Ahead(a, f, filter, named, cache.paths)
            BY <1>8, <3>1
        <3> QED
            BY <3>2 DEF f
    <2> QED
        BY <2>1, <2>2, <2>3
<1>10. kernel' = a
    BY DEF Report
<1> HIDE DEF a
<1>11. Named(kernel, filter, named, cache.paths)'
    BY <1>6, <1>10 DEF Named
<1>12. Current(kernel, filter, named, cache.paths)'
    BY <1>9, <1>10 DEF Current
<1> QED
    BY <1>5, <1>10, <1>11, <1>12 DEF NamesOK

LEMMA NamesCallback ==
    ASSUME Base, NamesOK, Callback
    PROVE  NamesOK' /\ Shown'
<1> DEFINE e == kernel[1]
<1>1. /\ HandleEvent /\ kernel \in Seq(Event) /\ EventOK
      /\ open \in [Handle -> OpenFile \union {Closed}]
      /\ cache \in Caches /\ named \subseteq DOMAIN cache.paths
      /\ DOMAIN cache.paths \subseteq Object
    <2>1. cache \in Caches /\ named \subseteq DOMAIN cache.paths
        BY DEF Base, Events, CacheOK
    <2>2. DOMAIN cache.paths \subseteq Object
        BY <2>1, CachesType
    <2> QED
        BY <2>1, <2>2 DEF Callback, Base, Events, EventsTypeOK
<1>2. /\ kernel # <<>> /\ kernel' = Tail(kernel) /\ e \in Event
      /\ UNCHANGED <<target, traced>>
      /\ \/ HandleStart(e) \/ HandleStop(e) \/ HandleStranger(e)
         \/ HandleOpen(e) \/ HandleUse(e) \/ HandleClose(e)
    BY <1>1, Handles
<1>3. UNCHANGED <<traced, open>>
    BY <1>2 DEF target
<1>4. /\ 1 \in 1..Len(kernel)
      /\ e.op \in {"open", "use", "close"} => e.object \in Object /\ e.opened \in Path
      /\ e.op = "open" => e.path = e.opened
      /\ e.op = "start" => e.object = Closed
    <2>1. 1 \in 1..Len(kernel)
        BY <1>1, <1>2, TailAt
    <2> QED
        BY <1>1, <2>1 DEF EventOK
<1> DEFINE Names == /\ \A p \in filter' \ filter : e.op = "start" /\ e.pid = p
                    /\ \A o \in named' : ~OpenOf(e, o) =>
                           o \in named /\ cache'.paths[o] = cache.paths[o]
                    /\ \A o \in named' : OpenOf(e, o) =>
                           e.pid \notin filter' \/ cache'.paths[o] = e.opened
<1>5. Names => NamesOK'
    BY <1>1, <1>2, <1>3, NamesHandled
<1>6. e.op = "use" /\ e.pid \in filter /\ e.object \in named => e.opened = cache.paths[e.object]
    <2>1. \A k \in 1..Len(kernel) : ~(0 < k /\ k < 1)
        OBVIOUS
    <2>2. Kept(kernel, 0, 1, e.object)
        BY <2>1 DEF Kept
    <2> QED
        BY <1>4, <2>2 DEF NamesOK, Named
<1> HIDE DEF e
<1>7. ASSUME NEW emitted, NEW shown, Made(e, emitted, shown)
      PROVE  /\ last'.op = e.op /\ last'.emitted = emitted /\ last'.object = e.object
             /\ last'.shown = shown /\ last'.opened = e.opened /\ last'.path = e.path
    BY <1>7 DEF Made
<1>8. CASE HandleStart(e)
    <2>1. /\ e.op = "start" /\ filter' = AddIfParentTracked(e.by, e.pid)
          /\ Made(e, e.pid \in filter', Fallback) /\ UNCHANGED <<cache, named>>
        BY <1>8 DEF HandleStart
    <2>2. Names
        BY <2>1 DEF AddIfParentTracked, OpenOf
    <2>3. last'.object = Closed
        BY <1>4, <1>7, <2>1
    <2>4. Closed \notin named'
        BY <1>1, <2>1, NativeEventsAssumption
    <2> QED
        BY <1>5, <2>2, <2>3, <2>4 DEF Shown
<1>9. CASE HandleStop(e) \/ HandleStranger(e)
    <2>1. /\ e.op = "open" => e.pid \notin filter
          /\ filter' \subseteq filter
          /\ Made(e, FALSE, Fallback) /\ UNCHANGED <<cache, named>>
        <3>1. CASE HandleStop(e)
            BY <3>1 DEF HandleStop
        <3>2. CASE HandleStranger(e)
            BY <3>2 DEF HandleStranger
        <3> QED
            BY <1>9, <3>1, <3>2
    <2>2. Names
        BY <2>1 DEF OpenOf
    <2>3. last'.emitted = FALSE
        BY <1>7, <2>1
    <2> QED
        BY <1>5, <2>2, <2>3 DEF Shown
<1>10. CASE HandleOpen(e)
    <2> DEFINE o == e.object
               t == Touch(cache, o, e.path)
    <2>1. /\ e.op = "open" /\ cache' = t /\ named' = (named \union {o}) \intersect DOMAIN t.paths
          /\ filter' = filter /\ Made(e, TRUE, e.path)
        BY <1>10 DEF HandleOpen
    <2>2. /\ t.paths[o] = e.path
          /\ \A f \in DOMAIN t.paths \ {o} : t.paths[f] = cache.paths[f]
        BY <1>1, <1>4, <2>1, TouchOK
    <2> HIDE DEF t
    <2>3. Names
        BY <1>4, <2>1, <2>2 DEF OpenOf
    <2>4. last'.op = "open"
        BY <1>7, <2>1
    <2> QED
        BY <1>5, <2>3, <2>4 DEF Shown
<1>11. CASE HandleUse(e)
    <2> DEFINE shown == IF e.path = Closed THEN Known(cache, e.object) ELSE e.path
    <2>1. /\ e.op = "use" /\ e.pid \in filter /\ filter' = filter /\ named' = named
          /\ cache' = Resolve(cache, e.object) \/ cache' = cache
          /\ Made(e, TRUE, shown)
        BY <1>11 DEF HandleUse
    <2>2. cache'.paths = cache.paths
        BY <1>1, <1>4, <2>1, ResolveOK
    <2>3. Names
        BY <2>1, <2>2 DEF OpenOf
    <2>4. /\ last'.object = e.object /\ last'.shown = shown
          /\ last'.opened = e.opened /\ last'.path = e.path
        <3> HIDE DEF shown
        <3> QED
            BY <1>7, <2>1
    <2>5. e.object \in named => Known(cache, e.object) = e.opened
        BY <1>1, <1>6, <2>1 DEF Known
    <2> QED
        BY <1>5, <2>1, <2>3, <2>4, <2>5 DEF Shown
<1>12. CASE HandleClose(e)
    <2> DEFINE o == e.object
               t == Forget(cache, o)
    <2>1. /\ e.op = "close" /\ cache' = t /\ named' = named \ {o} /\ filter' = filter
        BY <1>12 DEF HandleClose
    <2>2. /\ DOMAIN t.paths = DOMAIN cache.paths \ {o}
          /\ \A f \in DOMAIN t.paths : t.paths[f] = cache.paths[f]
        BY <1>1, <1>4, <2>1, ForgetOK
    <2> HIDE DEF t
    <2>3. Names
        BY <1>1, <2>1, <2>2 DEF OpenOf
    <2>4. last'.object = o
        BY <1>7, <1>12 DEF HandleClose
    <2> QED
        BY <1>5, <2>1, <2>3, <2>4 DEF Shown
<1> QED
    BY <1>2, <1>8, <1>9, <1>10, <1>11, <1>12

\* Nothing happens to the files and the queue, and no name is new.
LEMMA NamesStay ==
    ASSUME NamesOK, Shown, UNCHANGED <<kernel, open, filter, last>>,
           traced' => traced,
           \A o \in named' : o \in named /\ cache'.paths[o] = cache.paths[o]
    PROVE  NamesOK' /\ Shown'
<1>1. Openings(kernel')
    BY DEF NamesOK
<1>2. Named(kernel, filter, named, cache.paths)'
    BY DEF NamesOK, Named
<1>3. ASSUME NEW f, Ahead(kernel, f, filter, named, cache.paths)
      PROVE  Ahead(kernel', f, filter', named', cache'.paths)
    BY <1>3 DEF Ahead
<1>4. Current(kernel, filter, named, cache.paths)'
    <2>1. traced' => \A h \in InUse' : open'[h] = open[h] /\ h \in InUse /\ traced
        BY DEF InUse
    <2> QED
        BY <1>3, <2>1 DEF NamesOK, Current
<1>5. Shown'
    BY DEF Shown
<1> QED
    BY <1>1, <1>2, <1>4, <1>5 DEF NamesOK

LEMMA NoNames ==
    ASSUME kernel = <<>>, ~traced \/ named = {}
    PROVE  NamesOK
<1>1. Len(kernel) = 0
    OBVIOUS
<1>2. Openings(kernel) /\ Named(kernel, filter, named, cache.paths)
    BY <1>1 DEF Openings, Named
<1>3. Current(kernel, filter, named, cache.paths)
    BY <1>1 DEF Current, Ahead
<1> QED
    BY <1>2, <1>3 DEF NamesOK

LEMMA NamesStep ==
    ASSUME Base, NamesOK, Shown, [Next]_vars
    PROVE  NamesOK' /\ Shown'
<1>1. /\ ServiceOK /\ Events /\ Control
      /\ EventsTypeOK /\ Unused /\ OpenOK
      /\ kernel \in Seq(Event) /\ traced \in BOOLEAN
    BY DEF Base, Events, EventsTypeOK
<1>2. CASE GoesOn
    <2>1. /\ UNCHANGED <<filter, cache, named, last, open>>
          /\ kernel' = kernel \/ kernel' = <<>>
          /\ traced' = traced \/ traced' = FALSE
          /\ kernel' # kernel => ~traced'
        BY <1>2 DEF GoesOn, target, native
    <2>2. CASE kernel' = kernel
        BY <2>1, <2>2, NamesStay
    <2>3. CASE kernel' = <<>> /\ ~traced'
        <3>1. Len(kernel') = 0
            BY <2>3
        <3>2. Openings(kernel') /\ Named(kernel, filter, named, cache.paths)'
            BY <3>1 DEF Openings, Named
        <3>3. Current(kernel, filter, named, cache.paths)'
            BY <2>3 DEF Current
        <3> QED
            BY <2>1, <3>2, <3>3 DEF NamesOK, Shown
    <2> QED
        BY <2>1, <2>2, <2>3
<1>3. CASE TargetStep
    <2>1. TargetOK /\ Target
        BY <1>1, <1>3 DEF EventsTypeOK, TargetOK, TargetStep
    <2>2. /\ UNCHANGED <<traced, native>>
          /\ traced => \E e \in Event : Report(e)
          /\ ~traced => kernel' = kernel
        BY <1>1, <2>1, TargetSteps
    <2>3. UNCHANGED <<filter, named, cache, last>>
        BY <2>2 DEF native
    <2>4. Shown'
        BY <2>3 DEF Shown
    <2>5. CASE traced
        <3>1. PICK e \in Event : Report(e)
            BY <2>2, <2>5
        <3> QED
            BY <1>1, <2>1, <2>2, <2>3, <2>4, <2>5, <3>1, NamesPosted
    <2>6. CASE ~traced
        <3>1. Openings(kernel') /\ Named(kernel, filter, named, cache.paths)'
            BY <2>2, <2>3, <2>6 DEF NamesOK, Named
        <3>2. Current(kernel, filter, named, cache.paths)'
            BY <2>2, <2>6 DEF Current
        <3> QED
            BY <2>4, <3>1, <3>2 DEF NamesOK
    <2> QED
        BY <2>5, <2>6
<1>4. CASE Callback
    BY <1>4, NamesCallback
<1>5. CASE Spawned
    <2>1. /\ last' = Nothing /\ UNCHANGED <<traced, kernel>> /\ ~Up
        BY <1>5 DEF Spawned, MayStart
    <2>2. Len(kernel') = 0 /\ ~traced'
        BY <1>1, <2>1 DEF Control
    <2>3. Openings(kernel') /\ Named(kernel, filter, named, cache.paths)'
        BY <2>2 DEF Openings, Named
    <2>4. Current(kernel, filter, named, cache.paths)'
        BY <2>2 DEF Current
    <2>5. Shown'
        BY <2>1 DEF Shown, Nothing
    <2> QED
        BY <2>3, <2>4, <2>5 DEF NamesOK
<1>6. CASE MainEnable
    <2>1. Early /\ UNCHANGED <<kernel, named, last>>
        BY <1>6 DEF MainEnable, Goes, Early, native
    <2>2. kernel' = <<>> /\ named' = {}
        BY <1>1, <2>1 DEF Unused
    <2>3. Len(kernel') = 0
        BY <2>2
    <2>4. Openings(kernel') /\ Named(kernel, filter, named, cache.paths)'
        BY <2>3 DEF Openings, Named
    <2>5. Current(kernel, filter, named, cache.paths)'
        BY <2>2, <2>3 DEF Current, Ahead
    <2>6. Shown'
        BY <2>1 DEF Shown
    <2> QED
        BY <2>4, <2>5, <2>6 DEF NamesOK
<1>7. CASE MainTable \/ MainNames \/ MainSeed
    <2>1. UNCHANGED <<target, traced, kernel, filter, capped, last>>
        BY <1>7, SnapshotKeeps DEF MainTable, MainNames, MainSeed
    <2>2. open' = open
        BY <2>1 DEF target
    <2>3. \A o \in named' : o \in named /\ cache'.paths[o] = cache.paths[o]
        <3>1. CASE MainTable \/ MainNames
            <4>1. UNCHANGED <<cache, named>>
                BY <3>1, Zenon DEF MainTable, MainNames, TakeTable, TakeNames
            <4> QED
                BY <4>1
        <3>2. CASE MainSeed
            <4>1. SeedCache /\ main = "store"
                BY <3>2 DEF MainSeed, Goes
            <4>2. cache \in Caches /\ snap \in Seq([object : Object, path : Path])
                BY <4>1 DEF Base, Events, SnapOK, CacheOK
            <4>3. /\ cache' = Seeding[Len(snap)]
                  /\ named' = {o \in named : \A i \in 0..Len(snap) : o \in DOMAIN Seeding[i].paths}
                BY <4>1 DEF SeedCache
            <4> QED
                BY <4>2, <4>3, SeedingOK
        <3> QED
            BY <1>7, <3>1, <3>2
    <2> QED
        BY <2>1, <2>2, <2>3, NamesStay
<1> QED
    BY <1>1, <1>2, <1>3, <1>4, <1>5, <1>6, <1>7, StepKinds

\* An event about an object cached under a name from a create event is shown under
\* the name it carries or, without one, the name the object was opened under, also
\* when the file is renamed while it is open; and the list of the cache is about
\* the same objects as its paths.
THEOREM NamedPathIsRightHolds == Spec => []NamedPathIsRight
<1> DEFINE I == Base /\ NamesOK /\ Shown
<1>1. Init => I
    <2> SUFFICES ASSUME Init
                 PROVE  I
        OBVIOUS
    <2>1. kernel = <<>> /\ traced = FALSE /\ last = Nothing
        BY DEF Init, EventsInit
    <2>2. NamesOK
        BY <2>1, NoNames
    <2>3. Shown
        BY <2>1 DEF Shown, Nothing
    <2> QED
        BY <2>2, <2>3, BaseInit
<1>2. I /\ [Next]_vars => I'
    BY BaseStep, NamesStep
<1>3. I => NamedPathIsRight
    <2> SUFFICES ASSUME I
                 PROVE  NamedPathIsRight
        OBVIOUS
    <2>1. cache \in Caches
        BY DEF Base, Events, CacheOK
    <2>2. Range(cache.lru) = DOMAIN cache.paths /\ IsInjective(cache.lru) /\ Len(cache.lru) <= CacheCap
        BY <2>1, CachesType, CachesAre
    <2> QED
        BY <2>2 DEF NamedPathIsRight, Shown
<1> QED
    BY <1>1, <1>2, <1>3, PTL DEF Spec

-----------------------------------------------------------------------------
(* The lines on the pipe.                                                  *)

\* The wrapper reads on, or is about to.
Reading == pump = "run" \/ call = "hello"

\* The lines with an event are in order, and they are those written and not given.
Numbered ==
    /\ Len(given) <= written
    /\ \A i \in 1..Len(pipe) : pipe[i].kind = "event" =>
           /\ Len(given) < pipe[i].n /\ pipe[i].n <= written
           /\ \A j \in 1..Len(pipe) : i < j /\ pipe[j].kind = "event" => pipe[i].n < pipe[j].n
    /\ \A m \in 1..written : Len(given) < m =>
           \E i \in 1..Len(pipe) : pipe[i].kind = "event" /\ pipe[i].n = m

Delivered ==
    /\ given = [i \in 1..Len(given) |-> i]
    /\ call = "hello" => pump # "run"
    /\ Reading => ~Dead /\ Numbered

\* Reading a line keeps that, and gives the next number if it is an event's.
LEMMA LineRead ==
    ASSUME pipe \in Seq(Line), given \in Seq(1..MaxOps), written \in Nat,
           pipe # <<>>, pipe' = Tail(pipe), written' = written,
           given' = IF Head(pipe).kind = "event" THEN Append(given, Head(pipe).n) ELSE given,
           given = [i \in 1..Len(given) |-> i], Numbered
    PROVE  given' = [i \in 1..Len(given') |-> i] /\ Numbered'
<1> DEFINE k == Len(given)
           x == pipe[1].n
<1>1. /\ Len(pipe') = Len(pipe) - 1 /\ Len(pipe) \in Nat \ {0} /\ Head(pipe) = pipe[1]
      /\ \A i \in 1..Len(pipe') : pipe'[i] = pipe[i + 1]
      /\ pipe[1] \in Line
    BY TailAt
<1>2. /\ \A i \in 1..Len(pipe') : i + 1 \in 1..Len(pipe)
      /\ 1 \in 1..Len(pipe)
      /\ \A i \in 1..Len(pipe) : i # 1 => i - 1 \in 1..Len(pipe') /\ (i - 1) + 1 = i /\ 1 < i
    BY <1>1
<1>3. k \in Nat
    OBVIOUS
<1>4. \A i \in 1..Len(pipe) : pipe[i].kind = "event" => pipe[i].n \in 1..MaxOps
    BY DEF Line
<1>5. CASE pipe[1].kind = "event"
    <2>1. x \in 1..MaxOps /\ k < x /\ x <= written
        BY <1>2, <1>4, <1>5 DEF Numbered
    <2>2. PICK i \in 1..Len(pipe) : pipe[i].kind = "event" /\ pipe[i].n = k + 1
        <3>1. k + 1 \in 1..written /\ k < k + 1
            BY <1>3, <2>1
        <3> QED
            BY <3>1 DEF Numbered
    <2>3. i = 1
        <3>1. 1 < i => x < pipe[i].n
            BY <1>2, <1>5, <2>2 DEF Numbered
        <3>2. ~(x < k + 1)
            BY <1>3, <2>1
        <3> QED
            BY <2>2, <3>1, <3>2
    <2>4. x = k + 1
        BY <2>2, <2>3
    <2>5. given' = Append(given, x)
        BY <1>1, <1>5
    <2> HIDE DEF x
    <2>6. /\ Len(given') = k + 1
          /\ \A j \in 1..k : given'[j] = given[j]
          /\ given'[k + 1] = x
          /\ given' = [j \in 1..(k + 1) |-> given'[j]]
        BY <2>1, <2>5
    <2>7. \A j \in 1..k : given[j] = j
        OBVIOUS
    <2> HIDE DEF k
    <2>8. \A j \in 1..(k + 1) : given'[j] = j
        <3> SUFFICES ASSUME NEW j \in 1..(k + 1)
                     PROVE  given'[j] = j
            OBVIOUS
        <3>1. j \in 1..k \/ j = k + 1
            BY <1>3
        <3> QED
            BY <2>4, <2>6, <2>7, <3>1
    <2>9. given' = [j \in 1..Len(given') |-> j]
        BY <2>6, <2>8
    <2>10. ASSUME NEW j \in 1..Len(pipe'), pipe'[j].kind = "event"
           PROVE  /\ Len(given') < pipe'[j].n /\ pipe'[j].n <= written'
                  /\ \A l \in 1..Len(pipe') : j < l /\ pipe'[l].kind = "event" =>
                         pipe'[j].n < pipe'[l].n
        <3>1. /\ pipe'[j] = pipe[j + 1] /\ j + 1 \in 1..Len(pipe) /\ 1 < j + 1
              /\ \A l \in 1..Len(pipe') : pipe'[l] = pipe[l + 1] /\ l + 1 \in 1..Len(pipe)
                                          /\ (j < l => j + 1 < l + 1)
            BY <1>1, <1>2
        <3>2. x < pipe[j + 1].n /\ pipe[j + 1].n <= written
            BY <1>2, <1>5, <2>10, <3>1 DEF Numbered, x
        <3>3. Len(given') < pipe'[j].n
            BY <2>4, <2>6, <3>1, <3>2
        <3>4. \A l \in 1..Len(pipe) : j + 1 < l /\ pipe[l].kind = "event" =>
                  pipe[j + 1].n < pipe[l].n
            BY <2>10, <3>1 DEF Numbered
        <3>5. \A l \in 1..Len(pipe') : j < l /\ pipe'[l].kind = "event" =>
                  pipe'[j].n < pipe'[l].n
            BY <3>1, <3>4
        <3> QED
            BY <3>1, <3>2, <3>3, <3>5
    <2>11. ASSUME NEW m \in 1..written', Len(given') < m
           PROVE  \E j \in 1..Len(pipe') : pipe'[j].kind = "event" /\ pipe'[j].n = m
        <3>1. k < m /\ m # x
            BY <1>3, <2>4, <2>6, <2>11
        <3>2. PICK j \in 1..Len(pipe) : pipe[j].kind = "event" /\ pipe[j].n = m
            BY <3>1 DEF Numbered, k
        <3>3. j # 1
            BY <3>1, <3>2 DEF x
        <3>4. j - 1 \in 1..Len(pipe') /\ (j - 1) + 1 = j
            BY <1>2, <3>3
        <3>5. pipe'[j - 1] = pipe[j]
            BY <1>1, <3>4
        <3> QED
            BY <3>2, <3>4, <3>5
    <2>12. Len(given') <= written'
        BY <2>1, <2>4, <2>6, SMTT(30)
    <2> QED
        BY <2>9, <2>10, <2>11, <2>12 DEF Numbered
<1>6. CASE pipe[1].kind # "event"
    <2>1. given' = given
        BY <1>1, <1>6, ZenonT(30)
    <2>2. ASSUME NEW j \in 1..Len(pipe'), pipe'[j].kind = "event"
          PROVE  /\ Len(given') < pipe'[j].n /\ pipe'[j].n <= written'
                 /\ \A l \in 1..Len(pipe') : j < l /\ pipe'[l].kind = "event" =>
                        pipe'[j].n < pipe'[l].n
        <3>1. /\ pipe'[j] = pipe[j + 1] /\ j + 1 \in 1..Len(pipe)
              /\ \A l \in 1..Len(pipe') : pipe'[l] = pipe[l + 1] /\ l + 1 \in 1..Len(pipe)
                                          /\ (j < l => j + 1 < l + 1)
            BY <1>1, <1>2
        <3>2. /\ Len(given) < pipe[j + 1].n /\ pipe[j + 1].n <= written
              /\ \A l \in 1..Len(pipe) : j + 1 < l /\ pipe[l].kind = "event" =>
                     pipe[j + 1].n < pipe[l].n
            BY <2>2, <3>1 DEF Numbered
        <3>3. \A l \in 1..Len(pipe') : j < l /\ pipe'[l].kind = "event" =>
                  pipe'[j].n < pipe'[l].n
            BY <3>1, <3>2
        <3> QED
            BY <2>1, <3>1, <3>2, <3>3
    <2>3. ASSUME NEW m \in 1..written', Len(given') < m
          PROVE  \E j \in 1..Len(pipe') : pipe'[j].kind = "event" /\ pipe'[j].n = m
        <3>1. PICK j \in 1..Len(pipe) : pipe[j].kind = "event" /\ pipe[j].n = m
            BY <2>1, <2>3 DEF Numbered
        <3>2. j # 1
            BY <1>6, <3>1
        <3>3. j - 1 \in 1..Len(pipe') /\ (j - 1) + 1 = j
            BY <1>2, <3>2
        <3>4. pipe'[j - 1] = pipe[j]
            BY <1>1, <3>3, SMTT(30)
        <3> QED
            BY <3>1, <3>3, <3>4
    <2>4. Len(given') <= written'
        BY <2>1 DEF Numbered
    <2> QED
        BY <2>1, <2>2, <2>3, <2>4, ZenonT(30) DEF Numbered
<1> QED
    BY <1>5, <1>6

\* So does writing one.
LEMMA LinePut ==
    ASSUME pipe \in Seq(Line), given \in Seq(1..MaxOps), written \in Nat,
           NEW line \in Line, pipe' = Append(pipe, line), given' = given,
           line.kind = "event" => line.n = written + 1 /\ written' = written + 1,
           line.kind # "event" => written' = written,
           Numbered
    PROVE  Numbered'
<1> DEFINE n == Len(pipe)
<1>1. Len(given) <= written /\ Len(given') = Len(given)
    BY DEF Numbered
<1>2. /\ Len(pipe') = n + 1 /\ n \in Nat /\ Len(given) \in Nat
      /\ \A i \in 1..n : pipe'[i] = pipe[i]
      /\ pipe'[n + 1] = line
    BY AppendAt
<1>3. \A i \in 1..Len(pipe') : i \in 1..n \/ i = n + 1
    BY <1>2
<1>4. written' = written \/ (line.kind = "event" /\ written' = written + 1)
    OBVIOUS
<1>5. ASSUME NEW i \in 1..Len(pipe'), pipe'[i].kind = "event"
      PROVE  /\ Len(given') < pipe'[i].n /\ pipe'[i].n <= written'
             /\ \A j \in 1..Len(pipe') : i < j /\ pipe'[j].kind = "event" =>
                    pipe'[i].n < pipe'[j].n
    <2>1. CASE i \in 1..n
        <3>1. pipe[i].kind = "event" /\ pipe'[i] = pipe[i] /\ pipe[i] \in Line
            BY <1>2, <1>5, <2>1
        <3>2. pipe[i].n \in Nat
            BY <3>1 DEF Line
        <3>3. /\ Len(given) < pipe[i].n /\ pipe[i].n <= written
              /\ \A j \in 1..n : i < j /\ pipe[j].kind = "event" => pipe[i].n < pipe[j].n
            BY <2>1, <3>1 DEF Numbered
        <3>4. pipe[i].n <= written' /\ pipe[i].n < written + 1
            BY <1>4, <3>2, <3>3
        <3>5. ASSUME NEW j \in 1..Len(pipe'), i < j, pipe'[j].kind = "event"
              PROVE  pipe[i].n < pipe'[j].n
            <4>1. CASE j \in 1..n
                BY <1>2, <3>3, <3>5, <4>1
            <4>2. CASE j = n + 1
                BY <1>2, <3>4, <3>5, <4>2
            <4> QED
                BY <1>3, <4>1, <4>2
        <3> QED
            BY <3>1, <3>3, <3>4, <3>5
    <2>2. CASE i = n + 1
        <3>1. line.kind = "event" /\ pipe'[i] = line
            BY <1>2, <1>5, <2>2
        <3>2. ~(\E j \in 1..Len(pipe') : i < j)
            BY <1>2, <2>2
        <3>3. Len(given') < pipe'[i].n /\ pipe'[i].n <= written'
            BY <1>1, <1>2, <3>1
        <3> QED
            BY <3>2, <3>3
    <2> QED
        BY <1>3, <2>1, <2>2
<1>6. ASSUME NEW m \in 1..written', Len(given') < m
      PROVE  \E i \in 1..Len(pipe') : pipe'[i].kind = "event" /\ pipe'[i].n = m
    <2>1. CASE m \in 1..written
        <3>0. Len(given) < m
            BY <1>6
        <3>1. PICK i \in 1..n : pipe[i].kind = "event" /\ pipe[i].n = m
            BY <2>1, <3>0 DEF Numbered
        <3>2. i \in 1..Len(pipe')
            BY <1>2
        <3> QED
            BY <1>2, <3>1, <3>2
    <2>2. CASE m \notin 1..written
        <3>1. line.kind = "event" /\ m = written + 1 /\ n + 1 \in 1..Len(pipe')
            BY <1>2, <1>4, <1>6, <2>2
        <3> QED
            BY <1>2, <3>1
    <2> QED
        BY <2>1, <2>2
<1>7. Len(given') <= written'
    BY <1>1, <1>2, <1>4
<1> QED
    BY <1>5, <1>6, <1>7 DEF Numbered

\* A line that is not an event's changes nothing of that.
LEMMA OtherLine ==
    ASSUME pipe \in Seq(Line), given \in Seq(1..MaxOps), written \in Nat,
           NEW line \in Line, line.kind # "event", Put(line),
           UNCHANGED <<call, pump, written, given>>, Delivered
    PROVE  Delivered'
<1>1. CASE Reading'
    <2>1. Reading /\ ~Dead /\ Numbered
        BY <1>1 DEF Reading, Delivered
    <2>2. pipe' = Append(pipe, line)
        BY <2>1 DEF Put
    <2>3. Numbered'
        BY <2>1, <2>2, LinePut
    <2> QED
        BY <2>1, <2>3 DEF Delivered, Dead
<1>2. CASE ~Reading'
    BY <1>2 DEF Delivered
<1> QED
    BY <1>1, <1>2

LEMMA DeliveredStep ==
    ASSUME Base, Base', [Next]_vars, Delivered
    PROVE  Delivered'
<1>1. /\ pipe \in Seq(Line) /\ given \in Seq(1..MaxOps)
      /\ written \in Nat /\ written' \in Nat
    BY DEF Base, ServiceOK
<1>2. CASE UNCHANGED <<call, pump, pipe, written, given>>
    BY <1>2 DEF Delivered, Reading, Numbered, Dead
<1>3. CASE Spawned
    <2>1. /\ call' = "hello" /\ pump' = "none"
          /\ pipe' = <<>> /\ written' = 0 /\ given' = <<>>
        BY <1>3 DEF Spawned
    <2> QED
        BY <2>1 DEF Delivered, Reading, Numbered, Dead
<1>4. CASE UNCHANGED <<pipe, written, given>> /\ call' # "hello" /\ call' # "dead"
           /\ (pump' = "run" => pump = "run")
    BY <1>4 DEF Delivered, Reading, Numbered, Dead
<1>5. CASE HelloRead \/ PumpRead
    <2>1. /\ Reading /\ pipe # <<>> /\ pipe' = Tail(pipe) /\ written' = written
          /\ given' = IF Head(pipe).kind = "event" THEN Append(given, Head(pipe).n) ELSE given
          /\ call' # "hello" \/ pump' # "run"
          /\ call' # "dead"
        BY <1>5 DEF HelloRead, PumpRead, Reading, Delivered, Dead, wrapper
    <2>2. Numbered /\ given = [i \in 1..Len(given) |-> i]
        BY <2>1 DEF Delivered
    <2>3. given' = [i \in 1..Len(given') |-> i] /\ Numbered'
        BY <1>1, <2>1, <2>2, LineRead
    <2> QED
        BY <2>1, <2>3 DEF Delivered, Dead
<1>6. CASE HelloRefused \/ BackendDies
    <2>1. given' = given /\ ~Reading'
        BY <1>6 DEF HelloRefused, BackendDies, Reading, Delivered, input
    <2> QED
        BY <2>1 DEF Delivered, Reading
<1>7. CASE MainHello
    <2>1. PICK k \in {"hello", "old"} : Put([kind |-> k])
        BY <1>7 DEF MainHello
    <2>2. UNCHANGED <<call, pump, written, given>>
        BY <1>7 DEF MainHello, wrapper, input
    <2>3. [kind |-> k] \in Line /\ [kind |-> k].kind # "event"
        BY DEF Line
    <2> QED
        BY <1>1, <2>1, <2>2, <2>3, OtherLine
<1>8. CASE Heartbeat
    <2>1. Put([kind |-> "stats"]) /\ UNCHANGED <<call, pump, written, given>>
        BY <1>8 DEF Heartbeat, wrapper, input
    <2>2. [kind |-> "stats"] \in Line /\ [kind |-> "stats"].kind # "event"
        BY DEF Line
    <2> QED
        BY <1>1, <2>1, <2>2, OtherLine
<1>9. CASE NativeDies /\ pipe' # pipe
    <2>1. Put([kind |-> "torn"]) /\ UNCHANGED <<call, pump, written, given>>
        BY <1>9 DEF NativeDies, wrapper, input
    <2>2. [kind |-> "torn"] \in Line /\ [kind |-> "torn"].kind # "event"
        BY DEF Line
    <2> QED
        BY <1>1, <2>1, <2>2, OtherLine
<1>10. CASE Callback /\ last'.emitted
    <2> DEFINE line == [kind |-> "event", n |-> written']
    <2>1. /\ written' = written + 1 /\ Put(line)
          /\ UNCHANGED <<call, pump, given>>
        BY <1>10 DEF Callback, wrapper, input
    <2>2. line \in Line
        <3>1. written' \in 1..MaxOps
            BY <1>1, <2>1 DEF Base, ServiceOK
        <3> QED
            BY <3>1 DEF Line
    <2>3. line.kind = "event" /\ line.n = written + 1
        BY <2>1
    <2> HIDE DEF line
    <2>4. CASE Reading'
        <3>1. Reading /\ ~Dead /\ Numbered
            BY <2>1, <2>4 DEF Reading, Delivered
        <3>2. pipe' = Append(pipe, line)
            BY <2>1, <3>1 DEF Put
        <3>3. Numbered'
            BY <1>1, <2>1, <2>2, <2>3, <3>1, <3>2, LinePut
        <3> QED
            BY <2>1, <3>1, <3>3 DEF Delivered, Dead
    <2>5. CASE ~Reading'
        BY <2>1, <2>5 DEF Delivered
    <2> QED
        BY <2>4, <2>5
<1>11. CASE StartRefused \/ HelloExited \/ HelloTimeout \/ Stop
            \/ StopWaited \/ StopTimeout \/ StopTerminated \/ StopJoined
    BY <1>4, <1>11 DEF StartRefused, HelloExited, HelloTimeout, Stop, StopWaited,
                       StopTimeout, StopTerminated, StopJoined, output, input
<1>12. CASE PumpEof
    <2>1. /\ pump = "run" /\ pump' = "ended"
          /\ UNCHANGED <<call, pipe, written, given>>
        BY <1>12 DEF PumpEof, wrapper, output
    <2>2. call' # "hello" /\ call' # "dead"
        BY <2>1 DEF Delivered, Reading, Dead
    <2> QED
        BY <1>4, <2>1, <2>2
<1>13. CASE MainSweep \/ MainTrace \/ MainTraceFails \/ MainEnable \/ MainConsume
            \/ MainConsumeFails \/ MainLoopEnds \/ MainDrain \/ MainExit
            \/ MainTable \/ MainNames \/ MainSeed
    BY <1>2, <1>13 DEF MainSweep, MainTrace, MainTraceFails, MainEnable, MainConsume,
                       MainConsumeFails, MainLoopEnds, MainDrain, MainExit,
                       MainTable, MainNames, MainSeed, output, wrapper, input
<1>14. CASE StdinEof \/ NativeKilled \/ TargetStep \/ (NativeDies /\ pipe' = pipe)
            \/ (Callback /\ ~last'.emitted) \/ UNCHANGED vars
    BY <1>2, <1>14 DEF StdinEof, NativeKilled, TargetStep, NativeDies, Callback, vars,
                       output, wrapper, input
<1> QED
    BY <1>3, <1>5, <1>6, <1>7, <1>8, <1>9, <1>10, <1>11, <1>13, <1>14,
       <1>12 DEF Next, Wrapper, NativeMain

\* on_event is called with the events in the order they were written, none twice
\* and none left out in between, however the process ends and whatever else is on
\* the pipe: the safety half of WrittenIsGiven.
THEOREM GivenInOrder == Spec => [](given = [i \in 1..Len(given) |-> i])
<1>1. Init => Base /\ Delivered
    <2>1. Init => Delivered
        <3> SUFFICES ASSUME Init
                     PROVE  Delivered
            OBVIOUS
        <3>1. given = <<>> /\ call = "idle" /\ pump = "none"
            BY DEF Init
        <3> QED
            BY <3>1 DEF Delivered, Reading
    <2> QED
        BY <2>1, BaseInit
<1>2. Base /\ Delivered /\ [Next]_vars => Base' /\ Delivered'
    BY BaseStep, DeliveredStep
<1>3. Base /\ Delivered => given = [i \in 1..Len(given) |-> i]
    BY DEF Delivered
<1> QED
    BY <1>1, <1>2, <1>3, PTL DEF Spec

=============================================================================
