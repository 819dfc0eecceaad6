---------------------------- MODULE NativeEvents ----------------------------
(***************************************************************************)
(* What the native process (service/native) makes of kernel events: the    *)
(* set of pids it follows (PidFilter), the cache that gives a file object  *)
(* its path (EventConsumer), and the snapshot of the target's handles that *)
(* seeds the cache while the callback already runs.                        *)
(*                                                                         *)
(* The target is the environment: processes start and exit, open, use,     *)
(* rename and close files.  The kernel reports in order and loses nothing; *)
(* the event of an open carries a name, that of a use or a rename may, and *)
(* it is the name the file has by then.  A handle, and its file object,    *)
(* belong to one process.                                                  *)
(***************************************************************************)
EXTENDS Integers, Sequences, FiniteSets, Functions, Filters

CONSTANTS Pid, Root,     \* process ids, and the target's
          Handle,        \* handle values
          Object,        \* addresses of file objects
          Path,
          MaxPids,       \* max_pids_ of the filter
          CacheCap,      \* kFileCacheCap
          Closed,        \* a handle value that is not in use
          Fallback,      \* "[handle 0x...]"
          MaxOps,        \* bound: what the target does
          MaxUses        \* bound: the same for a plain target

ASSUME NativeEventsAssumption ==
    /\ Root \in Pid
    /\ IsFiniteSet(Handle)
    /\ Closed \notin Object \union Path
    /\ {MaxPids, CacheCap} \subseteq Nat \ {0}
    /\ MaxOps \in Nat
    /\ MaxUses \in 0..MaxOps
    /\ Fallback \notin Path

VARIABLES
    plain,     \* bound: the target only uses the files it has open
    ops,       \* what it has done so far, for the bound
    alive,     \* pids in use
    kin,       \* history: the target and what it and they started while traced
    open,      \* per handle value: its owner, file object, the path it was
               \* opened under and its path by now
    traced,    \* the providers are enabled and the trace session runs
    kernel,    \* events in the session's buffers
    filter,    \* pids_
    capped,    \* pid_cap_warned_: a child has been refused
    cache,     \* file_lru_ (newest first) and file_paths_
    snap,      \* the handle table read by EnumerateOpenFiles, then its entries
    last,      \* history: the event handled last and what was made of it
    named,     \* history: cached objects whose entry a create event made
    rootGone   \* history: the target has exited while nothing was traced

target == <<plain, ops, alive, kin, open, rootGone>>
native == <<filter, capped, cache, snap, last, named>>
eventVars == <<target, traced, kernel, native>>

\* Every event about a file but those of its opening and closing is one of a use.
Op == {"start", "stop", "open", "use", "close"}
Event == [op : Op, pid : Pid, by : Pid \union {Closed}, object : Object \union {Closed},
          opened : Path \union {Closed}, path : Path \union {Closed}, kin : BOOLEAN]
OpenFile == [owner : Pid, object : Object, opened : Path, path : Path]
Nothing == [op |-> "none", emitted |-> FALSE, kin |-> TRUE, object |-> Closed,
            shown |-> Fallback, opened |-> Closed, path |-> Closed]

EmptyCache == [lru |-> <<>>, paths |-> <<>>]

EventsTypeOK ==
    /\ plain \in BOOLEAN
    /\ ops \in 0..MaxOps
    /\ alive \in SUBSET Pid
    /\ kin \in SUBSET alive
    /\ open \in [Handle -> OpenFile \union {Closed}]
    /\ traced \in BOOLEAN
    /\ kernel \in Seq(Event)
    /\ filter \in SUBSET Pid
    /\ capped \in BOOLEAN
    /\ cache.lru \in Seq(Object)
    /\ Range(cache.paths) \subseteq Path
    /\ named \in SUBSET Object
    /\ rootGone \in BOOLEAN

InUse == {h \in Handle : open[h] # Closed}

EventsInit ==
    /\ plain \in BOOLEAN
    /\ ops = 0
    /\ alive \in {S \in SUBSET Pid : Root \in S /\ (plain => S = {Root})}
    /\ kin = {Root}
    /\ open \in [Handle -> {Closed} \union {f \in OpenFile : f.owner = Root /\ f.path = f.opened}]
    /\ \A g, h \in InUse : g # h => open[g].object # open[h].object
    /\ plain => InUse = Handle /\ \A h \in Handle : open[h].path = CHOOSE x \in Path : TRUE
    /\ traced = FALSE
    /\ kernel = <<>>
    /\ filter = {Root}
    /\ capped = FALSE
    /\ cache = EmptyCache
    /\ snap = <<>>
    /\ last = Nothing
    /\ named = {}
    /\ rootGone = FALSE

-----------------------------------------------------------------------------
(* The target.                                                             *)

\* of a process
PostLife(op, p, by) ==
    kernel' = IF traced
              THEN Append(kernel, [op |-> op, pid |-> p, by |-> by, object |-> Closed,
                                   opened |-> Closed, path |-> Closed, kin |-> p \in kin'])
              ELSE kernel

\* of the file f; x is the name in the event, if it carries one
Post(op, f, x) ==
    kernel' = IF traced
              THEN Append(kernel, [op |-> op, pid |-> f.owner, by |-> Closed,
                                   object |-> f.object, opened |-> f.opened, path |-> x,
                                   kin |-> f.owner \in kin'])
              ELSE kernel

Does ==
    /\ ops < IF plain THEN MaxUses ELSE MaxOps
    /\ ops' = ops + 1
    /\ UNCHANGED <<plain, traced, native>>

Spawn(p, q) ==
    /\ Does
    /\ ~plain
    /\ p \in alive
    /\ q \notin alive
    /\ alive' = alive \union {q}
    /\ kin' = IF traced /\ p \in kin THEN kin \union {q} ELSE kin
    /\ UNCHANGED <<open, rootGone>>
    /\ PostLife("start", q, p)

\* The handles of a process are closed after its stop event: those close events
\* find its pid gone from the filter.
Exit(p) ==
    /\ Does
    /\ ~plain
    /\ p \in alive
    /\ alive' = alive \ {p}
    /\ kin' = kin \ {p}
    /\ open' = [h \in Handle |->
                   IF h \in InUse /\ open[h].owner = p THEN Closed ELSE open[h]]
    /\ rootGone' = (rootGone \/ (p = Root /\ ~traced))
    /\ PostLife("stop", p, Closed)

Open(p, h, o, x) ==
    /\ Does
    /\ ~plain
    /\ p \in alive
    /\ open[h] = Closed
    /\ \A g \in InUse : open[g].object # o
    /\ UNCHANGED <<alive, kin, rootGone>>
    /\ LET f == [owner |-> p, object |-> o, opened |-> x, path |-> x]
       IN  open' = [open EXCEPT ![h] = f] /\ Post("open", f, x)

\* A read, a write, ...: the file is used.
Use(h) ==
    /\ Does
    /\ h \in InUse
    /\ UNCHANGED <<alive, kin, open, rootGone>>
    /\ \E x \in {Closed} \union IF plain THEN {} ELSE {open[h].path} : Post("use", open[h], x)

\* All who have the file open find it renamed; its event is that of a use.
Rename(h, x) ==
    /\ Does
    /\ ~plain
    /\ h \in InUse
    /\ \A g \in InUse : open[g].path # x
    /\ open' = [g \in Handle |-> IF g \in InUse /\ open[g].path = open[h].path
                                 THEN [open[g] EXCEPT !.path = x] ELSE open[g]]
    /\ UNCHANGED <<alive, kin, rootGone>>
    /\ \E y \in {Closed, x} : Post("use", open[h], y)

Close(h) ==
    /\ Does
    /\ ~plain
    /\ h \in InUse
    /\ open' = [open EXCEPT ![h] = Closed]
    /\ UNCHANGED <<alive, kin, rootGone>>
    /\ Post("close", open[h], Closed)

Target ==
    \/ \E p, q \in Pid : Spawn(p, q)
    \/ \E p \in Pid : Exit(p)
    \/ \E p \in Pid, h \in Handle, o \in Object, x \in Path : Open(p, h, o, x)
    \/ \E h \in Handle : Use(h) \/ Close(h) \/ \E x \in Path : Rename(h, x)

-----------------------------------------------------------------------------
(* The file-object cache.                                                  *)

\* TouchFileObject: the newest in front, the oldest dropped beyond the cap.
Touch(c, o, x) ==
    LET l == <<o>> \o Filter(c.lru, Object \ {o}) IN
    LET cut == SubSeq(l, 1, IF Len(l) < CacheCap THEN Len(l) ELSE CacheCap) IN
    [lru |-> cut, paths |-> [f \in Range(cut) |-> IF f = o THEN x ELSE c.paths[f]]]

\* ForgetFileObject.
Forget(c, o) ==
    LET l == Filter(c.lru, Object \ {o}) IN
    [lru |-> l, paths |-> [f \in Range(l) |-> c.paths[f]]]

\* ResolveFileObject makes what it finds the newest.
Resolve(c, o) == IF o \in DOMAIN c.paths THEN Touch(c, o, c.paths[o]) ELSE c

Known(c, o) == IF o \in DOMAIN c.paths THEN c.paths[o] ELSE Fallback

\* Mutant of the next one: the snapshot's view replaces what is there.
SeedEntryAlways(c, e) == Touch(c, e.object, e.path)

\* SeedFileObjectCache skips what a create event has already brought.
SeedEntry(c, e) == IF e.object \in DOMAIN c.paths THEN c ELSE Touch(c, e.object, e.path)

-----------------------------------------------------------------------------
(* The snapshot of the target's handles (EnumerateOpenFiles).               *)

\* One system call reads the table: handle values and the objects behind them.
TakeTable ==
    LET own == {h \in InUse : open[h].owner = Root} IN
    /\ \E order \in [1..Cardinality(own) -> own] :
           /\ IsInjective(order)
           /\ snap' = [i \in 1..Cardinality(own) |->
                          [handle |-> order[i], object |-> open[order[i]].object]]
    /\ UNCHANGED <<target, traced, kernel, filter, capped, cache, last, named>>

\* Then each handle value is duplicated and the duplicate asked for its path:
\* of the file it stands for by now.
TakeNames ==
    LET still == Filter(snap, {e \in Range(snap) :
                                  e.handle \in InUse /\ open[e.handle].owner = Root}) IN
    /\ snap' = [i \in 1..Len(still) |-> [object |-> still[i].object,
                                         path |-> open[still[i].handle].path]]
    /\ UNCHANGED <<target, traced, kernel, filter, capped, cache, last, named>>

\* The cache after the first i entries of the snapshot.
Seeding ==
    LET after[i \in 0..Len(snap)] ==
            IF i = 0 THEN cache ELSE SeedEntry(after[i - 1], snap[i])
    IN  after

\* An entry may be dropped on the way, and made again from the snapshot.
SeedCache ==
    /\ cache' = Seeding[Len(snap)]
    /\ named' = {o \in named : \A i \in 0..Len(snap) : o \in DOMAIN Seeding[i].paths}
    /\ snap' = <<>>
    /\ UNCHANGED <<target, traced, kernel, filter, capped, last>>

-----------------------------------------------------------------------------
(* HandleEvent, on the thread of ProcessTrace.                              *)

Take(e) == kernel # <<>> /\ e = Head(kernel) /\ kernel' = Tail(kernel)

Made(e, emitted, shown) ==
    last' = [op |-> e.op, emitted |-> emitted, kin |-> e.kin,
             object |-> e.object, shown |-> shown, opened |-> e.opened, path |-> e.path]

AddIfParentTracked(p, q) ==
    IF p \in filter /\ Cardinality(filter) < MaxPids THEN filter \union {q} ELSE filter

HandleStart(e) ==
    /\ Take(e)
    /\ e.op = "start"
    /\ filter' = AddIfParentTracked(e.by, e.pid)
    /\ capped' = (capped \/ (e.by \in filter /\ e.pid \notin filter'))
    /\ Made(e, e.pid \in filter', Fallback)
    /\ UNCHANGED <<target, traced, cache, snap, named>>

\* Mutant of the next one: a process that stopped stays in the filter.
HandleStopKeepsPid(e) ==
    /\ Take(e)
    /\ e.op = "stop"
    /\ Made(e, e.pid \in filter, Fallback)
    /\ UNCHANGED <<target, traced, filter, capped, cache, snap, named>>

\* The pid is removed before the filter is asked: no stop event is emitted.
HandleStop(e) ==
    /\ Take(e)
    /\ e.op = "stop"
    /\ filter' = filter \ {e.pid}
    /\ Made(e, FALSE, Fallback)
    /\ UNCHANGED <<target, traced, capped, cache, snap, named>>

HandleStranger(e) ==
    /\ Take(e)
    /\ e.op \in {"open", "use", "close"}
    /\ e.pid \notin filter
    /\ Made(e, FALSE, Fallback)
    /\ UNCHANGED <<target, traced, filter, capped, cache, snap, named>>

HandleOpen(e) ==
    /\ Take(e)
    /\ e.op = "open"
    /\ e.pid \in filter
    /\ cache' = Touch(cache, e.object, e.path)
    /\ named' = (named \union {e.object}) \intersect DOMAIN cache'.paths
    /\ Made(e, TRUE, e.path)
    /\ UNCHANGED <<target, traced, filter, capped, snap>>

\* An event with a name of its own is shown under it and leaves the cache alone:
\* only a create event enters a name there.
HandleUse(e) ==
    /\ Take(e)
    /\ e.op = "use"
    /\ e.pid \in filter
    /\ IF e.path = Closed
       THEN cache' = Resolve(cache, e.object) /\ Made(e, TRUE, Known(cache, e.object))
       ELSE UNCHANGED cache /\ Made(e, TRUE, e.path)
    /\ UNCHANGED <<target, traced, filter, capped, snap, named>>

\* The object is forgotten before its path is looked up.
HandleClose(e) ==
    /\ Take(e)
    /\ e.op = "close"
    /\ e.pid \in filter
    /\ cache' = Forget(cache, e.object)
    /\ named' = named \ {e.object}
    /\ Made(e, TRUE, Known(cache', e.object))
    /\ UNCHANGED <<target, traced, filter, capped, snap>>

HandleEvent ==
    \E e \in Range(kernel) :
        \/ HandleStart(e)
        \/ HandleStop(e)
        \/ HandleStranger(e)
        \/ HandleOpen(e)
        \/ HandleUse(e)
        \/ HandleClose(e)

-----------------------------------------------------------------------------
(* Properties.                                                             *)

\* What is emitted was done by the target or by a process that it, or such a
\* process, started while traced, whatever pids are used again; unless the
\* target had exited before the providers were enabled (its pid is in the
\* filter for good, and stands for whoever gets it).  Nothing of theirs is left
\* out but the stop events, as long as the cap on tracked pids has refused
\* nobody.  And the filter spends its places, never more than the cap, on
\* processes that run or whose stop event is still on its way.
FilterFollowsKin ==
    /\ last.emitted /\ ~rootGone => last.kin
    /\ last.kin /\ last.op # "stop" /\ ~capped => last.op = "none" \/ last.emitted
    /\ Cardinality(filter) <= MaxPids
    /\ traced /\ ~rootGone =>
           \A p \in filter \ alive : \E e \in Range(kernel) : e.op = "stop" /\ e.pid = p

\* An event about an object whose cache entry came from a create event is shown
\* under the name the file had then, if the event carries it, and under the name
\* that the object was opened under if not, however the seed and the callback
\* interleave and whatever was closed, opened again, renamed or dropped from the
\* cache: never under another file's name, nor that of an earlier owner of the
\* object's address.  (After a rename the cache still has the old name.)  The list
\* of the cache and its paths are about the same objects, each listed once, and no
\* more of them than the cap.
NamedPathIsRight ==
    /\ last.emitted /\ last.object \in named /\ last.op # "open"
           => last.shown = IF last.path = Closed THEN last.opened ELSE last.path
    /\ Range(cache.lru) = DOMAIN cache.paths
    /\ IsInjective(cache.lru)
    /\ Len(cache.lru) <= CacheCap
=============================================================================
