-------------------------- MODULE StoreConnections --------------------------
(***************************************************************************)
(* The three SQLite connections of backend/app/store.py on one WAL file:   *)
(* `_conn`, which all request threads share under `_lock` for the session  *)
(* writes and for query_events; the writer thread's; and the retention     *)
(* thread's.  SQLite itself is external: one connection at a time holds    *)
(* the write lock; a statement that needs it waits for the busy timeout    *)
(* and then raises "database is locked"; a read inside an open transaction *)
(* pins a snapshot; a write from a snapshot that is no longer the newest   *)
(* raises at once.  Python's sqlite3 opens a deferred transaction before   *)
(* the first INSERT, UPDATE or DELETE and leaves it open when that         *)
(* statement raises; no method of the store rolls `_conn` back.            *)
(***************************************************************************)
CONSTANTS Session,     \* session ids
          Request,     \* request threads (and the event loop)
          Nobody,      \* no lock holder
          Slow         \* connections whose transaction can outlast the busy timeout

Connection == {"shared", "writer", "retention"}

ASSUME ConnectionAssumption ==
    /\ Nobody \notin Request \union Connection
    /\ Slow \subseteq Connection \ {"shared"}

VARIABLES
    lock,       \* `_lock`: the request thread that holds it
    pc,         \* per request thread: its next step
    op,         \* per request thread: "create", "mark", "purge" or "query"
    sid,        \* per request thread: the session it works on
    memory,     \* keys of `_sessions`
    disk,       \* committed rows of table sessions
    born,       \* history: ids drawn
    holder,     \* the connection that holds SQLite's write lock
    open,       \* is a transaction open on `_conn`?
    snapshot,   \* what that transaction reads: "none" pinned, the "newest"
                \* commit, or an "old" one
    oldAtCall,  \* history: was the snapshot old already when the call was made?
    missed,     \* history: the last query did not see what was committed before it
    raised      \* history: sessions some request was answered with an error for

request == <<pc, op, sid>>
queried == <<oldAtCall, missed>>
content == <<memory, disk, born>>
connectionVars == <<lock, pc, op, sid, memory, disk, born, holder, open, snapshot,
          oldAtCall, missed, raised>>

Op == {"create", "mark", "purge", "query"}

ConnectionsTypeOK ==
    /\ lock \in Request \union {Nobody}
    /\ pc \in [Request -> {"idle", "enter", "execute", "commit"}]
    /\ op \in [Request -> Op]
    /\ sid \in [Request -> Session]
    /\ memory \in SUBSET Session
    /\ disk \in SUBSET Session
    /\ born \in SUBSET Session
    /\ holder \in Connection \union {Nobody}
    /\ open \in BOOLEAN
    /\ snapshot \in {"none", "newest", "old"}
    /\ snapshot # "none" => open
    /\ oldAtCall \in [Request -> BOOLEAN]
    /\ missed \in [Request -> BOOLEAN]
    /\ raised \in SUBSET Session

ConnectionsInit ==
    /\ lock = Nobody
    /\ pc = [r \in Request |-> "idle"]
    /\ op = [r \in Request |-> "query"]
    /\ \E s \in Session : sid = [r \in Request |-> s]
    /\ memory = {}
    /\ disk = {}
    /\ born = {}
    /\ holder = Nobody
    /\ open = FALSE
    /\ snapshot = "none"
    /\ oldAtCall = [r \in Request |-> FALSE]
    /\ missed = [r \in Request |-> FALSE]
    /\ raised = {}

-----------------------------------------------------------------------------
(* SQLite: when a statement of connection c gets the write lock, and when  *)
(* one of `_conn` raises.  A snapshot others have committed past cannot be *)
(* upgraded.                                                               *)

MayWrite(c) == holder = Nobody /\ (c = "shared" => snapshot # "old")

TimesOut == holder \in Slow \/ snapshot = "old"

\* What `op` does to a set of session ids, in memory or on disk.
Applied(o, s, S) == CASE o = "create" -> S \union {s}
                      [] o = "purge" -> S \ {s}
                      [] OTHER -> S

Return(r) == pc' = [pc EXCEPT ![r] = "idle"] /\ lock' = Nobody

-----------------------------------------------------------------------------
(* Mutants.                                                                *)

\* A failed statement of `_conn` keeps the write lock.
ExecuteFailHolds(r) ==
    /\ pc[r] = "execute"
    /\ op[r] # "query"
    /\ TimesOut
    /\ open' = TRUE
    /\ holder' = "shared"
    /\ raised' = raised \union {sid[r]}
    /\ Return(r)
    /\ UNCHANGED <<op, sid, content, snapshot, queried>>

\* The error is swallowed and the request is answered as if it had worked.
ExecuteFailSilent(r) ==
    /\ pc[r] = "execute"
    /\ op[r] # "query"
    /\ TimesOut
    /\ open' = TRUE
    /\ Return(r)
    /\ UNCHANGED <<op, sid, content, holder, snapshot, queried, raised>>

\* The exception leaves the method without giving `_lock` back.
ExecuteFailKeepsMutex(r) ==
    /\ pc[r] = "execute"
    /\ op[r] # "query"
    /\ TimesOut
    /\ open' = TRUE
    /\ raised' = raised \union {sid[r]}
    /\ pc' = [pc EXCEPT ![r] = "idle"]
    /\ UNCHANGED <<lock, op, sid, content, holder, snapshot, queried>>

-----------------------------------------------------------------------------
(* Request threads: create, mark_session_status, purge_session and         *)
(* query_events, each inside `with self._lock`.                            *)

Call(r, o, s) ==
    /\ pc[r] = "idle"
    /\ IF o = "create" THEN s \notin born ELSE s \in memory
    /\ pc' = [pc EXCEPT ![r] = "enter"]
    /\ op' = [op EXCEPT ![r] = o]
    /\ sid' = [sid EXCEPT ![r] = s]
    /\ born' = born \union {s}
    /\ oldAtCall' = [oldAtCall EXCEPT ![r] = snapshot = "old"]
    /\ missed' = [missed EXCEPT ![r] = FALSE]
    /\ UNCHANGED <<lock, memory, disk, holder, open, snapshot, raised>>

\* The lock is taken and memory changed before the statement runs.
Enter(r) ==
    /\ pc[r] = "enter"
    /\ lock = Nobody
    /\ lock' = r
    /\ pc' = [pc EXCEPT ![r] = "execute"]
    /\ memory' = Applied(op[r], sid[r], memory)
    /\ UNCHANGED <<op, sid, disk, born, holder, open, snapshot, queried,
                   raised>>

ExecuteWrite(r) ==
    /\ pc[r] = "execute"
    /\ op[r] # "query"
    /\ MayWrite("shared")
    /\ holder' = "shared"
    /\ open' = TRUE
    /\ pc' = [pc EXCEPT ![r] = "commit"]
    /\ UNCHANGED <<lock, op, sid, content, snapshot, queried, raised>>

\* "database is locked": the request ends with an error, the transaction
\* opened for the statement stays open, and memory keeps the change.
ExecuteFail(r) ==
    /\ pc[r] = "execute"
    /\ op[r] # "query"
    /\ TimesOut
    /\ open' = TRUE
    /\ raised' = raised \union {sid[r]}
    /\ Return(r)
    /\ UNCHANGED <<op, sid, content, holder, snapshot, queried>>

Commit(r) ==
    /\ pc[r] = "commit"
    /\ disk' = Applied(op[r], sid[r], disk)
    /\ holder' = Nobody
    /\ open' = FALSE
    /\ snapshot' = "none"
    /\ Return(r)
    /\ UNCHANGED <<op, sid, memory, born, queried, raised>>

\* A SELECT outside a transaction sees the newest commit; inside one it sees
\* the transaction's snapshot, and pins it if it is the first.
Query(r) ==
    /\ pc[r] = "execute"
    /\ op[r] = "query"
    /\ missed' = [missed EXCEPT ![r] = oldAtCall[r] /\ snapshot = "old"]
    /\ snapshot' = IF open /\ snapshot = "none" THEN "newest" ELSE snapshot
    /\ Return(r)
    /\ UNCHANGED <<op, sid, content, holder, open, oldAtCall, raised>>

-----------------------------------------------------------------------------
(* The writer's `with conn: executemany` and the retention sweep: both     *)
(* hold the write lock for the length of a transaction.  One that times    *)
(* out itself has changed nothing here (SessionStore has its batch fail).  *)

Background == Connection \ {"shared"}

Acquire(c) ==
    /\ MayWrite(c)
    /\ holder' = c
    /\ UNCHANGED <<lock, request, content, open, snapshot, queried, raised>>

Release(c) ==
    /\ holder = c
    /\ holder' = Nobody
    /\ snapshot' = IF snapshot = "newest" THEN "old" ELSE snapshot
    /\ UNCHANGED <<lock, request, content, open, queried, raised>>

Answer(r) == ExecuteWrite(r) \/ ExecuteFail(r) \/ Commit(r) \/ Query(r)

ConnectionsNext ==
    \/ \E r \in Request :
          \/ \E o \in Op, s \in Session : Call(r, o, s)
          \/ Enter(r)
          \/ Answer(r)
    \/ \E c \in Background : Acquire(c) \/ Release(c)

ConnectionsSpec == ConnectionsInit /\ [][ConnectionsNext]_connectionVars

\* A thread that waits for `_lock` gets it when it is free often enough; one
\* that waits for SQLite polls until the lock is free or the timeout is over;
\* a background transaction ends.
ConnectionsFairSpec ==
    /\ ConnectionsSpec
    /\ \A r \in Request : SF_connectionVars(Enter(r)) /\ SF_connectionVars(Answer(r))
    /\ \A c \in Background : WF_connectionVars(Release(c))

-----------------------------------------------------------------------------
(* Properties.                                                             *)

\* `_conn` holds SQLite's write lock only inside the method that took it: a
\* statement that raised does not stop the writer and the sweeps for good.
WriteLockIsReturned ==
    /\ ConnectionsTypeOK
    /\ holder = "shared" => \E r \in Request : pc[r] = "commit"

\* Memory, disk and what queries see differ only after a request was told of an
\* error.  A session whose requests were all answered without one is in memory
\* exactly when it is on disk, once no request is working on it; and until a
\* statement of `_conn` has raised, query_events misses nothing that was
\* committed before it was called.
DivergenceIsReported ==
    /\ \A s \in Session :
           \/ s \in raised
           \/ \E r \in Request : pc[r] # "idle" /\ sid[r] = s
           \/ s \in memory <=> s \in disk
    /\ (\E r \in Request : missed[r]) => raised # {}

\* Every request is answered, with a result or an error.
RequestsEnd == \A r \in Request : pc[r] = "enter" ~> pc[r] = "idle"
=============================================================================
