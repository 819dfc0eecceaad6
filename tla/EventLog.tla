------------------------------ MODULE EventLog ------------------------------
(***************************************************************************)
(* What the tracker's storage layer promises of one event, without the     *)
(* hand-off queue, the writer thread or SQLite: an accepted event is       *)
(* pending until a whole group of pending events is either stored or       *)
(* discarded, and what is stored belongs to a session that has a row.      *)
(* SessionStore is shown to implement this specification.                  *)
(***************************************************************************)
CONSTANTS Session,   \* session ids (uuid4, never drawn twice)
          Event,     \* event ids (uuid4, never drawn twice)
          SidOf,     \* the session each event names
          MayFail    \* may a group be given up without one of its own at fault?

VARIABLES used,      \* events accepted so far
          pending,   \* accepted, not yet decided
          stored,    \* durable events
          rows       \* sessions that have a durable row

logVars == <<used, pending, stored, rows>>

Init == /\ used = {}
        /\ pending = {}
        /\ stored = {}
        /\ rows = {}

Accept(e) ==
    /\ e \notin used
    /\ used' = used \union {e}
    /\ pending' = pending \union {e}
    /\ UNCHANGED <<stored, rows>>

\* A group is stored as a whole, and only if every session in it has a row.
Store(B) ==
    /\ B # {}
    /\ \A e \in B : SidOf[e] \in rows
    /\ pending' = pending \ B
    /\ stored' = stored \union B
    /\ UNCHANGED <<used, rows>>

\* A group is given up as a whole, when one of it names a session without a
\* row, or for a failure outside the log.
Discard(B) ==
    /\ B # {}
    /\ MayFail \/ \E e \in B : SidOf[e] \notin rows
    /\ pending' = pending \ B
    /\ UNCHANGED <<used, stored, rows>>

Admit(s) ==
    /\ rows' = rows \union {s}
    /\ UNCHANGED <<used, pending, stored>>

\* Deleting rows takes their stored events along; pending ones stay pending.
Remove(S) ==
    /\ rows' = rows \ S
    /\ stored' = {e \in stored : SidOf[e] \notin S}
    /\ UNCHANGED <<used, pending>>

Expire(E) ==
    /\ stored' = stored \ E
    /\ UNCHANGED <<used, pending, rows>>

\* A process that ends takes the pending events with it and nothing else.
Crash ==
    /\ pending' = {}
    /\ UNCHANGED <<used, stored, rows>>

Next ==
    \/ \E e \in Event : Accept(e)
    \/ \E B \in SUBSET pending : Store(B) \/ Discard(B)
    \/ \E s \in Session : Admit(s)
    \/ \E S \in SUBSET rows : Remove(S)
    \/ \E E \in SUBSET stored : Expire(E)
    \/ Crash

Spec == Init /\ [][Next]_logVars

=============================================================================
