--------------------------- MODULE MCSessionStore ---------------------------
(* Two sessions, two events of the first and one of the second.            *)
EXTENDS SessionStore, TLC

CONSTANTS s1, s2, e1, e2, e3, t1, t2, f1

MCSession == {s1, s2}
MCSidOf == [e \in Event |-> IF e = e2 THEN s2 ELSE s1]
MCThreads == Permutations({t1, t2})

=============================================================================
