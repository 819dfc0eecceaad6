---------------------------- MODULE MCLiveStream ----------------------------
(* Two events with different timestamps; ring and subscriber queues of one, *)
(* so that eviction and overflow both happen.                              *)
EXTENDS LiveStream, TLC

CONSTANTS e1, e2, c1, c2

MCTsOf == [e \in Event |-> IF e = e2 THEN 2 ELSE 1]

=============================================================================
