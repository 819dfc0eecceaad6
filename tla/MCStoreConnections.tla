------------------------- MODULE MCStoreConnections -------------------------
(* Two request threads over two sessions.                                  *)
EXTENDS StoreConnections

CONSTANTS s1, s2, r1, r2


=============================================================================
