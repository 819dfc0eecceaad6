------------------------- MODULE MCSessionLifecycle -------------------------
(* Two sessions and two handler threads that may meet on one of them.      *)
EXTENDS SessionLifecycle

CONSTANTS s1, s2, h1, h2


=============================================================================
