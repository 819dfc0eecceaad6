--------------------------- MODULE MCStreamClient ---------------------------
(***************************************************************************)
(* Instances of StreamClient.  Events 2 and 3 carry one timestamp, so the  *)
(* boundary of a `since` request is shared by two ids; TLC accepts events  *)
(* in every order, older timestamps after newer ones too.                  *)
(***************************************************************************)
EXTENDS StreamClient

CONSTANTS s1, s2

SidOfDef == [v \in Event |-> IF v \in {1, 3, 4} THEN s1 ELSE s2]
HistoryDef == <<2>>
TsOfDef == [v \in Event |-> IF v < 3 THEN v ELSE 2]

=============================================================================
