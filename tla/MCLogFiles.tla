----------------------------- MODULE MCLogFiles -----------------------------
(***************************************************************************)
(* The instance of LogFiles that TLC checks: the lengths of the lines, and *)
(* their keys, of which the second and the third line have the same one.   *)
(***************************************************************************)
EXTENDS LogFiles

LenOfDef == <<2, 2, 2, 2, 2>>
KeyOfDef == [item \in Item |-> IF item = Torn THEN 0 ELSE IF item < 3 THEN item ELSE item - 1]

=============================================================================
