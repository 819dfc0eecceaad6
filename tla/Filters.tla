------------------------------ MODULE Filters ------------------------------
(***************************************************************************)
(* SelectSeq with a set in the place of its test, as a recursive function. *)
(***************************************************************************)
EXTENDS Integers, Sequences

\* The elements of q that are in K, in their order.
Filter(q, K) ==
    LET kept[i \in 0..Len(q)] ==
            IF i = 0 THEN <<>>
            ELSE IF q[i] \in K THEN Append(kept[i - 1], q[i])
            ELSE kept[i - 1]
    IN  kept[Len(q)]
=============================================================================
