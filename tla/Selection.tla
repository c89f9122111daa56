------------------------------ MODULE Selection ------------------------------
(***************************************************************************)
(* `filter` and `position` on a sequence, with a set for the test.  Keep is *)
(* SelectSeq as a function, which the provers can unfold: SelectSeq is a   *)
(* name to them.                                                           *)
(***************************************************************************)
EXTENDS Integers, SequencesExt

\* The elements of s that are in S, in their order.
Keep(s, S) ==
    LET kept[n \in 0..Len(s)] ==
            IF n = 0 THEN <<>>
            ELSE IF s[n] \in S THEN Append(kept[n - 1], s[n])
            ELSE kept[n - 1]
    IN  kept[Len(s)]

\* Where the first element of s is that is in S, 0 if none is.
FirstIn(s, S) == SelectInSeq(s, LAMBDA item : item \in S)
=============================================================================
