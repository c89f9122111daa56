-------------------------------- MODULE Pipe --------------------------------
(***************************************************************************)
(* What one direction of a relay promises.  A giver hands over items and   *)
(* may say that there are no more; a taker gets them in order, none twice, *)
(* none left out, and is told of the end only when it has got them all.    *)
(* It is not promised that the taker gets everything: a relay may be cut.  *)
(***************************************************************************)
EXTENDS SequencesExt

VARIABLES
    given,    \* the items handed over so far
    over,     \* the giver has said that there are no more
    taken,    \* the items the taker got
    ended     \* the taker was told that there are no more

pipe == <<given, over, taken, ended>>

PipeInit == given = <<>> /\ taken = <<>> /\ ~over /\ ~ended

Give ==
    /\ ~over /\ over' \in BOOLEAN
    /\ IsPrefix(given, given')
    /\ UNCHANGED <<taken, ended>>

Take ==
    /\ ~ended /\ UNCHANGED <<given, over, ended>>
    /\ IsStrictPrefix(taken, taken') /\ IsPrefix(taken', given)

End ==
    /\ over /\ taken = given /\ ended' = TRUE
    /\ UNCHANGED <<given, over, taken>>

PipeSpec == PipeInit /\ [][Give \/ Take \/ End]_pipe
=============================================================================
