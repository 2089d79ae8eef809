----------------------------- MODULE MCDelivery -----------------------------
(***************************************************************************)
(* Two messages, and an inbox with room for both or, when tight holds, for  *)
(* one.                                                                    *)
(***************************************************************************)
EXTENDS Delivery, TLC

VARIABLE tight

Tight == INSTANCE Delivery WITH MaxSize <- 1

MCInit == Init /\ tight \in BOOLEAN

MCNext ==
  \/ ~tight /\ Next /\ UNCHANGED tight
  \/ tight /\ Tight!Next /\ UNCHANGED tight

MCSpec == MCInit /\ [][MCNext]_<<vars, tight>>

\* Messages differ only in their names.
MessageSymmetry == Permutations(Messages)
=============================================================================
