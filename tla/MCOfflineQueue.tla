--------------------------- MODULE MCOfflineQueue ---------------------------
(***************************************************************************)
(* Small instances of OfflineQueue.  Handlers are interchangeable, so the  *)
(* safety run uses their permutations as symmetry.                         *)
(***************************************************************************)
EXTENDS OfflineQueue, TLC

Symmetry == Permutations(Handlers)
=============================================================================
