-------------------------- MODULE MCControlClient --------------------------
(***************************************************************************)
(* Small instances of ControlClient.                                       *)
(***************************************************************************)
EXTENDS ControlClient
=============================================================================
