-------------------------- MODULE MCControlProcess --------------------------
(* One request of each kind, next to the startup worker. *)
EXTENDS ControlProcess
=============================================================================
