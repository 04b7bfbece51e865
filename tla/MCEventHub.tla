----------------------------- MODULE MCEventHub -----------------------------
(* Two workers and two clients; the eight events a channel holds are scaled  *)
(* down to one, so that it is full after a single send.                      *)
EXTENDS EventHub
=============================================================================
