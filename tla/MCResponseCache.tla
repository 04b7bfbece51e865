--------------------------- MODULE MCResponseCache ---------------------------
(* Two entities, read one after the other, and two requests, of which the    *)
(* second waits for the first, finds what it stored, or comes too early.     *)
EXTENDS ResponseCache
=============================================================================
