--------------------------- MODULE PublishedRegion ---------------------------
(***************************************************************************)
(* What the sync of a region promises to whoever reads it: while the       *)
(* latest status of the region is success (it is being served) its stored  *)
(* records do not change.  A sync takes the region out of service first,   *)
(* then changes the records, then puts it back.                            *)
(***************************************************************************)
CONSTANTS Records,    \* what the store can hold for the region
          Empty       \* before the first sync

VARIABLES serving,    \* the latest status row is a success
          records     \* what the store holds

regionVars == <<serving, records>>

Init ==
  /\ serving = FALSE
  /\ records = Empty

Withdraw ==
  /\ serving' = FALSE
  /\ UNCHANGED records

Change ==
  /\ ~serving
  /\ records' \in Records
  /\ UNCHANGED serving

Publish ==
  /\ serving' = TRUE
  /\ UNCHANGED records

Next == Withdraw \/ Change \/ Publish

Spec == Init /\ [][Next]_regionVars

=============================================================================
