----------------------------- MODULE FencedStore -----------------------------
(***************************************************************************)
(* What the lease and its fencing promise to everything that reads the     *)
(* database: ownership moves through numbered epochs, and whatever is      *)
(* written to a target (an entity's rows, the status history) is written   *)
(* by the owner of the epoch that is current at that instant.  A target    *)
(* therefore never goes back to a write of an earlier epoch.               *)
(***************************************************************************)
EXTENDS Naturals

CONSTANT Target             \* what a fenced transaction can write

VARIABLES epoch,            \* number of acquisitions so far
          committed         \* per target, the epoch of its last writer

fencedVars == <<epoch, committed>>

Init ==
  /\ epoch = 0
  /\ committed = [t \in Target |-> 0]

\* A new owner is appointed: the previous one can write nothing from here on.
Advance ==
  /\ epoch' = epoch + 1
  /\ UNCHANGED committed

\* The current owner writes target t.
Write(t) ==
  /\ epoch > 0
  /\ committed' = [committed EXCEPT ![t] = epoch]
  /\ UNCHANGED epoch

Next ==
  \/ Advance
  \/ \E t \in Target : Write(t)

Spec == Init /\ [][Next]_fencedVars

=============================================================================
