---------------------------- MODULE MCRegionSync ----------------------------
(* A short history of one source repository with two entity files:         *)
(* c2 changes nothing the API serves, c3 changes one file and removes the  *)
(* other, c4 brings both back and has no manifest, c5 reverts c3.            *)
EXTENDS RegionSync, TLC

CONSTANTS c1, c2, c3, c4, c5, e1, e2, m1, m3, m4, a, b

Files(x, y) == (e1 :> x) @@ (e2 :> y)

MCData ==
  (c1 :> Files(a, a)) @@ (c2 :> Files(a, a)) @@ (c3 :> Files(b, Absent))
  @@ (c4 :> Files(a, b)) @@ (c5 :> Files(a, a))

MCManifest ==
  (c1 :> m1) @@ (c2 :> m1) @@ (c3 :> m3) @@ (c4 :> NoVersion) @@ (c5 :> m1)

\* The ref only moves on to commits with contents of their own.
Forward == {<<c1, c2>>, <<c1, c3>>, <<c2, c3>>, <<c3, c4>>}

\* As before, and c5 reverts c3.
WithRevert == Forward \cup {<<c3, c5>>}

\* Which of the two histories only goes forward.
Age == (c5 :> 0) @@ (c1 :> 1) @@ (c2 :> 2) @@ (c3 :> 3) @@ (c4 :> 4)
ASSUME HistoriesDiffer == ForwardHistory(Age) <=> Follows = Forward

NoneLost == {}
AllButRunning == State \ {"running"}
=============================================================================
