---------------------------- MODULE MCBoxService ----------------------------
(* Model values for BoxService and BoxRefinement. *)
EXTENDS BoxRefinement, TLC

CONSTANTS b1, b2, s1, s2, s3, r1, r2

OneBox == {b1}
TwoBoxes == {b1, b2}
OneSandbox == {s1}
TwoSandboxes == {s1, s2}
ThreeSandboxes == {s1, s2, s3}
OneConnection == {r1}
TwoConnections == {r1, r2}
OneSize == {1}
TwoSizes == {1, 2}

Symmetry == Permutations(Sandboxes) \cup Permutations(Reqs)
=============================================================================
