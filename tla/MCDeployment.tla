---------------------------- MODULE MCDeployment ----------------------------
(***************************************************************************)
(* Instances of Deployment for TLC: every release built from a commit of   *)
(* its own, or two builds of the same commit.                              *)
(***************************************************************************)
EXTENDS Deployment, TLC

CONSTANTS r1, r2, c1, c2

Releases == {r1, r2}
Commits  == {c1, c2}

OwnCommit    == r1 :> c1 @@ r2 :> c2
SharedCommit == r1 :> c1 @@ r2 :> c1
=============================================================================
