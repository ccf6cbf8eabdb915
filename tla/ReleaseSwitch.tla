---------------------------- MODULE ReleaseSwitch ----------------------------
(***************************************************************************)
(* What the deployment tool promises: the host has one installed release,  *)
(* and an opened transaction ends with either the release that was         *)
(* installed before or one other release, whole.                           *)
(***************************************************************************)
CONSTANTS
  Release,  \* the releases that can be installed
  First     \* the one installed before the tool is first used

VARIABLES
  installed,  \* release the unit, its copy and the SPA pointer agree on
  open        \* a transaction is open: the files may be between releases

vars == <<installed, open>>

Init == installed = First /\ open = FALSE

Begin == ~open /\ open' = TRUE /\ UNCHANGED installed

Close == open /\ open' = FALSE /\ installed' \in Release

Next == Begin \/ Close

Spec == Init /\ [][Next]_vars /\ WF_vars(Close)
=============================================================================
