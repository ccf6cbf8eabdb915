---------------------------- MODULE MCSafeguards ----------------------------
(***************************************************************************)
(* An instance of Safeguards for TLC: one API server and one run of the    *)
(* CLI at a time.                                                          *)
(***************************************************************************)
EXTENDS Safeguards

CONSTANTS api, cli
=============================================================================
