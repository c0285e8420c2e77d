--------------------------- MODULE MCGroupCommit ---------------------------
(* Instances of GroupCommit for TLC; the configurations give the sets.     *)
EXTENDS GroupCommit

CONSTANT u1
=============================================================================
