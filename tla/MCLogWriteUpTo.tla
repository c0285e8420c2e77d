--------------------------- MODULE MCLogWriteUpTo ---------------------------
(* Instances of LogWriteUpTo for TLC.                                      *)
EXTENDS LogWriteUpToProofs, TLC

(* Threads are interchangeable, and so are callbacks.  Sound for safety    *)
(* properties only; the liveness run does not use it.                      *)
Symmetry == Permutations(Threads) \cup Permutations(Callbacks)
=============================================================================
