----------------------------- MODULE MCTaskLegs -----------------------------
(* Values of TaskLegs' constants for TLC.                                  *)
EXTENDS TaskLegs, TLC

Symmetry == Permutations(Tools) \cup Permutations(Updates)
=============================================================================
