----------------------------- MODULE MCSpoCycle -----------------------------
(* SpoCycle for TLC: one job on the whole namespace. *)
EXTENDS SpoCycle, TLC

CONSTANT j1

Symmetry == Permutations(Slots)
OneRange == [j \in {j1} |-> LBAs]
=============================================================================
