------------------------------- MODULE MCIover -------------------------------
(* Iover for TLC. *)
EXTENDS Iover, TLC

(* The bios of a pool are interchangeable. *)
Symmetry == Permutations(Slots)

CONSTANTS j1, j2

(* One job on the whole namespace; two jobs on the halves of it, as        *)
(* scripts/io/5.mt_mixed/parameter configures them.                        *)
OneJob == [j \in {j1} |-> LBAs]
TwoJobs == [j \in {j1, j2} |-> {l \in LBAs : (l < NLbas \div 2) = (j = j1)}]
=============================================================================
