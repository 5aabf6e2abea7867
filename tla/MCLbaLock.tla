------------------------------ MODULE MCLbaLock ------------------------------
(* LbaLock for TLC: words of two bits, so that ranges cross one or two word *)
(* boundaries and start inside a word.                                      *)
EXTENDS LbaLock, TLC

Symmetry == Permutations(Jobs)
=============================================================================
