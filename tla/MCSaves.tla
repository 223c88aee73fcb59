------------------------------ MODULE MCSaves ------------------------------
(* Saves, with a World, a player and two workers.                          *)
EXTENDS Saves, TLC

(* The workers are alike: sound where no fairness tells them apart.        *)
Alike == Permutations(Workers)
=============================================================================
