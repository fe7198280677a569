----------------------------- MODULE MCClientRx -----------------------------
(* ClientRx for TLC: the permutations under which its states are alike.    *)
EXTENDS ClientRx, TLC

Symmetry == Permutations(Rbs)
=============================================================================
