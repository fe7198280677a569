---------------------------- MODULE MCIpcQueue ----------------------------
(* IpcQueue for TLC: the permutations under which its states are alike.    *)
EXTENDS IpcQueue, TLC

Symmetry == Permutations(Threads) \cup Permutations(Buffers)
=============================================================================
