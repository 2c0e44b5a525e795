---------------------------- MODULE MCSharedModel ----------------------------
(* Two indexers alive on one model, as after /new while a flush timed out.  *)
EXTENDS SharedModel, TLC
CONSTANTS d1, d2
MCDaemons == {d1, d2}
Symmetry == Permutations(MCDaemons)
=============================================================================
