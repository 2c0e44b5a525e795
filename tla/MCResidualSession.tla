--------------------------- MODULE MCResidualSession ---------------------------
(* ResidualSession with requests of one explicit conversation, which may send  *)
(* any dialogue, or of none, and dialogues that begin alike.                   *)
EXTENDS ResidualSession, TLC

CONSTANTS w1, w2

Symmetric == Permutations(Workers) \cup Permutations(Dialogues)
=============================================================================
