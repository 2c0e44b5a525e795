--------------------------- MODULE MCLiveIndexer ---------------------------
(* Model values for the run of LiveIndexer. *)
EXTENDS LiveIndexer

CONSTANTS w1, w2

TwoWindows == {w1, w2}
Sometimes == BOOLEAN
=============================================================================
