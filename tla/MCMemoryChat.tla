---------------------------- MODULE MCMemoryChat ----------------------------
(* vec_inject takes the branch of a topical search without a candidate.     *)
EXTENDS MemoryChat
AllModes == {"auto", "topical", "off"}
=============================================================================
