---------------------------- MODULE SessionStore ----------------------------
(***************************************************************************)
(* What a reader of checkpoints sees of one session directory: windows are *)
(* offered and captured out of sight, then one step publishes a nonempty   *)
(* set of captured windows, and what is published never changes.  This is  *)
(* the promise iter_checkpoint_handles and TorchKnowledgeStore.load build  *)
(* on; LiveIndexer implements it.                                          *)
(***************************************************************************)
CONSTANT Windows

VARIABLES offered, captured, visible

storeVars == <<offered, captured, visible>>

Hidden == {}

Init == offered = {} /\ captured = {} /\ visible = Hidden

Offer(w) ==
  /\ visible = Hidden
  /\ offered' = offered \cup {w}
  /\ UNCHANGED <<captured, visible>>

Capture(w) ==
  /\ visible = Hidden
  /\ w \in offered
  /\ captured' = captured \cup {w}
  /\ UNCHANGED <<offered, visible>>

Publish ==
  /\ visible = Hidden
  /\ \E S \in SUBSET captured : S # {} /\ visible' = S
  /\ UNCHANGED <<offered, captured>>

Next == (\E w \in Windows : Offer(w) \/ Capture(w)) \/ Publish

Spec == Init /\ [][Next]_storeVars
=============================================================================
