----------------------------- MODULE SharedModel -----------------------------
(***************************************************************************)
(* The one model object of a chat process, and who runs forwards on it:    *)
(* the chat thread, which decodes replies (sometimes with the injection    *)
(* hook of _vec_inject_turn registered), and the daemon of every           *)
(* LiveIndexer that is still alive, which captures windows with            *)
(* capture_post_crystal_boundary.  Hooks are registered on the layers, not *)
(* on a forward: every forward that passes a layer runs what it finds.     *)
(*                                                                         *)
(* A forward calls the layers 0..LastLayer one after the other; the call   *)
(* of one layer, with its hooks, is one step.                              *)
(***************************************************************************)
EXTENDS Naturals, FiniteSets

CONSTANTS
  Daemons,         \* the indexer daemons that share the model
  Chat,            \* the chat thread
  Nothing,         \* no tensor, no forward
  LastLayer,       \* the layers are 0..LastLayer
  CrystalLayer,    \* the layer a capture hooks
  InjectionLayer,  \* the layer _vec_inject_turn hooks
  MaxCaptures,     \* bound: captures
  MaxForwards      \* bound: forwards of the chat thread

ASSUME ModelAssumption ==
  /\ Chat \notin Daemons /\ Nothing \notin Daemons \cup {Chat}
  /\ LastLayer \in Nat
  /\ CrystalLayer \in 0..LastLayer /\ InjectionLayer \in 0..LastLayer
  /\ MaxCaptures \in Nat /\ MaxForwards \in Nat

Threads == Daemons \cup {Chat}
Idle    == LastLayer + 1

\* A hidden state, by the forward it is of and whether it was injected into.
Tensor == [of : Threads, injected : BOOLEAN]

ASSUME TensorAssumption == Nothing \notin Tensor

VARIABLES
  semaphore,    \* per daemon, the permits of its _forward_semaphore
  phase,        \* per daemon: "idle", "acquired", "forward", "failed", "write"
  hooks,        \* daemons whose _hook is in layers[CrystalLayer]'s hooks
  turn,         \* the chat thread is in a turn
  prehook,      \* _vec_inject_turn's _pre_hook is on layers[InjectionLayer]
  at,           \* per thread, the next layer of its forward, or Idle
  injected,     \* per thread, its forward's hidden state has the injection
  captured,     \* per daemon, captured["tensor"]: whose hidden state it is
  \* history
  disturbed,    \* daemons whose capture overlapped a forward or an injection
  stored,       \* boundaries persisted: [by, of, injected, disturbed]
  captures, forwards

vars == <<semaphore, phase, hooks, turn, prehook, at, injected, captured,
          disturbed, stored, captures, forwards>>

Init ==
  /\ semaphore = [d \in Daemons |-> 1]
  /\ phase = [d \in Daemons |-> "idle"]
  /\ hooks = {}
  /\ turn = FALSE /\ prehook = FALSE
  /\ at = [t \in Threads |-> Idle]
  /\ injected = [t \in Threads |-> FALSE]
  /\ captured = [d \in Daemons |-> Nothing]
  /\ disturbed = {} /\ stored = {}
  /\ captures = 0 /\ forwards = 0

-----------------------------------------------------------------------------
(* A forward.                                                              *)

\* The hooks registered now see the forward of t leave the crystal layer.
HooksSee(t, tainted) ==
  captured' = [d \in Daemons |->
                 IF d \in hooks THEN [of |-> t, injected |-> tainted] ELSE captured[d]]

\* Thread t calls its next layer: pre-hooks, the layer, then its hooks.
Layer(t) ==
  /\ at[t] # Idle
  /\ LET tainted == injected[t] \/ (prehook /\ at[t] = InjectionLayer) IN
       /\ injected' = [injected EXCEPT ![t] = tainted]
       /\ IF at[t] = CrystalLayer
            THEN HooksSee(t, tainted)
            ELSE UNCHANGED captured
  /\ at' = [at EXCEPT ![t] = @ + 1]
  /\ disturbed' = disturbed \cup {d \in hooks : d # t}
  /\ UNCHANGED <<semaphore, phase, hooks, turn, prehook, stored, captures, forwards>>

\* Mutant: the exception of a capture's forward is swallowed.
RaiseSwallowed(t) ==
  /\ at[t] # Idle
  /\ at' = [at EXCEPT ![t] = Idle]
  /\ injected' = [injected EXCEPT ![t] = FALSE]
  /\ UNCHANGED <<semaphore, phase, hooks, turn, prehook, captured, disturbed, stored,
                 captures, forwards>>

\* The forward of t raises (out of memory) before its next layer.
Raise(t) ==
  /\ at[t] # Idle
  /\ at' = [at EXCEPT ![t] = Idle]
  /\ injected' = [injected EXCEPT ![t] = FALSE]
  /\ phase' = IF t = Chat THEN phase ELSE [phase EXCEPT ![t] = "failed"]
  /\ UNCHANGED <<semaphore, hooks, turn, prehook, captured, disturbed, stored,
                 captures, forwards>>

-----------------------------------------------------------------------------
(* A daemon: _process_one and capture_post_crystal_boundary.               *)

\* Each LiveIndexer makes its own Semaphore(1) unless it is given one, and
\* _make_live_indexer gives it none.
Acquire(d) ==
  /\ phase[d] = "idle" /\ semaphore[d] > 0 /\ captures < MaxCaptures
  /\ captures' = captures + 1
  /\ semaphore' = [semaphore EXCEPT ![d] = @ - 1]
  /\ phase' = [phase EXCEPT ![d] = "acquired"]
  /\ UNCHANGED <<hooks, turn, prehook, at, injected, captured, disturbed, stored,
                 forwards>>

\* register_forward_hook, then the forward begins.
Register(d) ==
  /\ phase[d] = "acquired"
  /\ captured' = [captured EXCEPT ![d] = Nothing]
  /\ hooks' = hooks \cup {d}
  /\ disturbed' = IF turn /\ prehook THEN disturbed \cup {d} ELSE disturbed \ {d}
  /\ at' = [at EXCEPT ![d] = 0]
  /\ phase' = [phase EXCEPT ![d] = "forward"]
  /\ UNCHANGED <<semaphore, turn, prehook, injected, stored, captures, forwards>>

\* Mutant: no `finally`: the hook of a capture that raised stays.
RemoveUnlessFailed(d) ==
  /\ phase[d] = "failed" \/ (phase[d] = "forward" /\ at[d] = Idle)
  /\ hooks' = IF phase[d] = "failed" THEN hooks ELSE hooks \ {d}
  /\ injected' = [injected EXCEPT ![d] = FALSE]
  /\ semaphore' = [semaphore EXCEPT ![d] = @ + 1]
  /\ phase' = [phase EXCEPT ![d] = IF phase[d] = "failed" THEN "idle" ELSE "write"]
  /\ UNCHANGED <<turn, prehook, at, captured, disturbed, stored, captures, forwards>>

\* handle.remove() in the finally, then the semaphore is released.  A capture
\* that raised leaves the daemon through _failed_q.
Remove(d) ==
  /\ phase[d] = "failed" \/ (phase[d] = "forward" /\ at[d] = Idle)
  /\ hooks' = hooks \ {d}
  /\ injected' = [injected EXCEPT ![d] = FALSE]
  /\ semaphore' = [semaphore EXCEPT ![d] = @ + 1]
  /\ phase' = [phase EXCEPT ![d] = IF phase[d] = "failed" THEN "idle" ELSE "write"]
  /\ UNCHANGED <<turn, prehook, at, captured, disturbed, stored, captures, forwards>>

\* _write_boundary and _write_residual_stream.
Write(d) ==
  /\ phase[d] = "write"
  /\ stored' = stored \cup {[by |-> d, tensor |-> captured[d],
                             disturbed |-> d \in disturbed]}
  /\ phase' = [phase EXCEPT ![d] = "idle"]
  /\ UNCHANGED <<semaphore, hooks, turn, prehook, at, injected, captured, disturbed,
                 captures, forwards>>

-----------------------------------------------------------------------------
(* The chat thread: plain_chat_turn and _vec_inject_turn.                  *)

\* A turn begins; under memory_mode vec_inject with a confident match it first
\* registers its pre-hook.  plain_chat_turn enqueues the user's window itself.
BeginTurn ==
  /\ ~turn
  /\ turn' = TRUE
  /\ prehook' \in BOOLEAN
  /\ disturbed' = IF prehook' THEN disturbed \cup hooks ELSE disturbed
  /\ UNCHANGED <<semaphore, phase, hooks, at, injected, captured, stored, captures,
                 forwards>>

\* model.generate: the prefill and each decode step is one forward, and takes
\* no semaphore.
Decode ==
  /\ turn /\ at[Chat] = Idle /\ forwards < MaxForwards
  /\ forwards' = forwards + 1
  /\ at' = [at EXCEPT ![Chat] = 0]
  /\ injected' = [injected EXCEPT ![Chat] = FALSE]
  /\ UNCHANGED <<semaphore, phase, hooks, turn, prehook, captured, disturbed, stored,
                 captures>>

\* Mutant: hook_handle.remove() is not reached.
EndTurnKeepingHook ==
  /\ turn /\ at[Chat] = Idle
  /\ turn' = FALSE
  /\ UNCHANGED <<semaphore, phase, hooks, prehook, at, injected, captured, disturbed,
                 stored, captures, forwards>>

\* The turn returns or raises; the finally removes the pre-hook.
EndTurn ==
  /\ turn /\ at[Chat] = Idle
  /\ turn' = FALSE
  /\ prehook' = FALSE
  /\ UNCHANGED <<semaphore, phase, hooks, at, injected, captured, disturbed, stored,
                 captures, forwards>>

DaemonStep(d) == Acquire(d) \/ Register(d) \/ Remove(d) \/ Write(d)
ChatStep      == BeginTurn \/ Decode \/ EndTurn

Next ==
  \/ \E t \in Threads : Layer(t) \/ Raise(t)
  \/ \E d \in Daemons : DaemonStep(d)
  \/ ChatStep

Spec == Init /\ [][Next]_vars

-----------------------------------------------------------------------------

\* Every variable has its type.
TypeOK ==
  /\ semaphore \in [Daemons -> 0..1]
  /\ phase \in [Daemons -> {"idle", "acquired", "forward", "failed", "write"}]
  /\ hooks \subseteq Daemons
  /\ turn \in BOOLEAN /\ prehook \in BOOLEAN
  /\ at \in [Threads -> 0..Idle]
  /\ injected \in [Threads -> BOOLEAN]
  /\ captured \in [Daemons -> Tensor \cup {Nothing}]
  /\ disturbed \subseteq Daemons
  /\ stored \subseteq
       [by : Daemons, tensor : Tensor \cup {Nothing}, disturbed : BOOLEAN]
  /\ captures \in 0..MaxCaptures /\ forwards \in 0..MaxForwards

\* Whatever raises, no hook outlives the call that registered it.
HooksAreScoped ==
  /\ \A d \in hooks : phase[d] \in {"forward", "failed"} /\ semaphore[d] = 0
  /\ prehook => turn

\* A capture that nothing overlapped stores its own window's boundary, free
\* of any injection, whatever failed or was injected before it.
QuietCapturesAreFaithful ==
  \A s \in stored :
    ~s.disturbed => s.tensor = [of |-> s.by, injected |-> FALSE]

\* A capture that did not raise has a tensor to store: the "Failed to capture
\* boundary" branch is dead.
CapturesAreNeverEmpty == \A s \in stored : s.tensor # Nothing

\* A daemon's phase, its semaphore, its hook and its forward go together.
PhaseInv ==
  \A d \in Daemons :
    /\ d \in hooks <=> phase[d] \in {"forward", "failed"}
    /\ semaphore[d] = 0 <=> phase[d] \in {"acquired", "forward", "failed"}
    /\ phase[d] # "forward" => at[d] = Idle
    /\ phase[d] \notin {"forward", "failed"} => ~injected[d]

\* What a capture holds, by how far its own forward has come and by whether
\* anything disturbed it.
CapturedInv ==
  \A d \in Daemons :
    /\ phase[d] = "forward" /\ at[d] > CrystalLayer => captured[d] # Nothing
    /\ phase[d] = "write" => captured[d] # Nothing
    /\ d \in hooks \ disturbed =>
         /\ ~prehook /\ ~injected[d]
         /\ captured[d] \in {Nothing, [of |-> d, injected |-> FALSE]}
    /\ phase[d] = "write" /\ d \notin disturbed =>
         captured[d] = [of |-> d, injected |-> FALSE]

\* The inductive invariant of the proofs: the conjunction of the parts above.
IInv ==
  /\ TypeOK /\ HooksAreScoped /\ PhaseInv /\ CapturedInv
  /\ QuietCapturesAreFaithful /\ CapturesAreNeverEmpty

\* Claim of capture_post_crystal_boundary: it returns the boundary of the
\* token window it was given.
BoundaryIsOfItsWindow == \A s \in stored : s.tensor # Nothing => s.tensor.of = s.by

\* Claim of the module's concurrency section: decode and capture forwards
\* never interleave.
ForwardsNeverInterleave ==
  \A d \in Daemons : ~(at[Chat] # Idle /\ at[d] # Idle)
=============================================================================
