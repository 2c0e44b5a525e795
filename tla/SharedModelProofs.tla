-------------------------- MODULE SharedModelProofs --------------------------
(***************************************************************************)
(* For every set of daemons, every layer layout and any number of captures *)
(* and forwards: hooks never outlive their call, and a capture nothing     *)
(* overlapped stores its own window's boundary.                            *)
(***************************************************************************)
EXTENDS SharedModel, TLAPS

USE ModelAssumption, TensorAssumption DEF Threads, Idle, Tensor

\* A hidden state is not the absent one.
LEMMA SeenIsATensor ==
  ASSUME NEW t \in Threads, NEW b \in BOOLEAN
  PROVE  /\ [of |-> t, injected |-> b] \in Tensor
         /\ [of |-> t, injected |-> b] # Nothing
  OBVIOUS

\* The initial state satisfies the invariant.
LEMMA InitInv == Init => IInv
<1> SUFFICES ASSUME Init PROVE IInv
  OBVIOUS
<1> USE DEF Init
<1>1. TypeOK
  <2>1. /\ semaphore \in [Daemons -> 0..1]
        /\ phase \in [Daemons -> {"idle", "acquired", "forward", "failed", "write"}]
        /\ injected \in [Threads -> BOOLEAN]
        /\ captured \in [Daemons -> Tensor \cup {Nothing}]
    OBVIOUS
  <2>2. at \in [Threads -> 0..Idle]
    OBVIOUS
  <2>3. hooks \subseteq Daemons /\ disturbed \subseteq Daemons /\ stored = {}
    OBVIOUS
  <2>4. turn \in BOOLEAN /\ prehook \in BOOLEAN
    BY Zenon
  <2>5. captures \in 0..MaxCaptures /\ forwards \in 0..MaxForwards
    OBVIOUS
  <2> HIDE DEF Init
  <2> QED BY <2>1, <2>2, <2>3, <2>4, <2>5 DEF TypeOK
<1>2. HooksAreScoped /\ PhaseInv
  BY DEF HooksAreScoped, PhaseInv
<1>3. CapturedInv
  BY DEF CapturedInv
<1>4. QuietCapturesAreFaithful /\ CapturesAreNeverEmpty
  BY DEF QuietCapturesAreFaithful, CapturesAreNeverEmpty
<1> QED BY <1>1, <1>2, <1>3, <1>4 DEF IInv

\* The call of a layer preserves the invariant.
LEMMA LayerInv ==
  ASSUME IInv, NEW t \in Threads, Layer(t)
  PROVE  IInv'
<1> USE DEF Layer, HooksSee
<1>1. TypeOK'
  BY DEF IInv, TypeOK, HooksAreScoped, PhaseInv, CapturedInv, QuietCapturesAreFaithful, CapturesAreNeverEmpty
<1>2. HooksAreScoped'
  BY DEF IInv, TypeOK, HooksAreScoped, PhaseInv, CapturedInv, QuietCapturesAreFaithful, CapturesAreNeverEmpty
<1>3. PhaseInv'
  BY DEF IInv, TypeOK, HooksAreScoped, PhaseInv, CapturedInv, QuietCapturesAreFaithful, CapturesAreNeverEmpty
<1>4. CapturedInv'
  <2> SUFFICES ASSUME NEW d \in Daemons
               PROVE  (/\ phase[d] = "forward" /\ at[d] > CrystalLayer => captured[d] # Nothing
                       /\ phase[d] = "write" => captured[d] # Nothing
                       /\ d \in hooks \ disturbed =>
                            /\ ~prehook /\ ~injected[d]
                            /\ captured[d] \in {Nothing, [of |-> d, injected |-> FALSE]}
                       /\ phase[d] = "write" /\ d \notin disturbed =>
                            captured[d] = [of |-> d, injected |-> FALSE])'
    BY DEF CapturedInv
  <2> DEFINE tainted == injected[t] \/ (prehook /\ at[t] = InjectionLayer)
             seen == [of |-> t, injected |-> tainted]
  <2>1. /\ TypeOK /\ PhaseInv /\ CapturedInv
        /\ phase' = phase /\ hooks' = hooks /\ prehook' = prehook
        /\ disturbed' = disturbed \cup {e \in hooks : e # t}
    BY DEF IInv
  <2>2. captured'[d] = IF at[t] = CrystalLayer /\ d \in hooks THEN seen ELSE captured[d]
    BY <2>1 DEF TypeOK
  <2>3. at'[d] = IF d = t THEN at[d] + 1 ELSE at[d]
    BY <2>1 DEF TypeOK
  <2>4. injected'[d] = IF d = t THEN tainted ELSE injected[d]
    BY <2>1 DEF TypeOK
  <2>5. seen \in Tensor /\ seen # Nothing /\ seen.of = t
    BY <2>1, SeenIsATensor DEF TypeOK
  <2>6. at[d] \in 0..(LastLayer + 1)
    BY <2>1 DEF TypeOK
  <2>7. CASE d = t
    <3>1. d \in hooks \/ phase[d] # "forward"
      BY <2>1 DEF PhaseInv
    <3>2. d \in hooks /\ phase[d] # "write"
      BY <2>1, <2>7 DEF PhaseInv
    <3>3. d \notin disturbed => ~tainted /\ seen = [of |-> d, injected |-> FALSE]
      BY <2>1, <2>7, <3>2 DEF CapturedInv
    <3> HIDE DEF tainted, seen
    <3> QED BY <2>1, <2>2, <2>3, <2>4, <2>5, <2>6, <2>7, <3>2, <3>3 DEF CapturedInv
  <2>8. CASE d # t
    <3>1. d \notin hooks' \ disturbed'
      BY <2>1, <2>8
    <3>2. phase[d] = "write" => d \notin hooks
      BY <2>1 DEF PhaseInv
    <3> HIDE DEF tainted, seen
    <3> QED BY <2>1, <2>2, <2>3, <2>5, <2>8, <3>1, <3>2 DEF CapturedInv
  <2> QED BY <2>7, <2>8
<1>5. QuietCapturesAreFaithful'
  BY DEF IInv, TypeOK, HooksAreScoped, PhaseInv, CapturedInv, QuietCapturesAreFaithful, CapturesAreNeverEmpty
<1>6. CapturesAreNeverEmpty'
  BY DEF IInv, TypeOK, HooksAreScoped, PhaseInv, CapturedInv, QuietCapturesAreFaithful, CapturesAreNeverEmpty
<1> QED BY <1>1, <1>2, <1>3, <1>4, <1>5, <1>6 DEF IInv

\* A forward that raises preserves the invariant.
LEMMA RaiseInv ==
  ASSUME IInv, NEW t \in Threads, Raise(t)
  PROVE  IInv'
<1> USE DEF Raise
<1>1. TypeOK'
  BY DEF IInv, TypeOK, HooksAreScoped, PhaseInv, CapturedInv, QuietCapturesAreFaithful, CapturesAreNeverEmpty
<1>2. HooksAreScoped'
  BY DEF IInv, TypeOK, HooksAreScoped, PhaseInv, CapturedInv, QuietCapturesAreFaithful, CapturesAreNeverEmpty
<1>3. PhaseInv'
  BY DEF IInv, TypeOK, HooksAreScoped, PhaseInv, CapturedInv, QuietCapturesAreFaithful, CapturesAreNeverEmpty
<1>4. CapturedInv'
  BY DEF IInv, TypeOK, HooksAreScoped, PhaseInv, CapturedInv, QuietCapturesAreFaithful, CapturesAreNeverEmpty
<1>5. QuietCapturesAreFaithful'
  BY DEF IInv, TypeOK, HooksAreScoped, PhaseInv, CapturedInv, QuietCapturesAreFaithful, CapturesAreNeverEmpty
<1>6. CapturesAreNeverEmpty'
  BY DEF IInv, TypeOK, HooksAreScoped, PhaseInv, CapturedInv, QuietCapturesAreFaithful, CapturesAreNeverEmpty
<1> QED BY <1>1, <1>2, <1>3, <1>4, <1>5, <1>6 DEF IInv

\* Taking the semaphore preserves the invariant.
LEMMA AcquireInv ==
  ASSUME IInv, NEW d \in Daemons, Acquire(d)
  PROVE  IInv'
<1> USE DEF Acquire
<1>1. TypeOK'
  BY DEF IInv, TypeOK, HooksAreScoped, PhaseInv, CapturedInv, QuietCapturesAreFaithful, CapturesAreNeverEmpty
<1>2. HooksAreScoped'
  BY DEF IInv, TypeOK, HooksAreScoped, PhaseInv, CapturedInv, QuietCapturesAreFaithful, CapturesAreNeverEmpty
<1>3. PhaseInv'
  BY DEF IInv, TypeOK, HooksAreScoped, PhaseInv, CapturedInv, QuietCapturesAreFaithful, CapturesAreNeverEmpty
<1>4. CapturedInv'
  BY DEF IInv, TypeOK, HooksAreScoped, PhaseInv, CapturedInv, QuietCapturesAreFaithful, CapturesAreNeverEmpty
<1>5. QuietCapturesAreFaithful'
  BY DEF IInv, TypeOK, HooksAreScoped, PhaseInv, CapturedInv, QuietCapturesAreFaithful, CapturesAreNeverEmpty
<1>6. CapturesAreNeverEmpty'
  BY DEF IInv, TypeOK, HooksAreScoped, PhaseInv, CapturedInv, QuietCapturesAreFaithful, CapturesAreNeverEmpty
<1> QED BY <1>1, <1>2, <1>3, <1>4, <1>5, <1>6 DEF IInv

\* Registering the hook preserves the invariant.
LEMMA RegisterInv ==
  ASSUME IInv, NEW d \in Daemons, Register(d)
  PROVE  IInv'
<1> USE DEF Register
<1>1. TypeOK'
  BY DEF IInv, TypeOK, HooksAreScoped, PhaseInv, CapturedInv, QuietCapturesAreFaithful, CapturesAreNeverEmpty
<1>2. HooksAreScoped'
  BY DEF IInv, TypeOK, HooksAreScoped, PhaseInv, CapturedInv, QuietCapturesAreFaithful, CapturesAreNeverEmpty
<1>3. PhaseInv'
  BY DEF IInv, TypeOK, HooksAreScoped, PhaseInv, CapturedInv, QuietCapturesAreFaithful, CapturesAreNeverEmpty
<1>4. CapturedInv'
  <2> SUFFICES ASSUME NEW e \in Daemons
               PROVE  (/\ phase[e] = "forward" /\ at[e] > CrystalLayer => captured[e] # Nothing
                       /\ phase[e] = "write" => captured[e] # Nothing
                       /\ e \in hooks \ disturbed =>
                            /\ ~prehook /\ ~injected[e]
                            /\ captured[e] \in {Nothing, [of |-> e, injected |-> FALSE]}
                       /\ phase[e] = "write" /\ e \notin disturbed =>
                            captured[e] = [of |-> e, injected |-> FALSE])'
    BY DEF CapturedInv
  <2>1. CASE e = d
    BY <2>1 DEF IInv, TypeOK, HooksAreScoped, PhaseInv, CapturedInv
  <2>2. CASE e # d
    BY <2>2 DEF IInv, TypeOK, HooksAreScoped, PhaseInv, CapturedInv
  <2> QED BY <2>1, <2>2
<1>5. QuietCapturesAreFaithful'
  BY DEF IInv, TypeOK, HooksAreScoped, PhaseInv, CapturedInv, QuietCapturesAreFaithful, CapturesAreNeverEmpty
<1>6. CapturesAreNeverEmpty'
  BY DEF IInv, TypeOK, HooksAreScoped, PhaseInv, CapturedInv, QuietCapturesAreFaithful, CapturesAreNeverEmpty
<1> QED BY <1>1, <1>2, <1>3, <1>4, <1>5, <1>6 DEF IInv

\* Removing the hook preserves the invariant.
LEMMA RemoveInv ==
  ASSUME IInv, NEW d \in Daemons, Remove(d)
  PROVE  IInv'
<1> USE DEF Remove
<1>1. TypeOK'
  BY DEF IInv, TypeOK, HooksAreScoped, PhaseInv, CapturedInv, QuietCapturesAreFaithful, CapturesAreNeverEmpty
<1>2. HooksAreScoped'
  BY DEF IInv, TypeOK, HooksAreScoped, PhaseInv, CapturedInv, QuietCapturesAreFaithful, CapturesAreNeverEmpty
<1>3. PhaseInv'
  BY DEF IInv, TypeOK, HooksAreScoped, PhaseInv, CapturedInv, QuietCapturesAreFaithful, CapturesAreNeverEmpty
<1>4. CapturedInv'
  BY DEF IInv, TypeOK, HooksAreScoped, PhaseInv, CapturedInv, QuietCapturesAreFaithful, CapturesAreNeverEmpty
<1>5. QuietCapturesAreFaithful'
  BY DEF IInv, TypeOK, HooksAreScoped, PhaseInv, CapturedInv, QuietCapturesAreFaithful, CapturesAreNeverEmpty
<1>6. CapturesAreNeverEmpty'
  BY DEF IInv, TypeOK, HooksAreScoped, PhaseInv, CapturedInv, QuietCapturesAreFaithful, CapturesAreNeverEmpty
<1> QED BY <1>1, <1>2, <1>3, <1>4, <1>5, <1>6 DEF IInv

\* Persisting the boundary preserves the invariant.
LEMMA WriteInv ==
  ASSUME IInv, NEW d \in Daemons, Write(d)
  PROVE  IInv'
<1> USE DEF Write
<1>1. TypeOK'
  <2> DEFINE s == [by |-> d, tensor |-> captured[d], disturbed |-> d \in disturbed]
  <2>1. s \in [by : Daemons, tensor : Tensor \cup {Nothing}, disturbed : BOOLEAN]
    BY DEF IInv, TypeOK
  <2>2. stored' = stored \cup {s}
    OBVIOUS
  <2> HIDE DEF s
  <2> QED BY <2>1, <2>2 DEF IInv, TypeOK
<1>2. HooksAreScoped'
  BY DEF IInv, TypeOK, HooksAreScoped, PhaseInv, CapturedInv, QuietCapturesAreFaithful, CapturesAreNeverEmpty
<1>3. PhaseInv'
  BY DEF IInv, TypeOK, HooksAreScoped, PhaseInv, CapturedInv, QuietCapturesAreFaithful, CapturesAreNeverEmpty
<1>4. CapturedInv'
  BY DEF IInv, TypeOK, HooksAreScoped, PhaseInv, CapturedInv, QuietCapturesAreFaithful, CapturesAreNeverEmpty
<1>5. QuietCapturesAreFaithful'
  <2> SUFFICES ASSUME NEW s \in stored', ~s.disturbed
               PROVE  s.tensor = [of |-> s.by, injected |-> FALSE]
    BY DEF QuietCapturesAreFaithful
  <2>1. CASE s \in stored
    BY <2>1 DEF IInv, QuietCapturesAreFaithful
  <2>2. CASE s = [by |-> d, tensor |-> captured[d], disturbed |-> d \in disturbed]
    <3>1. s.by = d /\ s.tensor = captured[d] /\ d \notin disturbed
      BY <2>2
    <3> QED BY <3>1 DEF IInv, CapturedInv
  <2> QED BY <2>1, <2>2
<1>6. CapturesAreNeverEmpty'
  BY DEF IInv, TypeOK, HooksAreScoped, PhaseInv, CapturedInv, QuietCapturesAreFaithful, CapturesAreNeverEmpty
<1> QED BY <1>1, <1>2, <1>3, <1>4, <1>5, <1>6 DEF IInv

\* The beginning of a turn preserves the invariant.
LEMMA BeginTurnInv ==
  ASSUME IInv, BeginTurn
  PROVE  IInv'
<1> USE DEF BeginTurn
<1>1. TypeOK'
  BY DEF IInv, TypeOK, HooksAreScoped, PhaseInv, CapturedInv, QuietCapturesAreFaithful, CapturesAreNeverEmpty
<1>2. HooksAreScoped'
  BY DEF IInv, TypeOK, HooksAreScoped, PhaseInv, CapturedInv, QuietCapturesAreFaithful, CapturesAreNeverEmpty
<1>3. PhaseInv'
  BY DEF IInv, TypeOK, HooksAreScoped, PhaseInv, CapturedInv, QuietCapturesAreFaithful, CapturesAreNeverEmpty
<1>4. CapturedInv'
  BY DEF IInv, TypeOK, HooksAreScoped, PhaseInv, CapturedInv, QuietCapturesAreFaithful, CapturesAreNeverEmpty
<1>5. QuietCapturesAreFaithful'
  BY DEF IInv, TypeOK, HooksAreScoped, PhaseInv, CapturedInv, QuietCapturesAreFaithful, CapturesAreNeverEmpty
<1>6. CapturesAreNeverEmpty'
  BY DEF IInv, TypeOK, HooksAreScoped, PhaseInv, CapturedInv, QuietCapturesAreFaithful, CapturesAreNeverEmpty
<1> QED BY <1>1, <1>2, <1>3, <1>4, <1>5, <1>6 DEF IInv

\* A forward of the chat thread preserves the invariant.
LEMMA DecodeInv ==
  ASSUME IInv, Decode
  PROVE  IInv'
<1> USE DEF Decode
<1>1. TypeOK'
  BY DEF IInv, TypeOK, HooksAreScoped, PhaseInv, CapturedInv, QuietCapturesAreFaithful, CapturesAreNeverEmpty
<1>2. HooksAreScoped'
  BY DEF IInv, TypeOK, HooksAreScoped, PhaseInv, CapturedInv, QuietCapturesAreFaithful, CapturesAreNeverEmpty
<1>3. PhaseInv'
  BY DEF IInv, TypeOK, HooksAreScoped, PhaseInv, CapturedInv, QuietCapturesAreFaithful, CapturesAreNeverEmpty
<1>4. CapturedInv'
  BY DEF IInv, TypeOK, HooksAreScoped, PhaseInv, CapturedInv, QuietCapturesAreFaithful, CapturesAreNeverEmpty
<1>5. QuietCapturesAreFaithful'
  BY DEF IInv, TypeOK, HooksAreScoped, PhaseInv, CapturedInv, QuietCapturesAreFaithful, CapturesAreNeverEmpty
<1>6. CapturesAreNeverEmpty'
  BY DEF IInv, TypeOK, HooksAreScoped, PhaseInv, CapturedInv, QuietCapturesAreFaithful, CapturesAreNeverEmpty
<1> QED BY <1>1, <1>2, <1>3, <1>4, <1>5, <1>6 DEF IInv

\* The end of a turn preserves the invariant.
LEMMA EndTurnInv ==
  ASSUME IInv, EndTurn
  PROVE  IInv'
<1> USE DEF EndTurn
<1>1. TypeOK'
  BY DEF IInv, TypeOK, HooksAreScoped, PhaseInv, CapturedInv, QuietCapturesAreFaithful, CapturesAreNeverEmpty
<1>2. HooksAreScoped'
  BY DEF IInv, TypeOK, HooksAreScoped, PhaseInv, CapturedInv, QuietCapturesAreFaithful, CapturesAreNeverEmpty
<1>3. PhaseInv'
  BY DEF IInv, TypeOK, HooksAreScoped, PhaseInv, CapturedInv, QuietCapturesAreFaithful, CapturesAreNeverEmpty
<1>4. CapturedInv'
  BY DEF IInv, TypeOK, HooksAreScoped, PhaseInv, CapturedInv, QuietCapturesAreFaithful, CapturesAreNeverEmpty
<1>5. QuietCapturesAreFaithful'
  BY DEF IInv, TypeOK, HooksAreScoped, PhaseInv, CapturedInv, QuietCapturesAreFaithful, CapturesAreNeverEmpty
<1>6. CapturesAreNeverEmpty'
  BY DEF IInv, TypeOK, HooksAreScoped, PhaseInv, CapturedInv, QuietCapturesAreFaithful, CapturesAreNeverEmpty
<1> QED BY <1>1, <1>2, <1>3, <1>4, <1>5, <1>6 DEF IInv

\* A stuttering step preserves the invariant.
LEMMA StutterInv ==
  ASSUME IInv, UNCHANGED vars
  PROVE  IInv'
<1> USE DEF vars
<1>1. TypeOK'
  BY DEF IInv, TypeOK, HooksAreScoped, PhaseInv, CapturedInv, QuietCapturesAreFaithful, CapturesAreNeverEmpty
<1>2. HooksAreScoped'
  BY DEF IInv, TypeOK, HooksAreScoped, PhaseInv, CapturedInv, QuietCapturesAreFaithful, CapturesAreNeverEmpty
<1>3. PhaseInv'
  BY DEF IInv, TypeOK, HooksAreScoped, PhaseInv, CapturedInv, QuietCapturesAreFaithful, CapturesAreNeverEmpty
<1>4. CapturedInv'
  BY DEF IInv, TypeOK, HooksAreScoped, PhaseInv, CapturedInv, QuietCapturesAreFaithful, CapturesAreNeverEmpty
<1>5. QuietCapturesAreFaithful'
  BY DEF IInv, TypeOK, HooksAreScoped, PhaseInv, CapturedInv, QuietCapturesAreFaithful, CapturesAreNeverEmpty
<1>6. CapturesAreNeverEmpty'
  BY DEF IInv, TypeOK, HooksAreScoped, PhaseInv, CapturedInv, QuietCapturesAreFaithful, CapturesAreNeverEmpty
<1> QED BY <1>1, <1>2, <1>3, <1>4, <1>5, <1>6 DEF IInv

\* The invariant holds in every reachable state.
THEOREM ModelInvariance == Spec => []IInv
<1>1. IInv /\ [Next]_vars => IInv'
  BY LayerInv, RaiseInv, AcquireInv, RegisterInv, RemoveInv, WriteInv, BeginTurnInv,
     DecodeInv, EndTurnInv, StutterInv DEF Next, DaemonStep, ChatStep
<1> QED BY <1>1, InitInv, PTL DEF Spec

\* No hook outlives its capture or its turn, whatever raises.
THEOREM HooksScoped == Spec => []HooksAreScoped
<1>1. IInv => HooksAreScoped
  BY DEF IInv
<1> QED BY <1>1, ModelInvariance, PTL

\* An undisturbed capture stores the boundary of its own window.
THEOREM QuietFaithful == Spec => []QuietCapturesAreFaithful
<1>1. IInv => QuietCapturesAreFaithful
  BY DEF IInv
<1> QED BY <1>1, ModelInvariance, PTL
=============================================================================
