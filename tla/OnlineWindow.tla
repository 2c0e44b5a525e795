---------------------------- MODULE OnlineWindow ----------------------------
(***************************************************************************)
(* data/batching/streaming/rolling_window.py: batch plans over snapshots   *)
(* of the replay buffer.  The plan comes from the token budget sampler     *)
(* (core/sampler.py, core/buckets.py); iterators over it are generators    *)
(* that any other call may interleave with.                                *)
(***************************************************************************)
EXTENDS ReplayBuffer

CONSTANTS
  Edges,        \* config.bucket_edges
  OverflowMax,  \* config.overflow_max
  TokenBudget,  \* config.token_budget
  MinSamples,   \* config.min_samples
  Iterators,    \* bound: iterators at a time
  MaxWindows,   \* bound: windows
  MaxYields     \* bound: microbatches yielded

ASSUME OnlineWindowAssumption ==
  /\ Edges \in Seq(Nat \ {0})
  /\ \A i \in 1..Len(Edges), j \in 1..Len(Edges) : i < j => Edges[i] < Edges[j]
  /\ {OverflowMax, TokenBudget, MinSamples} \subseteq Nat \ {0}
  /\ \A i \in 1..Len(Edges) : Edges[i] < OverflowMax
  /\ \A s \in Samples : s.length \in Nat

VARIABLES
  snapshot, plan,  \* _current_snapshot and _current_plan, or None
  windowState,     \* _current_state, or None
  windows,         \* _window_id and _total_windows
  yields,          \* _total_microbatches
  iters,           \* the iterators that were begun and not dropped
  seen,            \* history: places of plan that were yielded
  use              \* history: iterators that counted in this window: none, one, several

windowVars == <<snapshot, plan, windowState, windows, yields>>
onlineVars == <<bufferVars, windowVars, iters, seen, use>>

WindowInit ==
  /\ BufferInit
  /\ snapshot = None /\ plan = None /\ windowState = None
  /\ windows = 0 /\ yields = 0
  /\ iters = [i \in Iterators |-> None]
  /\ seen = {} /\ use = "none"

-----------------------------------------------------------------------------
(* TokenBudgetBatchSampler.                                                *)

Ids(q) == {q[i].id : i \in DOMAIN q}

\* get_lengths: of several samples with an id, the last.
LengthOf(q, id) == q[Max({i \in DOMAIN q : q[i].id = id})].length

Skipped(length) == length < 1 \/ length > OverflowMax
Bucket(length) == Min({i \in 1..Len(Edges) : length <= Edges[i]} \cup {Len(Edges) + 1})
BucketMax(b) == IF b <= Len(Edges) THEN Edges[b] ELSE OverflowMax

\* Mutant: the last batch of a bucket is left out unless it is full.
FormBatchesDropLast(ids, max) ==
  LET most == TokenBudget \div max
  IN [k \in 1..(Len(ids) \div (IF most = 0 THEN 1 ELSE most)) |->
        SubSeq(ids, (k - 1) * (IF most = 0 THEN 1 ELSE most) + 1, k * (IF most = 0 THEN 1 ELSE most))]

\* _form_batches: a batch is closed before it would exceed the budget.
FormBatches(ids, max) ==
  LET most == IF TokenBudget \div max = 0 THEN 1 ELSE TokenBudget \div max
      Fits(batch) == (Len(batch) + 1) * max <= TokenBudget /\ Len(batch) < most
      Put(batches, id) ==
        IF batches # <<>> /\ Fits(Last(batches))
          THEN [batches EXCEPT ![Len(batches)] = Append(@, id)]
          ELSE Append(batches, <<id>>)
  IN FoldLeft(Put, <<>>, ids)

\* _interleave_batches: in every round one batch of every bucket that has more,
\* in the order of the round.
Orders(batches) ==
  LET rounds    == Max({Len(batches[b]) : b \in DOMAIN batches} \cup {0})
      Active(r) == {b \in DOMAIN batches : r <= Len(batches[b])}
  IN {order \in [1..rounds -> UNION {SetToSeqs(Active(r)) : r \in 1..rounds}] :
        \A r \in 1..rounds : order[r] \in SetToSeqs(Active(r))}

Interleaved(batches, order) ==
  FlattenSeq([r \in DOMAIN order |->
                [j \in DOMAIN order[r] |-> batches[order[r][j]][r]]])

\* BatchPlanBuilder.build: the plans over the samples q, by the shuffles of the
\* buckets and of the rounds.
Plans(q) ==
  LET fitting == {id \in Ids(q) : ~Skipped(LengthOf(q, id))}
      buckets == {Bucket(LengthOf(q, id)) : id \in fitting}
      Of(b)   == {id \in fitting : Bucket(LengthOf(q, id)) = b}
      shuffles == {f \in [buckets -> UNION {SetToSeqs(Of(b)) : b \in buckets}] :
                     \A b \in buckets : f[b] \in SetToSeqs(Of(b))}
      Batches(f) == [b \in buckets |-> FormBatches(f[b], BucketMax(b))]
  IN UNION {{Interleaved(Batches(f), order) : order \in Orders(Batches(f))} : f \in shuffles}

-----------------------------------------------------------------------------
(* RollingBatchPlanWindow.                                                 *)

\* build_next_window.  Nothing in it suspends.
BuildNextWindow ==
  /\ Len(buffer) >= MinSamples /\ windows < MaxWindows
  /\ snapshot' = buffer
  /\ plan' \in Plans(buffer)
  /\ windows' = windows + 1
  /\ windowState' = [microbatches |-> Len(plan'), consumed |-> 0]
  /\ seen' = {} /\ use' = "none"
  /\ UNCHANGED <<bufferVars, yields, iters>>

\* Mutant: a microbatch is counted when the caller is done with it.
NextMicrobatchLate(i, it, others) ==
  LET next == it.place + 1
      own  == it.window = windows /\ plan # None
  IN IF next > Len(it.plan) \/ windowState = None
       THEN /\ iters' = [iters EXCEPT ![i] = None]
            /\ use' = others
            /\ UNCHANGED <<windowState, yields, seen>>
       ELSE /\ yields < MaxYields /\ yields' = yields + 1
            /\ iters' = [iters EXCEPT ![i] = [it EXCEPT !.place = next]]
            /\ windowState' = [windowState EXCEPT !.consumed = @ + (IF next = 1 THEN 0 ELSE 1)]
            /\ seen' = IF own THEN seen \cup {next} ELSE seen
            /\ use' = IF own THEN others ELSE "several"

\* next() of the iterator i, which is at it: the microbatch is counted in the
\* window that is current now, whichever window it belongs to.  Without one, the
\* iterator raises AttributeError.  others: use, after the iterator.
NextMicrobatch(i, it, others) ==
  LET next == it.place + 1
      own  == it.window = windows /\ plan # None
  IN IF next > Len(it.plan) \/ windowState = None
       THEN /\ iters' = [iters EXCEPT ![i] = None]
            /\ use' = others
            /\ UNCHANGED <<windowState, yields, seen>>
       ELSE /\ yields < MaxYields /\ yields' = yields + 1
            /\ iters' = [iters EXCEPT ![i] = [it EXCEPT !.place = next]]
            /\ windowState' = [windowState EXCEPT !.consumed = @ + 1]
            /\ seen' = IF own THEN seen \cup {next} ELSE seen
            /\ use' = IF own THEN others ELSE "several"

\* Mutant: the samples are looked up in the buffer.
LookupInTheBuffer == Ids(buffer)

\* iter_current_with_samples: the samples of the snapshot.
Lookup == Ids(snapshot)

\* A generator begins at its first next(): iter_current, and the lookup of
\* iter_current_with_samples.
BeginIteration(i) ==
  /\ iters[i] = None /\ plan # None
  /\ NextMicrobatch(i, [plan |-> plan, place |-> 0, window |-> windows, lookup |-> Lookup],
                    IF use = "none" THEN "one" ELSE "several")
  /\ UNCHANGED <<bufferVars, snapshot, plan, windows>>

ContinueIteration(i) ==
  /\ iters[i] # None
  /\ NextMicrobatch(i, iters[i], use)
  /\ UNCHANGED <<bufferVars, snapshot, plan, windows>>

\* The caller breaks out of its loop.
AbandonIteration(i) ==
  /\ iters[i] # None
  /\ iters' = [iters EXCEPT ![i] = None]
  /\ UNCHANGED <<bufferVars, windowVars, seen, use>>

DiscardCurrent ==
  /\ windowState # None
  /\ snapshot' = None /\ plan' = None /\ windowState' = None
  /\ UNCHANGED <<bufferVars, windows, yields, iters, seen, use>>

\* to_dict and, in a new process, from_dict of the buffer and of the window: the
\* state is kept, the plan is not.
Reload ==
  /\ ReloadBuffer
  /\ snapshot' = None /\ plan' = None
  /\ iters' = [i \in Iterators |-> None]
  /\ UNCHANGED <<windowState, windows, yields, seen, use>>

ChangeBuffer ==
  /\ \/ \E s \in Samples : Add(s)
     \/ Clear
     \/ \E i \in 1..MaxSize, p \in Priorities : UpdatePriority(i, p)
     \/ UpdateByReward
  /\ UNCHANGED <<windowVars, iters, seen, use>>

WindowNext ==
  \/ ChangeBuffer \/ BuildNextWindow \/ DiscardCurrent \/ Reload
  \/ \E i \in Iterators : BeginIteration(i) \/ ContinueIteration(i) \/ AbandonIteration(i)

WindowSpec == WindowInit /\ [][WindowNext]_onlineVars

-----------------------------------------------------------------------------
(* What the window promises.                                               *)

Holds(q, id) == {k \in DOMAIN q : id \in ToSet(q[k])}

\* Every sample of the snapshot that is not too long is in one microbatch of the
\* plan, whose samples share a bucket and fit the token budget, or it is alone;
\* and an iterator finds the samples of its plan, whatever the buffer evicted
\* and whichever windows were built since (_form_batches, _interleave_batches,
\* build_next_window, iter_current_with_samples).
WindowsAreWhole ==
  /\ plan # None =>
       LET Length(id) == LengthOf(snapshot, id)
           max(k) == BucketMax(Bucket(Length(plan[k][1])))
       IN /\ \A id \in Ids(snapshot) : Cardinality(Holds(plan, id)) = IF Skipped(Length(id)) THEN 0 ELSE 1
          /\ \A k \in DOMAIN plan :
               /\ \A id \in ToSet(plan[k]) : id \in Ids(snapshot) /\ Bucket(Length(id)) = Bucket(Length(plan[k][1]))
               /\ Cardinality(ToSet(plan[k])) = Len(plan[k])
               /\ Len(plan[k]) = 1 \/ Len(plan[k]) * max(k) <= TokenBudget
  /\ \A i \in Iterators : iters[i] # None =>
       \A k \in DOMAIN iters[i].plan : ToSet(iters[i].plan[k]) \subseteq iters[i].lookup

Exhausted == windowState.consumed >= windowState.microbatches

\* A window all of whose microbatches were yielded is exhausted, whoever else
\* counted in it, so that the next one is built; and a window that one iterator
\* used is exhausted only then (iter_current, is_exhausted, should_build_next).
ExhaustedMeansSeen ==
  plan # None =>
    /\ seen = DOMAIN plan => Exhausted
    /\ use # "several" /\ Exhausted => seen = DOMAIN plan

\* Violated by an iterator that is begun again, and by one that goes on after
\* the next window was built.  rolling_window.py:89, is_exhausted: "Whether all
\* microbatches have been consumed".
ExhaustedIsConsumed == plan # None /\ Exhausted => seen = DOMAIN plan
=============================================================================
