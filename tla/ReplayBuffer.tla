---------------------------- MODULE ReplayBuffer ----------------------------
(***************************************************************************)
(* data/batching/streaming/replay_buffer.py: the bounded buffer of samples *)
(* for online learning, with its priorities, its eviction policies and the *)
(* running sums its statistics are computed from.                          *)
(*                                                                         *)
(* Difficulties and rewards are whole numbers: the rounding of floats is   *)
(* left out.  add_batch is a row of adds; an add that overrides the        *)
(* priority of the sample is an add and an update_priority.                *)
(***************************************************************************)
EXTENDS Integers, Sequences, FiniteSets, SequencesExt

CONSTANTS
  Samples,     \* [id, length, difficulty, reward, success, priority]; an id may recur
  Priorities,  \* a finite set of numbers
  MaxSize,     \* config.max_size
  MaxAdds,     \* bound: samples added
  Policies,    \* values of config.eviction_policy
  Trackings,   \* values of config.track_difficulty and config.track_success
  None

ASSUME ReplayBufferAssumption ==
  /\ MaxSize \in Nat \ {0} /\ MaxAdds \in Nat
  /\ Priorities \subseteq Nat
  /\ Policies \subseteq {"fifo", "priority", "random"}
  /\ Trackings \subseteq [difficulty : BOOLEAN, success : BOOLEAN]
  /\ \A s \in Samples :
       /\ s.priority \in Priorities
       /\ s.difficulty # None => s.difficulty \in Int
       /\ s.reward # None => s.reward \in Int
       /\ s.success \in BOOLEAN \cup {None}

VARIABLES
  policy,       \* config.eviction_policy
  track,        \* config.track_difficulty and config.track_success
  buffer, priorities,
  added, evicted,
  sums          \* _difficulty_sum, _reward_sum, _success_count, _failure_count

config     == <<policy, track>>
bufferVars == <<config, buffer, priorities, added, evicted, sums>>

Zero == [difficulty |-> 0, reward |-> 0, success |-> 0, failure |-> 0]

BufferInit ==
  /\ policy \in Policies /\ track \in Trackings
  /\ buffer = <<>> /\ priorities = <<>>
  /\ added = 0 /\ evicted = 0 /\ sums = Zero

\* What the sample s adds to the sums when tr is tracked.
Share(s, tr) ==
  [difficulty |-> IF tr.difficulty /\ s.difficulty # None THEN s.difficulty ELSE 0,
   reward     |-> IF s.reward # None THEN s.reward ELSE 0,
   success    |-> IF tr.success /\ s.success = TRUE THEN 1 ELSE 0,
   failure    |-> IF tr.success /\ s.success = FALSE THEN 1 ELSE 0]

Plus(a, b)  == [k \in DOMAIN a |-> a[k] + b[k]]
Minus(a, b) == [k \in DOMAIN a |-> a[k] - b[k]]

Everything == [difficulty |-> TRUE, success |-> TRUE]

\* The places a full buffer may evict; of equal priorities the oldest.
Victims ==
  CASE policy = "fifo"     -> {1}
    [] policy = "random"   -> DOMAIN buffer
    [] policy = "priority" ->
         {i \in DOMAIN buffer :
            /\ \A j \in DOMAIN buffer : priorities[i] <= priorities[j]
            /\ \A j \in 1..(i - 1) : priorities[i] < priorities[j]}

\* Mutant: add appends to the deques, whose maxlen drops the oldest.
AddToTheDeque(s) ==
  /\ added < MaxAdds
  /\ buffer' = Append(IF Len(buffer) >= MaxSize THEN Tail(buffer) ELSE buffer, s)
  /\ priorities' = Append(IF Len(buffer) >= MaxSize THEN Tail(priorities) ELSE priorities, s.priority)
  /\ sums' = Plus(sums, Share(s, track))
  /\ added' = added + 1
  /\ UNCHANGED <<config, evicted>>

\* add, with _evict_one when the buffer is full.  The eviction takes from the
\* sums what the sample has, tracked or not.
Add(s) ==
  /\ added < MaxAdds
  /\ IF Len(buffer) >= MaxSize
       THEN \E i \in Victims :
              /\ buffer' = Append(RemoveAt(buffer, i), s)
              /\ priorities' = Append(RemoveAt(priorities, i), s.priority)
              /\ sums' = Plus(Minus(sums, Share(buffer[i], Everything)), Share(s, track))
              /\ evicted' = evicted + 1
       ELSE /\ buffer' = Append(buffer, s) /\ priorities' = Append(priorities, s.priority)
            /\ sums' = Plus(sums, Share(s, track))
            /\ UNCHANGED evicted
  /\ added' = added + 1
  /\ UNCHANGED config

Clear ==
  /\ buffer # <<>>
  /\ buffer' = <<>> /\ priorities' = <<>>
  /\ evicted' = evicted + Len(buffer) /\ sums' = Zero
  /\ UNCHANGED <<config, added>>

\* update_priority: the first sample with the id.
UpdatePriority(i, p) ==
  /\ i \in DOMAIN buffer
  /\ \A j \in 1..(i - 1) : buffer[j].id # buffer[i].id
  /\ priorities' = [priorities EXCEPT ![i] = p]
  /\ UNCHANGED <<config, buffer, added, evicted, sums>>

\* update_priorities_by_reward: the smoothing may give any priority.
UpdateByReward ==
  /\ priorities' \in [DOMAIN buffer -> Priorities]
  /\ \A i \in DOMAIN buffer : buffer[i].reward = None => priorities'[i] = priorities[i]
  /\ UNCHANGED <<config, buffer, added, evicted, sums>>

\* The sums of the samples q, added one by one to an empty buffer.
Recount(q) == FoldLeft(LAMBDA acc, s : Plus(acc, Share(s, track)), Zero, q)

\* from_dict(to_dict()): the samples are added again, the counters copied.
ReloadBuffer ==
  /\ sums' = Recount(buffer)
  /\ UNCHANGED <<config, buffer, priorities, added, evicted>>

BufferNext ==
  \/ \E s \in Samples : Add(s)
  \/ Clear
  \/ \E i \in 1..MaxSize, p \in Priorities : UpdatePriority(i, p)
  \/ UpdateByReward \/ ReloadBuffer

BufferSpec == BufferInit /\ [][BufferNext]_bufferVars

BufferTypeOK ==
  /\ policy \in Policies /\ track \in Trackings
  /\ buffer \in Seq(Samples) /\ priorities \in Seq(Priorities)
  /\ {added, evicted} \subseteq Nat
  /\ sums \in [DOMAIN Zero -> Int]

\* The buffer keeps to its size, and a priority to its sample.
SizeIsRight ==
  /\ Len(buffer) <= MaxSize
  /\ Len(priorities) = Len(buffer)
  /\ evicted + Len(buffer) = added

\* Through evictions by every policy, clearing, priority updates and reloading,
\* the two deques and the counters agree, and every sum that is tracked is the
\* sum over the samples in the buffer (add, _evict_one, clear, from_dict).
BufferBooks ==
  /\ BufferTypeOK /\ SizeIsRight
  /\ sums.reward = Recount(buffer).reward
  /\ track.difficulty => sums.difficulty = Recount(buffer).difficulty
  /\ track.success => /\ sums.success = Recount(buffer).success
                      /\ sums.failure = Recount(buffer).failure

\* Violated when successes are not tracked: the eviction takes away what was
\* never added.  replay_buffer.py:201 "Success rate of samples with
\* success/failure tracking".
RatesAreRates == sums.success >= 0 /\ sums.failure >= 0
=============================================================================
