--------------------------- MODULE BoundedEngine ----------------------------
(***************************************************************************)
(* inference/context/research/bounded_engine.py: a conversation whose KV   *)
(* cache, or residuals, stay within a budget.  Older tokens leave the      *)
(* window; the hot state is extended, slid or rebuilt.                     *)
(*                                                                         *)
(* A token is named by its place in token_ids.  A hot entry is a token and *)
(* the position its key is rotated to.  A forward may raise; what process_ *)
(* turn had assigned to the state by then stays.                           *)
(***************************************************************************)
EXTENDS Integers, Sequences

CONSTANTS
  MaxHot,       \* max_hot_tokens
  Interval,     \* checkpoint_interval
  MaxPrompt,    \* bound: tokens of a turn's prompt
  MaxNew,       \* bound: max_new_tokens of a turn
  MaxTokens,    \* bound: tokens of the conversation
  MaxFaults     \* bound: forwards that raise

ASSUME BoundedEngineAssumption ==
  /\ {MaxHot, Interval} \subseteq Nat \ {0}
  /\ {MaxPrompt, MaxNew, MaxTokens, MaxFaults} \subseteq Nat

VARIABLES
  mode,         \* "kv", "rs" or "kv_direct"
  total,        \* total_tokens
  start,        \* window_start
  hot,          \* hot_state: a sequence of entries; <<>> stands for None
  count,        \* hot_token_count
  hotStart,     \* hot_start
  ckpt,         \* token_position of the checkpoint; 0 for none
  pc, headroom, \* the step of process_turn, and its max_new_tokens
  cache, next,  \* last_out: the cache and abs_seq_len
  torn,         \* history: a forward raised between two assignments that belong together
  shifted,      \* history: the first window did not begin at the first token
  faults

stateVars == <<total, start, hot, count, hotStart, ckpt>>
vars == <<mode, stateVars, pc, headroom, cache, next, torn, shifted, faults>>

Init ==
  /\ mode \in {"kv", "rs", "kv_direct"}
  /\ total = 0 /\ start = 0 /\ hot = <<>> /\ count = 0 /\ hotStart = 0 /\ ckpt = 0
  /\ pc = "idle" /\ headroom = 0 /\ cache = <<>> /\ next = 0
  /\ torn = FALSE /\ shifted = FALSE /\ faults = 0

-----------------------------------------------------------------------------
Window   == [i \in 1..(total - start) |-> start + i]
Uncached == SubSeq(Window, count + 1, Len(Window))

\* The tokens q with positions from p on.
Entries(q, p) == [i \in 1..Len(q) |-> [token |-> q[i], at |-> p + i - 1]]

\* The residuals h are rotated anew with every step, to end before position p.
Rotated(h, p) == [i \in 1..Len(h) |-> [h[i] EXCEPT !.at = p - Len(h) + i - 1]]

Larger(m, n) == IF m > n THEN m ELSE n

\* Mutant: no room is kept for what will be generated.
EffectiveMaxNow(room) == MaxHot

\* _enforce_budget.
EffectiveMax(room) == Larger(1, MaxHot - room)

\* process_turn begins: the prompt is added and the budget enforced.  A window
\* that must move cannot slide in KV mode.
BeginTurn(prompt, max) ==
  /\ pc = "idle"
  /\ total + prompt + max <= MaxTokens /\ (prompt > 0 \/ total > 0)
  /\ total' = total + prompt
  /\ start' = Larger(start, total' - EffectiveMax(max))
  /\ IF start' > start
       THEN /\ ckpt' = IF ckpt > start' THEN ckpt ELSE 0
            /\ IF mode = "kv" THEN hot' = <<>> /\ count' = 0 /\ torn' = FALSE
               ELSE UNCHANGED <<hot, count, torn>>
       ELSE UNCHANGED <<hot, count, ckpt, torn>>
  /\ headroom' = max /\ pc' = "ensure"
  /\ UNCHANGED <<mode, hotStart, cache, next, shifted, faults>>

-----------------------------------------------------------------------------
(* _ensure_kv.                                                             *)

\* Hot: the uncached tokens are fed one by one; without any, the last token of
\* the window is run again.
ExtendKV ==
  /\ pc = "ensure" /\ mode = "kv" /\ hot # <<>>
  /\ hot' = IF Uncached # <<>> THEN hot \o Entries(Uncached, Len(hot))
            ELSE SubSeq(hot, 1, Len(hot) - 1) \o Entries(<<total>>, Len(hot) - 1)
  /\ count' = count + Len(Uncached)
  /\ cache' = hot'
  /\ pc' = "generate"
  /\ UNCHANGED <<mode, total, start, hotStart, ckpt, headroom, next, torn, shifted, faults>>

\* The count is of tokens in a cache that is assigned only after the last.
ExtendKVFails(fed) ==
  /\ pc = "ensure" /\ mode = "kv" /\ hot # <<>>
  /\ fed \in 0..Len(Uncached)
  /\ Uncached # <<>> => fed < Len(Uncached)
  /\ faults < MaxFaults /\ faults' = faults + 1
  /\ count' = count + fed
  /\ torn' = (torn \/ fed > 0)
  /\ pc' = "idle"
  /\ UNCHANGED <<mode, total, start, hot, hotStart, ckpt, headroom, cache, next, shifted>>

\* _best_checkpoint: worth it from a quarter of the window on.
BestCheckpoint == ckpt > start /\ ckpt - start >= Larger(1, Len(Window) \div 4)

\* Warm: the tokens before the checkpoint in one forward, the others one by one.
\* Cold: all in one.
RebuildKV ==
  /\ pc = "ensure" /\ mode = "kv" /\ hot = <<>>
  /\ LET prefix == IF BestCheckpoint THEN SubSeq(Window, 1, ckpt - start) ELSE Window
         suffix == SubSeq(Window, Len(prefix) + 1, Len(Window))
     IN hot' = Entries(prefix, 0) \o Entries(suffix, Len(prefix))
  /\ count' = Len(hot')
  /\ cache' = hot'
  /\ pc' = "generate"
  /\ UNCHANGED <<mode, total, start, hotStart, ckpt, headroom, next, torn, shifted, faults>>

-----------------------------------------------------------------------------
(* _ensure_rs and _ensure_kv_direct.                                       *)

Evicted == Larger(0, start - hotStart)
Slid(h) == SubSeq(h, Evicted + 1, Len(h))
SlidCount == Larger(0, count - Evicted)
UncachedBehind(n) == SubSeq(Window, n + 1, Len(Window))

\* The hot state h and the tokens q behind it, from position p on.
Extended(h, q, p) ==
  IF mode = "rs" THEN Rotated(h \o Entries(q, p), p + Len(q)) ELSE h \o Entries(q, p)

\* Mutant: the positions go on from the number of tokens, not from their place.
AbsStartOfCount(n) == n

\* abs_start.
AbsStart(n) == start + n

\* Slide, then extend with the uncached tokens.
ExtendDirect ==
  /\ pc = "ensure" /\ mode # "kv" /\ hot # <<>>
  /\ UncachedBehind(SlidCount) # <<>>
  /\ hot' = Extended(Slid(hot), UncachedBehind(SlidCount), AbsStart(SlidCount))
  /\ count' = Len(Window) /\ hotStart' = start
  /\ cache' = hot' /\ next' = start + Len(Window)
  /\ pc' = "generate"
  /\ UNCHANGED <<mode, total, start, ckpt, headroom, torn, shifted, faults>>

\* Without uncached tokens it raises, and a forward may; the slide has then
\* changed the count and hot_start, but not hot_state.
ExtendDirectFails ==
  /\ pc = "ensure" /\ mode # "kv" /\ hot # <<>>
  /\ IF UncachedBehind(SlidCount) = <<>> THEN UNCHANGED faults
     ELSE faults < MaxFaults /\ faults' = faults + 1
  /\ count' = SlidCount /\ hotStart' = hotStart + Evicted
  /\ torn' = (torn \/ Evicted > 0)
  /\ pc' = "idle"
  /\ UNCHANGED <<mode, total, start, hot, ckpt, headroom, cache, next, shifted>>

\* Cold: a prefill rotates from position 0 on, wherever the window begins.
PrefillDirect ==
  /\ pc = "ensure" /\ mode # "kv" /\ hot = <<>>
  /\ hot' = Entries(Window, 0)
  /\ count' = Len(Window) /\ hotStart' = start
  /\ cache' = hot' /\ next' = start + Len(Window)
  /\ shifted' = (start > 0)
  /\ pc' = "generate"
  /\ UNCHANGED <<mode, total, start, ckpt, headroom, torn, faults>>

\* A rebuild or a prefill raises before it assigned anything.
RebuildFails ==
  /\ pc = "ensure" /\ hot = <<>> /\ faults < MaxFaults
  /\ faults' = faults + 1
  /\ pc' = "idle"
  /\ UNCHANGED <<mode, stateVars, headroom, cache, next, torn, shifted>>

-----------------------------------------------------------------------------
(* _generate_kv, _generate_rs and _generate_kv_direct.                     *)

\* The checkpoint after the tokens up to n: the last one replaces the others.
Stored(n) == LET last == n - (n % Interval) IN IF last > total THEN last ELSE ckpt

Generated(n) == [i \in 1..n |-> total + i]

Generate ==
  /\ pc = "generate"
  /\ total' = total + headroom /\ count' = count + headroom
  /\ hot' = IF headroom = 0 THEN cache
            ELSE Extended(cache, Generated(headroom), IF mode = "kv" THEN Len(cache) ELSE next)
  /\ ckpt' = Stored(total')
  /\ pc' = "idle" /\ cache' = <<>> /\ next' = 0
  /\ UNCHANGED <<mode, start, hotStart, headroom, torn, shifted, faults>>

\* The n-th token was appended and counted; its checkpoint, or its forward, raises.
GenerateFails(n) ==
  /\ pc = "generate" /\ n \in 1..headroom
  /\ faults < MaxFaults /\ faults' = faults + 1
  /\ total' = total + n /\ count' = count + n
  /\ ckpt' \in {Stored(total' - 1), Stored(total')}
  /\ torn' = TRUE
  /\ pc' = "idle" /\ cache' = <<>> /\ next' = 0
  /\ UNCHANGED <<mode, start, hot, hotStart, headroom, shifted>>

Next ==
  \/ \E prompt \in 0..MaxPrompt, max \in 0..MaxNew : BeginTurn(prompt, max)
  \/ ExtendKV \/ RebuildKV \/ ExtendDirect \/ PrefillDirect \/ Generate
  \/ \E n \in 0..MaxTokens : ExtendKVFails(n) \/ GenerateFails(n)
  \/ ExtendDirectFails \/ RebuildFails

Spec == Init /\ [][Next]_vars

-----------------------------------------------------------------------------
(* What the conversation promises.                                         *)

Token == Nat \ {0}
Entry == [token : Token, at : Int]

TypeOK ==
  /\ mode \in {"kv", "rs", "kv_direct"}
  /\ total \in Nat /\ start \in Nat /\ count \in Nat /\ hotStart \in Nat /\ ckpt \in Nat
  /\ headroom \in Nat /\ next \in Nat /\ faults \in Nat
  /\ hot \in Seq(Entry) /\ cache \in Seq(Entry)
  /\ pc \in {"idle", "ensure", "generate"}
  /\ torn \in BOOLEAN /\ shifted \in BOOLEAN

Tokens(h) == [i \in DOMAIN h |-> h[i].token]

\* Between turns the hot state holds the beginning of the window, each token
\* once, as many as are counted; the tokens behind it are fed by the next turn.
\* After a turn for whose answer the budget has room it keeps to the budget
\* (_enforce_budget, _ensure_hot_state, the generators).  An exception that came
\* between a count and its state is excluded: see CountIsOfTheHotState.
HotIsTheWindow ==
  /\ TypeOK
  /\ pc = "idle" /\ ~torn /\ hot # <<>> =>
       /\ Tokens(hot) = SubSeq(Window, 1, count)
       /\ mode # "kv" => hotStart = start
       /\ headroom < MaxHot => Len(hot) <= MaxHot

\* Through slides, rebuilds and warm checkpoints the keys of the hot state stand
\* as far apart as their tokens do, unless the first prompt exceeded the budget;
\* and a checkpoint is of tokens of the window (_warm_rebuild_kv, slide, extend).
DistancesAreRight ==
  /\ ~torn /\ ~(mode = "kv_direct" /\ shifted) =>
       \A i \in DOMAIN hot, j \in DOMAIN hot :
         hot[i].at - hot[j].at = hot[i].token - hot[j].token
  /\ ckpt # 0 => start < ckpt /\ ckpt <= total

\* The inductive invariant of BoundedEngineProofs: the tokens of the hot state h
\* follow the token first, and its keys stand where the mode puts them.
Follow(h, first) == \A i \in 1..Len(h) : h[i].token = first + i

Placed(h) ==
  /\ mode = "kv" => \A i \in 1..Len(h) : h[i].at = i - 1
  /\ mode = "rs" => \A i \in 1..Len(h), j \in 1..Len(h) : h[i].at - h[j].at = i - j
  /\ mode = "kv_direct" /\ ~shifted => \A i \in 1..Len(h) : h[i].at = h[i].token - 1

HotFirst == IF mode = "kv" THEN start ELSE hotStart

WindowInv ==
  /\ start <= total /\ (total > 0 => start < total)
  /\ ckpt # 0 => start < ckpt /\ ckpt <= total
  /\ pc # "idle" => total > 0 /\ total - start <= Larger(1, MaxHot - headroom)
  /\ mode = "kv" /\ hot # <<>> => count <= total - start
  /\ pc = "generate" => cache = hot /\ hot # <<>> /\ count = total - start /\ (mode # "kv" => next = total)

HotInv ==
  ~torn /\ hot # <<>> =>
    /\ Len(hot) = count /\ Follow(hot, HotFirst) /\ Placed(hot)
    /\ HotFirst <= start /\ HotFirst + count <= total
    /\ pc # "ensure" => HotFirst = start
    /\ pc = "idle" /\ headroom < MaxHot => count <= MaxHot

IInv == TypeOK /\ WindowInv /\ HotInv

\* Violated by a first prompt beyond the budget.  bounded_engine.py:158,
\* hot_start: "absolute token index of first token in hot_state".
HotStartIsThePosition ==
  mode = "kv_direct" /\ pc = "idle" /\ hot # <<>> /\ ~torn => hot[1].at = hotStart

\* Violated by an exception.  bounded_engine.py:91, hot_token_count: "Tokens
\* currently in hot tier".
CountIsOfTheHotState == pc = "idle" => count = Len(hot)
=============================================================================
