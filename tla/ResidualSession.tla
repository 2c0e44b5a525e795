--------------------------- MODULE ResidualSession ---------------------------
(***************************************************************************)
(* The WARM session cache of the residual_bounded_kv_direct engine:        *)
(* server/_residual_session_cache.py (ResidualSessionCache),               *)
(* backends/_torch_residual_session.py (reuse_from_session_cache) and the  *)
(* generation loops of backends/torch_runtime.py, called by the threads of *)
(* server/engine.py.                                                       *)
(*                                                                         *)
(* A text is a list of tokens of one dialogue; dialogues agree on their    *)
(* first Common tokens and on none after, so a text is named by its last   *)
(* token <<dialogue, length>>.  A KV cache is the sequence of its slots;   *)
(* it is an object that entries and generations share and extend in place. *)
(* A forward with the trim that follows it is one step.                    *)
(***************************************************************************)
EXTENDS Naturals, Sequences, FiniteSets, SequencesExt

CONSTANTS
  Workers,        \* the threads that generate
  Users,          \* explicit conversation ids
  Anonymous,      \* a request without one
  Dialogues,
  Shared,         \* the dialogue of the tokens all dialogues begin with
  Seed,           \* the slot the boundary residual is seeded into
  Common,         \* how many tokens the dialogues begin with
  HashWindow,     \* window of _prefix_hash_key
  MaxSessions,    \* _max_sessions
  MaxHot,         \* max_hot_tokens_pre
  NewTokens,      \* the values of config.max_new_tokens
  StreamChoices,  \* whether clients stream: {FALSE}, or BOOLEAN
  MaxLength,      \* bound: tokens of a prompt
  MaxRequests,    \* bound: requests
  MaxFaults       \* bound: generations that raise

ASSUME SessionAssumption ==
  /\ IsFiniteSet(Workers)
  /\ Anonymous \notin Users /\ Shared \notin Dialogues
  /\ Seed \notin (Dialogues \cup {Shared}) \X Nat
  /\ Common \in Nat /\ HashWindow \in Nat \ {0}
  /\ MaxSessions \in Nat \ {0} /\ MaxHot \in Nat \ {0} /\ NewTokens \subseteq Nat \ {0}
  /\ StreamChoices \subseteq BOOLEAN
  /\ MaxLength \in Nat /\ MaxRequests \in Nat /\ MaxFaults \in Nat

VARIABLES
  lock,       \* ModelEngine._lock is held
  cache,      \* _entries, least recently used first
  kvs,        \* the KV objects
  job,        \* per worker, its generation
  streaming,  \* whether the server's clients stream
  requests, faults

vars == <<lock, cache, kvs, job, streaming, requests, faults>>

Least(a, b)  == IF a < b THEN a ELSE b
Token(d, i)  == <<IF i <= Common THEN Shared ELSE d, i>>
Nth(t, i)    == Token(t[1], i)
Extends(s, t) == s[2] < t[2] /\ s = Nth(t, s[2])
Prompts      == {Token(d, i) : d \in Dialogues, i \in 1..MaxLength}

\* The slots of tokens i..j of t, at the positions from p on.
Slots(t, i, j, p) ==
  [k \in 1..(j + 1 - i) |-> [token |-> Nth(t, i + k - 1), pos |-> p + k - 1]]

\* _trim_cache_to_last_tokens.
Trim(q, n) == IF Len(q) <= n THEN q ELSE SubSeq(q, Len(q) - n + 1, Len(q))

\* prefill_hot_limit of a request for at most n new tokens.
PrefillLimit(n) == IF MaxHot > n THEN MaxHot - n ELSE 1

NoKv    == 0
KvIds   == 1..(MaxSessions + Cardinality(Workers))
NoEntry == [key |-> Anonymous, cold |-> <<Shared, 0>>, kv |-> NoKv, total |-> 0, start |-> 0]

\* A worker without a request.
Idle == [pc |-> "idle", stream |-> FALSE, user |-> Anonymous, key |-> Anonymous,
         text |-> <<Shared, 0>>, max |-> 0, held |-> NoEntry, fresh |-> FALSE, kv |-> NoKv,
         total |-> 0, start |-> 0, made |-> 0]

Init ==
  /\ lock = FALSE
  /\ cache = <<>>
  /\ kvs = [k \in KvIds |-> <<>>]
  /\ job = [w \in Workers |-> Idle]
  /\ streaming \in StreamChoices
  /\ requests = 0 /\ faults = 0

-----------------------------------------------------------------------------
(* The cache: each operation is atomic under ResidualSessionCache._lock.   *)

Entries       == {cache[i] : i \in 1..Len(cache)}
KeysOf(c)     == {c[i].key : i \in 1..Len(c)}
EntryOf(key)  == {e \in Entries : e.key = key}
PlaceOf(key)  == CHOOSE i \in 1..Len(cache) : cache[i].key = key
Without(key)  == IF key \in KeysOf(cache) THEN RemoveAt(cache, PlaceOf(key)) ELSE cache
Used(e)       == Append(Without(e.key), e)

\* Mutant: an entry that leaves the cache keeps its KV.
HookedNever(j, keys) == j

\* The eviction hook ran on the entries of keys: a worker that holds one of
\* them finds past_key_values None.
Hooked(j, keys) ==
  [w \in Workers |->
     IF j[w].fresh /\ j[w].held.key \in keys
       THEN [j[w] EXCEPT !.held.kv = NoKv, !.fresh = FALSE]
       ELSE j[w]]

\* Python drops the KV objects nothing refers to.
Referenced(c, j) ==
  {c[i].kv : i \in 1..Len(c)} \cup {j[w].held.kv : w \in Workers} \cup {j[w].kv : w \in Workers}
Swept(f, c, j) == [k \in KvIds |-> IF k \in Referenced(c, j) THEN f[k] ELSE <<>>]
NewKv == CHOOSE k \in KvIds : k \notin Referenced(cache, job)

\* The entries of find_prefix_match, and the first of the longest of them.
Matching(t) == {i \in 1..Len(cache) : cache[i].cold[2] > 0 /\ Extends(cache[i].cold, t)}
Better(i, k) == \/ cache[i].cold[2] > cache[k].cold[2]
                \/ cache[i].cold[2] = cache[k].cold[2] /\ i <= k
BestMatch(t) == CHOOSE i \in Matching(t) : \A k \in Matching(t) : Better(i, k)

-----------------------------------------------------------------------------
(* A generation.                                                           *)

\* _prefix_hash_key: prompts that agree on their first HashWindow tokens.
PrefixKey(t) == Nth(t, Least(t[2], HashWindow))

\* _generate holds ModelEngine._lock from here to the end; astream's thread
\* takes no lock.
Begin(w) ==
  /\ job[w].pc = "idle" /\ requests < MaxRequests
  /\ requests' = requests + 1
  /\ \E stream \in {FALSE, streaming}, user \in Users \cup {Anonymous},
       t \in Prompts, n \in NewTokens :
       /\ stream \/ ~lock
       /\ lock' = (lock \/ ~stream)
       /\ job' = [job EXCEPT ![w] = [@ EXCEPT
            !.pc = "get", !.stream = stream, !.user = user, !.text = t, !.max = n,
            !.key = IF user = Anonymous THEN PrefixKey(t) ELSE user]]
  /\ UNCHANGED <<cache, kvs, streaming, faults>>

\* Mutant: the worker writes back under the id of the request.
HoldForRequest(w, e) ==
  /\ cache' = Used(e)
  /\ job' = [job EXCEPT ![w] = [@ EXCEPT !.pc = "check", !.held = e, !.fresh = TRUE]]

\* The worker w holds entry e, and will write back under its key.
Hold(w, e) ==
  /\ cache' = Used(e)
  /\ job' = [job EXCEPT ![w] = [@ EXCEPT
       !.pc = "check", !.key = e.key, !.held = e, !.fresh = TRUE]]

\* cache.get, in _resolve_session_entry.
Get(w) ==
  /\ job[w].pc = "get"
  /\ \/ \E e \in EntryOf(job[w].key) : Hold(w, e)
     \/ /\ EntryOf(job[w].key) = {}
        /\ job' = [job EXCEPT ![w].pc = IF job[w].user = Anonymous THEN "scan" ELSE "prefill"]
        /\ UNCHANGED cache
  /\ UNCHANGED <<lock, kvs, streaming, requests, faults>>

\* find_prefix_match, for a request without a conversation id.
Scan(w) ==
  /\ job[w].pc = "scan"
  /\ IF Matching(job[w].text) # {}
       THEN Hold(w, cache[BestMatch(job[w].text)])
       ELSE job' = [job EXCEPT ![w].pc = "prefill"] /\ UNCHANGED cache
  /\ UNCHANGED <<lock, kvs, streaming, requests, faults>>

\* Mutant: an entry is reused whatever its tokens are.
ReusableByLength(w) ==
  job[w].held.kv # NoKv /\ job[w].held.cold[2] < job[w].text[2]

\* The checks of reuse_from_session_cache.
Reusable(w) == job[w].held.kv # NoKv /\ Extends(job[w].held.cold, job[w].text)

Check(w) ==
  /\ job[w].pc = "check"
  /\ job' = [job EXCEPT ![w].pc = IF Reusable(w) THEN "extend" ELSE "discard"]
  /\ UNCHANGED <<lock, cache, kvs, streaming, requests, faults>>

\* cache.discard of the entry that could not be reused.
Discard(w) ==
  /\ job[w].pc = "discard"
  /\ cache' = Without(job[w].held.key)
  /\ job' = LET j == Hooked(job, {e.key : e \in EntryOf(job[w].held.key)}) IN
              [j EXCEPT ![w] = [@ EXCEPT !.pc = "prefill", !.held = NoEntry, !.fresh = FALSE]]
  /\ kvs' = Swept(kvs, cache', job')
  /\ UNCHANGED <<lock, streaming, requests, faults>>

\* The forward over the delta, and the trim.  It runs on the KV object of the
\* entry, whose field is read again and may have been cleared since the check.
Extend(w) ==
  /\ job[w].pc = "extend"
  /\ LET e   == job[w].held
         k   == IF e.kv = NoKv THEN NewKv ELSE e.kv
         new == Trim(kvs[k] \o Slots(job[w].text, e.cold[2] + 1, job[w].text[2], e.total),
                     PrefillLimit(job[w].max))
         tot == e.total + job[w].text[2] - e.cold[2] IN
       /\ kvs' = [kvs EXCEPT ![k] = new]
       /\ job' = [job EXCEPT ![w] = [@ EXCEPT
            !.pc = "decode", !.kv = k, !.total = tot,
            !.start = IF tot > Len(new) THEN tot - Len(new) ELSE 0]]
  /\ UNCHANGED <<lock, cache, streaming, requests, faults>>

\* The slots of a cold prefill: the whole prompt, or behind the seed its last
\* MaxHot tokens.
ColdSlots(t) ==
  IF t[2] <= MaxHot
    THEN Slots(t, 1, t[2], 0)
    ELSE LET split == t[2] - MaxHot IN
         <<[token |-> Seed, pos |-> split - 1]>> \o Slots(t, split + 1, t[2], split)

Prefill(w) ==
  /\ job[w].pc = "prefill"
  /\ LET t   == job[w].text
         new == Trim(ColdSlots(t), PrefillLimit(job[w].max)) IN
       /\ kvs' = [kvs EXCEPT ![NewKv] = new]
       /\ job' = [job EXCEPT ![w] = [@ EXCEPT
            !.pc = "decode", !.kv = NewKv, !.total = t[2], !.start = t[2] - Len(new)]]
  /\ UNCHANGED <<lock, cache, streaming, requests, faults>>

\* The next token is sampled: any that continues the text.
Sampled(t) == {Token(d, t[2] + 1) : d \in IF t[2] < Common \/ t[1] # Shared
                                            THEN {t[1]} ELSE Dialogues}

\* A step of the decode loop: the token is recorded; a stop token or the last
\* step ends the loop, else it is fed to the model and the cache trimmed to n.
DecodeTo(w, n) ==
  /\ job[w].pc = "decode"
  /\ \E t \in Sampled(job[w].text) :
       LET j == job[w] IN
       \/ /\ job' = [job EXCEPT ![w] = [j EXCEPT !.pc = "put", !.text = t, !.made = j.made + 1]]
          /\ UNCHANGED kvs
       \/ /\ j.made + 1 < j.max
          /\ LET all == Append(kvs[j.kv], [token |-> t, pos |-> j.total])
                 new == Trim(all, n) IN
               /\ kvs' = [kvs EXCEPT ![j.kv] = new]
               /\ job' = [job EXCEPT ![w] = [j EXCEPT
                    !.text = t, !.made = j.made + 1, !.total = j.total + 1,
                    !.start = j.start + Len(all) - Len(new)]]
  /\ UNCHANGED <<lock, cache, streaming, requests, faults>>

\* Mutant: a decode step keeps one slot more than the budget.
DecodeOverBudget(w) == DecodeTo(w, MaxHot + 1)

Decode(w) == DecodeTo(w, MaxHot)

\* _evict_if_needed_locked, after one entry was added.
Bounded(c) == IF Len(c) > MaxSessions THEN Tail(c) ELSE c

\* cache.put of the new entry under the resolved key; an older entry of the
\* key and an evicted one are hooked.  generate returns.
Put(w) ==
  /\ job[w].pc = "put"
  /\ LET j == job[w]
         e == [key |-> j.key, cold |-> j.text, kv |-> j.kv, total |-> j.total,
               start |-> j.start]
         kept == Bounded(Used(e)) IN
       /\ cache' = kept
       /\ job' = [Hooked(job, KeysOf(cache) \ KeysOf(SubSeq(kept, 1, Len(kept) - 1)))
                    EXCEPT ![w] = Idle]
       /\ lock' = (lock /\ j.stream)
  /\ kvs' = Swept(kvs, cache', job')
  /\ UNCHANGED <<streaming, requests, faults>>

\* A forward raises (out of memory): nothing is put, and what the KV object
\* was extended by stays in it.
Fail(w) ==
  /\ job[w].pc \in {"extend", "prefill", "decode"} /\ faults < MaxFaults
  /\ faults' = faults + 1
  /\ lock' = (lock /\ job[w].stream)
  /\ job' = [job EXCEPT ![w] = Idle]
  /\ kvs' = Swept(kvs, cache, job')
  /\ UNCHANGED <<cache, streaming, requests>>

Step(w) == \/ Begin(w) \/ Get(w) \/ Scan(w) \/ Check(w) \/ Discard(w) \/ Extend(w)
           \/ Prefill(w) \/ Decode(w) \/ Put(w) \/ Fail(w)

Next == \E w \in Workers : Step(w)

Spec == Init /\ [][Next]_vars
-----------------------------------------------------------------------------
(* Properties.                                                             *)

Tokens == {t \in (Dialogues \cup {Shared}) \X Nat : t[1] = Shared <=> t[2] <= Common}
Keys   == Users \cup Tokens
Slot   == [token : Tokens \cup {Seed}, pos : Nat]
Entry  == [key : Keys \cup {Anonymous}, cold : Tokens, kv : KvIds \cup {NoKv},
           total : Nat, start : Nat]
Job    == [pc : {"idle", "get", "scan", "check", "discard", "extend", "prefill",
                 "decode", "put"},
           stream : BOOLEAN, user : Users \cup {Anonymous},
           key : Keys \cup {Anonymous}, text : Tokens, max : NewTokens \cup {0}, held : Entry,
           fresh : BOOLEAN, kv : KvIds \cup {NoKv}, total : Nat, start : Nat, made : Nat]

\* Every variable has its type, and the lock is held exactly while a blocking
\* generation runs: every way out of generate releases it.
TypeOK ==
  /\ lock \in BOOLEAN
  /\ cache \in Seq(Entry)
  /\ kvs \in [KvIds -> Seq(Slot)]
  /\ job \in [Workers -> Job]
  /\ lock <=> \E w \in Workers : job[w].pc # "idle" /\ ~job[w].stream
  /\ streaming \in BOOLEAN
  /\ requests \in 0..MaxRequests /\ faults \in 0..MaxFaults

\* The cache holds at most max_sessions entries, one per conversation id, each
\* with its hot KV, however the threads interleave (put, _evict_if_needed_locked);
\* and an entry that was replaced, discarded or evicted holds no GPU memory any
\* more: a thread that still holds it sees its hot KV cleared (eviction hook).
CacheInv ==
  /\ TypeOK
  /\ Len(cache) <= MaxSessions
  /\ Cardinality(KeysOf(cache)) = Len(cache)
  /\ \A e \in Entries : e.kv # NoKv
  /\ \A w \in Workers : job[w].held.kv # NoKv => job[w].held \in Entries

\* No two conversations share one hot KV object: extending it for one would
\* change what the other continues from (_resolve_session_entry).
EachKvHasOneConversation ==
  \A i, j \in 1..Len(cache) : cache[i].kv = cache[j].kv => i = j

\* The slots q end at the position before total and lie side by side, and
\* their tokens are tokens of t, in order.
Represents(q, t, total) ==
  /\ \A i \in 1..Len(q) : q[i].pos = total - Len(q) + i - 1
  /\ \A i \in 1..Len(q) : q[i].token = Seed \/ q[i].token = Nth(t, q[i].token[2])
  /\ \A i, j \in 1..Len(q) : i < j /\ q[i].token # Seed => q[i].token[2] < q[j].token[2]

\* With blocking requests and no failure, what the model attends to is the text of
\* its own conversation: no slot of another prompt, none twice and none out
\* of order, whatever the cache reuses for anonymous requests that hash alike.
NoForeignTokens ==
  \A w \in Workers :
    ~streaming /\ faults = 0 /\ job[w].pc \in {"decode", "put"} =>
      Represents(kvs[job[w].kv], job[w].text, job[w].total)

\* With blocking requests and no failure, the bookkeeping of an entry
\* agrees with its hot KV: within the budget, and hot_window_start and
\* total_seen_tokens are the positions the next delta forward relies on.
EntriesAreExact ==
  \A e \in Entries :
    ~streaming /\ faults = 0 /\ (\A w \in Workers : job[w].kv # e.kv) =>
      /\ Len(kvs[e.kv]) \in 1..MaxHot
      /\ Represents(kvs[e.kv], e.cold, e.total)
      /\ e.start = e.total - Len(kvs[e.kv])

-----------------------------------------------------------------------------
(* The inductive invariant of ResidualSessionProofs.                       *)

OneEntryPerKey ==
  /\ Len(cache) <= MaxSessions
  /\ \A i, j \in 1..Len(cache) : cache[i].key = cache[j].key => i = j
  /\ \A e \in Entries : e.kv # NoKv

\* What a worker holds is in the cache until the hook has told it otherwise, and
\* it will put what it has under the same key.
HeldInv ==
  \A w \in Workers :
    /\ job[w].pc = "idle" => job[w] = Idle
    /\ job[w].pc # "idle" => job[w].text[2] >= 1
    /\ job[w].pc = "extend" => Extends(job[w].held.cold, job[w].text)
    /\ job[w].held.kv # NoKv => job[w].fresh
    /\ job[w].fresh => job[w].held \in Entries /\ job[w].held.key = job[w].key
    /\ job[w].kv # NoKv <=> job[w].pc \in {"decode", "put"}

\* Whoever has a KV object, has it for the same conversation.
OneKeyPerKv ==
  /\ \A e, f \in Entries : e.kv = f.kv => e.key = f.key
  /\ \A e \in Entries, w \in Workers : e.kv = job[w].kv => e.key = job[w].key
  /\ \A v, w \in Workers : job[v].kv = job[w].kv /\ job[w].kv # NoKv => job[v].key = job[w].key

\* The engine's lock lets one blocking generation run.
Blocking ==
  /\ ~streaming => \A w \in Workers : ~job[w].stream
  /\ \A v, w \in Workers :
       {job[v].pc, job[w].pc} \cap {"idle"} = {} /\ ~job[v].stream /\ ~job[w].stream => v = w

\* The slots q are tokens of t in order, at the positions from start to total; the
\* seed can only be the first.
Aligned(q, t, total, start) ==
  /\ start = total - Len(q)
  /\ \A i \in 1..Len(q) :
       /\ q[i].pos = start + i - 1
       /\ q[i].token = Seed => i = 1
       /\ q[i].token # Seed => q[i].token = Nth(t, q[i].token[2]) /\ q[i].token[2] \in 1..t[2]
       /\ q[i].token # Seed => \A j \in 1..Len(q) : i < j => q[i].token[2] < q[j].token[2]

Exact(q, t, total, start) == Len(q) \in 1..MaxHot /\ Aligned(q, t, total, start)

QuietInv ==
  ~streaming /\ faults = 0 =>
    /\ \A w \in Workers :
         /\ job[w].pc = "extend" => job[w].fresh
         /\ job[w].kv # NoKv => Exact(kvs[job[w].kv], job[w].text, job[w].total, job[w].start)
    /\ \A e \in Entries :
         (\A w \in Workers : job[w].kv # e.kv) => Exact(kvs[e.kv], e.cold, e.total, e.start)

IInv ==
  /\ TypeOK /\ OneEntryPerKey /\ HeldInv /\ OneKeyPerKv /\ Blocking /\ QuietInv

-----------------------------------------------------------------------------
\* Violated.  _torch_residual_session.py:19-20: the reuse path "mirrors the
\* locals the non-streaming prefill path leaves in scope right before the first
\* _sample_next_token call"; the prefill leaves total_seen_tokens at the length
\* of the prompt.
ReuseMatchesThePrefill ==
  \A w \in Workers :
    job[w].pc = "decode" /\ job[w].made = 0 => job[w].total = job[w].text[2]

\* Violated.  torch_runtime.py:1317-1318, after a split prefill: "The final hot
\* state holds a window anchored on the residual seed".
SplitPrefillKeepsTheSeed ==
  \A w \in Workers :
    job[w].pc = "decode" /\ job[w].made = 0 /\ job[w].held = NoEntry /\ job[w].text[2] > MaxHot
      => kvs[job[w].kv][1].token = Seed

\* Violated when a forward raises.  _residual_session_cache.py:65-66:
\* hot_window_start is the "Absolute index of the first token currently
\* represented in the hot KV".
WindowStartIsTheFirstSlot ==
  \A e \in Entries :
    (\A w \in Workers : job[w].kv # e.kv) => kvs[e.kv][1].pos = e.start

\* Violated when requests stream.  _residual_session_cache.py:104-106: "In
\* practice the ModelEngine._lock already serialises generation per engine".
OneGenerationPerKv ==
  \A v, w \in Workers : v # w /\ job[v].kv # NoKv => job[v].kv # job[w].kv
=============================================================================
