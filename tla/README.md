# Verification of chuk-lazarus

chuk-lazarus runs local language models with an external memory: a chat whose
turns are captured, window by window, into a *session store* on disk while the
conversation goes on; a retriever that reads the stores of earlier sessions; and
a server that keeps the attention cache of a conversation warm between requests.
Beside them stand a command that prefills a document into a *checkpoint library*,
a bounded cache engine for long conversations, and the streams and buffers that
feed online training. This directory holds TLA+ models of the parts in which
threads, tasks, files, caches and queues meet, the TLC configurations that check
them, and TLAPS proofs of all their safety properties. Paths below are relative to the repository's root;
`lazarus/` abbreviates `src/chuk_lazarus/`.

    tlc -workers 2 -config LiveIndexer.cfg MCLiveIndexer      # any run below
    tlapm LiveIndexerProofs.tla                               # any *Proofs module

`PROJECT.json` lists, in machine-readable form, the components, the runs, the
lines each definition models, one mutant of the code per property, the hazards
and the theorems.


## 1. The system

### Parts that keep state and interact

| part | state | operations | who calls it |
|---|---|---|---|
| **LiveIndexer** `lazarus/session_store/live_indexer.py` | capture queue, failure queue, pause and stop flags, `_closed`, the daemon; on disk boundaries, JSONL shards, canonical files, `manifest.json` | `enqueue`, `pause`, `resume`, `stop`, `flush_and_close`; daemon loop, `_process_one`, `_compact` | the chat and the document importer call; the daemon writes |
| **StreamingWindower** `lazarus/chat_loop/streaming.py` | token ids, window cursor, chunk index, end of the last full window | `feed_text`, `flush`, `reset` | the reply streamers and the chat's text capture; hands windows to `on_window` |
| **Residual capture** `lazarus/inference/context/knowledge/torch_capture.py` | forward hooks on the layers of the one model object | `capture_post_crystal_boundary` | every live indexer's daemon, on the model the chat decodes with |
| **MemoryChat** `scripts/interactive_memory_chat.py` | memory mode, session, history, window counter, indexer, retriever, `.dirty` | turns of every kind, `/memory`, `/save`, `/new`, `/exit`, exit hook | the user; it drives the indexer, the windower, the retriever |
| **Enumeration and retriever** `lazarus/session_retrieval/` | handles on the stores that loaded | `enumerate_session_torch_stores`, `refresh` | MemoryChat at start and after each save |
| **ResidualSessionCache** `lazarus/server/_residual_session_cache.py` | an ordered map from conversation to a warm entry, a lock, the eviction hook | `get`, `find_prefix_match`, `put`, `discard`, eviction | the torch runtime |
| **Torch runtime** `lazarus/inference/backends/torch_runtime.py`, `_torch_residual_session.py` | the KV object of a running generation | reuse, hot and split prefill, decode loop, trims | ModelEngine, on its lock or on a streaming thread |
| **ModelEngine** `lazarus/server/engine.py` | an asyncio lock; for a stream a thread, a relay thread and a queue | `generate`, `astream` | the HTTP routers |
| **Reply streaming** `lazarus/chat_loop/cli.py`, `engine.py` | streamer, error list, queue | `stream_assistant_reply`, `_stream_tokens_torch`, `astream` | the REPL, the routers |
| **Prefill library** `lazarus/cli/commands/context/prefill/` (`_cmd.py`, `_save.py`, `_checkpoints.py`, `_restore.py`, `_mode7_calibrate.py`) with `inference/context/unlimited_engine.py` | windows, checkpoints and the open window in memory; on disk `tokens.bin`, `windows.json`, `checkpoints.npz`, `manifest.json` | `context_prefill_cmd`, `restore_engine`, `engine.process`, `flush`, `save_library` (periodic, interrupted, final) | the user, again and again until the document is done |
| **Bounded KV engine** `lazarus/inference/context/research/bounded_engine.py` | token ids, start of the window, hot state and its count, warm checkpoint | `process_turn` in three modes | MLX inference |
| **GymEpisodeStream** `lazarus/data/batching/streaming/gym_stream.py` | connection, stream state, episode count | `connect`, `disconnect`, `reset`, the iterator; command and answer with timeouts | training |
| **ReplayBuffer** `replay_buffer.py`, **RollingBatchPlanWindow** `rolling_window.py` (same directory), **TokenBudgetBatchSampler** `../core/sampler.py` | two deques, counters, running sums; snapshot, plan and progress of the window; buckets | add, evict, clear, reprioritise, serialise; build, iterate, discard | training |
| **Env orchestrator** `lazarus/env/` | episodes over an MCP client | step, tool calls | training |

### Parts without a protocol of their own

Knowledge-store build and loader, retrieval scoring and routing, packing and
length caches, the Telnet puzzle client, session close, MobileAdapter, offline indexing and verification, cross-session
demo, server routers and schemas, virtual experts, model families, introspection,
trainers and losses, experiments, tokenizers and datasets, the command line.
They are numeric, textual, sequential or pure I/O. `PROJECT.json` gives the
reason for each one.

### How the parts meet

* The chat thread enqueues windows; one daemon per indexer takes them from a
  queue, runs a forward under a semaphore of its own and appends one line to
  each of three shards. `flush_and_close` puts a sentinel behind the windows,
  joins the daemon for at most 60 s, merges the shards into canonical files, and
  writes the manifest last. A reader looks only at directories whose manifest is
  there and not in flight.
* `/new` starts another session with another indexer. When the save before it
  failed, the old indexer is only let go of: its daemon still runs, on the same
  model and in the same store root.
* Capture hooks hang on the layers of the model, not on one call of it, so a
  forward of any thread runs the hooks of all.
* The server keeps a conversation's KV object in the cache *and* extends it in
  place during the next generation. Blocking requests are serialised by the
  engine's lock; a streamed request runs on a thread of its own without it.
* A streamed reply crosses two threads and two queues before its reader has it;
  text, the end mark and an exception take different ways.
* The prefill command writes the four files of its library one after the other,
  from inside its loop, from the `finally` around it, and after Ctrl-C; the next
  run starts from whatever is there. Checkpoints leave the memory once they are
  saved, except the one the next window goes on from. The extraction steps of a
  save read the library that the same save is about to write.
* The gym server answers every line with one line and no identifier. A read that
  times out gives up the command and not the answer, which stays in the stream
  for the next command.
* A window over the replay buffer copies it, but its iterators are generators:
  they outlive the window, and the buffer evicts while they run.

### What is hard about it, and what correctness means

| part | hard behaviour | what must hold |
|---|---|---|
| LiveIndexer | a join that times out, failures between two of five writes, a crash between any two writes of the compaction, a re-run on what it left | what is published loads, is complete after a clean close, never changes; no window disappears unrecorded; calls come back |
| StreamingWindower | one delta completing several windows, a turn ending exactly at a window's end, a tokenizer that raises in the loop | windows cover the turn, overlap exactly, never repeat the overlap alone |
| Residual capture | decode, injection and captures on one model at once; forwards that raise | hooks never outlive their call; a capture stores its own window's activations |
| MemoryChat | failed saves, sessions left with a running daemon, fallbacks between kinds of turn, exceptions before `.dirty` is set, kills | published windows are final; a save publishes what it says; transcript and history agree; a clean flag means encoded |
| Session cache | two threads on one entry, eviction of an entry in use, prompts that hash alike, budgets at their limits, a forward that raises after an in-place change | bounded, freed, unshared; the model attends to its own conversation; bookkeeping equals the KV |
| Reply streaming | an exception in one thread while another blocks on its queue; a call repeated after part of its result was delivered | whole and in order, or the exception; the reader is never left waiting |
| Prefill library | crashes and exceptions inside and between four writes, Ctrl-C during a periodic save, runs of other phases on a half-finished library, checkpoints evicted from memory | every token once and in order; the needed checkpoint is in memory or on disk; repeated runs complete |
| Bounded KV engine | three ways to rebuild the hot state, slides by more than it holds, a prompt over the budget, a forward that raises between count and state | the hot state is the window and within the budget; key distances are token distances |
| GymEpisodeStream | late answers, a connection that ends between two reads, a reconnect after a failed configuration, episodes cut by the clock | a sample pairs what belongs together; iterations end |
| Replay buffer and window | eviction at the limit by three policies, sums updated in two places, iterators crossed with new windows | sums equal what they sum; every sample is planned once; a window that was seen is over |

The hazards, each at its line, are in `PROJECT.json`.


## 2. The modules

| module | models | proofs |
|---|---|---|
| `LiveIndexer` (`MCLiveIndexer`) | the indexer's two threads, its files, failures, crashes, re-runs | `LiveIndexerProofs` |
| `SessionStore` | the abstract store: windows offered, captured, published once | refined by `LiveIndexer` |
| `StreamingWindower` | the cutter | `ReplyStreamProofs` |
| `SharedModel` (`MCSharedModel`) | forwards, hooks, semaphores on one model | `SharedModelProofs` |
| `MemoryChat` (`MCMemoryChat`) | the REPL with one (condensed) indexer per session, the store root, the retriever's handles | `MemoryChatProofs` |
| `ResidualSession` (`MCResidualSession`) | cache, runtime and engine lock together | `ResidualSessionProofs` |
| `TokenStream` | three ways of streaming a reply | `ReplyStreamProofs` |
| `PrefillLibrary` | the prefill command, its engine and the library on disk | `PrefillLibraryProofs` |
| `BoundedEngine` | the three modes of the bounded engine | `BoundedEngineProofs` |
| `GymStream` | the stream's task, the connection and the server's answers | `OnlineStreamProofs` |
| `ReplayBuffer` | the buffer and its statistics | `OnlineStreamProofs` |
| `OnlineWindow` (`MCOnlineWindow`) | windows, sampler and iterators, over `ReplayBuffer` | `OnlineStreamProofs` |

Modules whose theorems share a proofs module have definitions with names of their
own (`WindowerSpec`, `WindowSpec`, `BufferSpec`): one module extends them both.

`LiveIndexer` and `MemoryChat` show the same indexer at two levels of detail:
the chat's module needs the queue, the daemon, failures and publication, not the
individual files. `SharedModel` takes the indexer's daemon as a thread that
captures and stores.

### LiveIndexer

`pc` is the place of the client thread inside the public API (`idle`, the joins,
the steps of `_compact`, `down` after a crash); `worker` is the place of the
daemon (`gate` = the pause gate at the top of the loop, `get`, then one value per
write of `_process_one`). `capture_q`, `failed_q`, `running` (`_pause_event`),
`stop_requested`, `closed` are the fields of the object. `boundaries`, `shards`
(one set of windows per kind), `canon` (per canonical file, the windows in it)
and `manifest` are the directory. A shard holds the line of one window, so a
torn line, which the tolerant reader skips, is an absent one. Each handler is
cut at its file operations and at its waits: `StopCall`, `StopPut`, `StopJoined`;
`FlushCall`, `FlushJoined`, `JoinTimeout`; `CompactRead`, one `CompactWrite` per
canonical file, one `CompactUnlink` per shard, `CompactManifest`. `WorkerFail` is
the exception handler of the loop for every phase, before or after the effect of
the write. `Crash` empties the memory and keeps the directory; `Reopen` is a new
object on it. `FlushChoices` is what the mobile adapter may answer about the
in-flight manifest. The variables below `accepted` are history for the
properties and are read by no guard except that window ids are used once.

`SessionStore` is what a reader is promised: windows are offered and captured out
of sight, then one step publishes a nonempty set of captured ones, for good. The
refinement mapping takes `accepted`, `boundaries`, and the windows of
`window_tokens` once the manifest is final.

### StreamingWindower

Token ids are their count, a window is its bounds. `Feed` appends a delta,
`Emit` is one turn of the `while` loop of `feed_text`, `Fed` its end, `Flush` the
tail rule, `Raise` an exception of `on_window` or of the decode before it (the
cursor has not moved yet), `Reset` the start of the next turn.

### SharedModel

One step is the call of one layer with the hooks it finds registered. A tensor is
whose forward it is of and whether an injection tainted it. `Acquire`,
`Register`, `Remove`, `Write` are a daemon in `_process_one`; each daemon has its
own semaphore because `_make_live_indexer` passes none. `BeginTurn`, `Decode`,
`EndTurn` are the chat, with or without the pre-hook of `_vec_inject_turn`;
`Raise` ends any forward. `disturbed` is history: captures during which another
forward passed or an injection was registered.

### MemoryChat

`pc` is the REPL's place; `caller` tells for what `save_current_session` runs
(`/save`, `/quit`, `/new`, the exit hook). A text is one window
`<<id, turn>>`; the model keeps for each session its queue, daemon, indexed,
failed and published windows. Every kind of turn is an action per early return
of its handler: plain turns in two halves (user captured, then the reply), topical
recall, recall that falls elsewhere, key-value recall and its miss, the query. A session
begins without an indexer when its construction raised (`NewIndexer`).
`Emit` with `Save`, `FlushFails`, `FlushSucceeds`, `Promote`, `Refresh` and
`Return` is `emit_store`. `spoiled` remembers that something failed, for the
properties that speak of runs without a failure.

### ResidualSession

A prompt or reply is named by its last token `<<dialogue, length>>`, where
dialogues share their first `Common` tokens: enough to tell "extends", "is
another dialogue" and "hashes to the same key". A KV object is the sequence of
its slots (token and position), referred to by number from entries and from
running generations, which extend it in place; `Swept` empties an object nothing
refers to. Each cache method is one step, since it holds the cache's lock. A
generation is `Begin`, `Get` and `Scan` (lookup), `Check`, `Discard`, then `Extend`
(reuse) or `Prefill` (hot or split, the split one behind a seed slot), `Decode`
per token, `Put`. `Begin` of a blocking request takes the engine's lock, of a
streamed one not. A forward with the trim behind it is one step, and it fails as
a whole: a forward that dies half way through its layers, which would leave
layers of different length, is not distinguished.

### TokenStream

Tokens are numbers. `gen`, `relay` and `reader` are the threads (and the
coroutine), `streamer` and `queue` what lies between them. On `chat` the REPL
reads the streamer itself; on `server` a relay thread does, behind
`call_soon_threadsafe`; on `direct` the runtime generates in the relay thread.
The streamer may hold text back and put it later with more.

### PrefillLibrary

A token is its place in the document. `run` is the memory of the command
(`archive`, `ckpts`, the open window `cur`, tokens done, last saved window, the
Ctrl-C flag); `tokens`, `windows`, `ckpt` and `manifest` are the files, and
`torn` those that a cut write left unreadable. `pc` walks through the loop
(`loop`, `processed`), the `finally` (`flush`) and the writes of `save_library`
(`zip`, `mode7`, `tokens`, `windows`, `manifest`); `kind` is what the save is for,
which decides what an exception in it does: a periodic save is inside the `try`,
so its exception leads to the final save, the others leave the command. `Start`
has every combination of resuming, phases and pages that takes another way
through the code. `Cut` says what a step of a save leaves when an exception or the
end of the process stops it: an archive is closed by an exception and torn by a
crash; the plain files lose their end. `damage` is history: files that were cut or
overwritten by a run that does not resume.

### BoundedEngine

A token is its place in `token_ids`; an entry of the hot state is a token and the
position its key is rotated to. `BeginTurn` appends the prompt and enforces the
budget, then one action per path of `_ensure_hot_state` (`ExtendKV`, `RebuildKV`,
`ExtendDirect`, `PrefillDirect`), then `Generate`. Each has a variant in which a
forward raises, that leaves what was assigned by then. The residual mode keeps no
positions: `Rotated` gives its entries new ones with every step.

### GymStream

An answer is named by the command it answers. `unread` are the commands whose
answer was not read from the current connection, in the order they were sent;
`waiting` says that `pc`'s command has been sent. `Open`, `OpenFails`, `Send`,
`SendFails`, `ReadTimesOut`, `ReadRaises` and the readers of an answer
(`ReadAnswer`, `ReadObservation`, `ReadAction`, `ReadResult`) are the awaits of the
task; `Retry` and the exits of `connect` are part of them. The server is
`ConnectionEnds`, which closes after some of the answers or resets, and the
order of `unread`. `lag` is history: reads that timed out on this connection.

### ReplayBuffer and OnlineWindow

`Add` is `add` with `_evict_one`, for each policy; `Share` is what a sample
contributes to the running sums, with the tracking flags as the code tests
them: when it adds, not when it evicts. `Plans` is the set of all plans that the token
budget sampler can form from a snapshot: every shuffle of each bucket
(`FormBatches`) and every order in which the buckets take turns (`Interleaved`).
`NextMicrobatch` is one `next()` of an iterator, which counts in the window that
is current; `Reload` is serialisation of buffer and window, which keeps the state and
not the plan. `seen` and `use` are history.


## 3. The runs

"states" are distinct states; all runs together take about seven minutes. A
passing run's properties each have a mutant in `PROJECT.json`: a change of the
model that a plausible bug of the code would be, under which the run fails.

| run | module, cfg | states | question |
|---|---|---|---|
| `indexer` | `MCLiveIndexer`, `LiveIndexer.cfg` | 476 k | is what a reader sees always one complete, final publication, and do calls return? |
| `windower` | `StreamingWindower`, `StreamingWindower.cfg` | 285 | do the windows cover a turn and overlap exactly? |
| `shared_model` | `MCSharedModel`, `SharedModel.cfg` | 266 k | do hooks stay scoped, and are undisturbed captures right? |
| `chat` | `MCMemoryChat`, `MemoryChat.cfg` | 522 k | does a session's life end with what it captured published, once, readable? |
| `session_cache` | `MCResidualSession`, `ResidualSession.cfg` | 8.3 M | is the cache bounded, freed, unshared, and exact about its KV? |
| `session_reuse` | `MCResidualSession`, `ResidualSessionReuse.cfg` | refutes | does a reused prefill leave what a cold one leaves? |
| `stream` | `TokenStream`, `TokenStream.cfg` | 4 k | is a reply whole and in order, and does it end? |
| `prefill` | `PrefillLibrary`, `PrefillLibrary.cfg` | 820 k | is a document prefilled once and in order, through interruptions, and completed? |
| `prefill_mode7` | `PrefillLibrary`, `PrefillLibraryMode7.cfg` | refutes | does the calibration find the library it reads? |
| `bounded` | `BoundedEngine`, `BoundedEngine.cfg` | 914 k | is the hot state the window, within the budget and rightly placed? |
| `gym_stream` | `GymStream`, `GymStream.cfg` | 312 k | whose answer does a command read, and does the iteration end? |
| `window` | `MCOnlineWindow`, `OnlineWindow.cfg` | 2.0 M | do buffer, plan and iterators agree? |

The type invariant of a module is checked as part of `IInv` where there is one,
and as the first conjunct of `CacheInv`, `NothingIsSkipped`, `HotIsTheWindow` and
`BufferBooks` elsewhere; `stream` names it.

### What the passing runs show, and why their bounds are enough

**`indexer`.** Two windows, two close calls (so a failed close and its
retry), two failing operations and one crash, a failure queue with room for one
record (the code's 64, so that it overflows), and an adapter that writes the
in-flight manifest or not. Two windows are enough to have one complete and one
torn, one merged and one removed; the two threads interact through the queue's
head and the manifest only, not through counts of windows. The properties:
`EveryWindowIsAccountedFor` (queued, in hand, indexed, or its failure recorded,
raised, dropped or taken by a crash), `PublishedStoreIsLoadable`,
`CleanCloseIsComplete` (a first close that publishes, publishes everything that
was accepted), `FirstCompactionKeepsData` (up to the end of a first
compaction, whatever step a crash interrupts, every indexed window is in a shard
or in a canonical file), `FinalManifestIsFinal`, and the refinement of
`SessionStore`. The inductive invariant `IInv` of the proofs is checked as well;
it contains `SnapshotStaysCurrent` (nothing is appended between the merge and the last
canonical file). The run has fairness, and no symmetry, for `CallsReturn` (also
with a paused daemon, whose join times out) and `QueueDrains`.

**`windower`.** Windows of five tokens with an overlap of two, deltas of up to
twelve tokens (three windows at once), turns of up to thirty. Every residue of the
turn's length against the stride occurs, in particular a turn that ends where a
window ends. The proofs below lift the result to all sizes.

**`shared_model`.** Two daemons and the chat on a model of three layers, where
capture and injection hook the same layer (the tightest case: pre-hook and hook
of one call), three captures and two decodes. Layers before, at and after the
hooks are distinguished; more layers repeat them.

**`chat`.** Three sessions, three inputs, three saves, one fault and one
crash. Three sessions are needed for one published, one abandoned with a live
daemon, and one current; three saves for `/save`, `/new` and the exit hook in
one run. `NothingCapturedIsLost` speaks of runs in
which nothing failed (`spoiled` is false); `WindowIdsAreUnique`,
`TranscriptMatchesHistory`, `HandlesAreReadable` and `PublicationsAreFinal` of
all. The memory modes are `auto` (as `kv_direct`), `topical` and `off`;
`vec_inject` takes the same way through the session as a topical search that
finds nothing.

**`session_cache`.** Two generating threads, one named user and anonymous
requests, two dialogues that share one token, a hash window of two, two entries
in the cache, a hot budget of three tokens, requests for one or for four new
tokens (below and above the budget, so `prefill_hot_limit` is both positive and
clamped to one), prompts of up to four tokens (one over the budget, so the split
prefill happens), three requests, one failing forward. In half of the behaviours
clients stream. Three requests over two entries evict; an anonymous request can
hit a named entry, an entry of another dialogue that hashes alike, or one evicted
in the meantime. `CacheInv` joins the types, the bound and the freeing of evicted
entries. `NoForeignTokens` and `EntriesAreExact` hold of runs without
streaming and without a failure; with either they do not (section 5). Symmetry
permutes the two workers and the two dialogues.

**`stream`.** All three paths, up to four tokens, text held back by the streamer
for any number of tokens, an exception before or after any token. The two queues
hold at most one item per token and their marks.

**`prefill`.** A document of seven tokens in windows of two, so three full
windows and a partial one; two faults (exceptions, crashes or Ctrl-C, anywhere, also
inside a write), any number of plain resumes and two runs of another kind
(fresh, with pages, extraction only, with mode 7 or without), with checkpoints kept,
exported away or skipped. Three full windows are needed for one that left the
memory, one that the next goes on from, and one not yet saved. `NothingIsSkipped`
allows for a cut `tokens.bin`, `LibraryCanBeResumed` for a cut archive and
`LibraryCompletes` for any damage: those are real losses (section 5), and the
properties say that nothing else loses anything.

**`bounded`.** A budget of four, a checkpoint interval of two, prompts of up to
five tokens (one over the budget) and answers of up to four (the whole budget),
twelve tokens in all, two forwards that raise: three to four turns, in which the
window slides by less and by more than the hot state holds.

**`gym_stream`.** Three calls of `connect`, the iterator and `reset`, one retry,
two configuration commands, two episodes of up to three steps, seven started
episodes, six timeouts on a connection, one answer that is no object. The lag may
exceed the configuration, so that an answer to it is read in an episode.
`IterationEnds` would fail if a bound stopped the task: seven episodes are enough
for what three rounds can start on a connection that is up.

**`window`.** A buffer of two samples and three adds, so that it evicts; five
samples, of which one is too long for every bucket and one longer than the token
budget, with and without difficulty, reward and success; the same sample may be
added again, so an id recurs. One bucket edge and the overflow bucket; a token budget of two, so
a batch holds two short samples or one long one; two windows, three yields, two
iterators (symmetric). A plan is any that the shuffles can form.

### Fairness

`LiveIndexer`: weak fairness of the client's progress inside a call and of the
daemon. The operating system schedules both threads, file operations return, and
a join is left at the latest by its own timeout. Nothing is assumed that the code
does not guarantee: no call needs to be made, a paused daemon need not be
resumed, nothing needs to fail.

`TokenStream`: weak fairness of the generating thread, of the relay and of the
reader. `max_new_tokens` bounds the generation; threads and event loop are
scheduled.

`GymStream`: weak fairness of the task (`Opens`, `Awaits`, `Loop`).
`open_connection` and `readline` are under `wait_for`, so each comes back; the
server is not fair and may never answer. The consumer is assumed to ask for the
next sample, as a `for` loop does.

`PrefillLibrary`: weak fairness of the command's steps and of a plain resume: the
user runs the command again until it is done. Exceptions that the state itself forces
(a checkpoint that is not there) are part of those steps; other faults are
bounded and never fair.

The other modules make no liveness claim.

Deadlock is not checked where the program may stop: after the last close or
crash, when the bounds on requests, saves, sessions, tokens, adds or rounds are used up,
when a reply has been returned, when a document is done. `SharedModel` and
`StreamingWindower` check it.


## 4. The proofs

TLAPS proves, for every value of the constants that meets the named assumptions,
every safety invariant and every action property that a passing run checks, and the
refinement. `IInv` (in the windower `WindowerInv`, over the buffer `WindowInv`) is
the inductive invariant of a module; TLC has checked each one on the run's instance.

| module | theorem | says |
|---|---|---|
| `LiveIndexerProofs` | `Invariance`, `TypeCorrect` | `[]IInv`, `[]TypeOK` |
| | `PublishedLoads` | a store with a final manifest has all files, equal nonempty token files, a boundary for each window |
| | `CleanCloseComplete` | a first close that publishes, publishes everything that was accepted |
| | `FirstCompactionKeeps` | up to the end of a first compaction every indexed window is in a shard or in a canonical file |
| | `SnapshotCurrent` | no line reaches a shard between merge and last canonical file |
| | `FinalStays` | a published store never changes |
| | `Accounted` | no window disappears unrecorded |
| | `Implements` | `LiveIndexer` implements `SessionStore` |
| `SharedModelProofs` | `ModelInvariance` | `[]IInv` |
| | `HooksScoped`, `QuietFaithful` | hooks end with their call; undisturbed captures are right |
| `MemoryChatProofs` | `ChatInvariance`, `ChatTypeCorrect` | `[]IInv`, `[]TypeOK` |
| | `ChatHandlesAreReadable`, `ChatPublicationsAreFinal` | handles are published stores; publications never change |
| | `ChatWindowIdsAreUnique`, `ChatTranscriptMatches` | no session captures two windows under one id; transcript and history agree |
| | `ChatNothingIsLost` | without a failure, what a session captured is published when it is over |
| `ResidualSessionProofs` | `SessionInvariance` | `[]IInv` |
| | `SessionCacheIsBounded` | types, at most `max_sessions` entries, one per conversation; what left the cache is freed |
| | `KvIsNotShared` | no KV object is in two entries of the cache, nor with two conversations |
| | `OwnConversationOnly`, `BookkeepingIsExact` | without streaming and failures, the model attends to its own conversation, and the entries' bookkeeping is that of their KV |
| `ReplyStreamProofs` | `WindowerInvariance` | `WindowerSpec => []WindowerInv` |
| | `TurnCovered`, `WindowsOverlap`, `WindowsAreFull` | coverage, exact overlap and progress, no full window waits |
| | `IInvInvariant`, `TypeOKTheorem` | of the way to the reader: `[]IInv`, `[]TypeOK` |
| | `ReturnedReplyIsWholeTheorem`, `DeltasArriveInOrderTheorem` | a reply that returned is whole; the reader has the beginning of it |
| `PrefillLibraryProofs` | `PrefillInvariance` | `[]IInv` |
| | `PrefillSkipsNothing` | the library is a beginning of the document, each token once and in order |
| | `PrefillCanResume` | the checkpoint that the next window goes on from is in memory or on disk |
| `OnlineStreamProofs` | `IInvInvariant` | of the gym: `[]IInv`, an answer is read as late as reads have timed out |
| | `SamplesArePairedTheorem` | until a read times out, samples pair what belongs together |
| | `SizeIsRightTheorem` | the buffer's deques stay together, within the size, and the counters agree |
| | `BufferBooksTheorem`, `WindowKeepsBooks` | and every tracked sum is that of the samples in the buffer, alone and with a window over it |
| | `WindowsAreWholeTheorem` | whatever the shuffles, every sample that is not too long is in one microbatch, which fits; iterators find their samples |
| | `ExhaustedMeansSeenTheorem` | a window that was seen is exhausted, and one that a single iterator used is exhausted only then |
| `BoundedEngineProofs` | `IInvInvariant` | `[]IInv` |
| | `HotIsTheWindowTheorem`, `DistancesAreRightTheorem` | the hot state is the window within the budget; key distances are token distances |

The theorems are stated of the specifications without fairness.

The assumptions, which TLC evaluates in every run:

* `ConstantsAssumption`, `ChatAssumption`, `ModelAssumption`, `TensorAssumption`:
  the sentinel that stops a daemon is no window, no daemon is the chat, an absent
  tensor is none; there is a layer to capture at and one to inject at; the failure queue
  has a place (64 in the code; with none, no failure could be reported).
* `WindowerAssumption`: the overlap is smaller than a window, as the constructor
  requires. `StreamAssumption`, `GymAssumption`, `BoundedEngineAssumption`,
  `PrefillAssumption`: budgets, sizes and limits are whole numbers, and positive where a
  zero is refused or makes no sense.
* `SessionAssumption`: finitely many threads; `max_sessions`, the hash window, the hot
  budget and the requested tokens are positive; the residual seed is no token and nobody is
  named as the anonymous requests are.
* `ReplayBufferAssumption`, `OnlineWindowAssumption`: a buffer of at least one sample;
  rewards and difficulties are whole numbers; bucket edges are positive and grow, and the
  overflow bucket is larger than each, as the model validators require.

The bounds on faults, crashes, requests and the like are any number.

**LiveIndexer.** None of the properties is inductive. `FinalManifestIsFinal` needs
that no thread that writes is left once the manifest is final; that is
`CloseInv`: while a compaction runs, and from then on, the daemon has ended, and
a final manifest means that the object is closed or the process is down. It is
preserved because `FlushJoined` and `StopJoined` wait for the daemon, and
`Enqueue`, which could start it, is refused by `closed` and happens outside a
call. `PublishedStoreIsLoadable` needs to know what each file holds while the
compaction is half way: `MergeInv` (files before `step` hold the merged maps, and
the merged maps still are the shards while writing), and that each shard line
has a boundary: `CaptureInv`. `EveryWindowIsAccountedFor` needs `HandInv`, that the
daemon holds a window exactly in its working steps and has counted it before the
last. For the refinement `OfferInv` adds that only accepted windows are captured.
`Implements` then maps `Enqueue` to `Offer`, the boundary writes to `Capture`,
`CompactManifest` to `Publish`, and everything else, crashes included, to a
stutter.

`CleanCloseIsComplete` and `FirstCompactionKeepsData` need what happened before the
state they speak of. `CleanInv` says, as long as no close has failed and nothing
crashed, that a window that is neither queued nor in hand was indexed or has its
failure in the failure queue (which cannot be full without one in it), so that a close
that raises nothing has met no failure. `KeepInv` says where the indexed windows are: in the shards, in the order the daemon
writes them, until the last canonical file of a first compaction is written, and in what
it merged, which is then in the canonical files, while it unlinks the shards.

**StreamingWindower.** `CursorInv` ties the cursor and the end of the last full
window to the windows handed out; `PrefixInv` says they leave no hole before
their end, `TailInv` that `flush` reaches the end of the turn.
`FlushCoversTheTurn` follows from the last two.

**SharedModel.** `PhaseInv` ties a daemon's phase to its semaphore, hook and
forward. `CapturedInv` says what a capture holds at each point of its forward:
something once the forward has passed the crystal layer, and its own untainted
tensor or nothing unless it was disturbed, because a forward of another thread or an
injection during it is recorded as a disturbance.

**MemoryChat.** `PublishedIsOver`: a published session is not the one whose
indexer is open, and its daemon is not alive. It is preserved since only the
current session with an open indexer captures, and publishing lets go of the
indexer after its daemon has ended. Ids are unique because a session's ids are below
its counter (`IdInv`), a session to come has no windows yet (`FutureInv`), and the
counter only moves with a capture. `TurnInv` ties the transcript to the history through the
two halves of a plain turn, between which they differ by the user's text.
`NothingCapturedIsLost` follows a window on its way: `OpenInv` says
that while its indexer is open what was captured is indexed or queued, also while a
save waits for the daemon, and `LossInv` that a session which was let go with nothing
spoiled has published it; `SaveInv` is that only a session with turns is saved.

**ResidualSession.** The cache itself: `OneEntryPerKey`, and `HeldInv`, that a
generation holds the KV object of an entry or one of its own. A new object is found because
`MaxSessions` entries and the finitely many threads can refer to only so many of
the numbers; that is a counting argument, over `FS_` theorems. `OneKeyPerKv`, that an
object has one conversation, is kept by `Put` because what it replaces or evicts is
dropped with its object, and by the hit of another conversation's
entry because its user changes with the reuse. For the two properties of quiet runs,
`Blocking` says that a thread inside a generation holds the lock, hence is alone, and
`QuietInv` says of every entry and of the generation that its KV is `Exact`: slot by
slot the text of the conversation, with positions `Aligned` to it and a gap only where the
budget trimmed. The delta, the cold prefill and each decoded token are one lemma
(`AlignedJoin`): slots that continue a text, put behind slots that end where they
begin. What a dialogue's text is at a place depends on whether that place is shared, which is
why two prompts that hash alike are told apart by `Check`.

**PrefillLibrary.** `LibraryInv` describes the files whenever no save is under
way, `EngineInv` the memory of the command, `SavingInv` what a save has replaced
so far and what it has still to write; each names the beginning of the document that
the object holds. A `Cut` is then a case of `SavingInv` with one file shorter or torn.
`NothingIsSkipped` is about the concatenation of the windows and the sums of their
lengths. `FlattenSeq` and `Offset` are defined over recursive functions, and what they
yield for every sequence is proved (`FlattenFacts`, `OffsetFacts`): the induction
theorems of the library take an operator and cannot be instantiated, but a set can take
its place, and `Induction` is proved from the least element of a set of
numbers. The checkpoint for the next window is in memory or in the archive
because what leaves the memory is what the archive has, and `CutFacts` says that an
archive an exception closed has the beginning of what was to be written.

**TokenStream.** What is inductive is not what the reader has but how it goes on:
`ChainInv` says that the texts in `astream`'s queue continue where the reader is,
those in the streamer's queue continue where that queue ends, and the last one ends
at the last token put. `Chain` says so by a function from the places of a queue to
tokens, which an append extends and a tail shifts; two lemmas about it replace an
induction over the queue. `QueueInv` and `StreamerInv` say which marks are where: the end is last,
an exception is right before it, and a thread that has seen the end of the
streamer left it empty. `EndInv` adds that a generation which ended without an
exception has put all it made. When the reader returns both queues are empty, so the
chain has no room left.

**GymStream.** `AnswersLagByTimeouts` is the core: on an open connection the number of
answers to be read is the number of timeouts plus the one awaited. It is preserved
because a command is only sent when none is awaited, every read takes
exactly one answer or counts as a timeout, and `connect` starts a new stream. With
no timeout the queue is then the awaited command itself, and `EpisodeIsPaired`
follows an observation and an action from their commands into the sample.

**BoundedEngine.** `WindowInv` bounds the window at each step of the turn and keeps the
checkpoint in it; `HotInv` says that the hot state follows from `HotFirst`, that
`Placed` holds of its keys (places in the state, equal distances, or places in the
conversation, by mode), and that nothing is counted that is not there. Each
path of `_ensure_hot_state` is a lemma about a slide, an extension or a rebuild of a
sequence. Failures keep `HotInv` because they are recorded in `torn`.

**ReplayBuffer.** `Deques` proves that a removal and an append at the same place of
both deques keep their lengths equal, for each policy: every policy names a place
that exists. `Sums` says of every field that is tracked that its sum is the recount
of the buffer. A recount is a fold: `FoldExists` builds, by `Induction`, the function
that the fold chooses, so `RecountIsTheSum` has it as a sequence of partial sums, and
`RecountGrows` and `RecountShrinks` give what an append and a removal at any place do to
it. What eviction takes away is what was added only for the tracked fields
(`ShareFacts`), which is why `RatesAreRates` fails for the others (section 5).

**OnlineWindow.** `Parts(batches, T)` says that the elements of `T` are in the
batches, each in one place of one batch. The sampler is followed from the inside out:
`PutFacts` keeps it when one more sample is put into the last batch or into a new
one, `FormBatchesFacts` folds that over a shuffle of a bucket, `ConcatParts` and
`FlattenParts` put batches one after the other, and `InterleavedFacts` shows that the
rounds take every batch of every bucket once. `PlanIsWhole` is the result about every
plan of every snapshot. `WindowInv` then says that the plan is one over the snapshot
(`PlanInv`), that an iterator carries its own samples (`IteratorsInv`), and that the count
is at least the number of places seen, and exactly the first places while a single
iterator counted (`CountInv`).

### Only model-checked

Liveness, out of the prover's reach: `CallsReturn`, `QueueDrains`, `ReplyEnds`,
`IterationEnds`, `LibraryCompletes`. The two runs that expect a violation, and the
statements of section 5, are refuted, not proved.

No module uses a `RECURSIVE` operator.


## 5. What the code does differently from what it says

Two statements of the repository are refuted by a run of their own. Each trace is
short and names the code's steps.

| run | statement | what the code does |
|---|---|---|
| `session_reuse` | `_torch_residual_session.py:19-20`, the reuse path "mirrors the locals the non-streaming prefill path leaves in scope" | the last sampled token of a turn is recorded in `cold_token_ids` but never fed to the model (`torch_runtime.py:1496`), so the next turn's reuse continues with that token missing and every position one too low, once more per turn |
| `prefill_mode7` | `_mode7_calibrate.py:28`, "Loads the library from disk (just written by save_library)" | `save_library` calls the calibration (`_save.py:207-218`) before it writes tokens, windows and manifest (`:226-263`); in a fresh directory it raises and the document's windows are not saved |

The others are written as definitions at the
end of their modules, without a run each; to see a counterexample put the name
as the only INVARIANT (or PROPERTY) of a copy of the module's cfg.

| definition | statement | what the code does |
|---|---|---|
| `LiveIndexer!RerunPublishesEveryIndexedWindow` | `live_indexer.py:63-64`, "Interrupted compaction leaves the prior shards for a re-run" | shards are unlinked one at a time (`:896-901`) before the manifest; a crash in that loop leaves some; the re-run rebuilds the canonical files from those alone and publishes without the rest |
| `LiveIndexer!InterruptedCompactionLeavesShards` | the same | a crash after the removal and before the manifest leaves no shard |
| `LiveIndexer!PublishedMeansNoFailure` | `live_indexer.py:453-457`: `flush_and_close` raises if the daemon failed on a window | the failures are drained before the raise (`:472`); the retry finds none and publishes without those windows |
| `LiveIndexer!EnqueueStartsTheDaemon` | `live_indexer.py:413`: "start the daemon if idle" | `_worker_started` is never reset (`:491`); after a close that raised, windows are accepted into a queue nobody reads |
| `LiveIndexer!CrashedStoreHasNoManifest` | `live_indexer.py:52-53`: after a crash "manifest absent" | an in-flight manifest is there after the first window (`:821`); readers that test `in_flight` skip it |
| `StreamingWindower!EmittedChunksExcludesTail` | `streaming.py:80`: `emitted_chunks` "excludes tail" | `flush` counts the tail too (`:153`) |
| `SharedModel!BoundaryIsOfItsWindow` | `torch_capture.py:152`, "Capture the post-crystal-layer boundary vector for one token window." | the hook (`:190`) keeps the output of whichever forward passes the layer; a decode of the chat during a capture becomes the stored boundary |
| `SharedModel!ForwardsNeverInterleave` | `live_indexer.py:71-73`: the chat passes its semaphore so that forwards never interleave | `interactive_memory_chat.py:1073-1080` passes none, and no decode takes one |
| `MemoryChat!CleanMeansEncoded` | `interactive_memory_chat.py:202-203`, `.dirty` is "cleared by emit_store after a successful encode" | after a `/save` the session has no indexer, its later turns are encoded nowhere, and the next `/save` succeeds and clears the flag (`:2214`) |
| `MemoryChat!EveryTurnIsIndexedLive` | `interactive_memory_chat.py:143-145`: the loop "now indexes streaming windows into the per-session torch_store directory live" | a topical recall records its answer without capturing it (`:1413`) |
| `MemoryChat!NewMeansSaved` | `interactive_memory_chat.py:32`: "/new  /save, then start a fresh session" | the result of the save is ignored (`:2361`) |
| `MemoryChat!ExitHookSaves` | `interactive_memory_chat.py:2298`: the hook is the "crash-safe path" | `.dirty` is set after the reply (`:1278`); an exception during the first reply leaves captured windows and nothing for the hook to do |
| `ResidualSession!SplitPrefillKeepsTheSeed` | `torch_runtime.py:1317-1318`: "anchored on the residual seed" | the trim to `prefill_hot_limit` removes the seed slot first (`:1479`) |
| `ResidualSession!WindowStartIsTheFirstSlot` | `_residual_session_cache.py:65-66` | a forward that raises after the in-place extension leaves the entry cached with the old bookkeeping (`_torch_residual_session.py:151`) |
| `ResidualSession!OneGenerationPerKv` | `_residual_session_cache.py:104-106`: the engine's lock serialises generation | `astream` takes no lock (`engine.py:524`) |
| `TokenStream!ErrorsAreReRaised` | `chat_loop/cli.py:110`, an exception of `generate` is "re-raised below" | the loop over the streamer (`:117`) comes first, and nobody ends the streamer; the reader waits for ever. The server's copy ends it (`engine.py:188-190`) |
| `TokenStream!NothingIsStreamedTwice` | `engine.py:164`: the runtime "didn't accept the kwarg" | the handler surrounds the whole stream; a `TypeError` after some text repeats the reply from its start |
| `GymStream!ResponseIsToTheCommand` | `_send_command`'s docstring: it returns the response to its command | after a timeout it returns the answer of an earlier command (`gym_stream.py:287`) |
| `GymStream!ErrorMeansNotConnected` | the state `error` after a failed `connect` | `_connected` is set before the configuration (`gym_stream.py:238`) and stays set when that fails |
| `PrefillLibrary!TotalIsOfTheWindows` | `library.py:100`, `total_tokens`: "Total tokens across all windows" | the `finally` saves as complete after an exception too (`_cmd.py:404`), with the document's total over fewer windows |
| `BoundedEngine!HotStartIsThePosition` | `bounded_engine.py:158`, `hot_start`: "absolute token index of first token in hot_state" | a cold prefill of a first prompt over the budget rotates from 0 (`:583`) |
| `BoundedEngine!CountIsOfTheHotState` | `bounded_engine.py:91`, `hot_token_count`: "Tokens currently in hot tier" | tokens are counted one by one (`:408`), the state is assigned at the end; a forward that raises leaves the count too high |
| `ReplayBuffer!RatesAreRates` | `replay_buffer.py:201`, "Success rate of samples with success/failure tracking" | an eviction subtracts what was never added when tracking is off (`:406`); the counts go below zero |
| `OnlineWindow!ExhaustedIsConsumed` | `rolling_window.py:89`, "Whether all microbatches have been consumed" | a second iterator, or one of the window before, counts too (`:284`) |

Smaller observations, not in a model: a cut `tokens.bin` loses tokens that were saved
although `docs/context/prefill/windows.md:32` calls interrupting safe, and a cut
`windows.json` or `manifest.json` makes every resume raise; the sparse index of a
resumed run replaces the full one (`_save.py:180`); `--store-pages` saves without
the export mode (`_cmd.py:272-288`); `window_microbatches` and `overlap_fraction`
of `WindowConfig` are read nowhere; the `vec_inject` provider is loaded from the first
handle and never again (`interactive_memory_chat.py:797`).


## 6. Abstractions, and what is not modelled

* Tensors, texts, keywords, scores and times are left out or stand for what the
  properties tell apart. Nothing is said about numerical results.
* The sampler may choose any token; the streamer may hold back any text; a shuffle
  may give any order.
* The indexer's files change atomically per operation, as `os.replace` and one
  appended line do; those of the prefill library, which are written in place, may
  be cut. Directories are not lost and `fsync` is believed.
* The mobile adapter is its answer to "write the in-flight manifest?"; its pause
  around enqueues is `PauseOrResume` at any time.
* `/query`, `/exact`, `/stats` and `/history` change no modelled state. The
  AUS3000 records, the transcript and `vec_inject.npz` are written by a save and
  read by nothing modelled; only the mode promotion that `vec_inject.npz` causes is.
* Of the prefill command, the extraction phases other than mode 7 read the
  archive in memory and write files nothing here reads; they are steps that may
  raise. Residuals and the sparse index follow the checkpoints. The replay of the
  unlimited engine, the dark residuals and the reports of the bounded engine
  compute and keep no state.
* A reward or a difficulty is a whole number: rounding of the running sums is not
  modelled.
* The offline store build, the loader's checks beyond the manifest, retrieval
  scores and tiers, training, introspection, virtual experts,
  model families, HTTP routing and the command line are not modelled;
  `PROJECT.json` has the reason per component.

The repository has some 360 000 lines, most of them experiments with their
drivers, evaluation scripts, neural network layers, analysis of activations and
command-line handlers: numeric or sequential code whose correctness is a matter of
values, not of states and their order. The modelled share of it is small and stays
so; what is modelled is the part in which order, failure and concurrency decide.


## 7. Plan

Done, in this order, because a loss of stored turns is the worst this
program can do and the server's cache the second worst: the indexer with its
abstract store, the windower that feeds it, the model they share, the chat that
drives them, the warm cache of the server, the streaming of replies; then the gym
stream, the prefill library, the replay buffer with its window and sampler, the
bounded engine; then the proofs, until every safety property of the runs had one.

Left, in order:

1. `Retrieval`: the tier fallback, handle refresh against stores being written,
   and the `vec_inject` provider that is loaded once; the knowledge-store loader as
   the reader of `SessionStore`.
2. The epoch and checkpoint control of the trainers and the tool calls of the
   environment orchestrator.
3. An abstract library for `PrefillLibrary` (a growing prefix of the document) and
   the refinement that shows it.

Proofs: the refinement of 3, step by step, from `PrefillLibraryProofs`; an abstract
cache for `ResidualSession` (a map from conversations to texts, of which entries may be
forgotten) and its refinement in quiet runs; the abstract indexer of `MemoryChat`
as a refinement of `SessionStore`, as `LiveIndexer` is.
