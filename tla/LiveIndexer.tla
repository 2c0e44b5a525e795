---------------------------- MODULE LiveIndexer ----------------------------
(***************************************************************************)
(* session_store/live_indexer.py: the per-session background writer of a   *)
(* clause-aligned knowledge store.                                         *)
(*                                                                         *)
(* One client thread (the chat REPL, or the document importer) enqueues    *)
(* windows and finally calls flush_and_close or stop; one daemon thread    *)
(* captures each window and appends its shards; flush_and_close then joins *)
(* the daemon and compacts the shards into the canonical files, the        *)
(* manifest last.  The process may crash at any point, any write may raise,*)
(* and a new LiveIndexer may be opened on the directory of a crashed one.  *)
(*                                                                         *)
(* A window is a member of Windows; a shard file holds the one line of its *)
(* window (shard_index = window_id), so a torn line is an absent one.      *)
(***************************************************************************)
EXTENDS Naturals, Sequences, FiniteSets

CONSTANTS
  Windows,       \* the window ids a session may produce
  Stop,          \* _STOP_SENTINEL
  NoWindow,      \* the daemon holds no window
  FailedQueueSize, \* capacity of _failed_q (64 in the code)
  FlushChoices,  \* answers of should_flush_manifest: {TRUE} without adapter
  MaxCloses,     \* bound: calls of stop and flush_and_close
  MaxFaults,     \* bound: exceptions raised by captures and file operations
  MaxCrashes     \* bound: process crashes

ASSUME ConstantsAssumption ==
  /\ Stop \notin Windows
  /\ NoWindow \notin Windows
  /\ FailedQueueSize \in Nat \ {0}
  /\ FlushChoices \subseteq BOOLEAN
  /\ MaxCloses \in Nat /\ MaxFaults \in Nat /\ MaxCrashes \in Nat

VARIABLES
  \* the client thread and the fields of the LiveIndexer object
  pc,             \* where the client thread is inside the public API
  capture_q,      \* _capture_q
  failed_q,       \* _failed_q, as the set of window ids it holds
  running,        \* _pause_event is set
  stop_requested, \* _worker_stop_requested
  closed,         \* _closed
  worker,         \* the daemon: "none" before start, its step, or "dead"
  cur,            \* the window _process_one is working on
  snap,           \* _compact's token_lists, keywords_map and metadata_map
  step,           \* index in CanonicalOrder of the next file to write
  skipped,        \* shard files whose unlink raised in this compaction
  \* the checkpoint directory
  boundaries,     \* windows with a boundaries/window_NNN.npy
  shards,         \* per kind, windows with a complete shard line
  canon,          \* the canonical files
  manifest,       \* manifest.json
  \* history: what the properties compare with
  accepted,       \* windows enqueue accepted
  indexed,        \* windows _windows_written counted: all shard lines appended
  reported,       \* windows named by a RuntimeError of flush_and_close
  dropped,        \* failures whose record did not fit in _failed_q
  lost,           \* windows in memory at a crash
  closes, faults, crashes, compactions

client  == <<pc, running, stop_requested, closed, closes>>
daemon  == <<worker, cur>>
queues  == <<capture_q, failed_q>>
merge   == <<snap, step, skipped, compactions>>
disk    == <<boundaries, shards, canon, manifest>>
history == <<accepted, indexed, reported, dropped, lost>>
limits  == <<faults, crashes>>
vars    == <<client, daemon, queues, merge, disk, history, limits>>

ShardKind == {"tokens", "keywords", "metadata"}
CanonicalOrder ==
  <<"window_token_lists", "window_tokens", "keywords", "window_metadata", "idf">>
CanonicalFile ==
  {"window_token_lists", "window_tokens", "keywords", "window_metadata", "idf"}

\* A canonical file that does not exist, told apart from one with no windows.
Absent == {NoWindow}

\* What _compact writes into each canonical file.
ContentOf(f) ==
  CASE f = "keywords"        -> snap["keywords"]
    [] f = "window_metadata" -> snap["metadata"]
    [] OTHER                 -> snap["tokens"]

\* The windows a reader finds in a canonical file.
Merged(f) == IF canon[f] = Absent THEN {} ELSE canon[f]

WindowsOf(q)  == {w \in Windows : \E i \in 1..Len(q) : q[i] = w}
QueuedWindows == WindowsOf(capture_q)
InHand        == {cur} \ {NoWindow}
WorkerAlive   == worker \notin {"none", "dead"}
Compacting    == pc \in {"compact", "write", "unlink", "manifest"}

-----------------------------------------------------------------------------
(* Construction on an empty directory.                                     *)

Init ==
  /\ pc = "idle" /\ running = TRUE /\ stop_requested = FALSE /\ closed = FALSE
  /\ worker = "none" /\ cur = NoWindow
  /\ capture_q = <<>> /\ failed_q = {}
  /\ snap = [k \in ShardKind |-> {}] /\ step = 1 /\ skipped = {} /\ compactions = 0
  /\ boundaries = {} /\ shards = [k \in ShardKind |-> {}]
  /\ canon = [f \in CanonicalFile |-> Absent] /\ manifest = "absent"
  /\ accepted = {} /\ indexed = {} /\ reported = {} /\ dropped = {} /\ lost = {}
  /\ closes = 0 /\ faults = 0 /\ crashes = 0

-----------------------------------------------------------------------------
(* The client thread: enqueue, pause, resume, stop.                        *)

\* Window ids are handed out by a session-monotonic counter: never twice.
\* _ensure_worker starts the daemon only if it was never started.
Enqueue(w) ==
  /\ pc = "idle" /\ ~closed
  /\ w \in Windows \ accepted
  /\ accepted' = accepted \cup {w}
  /\ worker' = IF worker = "none" THEN "gate" ELSE worker
  /\ capture_q' = Append(capture_q, w)
  /\ UNCHANGED <<client, cur, failed_q, merge, disk, indexed, reported, dropped,
                 lost, limits>>

PauseOrResume ==
  /\ pc # "down"
  /\ running' = ~running
  /\ UNCHANGED <<pc, stop_requested, closed, closes, daemon, queues, merge, disk,
                 history, limits>>

\* stop() raises the flag, then enqueues the sentinel: the daemon may exit on
\* an empty queue between the two.
StopCall ==
  /\ pc = "idle" /\ ~closed /\ closes < MaxCloses
  /\ closes' = closes + 1
  /\ stop_requested' = TRUE
  /\ pc' = "stop_put"
  /\ UNCHANGED <<running, closed, daemon, queues, merge, disk, history, limits>>

StopPut ==
  /\ pc = "stop_put"
  /\ capture_q' = Append(capture_q, Stop)
  /\ pc' = "stop_join"
  /\ UNCHANGED <<running, stop_requested, closed, closes, daemon, failed_q, merge,
                 disk, history, limits>>

StopJoined ==
  /\ pc = "stop_join" /\ ~WorkerAlive
  /\ closed' = TRUE
  /\ pc' = "idle"
  /\ UNCHANGED <<running, stop_requested, closes, daemon, queues, merge, disk,
                 history, limits>>

-----------------------------------------------------------------------------
(* The client thread: flush_and_close.                                     *)

FlushCall ==
  /\ pc = "idle" /\ ~closed /\ closes < MaxCloses
  /\ closes' = closes + 1
  /\ capture_q' = Append(capture_q, Stop)
  /\ pc' = "flush_join"
  /\ UNCHANGED <<running, stop_requested, closed, daemon, failed_q, merge, disk,
                 history, limits>>

\* Mutant: join() without a timeout.
JoinForever == FALSE

\* join(timeout) of stop (30 s) or flush_and_close (60 s) gives up and raises.
JoinTimeout ==
  /\ pc \in {"stop_join", "flush_join"} /\ WorkerAlive
  /\ pc' = "idle"
  /\ UNCHANGED <<running, stop_requested, closed, closes, daemon, queues, merge,
                 disk, history, limits>>

\* Mutants: the result of join is not looked at; the failures are drained and
\* compaction goes on.
FlushJoinedUnchecked ==
  /\ pc = "flush_join"
  /\ failed_q' = {} /\ reported' = reported \cup failed_q
  /\ pc' = IF failed_q = {} THEN "compact" ELSE "idle"
  /\ UNCHANGED <<running, stop_requested, closed, closes, daemon, capture_q, merge,
                 disk, accepted, indexed, dropped, lost, limits>>

FlushJoinedIgnoringFailures ==
  /\ pc = "flush_join" /\ ~WorkerAlive
  /\ failed_q' = {} /\ reported' = reported \cup failed_q
  /\ pc' = "compact"
  /\ UNCHANGED <<running, stop_requested, closed, closes, daemon, capture_q, merge,
                 disk, accepted, indexed, dropped, lost, limits>>

\* The daemon has ended (or never ran): a failure drained here is raised once.
FlushJoined ==
  /\ pc = "flush_join" /\ ~WorkerAlive
  /\ failed_q' = {}
  /\ reported' = reported \cup failed_q
  /\ pc' = IF failed_q = {} THEN "compact" ELSE "idle"
  /\ UNCHANGED <<running, stop_requested, closed, closes, daemon, capture_q, merge,
                 disk, accepted, indexed, dropped, lost, limits>>

\* _compact reads every shard; it raises when no window has a token line.
CompactRead ==
  /\ pc = "compact"
  /\ snap' = shards
  /\ IF shards["tokens"] = {}
       THEN pc' = "idle" /\ UNCHANGED compactions
       ELSE pc' = "write" /\ compactions' = compactions + 1
  /\ step' = 1 /\ skipped' = {}
  /\ UNCHANGED <<running, stop_requested, closed, closes, daemon, queues, disk,
                 history, limits>>

\* Mutant: the shards are removed before window_metadata.json is written.
CompactWriteTooFew ==
  /\ pc = "write"
  /\ LET f == CanonicalOrder[step] IN canon' = [canon EXCEPT ![f] = ContentOf(f)]
  /\ step' = step + 1
  /\ pc' = IF step = 3 THEN "unlink" ELSE "write"
  /\ UNCHANGED <<running, stop_requested, closed, closes, daemon, queues, snap,
                 skipped, compactions, boundaries, shards, manifest, history, limits>>

\* One atomic .tmp + os.replace per canonical file, in CanonicalOrder.
CompactWrite ==
  /\ pc = "write"
  /\ LET f == CanonicalOrder[step] IN canon' = [canon EXCEPT ![f] = ContentOf(f)]
  /\ step' = step + 1
  /\ pc' = IF step = Len(CanonicalOrder) THEN "unlink" ELSE "write"
  /\ UNCHANGED <<running, stop_requested, closed, closes, daemon, queues, snap,
                 skipped, compactions, boundaries, shards, manifest, history, limits>>

\* shard_dir.iterdir() in any order; an OSError leaves that file behind.
CompactUnlink ==
  /\ pc = "unlink"
  /\ \E k \in ShardKind : \E w \in shards[k] :
       /\ <<k, w>> \notin skipped
       /\ \/ /\ shards' = [shards EXCEPT ![k] = @ \ {w}]
             /\ UNCHANGED <<skipped, faults>>
          \/ /\ faults < MaxFaults
             /\ faults' = faults + 1
             /\ skipped' = skipped \cup {<<k, w>>}
             /\ UNCHANGED shards
  /\ UNCHANGED <<client, daemon, queues, snap, step, compactions, boundaries, canon,
                 manifest, history, crashes>>

CompactUnlinked ==
  /\ pc = "unlink"
  /\ \A k \in ShardKind : \A w \in shards[k] : <<k, w>> \in skipped
  /\ pc' = "manifest"
  /\ UNCHANGED <<running, stop_requested, closed, closes, daemon, queues, merge,
                 disk, history, limits>>

\* The final manifest replaces the in-flight one; flush_and_close returns.
CompactManifest ==
  /\ pc = "manifest"
  /\ manifest' = "final"
  /\ closed' = TRUE
  /\ pc' = "idle"
  /\ UNCHANGED <<running, stop_requested, closes, daemon, queues, merge, boundaries,
                 shards, canon, history, limits>>

\* A read or a write of _compact raises: flush_and_close propagates it and the
\* indexer stays open.
CompactFail ==
  /\ pc \in {"compact", "write", "manifest"} /\ faults < MaxFaults
  /\ faults' = faults + 1
  /\ pc' = "idle"
  /\ UNCHANGED <<running, stop_requested, closed, closes, daemon, queues, merge,
                 disk, history, crashes>>

-----------------------------------------------------------------------------
(* The daemon thread: _worker_loop and _process_one.                       *)

\* Mutant: the daemon waits for the pause instead of the resume.
WorkerGateInverted ==
  /\ worker = "gate" /\ ~running
  /\ worker' = "get"
  /\ UNCHANGED <<client, cur, queues, merge, disk, history, limits>>

\* The pause gate is only at the top of an iteration.
WorkerGate ==
  /\ worker = "gate" /\ running
  /\ worker' = "get"
  /\ UNCHANGED <<client, cur, queues, merge, disk, history, limits>>

\* get(timeout=0.5) on an empty queue: exit if stop() asked, else go round.
WorkerEmpty ==
  /\ worker = "get" /\ capture_q = <<>>
  /\ worker' = IF stop_requested THEN "dead" ELSE "gate"
  /\ UNCHANGED <<client, cur, queues, merge, disk, history, limits>>

WorkerGet ==
  /\ worker = "get" /\ capture_q # <<>>
  /\ capture_q' = Tail(capture_q)
  /\ IF Head(capture_q) = Stop
       THEN worker' = "dead" /\ UNCHANGED cur
       ELSE worker' = "capture" /\ cur' = Head(capture_q)
  /\ UNCHANGED <<client, failed_q, merge, disk, history, limits>>

\* Forward pass under the semaphore, then the boundary and residual stream.
WorkerCapture ==
  /\ worker = "capture"
  /\ boundaries' = boundaries \cup {cur}
  /\ worker' = "tokens"
  /\ UNCHANGED <<client, cur, queues, merge, shards, canon, manifest,
                 history, limits>>

NextPhase == [tokens |-> "keywords", keywords |-> "metadata", metadata |-> "flush"]

\* One JSONL line per kind: tokens, then keywords, then metadata.
WorkerAppend ==
  /\ worker \in ShardKind
  /\ shards' = [shards EXCEPT ![worker] = @ \cup {cur}]
  /\ worker' = NextPhase[worker]
  /\ indexed' = IF worker = "metadata" THEN indexed \cup {cur} ELSE indexed
  /\ UNCHANGED <<client, cur, queues, merge, boundaries, canon, manifest, accepted,
                 reported, dropped, lost, limits>>

\* The in-flight manifest, when the adapter's cadence asks for it.
WorkerFlush ==
  /\ worker = "flush"
  /\ \E flush \in FlushChoices :
       manifest' = IF flush THEN "in_flight" ELSE manifest
  /\ worker' = "gate" /\ cur' = NoWindow
  /\ UNCHANGED <<client, queues, merge, boundaries, shards, canon, history,
                 limits>>

\* Mutant: the exception is swallowed without a record.
WorkerFailSwallowed ==
  /\ worker \in {"capture", "flush"} \cup ShardKind /\ faults < MaxFaults
  /\ faults' = faults + 1
  /\ worker' = "gate" /\ cur' = NoWindow
  /\ UNCHANGED <<client, queues, merge, disk, history, crashes>>

\* _process_one raises in any phase, before or after the effect of its write
\* (a failed fsync leaves the line); the daemon records the window, or drops
\* the record when _failed_q is full, and goes on.
WorkerFail ==
  /\ worker \in {"capture", "flush"} \cup ShardKind /\ faults < MaxFaults
  /\ faults' = faults + 1
  /\ worker' = "gate" /\ cur' = NoWindow
  /\ IF Cardinality(failed_q) < FailedQueueSize
       THEN failed_q' = failed_q \cup {cur} /\ UNCHANGED dropped
       ELSE dropped' = dropped \cup {cur} /\ UNCHANGED failed_q
  /\ boundaries' \in {boundaries} \cup
       (IF worker = "capture" THEN {boundaries \cup {cur}} ELSE {})
  /\ shards' \in {shards} \cup
       (IF worker \in ShardKind
          THEN {[shards EXCEPT ![worker] = @ \cup {cur}]} ELSE {})
  /\ UNCHANGED <<client, capture_q, merge, canon, manifest, accepted, indexed,
                 reported, lost, crashes>>

-----------------------------------------------------------------------------
(* The process.                                                            *)

\* Everything in memory is gone; the directory stays as it is.
Crash ==
  /\ pc # "down" /\ crashes < MaxCrashes
  /\ crashes' = crashes + 1
  /\ pc' = "down"
  /\ running' = TRUE /\ stop_requested' = FALSE /\ closed' = FALSE
  /\ lost' = lost \cup QueuedWindows \cup InHand \cup failed_q
  /\ capture_q' = <<>> /\ failed_q' = {}
  /\ worker' = "none" /\ cur' = NoWindow
  /\ snap' = [k \in ShardKind |-> {}] /\ step' = 1 /\ skipped' = {}
  /\ UNCHANGED <<closes, compactions, disk, accepted, indexed, reported, dropped,
                 faults>>

\* A new LiveIndexer on a directory left without a final manifest, for the
\* re-run the module's crash-safety section promises.
Reopen ==
  /\ pc = "down" /\ manifest # "final"
  /\ pc' = "idle"
  /\ UNCHANGED <<running, stop_requested, closed, closes, daemon, queues, merge,
                 disk, history, limits>>

-----------------------------------------------------------------------------

StopSteps    == StopCall \/ StopPut \/ StopJoined
CompactSteps == CompactRead \/ CompactWrite \/ CompactUnlink \/ CompactUnlinked
                  \/ CompactManifest \/ CompactFail
WorkerSteps  == WorkerGate \/ WorkerEmpty \/ WorkerGet \/ WorkerCapture
                  \/ WorkerAppend \/ WorkerFlush \/ WorkerFail

Next ==
  \/ \E w \in Windows : Enqueue(w)
  \/ PauseOrResume
  \/ StopSteps
  \/ FlushCall \/ FlushJoined \/ JoinTimeout
  \/ CompactSteps
  \/ WorkerSteps
  \/ Crash \/ Reopen

\* The scheduler runs both threads.  A join is left at the latest by its
\* timeout; nothing obliges the client to call anything, the environment to
\* resume a paused daemon, or a write to fail.
ClientProgress == StopPut \/ StopJoined \/ FlushJoined \/ JoinTimeout \/ CompactSteps

Fairness == WF_vars(ClientProgress) /\ WF_vars(WorkerSteps)

Spec     == Init /\ [][Next]_vars
FairSpec == Spec /\ Fairness

-----------------------------------------------------------------------------
(* What the indexer promises.                                              *)

\* Every variable has its type.
TypeOK ==
  /\ pc \in {"idle", "stop_put", "stop_join", "flush_join", "compact", "write",
             "unlink", "manifest", "down"}
  /\ running \in BOOLEAN /\ stop_requested \in BOOLEAN /\ closed \in BOOLEAN
  /\ worker \in {"none", "gate", "get", "capture", "flush", "dead"} \cup ShardKind
  /\ cur \in Windows \cup {NoWindow}
  /\ capture_q \in Seq(Windows \cup {Stop}) /\ failed_q \subseteq Windows
  /\ snap \in [ShardKind -> SUBSET Windows] /\ step \in 1..6
  /\ skipped \subseteq ShardKind \X Windows
  /\ boundaries \subseteq Windows /\ shards \in [ShardKind -> SUBSET Windows]
  /\ canon \in [CanonicalFile -> (SUBSET Windows) \cup {Absent}]
  /\ manifest \in {"absent", "in_flight", "final"}
  /\ accepted \subseteq Windows /\ indexed \subseteq Windows
  /\ reported \subseteq Windows /\ dropped \subseteq Windows /\ lost \subseteq Windows
  /\ closes \in Nat /\ faults \in Nat /\ crashes \in Nat /\ compactions \in Nat

\* No window disappears silently between enqueue and the store: each accepted
\* window waits in the queue, is in the daemon's hand, has all its shard lines,
\* or its failure is recorded, was raised, or was dropped on a full failed
\* queue (the log line of _worker_loop), or a crash took it.
EveryWindowIsAccountedFor ==
  accepted = QueuedWindows \cup InHand \cup indexed \cup failed_q \cup reported
               \cup dropped \cup lost

\* A store whose final manifest is present loads: all canonical files exist,
\* both token files hold the same nonempty set of windows, and each of them
\* has a boundary for load_boundary.
PublishedStoreIsLoadable ==
  manifest = "final" =>
    /\ \A f \in CanonicalFile : canon[f] # Absent
    /\ canon["window_token_lists"] = canon["window_tokens"]
    /\ canon["window_token_lists"] # {}
    /\ canon["window_token_lists"] \subseteq boundaries

\* If the first close call of a run without crashes publishes, the store holds
\* every window ever accepted, with its keywords and metadata: the sentinel is
\* behind all of them, the join waits for it, and a failure is raised.
CleanCloseIsComplete ==
  manifest = "final" /\ closes = 1 /\ crashes = 0 =>
    \A f \in CanonicalFile : canon[f] = accepted

\* While the canonical files are written the shards are what was merged: no
\* line can reach a shard that is about to be removed unmerged.
SnapshotStaysCurrent == pc = "write" => snap = shards

\* Up to the end of a first compaction no durable data is destroyed: every
\* indexed window has its line in a shard or in the canonical file of its kind,
\* whatever step a crash interrupts ("Remove shards AFTER every canonical file
\* is in place").
FirstCompactionKeepsData ==
  compactions <= 1 =>
    /\ indexed \subseteq shards["tokens"] \cup Merged("window_token_lists")
    /\ indexed \subseteq shards["tokens"] \cup Merged("window_tokens")
    /\ indexed \subseteq shards["keywords"] \cup Merged("keywords")
    /\ indexed \subseteq shards["metadata"] \cup Merged("window_metadata")

\* A published store never changes: in particular no late daemon step puts the
\* in-flight manifest back over the final one.
FinalManifestIsFinal == [][manifest = "final" => UNCHANGED disk]_vars

\* stop and flush_and_close return or raise, also while the daemon is paused.
CallsReturn == pc \notin {"idle", "down"} ~> pc \in {"idle", "down"}

\* While a daemon runs and is not paused, a queued window is taken, unless the
\* daemon meets a sentinel first.
QueueDrains ==
  \A w \in Windows :
    (w \in QueuedWindows /\ WorkerAlive) ~> (w \notin QueuedWindows \/ ~WorkerAlive \/ ~running)

-----------------------------------------------------------------------------
(* The inductive invariant of LiveIndexerProofs.                           *)

\* The daemon holds a window exactly while it works on one, and counts it
\* before it writes the in-flight manifest.
HandInv ==
  /\ IF worker \in {"capture", "flush"} \cup ShardKind
       THEN cur \in Windows ELSE cur = NoWindow
  /\ worker = "flush" => cur \in indexed

\* Only accepted windows are captured.
OfferInv == boundaries \subseteq accepted

\* Nothing is merged, closed or published beside a running daemon.
CloseInv ==
  /\ Compacting \/ closed \/ pc = "down" => ~WorkerAlive
  /\ closed => pc = "idle"
  /\ manifest = "final" => closed \/ pc = "down"

\* A shard line exists only for a captured window.
CaptureInv ==
  /\ worker \in {"flush"} \cup ShardKind => cur \in boundaries
  /\ \A k \in ShardKind : shards[k] \subseteq boundaries

\* What a compaction has read, and how far it has written it.
MergeInv ==
  /\ pc = "write" => step \in 1..5 /\ snap = shards
  /\ pc \in {"write", "unlink", "manifest"} =>
       /\ snap["tokens"] # {} /\ snap["tokens"] \subseteq boundaries
       /\ \A k \in ShardKind : snap[k] \subseteq Windows
  /\ \A i \in 1..5 :
       (pc = "write" /\ i < step) \/ pc \in {"unlink", "manifest"} =>
         canon[CanonicalOrder[i]] = ContentOf(CanonicalOrder[i])

\* The daemon appends its lines before it counts a window, and the first
\* compaction merges a line before it removes it.
KeepInv ==
  /\ worker \in {"keywords", "metadata", "flush"} => cur \in shards["tokens"]
  /\ worker \in {"metadata", "flush"} => cur \in shards["keywords"]
  /\ worker = "flush" => cur \in shards["metadata"]
  /\ pc \in {"write", "unlink", "manifest"} => compactions # 0
  /\ compactions = 0 \/ (compactions = 1 /\ pc = "write") =>
       \A k \in ShardKind : indexed \subseteq shards[k]
  /\ compactions = 1 /\ pc \in {"unlink", "manifest"} =>
       \A k \in ShardKind : indexed \subseteq snap[k]
  /\ FirstCompactionKeepsData

\* Before the first close call nothing ends the daemon.
NotClosedYet ==
  /\ pc = "idle" /\ ~stop_requested /\ worker # "dead"
  /\ compactions = 0 /\ reported = {} /\ manifest # "final"
  /\ \A i \in 1..Len(capture_q) : capture_q[i] # Stop

\* While the first close call joins the daemon, its sentinel is behind every
\* window, and the daemon leaves none when it ends.
JoinedFirst ==
  /\ compactions = 0 /\ reported = {} /\ manifest # "final"
  /\ \A i \in 1..Len(capture_q) : capture_q[i] = Stop => i = Len(capture_q)
  /\ worker = "dead" => capture_q = <<>>

\* The first close call, in a run without crashes: what is compacted is all.
CleanInv ==
  /\ pc = "down" => crashes # 0
  /\ crashes = 0 =>
       /\ lost = {}
       /\ worker = "none" => accepted = {}
       /\ failed_q = {} /\ reported = {} => dropped = {}
       /\ closes = 0 => NotClosedYet
       /\ closes = 1 /\ pc = "flush_join" => JoinedFirst
       /\ closes = 1 /\ Compacting => accepted = indexed /\ manifest # "final"
       /\ closes = 1 /\ pc = "compact" => compactions = 0
       /\ closes = 1 /\ pc \in {"write", "unlink", "manifest"} =>
            \A k \in ShardKind : snap[k] = accepted
  /\ CleanCloseIsComplete

\* The inductive invariant of the proofs: the conjunction of the parts above.
IInv ==
  /\ TypeOK /\ HandInv /\ CloseInv /\ CaptureInv /\ MergeInv /\ OfferInv
  /\ PublishedStoreIsLoadable /\ EveryWindowIsAccountedFor
  /\ KeepInv /\ CleanInv

-----------------------------------------------------------------------------
(* What the module's documentation says and the code does not do.          *)

\* flush_and_close "Raises RuntimeError if the daemon failed to process one or
\* more windows" (live_indexer.py:453-457): it never publishes a store from
\* which a failed window is missing.
PublishedMeansNoFailure ==
  manifest = "final" => reported \cup dropped \subseteq Merged("window_tokens")

\* enqueue: "enqueue one window tuple; start the daemon if idle"
\* (live_indexer.py:413): a window the open indexer holds has a daemon.
EnqueueStartsTheDaemon ==
  pc = "idle" /\ ~closed /\ QueuedWindows # {} => WorkerAlive

\* "Interrupted compaction leaves the prior shards for a re-run"
\* (live_indexer.py:63-64).
InterruptedCompactionLeavesShards ==
  pc = "down" /\ manifest # "final" => indexed \subseteq shards["tokens"]

\* The re-run of an interrupted compaction publishes what the interrupted one
\* would have: no indexed window is missing from the store.
RerunPublishesEveryIndexedWindow ==
  manifest = "final" => indexed \subseteq Merged("window_tokens")

\* "Crash before flush_and_close returns => store is incomplete => manifest
\* absent => reader skips it" (live_indexer.py:52-53).
CrashedStoreHasNoManifest ==
  pc = "down" /\ manifest # "final" => manifest = "absent"

-----------------------------------------------------------------------------
(* The store a reader sees: hidden until the final manifest is in place.   *)

Store == INSTANCE SessionStore WITH
  offered  <- accepted,
  captured <- boundaries,
  visible  <- IF manifest = "final" THEN Merged("window_tokens") ELSE {}

\* Every behaviour of the indexer, crashes and re-runs included, looks to a
\* reader like one atomic publication of captured windows.
ImplementsSessionStore == Store!Spec

=============================================================================
