----------------------------- MODULE MemoryChat -----------------------------
(***************************************************************************)
(* scripts/interactive_memory_chat.py: the REPL of the memory chat, its    *)
(* .dirty flag, /save, /new and the exit hook, with one LiveIndexer per    *)
(* session and the retriever over the stores published so far.             *)
(*                                                                         *)
(* A text is one window <<id, turn>>: id from _window_counter, turn the    *)
(* index of the turn it is of.  A LiveIndexer is its queue, its daemon and *)
(* what it has indexed, failed and published (module LiveIndexer has the   *)
(* detail).  An indexer /new has let go of keeps running.                  *)
(***************************************************************************)
EXTENDS Naturals, Sequences, FiniteSets

CONSTANTS
  Modes,          \* the memory modes the user may choose
  Stop,           \* the indexer's sentinel
  MaxSessions,    \* bound: sessions over all runs of the program
  MaxExchanges,   \* bound: user inputs that are not commands
  MaxSaves,       \* bound: sentinels /save, /new and the exit put
  MaxFaults,      \* bound: exceptions, failed windows and join timeouts
  MaxCrashes      \* bound: kills of the process

ASSUME ChatAssumption ==
  /\ Modes \subseteq {"auto", "kv_direct", "vec_inject", "topical", "off"}
  /\ MaxSessions \in Nat \ {0} /\ MaxExchanges \in Nat /\ MaxSaves \in Nat
  /\ MaxFaults \in Nat /\ MaxCrashes \in Nat
  /\ Stop \notin Nat \X Nat

Sessions == 1..MaxSessions

VARIABLES
  \* the REPL thread
  pc, caller,     \* where it is, and what save_current_session was called for
  mode,           \* memory_mode
  sid,            \* session.session_id
  turns,          \* the roles of session.turns
  messages,       \* the roles of history.messages
  counter,        \* _window_counter
  indexer,        \* self.indexer is not None
  handles,        \* self.retriever's handles; {} when it is None
  \* the indexers
  queue, daemon, indexed, failed,
  \* the store root
  dirty,          \* the .dirty file
  manifest,       \* per session: "absent", "in_flight", "final"
  published,      \* per session, the windows of the published store
  \* history
  accepted,       \* per session, the windows enqueued
  spoiled,        \* a window failed, a join timed out, a step raised, a crash
  exchanges, saves, faults, crashes

repl     == <<mode, sid, turns, messages, counter, indexer>>
indexers == <<queue, daemon, indexed, failed>>
store    == <<manifest, published>>
limits   == <<exchanges, saves, faults, crashes>>
vars     == <<pc, caller, repl, handles, indexers, dirty, store, accepted, spoiled, limits>>

Init ==
  /\ pc = "prompt" /\ caller = "none"
  /\ mode \in Modes
  /\ sid = 1
  /\ turns = <<>> /\ messages = <<>>
  /\ counter = 0
  /\ indexer \in BOOLEAN /\ (indexer \/ MaxFaults > 0)
  /\ handles = {}
  /\ queue = [s \in Sessions |-> <<>>]
  /\ daemon = [s \in Sessions |-> "none"]
  /\ indexed = [s \in Sessions |-> {}] /\ failed = [s \in Sessions |-> {}]
  /\ dirty = FALSE
  /\ manifest = [s \in Sessions |-> "absent"] /\ published = [s \in Sessions |-> {}]
  /\ accepted = [s \in Sessions |-> {}]
  /\ spoiled = FALSE
  /\ exchanges = 0 /\ saves = 0 /\ faults = (IF indexer THEN 0 ELSE 1) /\ crashes = 0

-----------------------------------------------------------------------------
(* Turns.                                                                  *)

\* begin_turn and history.add_*.
Record(role) ==
  /\ turns' = Append(turns, role)
  /\ messages' = Append(messages, role)

\* Mutant: windows are numbered within their turn.
CaptureByTurn(list) ==
  IF indexer
    THEN LET new == [i \in 1..Len(list) |-> <<0, list[i]>>] IN
         /\ queue' = [queue EXCEPT ![sid] = @ \o new]
         /\ daemon' = [daemon EXCEPT ![sid] = IF @ = "none" THEN "alive" ELSE @]
         /\ accepted' = [accepted EXCEPT ![sid] = @ \cup {new[i] : i \in 1..Len(list)}]
         /\ counter' = counter + Len(list)
    ELSE UNCHANGED <<queue, daemon, accepted, counter>>

\* _capture_turn_text_live or the streaming windower hands the windows of the
\* turns in list to the indexer, if there is one; a daemon that was never
\* started is started.
Capture(list) ==
  IF indexer
    THEN LET new == [i \in 1..Len(list) |-> <<counter + i - 1, list[i]>>] IN
         /\ queue' = [queue EXCEPT ![sid] = @ \o new]
         /\ daemon' = [daemon EXCEPT ![sid] = IF @ = "none" THEN "alive" ELSE @]
         /\ accepted' = [accepted EXCEPT ![sid] = @ \cup {new[i] : i \in 1..Len(list)}]
         /\ counter' = counter + Len(list)
    ELSE UNCHANGED <<queue, daemon, accepted, counter>>

ThisTurn == Len(turns) + 1

\* run_repl dispatches an input: plain chat without retriever or with memory
\* off, else recall_chat_turn, which records the user's turn first.
Input ==
  /\ pc = "prompt" /\ exchanges < MaxExchanges
  /\ exchanges' = exchanges + 1
  /\ IF handles = {} \/ mode = "off"
       THEN pc' = "plain" /\ UNCHANGED <<turns, messages>>
       ELSE pc' = "recall" /\ Record("user")
  /\ UNCHANGED <<caller, mode, sid, counter, indexer, handles, indexers, dirty, store,
                 accepted, spoiled, saves, faults, crashes>>

\* recall_chat_turn in mode topical or entity_mention, with a match: the
\* user's text is captured; the answer is recorded but not captured.
RecallTopical ==
  /\ pc = "recall" /\ mode = "topical"
  /\ Record("assistant")
  /\ Capture(<<Len(turns)>>)
  /\ dirty' = TRUE
  /\ pc' = "prompt"
  /\ UNCHANGED <<caller, mode, sid, indexer, handles, indexed, failed, store, spoiled,
                 limits>>

\* Mutant: the user's turn is not taken back before another method records it.
RecallElsewhereTwice ==
  /\ pc = "recall"
  /\ pc' = IF mode \in {"auto", "kv_direct"} THEN "kv" ELSE "plain"
  /\ UNCHANGED <<caller, repl, handles, indexers, dirty, store, accepted, spoiled, limits>>

\* The other modes, and a topical search without a candidate: the user's turn
\* is taken back, and memory_recall_turn or plain_chat_turn records it.
RecallElsewhere ==
  /\ pc = "recall"
  /\ turns' = SubSeq(turns, 1, Len(turns) - 1)
  /\ messages' = SubSeq(messages, 1, Len(messages) - 1)
  /\ pc' = IF mode \in {"auto", "kv_direct"} THEN "kv" ELSE "plain"
  /\ UNCHANGED <<caller, mode, sid, counter, indexer, handles, indexers, dirty, store,
                 accepted, spoiled, limits>>

\* memory_recall_turn answers from memory: both turns are recorded and
\* captured after the generation.
RecallKV ==
  /\ pc = "kv"
  /\ turns' = turns \o <<"user", "assistant">>
  /\ messages' = messages \o <<"user", "assistant">>
  /\ Capture(<<ThisTurn, ThisTurn + 1>>)
  /\ dirty' = TRUE
  /\ pc' = "prompt"
  /\ UNCHANGED <<caller, mode, sid, indexer, handles, indexed, failed, store, spoiled,
                 limits>>

\* No relevant memory, or the KV-direct path raised: plain chat.
RecallMiss ==
  /\ pc = "kv"
  /\ pc' = "plain"
  /\ UNCHANGED <<caller, repl, handles, indexers, dirty, store, accepted, spoiled, limits>>

\* plain_chat_turn up to the generation: the user's turn is recorded and
\* captured, and the assistant's turn begun (its text comes later).
PlainBegin ==
  /\ pc = "plain"
  /\ turns' = turns \o <<"user", "assistant">>
  /\ messages' = Append(messages, "user")
  /\ Capture(<<ThisTurn>>)
  /\ pc' = "decode"
  /\ UNCHANGED <<caller, mode, sid, indexer, handles, indexed, failed, dirty, store,
                 spoiled, limits>>

\* The reply has been streamed through the windower.
PlainEnd ==
  /\ pc = "decode"
  /\ messages' = Append(messages, "assistant")
  /\ Capture(<<Len(turns)>>)
  /\ dirty' = TRUE
  /\ pc' = "prompt"
  /\ UNCHANGED <<caller, mode, sid, turns, indexer, handles, indexed, failed, store,
                 spoiled, limits>>

\* /kv_query: a hit is shown without being recorded, but marks the store dirty;
\* a miss becomes a plain turn.
KvQuery ==
  /\ pc = "prompt" /\ handles # {} /\ exchanges < MaxExchanges
  /\ exchanges' = exchanges + 1
  /\ \/ pc' = "prompt" /\ dirty' = TRUE
     \/ pc' = "plain" /\ UNCHANGED dirty
  /\ UNCHANGED <<caller, repl, handles, indexers, store, accepted, spoiled, saves, faults,
                 crashes>>

\* /memory.
SetMode ==
  /\ pc = "prompt"
  /\ mode' \in Modes
  /\ UNCHANGED <<pc, caller, sid, turns, messages, counter, indexer, handles, indexers,
                 dirty, store, accepted, spoiled, limits>>

-----------------------------------------------------------------------------
(* Saving: emit_store, save_current_session, /new and the exit hook.       *)

\* Control goes back to the caller c of a save that returned ok.
Return(c, ok) ==
  /\ caller' = "none"
  /\ pc' = CASE c = "save" -> "prompt" [] c = "quit" -> "atexit"
             [] c = "atexit" -> "exited" [] c = "new" -> "new"
  /\ dirty' = IF ok /\ c # "new" THEN FALSE ELSE dirty

\* save_current_session, after the transcript and the clauses are written:
\* the sentinel goes to the indexer, if there still is one.
Save(c) ==
  /\ saves < MaxSaves
  /\ saves' = saves + 1
  /\ caller' = c
  /\ IF indexer
       THEN pc' = "join" /\ queue' = [queue EXCEPT ![sid] = Append(@, Stop)]
       ELSE pc' = "refresh" /\ UNCHANGED queue
  /\ UNCHANGED dirty

\* emit_store: nothing without .dirty; an empty session clears a stale flag.
EmitStore(c) ==
  IF ~dirty \/ turns = <<>>
    THEN /\ Return(c, TRUE)
         /\ UNCHANGED <<queue, saves>>
    ELSE Save(c)

\* /save, /quit or EOF at the prompt, and the exit hook that follows an exit
\* or an exception.
Emit ==
  /\ \/ pc = "prompt" /\ \E c \in {"save", "quit"} : EmitStore(c)
     \/ pc = "atexit" /\ EmitStore("atexit")
  /\ UNCHANGED <<repl, handles, daemon, indexed, failed, store, accepted, spoiled,
                 exchanges, faults, crashes>>

\* Mutant: /new does not save.
NewCommandUnsaved ==
  /\ pc = "prompt"
  /\ caller' = "none" /\ pc' = "new"
  /\ UNCHANGED <<repl, handles, indexers, dirty, store, accepted, spoiled, limits>>

\* /new saves a session with turns without looking at .dirty or at the result.
NewCommand ==
  /\ pc = "prompt"
  /\ IF turns = <<>>
       THEN caller' = "none" /\ pc' = "new" /\ UNCHANGED <<queue, dirty, saves>>
       ELSE Save("new")
  /\ UNCHANGED <<repl, handles, daemon, indexed, failed, store, accepted, spoiled,
                 exchanges, faults, crashes>>

\* _make_live_indexer: None when constructing the indexer raised.
NewIndexer ==
  \/ indexer' = TRUE /\ UNCHANGED faults
  \/ indexer' = FALSE /\ faults < MaxFaults /\ faults' = faults + 1

\* start_new_session.
StartNew ==
  /\ pc = "new" /\ sid < MaxSessions
  /\ sid' = sid + 1
  /\ turns' = <<>> /\ messages' = <<>> /\ counter' = 0 /\ NewIndexer
  /\ pc' = "prompt"
  /\ UNCHANGED <<caller, mode, handles, indexers, dirty, store, accepted, spoiled,
                 exchanges, saves, crashes>>

\* flush_and_close raises a RuntimeError, which save_current_session turns
\* into False and the indexer stays: the join timed out, a window failed
\* (and the record is drained), or nothing was indexed.
FlushFails ==
  /\ pc = "join"
  /\ \/ /\ daemon[sid] = "alive" /\ faults < MaxFaults
        /\ faults' = faults + 1 /\ spoiled' = TRUE
        /\ UNCHANGED failed
     \/ /\ daemon[sid] # "alive" /\ (failed[sid] # {} \/ indexed[sid] = {})
        /\ failed' = [failed EXCEPT ![sid] = {}]
        /\ UNCHANGED <<faults, spoiled>>
  /\ Return(caller, FALSE)
  /\ UNCHANGED <<repl, handles, queue, daemon, indexed, store, accepted, exchanges, saves, crashes>>

\* Mutant: the daemon is not joined.
FlushWithoutJoin ==
  /\ pc = "join" /\ failed[sid] = {} /\ indexed[sid] # {}
  /\ manifest' = [manifest EXCEPT ![sid] = "final"]
  /\ published' = [published EXCEPT ![sid] = indexed[sid]]
  /\ indexer' = FALSE
  /\ pc' = "refresh"
  /\ UNCHANGED <<caller, mode, sid, turns, messages, counter, handles, indexers, dirty,
                 accepted, spoiled, limits>>

\* flush_and_close compacts and publishes; the indexer is let go.
FlushSucceeds ==
  /\ pc = "join" /\ daemon[sid] # "alive" /\ failed[sid] = {} /\ indexed[sid] # {}
  /\ manifest' = [manifest EXCEPT ![sid] = "final"]
  /\ published' = [published EXCEPT ![sid] = indexed[sid]]
  /\ indexer' = FALSE
  /\ pc' = "refresh"
  /\ UNCHANGED <<caller, mode, sid, turns, messages, counter, handles, indexers, dirty,
                 accepted, spoiled, limits>>

\* Mutant: in-flight manifests are not skipped.
EnumerableByPresence == {s \in Sessions : manifest[s] # "absent"}

\* iter_checkpoint_handles: the stores a reader may open.
Enumerable == {s \in Sessions : manifest[s] = "final"}

\* vec_inject.npz is emitted or not, now or by an earlier save, which promotes
\* topical to kv_direct.
Promote == mode' \in {mode} \cup (IF mode = "topical" THEN {"kv_direct"} ELSE {})

\* Then the retriever is built, or its handles are enumerated again.
Refresh ==
  /\ pc = "refresh"
  /\ Promote
  /\ handles' = Enumerable
  /\ Return(caller, TRUE)
  /\ UNCHANGED <<sid, turns, messages, counter, indexer, indexers, store, accepted,
                 spoiled, limits>>

\* refresh_handles raises a RuntimeError: False, though the store is published.
RefreshFails ==
  /\ pc = "refresh" /\ handles # {} /\ faults < MaxFaults
  /\ faults' = faults + 1 /\ spoiled' = TRUE
  /\ Promote
  /\ Return(caller, FALSE)
  /\ UNCHANGED <<sid, turns, messages, counter, indexer, handles, indexers, store,
                 accepted, exchanges, saves, crashes>>

\* Any other exception, or Ctrl-C: it leaves run_repl and the exit hook runs.
\* In the exit hook itself it is the end.
Raise ==
  /\ pc # "exited" /\ faults < MaxFaults
  /\ faults' = faults + 1 /\ spoiled' = TRUE
  /\ pc' = IF "atexit" \in {pc, caller} THEN "exited" ELSE "atexit"
  /\ caller' = "none"
  /\ UNCHANGED <<repl, handles, indexers, dirty, store, accepted, exchanges, saves, crashes>>

-----------------------------------------------------------------------------
(* The daemons, and the process.                                           *)

\* The daemon of session s takes the next item: the sentinel ends it; a window
\* is indexed, with an in-flight manifest, or fails.
DaemonStep(s) ==
  /\ daemon[s] = "alive" /\ queue[s] # <<>>
  /\ queue' = [queue EXCEPT ![s] = Tail(@)]
  /\ LET w == Head(queue[s]) IN
       \/ /\ w = Stop
          /\ daemon' = [daemon EXCEPT ![s] = "dead"]
          /\ UNCHANGED <<indexed, failed, manifest, spoiled, faults>>
       \/ /\ w # Stop
          /\ indexed' = [indexed EXCEPT ![s] = @ \cup {w}]
          /\ manifest' = [manifest EXCEPT ![s] = "in_flight"]
          /\ UNCHANGED <<daemon, failed, spoiled, faults>>
       \/ /\ w # Stop /\ faults < MaxFaults
          /\ faults' = faults + 1 /\ spoiled' = TRUE
          /\ failed' = [failed EXCEPT ![s] = @ \cup {w}]
          /\ UNCHANGED <<daemon, indexed, manifest>>
  /\ UNCHANGED <<pc, caller, repl, handles, dirty, published, accepted, exchanges, saves, crashes>>

\* The process is killed.
Crash ==
  /\ pc # "exited" /\ crashes < MaxCrashes
  /\ crashes' = crashes + 1 /\ spoiled' = TRUE
  /\ pc' = "exited" /\ caller' = "none"
  /\ UNCHANGED <<repl, handles, indexers, dirty, store, accepted, exchanges, saves, faults>>

\* The program is started again on the store: daemons and queues are gone, the
\* retriever is built if a store is published, a new session begins.
Restart ==
  /\ pc = "exited" /\ sid < MaxSessions
  /\ pc' = "prompt"
  /\ sid' = sid + 1
  /\ turns' = <<>> /\ messages' = <<>> /\ counter' = 0 /\ NewIndexer
  /\ mode' \in Modes
  /\ handles' = Enumerable
  /\ queue' = [s \in Sessions |-> <<>>]
  /\ daemon' = [s \in Sessions |-> "none"]
  /\ failed' = [s \in Sessions |-> {}]
  /\ UNCHANGED <<caller, indexed, dirty, store, accepted, spoiled, exchanges,
                 saves, crashes>>

TurnStep == Input \/ RecallTopical \/ RecallElsewhere \/ RecallKV \/ RecallMiss
              \/ PlainBegin \/ PlainEnd \/ KvQuery \/ SetMode
SaveStep == Emit \/ NewCommand \/ StartNew \/ FlushFails \/ FlushSucceeds
              \/ Refresh \/ RefreshFails \/ Raise

Next == TurnStep \/ SaveStep \/ (\E s \in Sessions : DaemonStep(s)) \/ Crash \/ Restart

Spec == Init /\ [][Next]_vars

-----------------------------------------------------------------------------

Window == Nat \X Nat

\* Every variable has its type.
TypeOK ==
  /\ pc \in {"prompt", "recall", "kv", "plain", "decode", "join", "refresh", "new",
             "atexit", "exited"}
  /\ caller \in {"none", "save", "quit", "new", "atexit"}
  /\ pc \in {"join", "refresh"} <=> caller # "none"
  /\ mode \in Modes \cup {"kv_direct"}
  /\ sid \in Sessions
  /\ turns \in Seq({"user", "assistant"}) /\ messages \in Seq({"user", "assistant"})
  /\ counter \in Nat /\ indexer \in BOOLEAN
  /\ handles \subseteq Sessions
  /\ queue \in [Sessions -> Seq(Window \cup {Stop})]
  /\ daemon \in [Sessions -> {"none", "alive", "dead"}]
  /\ indexed \in [Sessions -> SUBSET Window] /\ failed \in [Sessions -> SUBSET Window]
  /\ published \in [Sessions -> SUBSET Window] /\ accepted \in [Sessions -> SUBSET Window]
  /\ dirty \in BOOLEAN /\ spoiled \in BOOLEAN
  /\ manifest \in [Sessions -> {"absent", "in_flight", "final"}]

\* No window overwrites another's boundary: window ids are unique over the
\* turns of a session, on every path that captures.
WindowIdsAreUnique ==
  \A s \in Sessions : \A v, w \in accepted[s] : v[1] = w[1] => v = w

Alternate(q) == \A i \in 1..Len(q) : q[i] = IF i % 2 = 1 THEN "user" ELSE "assistant"

\* At the prompt the transcript and the chat history tell the same exchanges,
\* user and assistant in turn, whichever path answered or fell back.
TranscriptMatchesHistory ==
  pc = "prompt" =>
    /\ messages = turns
    /\ Alternate(messages) /\ Len(messages) % 2 = 0

\* What the retriever offers for recall is a published store with windows,
\* while abandoned and live indexers go on writing (maybe_load_retriever).
HandlesAreReadable ==
  \A s \in handles : manifest[s] = "final" /\ published[s] # {}

\* A published store stays published, with the windows it was published with,
\* although /new leaves indexers running (save_current_session).
PublicationsAreFinal ==
  [][\A s \in Sessions :
       manifest[s] = "final" =>
         manifest'[s] = "final" /\ published'[s] = published[s]]_vars

\* A published session is over: its indexer is let go, and its daemon has
\* ended and is not started again.
PublishedIsOver ==
  /\ pc = "join" => indexer
  /\ \A s \in Sessions :
       /\ daemon[s] # "none" => s <= sid
       /\ manifest[s] = "final" =>
            /\ published[s] # {}
            /\ daemon[s] # "alive"
            /\ s < sid \/ (s = sid /\ ~indexer)

\* Without a fault, a save that succeeded while the indexer was open leaves
\* nothing captured out of the store, and the way out of the program publishes
\* every window any of its sessions captured: through /save, /new, /quit, EOF
\* and the exit hook.
NothingCapturedIsLost ==
  ~spoiled =>
    /\ pc = "refresh" => accepted[sid] = published[sid]
    /\ pc = "exited" => \A s \in Sessions : accepted[s] \subseteq published[s]

\* Window ids come from a counter that starts at 0 with every session.
IdInv ==
  /\ \A w \in accepted[sid] : w[1] < counter
  /\ WindowIdsAreUnique

\* A session that is still to come has nothing.
FutureInv ==
  \A s \in Sessions : s > sid =>
    /\ queue[s] = <<>> /\ accepted[s] = {} /\ indexed[s] = {}
    /\ failed[s] = {} /\ published[s] = {}

\* While control is on its way back to the prompt, transcript and history agree
\* but for the turn that is being answered.
TurnInv ==
  /\ pc \in {"prompt", "recall", "kv", "plain"} \/ caller = "save" => messages = turns
  /\ pc \in {"prompt", "kv", "plain"} \/ caller = "save" =>
       Alternate(messages) /\ Len(messages) % 2 = 0
  /\ pc \in {"recall", "decode"} => Alternate(messages) /\ Len(messages) % 2 = 1
  /\ pc = "decode" => turns = Append(messages, "assistant")

\* Only a session with turns is saved.
SaveInv == pc \in {"join", "refresh"} => turns # <<>>

Items(q) == {q[i] : i \in 1..Len(q)}
StopLast(q) == \A i \in 1..Len(q) : q[i] = Stop => i = Len(q)

\* An open indexer without a fault: what was captured is indexed or queued; its
\* daemon ends at the sentinel of the one save, which is behind all windows.
OpenInv ==
  /\ accepted[sid] = indexed[sid] \cup (Items(queue[sid]) \ {Stop}) /\ failed[sid] = {}
  /\ daemon[sid] = "none" => accepted[sid] = {}
  /\ pc \notin {"join", "refresh"} => daemon[sid] # "dead" /\ Stop \notin Items(queue[sid])
  /\ pc = "join" =>
       /\ accepted[sid] # {}
       /\ daemon[sid] = "dead" => queue[sid] = <<>>
       /\ StopLast(queue[sid])
  /\ pc \in {"prompt", "recall", "kv", "plain"} /\ Len(turns) > 1 => accepted[sid] # {}

\* What was captured without a fault is published before it is let go.
LossInv ==
  ~spoiled =>
    /\ indexer => OpenInv
    /\ pc \in {"join", "refresh"} => (indexer <=> pc = "join")
    /\ ~indexer => accepted[sid] = published[sid]
    /\ pc \in {"prompt", "recall", "kv", "plain"} /\ Len(turns) <= 1 => accepted[sid] = {}
    /\ (pc = "prompt" /\ ~dirty) \/ pc \in {"new", "atexit", "exited"} =>
         accepted[sid] \subseteq published[sid]
    /\ pc = "atexit" => ~dirty
    /\ \A s \in Sessions : s < sid => accepted[s] \subseteq published[s]

\* The inductive invariant of MemoryChatProofs.
IInv ==
  /\ TypeOK /\ PublishedIsOver /\ HandlesAreReadable
  /\ IdInv /\ FutureInv /\ TurnInv /\ SaveInv /\ LossInv

Encoded(s) == {w[2] : w \in published[s]}

\* Claim of _mark_dirty, "mark the store as having unsaved tokens", and of
\* DIRTY_FLAG_FILENAME, "cleared by emit_store after a successful encode":
\* without the flag every finished turn's text is in the store.
CleanMeansEncoded ==
  pc = "prompt" /\ ~dirty => \A i \in 1..Len(turns) : i \in Encoded(sid)

\* Claim of the import comment, "The chat loop now indexes streaming windows
\* into the per-session torch_store directory live": while the session has an
\* indexer every finished turn has been handed to it.
EveryTurnIsIndexedLive ==
  pc = "prompt" /\ indexer =>
    \A i \in 1..Len(turns) : \E w \in accepted[sid] : w[2] = i

\* Claim of the command list: /new is "/save, then start a fresh session".
NewMeansSaved ==
  pc = "new" => turns = <<>> \/ manifest[sid] = "final"

\* Claim of run_repl: the exit hook is the non-interactive crash-safe path:
\* after an exception it saves what the session had captured.
ExitHookSaves ==
  pc = "exited" => accepted[sid] = {} \/ manifest[sid] = "final"
=============================================================================
