--------------------------- MODULE PrefillLibrary ---------------------------
(***************************************************************************)
(* cli/commands/context/prefill: a document is run through the unlimited   *)
(* context engine window by window, and the windows, their tokens and the  *)
(* KV checkpoint at the end of each are saved to a library: every few      *)
(* minutes, at Ctrl-C and at the end.  A later run resumes the library.    *)
(*                                                                         *)
(* A token is named by its position in the document.  Windows are numbered *)
(* from 1; window_id in the code is one less.                              *)
(***************************************************************************)
EXTENDS Naturals, Sequences, FiniteSets, SequencesExt

CONSTANTS
  NumTokens,    \* tokens of the document
  WindowSize,   \* config.window_size
  MaxFaults,    \* bound: exceptions, crashes and Ctrl-C
  MaxRuns,      \* bound: runs that are not a plain resume
  Mode7         \* values of config.run_mode7

ASSUME PrefillAssumption ==
  /\ {NumTokens, WindowSize} \subseteq Nat \ {0}
  /\ {MaxFaults, MaxRuns} \subseteq Nat
  /\ Mode7 \subseteq BOOLEAN

VARIABLES
  skip,       \* why checkpoints are not written: "no", "export", "darkspace"
  tokens,     \* tokens.bin
  windows,    \* windows.json: token_count of every window; <<>> when absent
  ckpt,       \* checkpoints.npz: the windows in it
  manifest,   \* manifest.json: total_tokens and num_windows; 0 when absent
  torn,       \* files that cannot be read: a write was cut in the middle
  pc,         \* where the command is
  kind,       \* what save_library was called for
  run,        \* the memory of the command
  damage,     \* history: files that were cut or overwritten
  faults, runs

disk   == <<tokens, windows, ckpt, manifest, torn>>
bounds == <<faults, runs>>
vars   == <<skip, disk, pc, kind, run, damage, bounds>>

\* engine.archive, engine.checkpoints, engine.current_window_tokens; the tokens
\* done, _last_saved_window, _sigint_received.
Idle == [archive |-> <<>>, ckpts |-> {}, cur |-> <<>>,
         pos |-> 0, saved |-> 0, sigint |-> FALSE, mode7 |-> FALSE]

\* The document from token i to token j.
Document(i, j) == [n \in 1..(j + 1 - i) |-> i + n - 1]
Least(m, n) == IF m < n THEN m ELSE n

Init ==
  /\ skip \in {"no", "export", "darkspace"}
  /\ tokens = <<>> /\ windows = <<>> /\ ckpt = {}
  /\ manifest = [total |-> 0, num |-> 0] /\ torn = {}
  /\ pc = "down" /\ kind = "none" /\ run = Idle
  /\ damage = {} /\ faults = 0 /\ runs = 0

-----------------------------------------------------------------------------
(* restore_engine.                                                         *)

\* token_offset when the loop comes to window i: the tokens before it, by
\* windows.json.
Offset(i) ==
  LET offset[n \in 1..i] == IF n = 1 THEN 0 ELSE offset[n - 1] + windows[n - 1]
  IN offset[i]

SavedWindow(i) ==
  SubSeq(tokens, Offset(i) + 1, Least(Offset(i) + windows[i], Len(tokens)))

HasCheckpoints == "zip" \notin torn /\ 1 \in ckpt

\* Nothing in the library raises while it is restored.
Restorable ==
  /\ {"windows", "manifest"} \cap torn = {}
  /\ HasCheckpoints => 1..Len(windows) \subseteq ckpt

Restored ==
  [Idle EXCEPT
     !.archive = [i \in 1..Len(windows) |-> SavedWindow(i)],
     !.ckpts   = IF HasCheckpoints THEN 1..Len(windows) ELSE {},
     !.pos     = Offset(Len(windows) + 1),
     !.saved   = Len(windows)]

-----------------------------------------------------------------------------
(* save_library begins.                                                    *)

Ends == pc' = "down" /\ kind' = "none" /\ run' = Idle

\* An exception leaves the save k: a periodic one is inside the try, whose
\* finally saves again.
SaveRaises(k, r) ==
  IF k = "quick" THEN pc' = "flush" /\ kind' = "none" /\ run' = r ELSE Ends

\* Without windows nothing is saved; WindowMeta refuses a window without tokens.
Save(k, r) ==
  IF r.archive = <<>> THEN Ends
  ELSE IF \E i \in 1..Len(r.archive) : r.archive[i] = <<>> THEN SaveRaises(k, r)
  ELSE pc' = "zip" /\ kind' = k /\ run' = r

\* The loop goes on, unless Ctrl-C was pressed.
GoOn(r) ==
  IF r.sigint THEN Save("interrupted", r) ELSE pc' = "loop" /\ kind' = "none" /\ run' = r

-----------------------------------------------------------------------------
(* context_prefill_cmd.                                                    *)

Plain(resume, phases) == resume /\ phases = {"windows"}

\* The command starts.  "pages": --store-pages, and pages.npz is not there.
Start(resume, phases) ==
  /\ pc = "down"
  /\ Plain(resume, phases) \/ runs < MaxRuns
  /\ runs' = IF Plain(resume, phases) THEN runs ELSE runs + 1
  /\ resume => Restorable
  /\ damage' = IF resume \/ windows = <<>> THEN damage ELSE damage \cup {"fresh"}
  /\ LET r == [(IF resume THEN Restored ELSE Idle) EXCEPT !.mode7 = "mode7" \in phases]
     IN IF "windows" \notin phases
          THEN r.pos > 0 /\ Save("phases", r)
        ELSE IF r.pos >= NumTokens
          THEN "pages" \in phases /\ Save("pages", r)
          ELSE pc' = "loop" /\ kind' = "none" /\ run' = r
  /\ UNCHANGED <<skip, disk, faults>>

Chunk == Document(run.pos + 1, Least(run.pos + WindowSize, NumTokens))
LastWindow == Len(run.archive)

\* engine.process raises when the checkpoint of the window before is not there.
Chained == LastWindow = 0 \/ LastWindow \in run.ckpts

\* _close_window over the tokens w.
Closed(r, w) ==
  [r EXCEPT !.archive = Append(@, w), !.ckpts = @ \cup {Len(r.archive) + 1}, !.cur = <<>>]

\* engine.process of the next chunk.
Process ==
  /\ pc = "loop" /\ run.pos < NumTokens /\ Chained
  /\ LET r == [run EXCEPT !.pos = @ + Len(Chunk)]
     IN run' = IF Len(Chunk) = WindowSize THEN Closed(r, Chunk) ELSE [r EXCEPT !.cur = Chunk]
  /\ pc' = "processed"
  /\ UNCHANGED <<skip, disk, kind, damage, bounds>>

\* engine.process raises: in the forward, while the window is closed, or in
\* what SparseIndexEngine does after it.
ProcessFails ==
  /\ pc = "loop" /\ run.pos < NumTokens
  /\ \/ ~Chained /\ run' = run /\ UNCHANGED faults
     \/ /\ Chained /\ faults < MaxFaults /\ faults' = faults + 1
        /\ \/ run' = run
           \/ run' = [run EXCEPT !.cur = Chunk]
           \/ Len(Chunk) = WindowSize /\ run' = Closed(run, Chunk)
  /\ pc' = "flush"
  /\ UNCHANGED <<skip, disk, kind, damage, runs>>

\* After a chunk: a periodic save is due or not.
Processed ==
  /\ pc = "processed"
  /\ \/ run.archive # <<>> /\ Save("quick", run)
     \/ GoOn(run)
  /\ UNCHANGED <<skip, disk, damage, bounds>>

LoopEnds ==
  /\ pc = "loop" /\ run.pos >= NumTokens
  /\ pc' = "flush"
  /\ UNCHANGED <<skip, disk, kind, run, damage, bounds>>

\* The first Ctrl-C sets a flag; a second one is a Crash.
CtrlC ==
  /\ pc \in {"loop", "processed"} \/ kind = "quick"
  /\ ~run.sigint /\ faults < MaxFaults
  /\ faults' = faults + 1
  /\ run' = [run EXCEPT !.sigint = TRUE]
  /\ UNCHANGED <<skip, disk, pc, kind, damage, runs>>

\* Mutant: the partial window is not closed.
FlushNothing ==
  /\ pc = "flush"
  /\ Save("final", run)
  /\ UNCHANGED <<skip, disk, damage, bounds>>

\* The finally: engine.flush, then the final save.  It is reached from the end
\* of the loop and from every exception in it.
Flush ==
  /\ pc = "flush"
  /\ Save("final", IF run.cur = <<>> THEN run ELSE Closed(run, run.cur))
  /\ UNCHANGED <<skip, disk, damage, bounds>>

FlushFails ==
  /\ pc = "flush" /\ faults < MaxFaults
  /\ faults' = faults + 1
  /\ Ends
  /\ UNCHANGED <<skip, disk, damage, runs>>

-----------------------------------------------------------------------------
(* The files of save_library, in its order.                                *)

AppendFrom == IF kind = "pages" THEN 0 ELSE run.saved
New == (AppendFrom + 1)..LastWindow
Skips == skip = "darkspace" \/ (skip = "export" /\ kind # "pages")
Kept == IF AppendFrom = 0 THEN {} ELSE ckpt

\* save_checkpoints: all windows, or the new ones behind those in the file.
WriteCheckpoints ==
  /\ pc = "zip"
  /\ IF Skips THEN UNCHANGED <<ckpt, torn>>
     ELSE New \subseteq run.ckpts /\ ckpt' = Kept \cup New /\ torn' = torn \ {"zip"}
  /\ pc' = IF run.mode7 /\ kind \notin {"quick", "pages"} THEN "mode7" ELSE "tokens"
  /\ UNCHANGED <<skip, tokens, windows, manifest, kind, run, damage, bounds>>

\* What CheckpointLibrary can load.
Loadable ==
  /\ manifest.num > 0 /\ windows # <<>> /\ torn = {}
  /\ 1 \in ckpt => 1..manifest.num \subseteq ckpt

\* calibrate_mode7_probes loads the library from the disk.
Calibrate ==
  /\ pc = "mode7" /\ Loadable
  /\ pc' = "tokens"
  /\ UNCHANGED <<skip, disk, kind, run, damage, bounds>>

\* Mutant: the tokens of the new windows are appended, as the checkpoints are.
WriteTokensAppended ==
  /\ pc = "tokens"
  /\ tokens' = tokens \o FlattenSeq(SubSeq(run.archive, AppendFrom + 1, LastWindow))
  /\ pc' = "windows"
  /\ UNCHANGED <<skip, windows, ckpt, manifest, torn, kind, run, damage, bounds>>

\* tokens.bin is written anew with every save.
WriteTokens ==
  /\ pc = "tokens"
  /\ tokens' = FlattenSeq(run.archive)
  /\ pc' = "windows"
  /\ UNCHANGED <<skip, windows, ckpt, manifest, torn, kind, run, damage, bounds>>

WriteWindows ==
  /\ pc = "windows"
  /\ windows' = [i \in 1..LastWindow |-> Len(run.archive[i])]
  /\ torn' = torn \ {"windows"}
  /\ pc' = "manifest"
  /\ UNCHANGED <<skip, tokens, ckpt, manifest, kind, run, damage, bounds>>

IsComplete == kind \in {"final", "phases", "pages"}

\* Mutant: the last checkpoint leaves the memory too.
EvictedToTheLast == (run.saved + 1)..LastWindow

\* After a periodic save the checkpoints that were written leave the memory,
\* but for the last one, from which the next window goes on.
Evicted == (run.saved + 1)..(LastWindow - 1)

WriteManifest ==
  /\ pc = "manifest"
  /\ manifest' = [total |-> IF IsComplete THEN NumTokens ELSE Len(FlattenSeq(run.archive)),
                  num   |-> LastWindow]
  /\ torn' = torn \ {"manifest"}
  /\ IF kind = "quick"
       THEN GoOn([run EXCEPT !.ckpts = @ \ Evicted, !.saved = LastWindow])
       ELSE Ends
  /\ UNCHANGED <<skip, tokens, windows, ckpt, damage, bounds>>

\* A step of the save is cut by an exception, after which an archive that was
\* begun is closed, or by the end of the process.
Cut(crashed) ==
  \/ UNCHANGED <<disk, damage>>
  \/ /\ pc = "zip" /\ ~Skips
     /\ IF crashed THEN ckpt' = {} /\ torn' = torn \cup {"zip"}
        ELSE /\ \E j \in AppendFrom..LastWindow :
                  /\ (AppendFrom + 1)..j \subseteq run.ckpts
                  /\ ckpt' = Kept \cup ((AppendFrom + 1)..j)
             /\ torn' = torn \ {"zip"}
     /\ damage' = IF crashed \/ (AppendFrom = 0 /\ windows # <<>>) THEN damage \cup {"zip"} ELSE damage
     /\ UNCHANGED <<tokens, windows, manifest>>
  \/ /\ pc = "tokens"
     /\ \E n \in 0..(Len(FlattenSeq(run.archive)) - 1) : tokens' = SubSeq(FlattenSeq(run.archive), 1, n)
     /\ damage' = damage \cup {"tokens"}
     /\ UNCHANGED <<windows, ckpt, manifest, torn>>
  \/ /\ pc \in {"windows", "manifest"}
     /\ windows' = IF pc = "windows" THEN <<>> ELSE windows
     /\ manifest' = IF pc = "manifest" THEN [total |-> 0, num |-> 0] ELSE manifest
     /\ torn' = torn \cup {pc}
     /\ damage' = damage \cup {pc}
     /\ UNCHANGED <<tokens, ckpt>>

Saving == pc \in {"zip", "mode7", "tokens", "windows", "manifest"}

\* What raises by itself: a checkpoint that is not there, a library that does
\* not load.
Forced ==
  \/ pc = "zip" /\ ~Skips /\ ~(New \subseteq run.ckpts)
  \/ pc = "mode7" /\ ~Loadable

SaveFails ==
  /\ Saving
  /\ \/ Forced /\ UNCHANGED faults
     \/ ~Forced /\ faults < MaxFaults /\ faults' = faults + 1
  /\ Cut(FALSE)
  /\ SaveRaises(kind, run)
  /\ UNCHANGED <<skip, runs>>

Crash ==
  /\ pc # "down" /\ faults < MaxFaults
  /\ faults' = faults + 1
  /\ IF Saving THEN Cut(TRUE) ELSE UNCHANGED <<disk, damage>>
  /\ Ends
  /\ UNCHANGED <<skip, runs>>

-----------------------------------------------------------------------------
Phases == {{"windows"}, {"windows", "pages"}, {"extract"}}
            \cup (IF TRUE \in Mode7 THEN {{"windows", "mode7"}, {"mode7"}} ELSE {})

Resume == Start(TRUE, {"windows"})
Loop   == Process \/ ProcessFails \/ Processed \/ LoopEnds \/ Flush
Writes == WriteCheckpoints \/ Calibrate \/ WriteTokens \/ WriteWindows \/ WriteManifest
Faults == CtrlC \/ FlushFails \/ Crash

Next ==
  \/ \E resume \in BOOLEAN, phases \in Phases : Start(resume, phases)
  \/ Loop \/ Writes \/ SaveFails \/ Faults

Spec == Init /\ [][Next]_vars

\* The command runs to its end, and the user runs it again until it is done.
FairSpec == Spec /\ WF_vars(Resume) /\ WF_vars(Loop \/ Writes \/ SaveFails)

-----------------------------------------------------------------------------
(* What the library promises.                                              *)

TypeOK ==
  /\ skip \in {"no", "export", "darkspace"}
  /\ tokens \in Seq(1..NumTokens) /\ windows \in Seq(0..WindowSize)
  /\ ckpt \subseteq Nat \ {0}
  /\ manifest \in [total : Nat, num : Nat]
  /\ torn \subseteq {"zip", "windows", "manifest"}
  /\ pc \in {"down", "loop", "processed", "flush", "zip", "mode7", "tokens", "windows", "manifest"}
  /\ kind \in {"none", "quick", "interrupted", "final", "phases", "pages"}
  /\ run \in [archive : Seq(Seq(1..NumTokens)), ckpts : SUBSET (Nat \ {0}), cur : Seq(1..NumTokens),
              pos : Nat, saved : Nat, sigint : BOOLEAN, mode7 : BOOLEAN]
  /\ damage \subseteq {"zip", "tokens", "windows", "manifest", "fresh"}

\* tokens.bin is rewritten from its beginning: what a cut leaves of it is lost.
TokensAreSafe == damage \cap {"tokens", "fresh"} = {}

\* However often the command is interrupted and resumed, the windows in memory
\* and in the library are the beginning of the document, each token once and in
\* order, as long as no write of tokens.bin was cut and no library overwritten
\* (restore_engine, context_prefill_cmd, save_library); and the types are right.
NothingIsSkipped ==
  /\ TypeOK
  /\ TokensAreSafe =>
    LET done == FlattenSeq(run.archive) \o run.cur
    IN /\ done = Document(1, Len(done))
       /\ pc \in {"loop", "processed"} => run.pos = Len(done)
       /\ Len(tokens) >= Offset(Len(windows) + 1)
       /\ tokens = Document(1, Len(tokens))

\* Without a cut archive the library on disk can always be restored, and the
\* engine has the checkpoint the next window goes on from, although checkpoints
\* leave the memory (save_checkpoints, CheckpointStore.evict, restore_engine).
LibraryCanBeResumed ==
  skip = "no" /\ damage \cap {"zip", "fresh"} = {} =>
    /\ 1..Len(windows) \subseteq ckpt
    /\ pc = "loop" => Chained

Whole == windows # <<>> /\ torn = {} /\ tokens = Document(1, NumTokens)
           /\ Offset(Len(windows) + 1) = NumTokens

\* A library that keeps its checkpoints, and of which no file was cut or
\* overwritten, is completed by running the command again (docs/context/prefill/
\* windows.md).
LibraryCompletes == <>[](Whole \/ damage # {} \/ skip # "no")

\* Violated.  _mode7_calibrate.py:28 "Loads the library from disk (just written
\* by save_library)".
CalibrationFindsTheLibrary ==
  pc = "mode7" => Loadable /\ manifest.num = LastWindow

\* Violated by an exception in engine.process, whose finally saves the library
\* as complete.  library.py:100, total_tokens: "Total tokens across all windows".
TotalIsOfTheWindows ==
  pc = "down" /\ damage = {} /\ manifest.num = Len(windows) =>
    manifest.total = Offset(Len(windows) + 1)
=============================================================================
