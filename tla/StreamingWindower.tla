-------------------------- MODULE StreamingWindower --------------------------
(***************************************************************************)
(* chat_loop/streaming.py: StreamingWindower, the cutter of a token stream *)
(* into overlapping windows.  The tokens themselves do not matter, only    *)
(* their offsets: _token_ids is modelled by its length.                    *)
(*                                                                         *)
(* The caller (stream_assistant_reply, _stream_runtime_assistant_reply or  *)
(* _capture_turn_text_live) feeds deltas, then flushes once; on_window or  *)
(* the decode before it may raise, which ends the turn.                    *)
(***************************************************************************)
EXTENDS Integers, Sequences

CONSTANTS
  WindowTokens,   \* _window_tokens
  OverlapTokens,  \* _overlap_tokens
  MaxDelta,       \* bound: tokens of one delta
  MaxTurnTokens       \* bound: tokens of one turn

\* The checks of __init__.
ASSUME WindowerAssumption ==
  /\ WindowTokens \in Nat \ {0}
  /\ OverlapTokens \in 0..(WindowTokens - 1)
  /\ MaxDelta \in Nat /\ MaxTurnTokens \in Nat

VARIABLES
  phase,          \* "feed", inside feed_text's loop ("emit"), "flushed", "raised"
  token_count,    \* len(_token_ids)
  next_start,     \* _next_window_start_offset
  chunk_index,    \* _chunk_index
  last_full_end,  \* _last_full_window_end
  windows         \* the boundaries handed out: chunk i is windows[i + 1]

windowerVars == <<phase, token_count, next_start, chunk_index, last_full_end, windows>>

Boundary == [start : Nat, end : Nat]

WindowerInit ==
  /\ phase = "feed"
  /\ token_count = 0 /\ next_start = 0 /\ chunk_index = 0 /\ last_full_end = 0
  /\ windows = <<>>

\* feed_text appends the delta's tokens; a delta without tokens changes nothing.
Feed(n) ==
  /\ phase = "feed"
  /\ token_count + n <= MaxTurnTokens
  /\ token_count' = token_count + n
  /\ phase' = "emit"
  /\ UNCHANGED <<next_start, chunk_index, last_full_end, windows>>

WindowIsFull == token_count - next_start >= WindowTokens

\* Mutant: the cursor skips the overlap instead of repeating it.
EmitSkippingOverlap ==
  /\ phase = "emit" /\ WindowIsFull
  /\ windows' = Append(windows, [start |-> next_start, end |-> next_start + WindowTokens])
  /\ last_full_end' = next_start + WindowTokens
  /\ next_start' = next_start + WindowTokens + OverlapTokens
  /\ chunk_index' = chunk_index + 1
  /\ UNCHANGED <<phase, token_count>>

\* Mutant: last_full_end is the cursor, not the end of the window.
EmitForgettingEnd ==
  /\ phase = "emit" /\ WindowIsFull
  /\ windows' = Append(windows, [start |-> next_start, end |-> next_start + WindowTokens])
  /\ last_full_end' = next_start
  /\ next_start' = next_start + WindowTokens - OverlapTokens
  /\ chunk_index' = chunk_index + 1
  /\ UNCHANGED <<phase, token_count>>

\* One turn of the loop: hand the window out, then move the cursor.
Emit ==
  /\ phase = "emit" /\ WindowIsFull
  /\ windows' = Append(windows, [start |-> next_start, end |-> next_start + WindowTokens])
  /\ last_full_end' = next_start + WindowTokens
  /\ next_start' = next_start + WindowTokens - OverlapTokens
  /\ chunk_index' = chunk_index + 1
  /\ UNCHANGED <<phase, token_count>>

\* The loop ends; feed_text returns.
Fed ==
  /\ phase = "emit" /\ ~WindowIsFull
  /\ phase' = "feed"
  /\ UNCHANGED <<token_count, next_start, chunk_index, last_full_end, windows>>

\* Mutant: the phantom-tail test is missing.
NoTailByCursor == token_count <= next_start

\* Nothing was fed since the last window, or only its overlap is left.
NoTail == token_count <= next_start \/ token_count = last_full_end

Flush ==
  /\ phase = "feed"
  /\ phase' = "flushed"
  /\ IF NoTail
       THEN UNCHANGED <<next_start, chunk_index, windows>>
       ELSE /\ windows' = Append(windows, [start |-> next_start, end |-> token_count])
            /\ next_start' = token_count
            /\ chunk_index' = chunk_index + 1
  /\ UNCHANGED <<token_count, last_full_end>>

\* The decode or the callback of a window or of the tail raises.
Raise ==
  /\ \/ phase = "emit" /\ WindowIsFull
     \/ phase = "feed" /\ ~NoTail
  /\ phase' = "raised"
  /\ UNCHANGED <<token_count, next_start, chunk_index, last_full_end, windows>>

Reset ==
  /\ phase \in {"flushed", "raised"}
  /\ phase' = "feed"
  /\ token_count' = 0 /\ next_start' = 0 /\ chunk_index' = 0 /\ last_full_end' = 0
  /\ windows' = <<>>

WindowerNext == (\E n \in 1..MaxDelta : Feed(n)) \/ Emit \/ Fed \/ Flush \/ Raise \/ Reset

WindowerSpec == WindowerInit /\ [][WindowerNext]_windowerVars

-----------------------------------------------------------------------------

\* Every variable has its type, and emitted_chunks counts what was handed out.
WindowerTypeOK ==
  /\ phase \in {"feed", "emit", "flushed", "raised"}
  /\ token_count \in Nat /\ next_start \in Nat /\ last_full_end \in Nat
  /\ chunk_index \in Nat /\ windows \in Seq(Boundary)
  /\ chunk_index = Len(windows)

Covered(t) == \E i \in 1..Len(windows) : windows[i].start <= t /\ t < windows[i].end

\* No token is lost: after flush() every token that was fed is in a window
\* that was handed out, whatever the sizes of the deltas.
FlushCoversTheTurn ==
  phase = "flushed" => \A t \in 0..(token_count - 1) : Covered(t)

\* Consecutive windows share exactly OverlapTokens tokens, and each brings at
\* least one that no earlier window had: flush() never repeats the overlap.
WindowsAdvance ==
  \A i \in 1..(Len(windows) - 1) :
    /\ windows[i + 1].start = windows[i].end - OverlapTokens
    /\ windows[i + 1].end > windows[i].end

\* Between two calls no full window is waiting, so only the tail is shorter
\* than WindowTokens and no window is ever longer.
NoWindowWaits ==
  /\ phase = "feed" => token_count - next_start < WindowTokens
  /\ \A i \in 1..Len(windows) : windows[i].end - windows[i].start <= WindowTokens
  /\ \A i \in 1..(Len(windows) - 1) :
       windows[i].end - windows[i].start = WindowTokens

\* The cursor and _last_full_window_end against the windows handed out.
CursorInv ==
  phase # "flushed" =>
    /\ \A i \in 1..Len(windows) : windows[i].end - windows[i].start = WindowTokens
    /\ windows = <<>> => next_start = 0 /\ last_full_end = 0
    /\ windows # <<>> =>
         /\ windows[Len(windows)].end = last_full_end
         /\ last_full_end = next_start + OverlapTokens
         /\ last_full_end <= token_count

\* The handed out windows leave no hole before the end of the last one.
PrefixInv ==
  \A t \in 0..((IF windows = <<>> THEN 0 ELSE windows[Len(windows)].end) - 1) : Covered(t)

\* What flush() leaves behind.
TailInv ==
  phase = "flushed" =>
    token_count = IF windows = <<>> THEN 0 ELSE windows[Len(windows)].end

\* The inductive invariant of the proofs: the conjunction of the parts above.
WindowerInv == WindowerTypeOK /\ CursorInv /\ PrefixInv /\ TailInv /\ WindowsAdvance /\ NoWindowWaits

\* Claim of the emitted_chunks property: "Number of full-window chunks emitted
\* so far (excludes tail)".
FullWindows ==
  {i \in 1..Len(windows) : windows[i].end - windows[i].start = WindowTokens}
EmittedChunksExcludesTail == \A i \in 1..chunk_index : i \in FullWindows
=============================================================================
