------------------------------ MODULE TokenStream ------------------------------
(***************************************************************************)
(* How a reply reaches its reader while it is generated, on three paths:   *)
(*   "chat"   - chat_loop/cli.py: a generate thread, its streamer, and the *)
(*              REPL's thread that reads it;                               *)
(*   "server" - server/engine.py: the generate thread, the thread that     *)
(*              relays its streamer, and the coroutine behind a queue;     *)
(*   "direct" - the same with a runtime whose stream_generate is run by    *)
(*              the relaying thread itself.                                *)
(* Tokens are numbered as they are sampled.                                *)
(***************************************************************************)
EXTENDS Naturals, Sequences

CONSTANTS
  Paths,          \* the paths to consider
  MaxTokens       \* max_new_tokens

ASSUME StreamAssumption ==
  Paths \subseteq {"chat", "server", "direct"} /\ MaxTokens \in Nat \ {0}

VARIABLES
  path,       \* the path of this reply
  gen,        \* the generate thread
  made,       \* tokens sampled
  put,        \* tokens that were put as text
  streamer,   \* the streamer's queue
  errors,     \* what the list errors, or the call of stream_generate, holds
  relay,      \* the thread of _run_sync
  retried,    \* stream_generate was called again, without conversation_id
  queue,      \* astream's queue
  reader,     \* the REPL's thread, or the coroutine
  got         \* the tokens it has handed on

vars == <<path, gen, made, put, streamer, errors, relay, retried, queue, reader, got>>

\* An item of a queue: the text of the tokens from+1..to, or a mark.
Text(from, to) == [kind |-> "text", from |-> from, to |-> to]
Mark(kind)     == [kind |-> kind, from |-> 0, to |-> 0]
Stop  == Mark("stop")
Error == Mark("error")
None  == Mark("none")

IsEmpty(item)  == item.from = item.to
Numbers(item)  == [k \in 1..(item.to - item.from) |-> item.from + k]

Init ==
  /\ path \in Paths
  /\ gen = IF path = "direct" THEN "none" ELSE "running"
  /\ relay = IF path = "chat" THEN "none" ELSE "reading"
  /\ made = 0 /\ put = 0 /\ got = <<>>
  /\ streamer = <<>> /\ queue = <<>>
  /\ errors = FALSE /\ retried = FALSE
  /\ reader = "reading"

-----------------------------------------------------------------------------
(* The generate thread and its streamer.                                   *)

\* Mutant: one token too many is sampled.
SamplePastBudget ==
  /\ gen = "running" /\ made <= MaxTokens
  /\ made' = made + 1
  /\ UNCHANGED <<path, gen, put, streamer, errors, relay, retried, queue, reader, got>>

\* Mutant: the streamer puts the last token without what it held back.
SampleForgetting ==
  /\ gen = "running" /\ made < MaxTokens
  /\ made' = made + 1
  /\ \/ streamer' = Append(streamer, Text(made, made')) /\ put' = made'
     \/ UNCHANGED <<streamer, put>>
  /\ UNCHANGED <<path, gen, errors, relay, retried, queue, reader, got>>

\* A token is sampled; the streamer puts the text up to it, or holds it back.
Sample ==
  /\ gen = "running" /\ made < MaxTokens
  /\ made' = made + 1
  /\ \/ streamer' = Append(streamer, Text(put, made')) /\ put' = made'
     \/ UNCHANGED <<streamer, put>>
  /\ UNCHANGED <<path, gen, errors, relay, retried, queue, reader, got>>

\* generate ends the streamer, which puts what it held back, and returns.
End ==
  /\ gen = "running" /\ made > 0
  /\ streamer' = streamer \o <<Text(put, made), Stop>>
  /\ put' = made
  /\ gen' = "ended"
  /\ UNCHANGED <<path, made, errors, relay, retried, queue, reader, got>>

\* generate raises; _run_generate records it.
GenerateRaises ==
  /\ gen = "running"
  /\ errors' = TRUE
  /\ gen' = IF path = "server" THEN "failing" ELSE "ended"
  /\ UNCHANGED <<path, made, put, streamer, relay, retried, queue, reader, got>>

\* Mutant: the streamer is not ended.
SignalNever == gen = "failing" /\ gen' = "ended"
  /\ UNCHANGED <<path, made, put, streamer, errors, relay, retried, queue, reader, got>>

\* ... and on the server ends the streamer.
Signal ==
  /\ gen = "failing"
  /\ streamer' = streamer \o <<Text(put, put), Stop>>
  /\ gen' = "ended"
  /\ UNCHANGED <<path, made, put, errors, relay, retried, queue, reader, got>>

-----------------------------------------------------------------------------
(* The thread of astream.  call_soon_threadsafe keeps the order of calls.  *)

\* _run_sync is done: the exception, if there is one, and the end.
Finished(failed) == queue \o (IF failed THEN <<Error, None>> ELSE <<None>>)

\* for text in streamer, of _stream_tokens_torch.
Relay ==
  /\ relay = "reading" /\ streamer # <<>>
  /\ streamer' = Tail(streamer)
  /\ relay' = IF Head(streamer) = Stop THEN "joining" ELSE "reading"
  /\ queue' = IF Head(streamer) = Stop \/ IsEmpty(Head(streamer)) THEN queue
              ELSE Append(queue, Head(streamer))
  /\ UNCHANGED <<path, gen, made, put, errors, retried, reader, got>>

\* Mutant: the errors of the generate thread are not raised.
JoinQuietly ==
  /\ relay = "joining" /\ gen = "ended"
  /\ relay' = "done" /\ queue' = Finished(FALSE)
  /\ UNCHANGED <<path, gen, made, put, streamer, errors, retried, reader, got>>

\* thread.join, errors are raised, and _run_sync ends.
Join ==
  /\ relay = "joining" /\ gen = "ended"
  /\ relay' = "done" /\ queue' = Finished(errors)
  /\ UNCHANGED <<path, gen, made, put, streamer, errors, retried, reader, got>>

\* On the direct path stream_generate samples, and yields or holds back.
DirectSample ==
  /\ path = "direct" /\ relay = "reading" /\ made < MaxTokens
  /\ made' = made + 1
  /\ \/ queue' = Append(queue, Text(put, made')) /\ put' = made'
     \/ UNCHANGED <<queue, put>>
  /\ UNCHANGED <<path, gen, streamer, errors, relay, retried, reader, got>>

\* It yields the rest and returns.
DirectEnd ==
  /\ path = "direct" /\ relay = "reading" /\ made > 0
  /\ relay' = "done" /\ put' = made
  /\ queue' = (IF put = made THEN queue ELSE Append(queue, Text(put, made))) \o <<None>>
  /\ UNCHANGED <<path, gen, made, streamer, errors, retried, reader, got>>

\* It raises: a TypeError of the first call is taken for a runtime without
\* conversation_id, and stream_generate is called again.
DirectRaises ==
  /\ path = "direct" /\ relay = "reading"
  /\ \/ /\ errors' = TRUE /\ relay' = "done" /\ queue' = Finished(TRUE)
        /\ UNCHANGED <<made, put, retried>>
     \/ /\ ~retried
        /\ retried' = TRUE /\ made' = 0 /\ put' = 0
        /\ UNCHANGED <<errors, relay, queue>>
  /\ UNCHANGED <<path, gen, streamer, reader, got>>

-----------------------------------------------------------------------------
(* The reader.                                                             *)

\* The coroutine takes an item.
Receive ==
  /\ path # "chat" /\ reader = "reading" /\ queue # <<>>
  /\ queue' = Tail(queue)
  /\ \/ Head(queue) = None  /\ reader' = "returned" /\ UNCHANGED got
     \/ Head(queue) = Error /\ reader' = "raised" /\ UNCHANGED got
     \/ /\ Head(queue).kind = "text"
        /\ got' = got \o Numbers(Head(queue)) /\ UNCHANGED reader
  /\ UNCHANGED <<path, gen, made, put, streamer, errors, relay, retried>>

\* for text_delta in streamer, in the REPL's thread.
Read ==
  /\ path = "chat" /\ reader = "reading" /\ streamer # <<>>
  /\ streamer' = Tail(streamer)
  /\ IF Head(streamer) = Stop THEN reader' = "joining" /\ UNCHANGED got
     ELSE got' = got \o Numbers(Head(streamer)) /\ UNCHANGED reader
  /\ UNCHANGED <<path, gen, made, put, errors, relay, retried, queue>>

\* The turn is finished, the thread joined, and errors are raised.
Finish ==
  /\ path = "chat" /\ reader = "joining" /\ gen = "ended"
  /\ reader' = IF errors THEN "raised" ELSE "returned"
  /\ UNCHANGED <<path, gen, made, put, streamer, errors, relay, retried, queue, got>>

Generate == Sample \/ End \/ GenerateRaises \/ Signal
RunSync  == Relay \/ Join \/ DirectSample \/ DirectEnd \/ DirectRaises
Deliver  == Receive \/ Read \/ Finish

Next == Generate \/ RunSync \/ Deliver

Spec == Init /\ [][Next]_vars

\* The threads and the event loop are scheduled; generation ends by itself,
\* since max_new_tokens bounds it.
FairSpec == Spec /\ WF_vars(Generate) /\ WF_vars(RunSync) /\ WF_vars(Deliver)

-----------------------------------------------------------------------------
(* Properties.                                                             *)

Item == [kind : {"text", "stop", "error", "none"}, from : 0..MaxTokens, to : 0..MaxTokens]

\* Every variable has its type.
TypeOK ==
  /\ path \in Paths
  /\ gen \in {"none", "running", "failing", "ended"}
  /\ relay \in {"none", "reading", "joining", "done"}
  /\ reader \in {"reading", "joining", "returned", "raised"}
  /\ made \in 0..MaxTokens /\ put \in 0..made
  /\ streamer \in Seq(Item) /\ queue \in Seq(Item)
  /\ errors \in BOOLEAN /\ retried \in BOOLEAN
  /\ got \in Seq(1..MaxTokens)

\* A reply that returned without an exception is whole: every token sampled
\* has reached the reader, in the order sampled, through both queues, and
\* nothing had raised (astream, stream_assistant_reply).
ReturnedReplyIsWhole ==
  reader = "returned" => ~errors /\ (~retried => got = [k \in 1..made |-> k])

\* What the reader has so far is the beginning of the reply, whichever thread
\* is ahead: no text overtakes another, is lost in between or comes after the
\* end mark (Relay, call_soon_threadsafe).
DeltasArriveInOrder == ~retried => Len(got) <= put /\ got = [k \in 1..Len(got) |-> k]

\* On the server a reply comes to its end, by return or by exception, even when generate
\* raises while the reader is blocked on the streamer (engine.py:188-190).
ReplyEnds == path # "chat" ~> reader \in {"returned", "raised"}

\* Violated on the path "chat".  cli.py:110: an exception of generate is
\* caught to be "re-raised below", after the loop over the streamer.
ErrorsAreReRaised == errors ~> reader = "raised"

\* Violated on the path "direct".  engine.py:165: a TypeError means "Runtime
\* didn't accept the kwarg", before it streamed anything.
NothingIsStreamedTwice == \A i, j \in 1..Len(got) : got[i] = got[j] => i = j
=============================================================================
