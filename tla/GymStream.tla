----------------------------- MODULE GymStream -----------------------------
(***************************************************************************)
(* data/batching/streaming/gym_stream.py: GymEpisodeStream plays puzzle    *)
(* episodes on a server, one command line and one answer line at a time,   *)
(* and yields every step as a training sample.  A read that times out      *)
(* gives up the command, and its answer is read by a later command.        *)
(*                                                                         *)
(* The server answers every line, in order, with one line.  An answer is   *)
(* named by the command it answers, so that a sample tells where its       *)
(* observation and its action come from.                                   *)
(***************************************************************************)
EXTENDS Naturals, Sequences

CONSTANTS
  NumConfigure,   \* commands of _configure_session
  MaxRetries,     \* config.max_retries
  MaxEpisodes,    \* max_episodes
  MaxSteps,       \* episode_timeout, as the steps that fit into it
  MaxStarted,     \* bound: episodes that have selected a puzzle
  MaxLag,         \* bound: reads that time out on one connection
  MaxOdd,         \* bound: answers that are no JSON object
  MaxRounds       \* bound: calls of __aenter__, __aiter__ and reset

ASSUME GymAssumption ==
  /\ {NumConfigure, MaxRetries, MaxStarted, MaxLag, MaxOdd, MaxRounds} \subseteq Nat
  /\ {MaxEpisodes, MaxSteps} \subseteq Nat \ {0}

VARIABLES
  pc,         \* where the task of the stream is
  caller,     \* who called connect: "enter" (__aenter__) or "iter" (__aiter__)
  waiting,    \* the command of pc has been sent and its answer is awaited
  state,      \* _state
  conn,       \* the connection of _reader and _writer; "none" when not _connected
  unread,     \* commands of this connection whose answer was not read
  lag,        \* history: reads of this connection that timed out
  attempt,    \* attempts of connect
  count,      \* _episode_count
  ep,         \* history: episodes that have selected a puzzle
  k,          \* step_index; in "configure", commands sent
  obs,        \* the answer that observation comes from
  act,        \* the answer that action comes from
  steps,      \* the steps that have an action
  samples,    \* samples of the last episode that were not yielded
  odd, rounds

vars == <<pc, caller, waiting, state, conn, unread, lag, attempt,
          count, ep, k, obs, act, steps, samples, odd, rounds>>
link    == <<conn, unread, lag>>
episode == <<ep, k, obs, act, steps>>
bounds  == <<odd, rounds>>

Kinds == {"configure", "puzzle", "observe", "hint", "act"}

Command(kind, e, n) == [kind |-> kind, ep |-> e, n |-> n]
Nothing == Command("none", 0, 0)    \* the default of result.get

\* The command that the task sends or awaits at pc.
Current == Command(pc, ep, k)

InEpisode == pc \in {"puzzle", "observe", "hint", "act"}
Sending   == InEpisode \/ pc = "configure"

Init ==
  /\ pc = "out" /\ caller = "iter" /\ waiting = FALSE /\ state = "idle"
  /\ conn = "none" /\ unread = <<>> /\ lag = 0
  /\ attempt = 0 /\ count = 0 /\ ep = 0 /\ k = 0
  /\ obs = Nothing /\ act = Nothing /\ steps = {} /\ samples = {}
  /\ odd = 0 /\ rounds = 0

-----------------------------------------------------------------------------
(* connect, disconnect.                                                    *)

\* connect is entered: nothing to do when connected.
Connect(who) ==
  /\ pc = "out" /\ rounds < MaxRounds
  /\ rounds' = rounds + 1
  /\ caller' = who
  /\ attempt' = 0
  /\ state' = IF who = "iter" THEN "streaming" ELSE state
  /\ pc' = IF conn = "none" THEN "opening" ELSE IF who = "iter" THEN "next" ELSE "out"
  /\ UNCHANGED <<waiting, link, count, episode, samples, odd>>

\* connect returns, or an exception leaves it with the state s.
ConnectReturns == pc' = (IF caller = "iter" THEN "next" ELSE "out") /\ UNCHANGED state
ConnectRaises(s) == pc' = "out" /\ state' = IF caller = "iter" THEN "exhausted" ELSE s

\* A ConnectionError or a TimeoutError: the next attempt, or the last one failed.
Retry ==
  /\ attempt' = attempt + 1
  /\ IF attempt < MaxRetries THEN pc' = "opening" /\ UNCHANGED state ELSE ConnectRaises("error")

\* Mutant: the reader of the connection before is kept.
OpenKeepingReader ==
  /\ pc = "opening"
  /\ conn' = "open" /\ lag' = 0
  /\ k' = 0 /\ state' = "streaming"
  /\ pc' = "configure"
  /\ UNCHANGED <<caller, waiting, unread, attempt, count, ep, obs, act, steps, samples, bounds>>

\* open_connection succeeds.  The connection before, if there was one, is
\* dropped and not closed.
Open ==
  /\ pc = "opening"
  /\ conn' = "open" /\ unread' = <<>> /\ lag' = 0
  /\ k' = 0 /\ state' = "streaming"
  /\ pc' = "configure"
  /\ UNCHANGED <<caller, waiting, attempt, count, ep, obs, act, steps, samples, bounds>>

\* open_connection fails or times out, or raises what connect does not catch.
OpenFails ==
  /\ pc = "opening"
  /\ Retry \/ (ConnectRaises(state) /\ UNCHANGED attempt)
  /\ UNCHANGED <<caller, waiting, link, count, episode, samples, bounds>>

\* _configure_session is done.
Configured ==
  /\ pc = "configure" /\ ~waiting /\ k = NumConfigure
  /\ ConnectReturns
  /\ UNCHANGED <<caller, waiting, link, attempt, count, episode, samples, bounds>>

\* disconnect, by the task after the stream or by another one at any time.
\* Until wait_closed returns the connection is as after ConnectionEnds.
Disconnect ==
  /\ conn # "none"
  /\ conn' = "none" /\ unread' = <<>> /\ lag' = 0
  /\ state' = "idle"
  /\ UNCHANGED <<pc, caller, waiting, attempt, count, episode, samples, bounds>>

\* The server closes the connection after some of its answers, or resets it.
ConnectionEnds ==
  /\ conn = "open"
  /\ \/ conn' = "eof" /\ \E n \in 0..Len(unread) : unread' = SubSeq(unread, 1, n)
     \/ conn' = "reset" /\ unread' = <<>>
  /\ UNCHANGED <<pc, caller, waiting, state, lag, attempt, count, episode, samples, bounds>>

-----------------------------------------------------------------------------
(* The loop of __aiter__.                                                  *)

\* The episode limit is checked and the next episode begins, or the stream ends.
NextEpisode ==
  /\ pc = "next"
  /\ IF count >= MaxEpisodes THEN pc' = "out" /\ state' = "exhausted"
                             ELSE pc' = "puzzle" /\ UNCHANGED state
  /\ UNCHANGED <<caller, waiting, link, attempt, count, episode, samples, bounds>>

\* _run_episode returns an episode; some of its steps have a length in range.
EpisodeDone(played) ==
  /\ count' = count + 1
  /\ \E kept \in SUBSET played : samples' = kept
  /\ pc' = "yield"

\* A sample is handed to the consumer, who goes on or leaves the loop.
Yield ==
  /\ pc = "yield" /\ samples # {}
  /\ \/ \E first \in samples :
          /\ \A s \in samples : first.n <= s.n
          /\ samples' = samples \ {first}
          /\ UNCHANGED <<pc, state>>
     \/ samples' = {} /\ pc' = "out" /\ state' = "exhausted"
  /\ UNCHANGED <<caller, waiting, link, attempt, count, episode, bounds>>

AllYielded ==
  /\ pc = "yield" /\ samples = {}
  /\ pc' = "next"
  /\ UNCHANGED <<caller, waiting, state, link, attempt, count, episode, samples, bounds>>

\* reset, between two iterations.
Reset ==
  /\ pc = "out" /\ rounds < MaxRounds
  /\ rounds' = rounds + 1
  /\ count' = 0 /\ state' = "idle"
  /\ UNCHANGED <<pc, caller, waiting, link, attempt, episode, samples, odd>>

-----------------------------------------------------------------------------
(* _send_command and the episode.                                          *)

\* An exception leaves _send_command; it is a ConnectionError or it is not.
SendRaises(isConnectionError) ==
  /\ IF InEpisode THEN pc' = "next" /\ UNCHANGED <<state, attempt>>
     ELSE IF isConnectionError THEN Retry
     ELSE ConnectRaises(state) /\ UNCHANGED attempt
  /\ UNCHANGED <<caller, link, count, samples>>

\* There is no connection to write the command to.
SendFails ==
  /\ Sending /\ ~waiting /\ (pc = "configure" => k < NumConfigure)
  /\ conn \in {"none", "reset"}
  /\ SendRaises(conn = "reset")
  /\ UNCHANGED <<waiting, episode, bounds>>

\* The command is written; with puzzle an episode begins.
Send ==
  /\ Sending /\ ~waiting /\ (pc = "configure" => k < NumConfigure)
  /\ conn \in {"open", "eof"}
  /\ waiting' = TRUE
  /\ IF pc = "puzzle"
     THEN ep < MaxStarted /\ ep' = ep + 1 /\ k' = 0 /\ steps' = {}
     ELSE UNCHANGED <<ep, k, steps>>
  /\ unread' = IF conn = "open" THEN Append(unread, Command(pc, ep', k')) ELSE unread
  /\ UNCHANGED <<pc, caller, state, conn, lag, attempt, count, obs, act, samples, bounds>>

\* No answer comes within read_timeout: the episode ends with the steps it has.
ReadTimesOut ==
  /\ waiting /\ conn = "open" /\ lag < MaxLag
  /\ waiting' = FALSE
  /\ lag' = lag + 1
  /\ IF InEpisode THEN EpisodeDone(steps) /\ UNCHANGED <<state, attempt>>
                  ELSE Retry /\ UNCHANGED <<count, samples>>
  /\ UNCHANGED <<caller, conn, unread, episode, bounds>>

\* The connection was reset, or the answer is no JSON object.
ReadRaises ==
  /\ waiting
  /\ waiting' = FALSE
  /\ \/ conn = "reset" /\ SendRaises(TRUE) /\ UNCHANGED <<unread, odd>>
     \/ /\ conn = "open" /\ InEpisode /\ odd < MaxOdd
        /\ odd' = odd + 1
        /\ unread' = Tail(unread)
        /\ pc' = "next"
        /\ UNCHANGED <<state, attempt, caller, count, samples>>
  /\ UNCHANGED <<conn, lag, episode, rounds>>

\* readline returns the next answer, or the empty line of a connection at its end.
Answer == IF unread = <<>> THEN Nothing ELSE Head(unread)

Receive ==
  /\ waiting /\ conn # "reset"
  /\ waiting' = FALSE
  /\ unread' = IF unread = <<>> THEN <<>> ELSE Tail(unread)
  /\ UNCHANGED <<caller, conn, lag, ep, bounds>>

\* result.get("observation", "") and result.get("action", "").
Observation(a) == IF a.kind \in {"observe", "act"} THEN a ELSE Nothing
Action(a)      == IF a.kind = "hint" THEN a ELSE Nothing

\* The answers to the configuration and to puzzle are not looked at.
ReadAnswer ==
  /\ pc \in {"configure", "puzzle"} /\ Receive
  /\ pc' = IF pc = "puzzle" THEN "observe" ELSE pc
  /\ k' = IF pc = "puzzle" THEN k ELSE k + 1
  /\ UNCHANGED <<state, attempt, count, obs, act, steps, samples>>

\* _get_observation.
ReadObservation ==
  /\ pc = "observe" /\ Receive
  /\ obs' = Observation(Answer)
  /\ pc' = "hint"
  /\ UNCHANGED <<state, attempt, count, k, act, steps, samples>>

\* _get_action.
ReadAction ==
  /\ pc = "hint" /\ Receive
  /\ act' = Action(Answer)
  /\ pc' = "act"
  /\ UNCHANGED <<state, attempt, count, k, obs, steps, samples>>

Step == [obs |-> obs, act |-> act, n |-> k]

\* Mutant: the observation of the step before is kept.
ReadResultStale ==
  /\ pc = "act" /\ Receive
  /\ steps' = steps \cup {Step}
  /\ \/ /\ Answer.kind = "act"
        /\ EpisodeDone(steps')
        /\ UNCHANGED k
     \/ /\ k' = k + 1
        /\ IF k' = MaxSteps THEN EpisodeDone(steps') ELSE pc' = "hint" /\ UNCHANGED <<count, samples>>
  /\ UNCHANGED <<state, attempt, act, obs>>

\* Mutant: the wall clock is not looked at.
ReadResultForEver ==
  /\ pc = "act" /\ Receive
  /\ steps' = steps \cup {Step}
  /\ \/ /\ Answer.kind = "act"
        /\ EpisodeDone(steps')
        /\ UNCHANGED <<obs, k>>
     \/ /\ obs' = Observation(Answer)
        /\ k' = IF k + 1 = MaxSteps THEN 0 ELSE k + 1
        /\ pc' = "hint" /\ UNCHANGED <<count, samples>>
  /\ UNCHANGED <<state, attempt, act>>

\* The step is complete.  The answer says that the episode is done, or the next
\* observation is its, and the wall clock may end the episode.
ReadResult ==
  /\ pc = "act" /\ Receive
  /\ steps' = steps \cup {Step}
  /\ \/ /\ Answer.kind = "act"
        /\ EpisodeDone(steps')
        /\ UNCHANGED <<obs, k>>
     \/ /\ obs' = Observation(Answer)
        /\ k' = k + 1
        /\ \/ EpisodeDone(steps')
           \/ k' < MaxSteps /\ pc' = "hint" /\ UNCHANGED <<count, samples>>
  /\ UNCHANGED <<state, attempt, act>>

-----------------------------------------------------------------------------
User   == Connect("enter") \/ Connect("iter") \/ Reset
World  == Disconnect \/ ConnectionEnds
Opens  == Open \/ OpenFails \/ Configured
Awaits == ReadAnswer \/ ReadObservation \/ ReadAction \/ ReadResult \/ ReadRaises \/ ReadTimesOut
Loop   == NextEpisode \/ Yield \/ AllYielded \/ Send \/ SendFails

Next == User \/ World \/ Opens \/ Awaits \/ Loop

Spec == Init /\ [][Next]_vars

\* The event loop runs the task: open_connection and readline are under
\* wait_for, so that each of them returns or times out, and the consumer asks
\* for the next sample.
FairSpec == Spec /\ WF_vars(Opens \/ Awaits \/ Loop)

-----------------------------------------------------------------------------
(* What the stream promises.                                               *)

Commands == [kind : Kinds \cup {"none"}, ep : 0..MaxStarted, n : Nat]
Steps    == [obs : Commands, act : Commands, n : Nat]

TypeOK ==
  /\ pc \in {"out", "opening", "next", "yield"} \cup Kinds
  /\ caller \in {"enter", "iter"}
  /\ state \in {"idle", "streaming", "exhausted", "error"}
  /\ conn \in {"none", "open", "eof", "reset"}
  /\ waiting \in BOOLEAN
  /\ unread \in Seq(Commands)
  /\ ep \in 0..MaxStarted /\ lag \in 0..MaxLag /\ odd \in 0..MaxOdd /\ rounds \in 0..MaxRounds
  /\ attempt \in Nat /\ count \in Nat /\ k \in Nat
  /\ obs \in Commands /\ act \in Commands
  /\ steps \subseteq Steps /\ samples \subseteq Steps

\* On an open connection exactly the answers of the commands that timed out,
\* and of the one that is awaited, are still to be read: every command reads
\* the answer of the command that was sent as many commands earlier as reads
\* have timed out since the connection was opened, and never anything older
\* (_send_command, connect).
AnswersLagByTimeouts ==
  conn = "open" => Len(unread) = lag + (IF waiting THEN 1 ELSE 0)

\* A step of the current episode whose parts belong together.
ObservationOf(n) == IF n = 0 THEN Command("observe", ep, 0) ELSE Command("act", ep, n - 1)
Paired(s) == s.act = Command("hint", ep, s.n) /\ s.obs = ObservationOf(s.n)

\* While no read of the connection has timed out and it is open, a sample's
\* observation and action are the answers of one episode for one step, the
\* first one from observe and every later one from the action before
\* (_run_episode, _episode_to_samples).
SamplesArePaired ==
  conn = "open" /\ lag = 0 =>
    \A s \in samples : Paired(s)

\* A call of connect or an iteration that was begun comes to its end unless the
\* connection is reset or closed under it: no answer, late answers, answers
\* that are none and the end of the stream all end episodes, and episodes end
\* the stream (__aiter__, _run_episode).
IterationEnds == pc # "out" ~> (pc = "out" \/ conn \in {"none", "reset"})

\* The inductive invariant of OnlineStreamProofs.
EpisodeIsPaired ==
  conn = "open" /\ lag = 0 =>
    /\ waiting => unread = <<Current>>
    /\ pc \in {"hint", "act"} => obs = ObservationOf(k)
    /\ pc = "act" => act = Command("hint", ep, k)
    /\ pc \in {"observe", "hint", "act", "yield"} \/ (pc = "puzzle" /\ waiting) => \A s \in steps : Paired(s)
    /\ pc = "observe" \/ (pc = "puzzle" /\ waiting) => k = 0
    /\ \A s \in samples : Paired(s)

IInv ==
  /\ TypeOK
  /\ waiting => Sending
  /\ samples # {} => pc = "yield"
  /\ AnswersLagByTimeouts
  /\ EpisodeIsPaired

\* _send_command returns the response to its command (its docstring).
ResponseIsToTheCommand ==
  waiting /\ conn = "open" => Head(unread) = Current

\* A stream whose connect has failed is not connected.
ErrorMeansNotConnected == state = "error" => conn = "none"
=============================================================================
