------------------------- MODULE OnlineStreamProofs -------------------------
(***************************************************************************)
(* The package data/batching/streaming: the episode stream that plays the  *)
(* samples, and the buffer that keeps them with the window over it, which  *)
(* share no state with the stream.                                         *)
(*                                                                         *)
(* Of the stream: an answer is read as late as reads have timed out since  *)
(* its connection was opened, and until one has, every sample pairs what   *)
(* belongs together, for every number of retries, episodes, steps and      *)
(* timeouts.  Of the buffer: its deques, counters and sums agree, for      *)
(* every size, every set of samples and every eviction policy.  Of the     *)
(* window: its plans leave no sample out and repeat none, for every budget *)
(* and all bucket edges, and its count tells what iterators have yielded.  *)
(***************************************************************************)
EXTENDS GymStream, OnlineWindow, SequenceTheorems, FiniteSetTheorems,
        WellFoundedInduction, TLAPS

-----------------------------------------------------------------------------
(* The episode stream.                                                     *)

\* What the answers still to be read do when one is added, read or cut off.
LEMMA QueueFacts ==
  ASSUME NEW q \in Seq(Commands)
  PROVE  /\ Len(q) \in Nat /\ (Len(q) = 0 <=> q = <<>>)
         /\ \A c \in Commands : /\ Append(q, c) \in Seq(Commands)
                                /\ Len(Append(q, c)) = Len(q) + 1
                                /\ q = <<>> => Append(q, c) = <<c>>
         /\ q # <<>> => /\ Tail(q) \in Seq(Commands) /\ Len(Tail(q)) = Len(q) - 1
                        /\ Head(q) \in Commands
         /\ \A n \in 0..Len(q) : SubSeq(q, 1, n) \in Seq(Commands)
<1>1. Len(q) \in Nat /\ (Len(q) = 0 <=> q = <<>>)
  BY EmptySeq, LenProperties
<1>2. ASSUME NEW c \in Commands
      PROVE  /\ Append(q, c) \in Seq(Commands) /\ Len(Append(q, c)) = Len(q) + 1
             /\ q = <<>> => Append(q, c) = <<c>>
  <2>1. Append(q, c) \in Seq(Commands) /\ Len(Append(q, c)) = Len(q) + 1
    BY AppendProperties
  <2>2. Append(<<>>, c) = <<c>>
    OBVIOUS
  <2> QED BY <2>1, <2>2
<1>3. q # <<>> => /\ Tail(q) \in Seq(Commands) /\ Len(Tail(q)) = Len(q) - 1
                  /\ Head(q) \in Commands
  BY HeadTailProperties
<1>4. ASSUME NEW n \in 0..Len(q) PROVE SubSeq(q, 1, n) \in Seq(Commands)
  BY <1>1
<1> QED BY <1>1, <1>2, <1>3, <1>4

\* The command of the task is a command, and so is every answer.
LEMMA CommandFacts ==
  ASSUME TypeOK
  PROVE  /\ \A e \in 0..MaxStarted, n \in Nat, kind \in Kinds \cup {"none"} :
              Command(kind, e, n) \in Commands
         /\ Nothing \in Commands
         /\ Sending => Current \in Commands
         /\ Answer \in Commands /\ Observation(Answer) \in Commands /\ Action(Answer) \in Commands
         /\ Step \in Steps
<1>1. \A e \in 0..MaxStarted, n \in Nat, kind \in Kinds \cup {"none"} :
        Command(kind, e, n) \in Commands
  BY DEF Command, Commands
<1>2. Nothing \in Commands
  BY GymAssumption, <1>1 DEF Nothing
<1>3. Sending => Current \in Commands
  BY <1>1 DEF Sending, InEpisode, Current, Kinds, TypeOK
<1>4. Answer \in Commands
  BY <1>2, QueueFacts DEF Answer, TypeOK
<1>5. Observation(Answer) \in Commands /\ Action(Answer) \in Commands
  BY <1>2, <1>4 DEF Observation, Action
<1>6. Step \in Steps
  BY DEF Step, Steps, TypeOK
<1> QED BY <1>1, <1>2, <1>3, <1>4, <1>5, <1>6

\* A stream that was just made satisfies the invariant.
LEMMA InitInv == Init => IInv
<1> SUFFICES ASSUME Init PROVE IInv
  OBVIOUS
<1>1. <<>> \in Seq(Commands) /\ Len(<<>>) = 0
  BY EmptySeq
<1>2. Nothing \in Commands
  BY GymAssumption DEF Nothing, Command, Commands
<1>3. 0 \in 0..MaxStarted /\ 0 \in 0..MaxLag /\ 0 \in 0..MaxOdd /\ 0 \in 0..MaxRounds
  BY GymAssumption
<1>4. TypeOK
  BY <1>1, <1>2, <1>3 DEF Init, TypeOK
<1> QED BY <1>1, <1>4 DEF Init, IInv, AnswersLagByTimeouts, EpisodeIsPaired

-----------------------------------------------------------------------------
(* The parts of the invariant that are kept by a step, action by action.   *)

\* The types, the bounds, and where an answer may be awaited or a sample held.
Shape == TypeOK /\ (waiting => Sending) /\ (samples # {} => pc = "yield")

\* Every action keeps the shape of the state.
LEMMA ShapeStep == IInv /\ [Next]_vars => Shape'
<1> SUFFICES ASSUME IInv, [Next]_vars PROVE Shape'
  OBVIOUS
<1>a. MaxStarted \in Nat /\ MaxLag \in Nat /\ MaxOdd \in Nat /\ MaxRounds \in Nat
  BY GymAssumption
<1>0. TypeOK /\ (waiting => Sending) /\ (samples # {} => pc = "yield") /\ AnswersLagByTimeouts
  BY DEF IInv
<1>00. <<>> \in Seq(Commands)
  BY EmptySeq
<1>1. CASE User
  BY <1>a, <1>0, <1>1 DEF User, Connect, Reset, Shape, TypeOK, Sending, InEpisode, Kinds, link, episode
<1>2. CASE Disconnect
  BY <1>a, <1>0, <1>00, <1>2 DEF Disconnect, Shape, TypeOK, Sending, InEpisode, episode, bounds
<1>3. CASE ConnectionEnds
  BY <1>a, <1>0, <1>00, <1>3, QueueFacts DEF ConnectionEnds, Shape, TypeOK, Sending, InEpisode, episode, bounds
<1>4. CASE Open
  BY <1>a, <1>0, <1>00, <1>4 DEF Open, Shape, TypeOK, Sending, InEpisode, Kinds, bounds
<1>12. CASE OpenFails
  BY <1>a, <1>0, <1>12
     DEF OpenFails, Retry, ConnectRaises, Shape, TypeOK, Sending, InEpisode, Kinds, link, episode, bounds
<1>13. CASE Configured
  BY <1>a, <1>0, <1>13
     DEF Configured, ConnectReturns, Shape, TypeOK, Sending, InEpisode, Kinds, link, episode, bounds
<1>5. CASE NextEpisode \/ Yield \/ AllYielded
  BY <1>a, <1>0, <1>5
     DEF NextEpisode, Yield, AllYielded, Shape, TypeOK, Sending, InEpisode, Kinds, link, episode, bounds
<1>6. CASE Send
  <2>1. ep' \in 0..MaxStarted /\ k' \in Nat
    BY <1>a, <1>0, <1>6 DEF Send, TypeOK
  <2>2. Command(pc, ep', k') \in Commands
    BY <1>6, <2>1 DEF Send, Command, Commands, Sending, InEpisode, Kinds
  <2>3. unread' \in Seq(Commands)
    BY <1>a, <1>0, <1>6, <2>2, QueueFacts DEF Send, TypeOK
  <2> QED BY <1>a, <1>0, <1>6, <2>1, <2>3 DEF Send, Shape, TypeOK, Sending, InEpisode, Steps, bounds
<1>7. CASE SendFails
  BY <1>a, <1>0, <1>7
     DEF SendFails, SendRaises, Retry, ConnectRaises, Shape, TypeOK, Sending, InEpisode, Kinds,
         link, episode, bounds
<1>8. CASE ReadTimesOut
  <2>1. lag' \in 0..MaxLag /\ waiting' = FALSE
    BY <1>a, <1>0, <1>8 DEF ReadTimesOut, TypeOK
  <2>2. CASE InEpisode
    <3>1. samples' \subseteq Steps /\ pc' = "yield" /\ count' \in Nat
      BY <1>0, <1>8, <2>2 DEF ReadTimesOut, EpisodeDone, TypeOK
    <3> QED BY <1>0, <1>8, <2>1, <2>2, <3>1 DEF ReadTimesOut, Shape, TypeOK, episode, bounds
  <2>3. CASE ~InEpisode
    <3>1. samples' = {}
      BY <1>0, <1>8, <2>3 DEF ReadTimesOut, InEpisode, Sending
    <3>2. Retry /\ count' = count
      BY <1>8, <2>3 DEF ReadTimesOut
    <3>3. /\ attempt' \in Nat /\ pc' \in {"out", "opening"}
          /\ state' \in {"idle", "streaming", "exhausted", "error"}
      BY <1>0, <3>2 DEF Retry, ConnectRaises, TypeOK
    <3> QED BY <1>0, <1>8, <2>1, <3>1, <3>2, <3>3 DEF ReadTimesOut, Shape, TypeOK, episode, bounds
  <2> QED BY <2>2, <2>3
<1>9. CASE ReadRaises
  <2>1. conn = "open" => unread # <<>>
    BY <1>a, <1>0, <1>9, QueueFacts DEF ReadRaises, AnswersLagByTimeouts, TypeOK
  <2>2. unread' \in Seq(Commands)
    BY <1>a, <1>0, <1>9, <2>1, QueueFacts DEF ReadRaises, TypeOK
  <2>3. odd' \in 0..MaxOdd /\ waiting' = FALSE
    <3>1. waiting' = FALSE /\ (odd' = odd \/ (odd < MaxOdd /\ odd' = odd + 1))
      BY <1>9 DEF ReadRaises
    <3> QED BY <1>a, <1>0, <3>1 DEF TypeOK
  <2>4. /\ attempt' \in Nat /\ state' \in {"idle", "streaming", "exhausted", "error"}
        /\ pc' \in {"out", "opening", "next"} /\ samples' = {}
    <3>1. samples' = {}
      BY <1>0, <1>9 DEF ReadRaises, SendRaises, Sending, InEpisode
    <3>2. \/ pc' = "next" /\ state' = state /\ attempt' = attempt
          \/ Retry
      BY <1>9 DEF ReadRaises, SendRaises
    <3> QED BY <1>0, <3>1, <3>2 DEF Retry, ConnectRaises, TypeOK
  <2> QED BY <1>0, <1>9, <2>2, <2>3, <2>4 DEF ReadRaises, SendRaises, Shape, TypeOK, episode
<1>10. CASE ReadAnswer \/ ReadObservation \/ ReadAction \/ ReadResult
  <2>1. unread' \in Seq(Commands) /\ waiting' = FALSE
    BY <1>a, <1>0, <1>00, <1>10, QueueFacts
       DEF ReadAnswer, ReadObservation, ReadAction, ReadResult, Receive, TypeOK
  <2>2. Observation(Answer) \in Commands /\ Action(Answer) \in Commands /\ Step \in Steps
    BY <1>0, CommandFacts
  <2>3. /\ caller' = caller /\ conn' = conn /\ lag' = lag /\ ep' = ep /\ odd' = odd
        /\ rounds' = rounds /\ state' = state /\ attempt' = attempt /\ waiting
    BY <1>10 DEF ReadAnswer, ReadObservation, ReadAction, ReadResult, Receive, bounds
  <2>4. CASE ReadAnswer \/ ReadObservation \/ ReadAction
    <3>1. pc' \in Kinds /\ k' \in Nat /\ obs' \in Commands /\ act' \in Commands
      BY <1>0, <2>2, <2>4 DEF ReadAnswer, ReadObservation, ReadAction, TypeOK, Kinds
    <3>2. steps' = steps /\ samples' = {} /\ count' = count
      BY <1>0, <2>3, <2>4 DEF ReadAnswer, ReadObservation, ReadAction
    <3> QED BY <1>0, <2>1, <2>3, <3>1, <3>2 DEF Shape, TypeOK
  <2>5. CASE ReadResult
    <3>1. steps' \subseteq Steps /\ obs' \in Commands /\ k' \in Nat /\ act' = act
      BY <1>0, <2>2, <2>5 DEF ReadResult, TypeOK
    <3>2. /\ samples' \subseteq Steps /\ count' \in Nat /\ pc' \in {"yield", "hint"}
          /\ samples' # {} => pc' = "yield"
      BY <1>0, <2>3, <2>5, <3>1 DEF ReadResult, EpisodeDone, TypeOK
    <3> QED BY <1>0, <2>1, <2>3, <3>1, <3>2 DEF Shape, TypeOK, Kinds
  <2> QED BY <1>10, <2>4, <2>5
<1>11. CASE UNCHANGED vars
  BY <1>a, <1>0, <1>11 DEF vars, Shape, TypeOK, Sending, InEpisode, link, episode, bounds
<1> QED BY <1>1, <1>2, <1>3, <1>4, <1>5, <1>6, <1>7, <1>8, <1>9, <1>10, <1>11, <1>12, <1>13
        DEF Next, World, Opens, Awaits, Loop

\* An answer more is awaited per command, and one less per answer read; a read
\* that times out leaves its answer to the commands after it.
LEMMA LagStep == IInv /\ [Next]_vars => AnswersLagByTimeouts'
<1> SUFFICES ASSUME IInv, [Next]_vars, conn' = "open"
             PROVE  Len(unread') = lag' + (IF waiting' THEN 1 ELSE 0)
  BY DEF AnswersLagByTimeouts
<1>0. /\ TypeOK /\ (waiting => Sending)
      /\ conn = "open" => Len(unread) = lag + (IF waiting THEN 1 ELSE 0)
  BY DEF IInv, AnswersLagByTimeouts
<1>00. Len(<<>>) = 0 /\ lag \in Nat
  BY <1>0, EmptySeq DEF TypeOK
<1>1. CASE UNCHANGED link /\ UNCHANGED waiting
  BY <1>0, <1>1 DEF link
<1>2. CASE Open
  BY <1>0, <1>00, <1>2 DEF Open, Sending, InEpisode
<1>3. CASE Send
  <2>1. ep' \in 0..MaxStarted /\ k' \in Nat
    BY <1>0, <1>3, GymAssumption DEF Send, TypeOK
  <2>2. Command(pc, ep', k') \in Commands
    BY <1>3, <2>1 DEF Send, Command, Commands, Sending, InEpisode, Kinds
  <2> QED BY <1>0, <1>00, <1>3, <2>2, QueueFacts DEF Send, TypeOK
<1>4. CASE ReadTimesOut
  BY <1>0, <1>00, <1>4 DEF ReadTimesOut
<1>5. CASE ReadRaises
  <2>1. conn' = conn /\ lag' = lag /\ waiting /\ waiting' = FALSE
    BY <1>5 DEF ReadRaises
  <2>2. unread # <<>> /\ unread' = Tail(unread)
    <3>1. unread' = Tail(unread)
      BY <1>5, <2>1 DEF ReadRaises
    <3>2. Len(unread) = lag + 1
      BY <1>0, <2>1
    <3> QED BY <1>0, <1>00, <3>1, <3>2, QueueFacts DEF TypeOK
  <2> QED BY <1>0, <1>00, <2>1, <2>2, QueueFacts DEF TypeOK
<1>6. CASE Receive
  <2>1. unread # <<>> /\ unread' = Tail(unread) /\ lag' = lag /\ waiting /\ waiting' = FALSE
    BY <1>0, <1>00, <1>6, QueueFacts DEF Receive, TypeOK
  <2> QED BY <1>0, <1>00, <1>6, <2>1, QueueFacts DEF Receive, TypeOK
<1>7. UNCHANGED <<link, waiting>> \/ Open \/ Send \/ ReadTimesOut \/ ReadRaises \/ Receive
  <2>1. CASE User \/ World
    BY <2>1 DEF User, World, Connect, Reset, Disconnect, ConnectionEnds, link
  <2>2. CASE Opens
    BY <2>2 DEF Opens, OpenFails, Configured, link
  <2>3. CASE Loop
    BY <2>3 DEF Loop, NextEpisode, Yield, AllYielded, SendFails, SendRaises, link
  <2>4. CASE Awaits
    BY <2>4 DEF Awaits, ReadAnswer, ReadObservation, ReadAction, ReadResult
  <2>5. CASE UNCHANGED vars
    BY <2>5 DEF vars, link
  <2> QED BY <2>1, <2>2, <2>3, <2>4, <2>5 DEF Next
<1> QED BY <1>1, <1>2, <1>3, <1>4, <1>5, <1>6, <1>7

\* What belongs together depends on the episode and on nothing else.
LEMMA PairingIsOfTheEpisode ==
  ASSUME ep' = ep
  PROVE  /\ \A s : Paired(s)' <=> Paired(s)
         /\ k' = k => ObservationOf(k)' = ObservationOf(k)
BY DEF Paired, ObservationOf

\* While no read has timed out on the connection that is open, every answer is
\* read by its own command, and the parts of a step belong together.
LEMMA PairStep == IInv /\ [Next]_vars => EpisodeIsPaired'
<1> SUFFICES ASSUME IInv, [Next]_vars, conn' = "open", lag' = 0
             PROVE  /\ waiting' => unread' = <<Current'>>
                    /\ pc' \in {"hint", "act"} => obs' = ObservationOf(k)'
                    /\ pc' = "act" => act' = Command("hint", ep', k')
                    /\ pc' \in {"observe", "hint", "act", "yield"} \/ (pc' = "puzzle" /\ waiting') =>
                         \A s \in steps' : Paired(s)'
                    /\ pc' = "observe" \/ (pc' = "puzzle" /\ waiting') => k' = 0
                    /\ \A s \in samples' : Paired(s)'
  BY DEF EpisodeIsPaired
<1>0. /\ TypeOK /\ (waiting => Sending) /\ (samples # {} => pc = "yield")
      /\ AnswersLagByTimeouts /\ EpisodeIsPaired
  BY DEF IInv
\* Nothing of the episode changes, or the stream is outside of it.
<1>1. CASE pc' \in {"out", "opening", "next", "configure"} /\ waiting' = FALSE /\ samples' = {}
  BY <1>1
<1>2. CASE UNCHANGED <<pc, waiting, link, episode>> /\ samples' \in SUBSET samples
  <2>1. /\ UNCHANGED <<pc, waiting, conn, unread, lag, ep, k, obs, act, steps>>
        /\ samples' \subseteq samples
    BY <1>2 DEF link, episode
  <2>2. Current' = Current
    BY <2>1 DEF Current
  <2>3. (\A s : Paired(s)' <=> Paired(s)) /\ ObservationOf(k)' = ObservationOf(k)
    BY <2>1, PairingIsOfTheEpisode
  <2> QED BY <1>0, <2>1, <2>2, <2>3 DEF EpisodeIsPaired
<1>3. CASE NextEpisode
  BY <1>0, <1>3 DEF NextEpisode, Sending, InEpisode
<1>4. CASE Send
  <2>1. unread' = <<Current'>>
    <3>1. conn = "open" /\ lag = 0 /\ waiting = FALSE /\ pc' = pc
      BY <1>4 DEF Send
    <3>2. unread = <<>>
      BY <1>0, <3>1, QueueFacts DEF AnswersLagByTimeouts, TypeOK
    <3>3. unread' = <<Command(pc, ep', k')>>
      BY <1>4, <3>1, <3>2 DEF Send
    <3> QED BY <3>1, <3>3 DEF Current
  <2>2. CASE pc = "puzzle"
    BY <1>0, <1>4, <2>1, <2>2 DEF Send
  <2>3. CASE pc # "puzzle"
    <3>1. /\ UNCHANGED <<pc, conn, lag, ep, k, obs, act, steps, samples>> /\ ~waiting /\ waiting'
      BY <1>4, <2>3 DEF Send
    <3>2. (\A s : Paired(s)' <=> Paired(s)) /\ ObservationOf(k)' = ObservationOf(k)
      BY <3>1, PairingIsOfTheEpisode
    <3> QED BY <1>0, <2>1, <2>3, <3>1, <3>2 DEF EpisodeIsPaired
  <2> QED BY <2>2, <2>3
<1>5. CASE Receive /\ (ReadAnswer \/ ReadObservation \/ ReadAction \/ ReadResult)
  <2>1. conn = "open" /\ lag = 0 /\ waiting /\ waiting' = FALSE /\ ep' = ep /\ unread = <<Current>>
    BY <1>0, <1>5 DEF Receive, EpisodeIsPaired
  <2>2. Answer = Current
    BY <2>1 DEF Answer
  <2>3. samples = {}
    BY <1>0, <2>1 DEF Sending, InEpisode
  <2>a. \A s : Paired(s)' <=> Paired(s)
    BY <2>1, PairingIsOfTheEpisode
  <2>4. CASE ReadAnswer
    <3>1. /\ pc \in {"configure", "puzzle"} /\ steps' = steps /\ samples' = {}
          /\ pc' = (IF pc = "puzzle" THEN "observe" ELSE pc)
          /\ k' = (IF pc = "puzzle" THEN k ELSE k + 1)
      BY <2>3, <2>4 DEF ReadAnswer
    <3>2. pc = "puzzle" => k = 0
      BY <1>0, <2>1 DEF EpisodeIsPaired
    <3> QED BY <1>0, <2>1, <2>a, <3>1, <3>2 DEF EpisodeIsPaired
  <2>5. CASE ReadObservation
    <3>1. obs' = Command("observe", ep, 0) /\ k' = 0 /\ k = 0
      BY <1>0, <2>1, <2>2, <2>5
         DEF ReadObservation, Observation, Current, Command, EpisodeIsPaired
    <3>2. obs' = ObservationOf(k)'
      BY <2>1, <3>1 DEF ObservationOf
    <3>3. pc = "observe" /\ pc' = "hint" /\ steps' = steps /\ samples' = {}
      BY <2>3, <2>5 DEF ReadObservation
    <3> QED BY <1>0, <2>1, <2>a, <3>1, <3>2, <3>3 DEF EpisodeIsPaired
  <2>6. CASE ReadAction
    <3>1. act' = Command("hint", ep, k)
      BY <2>2, <2>6 DEF ReadAction, Action, Current, Command
    <3>2. /\ pc = "hint" /\ pc' = "act" /\ steps' = steps /\ samples' = {} /\ k' = k /\ obs' = obs
      BY <2>3, <2>6 DEF ReadAction
    <3>3. ObservationOf(k)' = ObservationOf(k)
      BY <2>1, <3>2, PairingIsOfTheEpisode
    <3> QED BY <1>0, <2>1, <2>a, <3>1, <3>2, <3>3 DEF EpisodeIsPaired
  <2>7. CASE ReadResult
    <3>1. Paired(Step)
      BY <1>0, <2>1, <2>7 DEF ReadResult, EpisodeIsPaired, Paired, Step
    <3>3. \A s \in steps' : Paired(s)'
      BY <1>0, <2>1, <2>7, <2>a, <3>1 DEF ReadResult, EpisodeIsPaired
    <3>4. \A s \in samples' : Paired(s)'
      BY <2>3, <2>7, <3>3 DEF ReadResult, EpisodeDone
    <3>5. pc' = "hint" => obs' = Command("act", ep, k) /\ k' = k + 1
      BY <2>2, <2>7 DEF ReadResult, EpisodeDone, Observation, Current, Command
    <3>6. pc' \in {"hint", "yield"}
      BY <2>7 DEF ReadResult, EpisodeDone
    <3>7. pc' = "hint" => obs' = ObservationOf(k)'
      <4>1. k \in Nat /\ k + 1 # 0 /\ (k + 1) - 1 = k
        BY <1>0 DEF TypeOK
      <4> QED BY <2>1, <3>5, <4>1 DEF ObservationOf
    <3> QED BY <2>1, <3>3, <3>4, <3>6, <3>7
  <2> QED BY <1>5, <2>4, <2>5, <2>6, <2>7
<1>6. \/ pc' \in {"out", "opening", "next", "configure"} /\ waiting' = FALSE /\ samples' = {}
      \/ UNCHANGED <<pc, waiting, link, episode>> /\ samples' \in SUBSET samples
      \/ NextEpisode \/ Send
      \/ Receive /\ (ReadAnswer \/ ReadObservation \/ ReadAction \/ ReadResult)
  <2>1. CASE User \/ World
    BY <1>0, <2>1 DEF User, World, Connect, Reset, Disconnect, ConnectionEnds, Sending, InEpisode,
                      link, episode, TypeOK
  <2>2. CASE Opens
    BY <1>0, <2>2
       DEF Opens, Open, OpenFails, Configured, ConnectReturns, ConnectRaises, Retry,
           Sending, InEpisode, TypeOK
  <2>3. CASE Yield \/ AllYielded
    BY <1>0, <2>3 DEF Yield, AllYielded, Sending, InEpisode, TypeOK, link, episode
  <2>4. CASE SendFails
    BY <1>0, <2>4 DEF SendFails, SendRaises, ConnectRaises, Retry, Sending, InEpisode, link
  <2>5. CASE ReadTimesOut
    BY <1>0, <2>5 DEF ReadTimesOut, TypeOK
  <2>6. CASE ReadRaises
    BY <1>0, <2>6 DEF ReadRaises, Sending, InEpisode
  <2>7. CASE ReadAnswer \/ ReadObservation \/ ReadAction \/ ReadResult
    BY <2>7 DEF ReadAnswer, ReadObservation, ReadAction, ReadResult
  <2>8. CASE UNCHANGED vars
    BY <2>8 DEF vars, link, episode
  <2> QED BY <2>1, <2>2, <2>3, <2>4, <2>5, <2>6, <2>7, <2>8 DEF Next, Awaits, Loop
<1> QED BY <1>1, <1>2, <1>3, <1>4, <1>5, <1>6

\* On a connection that is open, a command reads the answer of the command that
\* was sent as many commands earlier as reads have timed out, never an older
\* one (_send_command, connect).
THEOREM IInvInvariant == Spec => []IInv
<1>1. IInv /\ [Next]_vars => IInv'
  BY ShapeStep, LagStep, PairStep DEF IInv, Shape
<1> QED BY InitInv, <1>1, PTL DEF Spec

\* Until a read of the connection times out, the observation and the action of
\* every sample are the answers of one episode for one step (_run_episode,
\* _episode_to_samples).
THEOREM SamplesArePairedTheorem == Spec => []SamplesArePaired
<1>1. IInv => SamplesArePaired
  BY DEF IInv, EpisodeIsPaired, SamplesArePaired
<1> QED BY IInvInvariant, <1>1, PTL

-----------------------------------------------------------------------------
(* Folds.                                                                  *)

\* Induction up to n, over a set.
LEMMA Induction ==
  ASSUME NEW n \in Nat, NEW S, 0 \in S, \A i \in 1..n : i - 1 \in S => i \in S
  PROVE  \A i \in 0..n : i \in S
<1> SUFFICES ASSUME NEW j \in 0..n, j \notin S PROVE FALSE
  OBVIOUS
<1> DEFINE T == {i \in 0..n : i \notin S}
<1>1. T \subseteq Nat /\ T # {}
  OBVIOUS
<1>2. PICK m \in T : \A i \in T : ~(<<i, m>> \in OpToRel(<, Nat))
  BY <1>1, NatLessThanWellFounded, WFMin
<1>3. \A i \in T : ~(i < m)
  BY <1>1, <1>2 DEF OpToRel
<1>4. m \in 1..n /\ m - 1 \in 0..n /\ m - 1 < m
  OBVIOUS
<1>5. m - 1 \in S
  BY <1>3, <1>4
<1> QED BY <1>4, <1>5

\* A set of numbers up to n has a largest.
LEMMA MaxFacts ==
  ASSUME NEW n \in Nat, NEW s \in SUBSET (1..n), s # {}
  PROVE  Max(s) \in s /\ \A y \in s : Max(s) >= y
<1> DEFINE T == {n - y : y \in s}
<1>1. T \subseteq Nat /\ T # {}
  <2>1. \A y \in s : y \in Nat /\ n - y \in Nat
    OBVIOUS
  <2>2. PICK y \in s : TRUE
    OBVIOUS
  <2>3. n - y \in T
    OBVIOUS
  <2> QED BY <2>1, <2>3
<1>2. PICK m \in T : \A i \in T : ~(<<i, m>> \in OpToRel(<, Nat))
  BY <1>1, NatLessThanWellFounded, WFMin
<1>3. PICK x \in s : m = n - x
  OBVIOUS
<1>4. ASSUME NEW y \in s PROVE x >= y
  <2>1. ~(n - y < n - x)
    BY <1>1, <1>2, <1>3 DEF OpToRel
  <2> QED BY <2>1
<1> QED BY <1>3, <1>4 DEF Max

\* The largest element of some numbers is the one that no other exceeds.
LEMMA MaxIs ==
  ASSUME NEW n \in Nat, NEW s \in SUBSET (1..n), NEW x \in s, \A y \in s : x >= y
  PROVE  Max(s) = x
<1>1. Max(s) \in s /\ Max(s) >= x
  BY MaxFacts
<1>2. x >= Max(s)
  BY <1>1
<1>3. x \in Int /\ Max(s) \in Int
  <2>1. \A y \in s : y \in Int
    OBVIOUS
  <2> QED BY <1>1, <2>1
<1> QED BY <1>1, <1>2, <1>3

\* g folds step over every set of numbers up to n, from the smallest on.
Folds(g, base, step, n) ==
  \A s \in SUBSET (1..n) :
    g[s] = IF s = {} THEN base ELSE step[<<g[s \ {Max(s)}], Max(s)>>]

\* Such a function exists, by induction on n.
LEMMA FoldExists ==
  ASSUME NEW A, NEW base \in A, NEW n \in Nat, NEW step \in [A \X (1..n) -> A]
  PROVE  \E g \in [SUBSET (1..n) -> A] : Folds(g, base, step, n)
<1> DEFINE S == {m \in 0..n : \E g \in [SUBSET (1..m) -> A] : Folds(g, base, step, m)}
<1>1. 0 \in S
  <2> DEFINE g == [s \in SUBSET (1..0) |-> base]
  <2>1. g \in [SUBSET (1..0) -> A]
    OBVIOUS
  <2>2. \A s \in SUBSET (1..0) : s = {} /\ g[s] = base
    OBVIOUS
  <2>3. Folds(g, base, step, 0)
    <3> HIDE DEF g
    <3> QED BY <2>2 DEF Folds
  <2> HIDE DEF g
  <2>4. \E f \in [SUBSET (1..0) -> A] : Folds(f, base, step, 0)
    BY <2>1, <2>3
  <2>5. 0 \in 0..n
    OBVIOUS
  <2> QED BY <2>4, <2>5, Zenon
<1>2. ASSUME NEW m \in 1..n, m - 1 \in S PROVE m \in S
  <2>1. PICK g \in [SUBSET (1..(m - 1)) -> A] : Folds(g, base, step, m - 1)
    BY <1>2
  <2> DEFINE h == [s \in SUBSET (1..m) |->
                     IF m \in s THEN step[<<g[s \ {m}], m>>] ELSE g[s]]
  <2>2. ASSUME NEW s \in SUBSET (1..m)
        PROVE  /\ s \ {m} \in SUBSET (1..(m - 1))
               /\ m \notin s => s \in SUBSET (1..(m - 1))
    OBVIOUS
  <2>3. h \in [SUBSET (1..m) -> A]
    <3> SUFFICES ASSUME NEW s \in SUBSET (1..m)
                 PROVE  (IF m \in s THEN step[<<g[s \ {m}], m>>] ELSE g[s]) \in A
      OBVIOUS
    <3>1. g[s \ {m}] \in A /\ (m \notin s => g[s] \in A)
      BY <2>2
    <3>2. <<g[s \ {m}], m>> \in A \X (1..n)
      BY <3>1
    <3> QED BY <3>1, <3>2
  <2>4. ASSUME NEW s \in SUBSET (1..m)
        PROVE  h[s] = IF s = {} THEN base ELSE step[<<h[s \ {Max(s)}], Max(s)>>]
    <3>1. CASE m \in s
      <4>1. Max(s) = m
        <5>1. m \in Nat /\ \A y \in s : m >= y
          OBVIOUS
        <5> QED BY <3>1, <5>1, MaxIs
      <4>2. h[s \ {m}] = g[s \ {m}]
        BY <2>2
      <4>3. h[s] = step[<<g[s \ {m}], m>>]
        BY <3>1
      <4> QED BY <3>1, <4>1, <4>2, <4>3
    <3>2. CASE m \notin s /\ s # {}
      <4>1. s \in SUBSET (1..(m - 1)) /\ Max(s) \in s
        <5>1. m \in Nat
          OBVIOUS
        <5> QED BY <2>2, <3>2, <5>1, MaxFacts
      <4>2. g[s] = step[<<g[s \ {Max(s)}], Max(s)>>]
        BY <2>1, <3>2, <4>1 DEF Folds
      <4>3. h[s] = g[s]
        BY <3>2
      <4>4. h[s \ {Max(s)}] = g[s \ {Max(s)}]
        BY <3>2, <4>1
      <4> HIDE DEF h
      <4> QED BY <3>2, <4>2, <4>3, <4>4
    <3>3. CASE s = {}
      <4>1. g[{}] = base
        BY <2>1 DEF Folds
      <4> QED BY <3>3, <4>1
    <3> QED BY <3>1, <3>2, <3>3
  <2> HIDE DEF h
  <2>5. Folds(h, base, step, m)
    BY <2>4 DEF Folds
  <2>6. \E f \in [SUBSET (1..m) -> A] : Folds(f, base, step, m)
    BY <2>3, <2>5
  <2>7. m \in 0..n
    OBVIOUS
  <2> QED BY <2>6, <2>7
<1> HIDE DEF S
<1>3. \A i \in 1..n : i - 1 \in S => i \in S
  BY <1>2
<1>4. \A i \in 0..n : i \in S
  BY <1>1, <1>3, Induction
<1>5. n \in S
  BY <1>4
<1> QED BY <1>5 DEF S

\* What a fold makes of the numbers up to i is what step makes of the numbers
\* up to i - 1 and of i.
LEMMA Intervals ==
  ASSUME NEW n \in Nat, NEW i \in 1..n
  PROVE  1..i # {} /\ 1..i \in SUBSET (1..n) /\ Max(1..i) = i /\ (1..i) \ {i} = 1..(i - 1)
<1>1. 1..i # {} /\ 1..i \in SUBSET (1..n) /\ i \in 1..i /\ \A y \in 1..i : i >= y
  OBVIOUS
<1>2. Max(1..i) = i
  BY <1>1, MaxIs
<1>3. (1..i) \ {i} = 1..(i - 1)
  OBVIOUS
<1> QED BY <1>1, <1>2, <1>3

-----------------------------------------------------------------------------
(* The replay buffer: its sums.                                            *)

\* A function on the first n numbers is a sequence.
LEMMA FunctionIsSequence ==
  ASSUME NEW S, NEW n \in Nat, NEW f \in [1..n -> S]
  PROVE  f \in Seq(S) /\ Len(f) = n
<1>1. f \in Seq(S)
  BY SeqDef
<1>2. DOMAIN f = 1..n /\ DOMAIN f = 1..Len(f) /\ Len(f) \in Nat
  BY <1>1, LenProperties
<1> QED BY <1>1, <1>2

Fields == {"difficulty", "reward", "success", "failure"}
Amounts == [Fields -> Int]

\* Amounts are added and subtracted field by field, and stay amounts.
LEMMA AmountFacts ==
  /\ DOMAIN Zero = Fields /\ Zero \in Amounts
  /\ \A f \in Fields : Zero[f] = 0
  /\ \A a \in Amounts, b \in Amounts :
       /\ Plus(a, b) \in Amounts /\ Minus(a, b) \in Amounts
       /\ \A f \in Fields : Plus(a, b)[f] = a[f] + b[f] /\ Minus(a, b)[f] = a[f] - b[f]
<1>1. DOMAIN Zero = Fields
  BY DEF Zero, Fields
<1>2. \A f \in Fields : Zero[f] = 0
  BY DEF Zero, Fields
<1>3. Zero = [f \in Fields |-> 0]
  BY <1>1, <1>2 DEF Zero
<1>4. ASSUME NEW a \in Amounts, NEW b \in Amounts
      PROVE  /\ Plus(a, b) \in Amounts /\ Minus(a, b) \in Amounts
             /\ \A f \in Fields : Plus(a, b)[f] = a[f] + b[f] /\ Minus(a, b)[f] = a[f] - b[f]
  BY DEF Plus, Minus, Amounts
<1> QED BY <1>1, <1>2, <1>3, <1>4 DEF Amounts

Tracks == [difficulty : BOOLEAN, success : BOOLEAN]

\* The fields that tr tracks.
Tracked(tr) ==
  {f \in Fields : /\ f = "difficulty" => tr.difficulty
                  /\ f \in {"success", "failure"} => tr.success}

\* Of the fields that are tracked an eviction takes away what was added.
LEMMA ShareFacts ==
  ASSUME NEW s \in Samples, NEW tr \in Tracks
  PROVE  /\ Share(s, tr) \in Amounts
         /\ Everything \in Tracks
         /\ \A f \in Tracked(tr) : Share(s, tr)[f] = Share(s, Everything)[f]
<1>1. /\ s.difficulty # None => s.difficulty \in Int
      /\ s.reward # None => s.reward \in Int
  BY ReplayBufferAssumption
<1> DEFINE d == IF tr.difficulty /\ s.difficulty # None THEN s.difficulty ELSE 0
           r == IF s.reward # None THEN s.reward ELSE 0
           y == IF tr.success /\ s.success = TRUE THEN 1 ELSE 0
           n == IF tr.success /\ s.success = FALSE THEN 1 ELSE 0
<1>2. d \in Int /\ r \in Int /\ y \in Int /\ n \in Int
  BY <1>1
<1>3. Share(s, tr) = [difficulty |-> d, reward |-> r, success |-> y, failure |-> n]
  BY DEF Share
<1> HIDE DEF d, r, y, n
<1>4. Share(s, tr) \in Amounts
  <2>1. [difficulty |-> d, reward |-> r, success |-> y, failure |-> n] =
          [f \in Fields |-> IF f = "difficulty" THEN d ELSE IF f = "reward" THEN r
                            ELSE IF f = "success" THEN y ELSE n]
    BY DEF Fields
  <2> DEFINE h == [f \in Fields |-> IF f = "difficulty" THEN d ELSE IF f = "reward" THEN r
                                    ELSE IF f = "success" THEN y ELSE n]
  <2>2. h \in [Fields -> Int]
    BY <1>2
  <2> HIDE DEF h
  <2> QED BY <1>3, <2>1, <2>2 DEF Amounts, h
<1>5. Everything \in Tracks
  BY DEF Everything, Tracks
<1>6. ASSUME NEW f \in Tracked(tr) PROVE Share(s, tr)[f] = Share(s, Everything)[f]
  BY DEF Share, Everything, Tracked, Fields
<1> QED BY <1>4, <1>5, <1>6

\* Recount, for what tr tracks; and the function whose last value it is.
Recounted(q, tr) ==
  CHOOSE f : f = [s \in SUBSET DOMAIN q |->
                    IF s = {} THEN Zero ELSE Plus(f[s \ {Max(s)}], Share(q[Max(s)], tr))]
RecountOf(q, tr) == Recounted(q, tr)[DOMAIN q]

\* Recount is the last value of the fold, for the fields tracked in its state.
LEMMA RecountIsOf ==
  ASSUME NEW q
  PROVE  Recount(q) = RecountOf(q, track) /\ Recount(q)' = RecountOf(q, track')
BY DEF Recount, FoldLeft, MapThenFoldSet, RecountOf, Recounted

\* c[i] is the sum of the first i samples of q.
Totals(c, q, tr) == c[0] = Zero /\ \A i \in 1..Len(q) : c[i] = Plus(c[i - 1], Share(q[i], tr))

\* Samples can be summed up one by one, and Recount is their sum.
LEMMA RecountIsTheSum ==
  ASSUME NEW q \in Seq(Samples), NEW tr \in Tracks
  PROVE  /\ \E c \in [0..Len(q) -> Amounts] : Totals(c, q, tr)
         /\ \A c \in [0..Len(q) -> Amounts] : Totals(c, q, tr) => RecountOf(q, tr) = c[Len(q)]
<1> DEFINE n == Len(q)
           step == [p \in Amounts \X (1..n) |-> Plus(p[1], Share(q[p[2]], tr))]
           F == Recounted(q, tr)
<1>1. n \in Nat /\ DOMAIN q = 1..n /\ \A i \in 1..n : q[i] \in Samples
  BY LenProperties, ElementOfSeq
<1>2. \A i \in 1..n : Share(q[i], tr) \in Amounts
  BY <1>1, ShareFacts
<1>3. step \in [Amounts \X (1..n) -> Amounts]
  <2> SUFFICES ASSUME NEW p \in Amounts \X (1..n) PROVE Plus(p[1], Share(q[p[2]], tr)) \in Amounts
    OBVIOUS
  <2> QED BY <1>2, AmountFacts
<1>4. \A a \in Amounts, i \in 1..n : step[<<a, i>>] = Plus(a, Share(q[i], tr))
  OBVIOUS
<1> HIDE DEF step
<1>5. PICK g \in [SUBSET (1..n) -> Amounts] : Folds(g, Zero, step, n)
  <2>1. Zero \in Amounts
    BY AmountFacts
  <2> HIDE DEF n
  <2> QED BY <1>1, <1>3, <2>1, FoldExists
<1>6. g = [s \in SUBSET DOMAIN q |-> IF s = {} THEN Zero ELSE Plus(g[s \ {Max(s)}], Share(q[Max(s)], tr))]
  <2>1. ASSUME NEW s \in SUBSET (1..n)
        PROVE  g[s] = IF s = {} THEN Zero ELSE Plus(g[s \ {Max(s)}], Share(q[Max(s)], tr))
    <3>1. CASE s = {}
      BY <1>5, <3>1 DEF Folds
    <3>2. CASE s # {}
      <4>1. Max(s) \in 1..n /\ s \ {Max(s)} \in SUBSET (1..n)
        BY <1>1, <3>2, MaxFacts
      <4>2. g[s] = step[<<g[s \ {Max(s)}], Max(s)>>]
        BY <1>5, <3>2 DEF Folds
      <4>3. g[s \ {Max(s)}] \in Amounts
        BY <4>1
      <4> QED BY <1>4, <3>2, <4>1, <4>2, <4>3
    <3> QED BY <3>1, <3>2
  <2> QED BY <1>1, <2>1
<1>7. F = [s \in SUBSET (1..n) |-> IF s = {} THEN Zero ELSE Plus(F[s \ {Max(s)}], Share(q[Max(s)], tr))]
  <2>1. F = [s \in SUBSET DOMAIN q |-> IF s = {} THEN Zero ELSE Plus(F[s \ {Max(s)}], Share(q[Max(s)], tr))]
    BY <1>6 DEF Recounted
  <2> QED BY <1>1, <2>1
<1> HIDE DEF F
<1>8. \E c \in [0..n -> Amounts] : Totals(c, q, tr)
  <2> DEFINE c == [i \in 0..n |-> g[1..i]]
  <2>1. c \in [0..n -> Amounts]
    BY <1>1
  <2>2. c[0] = Zero
    <3>1. g[{}] = Zero
      BY <1>5 DEF Folds
    <3> QED BY <1>1, <3>1
  <2>3. ASSUME NEW i \in 1..n PROVE c[i] = Plus(c[i - 1], Share(q[i], tr))
    <3>1. 1..i # {} /\ 1..i \in SUBSET (1..n) /\ Max(1..i) = i /\ (1..i) \ {i} = 1..(i - 1)
      BY <1>1, Intervals
    <3>2. g[1..i] = step[<<g[1..(i - 1)], i>>]
      BY <1>5, <3>1 DEF Folds
    <3>3. 1..(i - 1) \in SUBSET (1..n) /\ i - 1 \in 0..n /\ i \in 0..n
      BY <1>1
    <3>4. g[1..(i - 1)] \in Amounts
      BY <3>3
    <3> QED BY <1>4, <3>2, <3>3, <3>4
  <2> HIDE DEF c
  <2>4. Totals(c, q, tr)
    BY <2>2, <2>3 DEF Totals
  <2> QED BY <2>1, <2>4
<1>9. ASSUME NEW c \in [0..n -> Amounts], Totals(c, q, tr) PROVE RecountOf(q, tr) = c[n]
  <2> DEFINE S == {i \in 0..n : F[1..i] = c[i]}
  <2>1. 0 \in S
    <3>1. {} \in SUBSET (1..n) /\ 1..0 = {}
      OBVIOUS
    <3>2. F[{}] = Zero
      BY <1>7, <3>1
    <3> QED BY <1>1, <1>9, <3>1, <3>2 DEF Totals
  <2>2. ASSUME NEW i \in 1..n, i - 1 \in S PROVE i \in S
    <3>1. 1..i # {} /\ 1..i \in SUBSET (1..n) /\ Max(1..i) = i /\ (1..i) \ {i} = 1..(i - 1)
      BY <1>1, Intervals
    <3>2. F[1..i] = Plus(F[1..(i - 1)], Share(q[i], tr))
      BY <1>7, <3>1
    <3>3. c[i] = Plus(c[i - 1], Share(q[i], tr))
      BY <1>9 DEF Totals
    <3>4. i \in 0..n
      BY <1>1
    <3> QED BY <2>2, <3>2, <3>3, <3>4
  <2> HIDE DEF S, n
  <2>3. \A i \in 1..n : i - 1 \in S => i \in S
    BY <2>2
  <2>4. \A i \in 0..n : i \in S
    BY <1>1, <2>1, <2>3, Induction
  <2>5. n \in S
    BY <1>1, <2>4
  <2> QED BY <1>1, <2>5 DEF RecountOf, S, F
<1> QED BY <1>8, <1>9

\* An empty buffer sums up to zero.
LEMMA RecountOfNothing ==
  ASSUME NEW tr \in Tracks PROVE RecountOf(<<>>, tr) = Zero
<1> DEFINE q == <<>>
<1>1. q \in Seq(Samples) /\ Len(q) = 0
  BY EmptySeq
<1> HIDE DEF q
<1>2. PICK c \in [0..Len(q) -> Amounts] : Totals(c, q, tr)
  BY <1>1, RecountIsTheSum
<1>3. RecountOf(q, tr) = c[Len(q)]
  BY <1>1, <1>2, RecountIsTheSum
<1>4. RecountOf(q, tr) = Zero
  BY <1>1, <1>2, <1>3 DEF Totals
<1> QED BY <1>4 DEF q

\* A sample that is added adds its share.
LEMMA RecountGrows ==
  ASSUME NEW q \in Seq(Samples), NEW s \in Samples, NEW tr \in Tracks
  PROVE  /\ RecountOf(q, tr) \in Amounts
         /\ RecountOf(Append(q, s), tr) = Plus(RecountOf(q, tr), Share(s, tr))
<1> DEFINE n == Len(q)
           t == Append(q, s)
<1>1. /\ n \in Nat /\ t \in Seq(Samples) /\ Len(t) = n + 1 /\ t[n + 1] = s
      /\ \A i \in 1..n : t[i] = q[i]
  BY LenProperties, AppendProperties
<1>2. PICK c \in [0..n -> Amounts] : Totals(c, q, tr)
  BY RecountIsTheSum
<1>3. RecountOf(q, tr) = c[n] /\ c[n] \in Amounts
  BY <1>1, <1>2, RecountIsTheSum
<1> DEFINE v == Plus(c[n], Share(s, tr))
           d == [i \in 0..(n + 1) |-> IF i = n + 1 THEN v ELSE c[i]]
<1>4. v \in Amounts
  BY <1>3, ShareFacts, AmountFacts
<1> HIDE DEF t, n
<1>5. d \in [0..(n + 1) -> Amounts]
  <2> HIDE DEF v
  <2> QED BY <1>1, <1>4
<1>6. d[0] = Zero /\ d[n + 1] = v
  BY <1>1, <1>2 DEF Totals
<1>7. ASSUME NEW i \in 1..(n + 1) PROVE d[i] = Plus(d[i - 1], Share(t[i], tr))
  <2>1. i - 1 \in 0..n /\ i - 1 # n + 1 /\ i - 1 \in 0..(n + 1) /\ i \in 0..(n + 1)
    BY <1>1
  <2>2. d[i - 1] = c[i - 1]
    BY <2>1
  <2>3. CASE i = n + 1
    <3>1. i - 1 = n
      BY <1>1, <2>3
    <3> QED BY <1>1, <1>6, <2>2, <2>3, <3>1
  <2>4. CASE i # n + 1
    <3>1. i \in 1..n
      BY <1>1, <2>4
    <3>2. c[i] = Plus(c[i - 1], Share(q[i], tr))
      BY <1>2, <3>1 DEF Totals, n
    <3>3. d[i] = c[i]
      BY <2>1, <2>4
    <3> QED BY <1>1, <2>2, <3>1, <3>2, <3>3
  <2> QED BY <2>3, <2>4
<1> HIDE DEF d
<1>8. Totals(d, t, tr)
  BY <1>1, <1>6, <1>7 DEF Totals
<1>9. RecountOf(t, tr) = d[n + 1]
  BY <1>1, <1>5, <1>8, RecountIsTheSum
<1> QED BY <1>3, <1>6, <1>9 DEF t

\* What an eviction leaves.
LEMMA RemoveAtElements ==
  ASSUME NEW S, NEW q \in Seq(S), NEW i \in 1..Len(q)
  PROVE  /\ RemoveAt(q, i) \in Seq(S) /\ Len(RemoveAt(q, i)) = Len(q) - 1
         /\ \A j \in 1..(Len(q) - 1) : RemoveAt(q, i)[j] = IF j < i THEN q[j] ELSE q[j + 1]
<1> DEFINE n == Len(q)
           a == SubSeq(q, 1, i - 1)
           b == SubSeq(q, i + 1, n)
<1>1. n \in Nat /\ (\A j \in 1..n : q[j] \in S) /\ i \in 1..n
  BY LenProperties, ElementOfSeq
<1>2. a \in Seq(S) /\ Len(a) = i - 1 /\ \A j \in 1..(i - 1) : a[j] = q[j]
  <2>1. 1 \in Int /\ i - 1 \in Int /\ \A j \in 1..(i - 1) : q[j] \in S
    BY <1>1
  <2>2. /\ a \in Seq(S)
        /\ Len(a) = IF 1 <= i - 1 THEN (i - 1) - 1 + 1 ELSE 0
        /\ \A j \in 1..((i - 1) - 1 + 1) : a[j] = q[1 + j - 1]
    BY <2>1, SubSeqProperties
  <2>3. (i - 1) - 1 + 1 = i - 1 /\ \A j \in 1..(i - 1) : 1 + j - 1 = j
    OBVIOUS
  <2> HIDE DEF a
  <2> QED BY <2>2, <2>3
<1>3. b \in Seq(S) /\ Len(b) = n - i /\ \A j \in 1..(n - i) : b[j] = q[i + j]
  <2>1. i + 1 \in Int /\ n \in Int /\ \A j \in (i + 1)..n : q[j] \in S
    BY <1>1
  <2>2. /\ b \in Seq(S)
        /\ Len(b) = IF i + 1 <= n THEN n - (i + 1) + 1 ELSE 0
        /\ \A j \in 1..(n - (i + 1) + 1) : b[j] = q[(i + 1) + j - 1]
    BY <2>1, SubSeqProperties
  <2>3. n - (i + 1) + 1 = n - i /\ \A j \in 1..(n - i) : (i + 1) + j - 1 = i + j
    BY <1>1
  <2> HIDE DEF b
  <2>4. Len(b) = n - i
    BY <1>1, <2>2
  <2>5. ASSUME NEW j \in 1..(n - i) PROVE b[j] = q[i + j]
    <3>1. j \in 1..(n - (i + 1) + 1)
      BY <2>3
    <3>2. b[j] = q[(i + 1) + j - 1]
      BY <2>2, <3>1
    <3> QED BY <2>3, <3>2
  <2> QED BY <2>2, <2>4, <2>5
<1>4. RemoveAt(q, i) = a \o b
  BY DEF RemoveAt
<1> HIDE DEF a, b
<1>5. /\ a \o b \in Seq(S) /\ Len(a \o b) = Len(a) + Len(b)
      /\ \A j \in 1..(Len(a) + Len(b)) : (a \o b)[j] = IF j <= Len(a) THEN a[j] ELSE b[j - Len(a)]
  BY <1>2, <1>3, ConcatProperties
<1>6. Len(a) + Len(b) = n - 1
  BY <1>1, <1>2, <1>3
<1>7. ASSUME NEW j \in 1..(n - 1) PROVE (a \o b)[j] = IF j < i THEN q[j] ELSE q[j + 1]
  <2>0. (a \o b)[j] = IF j <= i - 1 THEN a[j] ELSE b[j - (i - 1)]
    BY <1>2, <1>5, <1>6
  <2>1. CASE j < i
    <3>1. j \in 1..(i - 1) /\ j <= i - 1
      BY <1>1, <2>1
    <3> QED BY <1>2, <2>0, <2>1, <3>1
  <2>2. CASE ~(j < i)
    <3>1. ~(j <= i - 1) /\ j - (i - 1) \in 1..(n - i) /\ i + (j - (i - 1)) = j + 1
      BY <1>1, <2>2
    <3> QED BY <1>3, <2>0, <2>2, <3>1
  <2> QED BY <2>1, <2>2
<1> QED BY <1>4, <1>5, <1>6, <1>7

\* A sample that is evicted takes its share away.
LEMMA RecountShrinks ==
  ASSUME NEW q \in Seq(Samples), NEW i \in 1..Len(q), NEW tr \in Tracks
  PROVE  /\ RecountOf(RemoveAt(q, i), tr) \in Amounts
         /\ \A f \in Fields : RecountOf(RemoveAt(q, i), tr)[f] = RecountOf(q, tr)[f] - Share(q[i], tr)[f]
<1> DEFINE n == Len(q)
           t == RemoveAt(q, i)
           v == Share(q[i], tr)
<1>1. /\ n \in Nat /\ i \in 1..n /\ t \in Seq(Samples) /\ Len(t) = n - 1
      /\ \A j \in 1..(n - 1) : t[j] = IF j < i THEN q[j] ELSE q[j + 1]
  BY LenProperties, RemoveAtElements
<1>2. PICK c \in [0..n -> Amounts] : Totals(c, q, tr)
  BY RecountIsTheSum
<1>3. RecountOf(q, tr) = c[n] /\ c[n] \in Amounts
  BY <1>1, <1>2, RecountIsTheSum
<1>4. \A j \in 1..n : q[j] \in Samples /\ Share(q[j], tr) \in Amounts
  BY <1>1, ElementOfSeq, ShareFacts
<1>5. v \in Amounts
  BY <1>1, <1>4
<1>6. ASSUME NEW j \in 1..n PROVE c[j] = Plus(c[j - 1], Share(q[j], tr))
  BY <1>2 DEF Totals
<1> HIDE DEF t, n
<1> DEFINE d == [j \in 0..(n - 1) |-> IF j < i THEN c[j] ELSE Minus(c[j + 1], v)]
<1>7. d \in [0..(n - 1) -> Amounts]
  <2> SUFFICES ASSUME NEW j \in 0..(n - 1)
               PROVE  (IF j < i THEN c[j] ELSE Minus(c[j + 1], v)) \in Amounts
    OBVIOUS
  <2>1. j \in 0..n /\ j + 1 \in 0..n
    BY <1>1
  <2>2. c[j] \in Amounts /\ c[j + 1] \in Amounts
    BY <2>1
  <2> HIDE DEF v
  <2> QED BY <1>5, <2>2, AmountFacts
<1>8. d[0] = Zero
  BY <1>1, <1>2 DEF Totals
<1>9. ASSUME NEW j \in 1..(n - 1) PROVE d[j] = Plus(d[j - 1], Share(t[j], tr))
  <2>1. /\ j \in 1..n /\ j + 1 \in 1..n /\ j - 1 \in 0..(n - 1) /\ j \in 0..(n - 1) /\ j \in 0..n
        /\ j + 1 \in 0..n /\ j - 1 \in 0..n /\ (j + 1) - 1 = j /\ (j - 1) + 1 = j
    BY <1>1
  <2>2. CASE j < i
    <3>1. j - 1 < i
      BY <2>1, <2>2
    <3>2. d[j] = c[j] /\ d[j - 1] = c[j - 1] /\ t[j] = q[j]
      BY <1>1, <2>1, <2>2, <3>1
    <3> QED BY <1>6, <2>1, <3>2
  <2>3. CASE ~(j < i)
    <3>1. t[j] = q[j + 1] /\ d[j] = Minus(c[j + 1], v)
      BY <1>1, <2>1, <2>3
    <3>2. c[j + 1] = Plus(c[j], Share(q[j + 1], tr))
      BY <1>6, <2>1
    <3>3. d[j - 1] = Minus(c[j], v)
      <4>1. CASE j = i
        <5>1. d[j - 1] = c[j - 1]
          BY <2>1, <4>1
        <5>2. c[j] = Plus(c[j - 1], v)
          BY <1>6, <2>1, <4>1
        <5>3. c[j - 1] \in Amounts
          BY <2>1
        <5> DEFINE e == c[j - 1]
        <5> HIDE DEF e, v
        <5>4. Minus(Plus(e, v), v) = e
          <6> DEFINE m == Minus(Plus(e, v), v)
          <6>1. e \in Amounts
            BY <5>3 DEF e
          <6>2. m \in Amounts /\ \A f \in Fields : m[f] = (e[f] + v[f]) - v[f]
            BY <1>5, <6>1, AmountFacts
          <6> HIDE DEF m
          <6>3. \A f \in Fields : m[f] = e[f]
            BY <1>5, <6>1, <6>2 DEF Amounts
          <6>4. m = e
            BY <6>1, <6>2, <6>3 DEF Amounts
          <6> QED BY <6>4 DEF m
        <5> QED BY <5>1, <5>2, <5>4 DEF e
      <4>2. CASE j # i
        <5>1. ~(j - 1 < i)
          BY <1>1, <2>1, <2>3, <4>2
        <5> QED BY <2>1, <5>1
      <4> QED BY <4>1, <4>2
    <3>4. c[j] \in Amounts /\ Share(q[j + 1], tr) \in Amounts
      BY <1>4, <2>1
    <3> DEFINE e == c[j]
               w == Share(q[j + 1], tr)
    <3> HIDE DEF e, w, v
    <3>5. Minus(Plus(e, w), v) = Plus(Minus(e, v), w)
      BY <1>5, <3>4 DEF Minus, Plus, Amounts, e, w
    <3> QED BY <3>1, <3>2, <3>3, <3>5 DEF e, w
  <2> QED BY <2>2, <2>3
<1> HIDE DEF d
<1>10. Totals(d, t, tr)
  BY <1>1, <1>8, <1>9 DEF Totals
<1>11. RecountOf(t, tr) = d[n - 1] /\ d[n - 1] \in Amounts
  <2>1. n - 1 \in 0..(n - 1)
    BY <1>1
  <2> QED BY <1>1, <1>7, <1>10, <2>1, RecountIsTheSum
<1>12. \A f \in Fields : d[n - 1][f] = c[n][f] - v[f]
  <2>1. CASE i = n
    <3>1. d[n - 1] = c[n - 1] /\ n \in 1..n
      BY <1>1, <2>1 DEF d
    <3>2. c[n] = Plus(c[n - 1], v)
      BY <1>6, <2>1, <3>1
    <3>3. c[n - 1] \in Amounts
      BY <1>1
    <3> DEFINE e == c[n - 1]
    <3> HIDE DEF e, v
    <3>4. \A f \in Fields : Plus(e, v)[f] = e[f] + v[f] /\ e[f] \in Int /\ v[f] \in Int
      <4>1. e \in Amounts /\ v \in Amounts
        BY <1>5, <3>3 DEF e
      <4>2. Plus(e, v) \in Amounts /\ \A f \in Fields : Plus(e, v)[f] = e[f] + v[f]
        BY ONLY <4>1, AmountFacts
      <4> QED BY <4>1, <4>2 DEF Amounts
    <3>5. \A f \in Fields : e[f] = Plus(e, v)[f] - v[f]
      BY <3>4
    <3> QED BY <3>1, <3>2, <3>5 DEF e
  <2>2. CASE i # n
    <3>1. n - 1 \in 0..(n - 1) /\ ~(n - 1 < i) /\ (n - 1) + 1 = n
      BY <1>1, <2>2
    <3>2. d[n - 1] = Minus(c[n], v)
      BY <3>1 DEF d
    <3> DEFINE e == c[n]
    <3> HIDE DEF e, v
    <3> QED BY <1>3, <1>5, <3>2, AmountFacts DEF e
  <2> QED BY <2>1, <2>2
<1> QED BY <1>3, <1>11, <1>12 DEF t

-----------------------------------------------------------------------------
(* The replay buffer: its deques.                                          *)

\* What appending and replacing an element do to the length.
LEMMA DequeFacts ==
  ASSUME NEW S, NEW q \in Seq(S), NEW e \in S
  PROVE  /\ Append(q, e) \in Seq(S) /\ Len(Append(q, e)) = Len(q) + 1
         /\ \A i \in 1..Len(q) :
              [q EXCEPT ![i] = e] \in Seq(S) /\ Len([q EXCEPT ![i] = e]) = Len(q)
<1>1. Append(q, e) \in Seq(S) /\ Len(Append(q, e)) = Len(q) + 1
  BY AppendProperties
<1>2. ASSUME NEW i \in 1..Len(q)
      PROVE  [q EXCEPT ![i] = e] \in Seq(S) /\ Len([q EXCEPT ![i] = e]) = Len(q)
  BY ExceptSeq
<1> QED BY <1>1, <1>2

\* The part of the type invariant that the sizes depend on, and the sizes.
Deques ==
  /\ policy \in {"fifo", "priority", "random"}
  /\ buffer \in Seq(Samples) /\ priorities \in Seq(Priorities)
  /\ added \in Nat /\ evicted \in Nat
  /\ SizeIsRight

\* A buffer that was just made satisfies the invariant.
LEMMA DequesBegin == BufferInit => Deques
<1> SUFFICES ASSUME BufferInit PROVE Deques
  OBVIOUS
<1>1. <<>> \in Seq(Samples) /\ <<>> \in Seq(Priorities) /\ Len(<<>>) = 0
  BY EmptySeq
<1>2. MaxSize \in Nat /\ Policies \subseteq {"fifo", "priority", "random"}
  BY ReplayBufferAssumption
<1> QED BY <1>1, <1>2 DEF BufferInit, Deques, SizeIsRight

\* The place of a victim is a place of the buffer.
LEMMA VictimsAreInTheBuffer ==
  ASSUME Deques, Len(buffer) >= MaxSize, NEW i \in Victims
  PROVE  i \in 1..Len(buffer)
<1>1. DOMAIN buffer = 1..Len(buffer) /\ Len(buffer) \in Nat
  BY LenProperties DEF Deques
<1>2. MaxSize \in Nat \ {0}
  BY ReplayBufferAssumption
<1>3. CASE policy = "fifo"
  BY <1>1, <1>2, <1>3 DEF Victims
<1>4. CASE policy = "random"
  BY <1>1, <1>4 DEF Victims
<1>5. CASE policy = "priority"
  BY <1>1, <1>5 DEF Victims
<1> QED BY <1>3, <1>4, <1>5 DEF Deques

\* Every operation of the buffer preserves the invariant.
LEMMA DequesStep == Deques /\ [BufferNext]_bufferVars => Deques'
<1> SUFFICES ASSUME Deques, [BufferNext]_bufferVars PROVE Deques'
  OBVIOUS
<1>1. /\ MaxSize \in Nat \ {0} /\ Len(buffer) \in Nat /\ Len(priorities) = Len(buffer)
      /\ evicted + Len(buffer) = added /\ Len(buffer) <= MaxSize
      /\ buffer \in Seq(Samples) /\ priorities \in Seq(Priorities)
      /\ added \in Nat /\ evicted \in Nat
  BY ReplayBufferAssumption, LenProperties DEF Deques, SizeIsRight
<1>2. ASSUME NEW s \in Samples, Add(s) PROVE Deques'
  <2>1. s.priority \in Priorities
    BY ReplayBufferAssumption
  <2>2. policy' = policy /\ added' = added + 1
    BY <1>2 DEF Add, config
  <2>3. CASE Len(buffer) >= MaxSize
    <3>1. PICK i \in Victims :
            /\ buffer' = Append(RemoveAt(buffer, i), s)
            /\ priorities' = Append(RemoveAt(priorities, i), s.priority)
            /\ evicted' = evicted + 1
      BY <1>2, <2>3 DEF Add
    <3>2. i \in 1..Len(buffer) /\ i \in 1..Len(priorities)
      BY <1>1, <2>3, VictimsAreInTheBuffer
    <3>3. /\ RemoveAt(buffer, i) \in Seq(Samples)
          /\ Len(RemoveAt(buffer, i)) = Len(buffer) - 1
          /\ RemoveAt(priorities, i) \in Seq(Priorities)
          /\ Len(RemoveAt(priorities, i)) = Len(buffer) - 1
      BY <1>1, <3>2, RemoveAtElements
    <3>4. /\ buffer' \in Seq(Samples) /\ Len(buffer') = Len(buffer)
          /\ priorities' \in Seq(Priorities) /\ Len(priorities') = Len(buffer)
      <4> DEFINE b == RemoveAt(buffer, i)
                 p == RemoveAt(priorities, i)
      <4>1. b \in Seq(Samples) /\ p \in Seq(Priorities) /\ Len(b) = Len(buffer) - 1 /\ Len(p) = Len(b)
        BY <3>3
      <4>2. buffer' = Append(b, s) /\ priorities' = Append(p, s.priority)
        BY <3>1
      <4> HIDE DEF b, p
      <4>3. buffer' \in Seq(Samples) /\ Len(buffer') = Len(b) + 1
        BY <4>1, <4>2, DequeFacts
      <4>4. priorities' \in Seq(Priorities) /\ Len(priorities') = Len(p) + 1
        BY <2>1, <4>1, <4>2, DequeFacts
      <4> QED BY <1>1, <4>1, <4>3, <4>4
    <3>5. evicted' = evicted + 1
      BY <3>1
    <3>6. SizeIsRight'
      BY <1>1, <2>2, <3>4, <3>5 DEF SizeIsRight
    <3> QED BY <1>1, <2>2, <3>4, <3>5, <3>6 DEF Deques
  <2>4. CASE ~(Len(buffer) >= MaxSize)
    <3>1. buffer' = Append(buffer, s) /\ priorities' = Append(priorities, s.priority) /\ evicted' = evicted
      BY <1>2, <2>4 DEF Add
    <3>2. /\ buffer' \in Seq(Samples) /\ Len(buffer') = Len(buffer) + 1
          /\ priorities' \in Seq(Priorities) /\ Len(priorities') = Len(buffer) + 1
      BY <1>1, <2>1, <3>1, DequeFacts
    <3> QED BY <1>1, <2>2, <2>4, <3>1, <3>2 DEF Deques, SizeIsRight
  <2> QED BY <2>3, <2>4
<1>3. CASE Clear
  <2>1. <<>> \in Seq(Samples) /\ <<>> \in Seq(Priorities) /\ Len(<<>>) = 0
    BY EmptySeq
  <2> QED BY <1>1, <1>3, <2>1 DEF Clear, config, Deques, SizeIsRight
<1>4. ASSUME NEW i \in 1..MaxSize, NEW p \in Priorities, UpdatePriority(i, p) PROVE Deques'
  <2>1. i \in 1..Len(priorities)
    BY <1>1, <1>4, LenProperties DEF UpdatePriority
  <2>2. priorities' \in Seq(Priorities) /\ Len(priorities') = Len(priorities)
    BY <1>1, <1>4, <2>1, DequeFacts DEF UpdatePriority
  <2> QED BY <1>1, <1>4, <2>2 DEF UpdatePriority, config, Deques, SizeIsRight
<1>5. CASE UpdateByReward
  <2>1. priorities' \in [1..Len(buffer) -> Priorities]
    BY <1>1, <1>5, LenProperties DEF UpdateByReward
  <2>2. priorities' \in Seq(Priorities) /\ Len(priorities') = Len(buffer)
    BY <1>1, <2>1
  <2> QED BY <1>1, <1>5, <2>2 DEF UpdateByReward, config, Deques, SizeIsRight
<1>6. CASE ReloadBuffer
  BY <1>1, <1>6 DEF ReloadBuffer, config, Deques, SizeIsRight
<1>7. CASE UNCHANGED bufferVars
  BY <1>1, <1>7 DEF bufferVars, config, Deques, SizeIsRight
<1> QED BY <1>2, <1>3, <1>4, <1>5, <1>6, <1>7 DEF BufferNext

\* The sums that are tracked are the sums of the samples in the buffer.
Sums ==
  /\ policy \in Policies /\ track \in Trackings
  /\ sums \in Amounts
  /\ \A f \in Tracked(track) : sums[f] = RecountOf(buffer, track)[f]

\* An empty buffer has the sums of an empty buffer.
LEMMA SumsBegin == BufferInit => Sums
<1> SUFFICES ASSUME BufferInit PROVE Sums
  OBVIOUS
<1>1. policy \in Policies /\ track \in Trackings /\ buffer = <<>> /\ sums = Zero
  BY DEF BufferInit
<1>2. track \in Tracks
  BY <1>1, ReplayBufferAssumption DEF Tracks
<1> QED BY <1>1, <1>2, AmountFacts, RecountOfNothing DEF Sums

\* Every operation of the buffer keeps the sums.
LEMMA SumsStep == Deques /\ Sums /\ [BufferNext]_bufferVars => Sums'
<1> SUFFICES ASSUME Deques, Sums, [BufferNext]_bufferVars PROVE Sums'
  OBVIOUS
<1>1. /\ track \in Trackings /\ track \in Tracks /\ policy \in Policies /\ sums \in Amounts
      /\ buffer \in Seq(Samples)
      /\ \A f \in Tracked(track) : f \in Fields /\ sums[f] = RecountOf(buffer, track)[f]
  BY ReplayBufferAssumption DEF Sums, Deques, Tracks, Tracked
<1>2. policy' = policy /\ track' = track
  BY DEF BufferNext, Add, Clear, UpdatePriority, UpdateByReward, ReloadBuffer, bufferVars, config
<1> SUFFICES /\ sums' \in Amounts
             /\ \A f \in Tracked(track) : sums'[f] = RecountOf(buffer', track)[f]
  BY <1>1, <1>2 DEF Sums
<1>3. ASSUME NEW s \in Samples, Add(s)
      PROVE  /\ sums' \in Amounts
             /\ \A f \in Tracked(track) : sums'[f] = RecountOf(buffer', track)[f]
  <2> DEFINE v == Share(s, track)
  <2>1. v \in Amounts
    BY <1>1, ShareFacts
  <2>2. CASE Len(buffer) >= MaxSize
    <3>1. PICK i \in Victims :
            /\ buffer' = Append(RemoveAt(buffer, i), s)
            /\ sums' = Plus(Minus(sums, Share(buffer[i], Everything)), v)
      BY <1>3, <2>2 DEF Add
    <3>2. i \in 1..Len(buffer)
      BY <2>2, VictimsAreInTheBuffer
    <3> DEFINE t == RemoveAt(buffer, i)
               w == Share(buffer[i], track)
               e == Share(buffer[i], Everything)
               m == Minus(sums, e)
    <3>3. buffer[i] \in Samples
      BY <1>1, <3>2, ElementOfSeq
    <3>4. /\ w \in Amounts /\ e \in Amounts
          /\ \A f \in Tracked(track) : w[f] = e[f]
      BY <1>1, <3>3, ShareFacts
    <3>5. t \in Seq(Samples)
      BY <1>1, <3>2, RemoveAtElements
    <3>6. /\ RecountOf(t, track) \in Amounts
          /\ \A f \in Fields : RecountOf(t, track)[f] = RecountOf(buffer, track)[f] - w[f]
      BY <1>1, <3>2, RecountShrinks
    <3>7. RecountOf(buffer', track) = Plus(RecountOf(t, track), v)
      <4> HIDE DEF t
      <4> QED BY <1>1, <3>1, <3>5, RecountGrows DEF t
    <3> HIDE DEF t, v, w, e
    <3>8. m \in Amounts /\ \A f \in Fields : m[f] = sums[f] - e[f]
      BY <1>1, <3>4, AmountFacts
    <3>9. sums' = Plus(m, v)
      BY <3>1 DEF e
    <3> HIDE DEF m
    <3>10. sums' \in Amounts /\ \A f \in Fields : sums'[f] = m[f] + v[f]
      BY <2>1, <3>8, <3>9, AmountFacts
    <3>11. \A f \in Fields : RecountOf(buffer', track)[f] = RecountOf(t, track)[f] + v[f]
      BY <2>1, <3>6, <3>7, AmountFacts
    <3>12. ASSUME NEW f \in Tracked(track) PROVE sums'[f] = RecountOf(buffer', track)[f]
      <4>1. f \in Fields /\ sums[f] = RecountOf(buffer, track)[f] /\ w[f] = e[f]
        BY <1>1, <3>4
      <4> QED BY <3>6, <3>8, <3>10, <3>11, <4>1
    <3> QED BY <3>10, <3>12
  <2>3. CASE ~(Len(buffer) >= MaxSize)
    <3>1. buffer' = Append(buffer, s) /\ sums' = Plus(sums, v)
      BY <1>3, <2>3 DEF Add
    <3>2. RecountOf(buffer, track) \in Amounts /\ RecountOf(buffer', track) = Plus(RecountOf(buffer, track), v)
      BY <1>1, <3>1, RecountGrows
    <3> HIDE DEF v
    <3> QED BY <1>1, <2>1, <3>1, <3>2, AmountFacts
  <2> QED BY <2>2, <2>3
<1>4. CASE Clear
  <2>1. buffer' = <<>> /\ sums' = Zero
    BY <1>4 DEF Clear
  <2> QED BY <1>1, <2>1, AmountFacts, RecountOfNothing
<1>5. CASE UNCHANGED <<buffer, sums>>
  BY <1>1, <1>5
<1>6. CASE ReloadBuffer
  <2>1. sums' = RecountOf(buffer, track) /\ buffer' = buffer
    BY <1>6, RecountIsOf DEF ReloadBuffer
  <2>2. RecountOf(buffer, track) \in Amounts
    <3>1. PICK c \in [0..Len(buffer) -> Amounts] : Totals(c, buffer, track)
      BY <1>1, RecountIsTheSum
    <3>2. RecountOf(buffer, track) = c[Len(buffer)] /\ Len(buffer) \in Nat
      BY <1>1, <3>1, RecountIsTheSum, LenProperties
    <3> QED BY <3>2
  <2> QED BY <2>1, <2>2
<1>7. \/ \E s \in Samples : Add(s)
      \/ Clear \/ ReloadBuffer
      \/ UNCHANGED <<buffer, sums>>
  BY DEF BufferNext, UpdatePriority, UpdateByReward, bufferVars
<1> QED BY <1>3, <1>4, <1>5, <1>6, <1>7

\* Whatever the eviction policy, the buffer keeps to max_size, a priority is
\* kept for every sample, and what was added is in the buffer or was evicted
\* (add, _evict_one, clear, update_priority, from_dict).
THEOREM SizeIsRightTheorem == BufferSpec => []SizeIsRight
<1>1. Deques => SizeIsRight
  BY DEF Deques
<1> QED BY DequesBegin, DequesStep, <1>1, PTL DEF BufferSpec

\* The deques, the counters and the sums together.
LEMMA BooksAreKept == Deques /\ Sums => BufferBooks
<1> SUFFICES ASSUME Deques, Sums PROVE BufferBooks
  OBVIOUS
<1>1. BufferTypeOK /\ SizeIsRight
  BY AmountFacts DEF Deques, Sums, BufferTypeOK, Amounts
<1>2. track \in Tracks
  BY ReplayBufferAssumption DEF Sums, Tracks
<1>3. Recount(buffer) = RecountOf(buffer, track)
  BY RecountIsOf
<1>4. /\ "reward" \in Tracked(track)
      /\ track.difficulty => "difficulty" \in Tracked(track)
      /\ track.success => "success" \in Tracked(track) /\ "failure" \in Tracked(track)
  BY <1>2 DEF Tracked, Fields, Tracks
<1> QED BY <1>1, <1>3, <1>4 DEF Sums, BufferBooks

\* For any samples, sizes, eviction policies and trackings, whatever was added,
\* evicted, cleared, reprioritised and reloaded, the two deques and the counters
\* agree and every sum that is tracked is that of the samples in the buffer
\* (add, _evict_one, clear, from_dict).
THEOREM BufferBooksTheorem == BufferSpec => []BufferBooks
BY DequesBegin, DequesStep, SumsBegin, SumsStep, BooksAreKept, PTL DEF BufferSpec
-----------------------------------------------------------------------------
(* The batches of a bucket.                                                *)

HasRoom(batch, max) ==
  /\ (Len(batch) + 1) * max <= TokenBudget
  /\ Len(batch) < IF TokenBudget \div max = 0 THEN 1 ELSE TokenBudget \div max

\* The batches after the sample id is put behind them.
Put(batches, id, max) ==
  IF batches # <<>> /\ HasRoom(Last(batches), max)
    THEN [batches EXCEPT ![Len(batches)] = Append(@, id)]
    ELSE Append(batches, <<id>>)

\* The function whose last value FormBatches is.
Formed(ids, max) ==
  CHOOSE f : f = [s \in SUBSET DOMAIN ids |->
                    IF s = {} THEN <<>> ELSE Put(f[s \ {Max(s)}], ids[Max(s)], max)]

\* FormBatches is the last value of its fold.
LEMMA FormBatchesIs ==
  ASSUME NEW ids, NEW max PROVE FormBatches(ids, max) = Formed(ids, max)[DOMAIN ids]
BY DEF FormBatches, FoldLeft, MapThenFoldSet, Formed, Put, HasRoom

-----------------------------------------------------------------------------
(* Samples, buckets and orders.                                            *)

AllIds == {s.id : s \in Samples}

\* The ids of a sequence are finitely many, and each has a length.
LEMMA IdsFacts ==
  ASSUME NEW q \in Seq(Samples)
  PROVE  /\ IsFiniteSet(Ids(q)) /\ Ids(q) \subseteq AllIds
         /\ \A id \in Ids(q) : LengthOf(q, id) \in Nat
<1>1. Len(q) \in Nat /\ DOMAIN q = 1..Len(q) /\ \A i \in 1..Len(q) : q[i] \in Samples
  BY LenProperties, ElementOfSeq
<1>2. IsFiniteSet(Ids(q))
  <2> DEFINE f == [i \in 1..Len(q) |-> q[i].id]
  <2>1. f \in Surjection(1..Len(q), Ids(q))
    BY <1>1 DEF Ids, Surjection
  <2>2. IsFiniteSet(1..Len(q))
    BY <1>1, FS_Interval
  <2> HIDE DEF f
  <2> QED BY <2>1, <2>2, FS_Surjection
<1>3. ASSUME NEW id \in Ids(q) PROVE LengthOf(q, id) \in Nat
  <2> DEFINE T == {i \in DOMAIN q : q[i].id = id}
  <2>1. T \in SUBSET (1..Len(q)) /\ T # {}
    BY <1>1 DEF Ids
  <2> HIDE DEF T
  <2>2. Max(T) \in 1..Len(q)
    BY <1>1, <2>1, MaxFacts
  <2>3. q[Max(T)].length \in Nat
    BY <1>1, <2>2, OnlineWindowAssumption
  <2> QED BY <2>3 DEF LengthOf, T
<1>4. Ids(q) \subseteq AllIds
  BY <1>1 DEF Ids, AllIds
<1> QED BY <1>2, <1>3, <1>4

\* Every length has a bucket.
Buckets == 1..(Len(Edges) + 1)

\* Every length has a bucket, and every bucket a maximum.
LEMMA BucketFacts ==
  /\ Len(Edges) \in Nat
  /\ \A length \in Nat : Bucket(length) \in Buckets
  /\ \A b \in Buckets : BucketMax(b) \in Nat \ {0}
<1>1. Len(Edges) \in Nat /\ Edges \in Seq(Nat \ {0}) /\ OverflowMax \in Nat \ {0}
  BY OnlineWindowAssumption, LenProperties
<1>2. ASSUME NEW length \in Nat PROVE Bucket(length) \in Buckets
  <2> DEFINE T == {i \in 1..Len(Edges) : length <= Edges[i]} \cup {Len(Edges) + 1}
  <2>1. T \subseteq Buckets /\ T # {} /\ T \subseteq Nat
    BY <1>1 DEF Buckets
  <2> HIDE DEF T
  <2>2. PICK m \in T : \A i \in T : ~(<<i, m>> \in OpToRel(<, Nat))
    BY <2>1, NatLessThanWellFounded, WFMin
  <2>3. \A i \in T : m <= i
    <3>1. \A i \in T : ~(i < m) /\ i \in Nat /\ m \in Nat
      BY <2>1, <2>2 DEF OpToRel
    <3> QED BY <3>1
  <2>4. Min(T) \in T
    BY <2>3 DEF Min
  <2> QED BY <2>1, <2>4 DEF Bucket, T
<1>3. ASSUME NEW b \in Buckets PROVE BucketMax(b) \in Nat \ {0}
  <2>1. b <= Len(Edges) => Edges[b] \in Nat \ {0}
    <3> SUFFICES ASSUME b <= Len(Edges) PROVE Edges[b] \in Nat \ {0}
      OBVIOUS
    <3>1. b \in 1..Len(Edges)
      BY <1>1 DEF Buckets
    <3> QED BY <1>1, <3>1, ElementOfSeq
  <2> QED BY <1>1, <2>1 DEF BucketMax
<1> QED BY <1>1, <1>2, <1>3

\* A shuffle of a finite set has every element of it in one place.
LEMMA ShuffleFacts ==
  ASSUME NEW S, IsFiniteSet(S), NEW f \in SetToSeqs(S)
  PROVE  /\ f \in Seq(S) /\ DOMAIN f = 1..Len(f) /\ Len(f) \in Nat
         /\ \A i \in 1..Len(f) : f[i] \in S
         /\ \A i \in 1..Len(f), j \in 1..Len(f) : f[i] = f[j] => i = j
         /\ \A x \in S : \E i \in 1..Len(f) : f[i] = x
<1> DEFINE c == Cardinality(S)
<1>1. c \in Nat
  BY FS_CardinalityType
<1>2. f \in [1..c -> S] /\ \A i, j \in 1..c : i # j => f[i] # f[j]
  BY DEF SetToSeqs
<1>3. IsFiniteSet(1..c) /\ Cardinality(1..c) = c
  <2> HIDE DEF c
  <2>1. 1 \in Int /\ c \in Int
    BY <1>1
  <2> QED BY <1>1, <2>1, FS_Interval
<1>4. f \in Injection(1..c, S)
  <2> HIDE DEF c
  <2>1. \A i, j \in 1..c : f[i] = f[j] => i = j
    BY <1>2
  <2> QED BY <1>2, <2>1 DEF Injection, IsInjective
<1>5. f \in Surjection(1..c, S)
  BY <1>3, <1>4, FS_Injection
<1> HIDE DEF c
<1>6. f \in Seq(S) /\ Len(f) = c
  <2>1. f \in Seq(S)
    BY <1>1, <1>2, SeqDef
  <2>2. DOMAIN f = 1..c /\ DOMAIN f = 1..Len(f) /\ Len(f) \in Nat
    BY <1>2, <2>1, LenProperties
  <2> QED BY <1>1, <1>2, <2>1, <2>2, LenProperties
<1>7. \A x \in S : \E i \in 1..c : f[i] = x
  BY <1>5 DEF Surjection
<1> QED BY <1>1, <1>2, <1>6, <1>7

\* The batches have the elements of T in them, each in one place.
Parts(batches, T) ==
  /\ \A m \in 1..Len(batches) : \A j \in 1..Len(batches[m]) : batches[m][j] \in T
  /\ \A e \in T : \E m \in 1..Len(batches) : \E j \in 1..Len(batches[m]) : batches[m][j] = e
  /\ \A m \in 1..Len(batches), n \in 1..Len(batches) :
       \A i \in 1..Len(batches[m]), j \in 1..Len(batches[n]) :
         batches[m][i] = batches[n][j] => m = n /\ i = j

\* No batch is empty, and one of several samples fits the budget.
InBudget(batches, max) ==
  \A m \in 1..Len(batches) :
    /\ Len(batches[m]) >= 1
    /\ Len(batches[m]) = 1 \/ Len(batches[m]) * max <= TokenBudget

\* A further sample is put into the last batch or into a new one.
LEMMA PutFacts ==
  ASSUME NEW D, NEW B \in Seq(Seq(D)), NEW x \in D, NEW max \in Nat
  PROVE  /\ Put(B, x, max) \in Seq(Seq(D))
         /\ InBudget(B, max) => InBudget(Put(B, x, max), max)
         /\ \A T : Parts(B, T) /\ x \notin T => Parts(Put(B, x, max), T \cup {x})
<1> DEFINE n == Len(B)
           C == Put(B, x, max)
<1>1. n \in Nat /\ \A m \in 1..n : B[m] \in Seq(D) /\ Len(B[m]) \in Nat
  <2>1. n \in Nat /\ \A m \in 1..n : B[m] \in Seq(D)
    BY LenProperties, ElementOfSeq
  <2> QED BY <2>1, LenProperties
<1>2. CASE B # <<>> /\ HasRoom(Last(B), max)
  <2> DEFINE l == B[n]
             a == Append(l, x)
  <2>1. n \in 1..n /\ Last(B) = l
    <3>1. n # 0
      BY <1>2, EmptySeq
    <3> QED BY <1>1, <3>1 DEF Last
  <2>2. /\ l \in Seq(D) /\ Len(l) \in Nat /\ a \in Seq(D) /\ Len(a) = Len(l) + 1
        /\ a[Len(l) + 1] = x /\ \A j \in 1..Len(l) : a[j] = l[j]
    BY <1>1, <2>1, AppendProperties
  <2>3. C = [B EXCEPT ![n] = a]
    BY <1>2 DEF Put
  <2> HIDE DEF C, a
  <2>4. C \in Seq(Seq(D)) /\ Len(C) = n /\ \A m \in 1..n : C[m] = IF m = n THEN a ELSE B[m]
    BY <1>1, <2>1, <2>2, <2>3, ExceptSeq
  <2>5. ASSUME InBudget(B, max) PROVE InBudget(C, max)
    <3>1. (Len(l) + 1) * max <= TokenBudget
      BY <1>2, <2>1 DEF HasRoom
    <3>2. Len(a) >= 1 /\ Len(a) * max <= TokenBudget
      BY <2>2, <3>1
    <3> HIDE DEF l
    <3> QED BY <2>4, <2>5, <3>2 DEF InBudget
  <2>6. ASSUME NEW T, Parts(B, T), x \notin T PROVE Parts(C, T \cup {x})
    <3>1. \A m \in 1..n : m # n => C[m] = B[m]
      BY <2>4
    <3>2. C[n] = a
      BY <2>1, <2>4
    <3>3. \A j \in 1..Len(a) : (j \in 1..Len(l) /\ a[j] = l[j]) \/ (j = Len(l) + 1 /\ a[j] = x)
      <4> SUFFICES ASSUME NEW j \in 1..Len(a)
                   PROVE  (j \in 1..Len(l) /\ a[j] = l[j]) \/ (j = Len(l) + 1 /\ a[j] = x)
        OBVIOUS
      <4> HIDE DEF l
      <4>1. CASE j = Len(l) + 1
        BY <2>2, <4>1
      <4>2. CASE j # Len(l) + 1
        <5>1. j \in 1..Len(l)
          BY <2>2, <4>2
        <5> QED BY <2>2, <5>1
      <4> QED BY <4>1, <4>2
    <3>4. ASSUME NEW m \in 1..n, NEW j \in 1..Len(C[m])
          PROVE  \/ j \in 1..Len(B[m]) /\ C[m][j] = B[m][j]
                 \/ m = n /\ j = Len(l) + 1 /\ C[m][j] = x
      BY <3>1, <3>2, <3>3
    <3>5. \A m \in 1..n : \A j \in 1..Len(B[m]) : B[m][j] \in T
      BY <2>6 DEF Parts
    <3>6. ASSUME NEW m \in 1..n, NEW j \in 1..Len(C[m]) PROVE C[m][j] \in T \cup {x}
      BY <3>4, <3>5
    <3>7. ASSUME NEW e \in T \cup {x}
          PROVE  \E m \in 1..n : \E j \in 1..Len(C[m]) : C[m][j] = e
      <4>1. CASE e = x
        <5>1. Len(l) + 1 \in 1..Len(a)
          BY <2>2
        <5> QED BY <2>1, <2>2, <3>2, <4>1, <5>1
      <4>2. CASE e \in T
        <5>0. PICK m \in 1..n : \E j \in 1..Len(B[m]) : B[m][j] = e
          BY <2>6, <4>2 DEF Parts
        <5>1. PICK j \in 1..Len(B[m]) : B[m][j] = e
          BY <5>0
        <5>2. CASE m # n
          BY <3>1, <5>1, <5>2
        <5>3. CASE m = n
          <6>1. j \in 1..Len(a) /\ a[j] = e
            BY <2>2, <5>1, <5>3
          <6> QED BY <2>1, <3>2, <6>1
        <5> QED BY <5>2, <5>3
      <4> QED BY <4>1, <4>2
    <3>8. ASSUME NEW m1 \in 1..n, NEW m2 \in 1..n, NEW i \in 1..Len(C[m1]), NEW j \in 1..Len(C[m2]),
                 C[m1][i] = C[m2][j]
          PROVE  m1 = m2 /\ i = j
      <4>1. /\ \/ i \in 1..Len(B[m1]) /\ C[m1][i] = B[m1][i]
               \/ m1 = n /\ i = Len(l) + 1 /\ C[m1][i] = x
            /\ \/ j \in 1..Len(B[m2]) /\ C[m2][j] = B[m2][j]
               \/ m2 = n /\ j = Len(l) + 1 /\ C[m2][j] = x
        BY <3>4
      <4>2. i \in 1..Len(B[m1]) /\ j \in 1..Len(B[m2]) /\ B[m1][i] = B[m2][j] => m1 = m2 /\ i = j
        BY <2>6 DEF Parts
      <4> QED BY <2>6, <3>5, <3>8, <4>1, <4>2
    <3> QED BY <2>4, <3>6, <3>7, <3>8 DEF Parts
  <2> QED BY <2>4, <2>5, <2>6 DEF C
<1>3. CASE ~(B # <<>> /\ HasRoom(Last(B), max))
  <2> DEFINE a == <<x>>
  <2>1. C = Append(B, a)
    BY <1>3 DEF Put
  <2>2. a \in Seq(D) /\ Len(a) = 1 /\ a[1] = x
    OBVIOUS
  <2> HIDE DEF C, a
  <2>3. /\ C \in Seq(Seq(D)) /\ Len(C) = n + 1 /\ C[n + 1] = a
        /\ \A m \in 1..n : C[m] = B[m]
    BY <2>1, <2>2, AppendProperties
  <2>4. ASSUME NEW m \in 1..(n + 1) PROVE (m \in 1..n /\ C[m] = B[m]) \/ (m = n + 1 /\ C[m] = a)
    <3> HIDE DEF n
    <3>1. CASE m = n + 1
      BY <2>3, <3>1
    <3>2. CASE m # n + 1
      <4>1. m \in 1..n
        BY <1>1, <3>2
      <4> QED BY <2>3, <4>1
    <3> QED BY <3>1, <3>2
  <2>5. ASSUME InBudget(B, max) PROVE InBudget(C, max)
    <3>1. ASSUME NEW m \in 1..(n + 1)
          PROVE  Len(C[m]) >= 1 /\ (Len(C[m]) = 1 \/ Len(C[m]) * max <= TokenBudget)
      <4>1. CASE m \in 1..n /\ C[m] = B[m]
        BY <2>5, <4>1 DEF InBudget
      <4>2. CASE m = n + 1 /\ C[m] = a
        <5>1. Len(C[m]) = 1
          BY <2>2, <4>2
        <5>2. 1 >= 1
          OBVIOUS
        <5> QED BY <5>1, <5>2
      <4> QED BY <2>4, <4>1, <4>2
    <3> QED BY <2>3, <3>1 DEF InBudget
  <2>6. ASSUME NEW T, Parts(B, T), x \notin T PROVE Parts(C, T \cup {x})
    <3>1. \A m \in 1..n : \A j \in 1..Len(B[m]) : B[m][j] \in T
      BY <2>6 DEF Parts
    <3>2. ASSUME NEW m \in 1..(n + 1), NEW j \in 1..Len(C[m])
          PROVE  \/ m \in 1..n /\ j \in 1..Len(B[m]) /\ C[m][j] = B[m][j]
                 \/ m = n + 1 /\ j = 1 /\ C[m][j] = x
      <4>1. CASE m \in 1..n /\ C[m] = B[m]
        BY <4>1
      <4>2. CASE m = n + 1 /\ C[m] = a
        <5>1. j \in 1..1
          BY <2>2, <4>2
        <5>2. j = 1
          BY <5>1
        <5> QED BY <2>2, <4>2, <5>2
      <4> QED BY <2>4, <4>1, <4>2
    <3>3. ASSUME NEW m \in 1..(n + 1), NEW j \in 1..Len(C[m]) PROVE C[m][j] \in T \cup {x}
      BY <3>1, <3>2
    <3>4. ASSUME NEW e \in T \cup {x}
          PROVE  \E m \in 1..(n + 1) : \E j \in 1..Len(C[m]) : C[m][j] = e
      <4>1. CASE e = x
        <5>1. n + 1 \in 1..(n + 1) /\ 1 \in 1..Len(C[n + 1]) /\ C[n + 1][1] = x
          <6>1. n + 1 \in 1..(n + 1) /\ 1 \in 1..1
            BY <1>1
          <6> QED BY <2>2, <2>3, <6>1
        <5> QED BY <4>1, <5>1
      <4>2. CASE e \in T
        <5>0. PICK m \in 1..n : \E j \in 1..Len(B[m]) : B[m][j] = e
          BY <2>6, <4>2 DEF Parts
        <5>1. PICK j \in 1..Len(B[m]) : B[m][j] = e
          BY <5>0
        <5>2. m \in 1..(n + 1) /\ C[m] = B[m]
          BY <1>1, <2>3
        <5> QED BY <5>1, <5>2
      <4> QED BY <4>1, <4>2
    <3>5. ASSUME NEW m1 \in 1..(n + 1), NEW m2 \in 1..(n + 1),
                 NEW i \in 1..Len(C[m1]), NEW j \in 1..Len(C[m2]), C[m1][i] = C[m2][j]
          PROVE  m1 = m2 /\ i = j
      <4>1. /\ \/ m1 \in 1..n /\ i \in 1..Len(B[m1]) /\ C[m1][i] = B[m1][i]
               \/ m1 = n + 1 /\ i = 1 /\ C[m1][i] = x
            /\ \/ m2 \in 1..n /\ j \in 1..Len(B[m2]) /\ C[m2][j] = B[m2][j]
               \/ m2 = n + 1 /\ j = 1 /\ C[m2][j] = x
        BY <3>2
      <4>2. m1 \in 1..n /\ m2 \in 1..n /\ i \in 1..Len(B[m1]) /\ j \in 1..Len(B[m2]) /\ B[m1][i] = B[m2][j]
              => m1 = m2 /\ i = j
        BY <2>6 DEF Parts
      <4> QED BY <2>6, <3>1, <3>5, <4>1, <4>2
    <3> QED BY <2>3, <3>3, <3>4, <3>5 DEF Parts
  <2> QED BY <2>3, <2>5, <2>6 DEF C
<1> QED BY <1>2, <1>3

\* _form_batches puts every sample into one batch, and several only within the
\* budget.
LEMMA FormBatchesFacts ==
  ASSUME NEW D, NEW ids \in Seq(D), NEW max \in Nat,
         \A i \in 1..Len(ids), j \in 1..Len(ids) : ids[i] = ids[j] => i = j,
         \A x \in D : \E i \in 1..Len(ids) : ids[i] = x
  PROVE  /\ FormBatches(ids, max) \in Seq(Seq(D))
         /\ InBudget(FormBatches(ids, max), max)
         /\ Parts(FormBatches(ids, max), D)
<1> DEFINE n == Len(ids)
           A == Seq(Seq(D))
           step == [p \in A \X (1..n) |-> Put(p[1], ids[p[2]], max)]
           F == Formed(ids, max)
<1>1. n \in Nat /\ DOMAIN ids = 1..n /\ \A i \in 1..n : ids[i] \in D
  BY LenProperties, ElementOfSeq
<1>2. ASSUME NEW p \in A \X (1..n) PROVE Put(p[1], ids[p[2]], max) \in A
  <2>1. p[1] \in A /\ ids[p[2]] \in D
    BY <1>1
  <2> DEFINE b == p[1]
             x == ids[p[2]]
  <2> HIDE DEF b, x
  <2>2. b \in A /\ x \in D
    BY <2>1 DEF b, x
  <2>3. Put(b, x, max) \in A
    BY ONLY <2>2, PutFacts, max \in Nat
  <2> QED BY <2>3 DEF b, x
<1>3. step \in [A \X (1..n) -> A]
  BY <1>2
<1>4. \A a \in A, i \in 1..n : step[<<a, i>>] = Put(a, ids[i], max)
  OBVIOUS
<1>5. <<>> \in A
  BY EmptySeq
<1> HIDE DEF step, A
<1>6. PICK g \in [SUBSET (1..n) -> A] : Folds(g, <<>>, step, n)
  <2> HIDE DEF n
  <2> QED BY <1>1, <1>3, <1>5, FoldExists
<1>7. g = [s \in SUBSET DOMAIN ids |->
             IF s = {} THEN <<>> ELSE Put(g[s \ {Max(s)}], ids[Max(s)], max)]
  <2>1. ASSUME NEW s \in SUBSET (1..n)
        PROVE  g[s] = IF s = {} THEN <<>> ELSE Put(g[s \ {Max(s)}], ids[Max(s)], max)
    <3>1. CASE s = {}
      BY <1>6, <3>1 DEF Folds
    <3>2. CASE s # {}
      <4>1. Max(s) \in 1..n /\ s \ {Max(s)} \in SUBSET (1..n)
        BY <1>1, <3>2, MaxFacts
      <4>2. g[s] = step[<<g[s \ {Max(s)}], Max(s)>>]
        BY <1>6, <3>2 DEF Folds
      <4>3. g[s \ {Max(s)}] \in A
        BY <4>1
      <4> QED BY <1>4, <3>2, <4>1, <4>2, <4>3
    <3> QED BY <3>1, <3>2
  <2> QED BY <1>1, <2>1
<1>8. F = [s \in SUBSET (1..n) |->
             IF s = {} THEN <<>> ELSE Put(F[s \ {Max(s)}], ids[Max(s)], max)]
  <2>1. F = [s \in SUBSET DOMAIN ids |->
               IF s = {} THEN <<>> ELSE Put(F[s \ {Max(s)}], ids[Max(s)], max)]
    BY <1>7 DEF Formed
  <2> QED BY <1>1, <2>1
<1> HIDE DEF F
<1> DEFINE Formed1(i) == /\ F[1..i] \in A /\ InBudget(F[1..i], max)
                         /\ Parts(F[1..i], {ids[j] : j \in 1..i})
           S == {i \in 0..n : Formed1(i)}
<1>9. 0 \in S
  <2>1. 1..0 = {} /\ {} \in SUBSET (1..n)
    OBVIOUS
  <2>2. F[1..0] = <<>>
    BY <1>8, <2>1
  <2>3. {ids[j] : j \in 1..0} = {}
    BY <2>1
  <2>4. Len(<<>>) = 0
    BY EmptySeq
  <2>5. InBudget(<<>>, max) /\ Parts(<<>>, {})
    BY <2>1, <2>4 DEF InBudget, Parts
  <2>6. Formed1(0)
    BY <1>5, <2>2, <2>3, <2>5
  <2>7. 0 \in 0..n
    BY <1>1
  <2> HIDE DEF Formed1
  <2> QED BY <2>6, <2>7
<1>10. ASSUME NEW i \in 1..n, i - 1 \in S PROVE i \in S
  <2>1. 1..i # {} /\ 1..i \in SUBSET (1..n) /\ Max(1..i) = i /\ (1..i) \ {i} = 1..(i - 1)
    BY <1>1, Intervals
  <2> DEFINE B == F[1..(i - 1)]
             T == {ids[j] : j \in 1..(i - 1)}
             x == ids[i]
  <2>2. F[1..i] = Put(B, x, max)
    <3>1. \A t \in SUBSET (1..n) : F[t] = IF t = {} THEN <<>> ELSE Put(F[t \ {Max(t)}], ids[Max(t)], max)
      BY ONLY <1>8
    <3> HIDE DEF n
    <3> QED BY ONLY <2>1, <3>1
  <2>3. B \in Seq(Seq(D)) /\ InBudget(B, max) /\ Parts(B, T)
    BY <1>10 DEF A
  <2>4. x \in D /\ x \notin T
    <3>1. \A j \in 1..(i - 1) : j \in 1..n /\ j # i
      BY <1>1
    <3> QED BY <1>1, <3>1
  <2>5. {ids[j] : j \in 1..i} = T \cup {x}
    <3>1. 1..i = (1..(i - 1)) \cup {i}
      BY <1>1
    <3> QED BY <3>1
  <2>6. i \in 0..n
    BY <1>1
  <2> HIDE DEF B, T, x
  <2>7. /\ Put(B, x, max) \in Seq(Seq(D)) /\ InBudget(Put(B, x, max), max)
        /\ Parts(Put(B, x, max), T \cup {x})
    BY <2>3, <2>4, PutFacts
  <2> QED BY <2>2, <2>5, <2>6, <2>7 DEF A
<1>11. Formed1(n)
  <2> HIDE DEF Formed1
  <2>1. \A i \in 1..n : i - 1 \in S => i \in S
    BY <1>10
  <2> HIDE DEF S, n
  <2>2. \A i \in 0..n : i \in S
    BY <1>1, <1>9, <2>1, Induction
  <2>3. n \in S
    BY <1>1, <2>2
  <2> QED BY <2>3 DEF S
<1>12. FormBatches(ids, max) = F[1..n]
  BY <1>1, FormBatchesIs DEF F
<1>13. {ids[j] : j \in 1..n} = D
  <2>1. \A x \in D : \E j \in 1..n : ids[j] = x
    OBVIOUS
  <2> HIDE DEF n
  <2> QED BY <1>1, <2>1
<1> QED BY <1>11, <1>12, <1>13 DEF A
-----------------------------------------------------------------------------
(* Concatenation.                                                          *)

Flattened(s) ==
  CHOOSE f : f = [i \in 1..Len(s) |-> IF i = 1 THEN s[i] ELSE f[i - 1] \o s[i]]

\* g[i] is the concatenation of the first i sequences of s.
Concatenates(g, s) == g[0] = <<>> /\ \A i \in 1..Len(s) : g[i] = g[i - 1] \o s[i]

\* FlattenSeq(s) is whatever is built up from <<>> by the sequences of s.
LEMMA FlattenIs ==
  ASSUME NEW D, NEW s \in Seq(Seq(D)), NEW g \in [0..Len(s) -> Seq(D)], Concatenates(g, s)
  PROVE  FlattenSeq(s) = g[Len(s)]
<1>1. Len(s) \in Nat /\ \A i \in 1..Len(s) : s[i] \in Seq(D)
  BY LenProperties, ElementOfSeq
<1>2. CASE Len(s) = 0
  <2>1. s = <<>>
    BY <1>2, EmptySeq
  <2>2. FlattenSeq(s) = s
    BY <1>2 DEF FlattenSeq
  <2> QED BY <1>2, <2>1, <2>2 DEF Concatenates
<1>3. CASE Len(s) # 0
  <2> DEFINE h == [i \in 1..Len(s) |-> g[i]]
             F == Flattened(s)
             S == {i \in 0..Len(s) : i = 0 \/ F[i] = g[i]}
  <2>1. FlattenSeq(s) = F[Len(s)]
    BY <1>3 DEF FlattenSeq, Flattened
  <2>2. g[1] = s[1]
    <3>1. 1 \in 1..Len(s) /\ s[1] \in Seq(D)
      BY <1>1, <1>3
    <3>2. g[1] = g[1 - 1] \o s[1] /\ g[0] = <<>>
      BY <3>1 DEF Concatenates
    <3>3. 1 - 1 = 0
      OBVIOUS
    <3> QED BY <3>1, <3>2, <3>3, ConcatEmptySeq
  <2>3. h = [i \in 1..Len(s) |-> IF i = 1 THEN s[i] ELSE h[i - 1] \o s[i]]
    <3>1. ASSUME NEW i \in 1..Len(s)
          PROVE  g[i] = IF i = 1 THEN s[i] ELSE h[i - 1] \o s[i]
      <4>1. CASE i = 1
        BY <2>2, <4>1
      <4>2. CASE i # 1
        <5>1. i - 1 \in 1..Len(s)
          BY <1>1, <4>2
        <5> QED BY <4>2, <5>1 DEF Concatenates
      <4> QED BY <4>1, <4>2
    <3> QED BY <3>1
  <2>4. F = [i \in 1..Len(s) |-> IF i = 1 THEN s[i] ELSE F[i - 1] \o s[i]]
    <3> HIDE DEF h
    <3> QED BY <2>3 DEF Flattened
  <2> HIDE DEF F
  <2>5. ASSUME NEW i \in 1..Len(s), i - 1 \in S PROVE i \in S
    <3>1. CASE i = 1
      BY <2>2, <2>4, <3>1
    <3>2. CASE i # 1
      <4>1. F[i - 1] = g[i - 1]
        BY <2>5, <3>2
      <4>2. F[i] = F[i - 1] \o s[i]
        BY <2>4, <3>2
      <4>3. g[i] = g[i - 1] \o s[i]
        BY DEF Concatenates
      <4>4. F[i] = g[i]
        BY <4>1, <4>2, <4>3
      <4> QED BY <1>1, <4>4
    <3> QED BY <3>1, <3>2
  <2>6. Len(s) \in S
    <3>1. 0 \in S
      BY <1>1
    <3> HIDE DEF S
    <3>2. \A i \in 1..Len(s) : i - 1 \in S => i \in S
      BY <2>5
    <3>3. \A i \in 0..Len(s) : i \in S
      BY <1>1, <3>1, <3>2, Induction
    <3> QED BY <1>1, <3>3
  <2> QED BY <1>3, <2>1, <2>6
<1> QED BY <1>2, <1>3

\* Every sequence of sequences can be concatenated step by step.
LEMMA ConcatenationExists ==
  ASSUME NEW D, NEW s \in Seq(Seq(D))
  PROVE  \E g \in [0..Len(s) -> Seq(D)] : Concatenates(g, s)
<1>1. Len(s) \in Nat /\ \A i \in 1..Len(s) : s[i] \in Seq(D)
  BY LenProperties, ElementOfSeq
<1> DEFINE Upto(g, n) == g[0] = <<>> /\ \A i \in 1..n : g[i] = g[i - 1] \o s[i]
           S == {n \in 0..Len(s) : \E g \in [0..n -> Seq(D)] : Upto(g, n)}
<1>2. 0 \in S
  <2> DEFINE g == [i \in 0..0 |-> <<>>]
  <2>1. <<>> \in Seq(D)
    BY EmptySeq
  <2>2. g \in [0..0 -> Seq(D)] /\ Upto(g, 0)
    BY <2>1
  <2> HIDE DEF g
  <2>3. \E f \in [0..0 -> Seq(D)] : Upto(f, 0)
    BY <2>2
  <2>4. 0 \in 0..Len(s)
    BY <1>1
  <2> QED BY <2>3, <2>4, Zenon
<1>3. ASSUME NEW n \in 1..Len(s), n - 1 \in S PROVE n \in S
  <2>1. PICK g \in [0..(n - 1) -> Seq(D)] : Upto(g, n - 1)
    BY <1>3
  <2> DEFINE h == [i \in 0..n |-> IF i = n THEN g[n - 1] \o s[n] ELSE g[i]]
  <2>2. g[n - 1] \in Seq(D) /\ s[n] \in Seq(D)
    BY <1>1
  <2>3. g[n - 1] \o s[n] \in Seq(D)
    BY <2>2, ConcatProperties
  <2>4. h \in [0..n -> Seq(D)]
    BY <2>3
  <2>5. h[0] = <<>>
    BY <2>1
  <2>6. ASSUME NEW i \in 1..n PROVE h[i] = h[i - 1] \o s[i]
    <3>1. i - 1 \in 0..(n - 1) /\ i - 1 # n /\ i \in 0..n /\ i - 1 \in 0..n
      OBVIOUS
    <3>2. h[i - 1] = g[i - 1]
      BY <3>1
    <3>3. CASE i = n
      BY <3>1, <3>2, <3>3
    <3>4. CASE i # n
      <4>1. i \in 1..(n - 1)
        BY <3>4
      <4> QED BY <2>1, <3>1, <3>2, <3>4, <4>1
    <3> QED BY <3>3, <3>4
  <2> HIDE DEF h
  <2>7. \E f \in [0..n -> Seq(D)] : Upto(f, n)
    BY <2>4, <2>5, <2>6
  <2>8. n \in 0..Len(s)
    BY <1>1
  <2> QED BY <2>7, <2>8
<1>4. Len(s) \in S
  <2> HIDE DEF S
  <2>1. \A n \in 1..Len(s) : n - 1 \in S => n \in S
    BY <1>3
  <2>2. \A n \in 0..Len(s) : n \in S
    BY <1>1, <1>2, <2>1, Induction
  <2> QED BY <1>1, <2>2
<1> QED BY <1>4 DEF Concatenates


\* What two sequences of batches have in them, one after the other.
LEMMA ConcatParts ==
  ASSUME NEW D, NEW A \in Seq(Seq(D)), NEW B \in Seq(Seq(D)), NEW T, NEW U,
         Parts(A, T), Parts(B, U), T \cap U = {}
  PROVE  Parts(A \o B, T \cup U)
<1> DEFINE n == Len(A)
           o == Len(B)
           C == A \o B
<1>1. n \in Nat /\ o \in Nat
  BY LenProperties
<1>2. Len(C) = n + o /\ \A m \in 1..(n + o) : C[m] = IF m <= n THEN A[m] ELSE B[m - n]
  BY ConcatProperties
<1>3. \A m \in 1..n : m \in 1..(n + o) /\ C[m] = A[m]
  <2> HIDE DEF C, n, o
  <2>1. \A m \in 1..n : m \in 1..(n + o) /\ m <= n
    BY <1>1
  <2> QED BY ONLY <1>2, <2>1
<1>4. \A m \in 1..o : n + m \in 1..(n + o) /\ C[n + m] = B[m]
  <2> HIDE DEF C, n, o
  <2> SUFFICES ASSUME NEW m \in 1..o PROVE n + m \in 1..(n + o) /\ C[n + m] = B[m]
    OBVIOUS
  <2>1. n + m \in 1..(n + o) /\ ~(n + m <= n) /\ (n + m) - n = m
    BY <1>1
  <2> QED BY <1>2, <2>1
<1> HIDE DEF C
<1>5. ASSUME NEW m \in 1..(n + o)
      PROVE  (m \in 1..n /\ C[m] = A[m]) \/ (m - n \in 1..o /\ C[m] = B[m - n])
  <2> HIDE DEF n, o
  <2>1. CASE m <= n
    <3>1. m \in 1..n
      BY <1>1, <2>1
    <3> QED BY <1>3, <3>1
  <2>2. CASE ~(m <= n)
    <3>1. m - n \in 1..o
      BY <1>1, <2>2
    <3> QED BY <1>2, <2>2, <3>1
  <2> QED BY <2>1, <2>2
<1>6. /\ \A m \in 1..n : \A j \in 1..Len(A[m]) : A[m][j] \in T
      /\ \A m \in 1..o : \A j \in 1..Len(B[m]) : B[m][j] \in U
  BY DEF Parts
<1>7. ASSUME NEW m \in 1..(n + o), NEW j \in 1..Len(C[m]) PROVE C[m][j] \in T \cup U
  BY <1>5, <1>6
<1>8. ASSUME NEW e \in T \cup U PROVE \E m \in 1..(n + o) : \E j \in 1..Len(C[m]) : C[m][j] = e
  <2>1. CASE e \in T
    <3>1. PICK m \in 1..n : \E j \in 1..Len(A[m]) : A[m][j] = e
      BY <2>1 DEF Parts
    <3> QED BY <1>3, <3>1
  <2>2. CASE e \in U
    <3>1. PICK m \in 1..o : \E j \in 1..Len(B[m]) : B[m][j] = e
      BY <2>2 DEF Parts
    <3> QED BY <1>4, <3>1
  <2> QED BY <2>1, <2>2
<1>9. ASSUME NEW m1 \in 1..(n + o), NEW m2 \in 1..(n + o),
             NEW i \in 1..Len(C[m1]), NEW j \in 1..Len(C[m2]), C[m1][i] = C[m2][j]
      PROVE  m1 = m2 /\ i = j
  <2>1. CASE m1 \in 1..n /\ C[m1] = A[m1] /\ m2 \in 1..n /\ C[m2] = A[m2]
    <3>1. \A m \in 1..n, l \in 1..n : \A p \in 1..Len(A[m]), r \in 1..Len(A[l]) :
            A[m][p] = A[l][r] => m = l /\ p = r
      BY DEF Parts
    <3> HIDE DEF n, o
    <3>2. /\ m1 \in 1..n /\ m2 \in 1..n /\ i \in 1..Len(A[m1]) /\ j \in 1..Len(A[m2])
          /\ A[m1][i] = A[m2][j]
      BY ONLY <1>9, <2>1, i \in 1..Len(C[m1]), j \in 1..Len(C[m2])
    <3> QED BY ONLY <3>1, <3>2
  <2>2. CASE m1 - n \in 1..o /\ C[m1] = B[m1 - n] /\ m2 - n \in 1..o /\ C[m2] = B[m2 - n]
    <3>0. \A m \in 1..o, l \in 1..o : \A p \in 1..Len(B[m]), r \in 1..Len(B[l]) :
            B[m][p] = B[l][r] => m = l /\ p = r
      BY DEF Parts
    <3>1. m1 - n = m2 - n /\ i = j
      <4> DEFINE p == m1 - n
                 u == m2 - n
      <4>1. p \in 1..o /\ u \in 1..o /\ C[m1] = B[p] /\ C[m2] = B[u]
        BY <2>2
      <4> HIDE DEF p, u, n, o
      <4>2. p = u /\ i = j
        BY <1>9, <3>0, <4>1
      <4> QED BY <4>2 DEF p, u
    <3> HIDE DEF n, o
    <3> QED BY <1>1, <3>1
  <2>3. CASE m1 \in 1..n /\ C[m1] = A[m1] /\ m2 - n \in 1..o /\ C[m2] = B[m2 - n]
    BY <1>6, <1>9, <2>3
  <2>4. CASE m1 - n \in 1..o /\ C[m1] = B[m1 - n] /\ m2 \in 1..n /\ C[m2] = A[m2]
    BY <1>6, <1>9, <2>4
  <2> HIDE DEF n, o
  <2> QED BY <1>5, <2>1, <2>2, <2>3, <2>4
<1> QED BY <1>2, <1>7, <1>8, <1>9 DEF Parts, C

\* What many have in them.
LEMMA FlattenParts ==
  ASSUME NEW D, NEW E \in SUBSET Seq(D), NEW s \in Seq(Seq(E)), NEW T \in [1..Len(s) -> SUBSET D],
         \A r \in 1..Len(s) : Parts(s[r], T[r]),
         \A r \in 1..Len(s), t \in 1..Len(s) : r # t => T[r] \cap T[t] = {},
         NEW all, \A r \in 1..Len(s) : T[r] \subseteq all, \A x \in all : \E r \in 1..Len(s) : x \in T[r]
  PROVE  FlattenSeq(s) \in Seq(E) /\ Parts(FlattenSeq(s), all)
<1>1. Len(s) \in Nat /\ \A i \in 1..Len(s) : s[i] \in Seq(E)
  BY LenProperties, ElementOfSeq
<1>2. PICK g \in [0..Len(s) -> Seq(E)] : Concatenates(g, s)
  BY ConcatenationExists
<1>3. FlattenSeq(s) = g[Len(s)] /\ g[Len(s)] \in Seq(E)
  <2>1. FlattenSeq(s) = g[Len(s)]
    BY ONLY <1>2, s \in Seq(Seq(E)), FlattenIs
  <2>2. Len(s) \in 0..Len(s)
    BY <1>1
  <2> QED BY <2>1, <2>2
<1> DEFINE U(i) == UNION {T[r] : r \in 1..i}
           S == {i \in 0..Len(s) : Parts(g[i], U(i))}
<1>4. \A a \in Seq(E) : a \in Seq(Seq(D))
  <2> SUFFICES ASSUME NEW a \in Seq(E) PROVE a \in Seq(Seq(D))
    OBVIOUS
  <2>1. Len(a) \in Nat /\ a \in [1..Len(a) -> E]
    BY LenProperties
  <2>2. a \in [1..Len(a) -> Seq(D)]
    BY <2>1
  <2> QED BY <2>1, <2>2, SeqDef
<1>5. 0 \in S
  <2>1. g[0] = <<>> /\ Len(<<>>) = 0 /\ 1..0 = {} /\ U(0) = {} /\ 0 \in 0..Len(s)
    BY <1>1, <1>2, EmptySeq DEF Concatenates
  <2>2. Parts(<<>>, {})
    BY <2>1 DEF Parts
  <2> QED BY <2>1, <2>2
<1>6. ASSUME NEW i \in 1..Len(s), i - 1 \in S PROVE i \in S
  <2>0. i - 1 \in 0..Len(s) /\ i \in 0..Len(s)
    BY <1>1
  <2>1. g[i] = g[i - 1] \o s[i] /\ i - 1 \in 0..Len(s) /\ i \in 0..Len(s)
    BY <1>2, <2>0 DEF Concatenates
  <2>2. g[i - 1] \in Seq(Seq(D)) /\ s[i] \in Seq(Seq(D))
    BY <1>1, <1>4, <2>1
  <2>3. U(i) = U(i - 1) \cup T[i]
    <3>1. 1..i = (1..(i - 1)) \cup {i}
      BY <1>1
    <3> QED BY <3>1
  <2>4. U(i - 1) \cap T[i] = {}
    <3>1. \A r \in 1..(i - 1) : r \in 1..Len(s) /\ r # i
      BY <1>1
    <3> QED BY <3>1
  <2>5. Parts(g[i - 1], U(i - 1)) /\ Parts(s[i], T[i])
    BY <1>6
  <2> HIDE DEF U
  <2>6. Parts(g[i - 1] \o s[i], U(i - 1) \cup T[i])
    BY <2>2, <2>4, <2>5, ConcatParts
  <2> QED BY <2>1, <2>3, <2>6
<1>7. \A i \in 1..Len(s) : i - 1 \in S => i \in S
  BY <1>6
<1>8. Len(s) \in S
  <2> HIDE DEF S
  <2>1. \A i \in 0..Len(s) : i \in S
    BY <1>1, <1>5, <1>7, Induction
  <2> QED BY <1>1, <2>1
<1>9. U(Len(s)) = all
  OBVIOUS
<1> QED BY <1>3, <1>8, <1>9

-----------------------------------------------------------------------------
(* The interleaving of the buckets.                                        *)

\* A set of numbers up to n, with 0, has a largest.
LEMMA MaxFrom0 ==
  ASSUME NEW n \in Nat, NEW s \in SUBSET (0..n), 0 \in s
  PROVE  Max(s) \in s /\ \A y \in s : y <= Max(s)
<1> DEFINE t == s \ {0}
<1>1. \E x \in s : \A y \in s : x >= y
  <2>1. CASE t = {}
    <3>1. \A y \in s : 0 >= y
      BY <2>1
    <3> QED BY <3>1
  <2>2. CASE t # {}
    <3>1. t \in SUBSET (1..n)
      OBVIOUS
    <3> HIDE DEF t
    <3>2. Max(t) \in t /\ \A y \in t : Max(t) >= y
      BY <2>2, <3>1, MaxFacts
    <3>3. Max(t) >= 0
      <4>1. Max(t) \in 1..n
        BY <3>1, <3>2
      <4> QED BY <4>1
    <3>4. \A y \in s : Max(t) >= y
      BY <3>2, <3>3 DEF t
    <3> QED BY <3>2, <3>4 DEF t
  <2> QED BY <2>1, <2>2
<1>2. Max(s) \in s /\ \A y \in s : Max(s) >= y
  BY <1>1 DEF Max
<1> QED BY <1>2

Rounds(batches) == Max({Len(batches[b]) : b \in DOMAIN batches} \cup {0})

\* There are as many rounds as the largest bucket has batches.
LEMMA RoundsFacts ==
  ASSUME NEW A, NEW B \in SUBSET Buckets, NEW batches \in [B -> Seq(A)]
  PROVE  Rounds(batches) \in Nat /\ \A b \in B : Len(batches[b]) <= Rounds(batches)
<1> DEFINE l == Len(Edges) + 1
           S == {i \in 0..l : \E n \in Nat : \A b \in B : b <= i => Len(batches[b]) <= n}
           L == {Len(batches[b]) : b \in B} \cup {0}
<1>1. l \in Nat /\ B \in SUBSET (1..l) /\ \A b \in B : Len(batches[b]) \in Nat
  <2>1. \A b \in B : batches[b] \in Seq(A)
    OBVIOUS
  <2>2. \A b \in B : Len(batches[b]) \in Nat
    BY <2>1, LenProperties
  <2>3. l \in Nat
    BY BucketFacts
  <2> QED BY <2>2, <2>3 DEF Buckets
<1> HIDE DEF l
<1>2. 0 \in S
  <2>1. 0 \in 0..l /\ \A b \in B : ~(b <= 0)
    BY <1>1
  <2> QED BY <2>1
<1>3. ASSUME NEW i \in 1..l, i - 1 \in S PROVE i \in S
  <2>1. PICK n \in Nat : \A b \in B : b <= i - 1 => Len(batches[b]) <= n
    BY <1>3
  <2>2. i \in 0..l /\ \A b \in B : b <= i => b <= i - 1 \/ b = i
    BY <1>1
  <2>3. CASE i \in B
    <3> DEFINE m == n + Len(batches[i])
    <3>1. m \in Nat /\ n <= m /\ Len(batches[i]) <= m
      BY <1>1, <2>3
    <3>2. ASSUME NEW b \in B, b <= i PROVE Len(batches[b]) <= m
      <4>1. CASE b = i
        BY <3>1, <4>1
      <4>2. CASE b <= i - 1
        <5>1. Len(batches[b]) <= n
          BY <2>1, <4>2
        <5> HIDE DEF m
        <5> QED BY <1>1, <3>1, <5>1
      <4> QED BY <2>2, <3>2, <4>1, <4>2
    <3> HIDE DEF m
    <3> QED BY <2>2, <3>1, <3>2
  <2>4. CASE i \notin B
    <3>1. \A b \in B : b <= i => Len(batches[b]) <= n
      BY <2>1, <2>2, <2>4
    <3> QED BY <2>2, <3>1
  <2> QED BY <2>3, <2>4
<1>4. l \in S
  <2> HIDE DEF S
  <2>1. \A i \in 1..l : i - 1 \in S => i \in S
    BY <1>3
  <2>2. \A i \in 0..l : i \in S
    BY <1>1, <1>2, <2>1, Induction
  <2> QED BY <1>1, <2>2
<1>5. PICK n \in Nat : \A b \in B : b <= l => Len(batches[b]) <= n
  BY <1>4
<1>6. L \in SUBSET (0..n) /\ 0 \in L
  <2>1. \A b \in B : Len(batches[b]) \in 0..n
    BY <1>1, <1>5
  <2> QED BY <2>1
<1>7. \A b \in B : Len(batches[b]) \in L
  OBVIOUS
<1> HIDE DEF L
<1>8. Max(L) \in L /\ \A y \in L : y <= Max(L)
  BY <1>6, MaxFrom0
<1>9. Rounds(batches) = Max(L)
  <2>1. DOMAIN batches = B
    OBVIOUS
  <2> QED BY <2>1 DEF Rounds, L
<1>10. Max(L) \in Nat
  <2>1. Max(L) \in 0..n
    BY <1>6, <1>8
  <2> QED BY <2>1
<1> QED BY <1>7, <1>8, <1>9, <1>10

\* In the order of a round every bucket that has a batch left is in one place.
Active(batches, r) == {b \in DOMAIN batches : r <= Len(batches[b])}

\* An order of the rounds shuffles the active buckets of each round.
LEMMA OrderFacts ==
  ASSUME NEW A, NEW B \in SUBSET Buckets, NEW batches \in [B -> Seq(A)], NEW order \in Orders(batches)
  PROVE  /\ DOMAIN order = 1..Rounds(batches)
         /\ \A r \in 1..Rounds(batches) : order[r] \in SetToSeqs(Active(batches, r))
         /\ \A r \in 1..Rounds(batches) : IsFiniteSet(Active(batches, r))
<1>1. /\ order \in [1..Rounds(batches) -> UNION {SetToSeqs(Active(batches, r)) : r \in 1..Rounds(batches)}]
      /\ \A r \in 1..Rounds(batches) : order[r] \in SetToSeqs(Active(batches, r))
  BY DEF Orders, Rounds, Active
<1>2. ASSUME NEW r \in 1..Rounds(batches) PROVE IsFiniteSet(Active(batches, r))
  <2>1. Active(batches, r) \in SUBSET Buckets
    BY DEF Active
  <2>2. IsFiniteSet(Buckets)
    <3>1. 1 \in Int /\ Len(Edges) + 1 \in Int
      BY BucketFacts
    <3> QED BY <3>1, FS_Interval DEF Buckets
  <2> QED BY <2>1, <2>2, FS_Subset
<1> QED BY <1>1, <1>2

\* _interleave_batches puts every batch into the plan, once.
LEMMA InterleavedFacts ==
  ASSUME NEW D, NEW E \in SUBSET Seq(D), NEW B \in SUBSET Buckets,
         NEW batches \in [B -> Seq(E)], NEW part \in [B -> SUBSET D],
         \A b \in B : Parts(batches[b], part[b]),
         \A b \in B, c \in B : b # c => part[b] \cap part[c] = {},
         \A b \in B : part[b] \subseteq D, \A x \in D : \E b \in B : x \in part[b],
         NEW order \in Orders(batches)
  PROVE  Interleaved(batches, order) \in Seq(E) /\ Parts(Interleaved(batches, order), D)
<1> DEFINE R == Rounds(batches)
           Round(r) == [j \in DOMAIN order[r] |-> batches[order[r][j]][r]]
           In(r) == {x \in D : \E b \in Active(batches, r) :
                                 \E i \in 1..Len(batches[b][r]) : batches[b][r][i] = x}
           s == [r \in DOMAIN order |-> Round(r)]
           T == [r \in 1..R |-> In(r)]
<1>1. R \in Nat /\ \A b \in B : Len(batches[b]) <= R
  BY RoundsFacts
<1>2. DOMAIN order = 1..R /\ \A r \in 1..R : order[r] \in SetToSeqs(Active(batches, r)) /\ IsFiniteSet(Active(batches, r))
  BY OrderFacts
<1>3. \A b \in B : batches[b] \in Seq(E) /\ Len(batches[b]) \in Nat
  <2>1. \A b \in B : batches[b] \in Seq(E)
    OBVIOUS
  <2> QED BY <2>1, LenProperties
<1>4. \A b \in B : \A r \in 1..Len(batches[b]) : batches[b][r] \in E /\ batches[b][r] \in Seq(D)
  BY <1>3, ElementOfSeq
<1>5. \A b \in B : \A r \in 1..Len(batches[b]) : \A i \in 1..Len(batches[b][r]) :
        batches[b][r][i] \in part[b] /\ batches[b][r][i] \in D
  <2>1. \A b \in B : \A r \in 1..Len(batches[b]) : \A i \in 1..Len(batches[b][r]) : batches[b][r][i] \in part[b]
    BY DEF Parts
  <2>2. \A b \in B : part[b] \in SUBSET D
    OBVIOUS
  <2> QED BY <2>1, <2>2
<1>6. \A r \in 1..R : \A b \in Active(batches, r) : b \in B /\ r \in 1..Len(batches[b])
  <2>1. DOMAIN batches = B
    OBVIOUS
  <2> HIDE DEF R
  <2> QED BY <1>1, <1>3, <2>1 DEF Active
<1>7. \A b \in B : \A r \in 1..Len(batches[b]) : r \in 1..R /\ b \in Active(batches, r)
  <2>1. DOMAIN batches = B
    OBVIOUS
  <2> HIDE DEF R
  <2> QED BY <1>1, <1>3, <2>1 DEF Active
<1> HIDE DEF R
<1>8. ASSUME NEW r \in 1..R
      PROVE  /\ Round(r) \in Seq(E) /\ Parts(Round(r), In(r))
             /\ In(r) \in SUBSET D
  <2> DEFINE f == order[r]
             a == Active(batches, r)
  <2>1. /\ f \in Seq(a) /\ DOMAIN f = 1..Len(f) /\ Len(f) \in Nat
        /\ \A i \in 1..Len(f) : f[i] \in a
        /\ \A i \in 1..Len(f), j \in 1..Len(f) : f[i] = f[j] => i = j
        /\ \A x \in a : \E i \in 1..Len(f) : f[i] = x
    BY <1>2, ShuffleFacts
  <2>2. \A b \in a : b \in B /\ r \in 1..Len(batches[b]) /\ batches[b][r] \in E
    BY <1>4, <1>6
  <2>3. Round(r) = [j \in 1..Len(f) |-> batches[f[j]][r]]
    BY <2>1
  <2> DEFINE w == Round(r)
  <2> HIDE DEF f, a
  <2>4. w \in [1..Len(f) -> E]
    <3>1. \A j \in 1..Len(f) : batches[f[j]][r] \in E
      BY ONLY <2>1, <2>2
    <3>2. w = [j \in 1..Len(f) |-> batches[f[j]][r]]
      BY <2>3
    <3> HIDE DEF w
    <3> QED BY ONLY <3>1, <3>2
  <2>5. w \in Seq(E)
    BY ONLY <2>1, <2>4, FunctionIsSequence
  <2>6. Len(w) = Len(f)
    <3>1. DOMAIN w = 1..Len(f)
      BY <2>4
    <3>2. Len(w) \in Nat /\ DOMAIN w = 1..Len(w)
      BY <2>5, LenProperties
    <3> HIDE DEF w
    <3> QED BY <2>1, <3>1, <3>2
  <2>7. \A j \in 1..Len(f) : w[j] = batches[f[j]][r]
    BY <2>3
  <2> HIDE DEF w
  <2>8. \A m \in 1..Len(f) : \A j \in 1..Len(w[m]) : w[m][j] \in In(r)
    <3>1. ASSUME NEW m \in 1..Len(f), NEW j \in 1..Len(w[m]) PROVE w[m][j] \in In(r)
      <4> DEFINE b == f[m]
      <4>1. b \in a /\ w[m] = batches[b][r]
        BY <2>1, <2>7
      <4> HIDE DEF b
      <4>2. b \in B /\ r \in 1..Len(batches[b]) /\ j \in 1..Len(batches[b][r])
        BY <2>2, <4>1
      <4>3. batches[b][r][j] \in D
        BY <1>5, <4>2
      <4> QED BY <4>1, <4>2, <4>3 DEF a
    <3> QED BY <3>1
  <2>9. ASSUME NEW e \in In(r) PROVE \E m \in 1..Len(f) : \E j \in 1..Len(w[m]) : w[m][j] = e
    <3>1. PICK b \in a : \E i \in 1..Len(batches[b][r]) : batches[b][r][i] = e
      BY DEF a
    <3>2. PICK m \in 1..Len(f) : f[m] = b
      BY <2>1
    <3> QED BY <2>7, <3>1, <3>2
  <2>10. ASSUME NEW m \in 1..Len(f), NEW n \in 1..Len(f), NEW i \in 1..Len(w[m]), NEW j \in 1..Len(w[n]),
                w[m][i] = w[n][j]
         PROVE  m = n /\ i = j
    <3> DEFINE b == f[m]
               c == f[n]
    <3>1. b \in B /\ c \in B /\ r \in 1..Len(batches[b]) /\ r \in 1..Len(batches[c])
      BY <2>1, <2>2
    <3>2. w[m] = batches[b][r] /\ w[n] = batches[c][r]
      BY <2>7
    <3>3. b = c => m = n
      BY <2>1
    <3> HIDE DEF b, c
    <3>4. w[m][i] \in part[b] /\ w[n][j] \in part[c]
      BY <1>5, <3>1, <3>2
    <3>5. b = c
      BY <2>10, <3>1, <3>4
    <3>6. Parts(batches[b], part[b])
      BY <3>1
    <3>7. i = j
      BY <2>10, <3>1, <3>2, <3>5, <3>6 DEF Parts
    <3> QED BY <3>3, <3>5, <3>7
  <2> HIDE DEF In
  <2>11. Parts(w, In(r))
    BY <2>6, <2>8, <2>9, <2>10 DEF Parts
  <2> QED BY <2>5, <2>11 DEF w, In
<1>9. s \in Seq(Seq(E)) /\ Len(s) = R /\ \A r \in 1..R : s[r] = Round(r)
  <2>1. DOMAIN s = 1..R /\ \A r \in 1..R : s[r] = Round(r)
    BY <1>2
  <2>2. s \in [1..R -> Seq(E)]
    <3> HIDE DEF Round
    <3> QED BY <1>2, <1>8
  <2>3. s \in Seq(Seq(E))
    BY <1>1, <2>2, SeqDef
  <2>4. Len(s) \in Nat /\ DOMAIN s = 1..Len(s)
    BY <2>3, LenProperties
  <2> HIDE DEF s
  <2> QED BY <1>1, <2>1, <2>3, <2>4
<1>10. ASSUME NEW r \in 1..R, NEW t \in 1..R, r # t PROVE In(r) \cap In(t) = {}
  <2> SUFFICES ASSUME NEW x \in In(r), x \in In(t) PROVE FALSE
    OBVIOUS
  <2>1. PICK b \in Active(batches, r) : \E i \in 1..Len(batches[b][r]) : batches[b][r][i] = x
    OBVIOUS
  <2>2. PICK i \in 1..Len(batches[b][r]) : batches[b][r][i] = x
    BY <2>1
  <2>3. PICK c \in Active(batches, t) : \E j \in 1..Len(batches[c][t]) : batches[c][t][j] = x
    OBVIOUS
  <2>4. PICK j \in 1..Len(batches[c][t]) : batches[c][t][j] = x
    BY <2>3
  <2>5. b \in B /\ r \in 1..Len(batches[b]) /\ c \in B /\ t \in 1..Len(batches[c])
    BY <1>6
  <2>6. x \in part[b] /\ x \in part[c]
    <3>1. x \in part[b]
      BY <1>5, <2>2, <2>5
    <3>2. x \in part[c]
      BY <1>5, <2>4, <2>5
    <3> QED BY <3>1, <3>2
  <2>7. b = c
    BY <2>5, <2>6
  <2>8. Parts(batches[b], part[b])
    BY <2>5
  <2>9. r = t
    <3> DEFINE q == batches[b]
    <3>1. \A m \in 1..Len(q), n \in 1..Len(q) : \A p \in 1..Len(q[m]), l \in 1..Len(q[n]) :
            q[m][p] = q[n][l] => m = n /\ p = l
      BY <2>8 DEF Parts
    <3>2. /\ r \in 1..Len(q) /\ t \in 1..Len(q) /\ i \in 1..Len(q[r]) /\ j \in 1..Len(q[t])
          /\ q[r][i] = q[t][j]
      BY <2>2, <2>4, <2>5, <2>7
    <3> HIDE DEF q
    <3> QED BY ONLY <3>1, <3>2
  <2> QED BY <1>10, <2>9
<1>11. ASSUME NEW x \in D PROVE \E r \in 1..R : x \in T[r]
  <2>1. PICK b \in B : x \in part[b]
    OBVIOUS
  <2>2. Parts(batches[b], part[b])
    OBVIOUS
  <2>3. PICK r \in 1..Len(batches[b]) : \E i \in 1..Len(batches[b][r]) : batches[b][r][i] = x
    BY <2>1, <2>2 DEF Parts
  <2>4. r \in 1..R /\ b \in Active(batches, r)
    BY <1>7
  <2>5. x \in In(r)
    BY <2>3, <2>4
  <2> HIDE DEF In
  <2> QED BY <2>4, <2>5
<1>12. Interleaved(batches, order) = FlattenSeq(s)
  BY DEF Interleaved
<1>13. /\ T \in [1..Len(s) -> SUBSET D]
       /\ \A r \in 1..Len(s) : Parts(s[r], T[r])
       /\ \A r \in 1..Len(s), t \in 1..Len(s) : r # t => T[r] \cap T[t] = {}
  <2> HIDE DEF s, In, Round
  <2>1. \A r \in 1..R : T[r] = In(r)
    OBVIOUS
  <2>2. T \in [1..R -> SUBSET D]
    BY <1>8
  <2> HIDE DEF T
  <2> QED BY <1>8, <1>9, <1>10, <2>1, <2>2
<1> HIDE DEF s, T
<1>14. FlattenSeq(s) \in Seq(E) /\ Parts(FlattenSeq(s), D)
  <2>1. \A r \in 1..Len(s) : T[r] \subseteq D
    BY <1>13
  <2>2. \A x \in D : \E r \in 1..Len(s) : x \in T[r]
    BY <1>9, <1>11
  <2> QED BY <1>9, <1>13, <2>1, <2>2, FlattenParts
<1> QED BY <1>12, <1>14

-----------------------------------------------------------------------------
(* The plans.                                                              *)

\* The samples of q that are not too long.
Fitting(q) == {id \in Ids(q) : ~Skipped(LengthOf(q, id))}

\* What may be one microbatch.
MayBatch(q) ==
  {batch \in Seq(Fitting(q)) :
     /\ Len(batch) >= 1
     /\ \A i \in 1..Len(batch) : Bucket(LengthOf(q, batch[i])) = Bucket(LengthOf(q, batch[1]))
     /\ Len(batch) = 1 \/ Len(batch) * BucketMax(Bucket(LengthOf(q, batch[1]))) <= TokenBudget}

\* Every plan over q has every sample that is not too long in one microbatch.
LEMMA PlanFacts ==
  ASSUME NEW q \in Seq(Samples), NEW p \in Plans(q)
  PROVE  p \in Seq(MayBatch(q)) /\ Parts(p, Fitting(q))
<1> DEFINE D == Fitting(q)
           E == MayBatch(q)
           B == {Bucket(LengthOf(q, id)) : id \in D}
           Of(b) == {id \in D : Bucket(LengthOf(q, id)) = b}
<1>1. IsFiniteSet(D) /\ \A id \in D : LengthOf(q, id) \in Nat
  <2>1. D \in SUBSET Ids(q)
    BY DEF Fitting
  <2> HIDE DEF D
  <2> QED BY <2>1, IdsFacts, FS_Subset
<1>2. B \in SUBSET Buckets
  BY <1>1, BucketFacts
<1>3. PICK f \in [B -> UNION {SetToSeqs(Of(b)) : b \in B}] :
        /\ \A b \in B : f[b] \in SetToSeqs(Of(b))
        /\ \E order \in Orders([b \in B |-> FormBatches(f[b], BucketMax(b))]) :
             p = Interleaved([b \in B |-> FormBatches(f[b], BucketMax(b))], order)
  BY DEF Plans, Fitting
<1> DEFINE batches == [b \in B |-> FormBatches(f[b], BucketMax(b))]
           part == [b \in B |-> Of(b)]
<1>4. PICK order \in Orders(batches) : p = Interleaved(batches, order)
  BY <1>3
<1> HIDE DEF D, E, B
<1>5. ASSUME NEW b \in B
      PROVE  /\ batches[b] \in Seq(Seq(Of(b)))
             /\ InBudget(batches[b], BucketMax(b))
             /\ Parts(batches[b], Of(b))
  <2> DEFINE S == Of(b)
             ids == f[b]
             max == BucketMax(b)
  <2>1. IsFiniteSet(S)
    <3>1. S \in SUBSET D
      OBVIOUS
    <3> HIDE DEF S
    <3> QED BY <1>1, <3>1, FS_Subset
  <2>2. ids \in SetToSeqs(S)
    BY <1>3
  <2>3. max \in Nat
    <3>1. b \in Buckets
      BY <1>2
    <3> QED BY <3>1, BucketFacts
  <2>4. batches[b] = FormBatches(ids, max)
    OBVIOUS
  <2> HIDE DEF S, ids, max
  <2>5. /\ ids \in Seq(S) /\ DOMAIN ids = 1..Len(ids) /\ Len(ids) \in Nat
        /\ \A i \in 1..Len(ids) : ids[i] \in S
        /\ \A i \in 1..Len(ids), j \in 1..Len(ids) : ids[i] = ids[j] => i = j
        /\ \A x \in S : \E i \in 1..Len(ids) : ids[i] = x
    BY <2>1, <2>2, ShuffleFacts
  <2>6. /\ FormBatches(ids, max) \in Seq(Seq(S))
        /\ InBudget(FormBatches(ids, max), max)
        /\ Parts(FormBatches(ids, max), S)
    BY <2>3, <2>5, FormBatchesFacts
  <2> HIDE DEF batches
  <2> QED BY <2>4, <2>6 DEF S, max
<1>6. ASSUME NEW b \in B PROVE batches[b] \in Seq(E)
  <2> DEFINE a == batches[b]
  <2>1. a \in Seq(Seq(Of(b))) /\ InBudget(a, BucketMax(b))
    BY <1>5
  <2> HIDE DEF a
  <2>2. /\ Len(a) \in Nat /\ DOMAIN a = 1..Len(a) /\ a \in [1..Len(a) -> Seq(Of(b))]
        /\ \A m \in 1..Len(a) : a[m] \in Seq(Of(b))
    BY <2>1, LenProperties, ElementOfSeq
  <2>3. ASSUME NEW m \in 1..Len(a) PROVE a[m] \in E
    <3> DEFINE w == a[m]
    <3>1. w \in Seq(Of(b))
      BY <2>2
    <3>2. Len(w) >= 1 /\ (Len(w) = 1 \/ Len(w) * BucketMax(b) <= TokenBudget)
      BY <2>1 DEF InBudget
    <3> HIDE DEF w
    <3>3. Len(w) \in Nat /\ w \in [1..Len(w) -> Of(b)]
      BY <3>1, LenProperties
    <3>4. \A i \in 1..Len(w) : w[i] \in D /\ Bucket(LengthOf(q, w[i])) = b
      BY <3>3
    <3>5. w \in Seq(D)
      <4>1. w \in [1..Len(w) -> D]
        BY <3>3
      <4> QED BY <3>3, <4>1, SeqDef
    <3>6. 1 \in 1..Len(w)
      BY <3>2, <3>3
    <3>7. Bucket(LengthOf(q, w[1])) = b
      BY <3>4, <3>6
    <3>8. w \in E
      BY <3>2, <3>4, <3>5, <3>7 DEF E, MayBatch, D
    <3> QED BY <3>8 DEF w
  <2>4. a \in [1..Len(a) -> E]
    BY <2>2, <2>3
  <2>5. a \in Seq(E)
    BY <2>2, <2>4, SeqDef
  <2> QED BY <2>5 DEF a
<1>7. E \in SUBSET Seq(D)
  BY DEF E, D, MayBatch
<1>8. batches \in [B -> Seq(E)]
  <2>1. \A b \in B : batches[b] \in Seq(E)
    BY <1>6
  <2>2. batches = [b \in B |-> batches[b]]
    OBVIOUS
  <2> HIDE DEF batches
  <2> QED BY <2>1, <2>2
<1>9. part \in [B -> SUBSET D] /\ \A b \in B : part[b] = Of(b)
  OBVIOUS
<1>10. \A b \in B : Parts(batches[b], part[b])
  <2> HIDE DEF batches, part
  <2> QED BY <1>5, <1>9
<1>11. \A b \in B, c \in B : b # c => part[b] \cap part[c] = {}
  OBVIOUS
<1>12. \A b \in B : part[b] \subseteq D
  BY <1>9
<1>13. \A id \in D : \E b \in B : id \in part[b]
  <2>1. \A id \in D : Bucket(LengthOf(q, id)) \in B
    BY DEF B
  <2> QED BY <1>9, <2>1
<1> HIDE DEF batches, part
<1>14. Interleaved(batches, order) \in Seq(E) /\ Parts(Interleaved(batches, order), D)
  BY <1>2, <1>4, <1>7, <1>8, <1>9, <1>10, <1>11, <1>12, <1>13, InterleavedFacts
<1> QED BY <1>4, <1>14 DEF D, E

\* A plan over q has the samples of q, and what WindowsAreWhole asks of it.
LEMMA PlanIsWhole ==
  ASSUME NEW q \in Seq(Samples), NEW p \in Plans(q)
  PROVE  /\ p \in Seq(Seq(AllIds))
         /\ \A id \in Ids(q) : Cardinality(Holds(p, id)) = IF Skipped(LengthOf(q, id)) THEN 0 ELSE 1
         /\ \A n \in DOMAIN p :
              /\ ToSet(p[n]) \subseteq Ids(q)
              /\ \A id \in ToSet(p[n]) : Bucket(LengthOf(q, id)) = Bucket(LengthOf(q, p[n][1]))
              /\ Cardinality(ToSet(p[n])) = Len(p[n])
              /\ \/ Len(p[n]) = 1
                 \/ Len(p[n]) * BucketMax(Bucket(LengthOf(q, p[n][1]))) <= TokenBudget
<1>1. p \in Seq(MayBatch(q)) /\ Parts(p, Fitting(q))
  BY PlanFacts
<1>2. Len(p) \in Nat /\ DOMAIN p = 1..Len(p) /\ \A n \in 1..Len(p) : p[n] \in MayBatch(q)
  BY <1>1, LenProperties, ElementOfSeq
<1>3. ASSUME NEW n \in 1..Len(p)
      PROVE  /\ p[n] \in Seq(Fitting(q)) /\ Len(p[n]) \in Nat /\ DOMAIN p[n] = 1..Len(p[n])
             /\ \A j \in 1..Len(p[n]) : p[n][j] \in Fitting(q)
  <2>1. p[n] \in Seq(Fitting(q))
    BY <1>2 DEF MayBatch
  <2> QED BY <2>1, LenProperties, ElementOfSeq
<1>4. Fitting(q) \subseteq Ids(q) /\ Ids(q) \subseteq AllIds
  BY IdsFacts DEF Fitting
<1>5. p \in Seq(Seq(AllIds))
  <2>1. ASSUME NEW n \in 1..Len(p) PROVE p[n] \in Seq(AllIds)
    <3> DEFINE w == p[n]
    <3>1. w \in Seq(Fitting(q)) /\ Len(w) \in Nat
      BY <1>3
    <3> HIDE DEF w
    <3>2. w \in [1..Len(w) -> Fitting(q)]
      BY <3>1, LenProperties
    <3>3. w \in [1..Len(w) -> AllIds]
      BY <1>4, <3>2
    <3>4. w \in Seq(AllIds)
      BY <3>1, <3>3, SeqDef
    <3> QED BY <3>4 DEF w
  <2>2. p \in [1..Len(p) -> Seq(AllIds)]
    <3>1. p \in [1..Len(p) -> MayBatch(q)]
      BY <1>1, LenProperties
    <3> QED BY <2>1, <3>1
  <2> QED BY <1>2, <2>2, SeqDef
<1>6. ASSUME NEW id \in Ids(q)
      PROVE  Cardinality(Holds(p, id)) = IF Skipped(LengthOf(q, id)) THEN 0 ELSE 1
  <2>1. \A n \in Holds(p, id) : n \in 1..Len(p) /\ \E j \in 1..Len(p[n]) : p[n][j] = id
    BY <1>2, <1>3 DEF Holds, ToSet
  <2>2. \A n \in 1..Len(p) : \A j \in 1..Len(p[n]) : p[n][j] = id => n \in Holds(p, id)
    BY <1>2, <1>3 DEF Holds, ToSet
  <2>3. CASE Skipped(LengthOf(q, id))
    <3>1. id \notin Fitting(q)
      BY <2>3 DEF Fitting
    <3>2. Holds(p, id) = {}
      BY <1>3, <2>1, <3>1
    <3> QED BY <2>3, <3>2, FS_EmptySet
  <2>4. CASE ~Skipped(LengthOf(q, id))
    <3>1. id \in Fitting(q)
      BY <2>4 DEF Fitting
    <3>2. PICK n \in 1..Len(p) : \E j \in 1..Len(p[n]) : p[n][j] = id
      BY <1>1, <3>1 DEF Parts
    <3>3. n \in Holds(p, id)
      BY <2>2, <3>2
    <3>4. ASSUME NEW m \in Holds(p, id) PROVE m = n
      <4>1. PICK i \in 1..Len(p[n]) : p[n][i] = id
        BY <3>2
      <4>2. PICK j \in 1..Len(p[m]) : p[m][j] = id
        BY <2>1
      <4>3. m \in 1..Len(p)
        BY <2>1
      <4> QED BY <1>1, <4>1, <4>2, <4>3 DEF Parts
    <3>5. Holds(p, id) = {n}
      BY <3>3, <3>4
    <3> QED BY <2>4, <3>5, FS_Singleton
  <2> QED BY <2>3, <2>4
<1>7. ASSUME NEW n \in 1..Len(p)
      PROVE  /\ ToSet(p[n]) \subseteq Ids(q)
             /\ \A id \in ToSet(p[n]) : Bucket(LengthOf(q, id)) = Bucket(LengthOf(q, p[n][1]))
             /\ Cardinality(ToSet(p[n])) = Len(p[n])
             /\ \/ Len(p[n]) = 1
                \/ Len(p[n]) * BucketMax(Bucket(LengthOf(q, p[n][1]))) <= TokenBudget
  <2> DEFINE w == p[n]
             l == Len(w)
  <2>1. w \in MayBatch(q) /\ l \in Nat /\ DOMAIN w = 1..l /\ \A j \in 1..l : w[j] \in Fitting(q)
    BY <1>2, <1>3
  <2>2. \A i \in 1..l, j \in 1..l : w[i] = w[j] => i = j
    BY <1>1 DEF Parts
  <2>3. \A i \in 1..l : Bucket(LengthOf(q, w[i])) = Bucket(LengthOf(q, w[1]))
    BY <2>1 DEF MayBatch
  <2>4. l = 1 \/ l * BucketMax(Bucket(LengthOf(q, w[1]))) <= TokenBudget
    BY <2>1 DEF MayBatch
  <2> HIDE DEF w, l
  <2>5. ToSet(w) = {w[i] : i \in 1..l}
    BY <2>1 DEF ToSet
  <2>6. ToSet(w) \subseteq Ids(q)
    BY <1>4, <2>1, <2>5
  <2>7. \A id \in ToSet(w) : Bucket(LengthOf(q, id)) = Bucket(LengthOf(q, w[1]))
    BY <2>3, <2>5
  <2>8. Cardinality(ToSet(w)) = l
    <3> DEFINE f == [i \in 1..l |-> w[i]]
               S == 1..l
               T == ToSet(w)
    <3>1. IsFiniteSet(S) /\ Cardinality(S) = l
      <4>1. 1 \in Int /\ l \in Int
        BY <2>1
      <4> QED BY <2>1, <4>1, FS_Interval
    <3>2. f \in [S -> T] /\ \A i \in S : f[i] = w[i]
      BY <2>5
    <3>3. \A e \in T : \E i \in S : f[i] = e
      BY <2>5
    <3> HIDE DEF f, S, T
    <3>4. f \in Surjection(S, T)
      BY <3>2, <3>3 DEF Surjection
    <3>5. \A i, j \in S : f[i] = f[j] => i = j
      BY <2>2, <3>2 DEF S
    <3>6. f \in Injection(S, T)
      BY <3>2, <3>5 DEF Injection, IsInjective
    <3>7. Cardinality(T) = Cardinality(S)
      BY <3>1, <3>4, <3>6, FS_Surjection
    <3> QED BY <3>1, <3>7 DEF T
  <2> QED BY <2>4, <2>6, <2>7, <2>8 DEF w, l
<1> QED BY <1>2, <1>5, <1>6, <1>7

-----------------------------------------------------------------------------
(* The window.                                                             *)

IteratorOf == [plan : Seq(Seq(AllIds)), place : Nat, window : Nat, lookup : SUBSET AllIds]

\* The plan is one over the snapshot.
PlanInv == plan # None => snapshot \in Seq(Samples) /\ plan \in Plans(snapshot)

\* An iterator is of this window or of an earlier one and finds its samples.
IteratorsInv ==
  /\ windows \in Nat
  /\ iters \in [Iterators -> IteratorOf \cup {None}]
  /\ \A i \in Iterators : iters[i] # None =>
       /\ iters[i] \in IteratorOf /\ iters[i].window <= windows
       /\ \A n \in DOMAIN iters[i].plan : ToSet(iters[i].plan[n]) \subseteq iters[i].lookup

\* The iterator i is of the current window.
Mine(i) == iters[i] # None /\ iters[i].window = windows

\* As many microbatches were counted as were seen, at least; exactly the first
\* ones while only one iterator counted.
CountInv ==
  /\ use \in {"none", "one", "several"}
  /\ plan # None =>
       /\ windowState \in [microbatches : Nat, consumed : Nat]
       /\ windowState.microbatches = Len(plan)
       /\ seen \subseteq 1..Len(plan) /\ Cardinality(seen) <= windowState.consumed
       /\ \A i \in Iterators : Mine(i) => iters[i].plan = plan
       /\ use # "several" => seen = 1..windowState.consumed
       /\ use = "none" => windowState.consumed = 0 /\ \A i \in Iterators : ~Mine(i)
       /\ use = "one" => \A i \in Iterators : Mine(i) =>
            iters[i].place = windowState.consumed /\ \A j \in Iterators : Mine(j) => j = i

WindowInv == Deques /\ PlanInv /\ IteratorsInv /\ CountInv

\* The invariant holds before the first window.
LEMMA WindowBegins == WindowInit => WindowInv
<1> SUFFICES ASSUME WindowInit PROVE WindowInv
  OBVIOUS
<1>1. Deques
  BY DequesBegin DEF WindowInit
<1>2. PlanInv /\ CountInv
  BY DEF WindowInit, PlanInv, CountInv
<1>3. IteratorsInv
  BY DEF WindowInit, IteratorsInv
<1> QED BY <1>1, <1>2, <1>3 DEF WindowInv

\* The buffer is changed by its own operations only.
LEMMA BufferOfWindow == [WindowNext]_onlineVars => [BufferNext]_bufferVars
<1> SUFFICES ASSUME [WindowNext]_onlineVars PROVE [BufferNext]_bufferVars
  OBVIOUS
<1>1. CASE ChangeBuffer
  BY <1>1 DEF ChangeBuffer, BufferNext
<1>2. CASE BuildNextWindow
  BY <1>2 DEF BuildNextWindow
<1>3. CASE DiscardCurrent
  BY <1>3 DEF DiscardCurrent
<1>4. CASE Reload
  BY <1>4 DEF Reload, BufferNext
<1>5. CASE \E i \in Iterators : BeginIteration(i) \/ ContinueIteration(i) \/ AbandonIteration(i)
  BY <1>5 DEF BeginIteration, ContinueIteration, AbandonIteration
<1>6. CASE UNCHANGED onlineVars
  BY <1>6 DEF onlineVars
<1> QED BY <1>1, <1>2, <1>3, <1>4, <1>5, <1>6 DEF WindowNext

\* What is left of the invariant when the iterators and the plan are.
LEMMA SameWindow ==
  WindowInv /\ UNCHANGED <<windowVars, iters, seen, use>> => PlanInv' /\ IteratorsInv' /\ CountInv'
<1> SUFFICES ASSUME WindowInv, UNCHANGED <<windowVars, iters, seen, use>>
             PROVE  PlanInv' /\ IteratorsInv' /\ CountInv'
  OBVIOUS
<1>1. /\ snapshot' = snapshot /\ plan' = plan /\ windowState' = windowState
      /\ windows' = windows /\ iters' = iters /\ seen' = seen /\ use' = use
  BY DEF windowVars
<1>2. PlanInv'
  <2>1. plan' # None => snapshot' \in Seq(Samples) /\ plan' \in Plans(snapshot')
    BY <1>1 DEF WindowInv, PlanInv
  <2> QED BY <2>1 DEF PlanInv, Plans
<1>3. IteratorsInv'
  BY <1>1 DEF WindowInv, IteratorsInv
<1>4. CountInv'
  BY <1>1 DEF WindowInv, CountInv, Mine
<1> QED BY <1>2, <1>3, <1>4

\* A new window: no iterator is of it.
LEMMA BuildStep ==
  WindowInv /\ BuildNextWindow => PlanInv' /\ IteratorsInv' /\ CountInv'
<1> SUFFICES ASSUME WindowInv, BuildNextWindow PROVE PlanInv' /\ IteratorsInv' /\ CountInv'
  OBVIOUS
<1>1. /\ snapshot' = buffer /\ plan' \in Plans(buffer) /\ windows' = windows + 1
      /\ windowState' = [microbatches |-> Len(plan'), consumed |-> 0]
      /\ seen' = {} /\ use' = "none" /\ iters' = iters
  BY DEF BuildNextWindow
<1>2. buffer \in Seq(Samples) /\ IteratorsInv
  BY DEF WindowInv, Deques
<1>3. PlanInv'
  <2>1. plan' \in Plans(snapshot')
    BY <1>1
  <2> QED BY <1>1, <1>2, <2>1 DEF PlanInv, Plans
<1>4. \A i \in Iterators : iters[i] # None => iters[i].window \in Nat /\ iters[i].window <= windows
  BY <1>2 DEF IteratorsInv, IteratorOf
<1>5. windows \in Nat /\ \A i \in Iterators : iters[i] # None => iters[i].window <= windows + 1 /\ iters[i].window # windows + 1
  <2>1. windows \in Nat
    BY <1>2 DEF IteratorsInv
  <2> QED BY <1>4, <2>1
<1>6. IteratorsInv'
  BY <1>1, <1>2, <1>5 DEF IteratorsInv
<1>7. \A i \in Iterators : ~Mine(i)'
  BY <1>1, <1>5 DEF Mine
<1>8. Len(plan') \in Nat
  <2>1. plan' \in Seq(Seq(AllIds))
    BY <1>1, <1>2, PlanIsWhole
  <2> QED BY <2>1, LenProperties
<1>9. Cardinality({}) = 0 /\ {} = 1..0 /\ 0 <= 0
  BY FS_EmptySet
<1>10. CountInv'
  BY <1>1, <1>7, <1>8, <1>9 DEF CountInv
<1> QED BY <1>3, <1>6, <1>10

\* What next() of the iterator i, which is at it, makes of the history.  Of this
\* window, it is at a place of the plan.
LEMMA NextMicrobatchStep ==
  ASSUME WindowInv, NEW i \in Iterators, NEW it \in IteratorOf,
         NEW others \in {"none", "one", "several"},
         it.window <= windows,
         \A n \in DOMAIN it.plan : ToSet(it.plan[n]) \subseteq it.lookup,
         use = "several" => others = "several",
         others = "none" => use = "none",
         others = "one" => use = "one" \/ use = "none",
         plan # None /\ it.window = windows =>
           /\ it.plan = plan
           /\ others # "several" =>
                /\ others = "one" /\ it.place = windowState.consumed
                /\ \A j \in Iterators : Mine(j) => j = i,
         NextMicrobatch(i, it, others), UNCHANGED <<snapshot, plan, windows>>
  PROVE  PlanInv' /\ IteratorsInv' /\ CountInv'
<1> DEFINE next == it.place + 1
<1>1. snapshot' = snapshot /\ plan' = plan /\ windows' = windows
  OBVIOUS
<1>2. PlanInv'
  <2>1. plan' # None => snapshot' \in Seq(Samples) /\ plan' \in Plans(snapshot')
    BY <1>1 DEF WindowInv, PlanInv
  <2> QED BY <2>1 DEF PlanInv, Plans
<1>3. /\ iters \in [Iterators -> IteratorOf \cup {None}] /\ windows \in Nat
      /\ it.place \in Nat /\ it.plan \in Seq(Seq(AllIds)) /\ Len(it.plan) \in Nat
      /\ it.window \in Nat
  <2>1. it.plan \in Seq(Seq(AllIds))
    BY DEF IteratorOf
  <2> QED BY <2>1, LenProperties DEF WindowInv, IteratorsInv, IteratorOf
<1>4. CASE next > Len(it.plan) \/ windowState = None
  <2>1. /\ iters' = [iters EXCEPT ![i] = None] /\ use' = others
        /\ windowState' = windowState /\ seen' = seen
    BY <1>4 DEF NextMicrobatch
  <2>2. \A j \in Iterators : iters'[j] = IF j = i THEN None ELSE iters[j]
    BY <1>3, <2>1
  <2>3. iters' \in [Iterators -> IteratorOf \cup {None}]
    BY <1>3, <2>1
  <2>4. IteratorsInv'
    BY <1>1, <1>3, <2>2, <2>3 DEF WindowInv, IteratorsInv
  <2>5. \A j \in Iterators : Mine(j)' => Mine(j) /\ iters'[j] = iters[j]
    BY <1>1, <2>2 DEF Mine
  <2>6. CountInv'
    <3>0. use' \in {"none", "one", "several"}
      BY <2>1
    <3> SUFFICES ASSUME plan # None PROVE CountInv'
      BY <1>1, <3>0 DEF CountInv
    <3>1. /\ windowState' \in [microbatches : Nat, consumed : Nat]
          /\ windowState'.microbatches = Len(plan')
          /\ seen' \subseteq 1..Len(plan') /\ Cardinality(seen') <= windowState'.consumed
          /\ use' # "several" => seen' = 1..windowState'.consumed
      BY <1>1, <2>1 DEF WindowInv, CountInv
    <3>2. \A j \in Iterators : Mine(j)' => iters'[j].plan = plan'
      BY <1>1, <2>5 DEF WindowInv, CountInv
    <3>3. use' = "none" => windowState'.consumed = 0 /\ \A j \in Iterators : ~Mine(j)'
      BY <2>1, <2>5 DEF WindowInv, CountInv
    <3>4. use' = "one" => \A j \in Iterators : Mine(j)' =>
            iters'[j].place = windowState'.consumed /\ \A l \in Iterators : Mine(l)' => l = j
      BY <2>1, <2>5 DEF WindowInv, CountInv
    <3> QED BY <3>0, <3>1, <3>2, <3>3, <3>4 DEF CountInv
  <2> QED BY <1>2, <2>4, <2>6
<1>5. CASE ~(next > Len(it.plan) \/ windowState = None)
  <2> DEFINE own == it.window = windows /\ plan # None
             moved == [it EXCEPT !.place = next]
  <2>1. /\ iters' = [iters EXCEPT ![i] = moved]
        /\ windowState' = [windowState EXCEPT !.consumed = @ + 1]
        /\ seen' = IF own THEN seen \cup {next} ELSE seen
        /\ use' = IF own THEN others ELSE "several"
    BY <1>5 DEF NextMicrobatch
  <2>2. /\ moved \in IteratorOf /\ moved.window = it.window /\ moved.plan = it.plan
        /\ moved.lookup = it.lookup /\ moved.place = next /\ next \in 1..Len(it.plan)
    <3>1. next \in Nat /\ next \in 1..Len(it.plan)
      BY <1>3, <1>5
    <3> HIDE DEF next
    <3> QED BY <3>1 DEF IteratorOf
  <2> HIDE DEF moved, next
  <2>4. \A j \in Iterators : iters'[j] = IF j = i THEN moved ELSE iters[j]
    BY <1>3, <2>1
  <2>5. iters' \in [Iterators -> IteratorOf \cup {None}]
    BY <1>3, <2>1, <2>2
  <2>6. IteratorsInv'
    BY <1>1, <1>3, <2>2, <2>4, <2>5 DEF WindowInv, IteratorsInv
  <2>7. \A j \in Iterators : j # i /\ Mine(j)' => Mine(j) /\ iters'[j] = iters[j]
    BY <1>1, <2>4 DEF Mine
  <2>8. Mine(i)' => it.window = windows
    BY <1>1, <2>2, <2>4 DEF Mine
  <2>9. CountInv'
    <3>0. use' \in {"none", "one", "several"}
      BY <2>1
    <3> SUFFICES ASSUME plan # None PROVE CountInv'
      BY <1>1, <3>0 DEF CountInv
    <3> DEFINE c == windowState.consumed
    <3>1. /\ windowState \in [microbatches : Nat, consumed : Nat] /\ c \in Nat
          /\ windowState.microbatches = Len(plan)
          /\ seen \subseteq 1..Len(plan) /\ Cardinality(seen) <= c
      BY DEF WindowInv, CountInv
    <3>2. /\ windowState' \in [microbatches : Nat, consumed : Nat]
          /\ windowState'.microbatches = Len(plan') /\ windowState'.consumed = c + 1
      BY <1>1, <2>1, <3>1
    <3> HIDE DEF c
    <3>3. Len(plan) \in Nat /\ IsFiniteSet(seen) /\ Cardinality(seen) \in Nat
      <4>1. Len(plan) \in Nat
        BY <3>1
      <4>2. IsFiniteSet(1..Len(plan))
        BY <4>1, FS_Interval
      <4> QED BY <3>1, <4>1, <4>2, FS_Subset, FS_CardinalityType
    <3>4. CASE own
      <4>1. it.plan = plan /\ seen' = seen \cup {next} /\ use' = others /\ next \in 1..Len(plan)
        BY <2>1, <2>2, <3>4
      <4>2. Cardinality(seen') <= c + 1
        <5>1. Cardinality(seen') = IF next \in seen THEN Cardinality(seen) ELSE Cardinality(seen) + 1
          BY <3>3, <4>1, FS_AddElement
        <5> QED BY <3>1, <3>3, <5>1
      <4>3. seen' \subseteq 1..Len(plan')
        BY <1>1, <3>1, <4>1
      <4>4. \A j \in Iterators : Mine(j)' => iters'[j].plan = plan'
        <5>1. ASSUME NEW j \in Iterators, Mine(j)' PROVE iters'[j].plan = plan'
          <6>1. CASE j = i
            BY <1>1, <2>2, <2>4, <4>1, <6>1
          <6>2. CASE j # i
            BY <1>1, <2>7, <5>1, <6>2 DEF WindowInv, CountInv
          <6> QED BY <6>1, <6>2
        <5> QED BY <5>1
      <4>5. use' # "several" =>
              /\ use' = "one" /\ it.place = c /\ seen = 1..c
              /\ \A j \in Iterators : Mine(j) => j = i
        BY <3>4, <4>1 DEF WindowInv, CountInv, c
      <4>6. use' # "several" => next = c + 1
        BY <4>5 DEF next
      <4>7. use' # "several" => seen' = 1..(c + 1)
        <5>1. 1..(c + 1) = (1..c) \cup {c + 1}
          BY <3>1
        <5> QED BY <4>1, <4>5, <4>6, <5>1
      <4>8. use' = "one" => \A j \in Iterators : Mine(j)' =>
              iters'[j].place = c + 1 /\ \A l \in Iterators : Mine(l)' => l = j
        <5> SUFFICES ASSUME use' = "one", NEW j \in Iterators, Mine(j)'
                     PROVE  iters'[j].place = c + 1 /\ \A l \in Iterators : Mine(l)' => l = j
          OBVIOUS
        <5>1. \A l \in Iterators : Mine(l)' => l = i
          BY <2>7, <4>5
        <5>2. iters'[i].place = c + 1
          BY <2>2, <2>4, <4>6
        <5> QED BY <5>1, <5>2
      <4> QED BY <3>0, <3>2, <4>2, <4>3, <4>4, <4>5, <4>7, <4>8 DEF CountInv
    <3>5. CASE ~own
      <4>1. seen' = seen /\ use' = "several" /\ it.window # windows
        BY <2>1, <3>5
      <4>2. Cardinality(seen') <= c + 1
        BY <3>1, <3>3, <4>1
      <4>3. \A j \in Iterators : Mine(j)' => iters'[j].plan = plan'
        <5>1. ASSUME NEW j \in Iterators, Mine(j)' PROVE iters'[j].plan = plan'
          <6>1. j # i
            BY <2>8, <4>1, <5>1
          <6> QED BY <1>1, <2>7, <5>1, <6>1 DEF WindowInv, CountInv
        <5> QED BY <5>1
      <4> QED BY <1>1, <3>0, <3>1, <3>2, <4>1, <4>2, <4>3 DEF CountInv
    <3> QED BY <3>4, <3>5
  <2> QED BY <1>2, <2>6, <2>9
<1> QED BY <1>4, <1>5

\* An iterator of the current window is begun.
LEMMA BeginIterationStep ==
  ASSUME WindowInv, NEW i \in Iterators, BeginIteration(i)
  PROVE  PlanInv' /\ IteratorsInv' /\ CountInv'
<1> DEFINE it == [plan |-> plan, place |-> 0, window |-> windows, lookup |-> Lookup]
           others == IF use = "none" THEN "one" ELSE "several"
<1>1. plan # None /\ NextMicrobatch(i, it, others) /\ UNCHANGED <<snapshot, plan, windows>>
  BY DEF BeginIteration
<1>2. snapshot \in Seq(Samples) /\ plan \in Plans(snapshot)
  BY <1>1 DEF WindowInv, PlanInv
<1>3. /\ plan \in Seq(Seq(AllIds)) /\ Lookup \in SUBSET AllIds
      /\ \A n \in DOMAIN plan : ToSet(plan[n]) \subseteq Lookup
  BY <1>2, PlanIsWhole, IdsFacts DEF Lookup
<1>4. windows \in Nat
  BY DEF WindowInv, IteratorsInv
<1>5. it \in IteratorOf
  BY <1>3, <1>4 DEF IteratorOf
<1>6. it.plan = plan /\ it.place = 0 /\ it.window = windows /\ it.lookup = Lookup /\ it.window <= windows
  BY <1>4
<1>7. use = "none" => windowState.consumed = 0 /\ \A j \in Iterators : ~Mine(j)
  BY <1>1 DEF WindowInv, CountInv
<1>8. /\ use = "several" => others = "several"
      /\ others = "none" => use = "none"
      /\ others = "one" => use = "one" \/ use = "none"
      /\ others # "several" => others = "one" /\ use = "none"
  OBVIOUS
<1> HIDE DEF it, others
<1>9. \A n \in DOMAIN it.plan : ToSet(it.plan[n]) \subseteq it.lookup
  BY <1>3, <1>6
<1>10. plan # None /\ it.window = windows =>
         /\ it.plan = plan
         /\ others # "several" =>
              /\ others = "one" /\ it.place = windowState.consumed
              /\ \A j \in Iterators : Mine(j) => j = i
  BY <1>6, <1>7, <1>8
<1> QED BY <1>1, <1>5, <1>6, <1>8, <1>9, <1>10, NextMicrobatchStep

\* An iterator goes on, in its window or after it.
LEMMA ContinueIterationStep ==
  ASSUME WindowInv, NEW i \in Iterators, ContinueIteration(i)
  PROVE  PlanInv' /\ IteratorsInv' /\ CountInv'
<1> DEFINE it == iters[i]
<1>1. it # None /\ NextMicrobatch(i, it, use) /\ UNCHANGED <<snapshot, plan, windows>>
  BY DEF ContinueIteration
<1>2. /\ it \in IteratorOf /\ it.window <= windows
      /\ \A n \in DOMAIN it.plan : ToSet(it.plan[n]) \subseteq it.lookup
  BY <1>1 DEF WindowInv, IteratorsInv
<1>3. it.window = windows => Mine(i)
  BY <1>1 DEF Mine
<1>4. plan # None /\ it.window = windows =>
        /\ it.plan = plan
        /\ use # "none"
        /\ use = "one" => it.place = windowState.consumed /\ \A j \in Iterators : Mine(j) => j = i
  BY <1>3 DEF WindowInv, CountInv
<1>5. use \in {"none", "one", "several"}
  BY DEF WindowInv, CountInv
<1> HIDE DEF it
<1>6. plan # None /\ it.window = windows =>
        /\ it.plan = plan
        /\ use # "several" =>
             /\ use = "one" /\ it.place = windowState.consumed
             /\ \A j \in Iterators : Mine(j) => j = i
  BY <1>4, <1>5
<1> QED BY <1>1, <1>2, <1>5, <1>6, NextMicrobatchStep

\* Every step of the window keeps it.
LEMMA WindowStep == WindowInv /\ [WindowNext]_onlineVars => WindowInv'
<1> SUFFICES ASSUME WindowInv, [WindowNext]_onlineVars PROVE WindowInv'
  OBVIOUS
<1>1. Deques'
  BY BufferOfWindow, DequesStep DEF WindowInv
<1>2. ASSUME ChangeBuffer PROVE PlanInv' /\ IteratorsInv' /\ CountInv'
  BY <1>2, SameWindow DEF ChangeBuffer
<1>3. ASSUME BuildNextWindow PROVE PlanInv' /\ IteratorsInv' /\ CountInv'
  BY <1>3, BuildStep
<1>4. ASSUME DiscardCurrent PROVE PlanInv' /\ IteratorsInv' /\ CountInv'
  <2>1. plan' = None /\ iters' = iters /\ windows' = windows /\ use' = use
    BY <1>4 DEF DiscardCurrent
  <2> QED BY <2>1 DEF WindowInv, PlanInv, IteratorsInv, CountInv
<1>5. ASSUME Reload PROVE PlanInv' /\ IteratorsInv' /\ CountInv'
  <2>1. plan' = None /\ iters' = [i \in Iterators |-> None] /\ windows' = windows /\ use' = use
    BY <1>5 DEF Reload
  <2> QED BY <2>1 DEF WindowInv, PlanInv, IteratorsInv, CountInv
<1>6. ASSUME NEW i \in Iterators, BeginIteration(i) PROVE PlanInv' /\ IteratorsInv' /\ CountInv'
  BY <1>6, BeginIterationStep
<1>7. ASSUME NEW i \in Iterators, ContinueIteration(i) PROVE PlanInv' /\ IteratorsInv' /\ CountInv'
  BY <1>7, ContinueIterationStep
<1>8. ASSUME NEW i \in Iterators, AbandonIteration(i) PROVE PlanInv' /\ IteratorsInv' /\ CountInv'
  <2>1. /\ iters' = [iters EXCEPT ![i] = None] /\ windows' = windows /\ plan' = plan
        /\ snapshot' = snapshot /\ windowState' = windowState /\ seen' = seen /\ use' = use
    BY <1>8 DEF AbandonIteration, windowVars
  <2>2. plan' # None => snapshot' \in Seq(Samples) /\ plan' \in Plans(snapshot')
    BY <2>1 DEF WindowInv, PlanInv
  <2>3. PlanInv'
    BY <2>2 DEF PlanInv, Plans
  <2>4. iters \in [Iterators -> IteratorOf \cup {None}]
    BY DEF WindowInv, IteratorsInv
  <2>5. \A j \in Iterators : iters'[j] = IF j = i THEN None ELSE iters[j]
    BY <2>1, <2>4
  <2>6. iters' \in [Iterators -> IteratorOf \cup {None}]
    BY <2>1, <2>4
  <2>7. IteratorsInv'
    BY <2>1, <2>5, <2>6 DEF WindowInv, IteratorsInv
  <2>8. \A j \in Iterators : Mine(j)' => Mine(j) /\ iters'[j] = iters[j]
    BY <2>1, <2>5 DEF Mine
  <2>9. CountInv'
    BY <2>1, <2>8 DEF WindowInv, CountInv
  <2> QED BY <2>3, <2>7, <2>9
<1>9. ASSUME UNCHANGED onlineVars PROVE PlanInv' /\ IteratorsInv' /\ CountInv'
  BY <1>9, SameWindow DEF onlineVars
<1> QED BY <1>1, <1>2, <1>3, <1>4, <1>5, <1>6, <1>7, <1>8, <1>9 DEF WindowInv, WindowNext

\* Whatever the buffer evicts, whoever iterates and however the buckets and
\* rounds are shuffled, every sample of the snapshot that is not too long is in
\* one microbatch of the plan, and an iterator finds the samples of its plan
\* (_form_batches, _interleave_batches, build_next_window,
\* iter_current_with_samples).
THEOREM WindowsAreWholeTheorem == WindowSpec => []WindowsAreWhole
<1>1. WindowInv => WindowsAreWhole
  <2> SUFFICES ASSUME WindowInv PROVE WindowsAreWhole
    OBVIOUS
  <2>1. \A i \in Iterators : iters[i] # None =>
          \A n \in DOMAIN iters[i].plan : ToSet(iters[i].plan[n]) \subseteq iters[i].lookup
    BY DEF WindowInv, IteratorsInv
  <2>2. ASSUME plan # None
        PROVE  /\ \A id \in Ids(snapshot) :
                    Cardinality(Holds(plan, id)) = IF Skipped(LengthOf(snapshot, id)) THEN 0 ELSE 1
               /\ \A n \in DOMAIN plan :
                    /\ ToSet(plan[n]) \subseteq Ids(snapshot)
                    /\ \A id \in ToSet(plan[n]) :
                         Bucket(LengthOf(snapshot, id)) = Bucket(LengthOf(snapshot, plan[n][1]))
                    /\ Cardinality(ToSet(plan[n])) = Len(plan[n])
                    /\ \/ Len(plan[n]) = 1
                       \/ Len(plan[n]) * BucketMax(Bucket(LengthOf(snapshot, plan[n][1]))) <= TokenBudget
    <3>1. snapshot \in Seq(Samples) /\ plan \in Plans(snapshot)
      BY <2>2 DEF WindowInv, PlanInv
    <3> QED BY <3>1, PlanIsWhole
  <2> QED BY <2>1, <2>2 DEF WindowsAreWhole
<1> QED BY WindowBegins, WindowStep, <1>1, PTL DEF WindowSpec

\* A window all of whose microbatches were yielded is exhausted, and one that a
\* single iterator used is exhausted only then (iter_current, is_exhausted).
THEOREM ExhaustedMeansSeenTheorem == WindowSpec => []ExhaustedMeansSeen
<1>1. WindowInv => ExhaustedMeansSeen
  <2> SUFFICES ASSUME WindowInv, plan # None
               PROVE  /\ seen = DOMAIN plan => Exhausted
                      /\ use # "several" /\ Exhausted => seen = DOMAIN plan
    BY DEF ExhaustedMeansSeen
  <2>1. /\ windowState.consumed \in Nat /\ windowState.microbatches = Len(plan)
        /\ seen \subseteq 1..Len(plan) /\ Cardinality(seen) <= windowState.consumed
        /\ use # "several" => seen = 1..windowState.consumed
    BY DEF WindowInv, CountInv
  <2>2. DOMAIN plan = 1..Len(plan) /\ Len(plan) \in Nat
    <3>1. plan \in Seq(Seq(AllIds))
      BY PlanIsWhole DEF WindowInv, PlanInv
    <3> QED BY <3>1, LenProperties
  <2>3. Cardinality(1..Len(plan)) = Len(plan)
    <3> DEFINE l == Len(plan)
    <3>1. 1 \in Int /\ l \in Int /\ l \in Nat
      BY <2>2
    <3> HIDE DEF l
    <3>2. Cardinality(1..l) = IF 1 > l THEN 0 ELSE l - 1 + 1
      BY <3>1, FS_Interval
    <3>3. Cardinality(1..l) = l
      BY <3>1, <3>2
    <3> QED BY <3>3 DEF l
  <2>4. ASSUME seen = DOMAIN plan PROVE Exhausted
    BY <2>1, <2>2, <2>3, <2>4 DEF Exhausted
  <2>5. ASSUME use # "several", Exhausted PROVE seen = DOMAIN plan
    <3>1. windowState.consumed >= Len(plan) /\ seen = 1..windowState.consumed
      BY <2>1, <2>5 DEF Exhausted
    <3>2. 1..Len(plan) \subseteq seen
      BY <2>1, <2>2, <3>1
    <3> QED BY <2>1, <2>2, <3>2
  <2> QED BY <2>4, <2>5
<1> QED BY WindowBegins, WindowStep, <1>1, PTL DEF WindowSpec

\* The window leaves the buffer to its own operations, so its books are kept.
THEOREM WindowKeepsBooks == WindowSpec => []BufferBooks
<1>1. WindowInit => BufferInit
  BY DEF WindowInit
<1> QED BY <1>1, BufferOfWindow, BufferBooksTheorem, PTL DEF WindowSpec, BufferSpec
=============================================================================
