--------------------------- MODULE MemoryChatProofs ---------------------------
(***************************************************************************)
(* For any number of sessions, turns, saves, faults and crashes: a store   *)
(* that was published stays as it was published, the retriever offers      *)
(* published stores only, no two windows of a session have one id, the     *)
(* transcript and the history agree, and without a fault nothing that was  *)
(* captured is left out of the store.                                      *)
(***************************************************************************)
EXTENDS MemoryChat, SequenceTheorems, TLAPS

USE ChatAssumption DEF Sessions

\* Handing windows to the indexer keeps the types, and touches only the
\* session that has one.
LEMMA CaptureFacts ==
  ASSUME TypeOK, NEW list \in Seq(Nat), Capture(list)
  PROVE  /\ queue' \in [Sessions -> Seq(Window \cup {Stop})]
         /\ daemon' \in [Sessions -> {"none", "alive", "dead"}]
         /\ accepted' \in [Sessions -> SUBSET Window]
         /\ counter' \in Nat
         /\ \A s \in Sessions : daemon'[s] # daemon[s] => s = sid /\ indexer
<1>1. CASE ~indexer
  BY <1>1 DEF Capture, TypeOK
<1>2. CASE indexer
  <2> DEFINE new == [i \in 1..Len(list) |-> <<counter + i - 1, list[i]>>]
  <2>1. Len(list) \in Nat /\ counter \in Nat /\ \A i \in 1..Len(list) : list[i] \in Nat
    BY DEF TypeOK
  <2>2. \A i \in 1..Len(list) : new[i] \in Window
    BY <2>1 DEF Window
  <2>3. new \in Seq(Window) /\ Len(new) = Len(list)
    BY <2>1, <2>2, IsASeq
  <2>4. new \in Seq(Window \cup {Stop})
    BY <2>1, <2>2, IsASeq
  <2>5. /\ queue' = [queue EXCEPT ![sid] = @ \o new]
        /\ daemon' = [daemon EXCEPT ![sid] = IF @ = "none" THEN "alive" ELSE @]
        /\ accepted' = [accepted EXCEPT ![sid] = @ \cup {new[i] : i \in 1..Len(list)}]
        /\ counter' = counter + Len(list)
    BY <1>2 DEF Capture
  <2>6. queue[sid] \o new \in Seq(Window \cup {Stop})
    BY <2>4, ConcatProperties DEF TypeOK
  <2>7. {new[i] : i \in 1..Len(list)} \subseteq Window
    BY <2>2
  <2> HIDE DEF new
  <2> QED BY <1>2, <2>1, <2>5, <2>6, <2>7 DEF TypeOK
<1> QED BY <1>1, <1>2

\* Taking the last element off keeps the type.
LEMMA FrontTyped ==
  ASSUME NEW S, NEW q \in Seq(S)
  PROVE  SubSeq(q, 1, Len(q) - 1) \in Seq(S)
BY SubSeqProperties, LenProperties

\* A save puts the sentinel into the queue of the current session.
LEMMA SaveFacts ==
  ASSUME TypeOK, NEW c \in {"save", "quit", "new", "atexit"}, Save(c)
  PROVE  /\ queue' \in [Sessions -> Seq(Window \cup {Stop})]
         /\ caller' = c /\ pc' \in {"join", "refresh"}
         /\ pc' = "join" => indexer
         /\ dirty' = dirty
<1>1. CASE ~indexer
  BY <1>1 DEF Save, TypeOK
<1>2. CASE indexer
  <2>1. Append(queue[sid], Stop) \in Seq(Window \cup {Stop})
    BY AppendProperties DEF TypeOK
  <2>2. /\ queue' = [queue EXCEPT ![sid] = Append(@, Stop)]
        /\ caller' = c /\ pc' = "join" /\ dirty' = dirty
    BY <1>2 DEF Save
  <2> QED BY <1>2, <2>1, <2>2 DEF TypeOK
<1> QED BY <1>1, <1>2

\* Control comes back to a place that is not a save.
LEMMA ReturnFacts ==
  ASSUME TypeOK, NEW c \in {"save", "quit", "new", "atexit"}, NEW ok \in BOOLEAN, Return(c, ok)
  PROVE  /\ caller' = "none" /\ pc' \in {"prompt", "atexit", "exited", "new"}
         /\ dirty' \in BOOLEAN
<1>1. caller' = "none" /\ pc' \in {"prompt", "atexit", "exited", "new"}
  BY DEF Return
<1>2. dirty' \in BOOLEAN
  BY Zenon DEF Return, TypeOK
<1> QED BY <1>1, <1>2

\* What emit_store leaves behind, whether it saves or not.
LEMMA EmitFacts ==
  ASSUME TypeOK, Emit
  PROVE  /\ queue' \in [Sessions -> Seq(Window \cup {Stop})]
         /\ dirty' \in BOOLEAN
         /\ \/ /\ caller' = "none" /\ pc' \in {"prompt", "atexit", "exited", "new"}
            \/ /\ caller' \in {"save", "quit", "atexit"} /\ pc' \in {"join", "refresh"}
               /\ pc' = "join" => indexer
<1>1. PICK c \in {"save", "quit", "atexit"} : EmitStore(c)
  BY DEF Emit
<1>2. CASE Return(c, TRUE) /\ UNCHANGED queue
  BY <1>2, ReturnFacts DEF TypeOK
<1>3. CASE Save(c)
  BY <1>3, SaveFacts DEF TypeOK
<1> QED BY <1>1, <1>2, <1>3 DEF EmitStore

\* A session begins with an indexer or without one.
LEMMA IndexerFacts == NewIndexer => indexer' \in BOOLEAN
BY Zenon DEF NewIndexer

\* Every step keeps the types.
LEMMA TypeStep == TypeOK /\ [Next]_vars => TypeOK'
<1> SUFFICES ASSUME TypeOK, [Next]_vars PROVE TypeOK'
  OBVIOUS
<1> USE DEF TypeOK, repl, indexers, store, limits
<1>1. CASE Input
  <2>1. Append(turns, "user") \in Seq({"user", "assistant"}) /\ Append(messages, "user") \in Seq({"user", "assistant"})
    BY AppendProperties
  <2>2. turns' \in Seq({"user", "assistant"}) /\ messages' \in Seq({"user", "assistant"})
    BY <1>1, <2>1 DEF Input, Record
  <2> QED BY <1>1, <2>2 DEF Input
<1>2. CASE RecallTopical
  <2>1. <<Len(turns)>> \in Seq(Nat) /\ Capture(<<Len(turns)>>)
    BY <1>2, LenProperties DEF RecallTopical, ThisTurn
  <2>2. /\ queue' \in [Sessions -> Seq(Window \cup {Stop})]
        /\ daemon' \in [Sessions -> {"none", "alive", "dead"}]
        /\ accepted' \in [Sessions -> SUBSET Window]
        /\ counter' \in Nat
    BY <2>1, CaptureFacts
  <2>3. turns' \in Seq({"user", "assistant"}) /\ messages' \in Seq({"user", "assistant"})
    <3>1. Append(turns, "assistant") \in Seq({"user", "assistant"}) /\ Append(messages, "assistant") \in Seq({"user", "assistant"})
      BY AppendProperties
    <3> QED BY <1>2, <3>1 DEF RecallTopical, Record
  <2> QED BY <1>2, <2>2, <2>3 DEF RecallTopical
<1>3. CASE RecallElsewhere
  <2>1. turns' \in Seq({"user", "assistant"}) /\ messages' \in Seq({"user", "assistant"})
    BY <1>3, FrontTyped DEF RecallElsewhere
  <2> QED BY <1>3, <2>1 DEF RecallElsewhere
<1>4. CASE RecallKV
  <2>1. <<ThisTurn, ThisTurn + 1>> \in Seq(Nat) /\ Capture(<<ThisTurn, ThisTurn + 1>>)
    BY <1>4, LenProperties DEF RecallKV, ThisTurn
  <2>2. /\ queue' \in [Sessions -> Seq(Window \cup {Stop})]
        /\ daemon' \in [Sessions -> {"none", "alive", "dead"}]
        /\ accepted' \in [Sessions -> SUBSET Window]
        /\ counter' \in Nat
    BY <2>1, CaptureFacts
  <2>3. turns' \in Seq({"user", "assistant"}) /\ messages' \in Seq({"user", "assistant"})
    <3>1. <<"user", "assistant">> \in Seq({"user", "assistant"})
      OBVIOUS
    <3>2. /\ turns \o <<"user", "assistant">> \in Seq({"user", "assistant"})
          /\ messages \o <<"user", "assistant">> \in Seq({"user", "assistant"})
          /\ Append(messages, "user") \in Seq({"user", "assistant"})
      BY <3>1, ConcatProperties, AppendProperties
    <3> QED BY <1>4, <3>2 DEF RecallKV
  <2> QED BY <1>4, <2>2, <2>3 DEF RecallKV
<1>5. CASE RecallMiss
  BY <1>5 DEF RecallMiss
<1>6. CASE PlainBegin
  <2>1. <<ThisTurn>> \in Seq(Nat) /\ Capture(<<ThisTurn>>)
    BY <1>6, LenProperties DEF PlainBegin, ThisTurn
  <2>2. /\ queue' \in [Sessions -> Seq(Window \cup {Stop})]
        /\ daemon' \in [Sessions -> {"none", "alive", "dead"}]
        /\ accepted' \in [Sessions -> SUBSET Window]
        /\ counter' \in Nat
    BY <2>1, CaptureFacts
  <2>3. turns' \in Seq({"user", "assistant"}) /\ messages' \in Seq({"user", "assistant"})
    <3>1. <<"user", "assistant">> \in Seq({"user", "assistant"})
      OBVIOUS
    <3>2. /\ turns \o <<"user", "assistant">> \in Seq({"user", "assistant"})
          /\ messages \o <<"user", "assistant">> \in Seq({"user", "assistant"})
          /\ Append(messages, "user") \in Seq({"user", "assistant"})
      BY <3>1, ConcatProperties, AppendProperties
    <3> QED BY <1>6, <3>2 DEF PlainBegin
  <2> QED BY <1>6, <2>2, <2>3 DEF PlainBegin
<1>7. CASE PlainEnd
  <2>1. <<Len(turns)>> \in Seq(Nat) /\ Capture(<<Len(turns)>>)
    BY <1>7, LenProperties DEF PlainEnd, ThisTurn
  <2>2. /\ queue' \in [Sessions -> Seq(Window \cup {Stop})]
        /\ daemon' \in [Sessions -> {"none", "alive", "dead"}]
        /\ accepted' \in [Sessions -> SUBSET Window]
        /\ counter' \in Nat
    BY <2>1, CaptureFacts
  <2>3. turns' \in Seq({"user", "assistant"}) /\ messages' \in Seq({"user", "assistant"})
    <3>1. Append(messages, "assistant") \in Seq({"user", "assistant"})
      BY AppendProperties
    <3> QED BY <1>7, <3>1 DEF PlainEnd
  <2> QED BY <1>7, <2>2, <2>3 DEF PlainEnd
<1>8. CASE KvQuery
  BY <1>8 DEF KvQuery
<1>9. CASE SetMode
  BY <1>9 DEF SetMode
<1>10. CASE Emit
  BY <1>10, EmitFacts DEF Emit
<1>11. CASE NewCommand
  <2>1. CASE Save("new")
    BY <1>11, <2>1, SaveFacts DEF NewCommand
  <2>2. CASE turns = <<>>
    BY <1>11, <2>2 DEF NewCommand
  <2> QED BY <1>11, <2>1, <2>2 DEF NewCommand
<1>12. CASE StartNew
  BY <1>12, EmptySeq, IndexerFacts DEF StartNew
<1>13. CASE FlushFails
  <2>1. /\ failed' \in [Sessions -> SUBSET Window]
        /\ spoiled' \in BOOLEAN
    BY <1>13 DEF FlushFails
  <2>2. caller \in {"save", "quit", "new", "atexit"} /\ Return(caller, FALSE)
    BY <1>13 DEF FlushFails
  <2>3. /\ caller' = "none" /\ pc' \in {"prompt", "atexit", "exited", "new"}
        /\ dirty' \in BOOLEAN
    BY <2>2, ReturnFacts
  <2> QED BY <1>13, <2>1, <2>3 DEF FlushFails
<1>14. CASE FlushSucceeds
  <2>1. published' \in [Sessions -> SUBSET Window]
    BY <1>14 DEF FlushSucceeds
  <2>2. manifest' \in [Sessions -> {"absent", "in_flight", "final"}]
    BY <1>14 DEF FlushSucceeds
  <2> QED BY <1>14, <2>1, <2>2 DEF FlushSucceeds
<1>15. CASE Refresh
  <2>1. caller \in {"save", "quit", "new", "atexit"} /\ Return(caller, TRUE)
    BY <1>15 DEF Refresh
  <2>2. /\ caller' = "none" /\ pc' \in {"prompt", "atexit", "exited", "new"}
        /\ dirty' \in BOOLEAN
    BY <2>1, ReturnFacts
  <2> QED BY <1>15, <2>2 DEF Refresh, Enumerable, Promote
<1>16. CASE RefreshFails
  <2>1. caller \in {"save", "quit", "new", "atexit"} /\ Return(caller, FALSE)
    BY <1>16 DEF RefreshFails
  <2>2. /\ caller' = "none" /\ pc' \in {"prompt", "atexit", "exited", "new"}
        /\ dirty' \in BOOLEAN
    BY <2>1, ReturnFacts
  <2> QED BY <1>16, <2>2 DEF RefreshFails, Promote
<1>17. CASE Raise
  BY <1>17 DEF Raise
<1>18. CASE \E s \in Sessions : DaemonStep(s)
  <2>1. PICK s \in Sessions : DaemonStep(s)
    BY <1>18
  <2>2. /\ Head(queue[s]) \in Window \cup {Stop}
        /\ Tail(queue[s]) \in Seq(Window \cup {Stop})
    BY <2>1, HeadTailProperties DEF DaemonStep
  <2>3. queue' \in [Sessions -> Seq(Window \cup {Stop})]
    BY <2>1, <2>2 DEF DaemonStep
  <2>4. /\ daemon' \in [Sessions -> {"none", "alive", "dead"}]
        /\ manifest' \in [Sessions -> {"absent", "in_flight", "final"}]
    BY <2>1 DEF DaemonStep
  <2>5. indexed' \in [Sessions -> SUBSET Window]
    BY <2>1, <2>2 DEF DaemonStep
  <2>6. failed' \in [Sessions -> SUBSET Window]
    BY <2>1, <2>2 DEF DaemonStep
  <2>7. spoiled' \in BOOLEAN
    BY <2>1, Zenon DEF DaemonStep
  <2> QED BY <2>1, <2>3, <2>4, <2>5, <2>6, <2>7 DEF DaemonStep
<1>19. CASE Crash
  BY <1>19 DEF Crash
<1>20. CASE Restart
  BY <1>20, EmptySeq, IndexerFacts DEF Restart, Enumerable
<1>21. CASE UNCHANGED vars
  BY <1>21 DEF vars
<1> QED BY <1>1, <1>2, <1>3, <1>4, <1>5, <1>6, <1>7, <1>8, <1>9, <1>10, <1>11,
           <1>12, <1>13, <1>14, <1>15, <1>16, <1>17, <1>18, <1>19, <1>20, <1>21 DEF Next, TurnStep, SaveStep

\* A published session stays over: its daemon has ended and nothing is handed
\* to its indexer again, so only the current, unpublished one is written to.
LEMMA OverStep == IInv /\ [Next]_vars => PublishedIsOver' /\ HandlesAreReadable'
<1> SUFFICES ASSUME IInv, [Next]_vars PROVE PublishedIsOver' /\ HandlesAreReadable'
  OBVIOUS
<1> USE DEF IInv, TypeOK, PublishedIsOver, HandlesAreReadable, repl, indexers, store, limits
<1>1. CASE Input
  BY <1>1 DEF Input, Record
<1>2. CASE RecallTopical
  <2>1. <<Len(turns)>> \in Seq(Nat) /\ Capture(<<Len(turns)>>)
    BY <1>2, LenProperties DEF RecallTopical, ThisTurn
  <2>2. \A s \in Sessions : daemon'[s] # daemon[s] => s = sid /\ indexer
    BY <2>1, CaptureFacts
  <2> QED BY <1>2, <2>2 DEF RecallTopical, Record
<1>3. CASE RecallElsewhere
  BY <1>3 DEF RecallElsewhere
<1>4. CASE RecallKV
  <2>1. <<ThisTurn, ThisTurn + 1>> \in Seq(Nat) /\ Capture(<<ThisTurn, ThisTurn + 1>>)
    BY <1>4, LenProperties DEF RecallKV, ThisTurn
  <2>2. \A s \in Sessions : daemon'[s] # daemon[s] => s = sid /\ indexer
    BY <2>1, CaptureFacts
  <2> QED BY <1>4, <2>2 DEF RecallKV, Record
<1>5. CASE RecallMiss
  BY <1>5 DEF RecallMiss
<1>6. CASE PlainBegin
  <2>1. <<ThisTurn>> \in Seq(Nat) /\ Capture(<<ThisTurn>>)
    BY <1>6, LenProperties DEF PlainBegin, ThisTurn
  <2>2. \A s \in Sessions : daemon'[s] # daemon[s] => s = sid /\ indexer
    BY <2>1, CaptureFacts
  <2> QED BY <1>6, <2>2 DEF PlainBegin, Record
<1>7. CASE PlainEnd
  <2>1. <<Len(turns)>> \in Seq(Nat) /\ Capture(<<Len(turns)>>)
    BY <1>7, LenProperties DEF PlainEnd, ThisTurn
  <2>2. \A s \in Sessions : daemon'[s] # daemon[s] => s = sid /\ indexer
    BY <2>1, CaptureFacts
  <2> QED BY <1>7, <2>2 DEF PlainEnd, Record
<1>8. CASE KvQuery
  BY <1>8 DEF KvQuery
<1>9. CASE SetMode
  BY <1>9 DEF SetMode
<1>10. CASE Emit
  BY <1>10, EmitFacts DEF Emit
<1>11. CASE NewCommand
  BY <1>11, SaveFacts DEF NewCommand
<1>12. CASE StartNew
  BY <1>12 DEF StartNew, NewIndexer
<1>13. CASE FlushFails
  BY <1>13 DEF FlushFails, Return
<1>14. CASE FlushSucceeds
  BY <1>14 DEF FlushSucceeds
<1>15. CASE Refresh
  BY <1>15 DEF Refresh, Return, Enumerable
<1>16. CASE RefreshFails
  BY <1>16 DEF RefreshFails, Return
<1>17. CASE Raise
  BY <1>17 DEF Raise
<1>18. CASE \E s \in Sessions : DaemonStep(s)
  BY <1>18 DEF DaemonStep
<1>19. CASE Crash
  BY <1>19 DEF Crash
<1>20. CASE Restart
  <2>1. /\ sid' = sid + 1 /\ pc' = "prompt"
        /\ manifest' = manifest /\ published' = published
        /\ handles' = {s \in Sessions : manifest[s] = "final"}
        /\ daemon' = [s \in Sessions |-> "none"]
    BY <1>20 DEF Restart, Enumerable
  <2>2. \A s \in Sessions : manifest[s] = "final" => published[s] # {} /\ s < sid'
    BY <2>1
  <2>3. PublishedIsOver'
    BY <2>1, <2>2
  <2>4. HandlesAreReadable'
    BY <2>1, <2>2
  <2> QED BY <2>3, <2>4
<1>21. CASE UNCHANGED vars
  BY <1>21 DEF vars
<1> HIDE DEF IInv, TypeOK, PublishedIsOver, HandlesAreReadable, repl, indexers, store, limits
<1> QED BY <1>1, <1>2, <1>3, <1>4, <1>5, <1>6, <1>7, <1>8, <1>9, <1>10, <1>11,
           <1>12, <1>13, <1>14, <1>15, <1>16, <1>17, <1>18, <1>19, <1>20, <1>21 DEF Next, TurnStep, SaveStep

-----------------------------------------------------------------------------
(* What a capture adds to the session, for the invariants below.           *)

\* The windows of list get the ids from counter on, one each, and are queued
\* behind what the indexer has.
LEMMA CaptureAdds ==
  ASSUME TypeOK, NEW list \in Seq(Nat), Capture(list), Len(list) > 0
  PROVE  /\ \A s \in Sessions : s # sid => queue'[s] = queue[s] /\ accepted'[s] = accepted[s]
         /\ ~indexer => UNCHANGED <<queue, daemon, accepted, counter>>
         /\ indexer => \E new \in SUBSET Window :
              /\ new # {}
              /\ accepted'[sid] = accepted[sid] \cup new
              /\ {queue'[sid][i] : i \in 1..Len(queue'[sid])} =
                   {queue[sid][i] : i \in 1..Len(queue[sid])} \cup new
              /\ \A v \in new : counter <= v[1] /\ v[1] < counter'
              /\ \A v \in new, w \in new : v[1] = w[1] => v = w
              /\ counter <= counter'
              /\ daemon[sid] = "none" => daemon'[sid] = "alive"
              /\ daemon[sid] # "none" => daemon'[sid] = daemon[sid]
<1>0. Len(list) \in Nat /\ counter \in Nat /\ sid \in Sessions
      /\ \A i \in 1..Len(list) : list[i] \in Nat
  BY DEF TypeOK
<1>1. CASE ~indexer
  BY <1>1 DEF Capture
<1>2. CASE indexer
  <2> DEFINE f == [i \in 1..Len(list) |-> <<counter + i - 1, list[i]>>]
             new == {f[i] : i \in 1..Len(list)}
  <2>1. /\ queue' = [queue EXCEPT ![sid] = @ \o f]
        /\ daemon' = [daemon EXCEPT ![sid] = IF @ = "none" THEN "alive" ELSE @]
        /\ accepted' = [accepted EXCEPT ![sid] = @ \cup {f[i] : i \in 1..Len(list)}]
        /\ counter' = counter + Len(list)
    BY <1>2 DEF Capture
  <2>2. \A i \in 1..Len(list) : f[i] \in Window /\ f[i][1] = counter + i - 1
    BY <1>0 DEF Window
  <2>3. f \in Seq(Window) /\ Len(f) = Len(list)
    BY <1>0, <2>2, IsASeq
  <2> HIDE DEF f
  <2>4. new \in SUBSET Window /\ new # {}
    <3>1. 1 \in 1..Len(list)
      BY <1>0
    <3> QED BY <2>2, <3>1
  <2>5. \A v \in new : counter <= v[1] /\ v[1] < counter'
    BY <1>0, <2>1, <2>2
  <2>6. \A v \in new, w \in new : v[1] = w[1] => v = w
    BY <1>0, <2>2
  <2>7. accepted'[sid] = accepted[sid] \cup new
    BY <1>0, <2>1 DEF TypeOK
  <2>8. {queue'[sid][i] : i \in 1..Len(queue'[sid])} =
          {queue[sid][i] : i \in 1..Len(queue[sid])} \cup new
    <3> DEFINE q == queue[sid]
    <3>1. q \in Seq(Window \cup {Stop}) /\ queue'[sid] = q \o f
      BY <1>0, <2>1 DEF TypeOK
    <3> HIDE DEF q
    <3>2. f \in Seq(Window \cup {Stop}) /\ Len(q) \in Nat
      BY <1>0, <2>2, <2>3, <3>1, IsASeq
    <3>3. /\ Len(q \o f) = Len(q) + Len(list)
          /\ \A i \in 1..Len(q) : (q \o f)[i] = q[i]
          /\ \A i \in (Len(q) + 1)..(Len(q) + Len(list)) : (q \o f)[i] = f[i - Len(q)]
      <4>1. Len(q \o f) = Len(q) + Len(f)
        BY <3>1, <3>2, ConcatProperties
      <4>2. \A i \in 1..(Len(q) + Len(f)) : (q \o f)[i] = IF i <= Len(q) THEN q[i] ELSE f[i - Len(q)]
        BY <3>1, <3>2, ConcatProperties
      <4> QED BY <1>0, <2>3, <3>2, <4>1, <4>2
    <3>4. \A i \in 1..Len(list) : (q \o f)[i + Len(q)] = f[i] /\ i + Len(q) \in 1..Len(q \o f)
      BY <1>0, <3>2, <3>3
    <3>5. \A i \in 1..Len(q \o f) : i \in 1..Len(q) \/ i - Len(q) \in 1..Len(list)
      BY <1>0, <3>2, <3>3
    <3>6. {(q \o f)[i] : i \in 1..Len(q \o f)} = {q[i] : i \in 1..Len(q)} \cup {f[i] : i \in 1..Len(list)}
      <4>1. ASSUME NEW i \in 1..Len(q \o f)
            PROVE  (q \o f)[i] \in {q[k] : k \in 1..Len(q)} \cup {f[k] : k \in 1..Len(list)}
        <5>1. CASE i \in 1..Len(q)
          BY <3>3, <5>1
        <5>2. CASE i - Len(q) \in 1..Len(list)
          <6>1. i \in (Len(q) + 1)..(Len(q) + Len(list))
            BY <1>0, <3>2, <5>2
          <6> QED BY <3>3, <5>2, <6>1
        <5> QED BY <3>5, <5>1, <5>2
      <4>2. ASSUME NEW i \in 1..Len(q) PROVE q[i] \in {(q \o f)[k] : k \in 1..Len(q \o f)}
        <5>1. i \in 1..Len(q \o f)
          BY <1>0, <3>2, <3>3
        <5> QED BY <3>3, <5>1
      <4>3. ASSUME NEW i \in 1..Len(list) PROVE f[i] \in {(q \o f)[k] : k \in 1..Len(q \o f)}
        BY <3>4
      <4> QED BY <4>1, <4>2, <4>3
    <3> QED BY <3>1, <3>6 DEF q
  <2>9. counter <= counter'
    BY <1>0, <2>1
  <2>10. /\ daemon[sid] = "none" => daemon'[sid] = "alive"
         /\ daemon[sid] # "none" => daemon'[sid] = daemon[sid]
    BY <1>0, <2>1 DEF TypeOK
  <2>11. \A s \in Sessions : s # sid => queue'[s] = queue[s] /\ accepted'[s] = accepted[s]
    BY <1>0, <2>1 DEF TypeOK
  <2> HIDE DEF new
  <2> QED BY <1>2, <2>4, <2>5, <2>6, <2>7, <2>8, <2>9, <2>10, <2>11
<1> QED BY <1>1, <1>2

\* The four steps that capture, and what they have in common.
Captures(list) ==
  /\ Capture(list) /\ list \in Seq(Nat) /\ Len(list) > 0
  /\ UNCHANGED <<sid, indexer, indexed, failed, published, spoiled>>

\* Every step that records a turn captures the windows of some list.
LEMMA CaptureSteps ==
  ASSUME TypeOK, RecallTopical \/ RecallKV \/ PlainBegin \/ PlainEnd
  PROVE  \E list : Captures(list)
<1>1. Len(turns) \in Nat
  BY DEF TypeOK
<1>2. CASE RecallTopical
  <2>1. <<Len(turns)>> \in Seq(Nat) /\ Len(<<Len(turns)>>) > 0
    BY <1>1
  <2>2. Captures(<<Len(turns)>>)
    BY <1>2, <2>1 DEF RecallTopical, Captures, store
  <2> QED BY <2>2
<1>3. CASE RecallKV
  <2>1. <<ThisTurn, ThisTurn + 1>> \in Seq(Nat) /\ Len(<<ThisTurn, ThisTurn + 1>>) > 0
    BY <1>1 DEF ThisTurn
  <2>2. Captures(<<ThisTurn, ThisTurn + 1>>)
    BY <1>3, <2>1 DEF RecallKV, Captures, store
  <2> QED BY <2>2
<1>4. CASE PlainBegin
  <2>1. <<ThisTurn>> \in Seq(Nat) /\ Len(<<ThisTurn>>) > 0
    BY <1>1 DEF ThisTurn
  <2>2. Captures(<<ThisTurn>>)
    BY <1>4, <2>1 DEF PlainBegin, Captures, store
  <2> QED BY <2>2
<1>5. CASE PlainEnd
  <2>1. <<Len(turns)>> \in Seq(Nat) /\ Len(<<Len(turns)>>) > 0
    BY <1>1
  <2>2. Captures(<<Len(turns)>>)
    BY <1>5, <2>1 DEF PlainEnd, Captures, store
  <2> QED BY <2>2
<1> QED BY <1>2, <1>3, <1>4, <1>5

\* A session begins: nothing is known of it.
LEMMA SessionBegins ==
  ASSUME TypeOK, FutureInv, StartNew \/ Restart
  PROVE  /\ sid' = sid + 1 /\ sid' \in Sessions /\ counter' = 0 /\ turns' = <<>> /\ messages' = <<>>
         /\ UNCHANGED <<accepted, published, spoiled, dirty, indexed, caller>>
         /\ pc' = "prompt" /\ indexer' \in BOOLEAN
         /\ accepted[sid'] = {} /\ published[sid'] = {} /\ indexed[sid'] = {}
         /\ queue'[sid'] = <<>> /\ failed'[sid'] = {}
<1>1. /\ sid' = sid + 1 /\ sid < MaxSessions /\ counter' = 0 /\ turns' = <<>> /\ messages' = <<>>
      /\ UNCHANGED <<accepted, published, spoiled, dirty, indexed, caller>>
      /\ pc' = "prompt"
  BY DEF StartNew, Restart, store, indexers
<1>2. sid' \in Sessions /\ sid' > sid
  BY <1>1 DEF TypeOK
<1>3. accepted[sid'] = {} /\ published[sid'] = {} /\ indexed[sid'] = {} /\ queue[sid'] = <<>> /\ failed[sid'] = {}
  BY <1>2 DEF FutureInv
<1>4. queue'[sid'] = <<>> /\ failed'[sid'] = {}
  BY <1>2, <1>3 DEF StartNew, Restart, indexers
<1>5. indexer' \in BOOLEAN
  BY IndexerFacts DEF StartNew, Restart
<1> QED BY <1>1, <1>2, <1>3, <1>4, <1>5

\* No two windows of a session get one id.
LEMMA IdStep ==
  ASSUME TypeOK, TypeOK', IdInv, FutureInv, [Next]_vars
  PROVE  IdInv'
<1>0. sid \in Sessions /\ counter \in Nat /\ accepted \in [Sessions -> SUBSET Window]
  BY DEF TypeOK
<1>1. CASE RecallTopical \/ RecallKV \/ PlainBegin \/ PlainEnd
  <2>1. PICK list : Captures(list)
    BY <1>1, CaptureSteps
  <2>2. CASE ~indexer
    BY <2>1, <2>2, CaptureAdds DEF Captures, IdInv, WindowIdsAreUnique
  <2>3. CASE indexer
    <3>1. PICK new \in SUBSET Window :
            /\ accepted'[sid] = accepted[sid] \cup new
            /\ \A v \in new : counter <= v[1] /\ v[1] < counter'
            /\ \A v \in new, w \in new : v[1] = w[1] => v = w
            /\ counter <= counter'
      BY <2>1, <2>3, CaptureAdds DEF Captures
    <3>2. \A s \in Sessions : s # sid => accepted'[s] = accepted[s]
      BY <2>1, CaptureAdds DEF Captures
    <3>3. counter' \in Nat /\ sid' = sid
      BY <2>1 DEF Captures, TypeOK
    <3>4. \A w \in accepted[sid] \cup new : w[1] \in Nat
      BY <1>0 DEF Window
    <3>5. \A w \in accepted'[sid] : w[1] < counter'
      BY <1>0, <3>1, <3>3, <3>4 DEF IdInv
    <3>6. \A v \in accepted'[sid], w \in accepted'[sid] : v[1] = w[1] => v = w
      <4>1. \A v \in accepted[sid], w \in new : v[1] # w[1]
        BY <1>0, <3>1, <3>4 DEF IdInv
      <4> QED BY <1>0, <3>1, <4>1 DEF IdInv, WindowIdsAreUnique
    <3> QED BY <3>2, <3>3, <3>5, <3>6 DEF IdInv, WindowIdsAreUnique
  <2> QED BY <2>2, <2>3
<1>2. CASE StartNew \/ Restart
  BY <1>2, SessionBegins DEF IdInv, WindowIdsAreUnique
<1>3. CASE UNCHANGED <<accepted, counter, sid>>
  BY <1>3 DEF IdInv, WindowIdsAreUnique
<1>4. \/ RecallTopical \/ RecallKV \/ PlainBegin \/ PlainEnd \/ StartNew \/ Restart
      \/ UNCHANGED <<accepted, counter, sid>>
  BY DEF Next, TurnStep, SaveStep, vars, repl, Input, RecallElsewhere, RecallMiss, KvQuery,
         SetMode, Emit, NewCommand, FlushFails, FlushSucceeds, Refresh, RefreshFails, Raise,
         DaemonStep, Crash
<1> QED BY <1>1, <1>2, <1>3, <1>4

\* A later session is not touched before it begins.
LEMMA FutureStep ==
  ASSUME TypeOK, PublishedIsOver, FutureInv, [Next]_vars
  PROVE  FutureInv'
<1>0. /\ sid \in Sessions /\ sid \in Nat /\ \A s \in Sessions : s \in Nat
      /\ queue \in [Sessions -> Seq(Window \cup {Stop})]
      /\ indexed \in [Sessions -> SUBSET Window] /\ failed \in [Sessions -> SUBSET Window]
      /\ published \in [Sessions -> SUBSET Window]
  BY DEF TypeOK
<1>1. CASE RecallTopical \/ RecallKV \/ PlainBegin \/ PlainEnd
  <2>1. PICK list : Captures(list)
    BY <1>1, CaptureSteps
  <2>2. \A s \in Sessions : s # sid => queue'[s] = queue[s] /\ accepted'[s] = accepted[s]
    BY <2>1, CaptureAdds DEF Captures
  <2>3. UNCHANGED <<sid, indexed, failed, published>>
    BY <2>1 DEF Captures
  <2>4. \A s \in Sessions : s > sid => s # sid
    BY <1>0
  <2> QED BY <2>2, <2>3, <2>4 DEF FutureInv
<1>2. CASE StartNew \/ Restart
  <2>1. sid' = sid + 1
    BY <1>2 DEF StartNew, Restart
  <2>2. \A s \in Sessions : s > sid' => s > sid
    BY <1>0, <2>1
  <2> QED BY <1>2, <2>2 DEF FutureInv, StartNew, Restart, indexers, store
<1>3. CASE Emit \/ NewCommand
  <2>1. /\ UNCHANGED <<sid, accepted, indexed, failed, published>>
        /\ queue' = queue \/ queue' = [queue EXCEPT ![sid] = Append(@, Stop)]
    BY <1>3 DEF Emit, NewCommand, EmitStore, Save, repl, store
  <2>2. \A s \in Sessions : s > sid => queue'[s] = queue[s]
    BY <1>0, <2>1
  <2> QED BY <2>1, <2>2 DEF FutureInv
<1>4. CASE FlushFails \/ FlushSucceeds
  <2>1. /\ UNCHANGED <<sid, queue, accepted, indexed>>
        /\ \A s \in Sessions : s # sid => failed'[s] = failed[s] /\ published'[s] = published[s]
    BY <1>0, <1>4 DEF FlushFails, FlushSucceeds, repl, store, indexers
  <2>2. \A s \in Sessions : s > sid => s # sid
    BY <1>0
  <2> QED BY <2>1, <2>2 DEF FutureInv
<1>5. ASSUME NEW t \in Sessions, DaemonStep(t) PROVE FutureInv'
  <2>1. t <= sid
    BY <1>5 DEF DaemonStep, PublishedIsOver
  <2>2. \A s \in Sessions : s # t => queue'[s] = queue[s] /\ indexed'[s] = indexed[s] /\ failed'[s] = failed[s]
    BY <1>0, <1>5 DEF DaemonStep
  <2>3. UNCHANGED <<sid, accepted, published>>
    BY <1>5 DEF DaemonStep, repl
  <2>4. \A s \in Sessions : s > sid => s # t
    BY <1>0, <2>1
  <2> QED BY <2>2, <2>3, <2>4 DEF FutureInv
<1>6. CASE UNCHANGED <<sid, queue, accepted, indexed, failed, published>>
  BY <1>6 DEF FutureInv
<1>7. \/ RecallTopical \/ RecallKV \/ PlainBegin \/ PlainEnd \/ StartNew \/ Restart
      \/ Emit \/ NewCommand \/ FlushFails \/ FlushSucceeds \/ (\E t \in Sessions : DaemonStep(t))
      \/ UNCHANGED <<sid, queue, accepted, indexed, failed, published>>
  BY DEF Next, TurnStep, SaveStep, vars, repl, indexers, store, Input, RecallElsewhere,
         RecallMiss, KvQuery, SetMode, Refresh, RefreshFails, Raise, Crash
<1> QED BY <1>1, <1>2, <1>3, <1>4, <1>5, <1>6, <1>7

-----------------------------------------------------------------------------
(* The transcript and the history.                                         *)

Roles == {"user", "assistant"}

\* An alternation goes on with the role whose turn it is.
LEMMA AlternateAppend ==
  ASSUME NEW q \in Seq(Roles), Alternate(q)
  PROVE  /\ Len(q) % 2 = 0 => Alternate(Append(q, "user")) /\ Len(Append(q, "user")) % 2 = 1
         /\ Len(q) % 2 = 1 => Alternate(Append(q, "assistant")) /\ Len(Append(q, "assistant")) % 2 = 0
<1>1. ASSUME NEW r \in Roles, r = IF (Len(q) + 1) % 2 = 1 THEN "user" ELSE "assistant"
      PROVE  Alternate(Append(q, r))
  <2>1. /\ Len(q) \in Nat /\ Len(Append(q, r)) = Len(q) + 1 /\ Append(q, r)[Len(q) + 1] = r
        /\ \A i \in 1..Len(q) : Append(q, r)[i] = q[i]
    BY AppendProperties
  <2>2. \A i \in 1..(Len(q) + 1) : i \in 1..Len(q) \/ i = Len(q) + 1
    BY <2>1
  <2> QED BY <1>1, <2>1, <2>2 DEF Alternate
<1>2. Len(q) \in Nat /\ "user" \in Roles /\ "assistant" \in Roles
      /\ Len(Append(q, "user")) = Len(q) + 1 /\ Len(Append(q, "assistant")) = Len(q) + 1
  BY AppendProperties DEF Roles
<1>3. Len(q) % 2 = 0 => (Len(q) + 1) % 2 = 1
  BY <1>2
<1>4. Len(q) % 2 = 1 => (Len(q) + 1) % 2 = 0
  BY <1>2
<1> QED BY <1>1, <1>2, <1>3, <1>4

\* Without its last element an alternation is one, and of the other parity.
LEMMA AlternateFront ==
  ASSUME NEW q \in Seq(Roles), Alternate(q), Len(q) % 2 = 1
  PROVE  /\ Alternate(SubSeq(q, 1, Len(q) - 1)) /\ Len(SubSeq(q, 1, Len(q) - 1)) = Len(q) - 1
         /\ (Len(q) - 1) % 2 = 0 /\ Len(q) >= 1
<1>1. Len(q) \in Nat /\ Len(q) >= 1 /\ (Len(q) - 1) % 2 = 0
  <2>1. Len(q) \in Nat
    BY LenProperties
  <2> QED BY <2>1
<1>2. /\ Len(SubSeq(q, 1, Len(q) - 1)) = Len(q) - 1
      /\ \A i \in 1..(Len(q) - 1) : SubSeq(q, 1, Len(q) - 1)[i] = q[i]
  <2>1. \A i \in 1..(Len(q) - 1) : q[i] \in Roles
    BY <1>1
  <2>2. 1 \in Int /\ Len(q) - 1 \in Int
    BY <1>1
  <2>3. Len(SubSeq(q, 1, Len(q) - 1)) = IF 1 <= Len(q) - 1 THEN (Len(q) - 1) - 1 + 1 ELSE 0
    BY <2>1, <2>2, SubSeqProperties
  <2>4. \A i \in 1..((Len(q) - 1) - 1 + 1) : SubSeq(q, 1, Len(q) - 1)[i] = q[1 + i - 1]
    BY <2>1, <2>2, SubSeqProperties
  <2>5. ASSUME NEW i \in 1..(Len(q) - 1) PROVE SubSeq(q, 1, Len(q) - 1)[i] = q[i]
    <3>1. i \in 1..((Len(q) - 1) - 1 + 1) /\ 1 + i - 1 = i
      BY <1>1
    <3> QED BY <2>4, <3>1
  <2>6. Len(SubSeq(q, 1, Len(q) - 1)) = Len(q) - 1
    <3>1. \A n \in Nat : n >= 1 => (IF 1 <= n - 1 THEN (n - 1) - 1 + 1 ELSE 0) = n - 1
      OBVIOUS
    <3>2. Len(q) \in Nat /\ Len(q) >= 1
      BY <1>1
    <3>3. (IF 1 <= Len(q) - 1 THEN (Len(q) - 1) - 1 + 1 ELSE 0) = Len(q) - 1
      BY <3>1, <3>2
    <3> QED BY <2>3, <3>2, <3>3
  <2> QED BY <2>5, <2>6
<1> QED BY <1>1, <1>2 DEF Alternate

\* An exchange is two appends.
LEMMA AppendedTwo ==
  ASSUME NEW S, NEW q \in Seq(S), NEW x \in S, NEW y \in S
  PROVE  q \o <<x, y>> = Append(Append(q, x), y)
OBVIOUS

\* A question and its answer are appended one after the other.
LEMMA AppendPair ==
  ASSUME NEW q \in Seq(Roles)
  PROVE  q \o <<"user", "assistant">> = Append(Append(q, "user"), "assistant")
         /\ Append(q, "user") \in Seq(Roles)
<1>1. "user" \in Roles /\ "assistant" \in Roles
  BY DEF Roles
<1> QED BY <1>1, AppendedTwo, AppendProperties

\* The step of the turn on which the transcript and the history depend.
LEMMA TurnStepInv ==
  ASSUME TypeOK, TypeOK', TurnInv, FutureInv, [Next]_vars
  PROVE  TurnInv'
<1>0. /\ turns \in Seq(Roles) /\ messages \in Seq(Roles)
      /\ pc \in {"join", "refresh"} <=> caller # "none"
      /\ pc' \in {"join", "refresh"} <=> caller' # "none"
  BY DEF TypeOK, Roles
<1>1. CASE Input
  <2>1. CASE handles = {} \/ mode = "off"
    BY <1>0, <1>1, <2>1 DEF Input, TurnInv
  <2>2. CASE ~(handles = {} \/ mode = "off")
    BY <1>0, <1>1, <2>2, AlternateAppend DEF Input, Record, TurnInv
  <2> QED BY <2>1, <2>2
<1>2. CASE RecallTopical
  <2>1. /\ pc = "recall" /\ pc' = "prompt" /\ turns' = Append(turns, "assistant")
        /\ messages' = Append(messages, "assistant") /\ caller' = caller
    BY <1>2 DEF RecallTopical, Record
  <2> QED BY <1>0, <2>1, AlternateAppend DEF TurnInv
<1>3. CASE RecallElsewhere
  <2>1. /\ turns = messages /\ pc = "recall" /\ pc' \in {"kv", "plain"} /\ caller' = caller
        /\ turns' = SubSeq(turns, 1, Len(turns) - 1) /\ messages' = turns'
    BY <1>3 DEF RecallElsewhere, TurnInv
  <2> QED BY <1>0, <2>1, AlternateFront DEF TurnInv
<1>4. CASE RecallKV
  <2>1. /\ pc = "kv" /\ pc' = "prompt" /\ caller' = caller /\ turns = messages
        /\ turns' = turns \o <<"user", "assistant">> /\ messages' = messages \o <<"user", "assistant">>
        /\ Alternate(messages) /\ Len(messages) % 2 = 0
    BY <1>4 DEF RecallKV, TurnInv
  <2>2. messages' = Append(Append(messages, "user"), "assistant") /\ Append(messages, "user") \in Seq(Roles)
    BY <1>0, <2>1, AppendPair
  <2>3. Alternate(Append(messages, "user")) /\ Len(Append(messages, "user")) % 2 = 1
    BY <1>0, <2>1, AlternateAppend
  <2>4. Alternate(messages') /\ Len(messages') % 2 = 0
    BY <2>2, <2>3, AlternateAppend
  <2> QED BY <1>0, <2>1, <2>4 DEF TurnInv
<1>5. CASE PlainBegin
  <2>1. /\ pc = "plain" /\ pc' = "decode" /\ caller' = caller /\ turns = messages
        /\ turns' = turns \o <<"user", "assistant">> /\ messages' = Append(messages, "user")
        /\ Alternate(messages) /\ Len(messages) % 2 = 0
    BY <1>5 DEF PlainBegin, TurnInv
  <2>2. turns' = Append(messages', "assistant")
    BY <1>0, <2>1, AppendPair
  <2>3. Alternate(messages') /\ Len(messages') % 2 = 1
    BY <1>0, <2>1, AlternateAppend
  <2> QED BY <1>0, <2>1, <2>2, <2>3 DEF TurnInv
<1>6. CASE PlainEnd
  <2>1. /\ pc = "decode" /\ pc' = "prompt" /\ caller' = caller /\ turns' = turns
        /\ messages' = Append(messages, "assistant") /\ turns = Append(messages, "assistant")
        /\ Alternate(messages) /\ Len(messages) % 2 = 1
    BY <1>6 DEF PlainEnd, TurnInv
  <2>2. Alternate(messages') /\ Len(messages') % 2 = 0
    BY <1>0, <2>1, AlternateAppend
  <2> QED BY <1>0, <2>1, <2>2 DEF TurnInv
<1>7. CASE StartNew \/ Restart
  <2>1. turns' = <<>> /\ messages' = <<>> /\ pc' = "prompt" /\ Len(<<>>) = 0
    BY <1>7 DEF StartNew, Restart
  <2>2. Alternate(messages') /\ Len(messages') % 2 = 0
    BY <2>1 DEF Alternate
  <2> QED BY <2>1, <2>2 DEF TurnInv
<1>8. CASE UNCHANGED <<turns, messages>>
           /\ (pc' = "plain" => pc \in {"prompt", "kv", "plain"})
           /\ (pc' = "prompt" \/ caller' = "save" => pc = "prompt" \/ caller = "save")
           /\ (pc' \in {"recall", "kv", "decode"} => pc' = pc)
  BY <1>8 DEF TurnInv
<1>9. ASSUME Emit \/ NewCommand \/ FlushFails \/ Refresh \/ RefreshFails
      PROVE  UNCHANGED <<turns, messages>>
           /\ (pc' \notin {"plain", "recall", "kv", "decode"})
           /\ (pc' = "prompt" \/ caller' = "save" => pc = "prompt" \/ caller = "save")
  <2>1. UNCHANGED <<turns, messages>>
    BY <1>9 DEF Emit, NewCommand, FlushFails, Refresh, RefreshFails, repl
  <2>2. CASE Emit
    <3>1. pc' \notin {"plain", "recall", "kv", "decode"}
      BY <2>2, EmitFacts
    <3>2. CASE pc = "atexit" /\ EmitStore("atexit")
      <4>1. CASE Return("atexit", TRUE)
        <5>1. pc' = "exited" /\ caller' = "none"
          BY <4>1 DEF Return
        <5> QED BY <2>1, <3>1, <5>1
      <4>2. CASE Save("atexit")
        <5>1. pc' \in {"join", "refresh"} /\ caller' = "atexit"
          BY <4>2 DEF Save
        <5> QED BY <2>1, <3>1, <5>1
      <4> QED BY <3>2, <4>1, <4>2 DEF EmitStore
    <3> QED BY <2>1, <2>2, <3>1, <3>2 DEF Emit
  <2>3. CASE NewCommand
    <3>1. pc = "prompt" /\ pc' \in {"new", "join", "refresh"}
      BY <2>3 DEF NewCommand, Save
    <3> QED BY <2>1, <3>1
  <2>4. ASSUME pc \in {"join", "refresh"}, NEW ok \in BOOLEAN, Return(caller, ok)
        PROVE  (pc' \notin {"plain", "recall", "kv", "decode"})
           /\ (pc' = "prompt" \/ caller' = "save" => caller = "save")
    BY <1>0, <2>4 DEF Return, TypeOK
  <2>5. CASE FlushFails \/ Refresh \/ RefreshFails
    <3>1. pc \in {"join", "refresh"} /\ (Return(caller, FALSE) \/ Return(caller, TRUE))
      BY <2>5 DEF FlushFails, Refresh, RefreshFails
    <3> QED BY <2>1, <2>4, <3>1
  <2> QED BY <1>9, <2>1, <2>2, <2>3, <2>5
<1>10. CASE RecallMiss \/ KvQuery \/ SetMode \/ FlushSucceeds \/ Raise \/ Crash
            \/ (\E s \in Sessions : DaemonStep(s)) \/ UNCHANGED vars
  <2>1. UNCHANGED <<turns, messages>>
           /\ (pc' = "plain" => pc \in {"prompt", "kv", "plain"})
           /\ (pc' = "prompt" \/ caller' = "save" => pc = "prompt" \/ caller = "save")
           /\ (pc' \in {"recall", "kv", "decode"} => pc' = pc)
    BY <1>0, <1>10 DEF RecallMiss, KvQuery, SetMode, FlushSucceeds, Raise, Crash, DaemonStep, vars, repl
  <2> QED BY <1>8, <2>1
<1> QED BY <1>1, <1>2, <1>3, <1>4, <1>5, <1>6, <1>7, <1>8, <1>9, <1>10 DEF Next, TurnStep, SaveStep

\* A save begins with a session that has turns, and does not change them.
LEMMA SavedHasTurns == SaveInv /\ [Next]_vars => SaveInv'
<1> SUFFICES ASSUME SaveInv, [Next]_vars PROVE SaveInv'
  OBVIOUS
<1> USE DEF SaveInv, repl
<1>1. CASE Emit
  <2>1. PICK c \in {"save", "quit", "atexit"} : EmitStore(c)
    BY <1>1 DEF Emit
  <2>2. CASE Return(c, TRUE)
    <3>1. pc' \in {"prompt", "atexit", "exited"}
      BY <2>2 DEF Return
    <3> QED BY <3>1
  <2>3. CASE turns # <<>>
    BY <1>1, <2>3 DEF Emit
  <2> QED BY <2>1, <2>2, <2>3 DEF EmitStore
<1>2. CASE NewCommand
  BY <1>2 DEF NewCommand
<1>3. CASE FlushFails \/ Refresh \/ RefreshFails
  <2>1. pc \in {"join", "refresh"} /\ UNCHANGED turns
    BY <1>3 DEF FlushFails, Refresh, RefreshFails
  <2> QED BY <2>1
<1>4. CASE UNCHANGED turns /\ (pc' \in {"join", "refresh"} => pc \in {"join", "refresh"})
  BY <1>4
<1>5. CASE pc' \notin {"join", "refresh"}
  BY <1>5
<1>6. \/ Emit \/ NewCommand \/ FlushFails \/ Refresh \/ RefreshFails
      \/ UNCHANGED turns /\ (pc' \in {"join", "refresh"} => pc \in {"join", "refresh"})
      \/ pc' \notin {"join", "refresh"}
  BY DEF Next, TurnStep, SaveStep, vars, Input, RecallTopical, RecallElsewhere, RecallKV,
         RecallMiss, PlainBegin, PlainEnd, KvQuery, SetMode, StartNew, FlushSucceeds, Raise,
         DaemonStep, Crash, Restart
<1> QED BY <1>1, <1>2, <1>3, <1>4, <1>5, <1>6

-----------------------------------------------------------------------------
(* What the session has captured is indexed, queued or published.          *)

AnyQueue == Seq(Window \cup {Stop})

\* The sentinel goes behind the windows.
LEMMA StopAppended ==
  ASSUME NEW q \in AnyQueue, Stop \notin Items(q)
  PROVE  Items(Append(q, Stop)) \ {Stop} = Items(q) \ {Stop} /\ StopLast(Append(q, Stop))
<1>1. /\ Len(q) \in Nat /\ Len(Append(q, Stop)) = Len(q) + 1 /\ Append(q, Stop)[Len(q) + 1] = Stop
      /\ \A i \in 1..Len(q) : Append(q, Stop)[i] = q[i]
  BY AppendProperties DEF AnyQueue
<1>2. \A i \in 1..(Len(q) + 1) : i \in 1..Len(q) \/ i = Len(q) + 1
  BY <1>1
<1>3. \A i \in 1..Len(q) : q[i] # Stop /\ i \in 1..(Len(q) + 1)
  BY <1>1 DEF Items
<1> QED BY <1>1, <1>2, <1>3 DEF Items, StopLast

\* Taking the head: the rest is queued still, and nothing is behind a sentinel.
LEMMA QueueTaken ==
  ASSUME NEW q \in AnyQueue, q # <<>>
  PROVE  /\ Items(q) = {Head(q)} \cup Items(Tail(q))
         /\ StopLast(q) => StopLast(Tail(q))
         /\ StopLast(q) /\ Head(q) = Stop => Tail(q) = <<>>
<1>1. /\ Len(q) \in Nat /\ Len(q) >= 1 /\ Len(Tail(q)) = Len(q) - 1 /\ Head(q) = q[1]
      /\ \A i \in 1..(Len(q) - 1) : Tail(q)[i] = q[i + 1]
      /\ Tail(q) \in AnyQueue
  BY HeadTailProperties, EmptySeq, LenProperties DEF AnyQueue
<1>2. 1 \in 1..Len(q) /\ \A i \in 1..Len(q) : i = 1 \/ i - 1 \in 1..(Len(q) - 1)
  BY <1>1
<1>3. \A i \in 1..(Len(q) - 1) : i + 1 \in 1..Len(q)
  BY <1>1
<1>4. Items(q) = {Head(q)} \cup Items(Tail(q))
  <2>1. ASSUME NEW i \in 1..Len(q) PROVE q[i] \in {Head(q)} \cup Items(Tail(q))
    <3>1. CASE i = 1
      BY <1>1, <3>1
    <3>2. CASE i - 1 \in 1..(Len(q) - 1)
      <4>1. Tail(q)[i - 1] = q[i]
        <5>1. Tail(q)[i - 1] = q[(i - 1) + 1] /\ (i - 1) + 1 = i
          BY <1>1, <3>2
        <5> QED BY <5>1
      <4> QED BY <1>1, <3>2, <4>1 DEF Items
    <3> QED BY <1>2, <3>1, <3>2
  <2>2. Head(q) \in Items(q)
    BY <1>1, <1>2 DEF Items
  <2>3. ASSUME NEW i \in 1..Len(Tail(q)) PROVE Tail(q)[i] \in Items(q)
    BY <1>1, <1>3 DEF Items
  <2> QED BY <2>1, <2>2, <2>3 DEF Items
<1>5. StopLast(q) => StopLast(Tail(q))
  <2> SUFFICES ASSUME StopLast(q), NEW i \in 1..Len(Tail(q)), Tail(q)[i] = Stop
               PROVE  i = Len(Tail(q))
    BY DEF StopLast
  <2>1. i + 1 \in 1..Len(q) /\ q[i + 1] = Stop
    BY <1>1, <1>3
  <2>2. i + 1 = Len(q)
    BY <2>1 DEF StopLast
  <2>3. i \in Nat /\ Len(q) \in Nat /\ Len(Tail(q)) = Len(q) - 1
    BY <1>1
  <2> QED BY <2>2, <2>3
<1>6. StopLast(q) /\ Head(q) = Stop => Tail(q) = <<>>
  <2> SUFFICES ASSUME StopLast(q), Head(q) = Stop PROVE Tail(q) = <<>>
    OBVIOUS
  <2>1. Len(q) = 1
    BY <1>1, <1>2 DEF StopLast
  <2>2. Len(Tail(q)) = 0
    BY <1>1, <2>1
  <2> QED BY <1>1, <2>2, EmptySeq DEF AnyQueue
<1> QED BY <1>4, <1>5, <1>6

\* A fault switches the invariant off for good.
LEMMA LossWithoutFault ==
  ASSUME TypeOK, TypeOK', [Next]_vars, ~spoiled'
  PROVE  ~spoiled
BY DEF TypeOK, Next, TurnStep, SaveStep, vars, Input, RecallTopical, RecallElsewhere, RecallKV,
       RecallMiss, PlainBegin, PlainEnd, KvQuery, SetMode, Emit, NewCommand, StartNew,
       FlushFails, FlushSucceeds, Refresh, RefreshFails, Raise, DaemonStep, Crash, Restart

\* The turns after a capture: there is more than one, unless the reply is still
\* to come.
LEMMA CaptureTurns ==
  ASSUME TypeOK, TurnInv, RecallTopical \/ RecallKV \/ PlainBegin \/ PlainEnd
  PROVE  /\ pc \notin {"join", "refresh"} /\ pc' \in {"prompt", "decode"}
         /\ pc' = "prompt" => dirty' = TRUE /\ Len(turns') > 1
<1>0. /\ turns \in Seq(Roles) /\ messages \in Seq(Roles)
      /\ Len(turns) \in Nat /\ Len(messages) \in Nat
  BY DEF TypeOK, Roles
<1>1. CASE RecallTopical
  <2>1. pc = "recall" /\ pc' = "prompt" /\ dirty' = TRUE /\ turns' = Append(turns, "assistant")
    BY <1>1 DEF RecallTopical, Record
  <2>2. Len(turns) % 2 = 1
    BY <2>1 DEF TurnInv
  <2>3. Len(turns) >= 1 /\ Len(turns') = Len(turns) + 1
    BY <1>0, <2>1, <2>2 DEF Roles
  <2> QED BY <1>0, <2>1, <2>3
<1>2. CASE RecallKV
  <2>1. /\ pc = "kv" /\ pc' = "prompt" /\ dirty' = TRUE
        /\ turns' = Append(Append(turns, "user"), "assistant")
    BY <1>0, <1>2, AppendPair DEF RecallKV
  <2>2. Len(turns') = Len(turns) + 2
    BY <1>0, <2>1 DEF Roles
  <2> QED BY <1>0, <2>1, <2>2
<1>3. CASE PlainBegin
  BY <1>3 DEF PlainBegin
<1>4. CASE PlainEnd
  <2>1. /\ pc = "decode" /\ pc' = "prompt" /\ dirty' = TRUE /\ turns' = turns
    BY <1>4 DEF PlainEnd
  <2>2. turns = Append(messages, "assistant") /\ Len(messages) % 2 = 1
    BY <2>1 DEF TurnInv
  <2>3. Len(messages) >= 1 /\ Len(turns) = Len(messages) + 1
    BY <1>0, <2>2 DEF Roles
  <2> QED BY <1>0, <2>1, <2>3
<1> QED BY <1>1, <1>2, <1>3, <1>4

\* Capturing keeps what is captured in the queue.
LEMMA LossCapture ==
  ASSUME TypeOK, TypeOK', TurnInv, LossInv, ~spoiled,
         RecallTopical \/ RecallKV \/ PlainBegin \/ PlainEnd
  PROVE  LossInv'
<1>0. sid \in Sessions /\ \A s \in Sessions : s \in Nat
  BY DEF TypeOK
<1>1. PICK list : Captures(list)
  BY CaptureSteps
<1>2. /\ pc \notin {"join", "refresh"} /\ pc' \in {"prompt", "decode"}
      /\ pc' = "prompt" => dirty' = TRUE /\ Len(turns') > 1 /\ Len(turns') \in Nat
  <2>1. Len(turns') \in Nat
    BY DEF TypeOK
  <2> QED BY <2>1, CaptureTurns
<1>3. UNCHANGED <<sid, indexer, indexed, failed, published, spoiled>>
  BY <1>1 DEF Captures
<1>4. \A s \in Sessions : s < sid => accepted'[s] = accepted[s]
  BY <1>0, <1>1, CaptureAdds DEF Captures
<1>5. \A s \in Sessions : s < sid => accepted'[s] \subseteq published'[s]
  BY <1>3, <1>4 DEF LossInv
<1>6. CASE ~indexer
  <2>1. accepted' = accepted
    BY <1>1, <1>6, CaptureAdds DEF Captures
  <2>2. accepted'[sid'] = published'[sid']
    BY <1>3, <1>6, <2>1 DEF LossInv
  <2>3. pc' = "prompt" => ~(Len(turns') <= 1)
    BY <1>2
  <2> QED BY <1>2, <1>3, <1>5, <1>6, <2>2, <2>3 DEF LossInv
<1>7. CASE indexer
  <2>1. PICK new \in SUBSET Window :
          /\ new # {}
          /\ accepted'[sid] = accepted[sid] \cup new
          /\ Items(queue'[sid]) = Items(queue[sid]) \cup new
          /\ daemon[sid] = "none" => daemon'[sid] = "alive"
          /\ daemon[sid] # "none" => daemon'[sid] = daemon[sid]
    BY <1>1, <1>7, CaptureAdds DEF Captures, Items
  <2>2. Stop \notin new
    BY <2>1 DEF Window
  <2>3. OpenInv
    BY <1>7 DEF LossInv
  <2>4. OpenInv'
    <3>1. /\ accepted'[sid'] = indexed'[sid'] \cup (Items(queue'[sid']) \ {Stop})
          /\ failed'[sid'] = {} /\ accepted'[sid'] # {}
      BY <1>3, <2>1, <2>2, <2>3 DEF OpenInv
    <3>2. daemon'[sid'] \notin {"none", "dead"} /\ Stop \notin Items(queue'[sid'])
      BY <1>2, <1>3, <2>1, <2>2, <2>3 DEF OpenInv
    <3> QED BY <1>2, <3>1, <3>2 DEF OpenInv
  <2>5. pc' = "prompt" => ~(Len(turns') <= 1)
    BY <1>2
  <2> QED BY <1>2, <1>3, <1>5, <1>7, <2>4, <2>5 DEF LossInv
<1> QED BY <1>6, <1>7

\* Taking a turn up, taking it back and going on elsewhere capture nothing.
LEMMA LossElsewhere ==
  ASSUME TypeOK, TypeOK', TurnInv, LossInv, ~spoiled,
         Input \/ RecallElsewhere \/ RecallMiss \/ KvQuery \/ SetMode
  PROVE  LossInv'
<1>0. /\ turns \in Seq(Roles) /\ Len(turns) \in Nat /\ Len(turns') \in Nat
  BY DEF TypeOK, Roles
<1>1. UNCHANGED <<sid, indexer, indexed, failed, published, spoiled, accepted, queue, daemon>>
  BY DEF Input, RecallElsewhere, RecallMiss, KvQuery, SetMode, repl, indexers, store
<1>2. /\ pc \in {"prompt", "recall", "kv", "plain"} /\ pc' \in {"prompt", "recall", "kv", "plain"}
      /\ pc' = "prompt" /\ ~dirty' => pc = "prompt" /\ ~dirty
  BY DEF Input, RecallElsewhere, RecallMiss, KvQuery, SetMode
<1>3. (Len(turns') > 1 => Len(turns) > 1) /\ (Len(turns') <= 1 => Len(turns) <= 1)
  <2>1. CASE UNCHANGED turns
    BY <2>1
  <2>2. CASE Input
    <3>1. CASE UNCHANGED turns
      BY <3>1
    <3>2. CASE turns' = Append(turns, "user")
      <4>1. Len(turns) % 2 = 0
        BY <2>2 DEF Input, TurnInv
      <4>2. Len(turns') = Len(turns) + 1
        BY <1>0, <3>2 DEF Roles
      <4> QED BY <1>0, <4>1, <4>2
    <3> QED BY <2>2, <3>1, <3>2 DEF Input, Record
  <2>3. CASE RecallElsewhere
    <3>1. Len(turns) % 2 = 1 /\ Alternate(turns)
      BY <2>3 DEF RecallElsewhere, TurnInv
    <3>2. Len(turns') = Len(turns) - 1
      BY <1>0, <2>3, <3>1, AlternateFront DEF RecallElsewhere
    <3> QED BY <1>0, <3>1, <3>2
  <2> QED BY <2>1, <2>2, <2>3 DEF RecallMiss, KvQuery, SetMode, repl
<1>4. indexer' => OpenInv'
  BY <1>0, <1>1, <1>2, <1>3 DEF LossInv, OpenInv
<1> QED BY <1>0, <1>1, <1>2, <1>3, <1>4 DEF LossInv

\* A save of a session with turns: its sentinel is put behind its windows.
LEMMA LossSave ==
  ASSUME TypeOK, TypeOK', TurnInv, LossInv, ~spoiled, pc = "prompt", turns # <<>>,
         NEW c \in {"save", "quit", "new"}, Save(c),
         UNCHANGED <<sid, turns, indexer, daemon, indexed, failed, published, accepted, spoiled>>
  PROVE  LossInv'
<1>0. sid \in Sessions /\ queue \in [Sessions -> AnyQueue] /\ queue[sid] \in AnyQueue
  BY DEF TypeOK, AnyQueue
<1>1. Len(turns) > 1
  <2>1. Len(turns) \in Nat /\ Len(turns) # 0
    BY EmptySeq DEF TypeOK
  <2>2. Len(turns) % 2 = 0
    BY DEF TurnInv
  <2> QED BY <2>1, <2>2
<1>2. CASE ~indexer
  <2>1. pc' = "refresh"
    BY <1>2 DEF Save
  <2> QED BY <1>2, <2>1 DEF LossInv
<1>3. CASE indexer
  <2>1. pc' = "join" /\ queue'[sid] = Append(queue[sid], Stop)
    BY <1>0, <1>3 DEF Save
  <2>2. OpenInv
    BY <1>3 DEF LossInv
  <2>3. Items(queue'[sid]) \ {Stop} = Items(queue[sid]) \ {Stop} /\ StopLast(queue'[sid])
    BY <1>0, <2>1, <2>2, StopAppended DEF OpenInv
  <2>4. OpenInv'
    BY <1>1, <2>1, <2>2, <2>3 DEF OpenInv
  <2> QED BY <1>3, <2>1, <2>4 DEF LossInv
<1> QED BY <1>2, <1>3

\* emit_store and /new: nothing to save, or a save.
LEMMA LossEmit ==
  ASSUME TypeOK, TypeOK', TurnInv, LossInv, ~spoiled, Emit \/ NewCommand
  PROVE  LossInv'
<1>1. UNCHANGED <<sid, turns, indexer, daemon, indexed, failed, published, accepted, spoiled>>
  BY DEF Emit, NewCommand, repl, store
<1>2. ASSUME NEW c \in {"save", "quit", "atexit"}, EmitStore(c),
             (pc = "prompt" /\ c \in {"save", "quit"}) \/ (pc = "atexit" /\ c = "atexit")
      PROVE  LossInv'
  <2>1. CASE (~dirty \/ turns = <<>>) /\ Return(c, TRUE) /\ UNCHANGED queue
    <3>1. accepted[sid] \subseteq published[sid]
      BY <1>2, <2>1 DEF LossInv
    <3>2. /\ pc' \in {"prompt", "atexit", "exited"} /\ (pc' = "prompt" => pc = "prompt")
          /\ (pc' = "atexit" => dirty' = FALSE)
      BY <1>2, <2>1 DEF Return
    <3>3. indexer' => OpenInv'
      BY <1>1, <1>2, <2>1, <3>2 DEF LossInv, OpenInv
    <3> QED BY <1>1, <1>2, <3>1, <3>2, <3>3 DEF LossInv
  <2>2. CASE dirty /\ turns # <<>> /\ Save(c)
    <3>1. pc = "prompt"
      BY <1>2, <2>2 DEF LossInv
    <3> QED BY <1>1, <1>2, <2>2, <3>1, LossSave
  <2> QED BY <1>2, <2>1, <2>2 DEF EmitStore
<1>3. CASE NewCommand
  <2>1. CASE turns = <<>>
    <3>1. pc = "prompt" /\ pc' = "new" /\ UNCHANGED queue
      BY <1>3, <2>1 DEF NewCommand
    <3>2. accepted[sid] = {}
      BY <2>1, <3>1 DEF LossInv
    <3>3. indexer' => OpenInv'
      BY <1>1, <3>1 DEF LossInv, OpenInv
    <3> QED BY <1>1, <3>1, <3>2, <3>3 DEF LossInv
  <2>2. CASE turns # <<>>
    <3>1. pc = "prompt" /\ Save("new")
      BY <1>3, <2>2 DEF NewCommand
    <3> QED BY <1>1, <2>2, <3>1, LossSave
  <2> QED BY <2>1, <2>2
<1>4. CASE Emit
  <2>1. CASE pc = "prompt" /\ \E c \in {"save", "quit"} : EmitStore(c)
    <3>1. EmitStore("save") \/ EmitStore("quit")
      BY <2>1
    <3>2. CASE EmitStore("save")
      BY <1>2, <2>1, <3>2
    <3>3. CASE EmitStore("quit")
      BY <1>2, <2>1, <3>3
    <3> QED BY <3>1, <3>2, <3>3
  <2>2. CASE pc = "atexit" /\ EmitStore("atexit")
    BY <1>2, <2>2
  <2> QED BY <1>4, <2>1, <2>2 DEF Emit
<1> QED BY <1>3, <1>4

\* The end of a save: an open indexer whose daemon has ended has indexed all that
\* was captured, and that is what is published; then it is let go.
LossFlushSteps == FlushFails \/ FlushSucceeds \/ Refresh \/ RefreshFails
\* The end of a save publishes what was captured.
LEMMA LossFlush ==
  ASSUME TypeOK, TypeOK', SaveInv, TurnInv, LossInv, ~spoiled, ~spoiled', LossFlushSteps
  PROVE  LossInv'
<1>0. /\ sid \in Sessions /\ daemon[sid] \in {"none", "alive", "dead"}
      /\ \A s \in Sessions : s < sid => s # sid
      /\ spoiled' = spoiled
  BY DEF TypeOK
<1>1. ASSUME pc = "join", daemon[sid] # "alive"
      PROVE  indexer /\ failed[sid] = {} /\ indexed[sid] = accepted[sid] /\ accepted[sid] # {}
  <2>1. indexer /\ OpenInv
    BY <1>1 DEF LossInv
  <2>2. daemon[sid] = "dead" /\ queue[sid] = <<>>
    BY <1>0, <1>1, <2>1 DEF OpenInv
  <2>3. Items(<<>>) = {}
    BY DEF Items
  <2> QED BY <1>1, <2>1, <2>2, <2>3 DEF OpenInv
<1>2. CASE FlushFails
  BY <1>0, <1>1, <1>2 DEF FlushFails
<1>3. CASE FlushSucceeds
  <2>1. /\ indexed[sid] = accepted[sid] /\ pc' = "refresh" /\ indexer' = FALSE
        /\ UNCHANGED <<sid, accepted, dirty, turns>>
    BY <1>1, <1>3 DEF FlushSucceeds
  <2>2. published'[sid] = accepted[sid] /\ \A s \in Sessions : s # sid => published'[s] = published[s]
    BY <1>0, <1>3, <2>1 DEF FlushSucceeds, TypeOK
  <2> QED BY <1>0, <2>1, <2>2 DEF LossInv
<1>4. CASE Refresh
  <2>1. /\ ~indexer /\ accepted[sid] = published[sid]
        /\ UNCHANGED <<sid, turns, indexer, accepted, published>>
    BY <1>4 DEF Refresh, LossInv, store
  <2>2. Return(caller, TRUE) /\ caller \in {"save", "quit", "new", "atexit"}
    BY <1>4 DEF Refresh, TypeOK
  <2>3. /\ pc' \in {"prompt", "atexit", "exited", "new"}
        /\ pc' = "prompt" => caller = "save"
        /\ pc' = "atexit" => dirty' = FALSE
    BY <2>2 DEF Return
  <2>4. pc' = "prompt" => ~(Len(turns') <= 1)
    <3>1. Len(turns) \in Nat /\ Len(turns) # 0
      BY <1>4, EmptySeq DEF Refresh, SaveInv, TypeOK
    <3>2. caller = "save" => Len(turns) % 2 = 0
      BY DEF TurnInv
    <3> QED BY <2>1, <2>3, <3>1, <3>2
  <2> QED BY <1>0, <2>1, <2>3, <2>4 DEF LossInv
<1>5. CASE RefreshFails
  BY <1>0, <1>5 DEF RefreshFails
<1> QED BY <1>2, <1>3, <1>4, <1>5 DEF LossFlushSteps

\* A session ends with all it captured published, and the next has nothing yet.
LEMMA LossBegin ==
  ASSUME TypeOK, TypeOK', PublishedIsOver, FutureInv, LossInv, ~spoiled, StartNew \/ Restart
  PROVE  LossInv'
<1>1. /\ sid' = sid + 1 /\ sid' \in Sessions /\ turns' = <<>>
      /\ UNCHANGED <<accepted, published>> /\ pc' = "prompt"
      /\ accepted[sid'] = {} /\ published[sid'] = {} /\ indexed'[sid'] = {}
      /\ queue'[sid'] = <<>> /\ failed'[sid'] = {}
  BY SessionBegins
<1>2. pc \in {"new", "exited"}
  BY DEF StartNew, Restart
<1>3. accepted[sid] \subseteq published[sid]
  BY <1>2 DEF LossInv
<1>4. \A s \in Sessions : s < sid' => s < sid \/ s = sid
  <2>1. sid \in Nat /\ \A s \in Sessions : s \in Nat
    BY DEF TypeOK
  <2> QED BY <1>1, <2>1
<1>5. \A s \in Sessions : s < sid' => accepted'[s] \subseteq published'[s]
  BY <1>1, <1>3, <1>4 DEF LossInv
<1>6. daemon'[sid'] = "none"
  <2>1. CASE Restart
    BY <1>1, <2>1 DEF Restart
  <2>2. CASE StartNew
    <3>1. daemon' = daemon /\ ~(sid' <= sid)
      BY <1>1, <2>2 DEF StartNew, indexers, TypeOK
    <3> QED BY <1>1, <3>1 DEF PublishedIsOver
  <2> QED BY <2>1, <2>2
<1>7. Items(queue'[sid']) = {} /\ Len(turns') = 0
  BY <1>1 DEF Items
<1>8. OpenInv'
  <2>1. accepted'[sid'] = {}
    BY <1>1
  <2> QED BY <1>1, <1>6, <1>7, <2>1 DEF OpenInv
<1>9. accepted'[sid'] = {} /\ published'[sid'] = {}
  BY <1>1
<1> QED BY <1>1, <1>5, <1>7, <1>8, <1>9 DEF LossInv

\* The daemon of the session moves a window from its queue to what is indexed.
LEMMA LossDaemon ==
  ASSUME TypeOK, TypeOK', LossInv, ~spoiled, ~spoiled', NEW t \in Sessions, DaemonStep(t)
  PROVE  LossInv'
<1>0. /\ sid \in Sessions /\ spoiled' = spoiled
      /\ queue \in [Sessions -> AnyQueue] /\ indexed \in [Sessions -> SUBSET Window]
  BY DEF TypeOK, AnyQueue
<1>1. UNCHANGED <<pc, sid, turns, indexer, dirty, published, accepted>>
  BY DEF DaemonStep, repl
<1>2. indexer => OpenInv'
  <2> SUFFICES ASSUME indexer PROVE OpenInv'
    OBVIOUS
  <2>1. OpenInv
    BY DEF LossInv
  <2>2. failed' = failed
    BY <1>0 DEF DaemonStep
  <2>3. CASE t # sid
    <3>1. queue'[sid] = queue[sid] /\ daemon'[sid] = daemon[sid] /\ indexed'[sid] = indexed[sid]
      BY <1>0, <2>3 DEF DaemonStep, TypeOK
    <3> QED BY <1>1, <2>1, <2>2, <3>1 DEF OpenInv
  <2>4. CASE t = sid
    <3> DEFINE q == queue[sid]
    <3>1. /\ q \in AnyQueue /\ q # <<>> /\ daemon[sid] = "alive" /\ queue'[sid] = Tail(q)
      BY <1>0, <2>4 DEF DaemonStep
    <3>2. \/ Head(q) = Stop /\ daemon'[sid] = "dead" /\ indexed'[sid] = indexed[sid]
          \/ Head(q) # Stop /\ daemon'[sid] = "alive" /\ indexed'[sid] = indexed[sid] \cup {Head(q)}
      BY <1>0, <2>4 DEF DaemonStep, TypeOK
    <3>3. Items(q) = {Head(q)} \cup Items(Tail(q))
      BY <3>1, QueueTaken
    <3>4. StopLast(q) => StopLast(Tail(q)) /\ (Head(q) = Stop => Tail(q) = <<>>)
      BY <3>1, QueueTaken
    <3>5. /\ accepted[sid] = indexed[sid] \cup (Items(q) \ {Stop}) /\ failed[sid] = {}
          /\ pc \notin {"join", "refresh"} => Stop \notin Items(q)
          /\ pc = "join" => accepted[sid] # {} /\ StopLast(q)
      BY <2>1 DEF OpenInv
    <3>6. accepted[sid] = indexed'[sid] \cup (Items(Tail(q)) \ {Stop})
      BY <3>2, <3>3, <3>5
    <3>7. daemon'[sid] # "none"
      BY <3>2
    <3>8. pc \notin {"join", "refresh"} => daemon'[sid] # "dead" /\ Stop \notin Items(Tail(q))
      BY <3>2, <3>3, <3>5
    <3>9. pc = "join" => StopLast(Tail(q)) /\ (daemon'[sid] = "dead" => Tail(q) = <<>>)
      BY <3>2, <3>4, <3>5
    <3> HIDE DEF q
    <3> QED BY <1>1, <2>1, <2>2, <3>1, <3>5, <3>6, <3>7, <3>8, <3>9 DEF OpenInv
  <2> QED BY <2>3, <2>4
<1> QED BY <1>0, <1>1, <1>2 DEF LossInv

\* Without a fault nothing that was captured is let go unpublished.
LEMMA LossStep ==
  ASSUME TypeOK, TypeOK', PublishedIsOver, FutureInv, TurnInv, SaveInv, LossInv, [Next]_vars
  PROVE  LossInv'
<1>1. CASE spoiled'
  BY <1>1 DEF LossInv
<1>2. CASE ~spoiled'
  <2>1. ~spoiled
    BY <1>2, LossWithoutFault
  <2>2. CASE RecallTopical \/ RecallKV \/ PlainBegin \/ PlainEnd
    BY <2>1, <2>2, LossCapture
  <2>3. CASE Input \/ RecallElsewhere \/ RecallMiss \/ KvQuery \/ SetMode
    BY <2>1, <2>3, LossElsewhere
  <2>4. CASE Emit \/ NewCommand
    BY <2>1, <2>4, LossEmit
  <2>5. CASE LossFlushSteps
    BY <1>2, <2>1, <2>5, LossFlush
  <2>6. CASE StartNew \/ Restart
    BY <2>1, <2>6, LossBegin
  <2>7. CASE \E t \in Sessions : DaemonStep(t)
    BY <1>2, <2>1, <2>7, LossDaemon
  <2>8. CASE Raise \/ Crash
    BY <1>2, <2>8 DEF Raise, Crash
  <2>9. CASE UNCHANGED vars
    BY <2>9 DEF vars, repl, indexers, store, LossInv, OpenInv
  <2> QED BY <2>2, <2>3, <2>4, <2>5, <2>6, <2>7, <2>8, <2>9
          DEF Next, TurnStep, SaveStep, LossFlushSteps
<1> QED BY <1>1, <1>2

\* The initial state satisfies the invariant.
LEMMA InitInv == Init => IInv
<1> SUFFICES ASSUME Init PROVE IInv
  OBVIOUS
<1> USE DEF Init
<1>1. TypeOK
  <2>1. turns \in Seq({"user", "assistant"}) /\ messages \in Seq({"user", "assistant"})
    BY EmptySeq
  <2>2. queue \in [Sessions -> Seq(Window \cup {Stop})]
    BY EmptySeq
  <2>3. /\ indexed \in [Sessions -> SUBSET Window] /\ failed \in [Sessions -> SUBSET Window]
        /\ published \in [Sessions -> SUBSET Window] /\ accepted \in [Sessions -> SUBSET Window]
    OBVIOUS
  <2>4. dirty \in BOOLEAN /\ spoiled \in BOOLEAN /\ indexer \in BOOLEAN
    BY Zenon
  <2>5. sid \in Sessions /\ counter \in Nat /\ handles \subseteq Sessions
    OBVIOUS
  <2>6. /\ daemon \in [Sessions -> {"none", "alive", "dead"}]
        /\ manifest \in [Sessions -> {"absent", "in_flight", "final"}]
    OBVIOUS
  <2> QED BY <2>1, <2>2, <2>3, <2>4, <2>5, <2>6 DEF TypeOK
<1>2. PublishedIsOver /\ HandlesAreReadable
  BY DEF PublishedIsOver, HandlesAreReadable
<1>3. IdInv /\ FutureInv
  BY DEF IdInv, WindowIdsAreUnique, FutureInv
<1>4. TurnInv /\ SaveInv
  BY DEF TurnInv, SaveInv, Alternate
<1>5. OpenInv /\ LossInv
  BY DEF OpenInv, LossInv, Items
<1> QED BY <1>1, <1>2, <1>3, <1>4, <1>5 DEF IInv

\* The invariant holds in every reachable state.
THEOREM ChatInvariance == Spec => []IInv
<1>1. IInv /\ [Next]_vars => IInv'
  <2> SUFFICES ASSUME IInv, [Next]_vars PROVE IInv'
    OBVIOUS
  <2>1. /\ TypeOK /\ PublishedIsOver /\ HandlesAreReadable
        /\ IdInv /\ FutureInv /\ TurnInv /\ SaveInv /\ LossInv
    BY DEF IInv
  <2>2. TypeOK'
    BY <2>1, TypeStep
  <2>3. PublishedIsOver' /\ HandlesAreReadable'
    BY OverStep
  <2>4. IdInv'
    BY <2>1, <2>2, IdStep
  <2>5. FutureInv'
    BY <2>1, FutureStep
  <2>6. TurnInv'
    BY <2>1, <2>2, TurnStepInv
  <2>7. SaveInv'
    BY <2>1, SavedHasTurns
  <2>8. LossInv'
    BY <2>1, <2>2, LossStep
  <2> QED BY <2>2, <2>3, <2>4, <2>5, <2>6, <2>7, <2>8 DEF IInv
<1> QED BY <1>1, InitInv, PTL DEF Spec

\* Every variable of the chat keeps its type.
THEOREM ChatTypeCorrect == Spec => []TypeOK
<1>1. IInv => TypeOK
  BY DEF IInv
<1> QED BY <1>1, ChatInvariance, PTL

\* The retriever offers published stores only, while abandoned and live
\* indexers go on writing.
THEOREM ChatHandlesAreReadable == Spec => []HandlesAreReadable
<1>1. IInv => HandlesAreReadable
  BY DEF IInv
<1> QED BY <1>1, ChatInvariance, PTL

\* A published store never changes: only the daemon of a live indexer and the
\* flush of the current session write, and neither is of a published session.
THEOREM ChatPublicationsAreFinal == Spec => PublicationsAreFinal
<1> DEFINE Kept == \A s \in Sessions :
      manifest[s] = "final" => manifest'[s] = "final" /\ published'[s] = published[s]
<1>1. IInv /\ [Next]_vars => Kept
  <2> SUFFICES ASSUME IInv, [Next]_vars PROVE Kept
    OBVIOUS
  <2>1. CASE FlushSucceeds
    BY <2>1 DEF FlushSucceeds, IInv, TypeOK, PublishedIsOver
  <2>2. CASE \E s \in Sessions : DaemonStep(s)
    BY <2>2 DEF DaemonStep, IInv, TypeOK, PublishedIsOver
  <2>3. CASE UNCHANGED store
    BY <2>3 DEF store
  <2>4. FlushSucceeds \/ (\E s \in Sessions : DaemonStep(s)) \/ UNCHANGED store
    BY DEF Next, TurnStep, SaveStep, vars, store, Input, RecallTopical, RecallElsewhere,
           RecallKV, RecallMiss, PlainBegin, PlainEnd, KvQuery, SetMode, Emit, NewCommand,
           StartNew, FlushFails, Refresh, RefreshFails, Raise, Crash, Restart
  <2> QED BY <2>1, <2>2, <2>3, <2>4
<1>2. IInv /\ [Next]_vars => [Kept]_vars
  BY <1>1
<1> QED BY <1>2, ChatInvariance, PTL DEF Spec, PublicationsAreFinal

\* Window ids are unique over the turns of a session: every path that captures
\* takes them from the one counter that starts at 0 with the session.
THEOREM ChatWindowIdsAreUnique == Spec => []WindowIdsAreUnique
<1>1. IInv => WindowIdsAreUnique
  BY DEF IInv, IdInv
<1> QED BY <1>1, ChatInvariance, PTL

\* At the prompt the transcript and the chat history tell the same exchanges,
\* whichever method answered or passed the input on.
THEOREM ChatTranscriptMatches == Spec => []TranscriptMatchesHistory
<1>1. IInv => TranscriptMatchesHistory
  BY DEF IInv, TurnInv, TranscriptMatchesHistory
<1> QED BY <1>1, ChatInvariance, PTL

\* Without a fault a save publishes all that was captured, and the way out of
\* the program leaves nothing any of its sessions captured out of its store.
THEOREM ChatNothingIsLost == Spec => []NothingCapturedIsLost
<1>1. IInv => NothingCapturedIsLost
  <2> SUFFICES ASSUME IInv, ~spoiled
               PROVE  /\ pc = "refresh" => accepted[sid] = published[sid]
                      /\ pc = "exited" => \A s \in Sessions : accepted[s] \subseteq published[s]
    BY DEF NothingCapturedIsLost
  <2>1. pc = "refresh" => accepted[sid] = published[sid]
    BY DEF IInv, LossInv
  <2>2. ASSUME pc = "exited", NEW s \in Sessions PROVE accepted[s] \subseteq published[s]
    <3>1. s < sid \/ s = sid \/ s > sid
      BY DEF IInv, TypeOK
    <3> QED BY <2>2, <3>1 DEF IInv, LossInv, FutureInv
  <2> QED BY <2>1, <2>2
<1> QED BY <1>1, ChatInvariance, PTL
=============================================================================
