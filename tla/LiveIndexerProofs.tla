------------------------- MODULE LiveIndexerProofs -------------------------
(***************************************************************************)
(* Proofs about LiveIndexer, for every value of its constants.             *)
(*                                                                         *)
(* IInv is inductive; its conjuncts are preserved one lemma each, every    *)
(* lemma by cases on the actions of Next.  The theorems at the end follow. *)
(***************************************************************************)
EXTENDS LiveIndexer, FiniteSetTheorems, TLAPS

\* Every step keeps every variable in range.
LEMMA TypeStep ==
  ASSUME TypeOK, HandInv, MergeInv, [Next]_vars
  PROVE  TypeOK'
<1> USE ConstantsAssumption DEF TypeOK, HandInv, ShardKind, client, daemon,
        queues, merge, disk, history, limits
<1>1. ASSUME NEW w \in Windows, Enqueue(w) PROVE TypeOK'
  BY <1>1 DEF Enqueue
<1>2. CASE PauseOrResume
  BY <1>2 DEF PauseOrResume
<1>3. CASE StopCall
  BY <1>3 DEF StopCall
<1>4. CASE StopPut
  BY <1>4 DEF StopPut
<1>5. CASE StopJoined
  BY <1>5 DEF StopJoined
<1>6. CASE FlushCall
  BY <1>6 DEF FlushCall
<1>7. CASE FlushJoined
  BY <1>7 DEF FlushJoined
<1>8. CASE JoinTimeout
  BY <1>8 DEF JoinTimeout
<1>9. CASE CompactRead
  BY <1>9 DEF CompactRead
<1>10. CASE CompactWrite
  <2>1. CanonicalOrder[step] \in CanonicalFile /\ step \in 1..5
    BY <1>10 DEF CompactWrite, MergeInv, CanonicalOrder, CanonicalFile
  <2>2. ContentOf(CanonicalOrder[step]) \in SUBSET Windows
    BY <2>1 DEF ContentOf
  <2>3. canon' \in [CanonicalFile -> (SUBSET Windows) \cup {Absent}]
    BY <1>10, <2>1, <2>2 DEF CompactWrite
  <2> QED
    BY <1>10, <2>1, <2>3 DEF CompactWrite
<1>11. CASE CompactUnlink
  BY <1>11 DEF CompactUnlink
<1>12. CASE CompactUnlinked
  BY <1>12 DEF CompactUnlinked
<1>13. CASE CompactManifest
  BY <1>13 DEF CompactManifest
<1>14. CASE CompactFail
  BY <1>14 DEF CompactFail
<1>15. CASE WorkerGate
  BY <1>15 DEF WorkerGate
<1>16. CASE WorkerEmpty
  BY <1>16 DEF WorkerEmpty
<1>17. CASE WorkerGet
  BY <1>17 DEF WorkerGet
<1>18. CASE WorkerCapture
  BY <1>18 DEF WorkerCapture
<1>19. CASE WorkerAppend
  BY <1>19 DEF WorkerAppend, NextPhase
<1>20. CASE WorkerFlush
  BY <1>20 DEF WorkerFlush
<1>21. CASE WorkerFail
  BY <1>21 DEF WorkerFail
<1>22. CASE Crash
  <2>1. QueuedWindows \subseteq Windows /\ InHand \subseteq Windows
    BY DEF QueuedWindows, WindowsOf, InHand
  <2>2. lost' \subseteq Windows
    BY <1>22, <2>1 DEF Crash
  <2>3. capture_q' \in Seq(Windows \cup {Stop})
    BY <1>22 DEF Crash
  <2>4. snap' \in [ShardKind -> SUBSET Windows]
    BY <1>22 DEF Crash
  <2>5. skipped' \subseteq ShardKind \X Windows /\ step' \in 1..6
    BY <1>22 DEF Crash
  <2>6. UNCHANGED <<boundaries, shards, canon, manifest, accepted, indexed, reported,
                    dropped, faults, closes, compactions>>
    BY <1>22 DEF Crash
  <2>7. pc' = "down" /\ worker' = "none" /\ cur' = NoWindow /\ failed_q' = {}
        /\ running' = TRUE /\ stop_requested' = FALSE /\ closed' = FALSE
        /\ crashes' \in Nat
    BY <1>22 DEF Crash
  <2> QED
    BY <2>2, <2>3, <2>4, <2>5, <2>6, <2>7
<1>23. CASE Reopen
  BY <1>23 DEF Reopen
<1>24. CASE UNCHANGED vars
  BY <1>24 DEF vars
<1> QED
  BY <1>1, <1>2, <1>3, <1>4, <1>5, <1>6, <1>7, <1>8, <1>9, <1>10, <1>11, <1>12,
     <1>13, <1>14, <1>15, <1>16, <1>17, <1>18, <1>19, <1>20, <1>21, <1>22,
     <1>23, <1>24
  DEF Next, StopSteps, CompactSteps, WorkerSteps

\* The daemon holds a window exactly while it works on one.
LEMMA HandStep ==
  ASSUME TypeOK, HandInv, [Next]_vars
  PROVE  HandInv'
<1> USE ConstantsAssumption DEF TypeOK, HandInv, ShardKind, client, daemon,
        queues, merge, disk, history, limits
<1>1. ASSUME NEW w \in Windows, Enqueue(w) PROVE HandInv'
  BY <1>1 DEF Enqueue
<1>2. CASE PauseOrResume
  BY <1>2 DEF PauseOrResume
<1>3. CASE StopCall
  BY <1>3 DEF StopCall
<1>4. CASE StopPut
  BY <1>4 DEF StopPut
<1>5. CASE StopJoined
  BY <1>5 DEF StopJoined
<1>6. CASE FlushCall
  BY <1>6 DEF FlushCall
<1>7. CASE FlushJoined
  BY <1>7 DEF FlushJoined
<1>8. CASE JoinTimeout
  BY <1>8 DEF JoinTimeout
<1>9. CASE CompactRead
  BY <1>9 DEF CompactRead
<1>10. CASE CompactWrite
  BY <1>10 DEF CompactWrite
<1>11. CASE CompactUnlink
  BY <1>11 DEF CompactUnlink
<1>12. CASE CompactUnlinked
  BY <1>12 DEF CompactUnlinked
<1>13. CASE CompactManifest
  BY <1>13 DEF CompactManifest
<1>14. CASE CompactFail
  BY <1>14 DEF CompactFail
<1>15. CASE WorkerGate
  BY <1>15 DEF WorkerGate
<1>16. CASE WorkerEmpty
  BY <1>16 DEF WorkerEmpty
<1>17. CASE WorkerGet
  BY <1>17 DEF WorkerGet
<1>18. CASE WorkerCapture
  BY <1>18 DEF WorkerCapture
<1>19. CASE WorkerAppend
  BY <1>19 DEF WorkerAppend, NextPhase
<1>20. CASE WorkerFlush
  BY <1>20 DEF WorkerFlush
<1>21. CASE WorkerFail
  BY <1>21 DEF WorkerFail
<1>22. CASE Crash
  BY <1>22 DEF Crash
<1>23. CASE Reopen
  BY <1>23 DEF Reopen
<1>24. CASE UNCHANGED vars
  BY <1>24 DEF vars
<1> QED
  BY <1>1, <1>2, <1>3, <1>4, <1>5, <1>6, <1>7, <1>8, <1>9, <1>10, <1>11, <1>12,
     <1>13, <1>14, <1>15, <1>16, <1>17, <1>18, <1>19, <1>20, <1>21, <1>22,
     <1>23, <1>24
  DEF Next, StopSteps, CompactSteps, WorkerSteps

\* Nothing is merged, closed or published beside a running daemon.
LEMMA CloseStep ==
  ASSUME TypeOK, CloseInv, [Next]_vars
  PROVE  CloseInv'
<1> USE ConstantsAssumption DEF TypeOK, CloseInv, Compacting, WorkerAlive,
        ShardKind, client, daemon, queues, merge, disk, history, limits
<1>1. ASSUME NEW w \in Windows, Enqueue(w) PROVE CloseInv'
  BY <1>1 DEF Enqueue
<1>2. CASE PauseOrResume
  BY <1>2 DEF PauseOrResume
<1>3. CASE StopCall
  BY <1>3 DEF StopCall
<1>4. CASE StopPut
  BY <1>4 DEF StopPut
<1>5. CASE StopJoined
  BY <1>5 DEF StopJoined
<1>6. CASE FlushCall
  BY <1>6 DEF FlushCall
<1>7. CASE FlushJoined
  BY <1>7 DEF FlushJoined
<1>8. CASE JoinTimeout
  BY <1>8 DEF JoinTimeout
<1>9. CASE CompactRead
  BY <1>9 DEF CompactRead
<1>10. CASE CompactWrite
  BY <1>10 DEF CompactWrite
<1>11. CASE CompactUnlink
  BY <1>11 DEF CompactUnlink
<1>12. CASE CompactUnlinked
  BY <1>12 DEF CompactUnlinked
<1>13. CASE CompactManifest
  BY <1>13 DEF CompactManifest
<1>14. CASE CompactFail
  BY <1>14 DEF CompactFail
<1>15. CASE WorkerGate
  BY <1>15 DEF WorkerGate
<1>16. CASE WorkerEmpty
  BY <1>16 DEF WorkerEmpty
<1>17. CASE WorkerGet
  BY <1>17 DEF WorkerGet
<1>18. CASE WorkerCapture
  BY <1>18 DEF WorkerCapture
<1>19. CASE WorkerAppend
  BY <1>19 DEF WorkerAppend, NextPhase
<1>20. CASE WorkerFlush
  BY <1>20 DEF WorkerFlush
<1>21. CASE WorkerFail
  BY <1>21 DEF WorkerFail
<1>22. CASE Crash
  BY <1>22 DEF Crash
<1>23. CASE Reopen
  BY <1>23 DEF Reopen
<1>24. CASE UNCHANGED vars
  BY <1>24 DEF vars
<1> QED
  BY <1>1, <1>2, <1>3, <1>4, <1>5, <1>6, <1>7, <1>8, <1>9, <1>10, <1>11, <1>12,
     <1>13, <1>14, <1>15, <1>16, <1>17, <1>18, <1>19, <1>20, <1>21, <1>22,
     <1>23, <1>24
  DEF Next, StopSteps, CompactSteps, WorkerSteps

\* A shard line exists only for a captured window.
LEMMA CaptureStep ==
  ASSUME TypeOK, HandInv, CaptureInv, [Next]_vars
  PROVE  CaptureInv'
<1> USE ConstantsAssumption DEF TypeOK, HandInv, CaptureInv, ShardKind, client,
        daemon, queues, merge, disk, history, limits
<1>1. ASSUME NEW w \in Windows, Enqueue(w) PROVE CaptureInv'
  BY <1>1 DEF Enqueue
<1>2. CASE PauseOrResume
  BY <1>2 DEF PauseOrResume
<1>3. CASE StopCall
  BY <1>3 DEF StopCall
<1>4. CASE StopPut
  BY <1>4 DEF StopPut
<1>5. CASE StopJoined
  BY <1>5 DEF StopJoined
<1>6. CASE FlushCall
  BY <1>6 DEF FlushCall
<1>7. CASE FlushJoined
  BY <1>7 DEF FlushJoined
<1>8. CASE JoinTimeout
  BY <1>8 DEF JoinTimeout
<1>9. CASE CompactRead
  BY <1>9 DEF CompactRead
<1>10. CASE CompactWrite
  BY <1>10 DEF CompactWrite
<1>11. CASE CompactUnlink
  BY <1>11 DEF CompactUnlink
<1>12. CASE CompactUnlinked
  BY <1>12 DEF CompactUnlinked
<1>13. CASE CompactManifest
  BY <1>13 DEF CompactManifest
<1>14. CASE CompactFail
  BY <1>14 DEF CompactFail
<1>15. CASE WorkerGate
  BY <1>15 DEF WorkerGate
<1>16. CASE WorkerEmpty
  BY <1>16 DEF WorkerEmpty
<1>17. CASE WorkerGet
  BY <1>17 DEF WorkerGet
<1>18. CASE WorkerCapture
  BY <1>18 DEF WorkerCapture
<1>19. CASE WorkerAppend
  BY <1>19 DEF WorkerAppend, NextPhase
<1>20. CASE WorkerFlush
  BY <1>20 DEF WorkerFlush
<1>21. CASE WorkerFail
  BY <1>21 DEF WorkerFail
<1>22. CASE Crash
  BY <1>22 DEF Crash
<1>23. CASE Reopen
  BY <1>23 DEF Reopen
<1>24. CASE UNCHANGED vars
  BY <1>24 DEF vars
<1> QED
  BY <1>1, <1>2, <1>3, <1>4, <1>5, <1>6, <1>7, <1>8, <1>9, <1>10, <1>11, <1>12,
     <1>13, <1>14, <1>15, <1>16, <1>17, <1>18, <1>19, <1>20, <1>21, <1>22,
     <1>23, <1>24
  DEF Next, StopSteps, CompactSteps, WorkerSteps

\* The five canonical files, by their place in the order of writing.
LEMMA OrderFacts ==
  /\ CanonicalOrder[1] = "window_token_lists" /\ CanonicalOrder[2] = "window_tokens"
  /\ CanonicalOrder[3] = "keywords" /\ CanonicalOrder[4] = "window_metadata"
  /\ CanonicalOrder[5] = "idf" /\ Len(CanonicalOrder) = 5
  /\ \A i \in 1..5 : CanonicalOrder[i] \in CanonicalFile
BY DEF CanonicalOrder, CanonicalFile

\* A compaction merges all that is on disk and writes what it merged.
LEMMA MergeStep ==
  ASSUME TypeOK, HandInv, CloseInv, CaptureInv, MergeInv, [Next]_vars
  PROVE  MergeInv'
<1> USE ConstantsAssumption DEF TypeOK, HandInv, CloseInv, CaptureInv, MergeInv,
        ShardKind, Compacting, WorkerAlive, ContentOf, client, daemon, queues,
        merge, disk, history, limits
<1>1. ASSUME NEW w \in Windows, Enqueue(w) PROVE MergeInv'
  BY <1>1 DEF Enqueue
<1>2. CASE PauseOrResume
  BY <1>2 DEF PauseOrResume
<1>3. CASE StopCall
  BY <1>3 DEF StopCall
<1>4. CASE StopPut
  BY <1>4 DEF StopPut
<1>5. CASE StopJoined
  BY <1>5 DEF StopJoined
<1>6. CASE FlushCall
  BY <1>6 DEF FlushCall
<1>7. CASE FlushJoined
  BY <1>7 DEF FlushJoined
<1>8. CASE JoinTimeout
  BY <1>8 DEF JoinTimeout
<1>9. CASE CompactRead
  BY <1>9 DEF CompactRead
<1>10. CASE CompactWrite
  <2>1. \A i \in 1..5 : CanonicalOrder[i] \in CanonicalFile
    BY OrderFacts
  <2>2. \A i \in 1..5 : i < step \/ i = step =>
          canon'[CanonicalOrder[i]] = ContentOf(CanonicalOrder[i])
    BY <1>10, <2>1 DEF CompactWrite
  <2> QED
    BY <1>10, <2>2, OrderFacts DEF CompactWrite
<1>11. CASE CompactUnlink
  BY <1>11 DEF CompactUnlink
<1>12. CASE CompactUnlinked
  BY <1>12 DEF CompactUnlinked
<1>13. CASE CompactManifest
  BY <1>13 DEF CompactManifest
<1>14. CASE CompactFail
  BY <1>14 DEF CompactFail
<1>15. CASE WorkerGate
  BY <1>15 DEF WorkerGate
<1>16. CASE WorkerEmpty
  BY <1>16 DEF WorkerEmpty
<1>17. CASE WorkerGet
  BY <1>17 DEF WorkerGet
<1>18. CASE WorkerCapture
  BY <1>18 DEF WorkerCapture
<1>19. CASE WorkerAppend
  BY <1>19 DEF WorkerAppend, NextPhase
<1>20. CASE WorkerFlush
  BY <1>20 DEF WorkerFlush
<1>21. CASE WorkerFail
  BY <1>21 DEF WorkerFail
<1>22. CASE Crash
  BY <1>22 DEF Crash
<1>23. CASE Reopen
  BY <1>23 DEF Reopen
<1>24. CASE UNCHANGED vars
  BY <1>24 DEF vars
<1> QED
  BY <1>1, <1>2, <1>3, <1>4, <1>5, <1>6, <1>7, <1>8, <1>9, <1>10, <1>11, <1>12,
     <1>13, <1>14, <1>15, <1>16, <1>17, <1>18, <1>19, <1>20, <1>21, <1>22,
     <1>23, <1>24
  DEF Next, StopSteps, CompactSteps, WorkerSteps

\* A published store loads.
LEMMA LoadableStep ==
  ASSUME TypeOK, HandInv, CloseInv, CaptureInv, MergeInv, PublishedStoreIsLoadable, [Next]_vars
  PROVE  PublishedStoreIsLoadable'
<1> USE ConstantsAssumption DEF TypeOK, HandInv, CloseInv,
        PublishedStoreIsLoadable, ShardKind, Compacting, WorkerAlive, client,
        daemon, queues, merge, disk, history, limits
<1>1. ASSUME NEW w \in Windows, Enqueue(w) PROVE PublishedStoreIsLoadable'
  BY <1>1 DEF Enqueue
<1>2. CASE PauseOrResume
  BY <1>2 DEF PauseOrResume
<1>3. CASE StopCall
  BY <1>3 DEF StopCall
<1>4. CASE StopPut
  BY <1>4 DEF StopPut
<1>5. CASE StopJoined
  BY <1>5 DEF StopJoined
<1>6. CASE FlushCall
  BY <1>6 DEF FlushCall
<1>7. CASE FlushJoined
  BY <1>7 DEF FlushJoined
<1>8. CASE JoinTimeout
  BY <1>8 DEF JoinTimeout
<1>9. CASE CompactRead
  BY <1>9 DEF CompactRead
<1>10. CASE CompactWrite
  BY <1>10 DEF CompactWrite
<1>11. CASE CompactUnlink
  BY <1>11 DEF CompactUnlink
<1>12. CASE CompactUnlinked
  BY <1>12 DEF CompactUnlinked
<1>13. CASE CompactManifest
  <2>1. \A i \in 1..5 : canon[CanonicalOrder[i]] = ContentOf(CanonicalOrder[i])
    BY <1>13 DEF CompactManifest, MergeInv
  <2>2. \A f \in CanonicalFile : canon[f] = ContentOf(f)
    BY <2>1, OrderFacts DEF CanonicalFile
  <2>3. \A f \in CanonicalFile : ContentOf(f) \subseteq Windows
    BY <1>13 DEF CompactManifest, MergeInv, ContentOf
  <2>4. \A f \in CanonicalFile : canon[f] # Absent
    BY <2>2, <2>3 DEF Absent
  <2> QED
    BY <1>13, <2>2, <2>4 DEF CompactManifest, MergeInv, ContentOf, CanonicalFile
<1>14. CASE CompactFail
  BY <1>14 DEF CompactFail
<1>15. CASE WorkerGate
  BY <1>15 DEF WorkerGate
<1>16. CASE WorkerEmpty
  BY <1>16 DEF WorkerEmpty
<1>17. CASE WorkerGet
  BY <1>17 DEF WorkerGet
<1>18. CASE WorkerCapture
  BY <1>18 DEF WorkerCapture
<1>19. CASE WorkerAppend
  BY <1>19 DEF WorkerAppend
<1>20. CASE WorkerFlush
  BY <1>20 DEF WorkerFlush
<1>21. CASE WorkerFail
  BY <1>21 DEF WorkerFail
<1>22. CASE Crash
  BY <1>22 DEF Crash
<1>23. CASE Reopen
  BY <1>23 DEF Reopen
<1>24. CASE UNCHANGED vars
  BY <1>24 DEF vars
<1> QED
  BY <1>1, <1>2, <1>3, <1>4, <1>5, <1>6, <1>7, <1>8, <1>9, <1>10, <1>11, <1>12,
     <1>13, <1>14, <1>15, <1>16, <1>17, <1>18, <1>19, <1>20, <1>21, <1>22,
     <1>23, <1>24
  DEF Next, StopSteps, CompactSteps, WorkerSteps

\* The windows of a queue to which an item is appended.
LEMMA WindowsOfAppend ==
  ASSUME NEW q \in Seq(Windows \cup {Stop}), NEW x \in Windows \cup {Stop}
  PROVE  WindowsOf(Append(q, x)) = WindowsOf(q) \cup ({x} \cap Windows)
<1>1. /\ Len(Append(q, x)) = Len(q) + 1 /\ Append(q, x)[Len(q) + 1] = x
      /\ \A i \in 1..Len(q) : Append(q, x)[i] = q[i]
  OBVIOUS
<1>2. \A i \in 1..(Len(q) + 1) : i = Len(q) + 1 \/ i \in 1..Len(q)
  OBVIOUS
<1> QED
  BY <1>1, <1>2 DEF WindowsOf

\* The windows of a queue are its head and those of its tail.
LEMMA WindowsOfTail ==
  ASSUME NEW q \in Seq(Windows \cup {Stop}), q # <<>>
  PROVE  WindowsOf(q) = WindowsOf(Tail(q)) \cup ({Head(q)} \cap Windows)
<1>1. /\ Len(q) \in Nat /\ Len(q) > 0 /\ Len(Tail(q)) = Len(q) - 1 /\ Head(q) = q[1]
      /\ \A i \in 1..(Len(q) - 1) : Tail(q)[i] = q[i + 1]
  OBVIOUS
<1>2. \A i \in 1..Len(q) : i = 1 \/ (i - 1 \in 1..(Len(q) - 1) /\ q[i] = Tail(q)[i - 1])
  BY <1>1
<1>3. \A i \in 1..(Len(q) - 1) : i + 1 \in 1..Len(q)
  BY <1>1
<1> QED
  BY <1>1, <1>2, <1>3 DEF WindowsOf

\* No step loses track of a window.
LEMMA AccountStep ==
  ASSUME TypeOK, HandInv, EveryWindowIsAccountedFor, [Next]_vars
  PROVE  EveryWindowIsAccountedFor'
<1> USE ConstantsAssumption DEF TypeOK, HandInv, EveryWindowIsAccountedFor,
        QueuedWindows, InHand, ShardKind, client, daemon, queues, merge, disk,
        history, limits
<1>1. ASSUME NEW w \in Windows, Enqueue(w) PROVE EveryWindowIsAccountedFor'
  <2>1. WindowsOf(capture_q') = WindowsOf(capture_q) \cup {w}
    BY <1>1, WindowsOfAppend DEF Enqueue
  <2> QED
    BY <1>1, <2>1 DEF Enqueue
<1>2. CASE PauseOrResume
  BY <1>2 DEF PauseOrResume
<1>3. CASE StopCall
  BY <1>3 DEF StopCall
<1>4. CASE StopPut
  <2>1. WindowsOf(Append(capture_q, Stop)) = WindowsOf(capture_q) \cup ({Stop} \cap Windows)
    BY WindowsOfAppend
  <2> QED
    BY <1>4, <2>1 DEF StopPut
<1>5. CASE StopJoined
  BY <1>5 DEF StopJoined
<1>6. CASE FlushCall
  <2>1. WindowsOf(Append(capture_q, Stop)) = WindowsOf(capture_q) \cup ({Stop} \cap Windows)
    BY WindowsOfAppend
  <2> QED
    BY <1>6, <2>1 DEF FlushCall
<1>7. CASE FlushJoined
  BY <1>7 DEF FlushJoined
<1>8. CASE JoinTimeout
  BY <1>8 DEF JoinTimeout
<1>9. CASE CompactRead
  BY <1>9 DEF CompactRead
<1>10. CASE CompactWrite
  BY <1>10 DEF CompactWrite
<1>11. CASE CompactUnlink
  BY <1>11 DEF CompactUnlink
<1>12. CASE CompactUnlinked
  BY <1>12 DEF CompactUnlinked
<1>13. CASE CompactManifest
  BY <1>13 DEF CompactManifest
<1>14. CASE CompactFail
  BY <1>14 DEF CompactFail
<1>15. CASE WorkerGate
  BY <1>15 DEF WorkerGate
<1>16. CASE WorkerEmpty
  BY <1>16 DEF WorkerEmpty
<1>17. CASE WorkerGet
  <2>1. WindowsOf(capture_q) = WindowsOf(Tail(capture_q)) \cup ({Head(capture_q)} \cap Windows)
    BY <1>17, WindowsOfTail DEF WorkerGet
  <2>2. Head(capture_q) \in Windows \cup {Stop}
    BY <1>17 DEF WorkerGet
  <2> QED
    BY <1>17, <2>1, <2>2 DEF WorkerGet
<1>18. CASE WorkerCapture
  BY <1>18 DEF WorkerCapture
<1>19. CASE WorkerAppend
  BY <1>19 DEF WorkerAppend, NextPhase
<1>20. CASE WorkerFlush
  BY <1>20 DEF WorkerFlush
<1>21. CASE WorkerFail
  BY <1>21 DEF WorkerFail
<1>22. CASE Crash
  <2>1. WindowsOf(<<>>) = {}
    BY DEF WindowsOf
  <2> QED
    BY <1>22, <2>1 DEF Crash
<1>23. CASE Reopen
  BY <1>23 DEF Reopen
<1>24. CASE UNCHANGED vars
  BY <1>24 DEF vars
<1> QED
  BY <1>1, <1>2, <1>3, <1>4, <1>5, <1>6, <1>7, <1>8, <1>9, <1>10, <1>11, <1>12,
     <1>13, <1>14, <1>15, <1>16, <1>17, <1>18, <1>19, <1>20, <1>21, <1>22,
     <1>23, <1>24
  DEF Next, StopSteps, CompactSteps, WorkerSteps

\* Only accepted windows are captured.
LEMMA OfferStep ==
  ASSUME TypeOK, HandInv, OfferInv, EveryWindowIsAccountedFor, [Next]_vars
  PROVE  OfferInv'
<1> USE ConstantsAssumption DEF TypeOK, HandInv, OfferInv, ShardKind, client,
        daemon, queues, merge, disk, history, limits
<1>1. ASSUME NEW w \in Windows, Enqueue(w) PROVE OfferInv'
  BY <1>1 DEF Enqueue
<1>2. CASE PauseOrResume
  BY <1>2 DEF PauseOrResume
<1>3. CASE StopCall
  BY <1>3 DEF StopCall
<1>4. CASE StopPut
  BY <1>4 DEF StopPut
<1>5. CASE StopJoined
  BY <1>5 DEF StopJoined
<1>6. CASE FlushCall
  BY <1>6 DEF FlushCall
<1>7. CASE FlushJoined
  BY <1>7 DEF FlushJoined
<1>8. CASE JoinTimeout
  BY <1>8 DEF JoinTimeout
<1>9. CASE CompactRead
  BY <1>9 DEF CompactRead
<1>10. CASE CompactWrite
  BY <1>10 DEF CompactWrite
<1>11. CASE CompactUnlink
  BY <1>11 DEF CompactUnlink
<1>12. CASE CompactUnlinked
  BY <1>12 DEF CompactUnlinked
<1>13. CASE CompactManifest
  BY <1>13 DEF CompactManifest
<1>14. CASE CompactFail
  BY <1>14 DEF CompactFail
<1>15. CASE WorkerGate
  BY <1>15 DEF WorkerGate
<1>16. CASE WorkerEmpty
  BY <1>16 DEF WorkerEmpty
<1>17. CASE WorkerGet
  BY <1>17 DEF WorkerGet
<1>18. CASE WorkerCapture
  BY <1>18 DEF WorkerCapture, EveryWindowIsAccountedFor, InHand
<1>19. CASE WorkerAppend
  BY <1>19 DEF WorkerAppend
<1>20. CASE WorkerFlush
  BY <1>20 DEF WorkerFlush
<1>21. CASE WorkerFail
  BY <1>21 DEF WorkerFail, EveryWindowIsAccountedFor, InHand
<1>22. CASE Crash
  BY <1>22 DEF Crash
<1>23. CASE Reopen
  BY <1>23 DEF Reopen
<1>24. CASE UNCHANGED vars
  BY <1>24 DEF vars
<1> QED
  BY <1>1, <1>2, <1>3, <1>4, <1>5, <1>6, <1>7, <1>8, <1>9, <1>10, <1>11, <1>12,
     <1>13, <1>14, <1>15, <1>16, <1>17, <1>18, <1>19, <1>20, <1>21, <1>22,
     <1>23, <1>24
  DEF Next, StopSteps, CompactSteps, WorkerSteps

\* The canonical files a compaction is done with hold what it merged.
LEMMA MergedFacts ==
  ASSUME TypeOK, MergeInv, pc \in {"unlink", "manifest"}
  PROVE  \A f \in CanonicalFile : canon[f] = ContentOf(f) /\ Merged(f) = ContentOf(f)
<1> USE ConstantsAssumption
<1>1. \A i \in 1..5 : canon[CanonicalOrder[i]] = ContentOf(CanonicalOrder[i])
  BY DEF MergeInv
<1>2. \A f \in CanonicalFile : canon[f] = ContentOf(f)
  BY <1>1, OrderFacts DEF CanonicalFile
<1>3. \A f \in CanonicalFile : ContentOf(f) \subseteq Windows
  BY DEF TypeOK, ShardKind, ContentOf
<1>4. \A f \in CanonicalFile : canon[f] # Absent
  BY <1>2, <1>3 DEF Absent
<1> QED
  BY <1>2, <1>4 DEF Merged

\* No line of an indexed window is removed before the first compaction merged it.
LEMMA KeepStep ==
  ASSUME TypeOK, HandInv, CloseInv, MergeInv, KeepInv, [Next]_vars
  PROVE  KeepInv'
<1> USE ConstantsAssumption DEF TypeOK, HandInv, CloseInv, KeepInv,
        FirstCompactionKeepsData, ShardKind, Compacting, WorkerAlive, Merged, client,
        daemon, queues, merge, disk, history, limits
<1>1. ASSUME NEW w \in Windows, Enqueue(w) PROVE KeepInv'
  BY <1>1 DEF Enqueue
<1>2. CASE PauseOrResume
  BY <1>2 DEF PauseOrResume
<1>3. CASE StopCall
  BY <1>3 DEF StopCall
<1>4. CASE StopPut
  BY <1>4 DEF StopPut
<1>5. CASE StopJoined
  BY <1>5 DEF StopJoined
<1>6. CASE FlushCall
  BY <1>6 DEF FlushCall
<1>7. CASE FlushJoined
  BY <1>7 DEF FlushJoined
<1>8. CASE JoinTimeout
  BY <1>8 DEF JoinTimeout
<1>9. CASE CompactRead
  BY <1>9 DEF CompactRead, MergeInv
<1>10. CASE CompactWrite
  <2>1. compactions <= 1 => compactions = 1 /\ (\A k \in ShardKind : indexed \subseteq shards[k])
    BY <1>10 DEF CompactWrite
  <2>2. FirstCompactionKeepsData'
    BY <1>10, <2>1 DEF CompactWrite
  <2>3. snap = shards /\ UNCHANGED <<shards, snap, indexed, worker, cur, compactions>>
    BY <1>10 DEF CompactWrite, MergeInv
  <2> HIDE DEF FirstCompactionKeepsData
  <2> QED
    BY <1>10, <2>1, <2>2, <2>3 DEF CompactWrite
<1>11. CASE CompactUnlink
  <2>1. /\ Merged("window_token_lists") = snap["tokens"] /\ Merged("keywords") = snap["keywords"]
        /\ Merged("window_tokens") = snap["tokens"] /\ Merged("window_metadata") = snap["metadata"]
    BY <1>11, MergedFacts DEF CompactUnlink, ContentOf, CanonicalFile
  <2> HIDE DEF Merged
  <2>2. \A f \in CanonicalFile : Merged(f)' = Merged(f)
    BY <1>11 DEF CompactUnlink, Merged
  <2>3. compactions <= 1 => FirstCompactionKeepsData'
    BY <1>11, <2>1, <2>2 DEF CompactUnlink, CanonicalFile
  <2> QED
    BY <1>11, <2>3 DEF CompactUnlink
<1>12. CASE CompactUnlinked
  BY <1>12 DEF CompactUnlinked
<1>13. CASE CompactManifest
  BY <1>13 DEF CompactManifest
<1>14. CASE CompactFail
  BY <1>14 DEF CompactFail
<1>15. CASE WorkerGate
  BY <1>15 DEF WorkerGate
<1>16. CASE WorkerEmpty
  BY <1>16 DEF WorkerEmpty
<1>17. CASE WorkerGet
  BY <1>17 DEF WorkerGet
<1>18. CASE WorkerCapture
  BY <1>18 DEF WorkerCapture
<1>19. CASE WorkerAppend
  BY <1>19 DEF WorkerAppend, NextPhase
<1>20. CASE WorkerFlush
  BY <1>20 DEF WorkerFlush
<1>21. CASE WorkerFail
  BY <1>21 DEF WorkerFail
<1>22. CASE Crash
  BY <1>22 DEF Crash
<1>23. CASE Reopen
  BY <1>23 DEF Reopen
<1>24. CASE UNCHANGED vars
  BY <1>24 DEF vars
<1> QED
  BY <1>1, <1>2, <1>3, <1>4, <1>5, <1>6, <1>7, <1>8, <1>9, <1>10, <1>11, <1>12,
     <1>13, <1>14, <1>15, <1>16, <1>17, <1>18, <1>19, <1>20, <1>21, <1>22,
     <1>23, <1>24
  DEF Next, StopSteps, CompactSteps, WorkerSteps

\* What the first close call of a run without crashes compacts is complete.
LEMMA CleanStep ==
  ASSUME TypeOK, HandInv, CloseInv, CaptureInv, MergeInv, OfferInv,
         EveryWindowIsAccountedFor, KeepInv, CleanInv, [Next]_vars
  PROVE  CleanInv'
<1> USE ConstantsAssumption DEF TypeOK, HandInv, CloseInv, CleanInv,
        NotClosedYet, JoinedFirst, CleanCloseIsComplete, ShardKind, Compacting, WorkerAlive,
        client, daemon, queues, merge, disk, history, limits
<1>1. ASSUME NEW w \in Windows, Enqueue(w) PROVE CleanInv'
  BY <1>1 DEF Enqueue
<1>2. CASE PauseOrResume
  BY <1>2 DEF PauseOrResume
<1>3. CASE StopCall
  BY <1>3 DEF StopCall
<1>4. CASE StopPut
  BY <1>4 DEF StopPut
<1>5. CASE StopJoined
  BY <1>5 DEF StopJoined
<1>6. CASE FlushCall
  BY <1>6 DEF FlushCall
<1>7. CASE FlushJoined
  <2>1. QueuedWindows \subseteq accepted /\ indexed \subseteq accepted
    BY DEF EveryWindowIsAccountedFor
  <2>2. worker = "dead" /\ capture_q = <<>> => QueuedWindows = {} /\ InHand = {}
    BY DEF QueuedWindows, WindowsOf, InHand
  <2>3. crashes = 0 /\ closes = 1 /\ failed_q = {} => accepted = indexed
    BY <1>7, <2>1, <2>2 DEF FlushJoined, EveryWindowIsAccountedFor
  <2> QED
    BY <1>7, <2>3 DEF FlushJoined
<1>8. CASE JoinTimeout
  BY <1>8 DEF JoinTimeout
<1>9. CASE CompactRead
  <2>1. compactions = 0 /\ accepted = indexed => \A k \in ShardKind : shards[k] = accepted
    BY DEF KeepInv, CaptureInv, OfferInv
  <2>2. shards \in [ShardKind -> SUBSET Windows] /\ snap' = shards
    BY <1>9 DEF CompactRead
  <2> QED
    BY <1>9, <2>1, <2>2 DEF CompactRead
<1>10. CASE CompactWrite
  BY <1>10 DEF CompactWrite
<1>11. CASE CompactUnlink
  BY <1>11 DEF CompactUnlink
<1>12. CASE CompactUnlinked
  BY <1>12 DEF CompactUnlinked
<1>13. CASE CompactManifest
  <2>1. \A f \in CanonicalFile : canon[f] = ContentOf(f)
    BY <1>13, MergedFacts DEF CompactManifest
  <2>2. closes = 1 /\ crashes = 0 => \A f \in CanonicalFile : canon[f] = accepted
    BY <1>13, <2>1 DEF CompactManifest, ContentOf
  <2> QED
    BY <1>13, <2>2 DEF CompactManifest
<1>14. CASE CompactFail
  BY <1>14 DEF CompactFail
<1>15. CASE WorkerGate
  BY <1>15 DEF WorkerGate
<1>16. CASE WorkerEmpty
  BY <1>16 DEF WorkerEmpty
<1>17. CASE WorkerGet
  BY <1>17 DEF WorkerGet
<1>18. CASE WorkerCapture
  BY <1>18 DEF WorkerCapture
<1>19. CASE WorkerAppend
  BY <1>19 DEF WorkerAppend, NextPhase
<1>20. CASE WorkerFlush
  BY <1>20 DEF WorkerFlush
<1>21. CASE WorkerFail
  <2>1. failed_q = {} => Cardinality(failed_q) < FailedQueueSize
    BY FS_EmptySet
  <2>2. failed_q' = {} => UNCHANGED <<failed_q, dropped>>
    BY <1>21, <2>1 DEF WorkerFail
  <2> QED
    BY <1>21, <2>2 DEF WorkerFail
<1>22. CASE Crash
  BY <1>22 DEF Crash
<1>23. CASE Reopen
  BY <1>23 DEF Reopen
<1>24. CASE UNCHANGED vars
  BY <1>24 DEF vars
<1> QED
  BY <1>1, <1>2, <1>3, <1>4, <1>5, <1>6, <1>7, <1>8, <1>9, <1>10, <1>11, <1>12,
     <1>13, <1>14, <1>15, <1>16, <1>17, <1>18, <1>19, <1>20, <1>21, <1>22,
     <1>23, <1>24
  DEF Next, StopSteps, CompactSteps, WorkerSteps

\* The construction on an empty directory satisfies the invariant.
LEMMA InitInv == Init => IInv
<1> SUFFICES ASSUME Init PROVE IInv
  OBVIOUS
<1> USE ConstantsAssumption DEF Init, ShardKind
<1>1. TypeOK
  <2>1. canon \in [CanonicalFile -> (SUBSET Windows) \cup {Absent}]
    OBVIOUS
  <2>2. capture_q \in Seq(Windows \cup {Stop})
    OBVIOUS
  <2>3. skipped \subseteq ShardKind \X Windows /\ step \in 1..6
    OBVIOUS
  <2> QED
    BY <2>1, <2>2, <2>3 DEF TypeOK
<1>2. HandInv /\ CloseInv /\ CaptureInv /\ MergeInv /\ OfferInv /\ PublishedStoreIsLoadable
  BY DEF HandInv, CloseInv, CaptureInv, MergeInv, OfferInv, PublishedStoreIsLoadable,
         Compacting, WorkerAlive
<1>3. EveryWindowIsAccountedFor
  BY DEF EveryWindowIsAccountedFor, QueuedWindows, WindowsOf, InHand
<1>4. KeepInv
  BY DEF KeepInv, FirstCompactionKeepsData
<1>5. CleanInv
  BY DEF CleanInv, CleanCloseIsComplete, NotClosedYet, Compacting
<1> QED
  BY <1>1, <1>2, <1>3, <1>4, <1>5 DEF IInv

\* IInv is an invariant of the indexer.
THEOREM Invariance == Spec => []IInv
<1>1. IInv /\ [Next]_vars => IInv'
  BY TypeStep, HandStep, CloseStep, CaptureStep, MergeStep, LoadableStep, AccountStep,
     OfferStep, KeepStep, CleanStep DEF IInv
<1> QED
  BY InitInv, <1>1, PTL DEF Spec

\* Every variable stays in its range, whatever the order of client calls, daemon
\* steps, failed writes, crashes and re-runs.
THEOREM TypeCorrect == Spec => []TypeOK
BY Invariance, PTL DEF IInv

\* A store whose final manifest is present loads.
THEOREM PublishedLoads == Spec => []PublishedStoreIsLoadable
BY Invariance, PTL DEF IInv

\* The shards do not move between the merge and the last canonical file.
THEOREM SnapshotCurrent == Spec => []SnapshotStaysCurrent
<1>1. IInv => SnapshotStaysCurrent
  BY DEF IInv, MergeInv, SnapshotStaysCurrent
<1> QED
  BY <1>1, Invariance, PTL

\* No step touches the directory of a published store.
LEMMA FinalStep ==
  ASSUME IInv, [Next]_vars
  PROVE  (manifest = "final" => UNCHANGED disk)
<1> USE ConstantsAssumption DEF IInv, CloseInv, Compacting, WorkerAlive,
        ShardKind, client, daemon, queues, merge, disk, history, limits
<1>1. ASSUME NEW w \in Windows, Enqueue(w) PROVE (manifest = "final" => UNCHANGED disk)
  BY <1>1 DEF Enqueue
<1>2. CASE PauseOrResume
  BY <1>2 DEF PauseOrResume
<1>3. CASE StopCall
  BY <1>3 DEF StopCall
<1>4. CASE StopPut
  BY <1>4 DEF StopPut
<1>5. CASE StopJoined
  BY <1>5 DEF StopJoined
<1>6. CASE FlushCall
  BY <1>6 DEF FlushCall
<1>7. CASE FlushJoined
  BY <1>7 DEF FlushJoined
<1>8. CASE JoinTimeout
  BY <1>8 DEF JoinTimeout
<1>9. CASE CompactRead
  BY <1>9 DEF CompactRead
<1>10. CASE CompactWrite
  BY <1>10 DEF CompactWrite
<1>11. CASE CompactUnlink
  BY <1>11 DEF CompactUnlink
<1>12. CASE CompactUnlinked
  BY <1>12 DEF CompactUnlinked
<1>13. CASE CompactManifest
  BY <1>13 DEF CompactManifest
<1>14. CASE CompactFail
  BY <1>14 DEF CompactFail
<1>15. CASE WorkerGate
  BY <1>15 DEF WorkerGate
<1>16. CASE WorkerEmpty
  BY <1>16 DEF WorkerEmpty
<1>17. CASE WorkerGet
  BY <1>17 DEF WorkerGet
<1>18. CASE WorkerCapture
  BY <1>18 DEF WorkerCapture
<1>19. CASE WorkerAppend
  BY <1>19 DEF WorkerAppend
<1>20. CASE WorkerFlush
  BY <1>20 DEF WorkerFlush
<1>21. CASE WorkerFail
  BY <1>21 DEF WorkerFail
<1>22. CASE Crash
  BY <1>22 DEF Crash
<1>23. CASE Reopen
  BY <1>23 DEF Reopen
<1>24. CASE UNCHANGED vars
  BY <1>24 DEF vars
<1> QED
  BY <1>1, <1>2, <1>3, <1>4, <1>5, <1>6, <1>7, <1>8, <1>9, <1>10, <1>11, <1>12,
     <1>13, <1>14, <1>15, <1>16, <1>17, <1>18, <1>19, <1>20, <1>21, <1>22,
     <1>23, <1>24
  DEF Next, StopSteps, CompactSteps, WorkerSteps

\* A published store never changes.
THEOREM FinalStays == Spec => FinalManifestIsFinal
<1>1. IInv /\ [Next]_vars => [manifest = "final" => UNCHANGED disk]_vars
  BY FinalStep
<1> QED
  BY <1>1, Invariance, PTL DEF Spec, FinalManifestIsFinal

\* No accepted window disappears silently.
THEOREM Accounted == Spec => []EveryWindowIsAccountedFor
BY Invariance, PTL DEF IInv

\* Up to the end of the first compaction every indexed window is in a shard or in
\* a canonical file, wherever a crash or a failed write interrupts it.
THEOREM FirstCompactionKeeps == Spec => []FirstCompactionKeepsData
<1>1. IInv => FirstCompactionKeepsData
  BY DEF IInv, KeepInv
<1> QED
  BY <1>1, Invariance, PTL

\* A first close call that publishes, in a run without crashes, publishes every
\* window that was ever enqueued.
THEOREM CleanCloseComplete == Spec => []CleanCloseIsComplete
<1>1. IInv => CleanCloseIsComplete
  BY DEF IInv, CleanInv
<1> QED
  BY <1>1, Invariance, PTL

\* Every step is one of the abstract store, or leaves it alone.
LEMMA StoreStep ==
  ASSUME IInv, [Next]_vars
  PROVE  [Store!Next]_(Store!storeVars)
<1> USE ConstantsAssumption DEF IInv, CloseInv, HandInv, TypeOK, Compacting,
        WorkerAlive, ShardKind, Store!Next, Store!storeVars, Merged, client,
        daemon, queues, merge, disk, history, limits
<1>1. ASSUME NEW w \in Windows, Enqueue(w) PROVE [Store!Next]_(Store!storeVars)
  BY <1>1 DEF Enqueue, Store!Offer, Store!Hidden
<1>2. CASE PauseOrResume
  BY <1>2 DEF PauseOrResume
<1>3. CASE StopCall
  BY <1>3 DEF StopCall
<1>4. CASE StopPut
  BY <1>4 DEF StopPut
<1>5. CASE StopJoined
  BY <1>5 DEF StopJoined
<1>6. CASE FlushCall
  BY <1>6 DEF FlushCall
<1>7. CASE FlushJoined
  BY <1>7 DEF FlushJoined
<1>8. CASE JoinTimeout
  BY <1>8 DEF JoinTimeout
<1>9. CASE CompactRead
  BY <1>9 DEF CompactRead
<1>10. CASE CompactWrite
  BY <1>10 DEF CompactWrite
<1>11. CASE CompactUnlink
  BY <1>11 DEF CompactUnlink
<1>12. CASE CompactUnlinked
  BY <1>12 DEF CompactUnlinked
<1>13. CASE CompactManifest
  <2>1. canon[CanonicalOrder[2]] = ContentOf(CanonicalOrder[2])
    BY <1>13 DEF CompactManifest, MergeInv
  <2>2. canon["window_tokens"] = snap["tokens"]
    BY <2>1, OrderFacts DEF ContentOf
  <2>3. canon["window_tokens"] # {} /\ canon["window_tokens"] \subseteq boundaries
        /\ canon["window_tokens"] # Absent
    BY <1>13, <2>2 DEF CompactManifest, MergeInv, Absent
  <2>4. Store!Publish
    BY <1>13, <2>3 DEF CompactManifest, Store!Publish, Store!Hidden
  <2> QED
    BY <2>4
<1>14. CASE CompactFail
  BY <1>14 DEF CompactFail
<1>15. CASE WorkerGate
  BY <1>15 DEF WorkerGate
<1>16. CASE WorkerEmpty
  BY <1>16 DEF WorkerEmpty
<1>17. CASE WorkerGet
  BY <1>17 DEF WorkerGet
<1>18. CASE WorkerCapture
  <2>1. cur \in Windows /\ cur \in accepted
    BY <1>18 DEF WorkerCapture, EveryWindowIsAccountedFor, InHand
  <2>2. Store!Capture(cur)
    BY <1>18, <2>1 DEF WorkerCapture, Store!Capture, Store!Hidden
  <2> QED
    BY <2>1, <2>2
<1>19. CASE WorkerAppend
  BY <1>19 DEF WorkerAppend
<1>20. CASE WorkerFlush
  BY <1>20 DEF WorkerFlush
<1>21. CASE WorkerFail
  <2>1. cur \in Windows /\ cur \in accepted
    BY <1>21 DEF WorkerFail, EveryWindowIsAccountedFor, InHand
  <2>2. Store!Capture(cur) \/ UNCHANGED Store!storeVars
    BY <1>21, <2>1 DEF WorkerFail, Store!Capture, Store!Hidden
  <2> QED
    BY <2>1, <2>2
<1>22. CASE Crash
  BY <1>22 DEF Crash
<1>23. CASE Reopen
  BY <1>23 DEF Reopen
<1>24. CASE UNCHANGED vars
  BY <1>24 DEF vars
<1> QED
  BY <1>1, <1>2, <1>3, <1>4, <1>5, <1>6, <1>7, <1>8, <1>9, <1>10, <1>11, <1>12,
     <1>13, <1>14, <1>15, <1>16, <1>17, <1>18, <1>19, <1>20, <1>21, <1>22,
     <1>23, <1>24
  DEF Next, StopSteps, CompactSteps, WorkerSteps

\* To a reader, the indexer is one atomic publication of captured windows.
THEOREM Implements == Spec => ImplementsSessionStore
<1>1. Init => Store!Init
  BY DEF Init, Store!Init, Store!Hidden
<1>2. IInv /\ [Next]_vars => [Store!Next]_(Store!storeVars)
  BY StoreStep
<1> QED
  BY <1>1, <1>2, Invariance, PTL DEF Spec, ImplementsSessionStore, Store!Spec

=============================================================================
