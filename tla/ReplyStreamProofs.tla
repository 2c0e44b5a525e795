-------------------------- MODULE ReplyStreamProofs --------------------------
(***************************************************************************)
(* What happens to a reply while it is generated, in two components that   *)
(* share no state: its way to the reader and its cutting into windows.     *)
(*                                                                         *)
(* No text is lost, repeated or overtaken between the thread that samples  *)
(* and the reader, through both queues, for every budget of tokens.  The   *)
(* windower loses no token and repeats exactly the overlap, for every      *)
(* window size, every overlap and every way a turn is cut into deltas.     *)
(***************************************************************************)
EXTENDS TokenStream, StreamingWindower, SequenceTheorems, TLAPS

-----------------------------------------------------------------------------
(* The way to the reader.                                                  *)

\* The texts of q take up one after the other at the tokens a to b: c tells how
\* far each item of q has come.
Chain(q, a, b) ==
  \E c \in [0..Len(q) -> Nat] :
    /\ c[0] = a /\ c[Len(q)] = b
    /\ \A i \in 0..Len(q), j \in 0..Len(q) : i <= j => c[i] <= c[j]
    /\ \A i \in 1..Len(q) :
         IF q[i].kind = "text" THEN q[i].from = c[i - 1] /\ q[i].to = c[i] ELSE c[i] = c[i - 1]

\* The two queues continue what the reader has.
ChainInv ==
  ~retried =>
    /\ got = [k \in 1..Len(got) |-> k]
    /\ \E m \in 0..MaxTokens : Chain(queue, Len(got), m) /\ Chain(streamer, m, put)

\* What the queues of each path hold, and which marks.
PathInv ==
  /\ path = "chat" => queue = <<>> /\ relay = "none"
  /\ path = "direct" => streamer = <<>> /\ gen = "none" /\ relay \in {"reading", "done"}
  /\ path = "server" => relay # "none" /\ gen # "none"
  /\ path = "chat" => gen \in {"running", "ended"}
  /\ path # "chat" => reader # "joining"
  /\ path # "direct" => ~retried

StreamerInv ==
  /\ \A i \in 1..Len(streamer) : streamer[i].kind = "text" \/ streamer[i] = Stop
  /\ \A i \in 1..Len(streamer) : streamer[i] = Stop => i = Len(streamer) /\ gen = "ended"
  /\ relay \in {"joining", "done"} \/ (path = "chat" /\ reader # "reading") =>
       streamer = <<>> /\ gen \in {"none", "ended"}

QueueInv ==
  /\ \A i \in 1..Len(queue) : queue[i].kind = "text" \/ queue[i] = Error \/ queue[i] = None
  /\ relay # "done" => \A i \in 1..Len(queue) : queue[i].kind = "text"
  /\ \A i \in 1..Len(queue) : queue[i] = None => i = Len(queue)
  /\ relay = "done" /\ reader = "reading" /\ errors =>
       Len(queue) >= 2 /\ queue[Len(queue) - 1] = Error
  /\ path # "chat" /\ reader = "returned" => queue = <<>> /\ relay = "done"

\* Nothing is kept back once the generation has ended without an exception.
EndInv ==
  /\ path # "direct" /\ errors => gen \in {"failing", "ended"}
  /\ gen = "failing" => errors
  /\ path = "direct" /\ errors => relay = "done"
  /\ gen = "ended" /\ ~errors => put = made
  /\ path = "direct" /\ relay = "done" /\ ~errors => put = made
  /\ reader = "returned" => ~errors /\ gen # "running" /\ gen # "failing"

IInv == TypeOK /\ PathInv /\ StreamerInv /\ QueueInv /\ EndInv /\ ChainInv

-----------------------------------------------------------------------------
(* Chains.                                                                 *)

\* An empty queue chains a place to itself,
LEMMA ChainEmpty ==
  ASSUME NEW a \in Nat
  PROVE  Chain(<<>>, a, a)
<1> DEFINE c == [i \in 0..0 |-> a]
<1>1. c \in [0..Len(<<>>) -> Nat]
  OBVIOUS
<1>2. c[0] = a
  OBVIOUS
<1>3. \A i \in 0..Len(<<>>), j \in 0..Len(<<>>) : i <= j => c[i] <= c[j]
  OBVIOUS
<1>4. \A i \in 1..Len(<<>>) :
        IF (<<>>)[i].kind = "text" THEN (<<>>)[i].from = c[i - 1] /\ (<<>>)[i].to = c[i]
        ELSE c[i] = c[i - 1]
  OBVIOUS
<1> QED
  BY <1>1, <1>2, <1>3, <1>4 DEF Chain

\* and to no other place.
LEMMA EmptyChain ==
  ASSUME NEW a, NEW b, Chain(<<>>, a, b)
  PROVE  a = b
BY DEF Chain

\* The ends of a chain are places, in order.
LEMMA ChainEnds ==
  ASSUME NEW S, NEW q \in Seq(S), NEW a, NEW b, Chain(q, a, b)
  PROVE  a \in Nat /\ b \in Nat /\ a <= b
BY DEF Chain

\* What continues at the end of a chain may be appended to it.
LEMMA ChainAppend ==
  ASSUME NEW S, NEW q \in Seq(S), NEW x \in S, NEW a, NEW b, NEW d \in Nat,
         Chain(q, a, b), b <= d,
         IF x.kind = "text" THEN x.from = b /\ x.to = d ELSE d = b
  PROVE  Chain(Append(q, x), a, d)
<1> DEFINE n == Len(q)
           r == Append(q, x)
<1>1. PICK c \in [0..n -> Nat] :
        /\ c[0] = a /\ c[n] = b
        /\ \A i \in 0..n, j \in 0..n : i <= j => c[i] <= c[j]
        /\ \A i \in 1..n :
             IF q[i].kind = "text" THEN q[i].from = c[i - 1] /\ q[i].to = c[i] ELSE c[i] = c[i - 1]
  BY DEF Chain
<1> DEFINE e == [i \in 0..(n + 1) |-> IF i <= n THEN c[i] ELSE d]
<1>2. n \in Nat /\ r \in Seq(S) /\ Len(r) = n + 1 /\ r[n + 1] = x /\ \A i \in 1..n : r[i] = q[i]
  OBVIOUS
<1>3. e \in [0..(n + 1) -> Nat] /\ e[0] = a /\ e[n + 1] = d /\ e[n] = b
      /\ \A i \in 0..n : e[i] = c[i]
  BY <1>1, <1>2
<1> HIDE DEF n, r, e
<1>4. ASSUME NEW i \in 0..(n + 1), NEW j \in 0..(n + 1), i <= j
      PROVE  e[i] <= e[j]
  <2>1. CASE j \in 0..n
    BY <1>1, <1>2, <1>3, <1>4, <2>1
  <2>2. CASE j = n + 1 /\ i \in 0..n
    <3>1. c[i] <= c[n] /\ c[i] \in Nat /\ c[n] \in Nat
      BY <1>1, <1>2, <2>2
    <3> QED
      BY <1>1, <1>3, <2>2, <3>1
  <2>3. CASE j = n + 1 /\ i = n + 1
    BY <1>3, <2>3
  <2> QED
    BY <1>2, <1>4, <2>1, <2>2, <2>3
<1>5. ASSUME NEW i \in 1..(n + 1)
      PROVE  IF r[i].kind = "text" THEN r[i].from = e[i - 1] /\ r[i].to = e[i] ELSE e[i] = e[i - 1]
  <2>1. CASE i \in 1..n
    <3>1. i - 1 \in 0..n /\ i \in 0..n
      BY <1>2, <2>1
    <3> QED
      BY <1>1, <1>2, <1>3, <2>1, <3>1
  <2>2. CASE i = n + 1
    BY <1>2, <1>3, <2>2
  <2> QED
    BY <1>2, <2>1, <2>2
<1>6. Len(r) = n + 1
  BY <1>2
<1>7. Chain(r, a, d)
  BY <1>3, <1>4, <1>5, <1>6 DEF Chain
<1> QED
  BY <1>7 DEF r

\* Without its head, a queue chains from where the head ended.
LEMMA ChainTail ==
  ASSUME NEW S, NEW q \in Seq(S), q # <<>>, NEW a, NEW b, Chain(q, a, b)
  PROVE  \E d \in Nat : /\ Chain(Tail(q), d, b) /\ a <= d /\ d <= b
                        /\ IF Head(q).kind = "text" THEN Head(q).from = a /\ Head(q).to = d
                           ELSE d = a
<1> DEFINE n == Len(q)
           r == Tail(q)
<1>1. PICK c \in [0..n -> Nat] :
        /\ c[0] = a /\ c[n] = b
        /\ \A i \in 0..n, j \in 0..n : i <= j => c[i] <= c[j]
        /\ \A i \in 1..n :
             IF q[i].kind = "text" THEN q[i].from = c[i - 1] /\ q[i].to = c[i] ELSE c[i] = c[i - 1]
  BY DEF Chain
<1> DEFINE e == [i \in 0..(n - 1) |-> c[i + 1]]
<1>2. n \in Nat /\ n >= 1 /\ r \in Seq(S) /\ Len(r) = n - 1 /\ Head(q) = q[1]
      /\ \A i \in 1..(n - 1) : r[i] = q[i + 1]
  OBVIOUS
<1>3. e \in [0..(n - 1) -> Nat] /\ e[0] = c[1] /\ e[n - 1] = b
      /\ \A i \in 0..(n - 1) : e[i] = c[i + 1]
  BY <1>1, <1>2
<1> HIDE DEF n, r, e
<1>4. ASSUME NEW i \in 0..(n - 1), NEW j \in 0..(n - 1), i <= j
      PROVE  e[i] <= e[j]
  BY <1>1, <1>2, <1>3, <1>4
<1>5. ASSUME NEW i \in 1..(n - 1)
      PROVE  IF r[i].kind = "text" THEN r[i].from = e[i - 1] /\ r[i].to = e[i] ELSE e[i] = e[i - 1]
  <2>1. i + 1 \in 1..n /\ i - 1 \in 0..(n - 1) /\ i \in 0..(n - 1) /\ (i + 1) - 1 = i /\ (i - 1) + 1 = i
    BY <1>2
  <2>2. r[i] = q[i + 1] /\ e[i] = c[i + 1] /\ e[i - 1] = c[i]
    BY <1>2, <1>3, <2>1
  <2> QED
    BY <1>1, <2>1, <2>2
<1>6. Chain(r, c[1], b)
  <2>1. Len(r) = n - 1
    BY <1>2
  <2> QED
    BY <1>3, <1>4, <1>5, <2>1 DEF Chain
<1>7. c[1] \in Nat /\ a <= c[1] /\ c[1] <= b
  BY <1>1, <1>2
<1>8. IF Head(q).kind = "text" THEN Head(q).from = a /\ Head(q).to = c[1] ELSE c[1] = a
  <2>1. 1 \in 1..n /\ 1 - 1 = 0
    BY <1>2
  <2> QED
    BY <1>1, <1>2, <2>1
<1> QED
  BY <1>6, <1>7, <1>8 DEF r

-----------------------------------------------------------------------------
(* The items, and what happens to a queue of them.                         *)

\* The items of the queues and the numbers of tokens.
LEMMA Items ==
  ASSUME TypeOK
  PROVE  /\ Stop \in Item /\ Error \in Item /\ None \in Item
         /\ \A from \in 0..MaxTokens, to \in 0..MaxTokens : Text(from, to) \in Item
         /\ Stop # Error /\ Stop # None /\ Error # None
         /\ Stop.kind # "text" /\ Error.kind # "text" /\ None.kind # "text"
         /\ made \in Nat /\ put \in Nat /\ put <= made /\ made <= MaxTokens
         /\ put \in 0..MaxTokens /\ MaxTokens \in Nat
<1>1. MaxTokens \in Nat /\ 0 \in 0..MaxTokens
  BY StreamAssumption
<1>2. made \in Nat /\ put \in Nat /\ put <= made /\ made <= MaxTokens /\ put \in 0..MaxTokens
  BY <1>1 DEF TypeOK
<1>3. /\ Stop \in Item /\ Error \in Item /\ None \in Item
      /\ \A from \in 0..MaxTokens, to \in 0..MaxTokens : Text(from, to) \in Item
  BY <1>1 DEF Stop, Error, None, Mark, Text, Item
<1>4. /\ Stop # Error /\ Stop # None /\ Error # None
      /\ Stop.kind # "text" /\ Error.kind # "text" /\ None.kind # "text"
  BY DEF Stop, Error, None, Mark
<1> QED
  BY <1>1, <1>2, <1>3, <1>4

\* What an append makes of a queue.
LEMMA Appended ==
  ASSUME NEW q \in Seq(Item), NEW x \in Item
  PROVE  /\ Append(q, x) \in Seq(Item) /\ q \o <<x>> = Append(q, x)
         /\ Len(q) \in Nat /\ Len(Append(q, x)) = Len(q) + 1
         /\ Append(q, x)[Len(q) + 1] = x
         /\ \A i \in 1..Len(q) : Append(q, x)[i] = q[i]
OBVIOUS

\* Two items are appended one after the other.
LEMMA AppendedTwo ==
  ASSUME NEW q \in Seq(Item), NEW x \in Item, NEW y \in Item
  PROVE  q \o <<x, y>> = Append(Append(q, x), y)
OBVIOUS

\* What is left of a queue when its head is taken.
LEMMA Taken ==
  ASSUME NEW q \in Seq(Item), q # <<>>
  PROVE  /\ Tail(q) \in Seq(Item) /\ Len(q) \in Nat /\ Len(q) >= 1 /\ Len(Tail(q)) = Len(q) - 1
         /\ Head(q) = q[1] /\ Head(q) \in Item
         /\ \A i \in 1..Len(Tail(q)) : Tail(q)[i] = q[i + 1] /\ i + 1 \in 1..Len(q)
         /\ Len(q) = 1 => Tail(q) = <<>>
<1>0. Head(q) = q[1] /\ Len(q) \in Nat /\ Len(q) >= 1
  OBVIOUS
<1>1. Tail(q) \in Seq(Item) /\ Len(q) \in Nat /\ Len(q) >= 1 /\ Len(Tail(q)) = Len(q) - 1
      /\ Head(q) = q[1] /\ Head(q) \in Item
  BY <1>0, HeadTailProperties
<1>2. \A i \in 1..Len(Tail(q)) : Tail(q)[i] = q[i + 1] /\ i + 1 \in 1..Len(q)
  BY <1>1, HeadTailProperties
<1>3. Len(q) = 1 => Tail(q) = <<>>
  <2>1. Tail(q) # <<>> => Len(Tail(q)) \in Nat \ {0}
    BY <1>1, EmptySeq, Zenon
  <2> QED
    BY <1>1, <2>1
<1> QED
  BY <1>1, <1>2, <1>3

\* The two ends of queue and streamer that the actions write.
LEMMA Written ==
  ASSUME TypeOK
  PROVE  /\ End => streamer' = Append(Append(streamer, Text(put, made)), Stop)
         /\ Signal => streamer' = Append(Append(streamer, Text(put, put)), Stop)
         /\ Finished(TRUE) = Append(Append(queue, Error), None)
         /\ Finished(FALSE) = Append(queue, None)
<1>1. streamer \in Seq(Item) /\ queue \in Seq(Item)
  BY DEF TypeOK
<1>2. made \in 0..MaxTokens /\ put \in 0..MaxTokens
  BY Items DEF TypeOK
<1>3. Text(put, made) \in Item /\ Text(put, put) \in Item /\ Stop \in Item
      /\ Error \in Item /\ None \in Item
  BY <1>2, Items
<1>4. End => streamer' = Append(Append(streamer, Text(put, made)), Stop)
  BY <1>1, <1>3, AppendedTwo DEF End
<1>5. Signal => streamer' = Append(Append(streamer, Text(put, put)), Stop)
  BY <1>1, <1>3, AppendedTwo DEF Signal
<1>6. Finished(TRUE) = Append(Append(queue, Error), None)
  BY <1>1, <1>3, AppendedTwo DEF Finished
<1>7. Finished(FALSE) = Append(queue, None)
  BY <1>1, <1>3, Appended DEF Finished
<1> QED
  BY <1>4, <1>5, <1>6, <1>7

\* The reader hands on the text that continues what it has.
LEMMA GotGrows ==
  ASSUME NEW x \in Item, TypeOK
  PROVE  /\ got \o Numbers(x) \in Seq(1..MaxTokens)
         /\ \A d \in Nat : x.from = Len(got) /\ x.to = d /\ Len(got) <= d
                           /\ got = [k \in 1..Len(got) |-> k]
              => /\ Len(got \o Numbers(x)) = d
                 /\ got \o Numbers(x) = [k \in 1..d |-> k]
<1>1. x.from \in Nat /\ x.to \in Nat /\ x.to <= MaxTokens /\ MaxTokens \in Nat
  BY StreamAssumption DEF Item
<1>2. got \in Seq(1..MaxTokens) /\ Len(got) \in Nat
  BY DEF TypeOK
<1>3. Numbers(x) \in Seq(1..MaxTokens)
  <2>1. CASE x.from <= x.to
    <3> DEFINE m == x.to - x.from
    <3>1. m \in Nat /\ \A k \in 1..m : x.from + k \in 1..MaxTokens
      BY <1>1, <2>1
    <3>2. [k \in 1..m |-> x.from + k] \in [1..m -> 1..MaxTokens]
      BY <3>1
    <3> HIDE DEF m
    <3>3. [k \in 1..m |-> x.from + k] \in Seq(1..MaxTokens)
      BY <3>1, <3>2, SeqDef
    <3> QED
      BY <3>3 DEF Numbers, m
  <2>2. CASE x.from > x.to
    <3>1. Numbers(x) = <<>>
      BY <1>1, <2>2 DEF Numbers
    <3> QED
      BY <3>1
  <2> QED
    BY <1>1, <2>1, <2>2
<1>4. got \o Numbers(x) \in Seq(1..MaxTokens)
  BY <1>2, <1>3
<1>5. ASSUME NEW d \in Nat, x.from = Len(got), x.to = d, Len(got) <= d,
             got = [k \in 1..Len(got) |-> k]
      PROVE  /\ Len(got \o Numbers(x)) = d
             /\ got \o Numbers(x) = [k \in 1..d |-> k]
  <2> DEFINE n == Numbers(x)
             g == got \o n
  <2>1. Len(n) = d - Len(got) /\ \A k \in 1..(d - Len(got)) : n[k] = Len(got) + k
    BY <1>1, <1>2, <1>3, <1>5 DEF Numbers
  <2>2. n \in Seq(1..MaxTokens)
    BY <1>3
  <2> HIDE DEF n
  <2>3. g \in Seq(1..MaxTokens) /\ Len(g) = d
    BY <1>2, <1>5, <2>1, <2>2
  <2> HIDE DEF g
  <2>4. ASSUME NEW k \in 1..d PROVE g[k] = k
    <3>1. CASE k <= Len(got)
      <4>1. g[k] = got[k]
        BY <1>2, <2>2, <2>4, <3>1 DEF g
      <4>2. k \in 1..Len(got)
        BY <1>2, <2>4, <3>1
      <4> QED
        BY <1>5, <4>1, <4>2
    <3>2. CASE k > Len(got)
      <4>1. g[k] = n[k - Len(got)] /\ k - Len(got) \in 1..(d - Len(got))
        BY <1>2, <2>1, <2>2, <2>4, <3>2 DEF g
      <4> QED
        BY <1>2, <2>1, <2>4, <4>1
    <3> QED
      BY <1>2, <2>4, <3>1, <3>2
  <2>5. g = [k \in 1..d |-> k]
    <3>1. g \in [1..d -> 1..MaxTokens]
      BY <2>3, LenProperties
    <3> QED
      BY <2>4, <3>1
  <2> QED
    BY <2>3, <2>5 DEF n, g
<1> QED
  BY <1>4, <1>5

-----------------------------------------------------------------------------
(* The parts of the invariant, kept by a step, action by action.           *)

\* The invariant holds before the generation starts.
LEMMA InitInv == Init => IInv
<1> SUFFICES ASSUME Init PROVE IInv
  OBVIOUS
<1>1. MaxTokens \in Nat /\ 0 \in 0..MaxTokens
  BY StreamAssumption
<1>2. <<>> \in Seq(Item) /\ <<>> \in Seq(1..MaxTokens) /\ Len(<<>>) = 0
  BY EmptySeq
<1>3. TypeOK
  <2>1. gen \in {"none", "running"} /\ relay \in {"none", "reading"}
    BY DEF Init
  <2>2. made \in 0..MaxTokens /\ put \in 0..made
    BY <1>1 DEF Init
  <2>3. errors \in BOOLEAN /\ retried \in BOOLEAN
    BY DEF Init
  <2>4. streamer \in Seq(Item) /\ queue \in Seq(Item) /\ got \in Seq(1..MaxTokens)
    BY <1>2 DEF Init
  <2> QED
    BY <2>1, <2>2, <2>3, <2>4 DEF Init, TypeOK
<1>4. PathInv /\ EndInv
  <2>1. PathInv
    BY DEF Init, PathInv
  <2>2. EndInv
    <3>1. gen # "failing" /\ gen # "ended" /\ relay # "done" /\ reader # "returned"
      BY DEF Init
    <3> QED
      BY <3>1 DEF Init, EndInv
  <2> QED
    BY <2>1, <2>2
<1>5. StreamerInv /\ QueueInv
  BY <1>2 DEF Init, StreamerInv, QueueInv
<1>6. ChainInv
  <2>1. Chain(<<>>, 0, 0)
    BY ChainEmpty
  <2>2. got = [k \in 1..Len(got) |-> k] /\ Len(got) = 0
    BY DEF Init
  <2> QED
    BY <1>1, <2>1, <2>2 DEF Init, ChainInv
<1> QED
  BY <1>3, <1>4, <1>5, <1>6 DEF IInv

\* Every variable keeps its type.
LEMMA TypeStep == IInv /\ [Next]_vars => TypeOK'
<1> SUFFICES ASSUME IInv, [Next]_vars PROVE TypeOK'
  OBVIOUS
<1>0. TypeOK /\ MaxTokens \in Nat
  BY StreamAssumption DEF IInv
<1>00. streamer \in Seq(Item) /\ queue \in Seq(Item) /\ got \in Seq(1..MaxTokens)
  BY <1>0 DEF TypeOK
<1>1. CASE Sample
  <2>1. made' \in 0..MaxTokens /\ put \in 0..MaxTokens /\ put \in 0..made' /\ made' \in 0..made'
    BY <1>0, <1>1 DEF Sample, TypeOK
  <2>2. Append(streamer, Text(put, made')) \in Seq(Item)
    BY <1>0, <1>00, <2>1, Items, Appended
  <2> QED
    BY <1>0, <1>1, <2>1, <2>2 DEF Sample, TypeOK
<1>2. CASE End
  <2>1. Append(Append(streamer, Text(put, made)), Stop) \in Seq(Item)
    BY <1>0, <1>00, Items, Appended DEF TypeOK
  <2> QED
    BY <1>0, <1>2, <2>1, Written, Items DEF End, TypeOK
<1>3. CASE GenerateRaises
  BY <1>0, <1>3 DEF GenerateRaises, TypeOK
<1>4. CASE Signal
  <2>1. Append(Append(streamer, Text(put, put)), Stop) \in Seq(Item)
    BY <1>0, <1>00, Items, Appended DEF TypeOK
  <2> QED
    BY <1>0, <1>4, <2>1, Written DEF Signal, TypeOK
<1>5. CASE Relay
  <2>1. Tail(streamer) \in Seq(Item) /\ Append(queue, Head(streamer)) \in Seq(Item)
    BY <1>00, <1>5, Taken, Appended DEF Relay
  <2> QED
    BY <1>0, <1>5, <2>1 DEF Relay, TypeOK
<1>6. CASE Join
  <2>1. Finished(errors) \in Seq(Item)
    <3>1. Append(Append(queue, Error), None) \in Seq(Item) /\ Append(queue, None) \in Seq(Item)
      BY <1>0, <1>00, Items, Appended
    <3> QED
      BY <1>0, <3>1, Written DEF TypeOK
  <2> QED
    BY <1>0, <1>6, <2>1 DEF Join, TypeOK
<1>7. CASE DirectSample
  <2>1. made' \in 0..MaxTokens /\ put \in 0..MaxTokens /\ put \in 0..made' /\ made' \in 0..made'
    BY <1>0, <1>7 DEF DirectSample, TypeOK
  <2>2. Append(queue, Text(put, made')) \in Seq(Item)
    BY <1>0, <1>00, <2>1, Items, Appended
  <2> QED
    BY <1>0, <1>7, <2>1, <2>2 DEF DirectSample, TypeOK
<1>8. CASE DirectEnd
  <2>1. Append(queue, Text(put, made)) \in Seq(Item) /\ None \in Item
    BY <1>0, <1>00, Items, Appended DEF TypeOK
  <2>2. queue' \in Seq(Item)
    BY <1>00, <1>8, <2>1, Appended DEF DirectEnd
  <2> QED
    BY <1>0, <1>8, <2>2, Items DEF DirectEnd, TypeOK
<1>9. CASE DirectRaises
  <2>1. Finished(TRUE) \in Seq(Item)
    <3>1. Append(Append(queue, Error), None) \in Seq(Item)
      BY <1>0, <1>00, Items, Appended
    <3> QED
      BY <1>0, <3>1, Written
  <2>2. CASE errors' = TRUE /\ relay' = "done" /\ queue' = Finished(TRUE)
             /\ UNCHANGED <<made, put, retried>>
    BY <1>0, <1>9, <2>1, <2>2 DEF DirectRaises, TypeOK
  <2>3. CASE retried' = TRUE /\ made' = 0 /\ put' = 0 /\ UNCHANGED <<errors, relay, queue>>
    <3>1. made' \in 0..MaxTokens /\ put' \in 0..made'
      BY <1>0, <2>3
    <3> QED
      BY <1>0, <1>9, <2>3, <3>1 DEF DirectRaises, TypeOK
  <2> QED
    BY <1>9, <2>2, <2>3 DEF DirectRaises
<1>10. CASE Receive
  <2>1. Tail(queue) \in Seq(Item) /\ got \o Numbers(Head(queue)) \in Seq(1..MaxTokens)
    BY <1>0, <1>00, <1>10, Taken, GotGrows DEF Receive
  <2> QED
    BY <1>0, <1>10, <2>1 DEF Receive, TypeOK
<1>11. CASE Read
  <2>1. Tail(streamer) \in Seq(Item) /\ got \o Numbers(Head(streamer)) \in Seq(1..MaxTokens)
    BY <1>0, <1>00, <1>11, Taken, GotGrows DEF Read
  <2> QED
    BY <1>0, <1>11, <2>1 DEF Read, TypeOK
<1>12. CASE Finish
  BY <1>0, <1>12 DEF Finish, TypeOK
<1>13. CASE UNCHANGED vars
  BY <1>0, <1>13 DEF vars, TypeOK
<1> QED
  BY <1>1, <1>2, <1>3, <1>4, <1>5, <1>6, <1>7, <1>8, <1>9, <1>10, <1>11, <1>12, <1>13
     DEF Next, Generate, RunSync, Deliver

\* Each path keeps to its own threads and queues.
LEMMA PathStep == IInv /\ [Next]_vars => PathInv'
<1> SUFFICES ASSUME IInv, [Next]_vars PROVE PathInv'
  OBVIOUS
<1>0. PathInv /\ StreamerInv /\ path \in {"chat", "server", "direct"}
  BY StreamAssumption DEF IInv, TypeOK
<1>1. CASE Generate
  BY <1>0, <1>1 DEF Generate, Sample, End, GenerateRaises, Signal, PathInv
<1>2. CASE Relay \/ Join
  BY <1>0, <1>2 DEF Relay, Join, PathInv
<1>3. CASE DirectSample \/ DirectEnd \/ DirectRaises
  BY <1>0, <1>3 DEF DirectSample, DirectEnd, DirectRaises, PathInv
<1>4. CASE Receive
  BY <1>0, <1>4 DEF Receive, PathInv
<1>5. CASE Read \/ Finish
  BY <1>0, <1>5 DEF Read, Finish, PathInv
<1>6. CASE UNCHANGED vars
  BY <1>0, <1>6 DEF vars, PathInv
<1> QED
  BY <1>1, <1>2, <1>3, <1>4, <1>5, <1>6 DEF Next, RunSync, Deliver

\* The streamer ends with the mark that generate's end puts.
LEMMA StreamerStep == IInv /\ [Next]_vars => StreamerInv'
<1> SUFFICES ASSUME IInv, [Next]_vars PROVE StreamerInv'
  OBVIOUS
<1>0. TypeOK /\ PathInv /\ StreamerInv /\ PathInv'
  BY PathStep DEF IInv
<1>00. streamer \in Seq(Item) /\ Len(streamer) \in Nat /\ path \in {"chat", "server", "direct"}
  BY <1>0, StreamAssumption DEF TypeOK
<1>t. \A from \in 0..MaxTokens, to \in 0..MaxTokens :
        Text(from, to) \in Item /\ Text(from, to).kind = "text" /\ Text(from, to) # Stop
  BY <1>0, Items DEF Text, Stop, Mark
<1>k. \A x \in Item : x.kind = "text" => x # Stop
  BY DEF Stop, Mark
\* What a text and the end mark behind it make of the streamer.
<1>e. ASSUME NEW x \in Item, x.kind = "text", gen' = "ended",
             \A i \in 1..Len(streamer) : streamer[i].kind = "text",
             streamer' = Append(Append(streamer, x), Stop)
      PROVE  /\ \A i \in 1..Len(streamer') : streamer'[i].kind = "text" \/ streamer'[i] = Stop
             /\ \A i \in 1..Len(streamer') : streamer'[i] = Stop => i = Len(streamer') /\ gen' = "ended"
  <2> DEFINE q == Append(streamer, x)
  <2>1. q \in Seq(Item) /\ Len(q) = Len(streamer) + 1 /\ q[Len(streamer) + 1] = x
        /\ \A i \in 1..Len(streamer) : q[i] = streamer[i]
    BY <1>00, <1>e, Appended
  <2> HIDE DEF q
  <2>2. \A i \in 1..Len(q) : q[i].kind = "text" /\ q[i] \in Item
    BY <1>00, <1>e, <2>1
  <2>3. Stop \in Item /\ Len(q) \in Nat
    BY <1>0, <2>1, Items
  <2>4. Len(Append(q, Stop)) = Len(q) + 1 /\ Append(q, Stop)[Len(q) + 1] = Stop
        /\ \A i \in 1..Len(q) : Append(q, Stop)[i] = q[i]
    BY <2>1, <2>3, Appended
  <2>5. streamer' = Append(q, Stop)
    BY <1>e DEF q
  <2> QED
    BY <1>e, <1>k, <2>2, <2>3, <2>4, <2>5
<1>n. gen \in {"running", "failing"} =>
        \A i \in 1..Len(streamer) : streamer[i].kind = "text"
  BY <1>0 DEF StreamerInv
<1>1. CASE Sample
  <2>1. made' \in 0..MaxTokens /\ put \in 0..MaxTokens
    BY <1>0, <1>1, Items DEF Sample, TypeOK
  <2>2. CASE UNCHANGED streamer
    BY <1>0, <1>1, <2>2 DEF Sample, StreamerInv
  <2>3. CASE streamer' = Append(streamer, Text(put, made'))
    <3> DEFINE x == Text(put, made')
    <3>1. x \in Item /\ x.kind = "text" /\ x # Stop
      BY <1>t, <2>1
    <3> HIDE DEF x
    <3>2. Len(streamer') = Len(streamer) + 1 /\ streamer'[Len(streamer) + 1] = x
          /\ \A i \in 1..Len(streamer) : streamer'[i] = streamer[i]
      BY <1>00, <2>3, <3>1, Appended DEF x
    <3>3. \A i \in 1..Len(streamer) : streamer[i].kind = "text" /\ streamer[i] # Stop
      BY <1>0, <1>00, <1>1, <1>n, <1>k DEF Sample
    <3>4. \A i \in 1..Len(streamer') : streamer'[i].kind = "text" /\ streamer'[i] # Stop
      BY <1>00, <3>1, <3>2, <3>3
    <3>5. ~(relay' \in {"joining", "done"} \/ (path' = "chat" /\ reader' # "reading"))
      BY <1>0, <1>1 DEF Sample, StreamerInv
    <3> QED
      BY <3>4, <3>5 DEF StreamerInv
  <2> QED
    BY <1>1, <2>2, <2>3 DEF Sample
<1>2. CASE End \/ Signal
  <2>1. PICK x \in Item : x.kind = "text" /\ streamer' = Append(Append(streamer, x), Stop)
    <3>1. CASE End
      BY <1>0, <1>t, <3>1, Items, Written DEF TypeOK
    <3>2. CASE Signal
      BY <1>0, <1>t, <3>2, Items, Written
    <3> QED
      BY <1>2, <3>1, <3>2
  <2>2. gen' = "ended" /\ gen \in {"running", "failing"} /\ UNCHANGED <<relay, path, reader>>
    BY <1>2 DEF End, Signal
  <2>3. ~(relay' \in {"joining", "done"} \/ (path' = "chat" /\ reader' # "reading"))
    BY <1>0, <2>2 DEF StreamerInv
  <2> QED
    BY <1>e, <1>n, <2>1, <2>2, <2>3 DEF StreamerInv
<1>3. CASE GenerateRaises
  <2>1. ~(relay' \in {"joining", "done"} \/ (path' = "chat" /\ reader' # "reading"))
    BY <1>0, <1>3 DEF GenerateRaises, StreamerInv
  <2> QED
    BY <1>0, <1>3, <2>1 DEF GenerateRaises, StreamerInv
<1>4. CASE Relay \/ Read
  <2>1. streamer # <<>> /\ streamer' = Tail(streamer) /\ UNCHANGED <<gen, path>>
    BY <1>4 DEF Relay, Read
  <2>2. /\ Len(streamer') = Len(streamer) - 1 /\ Len(streamer) >= 1
        /\ Head(streamer) = streamer[1]
        /\ \A i \in 1..Len(streamer') : streamer'[i] = streamer[i + 1] /\ i + 1 \in 1..Len(streamer)
        /\ Len(streamer) = 1 => streamer' = <<>>
    BY <1>00, <2>1, Taken
  <2>3. \A i \in 1..Len(streamer') : streamer'[i].kind = "text" \/ streamer'[i] = Stop
    BY <1>0, <2>2 DEF StreamerInv
  <2>4. ASSUME NEW i \in 1..Len(streamer'), streamer'[i] = Stop
        PROVE  i = Len(streamer') /\ gen' = "ended"
    <3>1. i + 1 \in 1..Len(streamer) /\ streamer[i + 1] = Stop
      BY <2>2, <2>4
    <3>2. i + 1 = Len(streamer) /\ gen = "ended"
      BY <1>0, <3>1 DEF StreamerInv
    <3>3. i = Len(streamer')
      BY <1>00, <2>2, <2>4, <3>2
    <3> QED
      BY <2>1, <3>2, <3>3
  <2>5. Head(streamer) = Stop => streamer' = <<>> /\ gen' = "ended"
    <3>1. 1 \in 1..Len(streamer)
      BY <1>00, <2>2
    <3>2. Head(streamer) = Stop => 1 = Len(streamer) /\ gen = "ended"
      BY <1>0, <2>2, <3>1 DEF StreamerInv
    <3> QED
      BY <2>1, <2>2, <3>2
  <2>6. relay' \in {"joining", "done"} \/ (path' = "chat" /\ reader' # "reading") =>
          Head(streamer) = Stop
    BY <1>0, <1>4, <2>1 DEF Relay, Read, StreamerInv, PathInv
  <2> QED
    BY <2>3, <2>4, <2>5, <2>6 DEF StreamerInv
<1>5. CASE Join \/ DirectSample \/ DirectEnd \/ DirectRaises
  <2>1. UNCHANGED <<streamer, gen, path, reader>>
    BY <1>5 DEF Join, DirectSample, DirectEnd, DirectRaises
  <2>2. relay' \in {"joining", "done"} \/ (path' = "chat" /\ reader' # "reading") =>
          streamer' = <<>> /\ gen' \in {"none", "ended"}
    BY <1>0, <1>5 DEF Join, DirectSample, DirectEnd, DirectRaises, StreamerInv, PathInv
  <2> QED
    BY <1>0, <2>1, <2>2 DEF StreamerInv
<1>6. CASE Receive
  BY <1>0, <1>6 DEF Receive, StreamerInv
<1>7. CASE Finish
  BY <1>0, <1>7 DEF Finish, StreamerInv
<1>8. CASE UNCHANGED vars
  BY <1>0, <1>8 DEF vars, StreamerInv
<1> QED
  BY <1>1, <1>2, <1>3, <1>4, <1>5, <1>6, <1>7, <1>8 DEF Next, Generate, RunSync, Deliver

\* What a reply holds once the threads have ended.
LEMMA EndStep == IInv /\ [Next]_vars => EndInv'
<1> SUFFICES ASSUME IInv, [Next]_vars PROVE EndInv'
  OBVIOUS
<1>0. TypeOK /\ PathInv /\ StreamerInv /\ QueueInv /\ EndInv
  BY DEF IInv
<1>00. path \in {"chat", "server", "direct"} /\ errors \in BOOLEAN
  BY <1>0, StreamAssumption DEF TypeOK
<1>1. CASE Sample
  BY <1>0, <1>1 DEF Sample, EndInv, PathInv
<1>2. CASE End
  BY <1>0, <1>2 DEF End, EndInv, PathInv
<1>3. CASE GenerateRaises
  BY <1>0, <1>3 DEF GenerateRaises, EndInv, PathInv
<1>4. CASE Signal
  BY <1>0, <1>4 DEF Signal, EndInv, PathInv
<1>5. CASE Relay
  BY <1>0, <1>5 DEF Relay, EndInv, PathInv
<1>6. CASE Join
  BY <1>0, <1>6 DEF Join, EndInv, PathInv
<1>7. CASE DirectSample
  BY <1>0, <1>7 DEF DirectSample, EndInv, PathInv
<1>8. CASE DirectEnd
  BY <1>0, <1>8 DEF DirectEnd, EndInv, PathInv
<1>9. CASE DirectRaises
  <2>1. reader # "returned"
    BY <1>0, <1>9 DEF DirectRaises, QueueInv, PathInv
  <2>2. path' = "direct" /\ gen' = "none" /\ reader' # "returned" /\ relay = "reading"
    BY <1>0, <1>9, <2>1 DEF DirectRaises, PathInv
  <2>3. CASE errors' = TRUE /\ relay' = "done"
    BY <2>2, <2>3 DEF EndInv
  <2>4. CASE UNCHANGED <<errors, relay>>
    BY <1>0, <2>2, <2>4, <1>9 DEF EndInv, DirectRaises
  <2> QED
    BY <1>9, <2>3, <2>4 DEF DirectRaises
<1>10. CASE Receive
  <2>1. queue \in Seq(Item) /\ queue # <<>>
    BY <1>0, <1>10 DEF Receive, TypeOK
  <2>2. Head(queue) = queue[1] /\ 1 \in 1..Len(queue) /\ Len(queue) \in Nat
    BY <2>1, Taken
  <2>3. None # Error /\ None.kind # "text"
    BY <1>0, Items
  <2>4. Head(queue) = None => relay = "done" /\ ~(Len(queue) >= 2)
    <3>1. Head(queue) = None => Len(queue) = 1
      BY <1>0, <2>2 DEF QueueInv
    <3>2. relay # "done" => queue[1].kind = "text"
      BY <1>0, <2>2 DEF QueueInv
    <3> QED
      BY <2>2, <2>3, <3>1, <3>2
  <2>5. Head(queue) = None => ~errors
    BY <1>0, <1>10, <2>4 DEF Receive, QueueInv
  <2>6. Head(queue) = None => gen \in {"none", "ended"}
    BY <1>0, <2>4 DEF StreamerInv
  <2>7. reader' = "returned" => ~errors' /\ gen' # "running" /\ gen' # "failing"
    BY <1>10, <2>5, <2>6, <2>3 DEF Receive
  <2> QED
    BY <1>0, <1>10, <2>7 DEF Receive, EndInv
<1>11. CASE Read
  BY <1>0, <1>11 DEF Read, EndInv
<1>12. CASE Finish
  BY <1>0, <1>12 DEF Finish, EndInv
<1>13. CASE UNCHANGED vars
  BY <1>0, <1>13 DEF vars, EndInv
<1> QED
  BY <1>1, <1>2, <1>3, <1>4, <1>5, <1>6, <1>7, <1>8, <1>9, <1>10, <1>11, <1>12, <1>13
     DEF Next, Generate, RunSync, Deliver

\* A queue of texts, and what another text or the end of _run_sync makes of it.
LEMMA Closed ==
  ASSUME TypeOK, NEW q \in Seq(Item), \A i \in 1..Len(q) : q[i].kind = "text"
  PROVE  /\ \A x \in Item : x.kind = "text" =>
              \A i \in 1..Len(Append(q, x)) : Append(q, x)[i].kind = "text"
         /\ \A i \in 1..Len(Append(q, None)) :
              Append(q, None)[i].kind = "text" \/ Append(q, None)[i] = None
         /\ \A i \in 1..Len(Append(q, None)) :
              Append(q, None)[i] = None => i = Len(Append(q, None))
<1>1. None \in Item /\ None.kind # "text" /\ Len(q) \in Nat
  BY Items
<1>2. ASSUME NEW x \in Item
      PROVE  /\ Len(Append(q, x)) = Len(q) + 1 /\ Append(q, x)[Len(q) + 1] = x
             /\ \A i \in 1..Len(q) : Append(q, x)[i] = q[i]
  BY Appended
<1>3. ASSUME NEW x \in Item, x.kind = "text", NEW i \in 1..Len(Append(q, x))
      PROVE  Append(q, x)[i].kind = "text"
  BY <1>1, <1>2, <1>3
<1>4. ASSUME NEW i \in 1..Len(Append(q, None))
      PROVE  Append(q, None)[i].kind = "text" \/ Append(q, None)[i] = None
  BY <1>1, <1>2, <1>4
<1>5. ASSUME NEW i \in 1..Len(Append(q, None)), Append(q, None)[i] = None
      PROVE  i = Len(Append(q, None))
  BY <1>1, <1>2, <1>5
<1> QED
  BY <1>3, <1>4, <1>5

\* A queue of texts that is closed by an error has its marks in the right places.
LEMMA ClosedFailed ==
  ASSUME TypeOK, NEW q \in Seq(Item), \A i \in 1..Len(q) : q[i].kind = "text",
         NEW r, r = Append(Append(q, Error), None)
  PROVE  /\ \A i \in 1..Len(r) : r[i].kind = "text" \/ r[i] = Error \/ r[i] = None
         /\ \A i \in 1..Len(r) : r[i] = None => i = Len(r)
         /\ Len(r) >= 2 /\ r[Len(r) - 1] = Error
<1> DEFINE e == Append(q, Error)
<1>1. None \in Item /\ Error \in Item /\ None.kind # "text" /\ None # Error /\ Len(q) \in Nat
  BY Items
<1>2. e \in Seq(Item) /\ Len(e) = Len(q) + 1 /\ e[Len(q) + 1] = Error
      /\ \A i \in 1..Len(q) : e[i] = q[i]
  BY <1>1, Appended
<1> HIDE DEF e
<1>3. \A i \in 1..Len(e) : (e[i].kind = "text" \/ e[i] = Error) /\ e[i] # None
  BY <1>1, <1>2
<1>4. r = Append(e, None)
  BY DEF e
<1>5. Len(r) = Len(e) + 1 /\ r[Len(e) + 1] = None /\ \A i \in 1..Len(e) : r[i] = e[i]
  BY <1>1, <1>2, <1>4, Appended
<1>6. Len(e) \in Nat /\ Len(e) >= 1 /\ Len(e) = Len(q) + 1
  BY <1>1, <1>2
<1> QED
  BY <1>2, <1>3, <1>5, <1>6

\* The exception and the end come last, and in this order.
LEMMA QueueStep == IInv /\ [Next]_vars => QueueInv'
<1> SUFFICES ASSUME IInv, [Next]_vars PROVE QueueInv'
  OBVIOUS
<1>0. TypeOK /\ PathInv /\ StreamerInv /\ QueueInv /\ EndInv
  BY DEF IInv
<1>00. queue \in Seq(Item) /\ Len(queue) \in Nat /\ path \in {"chat", "server", "direct"}
       /\ errors \in BOOLEAN
  BY <1>0, StreamAssumption DEF TypeOK
<1>t. relay # "done" => \A i \in 1..Len(queue) : queue[i].kind = "text"
  BY <1>0 DEF QueueInv
<1>k. \A x \in Item : x.kind = "text" => x # None
  BY DEF None, Mark
\* A queue of texts that is not closed yet.
<1>o. ASSUME relay' # "done", ~(path' # "chat" /\ reader' = "returned"), queue' \in Seq(Item),
             \A i \in 1..Len(queue') : queue'[i].kind = "text"
      PROVE  QueueInv'
  <2>1. \A i \in 1..Len(queue') : queue'[i] # None
    BY <1>k, <1>o
  <2> QED
    BY <1>o, <2>1 DEF QueueInv
<1>r. relay \in {"reading", "joining"} => ~(path # "chat" /\ reader = "returned")
  BY <1>0 DEF QueueInv
<1>1. CASE Sample \/ End \/ Signal
  BY <1>0, <1>1 DEF Sample, End, Signal, QueueInv
<1>2. CASE GenerateRaises
  <2>1. relay' # "done"
    BY <1>0, <1>2 DEF GenerateRaises, StreamerInv
  <2> QED
    BY <1>0, <1>2, <2>1 DEF GenerateRaises, QueueInv
<1>3. CASE Relay
  <2>1. relay = "reading" /\ relay' # "done" /\ UNCHANGED <<path, reader>>
    BY <1>3 DEF Relay
  <2>2. CASE queue' = queue
    BY <1>00, <1>o, <1>r, <1>t, <2>1, <2>2
  <2>3. CASE Head(streamer) # Stop /\ queue' = Append(queue, Head(streamer))
    <3>1. streamer \in Seq(Item) /\ streamer # <<>>
      BY <1>0, <1>3 DEF Relay, TypeOK
    <3>2. Head(streamer) = streamer[1] /\ 1 \in 1..Len(streamer) /\ Head(streamer) \in Item
      BY <3>1, Taken
    <3>3. Head(streamer).kind = "text"
      BY <1>0, <2>3, <3>2 DEF StreamerInv
    <3>4. queue' \in Seq(Item) /\ \A i \in 1..Len(queue') : queue'[i].kind = "text"
      BY <1>0, <1>00, <1>t, <2>1, <2>3, <3>2, <3>3, Closed, Appended
    <3> QED
      BY <1>o, <1>r, <2>1, <3>4
  <2> QED
    BY <1>3, <2>2, <2>3 DEF Relay
<1>4. CASE Join
  <2>1. relay = "joining" /\ relay' = "done" /\ queue' = Finished(errors)
        /\ UNCHANGED <<path, reader, errors>>
    BY <1>4 DEF Join
  <2>2. CASE errors
    <3>1. queue' = Append(Append(queue, Error), None)
      <4>1. errors = TRUE
        BY <2>2, <1>00
      <4> QED
        BY <1>0, <2>1, <4>1, Written
    <3> QED
      BY <1>0, <1>00, <1>r, <1>t, <2>1, <3>1, ClosedFailed DEF QueueInv
  <2>3. CASE ~errors
    <3>1. queue' = Append(queue, None)
      <4>1. errors = FALSE
        BY <2>3, <1>00
      <4> QED
        BY <1>0, <2>1, <4>1, Written
    <3> QED
      BY <1>0, <1>00, <1>r, <1>t, <2>1, <2>3, <3>1, Closed DEF QueueInv
  <2> QED
    BY <2>2, <2>3
<1>5. CASE DirectSample
  <2>1. relay = "reading" /\ relay' = relay /\ UNCHANGED <<path, reader>>
    BY <1>5 DEF DirectSample
  <2>2. CASE queue' = queue
    BY <1>00, <1>o, <1>r, <1>t, <2>1, <2>2
  <2>3. CASE queue' = Append(queue, Text(put, made'))
    <3>1. made' \in 0..MaxTokens /\ put \in 0..MaxTokens
      BY <1>0, <1>5, Items DEF DirectSample, TypeOK
    <3>2. Text(put, made') \in Item /\ Text(put, made').kind = "text"
      BY <1>0, <3>1, Items DEF Text
    <3>3. queue' \in Seq(Item) /\ \A i \in 1..Len(queue') : queue'[i].kind = "text"
      BY <1>0, <1>00, <1>t, <2>1, <2>3, <3>2, Closed, Appended
    <3> QED
      BY <1>o, <1>r, <2>1, <3>3
  <2> QED
    BY <1>5, <2>2, <2>3 DEF DirectSample
<1>6. CASE DirectEnd
  <2>1. relay = "reading" /\ relay' = "done" /\ path = "direct" /\ UNCHANGED <<path, reader, errors>>
    BY <1>6 DEF DirectEnd
  <2>2. ~errors'
    BY <1>0, <2>1 DEF EndInv
  <2> DEFINE q == IF put = made THEN queue ELSE Append(queue, Text(put, made))
  <2>3. q \in Seq(Item) /\ \A i \in 1..Len(q) : q[i].kind = "text"
    <3>1. CASE put = made
      BY <1>00, <1>t, <2>1, <3>1
    <3>2. CASE put # made
      <4>1. Text(put, made) \in Item /\ Text(put, made).kind = "text"
        BY <1>0, Items DEF Text, TypeOK
      <4> QED
        BY <1>0, <1>00, <1>t, <2>1, <3>2, <4>1, Closed, Appended
    <3> QED
      BY <3>1, <3>2
  <2>4. queue' = q \o <<None>>
    BY <1>6 DEF DirectEnd
  <2> HIDE DEF q
  <2>5. queue' = Append(q, None)
    BY <1>0, <2>3, <2>4, Items, Appended
  <2> QED
    BY <1>0, <1>r, <2>1, <2>2, <2>3, <2>5, Closed DEF QueueInv
<1>7. CASE DirectRaises
  <2>1. relay = "reading" /\ UNCHANGED <<path, reader>>
    BY <1>7 DEF DirectRaises
  <2>2. CASE relay' = "done" /\ queue' = Finished(TRUE)
    <3>1. queue' = Append(Append(queue, Error), None)
      BY <1>0, <2>2, Written
    <3> QED
      BY <1>0, <1>00, <1>r, <1>t, <2>1, <2>2, <3>1, ClosedFailed DEF QueueInv
  <2>3. CASE UNCHANGED <<relay, queue>>
    BY <1>00, <1>o, <1>r, <1>t, <2>1, <2>3
  <2> QED
    BY <1>7, <2>2, <2>3 DEF DirectRaises
<1>8. CASE Receive
  <2>1. reader = "reading" /\ queue # <<>> /\ queue' = Tail(queue) /\ UNCHANGED <<path, relay, errors>>
    BY <1>8 DEF Receive
  <2>2. /\ Len(queue') = Len(queue) - 1 /\ Len(queue) >= 1 /\ Head(queue) = queue[1]
        /\ \A i \in 1..Len(queue') : queue'[i] = queue[i + 1] /\ i + 1 \in 1..Len(queue)
        /\ Len(queue) = 1 => queue' = <<>>
    BY <1>00, <2>1, Taken
  <2>3. 1 \in 1..Len(queue)
    BY <1>00, <2>2
  <2>4. \A i \in 1..Len(queue') :
          /\ queue'[i].kind = "text" \/ queue'[i] = Error \/ queue'[i] = None
          /\ relay' # "done" => queue'[i].kind = "text"
    BY <1>0, <2>1, <2>2 DEF QueueInv
  <2>5. ASSUME NEW i \in 1..Len(queue'), queue'[i] = None PROVE i = Len(queue')
    <3>1. i + 1 = Len(queue)
      BY <1>0, <2>2, <2>5 DEF QueueInv
    <3> QED
      BY <1>00, <2>2, <2>5, <3>1
  <2>6. ASSUME relay' = "done", reader' = "reading", errors'
        PROVE  Len(queue') >= 2 /\ queue'[Len(queue') - 1] = Error
    <3>1. Len(queue) >= 2 /\ queue[Len(queue) - 1] = Error
      BY <1>0, <2>1, <2>6 DEF QueueInv
    <3>2. Head(queue).kind = "text"
      BY <1>8, <2>6 DEF Receive
    <3>3. Len(queue) - 1 # 1
      <4>1. Error.kind # "text"
        BY <1>0, Items
      <4> QED
        BY <2>2, <3>1, <3>2, <4>1
    <3>4. Len(queue') >= 2 /\ Len(queue') - 1 \in 1..Len(queue') /\ (Len(queue') - 1) + 1 = Len(queue) - 1
      BY <1>00, <2>2, <3>1, <3>3
    <3> QED
      BY <2>2, <3>1, <3>4
  <2>7. ASSUME reader' = "returned" PROVE queue' = <<>> /\ relay' = "done"
    <3>1. Head(queue) = None
      BY <1>8, <2>1, <2>7 DEF Receive
    <3>2. None.kind # "text"
      BY <1>0, Items
    <3>3. Len(queue) = 1 /\ relay = "done"
      BY <1>0, <2>2, <2>3, <3>1, <3>2 DEF QueueInv
    <3> QED
      BY <2>1, <2>2, <3>3
  <2> QED
    BY <2>4, <2>5, <2>6, <2>7 DEF QueueInv
<1>9. CASE Read \/ Finish
  <2>1. UNCHANGED <<queue, relay, errors, path>> /\ path = "chat" /\ relay = "none"
    BY <1>0, <1>9 DEF Read, Finish, PathInv
  <2> QED
    BY <1>0, <2>1 DEF QueueInv
<1>10. CASE UNCHANGED vars
  BY <1>0, <1>10 DEF vars, QueueInv
<1> QED
  BY <1>1, <1>2, <1>3, <1>4, <1>5, <1>6, <1>7, <1>8, <1>9, <1>10
     DEF Next, Generate, RunSync, Deliver

\* Every step continues the chain from the reader through the queues.
LEMMA ChainStep == IInv /\ [Next]_vars => ChainInv'
<1> SUFFICES ASSUME IInv, [Next]_vars, ~retried' PROVE ChainInv'
  BY DEF ChainInv
<1>0. TypeOK /\ TypeOK' /\ PathInv /\ StreamerInv /\ ~retried
  <2>1. retried => retried'
    BY DEF Next, Generate, Sample, End, GenerateRaises, Signal, RunSync, Relay, Join, DirectSample,
           DirectEnd, DirectRaises, Deliver, Receive, Read, Finish, vars
  <2> QED
    BY <2>1, TypeStep DEF IInv
<1>00. streamer \in Seq(Item) /\ queue \in Seq(Item) /\ Len(got) \in Nat
  BY <1>0 DEF TypeOK
<1>m. PICK m \in 0..MaxTokens : Chain(queue, Len(got), m) /\ Chain(streamer, m, put)
  BY <1>0 DEF IInv, ChainInv
<1>g. got = [k \in 1..Len(got) |-> k]
  BY <1>0 DEF IInv, ChainInv
<1>n. m \in Nat /\ Len(got) <= m /\ m <= put /\ put \in Nat /\ made \in Nat /\ put <= made
      /\ MaxTokens \in Nat /\ made <= MaxTokens
  BY <1>00, <1>0, <1>m, Items, ChainEnds
\* A step that leaves the reader's part alone.
<1>s. ASSUME UNCHANGED got, NEW d \in 0..MaxTokens,
             Chain(queue', Len(got), d), Chain(streamer', d, put')
      PROVE  ChainInv'
  BY <1>g, <1>s DEF ChainInv
<1>q. ASSUME NEW q \in Seq(Item), NEW a, NEW b, Chain(q, a, b)
      PROVE  Chain(Append(q, None), a, b) /\ Chain(Append(Append(q, Error), None), a, b)
             /\ Chain(Append(q, Stop), a, b)
  <2>1. b \in Nat /\ None \in Item /\ Error \in Item /\ Stop \in Item
        /\ None.kind # "text" /\ Error.kind # "text" /\ Stop.kind # "text"
    BY <1>0, <1>q, Items, ChainEnds
  <2>2. Append(q, Error) \in Seq(Item) /\ Chain(Append(q, Error), a, b)
    <3>1. Append(q, Error) \in Seq(Item)
      BY <2>1, Appended
    <3>2. b <= b /\ IF Error.kind = "text" THEN Error.from = b /\ Error.to = b ELSE b = b
      BY <2>1
    <3>3. Chain(Append(q, Error), a, b)
      BY <1>q, <2>1, <3>2, ChainAppend
    <3> QED
      BY <3>1, <3>3
  <2> DEFINE e == Append(q, Error)
  <2>3. Chain(Append(e, None), a, b)
    <3>1. e \in Seq(Item) /\ Chain(e, a, b)
      BY <2>2
    <3> HIDE DEF e
    <3>2. b <= b /\ IF None.kind = "text" THEN None.from = b /\ None.to = b ELSE b = b
      BY <2>1
    <3> QED
      BY <2>1, <3>1, <3>2, ChainAppend
  <2>4. ASSUME NEW x \in Item, x.kind # "text"
        PROVE  Chain(Append(q, x), a, b)
    <3>1. b <= b /\ IF x.kind = "text" THEN x.from = b /\ x.to = b ELSE b = b
      BY <2>1, <2>4
    <3> QED
      BY <1>q, <2>1, <3>1, ChainAppend
  <2> QED
    BY <2>1, <2>3, <2>4
<1>t. ASSUME NEW q \in Seq(Item), NEW a, NEW b \in 0..MaxTokens, NEW d \in 0..MaxTokens,
             Chain(q, a, b), b <= d
      PROVE  Chain(Append(q, Text(b, d)), a, d) /\ Append(q, Text(b, d)) \in Seq(Item)
  <2>1. Text(b, d) \in Item /\ Text(b, d).kind = "text" /\ Text(b, d).from = b /\ Text(b, d).to = d
    BY <1>0, Items DEF Text
  <2>2. d \in Nat
    BY <1>n
  <2> QED
    BY <1>t, <2>1, <2>2, ChainAppend, Appended
<1>1. CASE Sample
  <2>1. CASE UNCHANGED <<streamer, put>>
    BY <1>m, <1>s, <1>1, <2>1 DEF Sample
  <2>2. CASE streamer' = Append(streamer, Text(put, made')) /\ put' = made'
    <3>1. made' \in 0..MaxTokens /\ put \in 0..MaxTokens /\ put <= made'
      BY <1>n, <1>1 DEF Sample
    <3>2. Chain(streamer', m, put')
      BY <1>00, <1>m, <1>t, <2>2, <3>1
    <3> QED
      BY <1>m, <1>s, <1>1, <3>2 DEF Sample
  <2> QED
    BY <1>1, <2>1, <2>2 DEF Sample
<1>2. CASE End
  <2>1. made \in 0..MaxTokens /\ put \in 0..MaxTokens
    BY <1>n
  <2>2. Chain(Append(streamer, Text(put, made)), m, made)
        /\ Append(streamer, Text(put, made)) \in Seq(Item)
    BY <1>00, <1>m, <1>n, <1>t, <2>1
  <2>3. Chain(streamer', m, put')
    BY <1>0, <1>2, <1>q, <2>2, Written DEF End
  <2> QED
    BY <1>m, <1>s, <1>2, <2>3 DEF End
<1>3. CASE GenerateRaises
  BY <1>m, <1>s, <1>3 DEF GenerateRaises
<1>4. CASE Signal
  <2>1. put \in 0..MaxTokens /\ put <= put
    BY <1>n
  <2>2. Chain(Append(streamer, Text(put, put)), m, put)
        /\ Append(streamer, Text(put, put)) \in Seq(Item)
    BY <1>00, <1>m, <1>t, <2>1
  <2>3. Chain(streamer', m, put')
    BY <1>0, <1>4, <1>q, <2>2, Written DEF Signal
  <2> QED
    BY <1>m, <1>s, <1>4, <2>3 DEF Signal
<1>5. CASE Relay
  <2>1. streamer # <<>> /\ streamer' = Tail(streamer) /\ UNCHANGED <<got, put>>
    BY <1>5 DEF Relay
  <2>2. PICK d \in Nat : /\ Chain(Tail(streamer), d, put) /\ m <= d /\ d <= put
                         /\ IF Head(streamer).kind = "text"
                            THEN Head(streamer).from = m /\ Head(streamer).to = d ELSE d = m
    BY <1>00, <1>m, <2>1, ChainTail
  <2>3. d \in 0..MaxTokens /\ Head(streamer) \in Item
    BY <1>00, <1>n, <2>1, <2>2, Taken
  <2>4. CASE queue' = queue /\ (Head(streamer) = Stop \/ IsEmpty(Head(streamer)))
    <3>1. d = m
      <4>1. CASE Head(streamer) = Stop
        BY <1>0, <2>2, <4>1, Items
      <4>2. CASE IsEmpty(Head(streamer))
        BY <2>2, <4>2 DEF IsEmpty
      <4> QED
        BY <2>4, <4>1, <4>2
    <3> QED
      BY <1>m, <1>s, <2>1, <2>2, <2>4, <3>1
  <2>5. CASE queue' = Append(queue, Head(streamer))
    <3>1. Chain(Append(queue, Head(streamer)), Len(got), d)
      <4>1. IF Head(streamer).kind = "text"
            THEN Head(streamer).from = m /\ Head(streamer).to = d ELSE d = m
        BY <2>2
      <4> QED
        BY <1>00, <1>m, <2>2, <2>3, <4>1, ChainAppend
    <3> QED
      BY <1>s, <2>1, <2>2, <2>3, <2>5, <3>1
  <2> QED
    BY <1>5, <2>4, <2>5 DEF Relay
<1>6. CASE Join
  <2>1. queue' = Append(Append(queue, Error), None) \/ queue' = Append(queue, None)
    <3>1. CASE errors = TRUE
      BY <1>0, <1>6, <3>1, Written DEF Join
    <3>2. CASE errors = FALSE
      BY <1>0, <1>6, <3>2, Written DEF Join
    <3> QED
      BY <1>0, <3>1, <3>2 DEF TypeOK
  <2>2. Chain(queue', Len(got), m)
    BY <1>00, <1>m, <1>q, <2>1
  <2> QED
    BY <1>m, <1>s, <1>6, <2>2 DEF Join
<1>7. CASE DirectSample
  <2>1. streamer = <<>> /\ streamer' = streamer /\ UNCHANGED got
    BY <1>0, <1>7 DEF DirectSample, PathInv
  <2>2. m = put
    BY <1>m, <2>1, EmptyChain
  <2>3. CASE UNCHANGED <<queue, put>>
    BY <1>m, <1>s, <2>1, <2>3
  <2>4. CASE queue' = Append(queue, Text(put, made')) /\ put' = made'
    <3>1. made' \in 0..MaxTokens /\ put \in 0..MaxTokens /\ put <= made' /\ made' \in Nat
      BY <1>n, <1>7 DEF DirectSample
    <3>2. Chain(queue', Len(got), made')
      BY <1>00, <1>m, <1>t, <2>2, <2>4, <3>1
    <3>3. Chain(streamer', made', put')
      BY <2>1, <2>4, <3>1, ChainEmpty
    <3> QED
      BY <1>s, <2>1, <3>1, <3>2, <3>3
  <2> QED
    BY <1>7, <2>3, <2>4 DEF DirectSample
<1>8. CASE DirectEnd
  <2>1. streamer = <<>> /\ streamer' = streamer /\ UNCHANGED got /\ put' = made
    BY <1>0, <1>8 DEF DirectEnd, PathInv
  <2>2. m = put
    BY <1>m, <2>1, EmptyChain
  <2> DEFINE q == IF put = made THEN queue ELSE Append(queue, Text(put, made))
  <2>3. q \in Seq(Item) /\ Chain(q, Len(got), made)
    <3>1. CASE put = made
      BY <1>00, <1>m, <2>2, <3>1
    <3>2. CASE put # made
      <4>1. made \in 0..MaxTokens /\ put \in 0..MaxTokens
        BY <1>n
      <4> QED
        BY <1>00, <1>m, <1>n, <1>t, <2>2, <3>2, <4>1
    <3> QED
      BY <3>1, <3>2
  <2>4. queue' = q \o <<None>>
    BY <1>8 DEF DirectEnd
  <2> HIDE DEF q
  <2>5. queue' = Append(q, None)
    BY <1>0, <2>3, <2>4, Items, Appended
  <2>6. Chain(queue', Len(got), made)
    BY <1>q, <2>3, <2>5
  <2>7. Chain(streamer', made, put') /\ made \in 0..MaxTokens
    BY <1>n, <2>1, ChainEmpty
  <2> QED
    BY <1>s, <2>1, <2>6, <2>7
<1>9. CASE DirectRaises
  <2>1. queue' = Finished(TRUE) /\ UNCHANGED <<put, streamer, got>>
    BY <1>9 DEF DirectRaises
  <2>2. Chain(queue', Len(got), m)
    BY <1>0, <1>00, <1>m, <1>q, <2>1, Written
  <2> QED
    BY <1>m, <1>s, <2>1, <2>2
<1>10. CASE Receive
  <2>1. queue # <<>> /\ queue' = Tail(queue) /\ UNCHANGED <<put, streamer>>
    BY <1>10 DEF Receive
  <2>2. PICK d \in Nat : /\ Chain(Tail(queue), d, m) /\ Len(got) <= d /\ d <= m
                         /\ IF Head(queue).kind = "text"
                            THEN Head(queue).from = Len(got) /\ Head(queue).to = d ELSE d = Len(got)
    BY <1>00, <1>m, <2>1, ChainTail
  <2>3. Head(queue) \in Item
    BY <1>00, <2>1, Taken
  <2>4. Len(got') = d /\ got' = [k \in 1..d |-> k]
    <3>1. CASE Head(queue).kind = "text"
      <4>1. got' = got \o Numbers(Head(queue))
        BY <1>0, <1>10, <3>1, Items DEF Receive
      <4> QED
        BY <1>0, <1>g, <2>2, <2>3, <3>1, <4>1, GotGrows
    <3>2. CASE Head(queue).kind # "text"
      <4>1. got' = got
        BY <1>10, <3>2 DEF Receive
      <4> QED
        BY <1>g, <2>2, <3>2, <4>1
    <3> QED
      BY <3>1, <3>2
  <2> QED
    BY <1>m, <2>1, <2>2, <2>4 DEF ChainInv
<1>11. CASE Read
  <2>1. queue = <<>> /\ queue' = queue /\ streamer # <<>> /\ streamer' = Tail(streamer) /\ put' = put
    BY <1>0, <1>11 DEF Read, PathInv
  <2>2. Len(got) = m
    BY <1>m, <2>1, EmptyChain
  <2>3. PICK d \in Nat : /\ Chain(Tail(streamer), d, put) /\ m <= d /\ d <= put
                         /\ IF Head(streamer).kind = "text"
                            THEN Head(streamer).from = m /\ Head(streamer).to = d ELSE d = m
    BY <1>00, <1>m, <2>1, ChainTail
  <2>4. d \in 0..MaxTokens /\ Head(streamer) \in Item /\ Head(streamer) = streamer[1]
        /\ 1 \in 1..Len(streamer)
    BY <1>00, <1>n, <2>1, <2>3, Taken
  <2>5. Len(got') = d /\ got' = [k \in 1..d |-> k]
    <3>1. CASE Head(streamer) = Stop
      <4>1. d = m /\ got' = got
        BY <1>0, <1>11, <2>3, <3>1, Items DEF Read
      <4> QED
        BY <1>g, <2>2, <4>1
    <3>2. CASE Head(streamer) # Stop
      <4>1. Head(streamer).kind = "text" /\ got' = got \o Numbers(Head(streamer))
        BY <1>0, <1>11, <2>4, <3>2 DEF Read, StreamerInv
      <4> QED
        BY <1>0, <1>g, <2>2, <2>3, <2>4, <4>1, GotGrows
    <3> QED
      BY <3>1, <3>2
  <2>6. Chain(queue', Len(got'), d)
    <3>1. queue' = <<>> /\ Len(got') = d
      BY <2>1, <2>5
    <3>2. Chain(<<>>, d, d)
      BY ChainEmpty
    <3> QED
      BY <3>1, <3>2
  <2> QED
    BY <2>1, <2>3, <2>4, <2>5, <2>6 DEF ChainInv
<1>12. CASE Finish
  BY <1>m, <1>s, <1>12 DEF Finish
<1>13. CASE UNCHANGED vars
  BY <1>m, <1>s, <1>13 DEF vars
<1> QED
  BY <1>1, <1>2, <1>3, <1>4, <1>5, <1>6, <1>7, <1>8, <1>9, <1>10, <1>11, <1>12, <1>13
     DEF Next, Generate, RunSync, Deliver

-----------------------------------------------------------------------------
(* The theorems.                                                           *)

\* The invariant of the two queues: what they hold continues, without a gap or
\* an overlap, what the reader has (engine.py:521-561, cli.py:105-153).
THEOREM IInvInvariant == Spec => []IInv
<1>1. Init => IInv
  BY InitInv
<1>2. IInv /\ [Next]_vars => IInv'
  BY TypeStep, PathStep, StreamerStep, QueueStep, EndStep, ChainStep DEF IInv
<1> QED
  BY <1>1, <1>2, PTL DEF Spec

\* Every variable keeps its type, and no more text is put than was sampled.
THEOREM TypeOKTheorem == Spec => []TypeOK
<1>1. IInv => TypeOK
  BY DEF IInv
<1> QED
  BY <1>1, IInvInvariant, PTL

\* When the reader returns the chain has no room left.
LEMMA InvReturned == IInv => ReturnedReplyIsWhole
<1> SUFFICES ASSUME IInv, reader = "returned" PROVE ~errors /\ (~retried => got = [k \in 1..made |-> k])
  BY DEF ReturnedReplyIsWhole
<1>0. TypeOK /\ PathInv /\ StreamerInv /\ QueueInv /\ EndInv /\ ChainInv
  BY DEF IInv
<1>1. ~errors /\ gen # "running" /\ gen # "failing"
  BY <1>0 DEF EndInv
<1>2. path \in {"chat", "server", "direct"} /\ gen \in {"none", "running", "failing", "ended"}
  BY <1>0, StreamAssumption DEF TypeOK
<1>3. queue = <<>>
  BY <1>0 DEF PathInv, QueueInv
<1>4. streamer = <<>>
  BY <1>0, <1>2 DEF QueueInv, StreamerInv
<1>5. put = made
  <2>1. CASE path = "direct"
    <3>1. relay = "done"
      BY <1>0, <2>1 DEF QueueInv
    <3> QED
      BY <1>0, <1>1, <2>1, <3>1 DEF EndInv
  <2>2. CASE path # "direct"
    <3>1. gen = "ended"
      BY <1>0, <1>1, <1>2, <2>2 DEF PathInv
    <3> QED
      BY <1>0, <1>1, <3>1 DEF EndInv
  <2> QED
    BY <2>1, <2>2
<1>6. ASSUME ~retried PROVE got = [k \in 1..made |-> k]
  <2>1. PICK m \in 0..MaxTokens : Chain(queue, Len(got), m) /\ Chain(streamer, m, put)
    BY <1>0, <1>6 DEF ChainInv
  <2>2. Len(got) = m /\ m = put
    BY <1>3, <1>4, <2>1, EmptyChain
  <2> QED
    BY <1>0, <1>5, <1>6, <2>2 DEF ChainInv
<1> QED
  BY <1>1, <1>6

\* A reply that returns without an exception is whole, for every budget of
\* tokens and however the threads interleave (astream, stream_assistant_reply).
THEOREM ReturnedReplyIsWholeTheorem == Spec => []ReturnedReplyIsWhole
BY IInvInvariant, InvReturned, PTL

\* What the reader has is the beginning of the reply.
LEMMA InvOrder == IInv => DeltasArriveInOrder
<1> SUFFICES ASSUME IInv, ~retried PROVE Len(got) <= put /\ got = [k \in 1..Len(got) |-> k]
  BY DEF DeltasArriveInOrder
<1>1. TypeOK /\ ChainInv
  BY DEF IInv
<1>2. PICK m \in 0..MaxTokens : Chain(queue, Len(got), m) /\ Chain(streamer, m, put)
  BY <1>1 DEF ChainInv
<1>3. queue \in Seq(Item) /\ streamer \in Seq(Item)
  BY <1>1 DEF TypeOK
<1>4. Len(got) \in Nat /\ m \in Nat /\ put \in Nat /\ Len(got) <= m /\ m <= put
  BY <1>2, <1>3, ChainEnds
<1> QED
  BY <1>1, <1>4 DEF ChainInv

\* The reader always has the beginning of the reply, for every budget of
\* tokens (Relay, call_soon_threadsafe).
THEOREM DeltasArriveInOrderTheorem == Spec => []DeltasArriveInOrder
BY IInvInvariant, InvOrder, PTL

-----------------------------------------------------------------------------
(* The windower.                                                           *)

\* Appending a boundary keeps the others and puts it last.
LEMMA BoundaryAppended ==
  ASSUME NEW s \in Seq(Boundary), NEW b \in Boundary
  PROVE  /\ Append(s, b) \in Seq(Boundary)
         /\ Len(Append(s, b)) = Len(s) + 1
         /\ Append(s, b)[Len(s) + 1] = b
         /\ \A i \in 1..Len(s) : Append(s, b)[i] = s[i]
         /\ Append(s, b) # <<>>
         /\ s # <<>> => Len(s) \in 1..Len(s)
BY AppendProperties, EmptySeq

\* A handed out window that starts inside or at the end of what is covered
\* extends the covered prefix to its own end.
LEMMA PrefixGrows ==
  ASSUME NEW s \in Seq(Boundary), NEW b \in Boundary,
         NEW done \in Nat,
         \A t \in 0..(done - 1) :
           \E i \in 1..Len(s) : s[i].start <= t /\ t < s[i].end,
         b.start <= done
  PROVE  \A t \in 0..(b.end - 1) :
           \E i \in 1..Len(Append(s, b)) :
             Append(s, b)[i].start <= t /\ t < Append(s, b)[i].end
<1> TAKE t \in 0..(b.end - 1)
<1>1. CASE t < done
  <2>1. PICK i \in 1..Len(s) : s[i].start <= t /\ t < s[i].end
    BY <1>1
  <2>2. i \in 1..Len(Append(s, b)) /\ Append(s, b)[i] = s[i]
    BY BoundaryAppended
  <2> QED BY <2>1, <2>2
<1>2. CASE t >= done
  <2>1. Len(s) + 1 \in 1..Len(Append(s, b)) /\ Append(s, b)[Len(s) + 1] = b
    BY BoundaryAppended
  <2> QED BY <1>2, <2>1 DEF Boundary
<1> QED BY <1>1, <1>2

\* A fresh windower satisfies the invariant.
LEMMA WindowerInitInv == WindowerInit => WindowerInv
BY WindowerAssumption
   DEF WindowerInit, WindowerInv, WindowerTypeOK, CursorInv, PrefixInv, TailInv, WindowsAdvance,
       NoWindowWaits, Covered, Boundary

\* A step of the windower preserves the invariant.
LEMMA WindowerNextInv == WindowerInv /\ [WindowerNext]_windowerVars => WindowerInv'
<1> SUFFICES ASSUME WindowerInv, [WindowerNext]_windowerVars PROVE WindowerInv'
  OBVIOUS
<1> USE WindowerAssumption
<1>1. CASE \E n \in 1..MaxDelta : Feed(n)
  BY <1>1 DEF WindowerInv, WindowerTypeOK, CursorInv, PrefixInv, TailInv, WindowsAdvance,
              NoWindowWaits, Covered, Feed
<1>2. CASE Emit
  <2> DEFINE b == [start |-> next_start, end |-> next_start + WindowTokens]
             done == IF windows = <<>> THEN 0 ELSE windows[Len(windows)].end
  <2>1. b \in Boundary /\ windows' = Append(windows, b) /\ windows \in Seq(Boundary)
    BY <1>2 DEF Emit, WindowerInv, WindowerTypeOK, Boundary
  <2>2. /\ Len(windows') = Len(windows) + 1 /\ windows'[Len(windows) + 1] = b
        /\ \A i \in 1..Len(windows) : windows'[i] = windows[i]
        /\ windows' # <<>> /\ windows' \in Seq(Boundary)
        /\ windows # <<>> => Len(windows) \in 1..Len(windows)
    BY <2>1, BoundaryAppended
  <2>3. WindowerTypeOK'
    BY <1>2, <2>2 DEF Emit, WindowerInv, WindowerTypeOK
  <2>4. CursorInv'
    BY <1>2, <2>2 DEF Emit, WindowIsFull, WindowerInv, WindowerTypeOK, CursorInv
  <2>5. done \in Nat /\ b.start <= done
    BY <1>2, <2>2 DEF Emit, WindowerInv, WindowerTypeOK, CursorInv
  <2>6. \A t \in 0..(done - 1) :
          \E i \in 1..Len(windows) : windows[i].start <= t /\ t < windows[i].end
    BY DEF WindowerInv, PrefixInv, Covered
  <2>7. \A t \in 0..(b.end - 1) :
          \E i \in 1..Len(windows') : windows'[i].start <= t /\ t < windows'[i].end
    <3> HIDE DEF b, done
    <3> QED BY <2>1, <2>5, <2>6, PrefixGrows
  <2>8. PrefixInv'
    BY <2>2, <2>7 DEF PrefixInv, Covered
  <2>9. TailInv'
    BY <1>2 DEF Emit, TailInv
  <2>10. WindowsAdvance'
    <3> SUFFICES ASSUME NEW i \in 1..Len(windows)
                 PROVE  /\ windows'[i + 1].start = windows'[i].end - OverlapTokens
                        /\ windows'[i + 1].end > windows'[i].end
      BY <2>2 DEF WindowsAdvance
    <3>1. CASE i = Len(windows)
      BY <1>2, <2>2, <3>1 DEF Emit, WindowerInv, WindowerTypeOK, CursorInv
    <3>2. CASE i < Len(windows)
      <4>1. i + 1 \in 1..Len(windows) /\ i \in 1..(Len(windows) - 1)
        BY <3>2 DEF WindowerInv, WindowerTypeOK
      <4> QED BY <2>2, <4>1 DEF WindowerInv, WindowsAdvance
    <3> QED BY <3>1, <3>2 DEF WindowerInv, WindowerTypeOK
  <2>11. NoWindowWaits'
    BY <1>2, <2>2 DEF Emit, WindowerInv, WindowerTypeOK, CursorInv, NoWindowWaits
  <2> QED BY <2>3, <2>4, <2>8, <2>9, <2>10, <2>11 DEF WindowerInv
<1>3. CASE Fed
  BY <1>3 DEF WindowerInv, WindowerTypeOK, CursorInv, PrefixInv, TailInv, WindowsAdvance,
              NoWindowWaits, Covered, Fed, WindowIsFull
<1>4. CASE Flush /\ NoTail
  BY <1>4 DEF WindowerInv, WindowerTypeOK, CursorInv, PrefixInv, TailInv, WindowsAdvance,
              NoWindowWaits, Covered, Flush, NoTail
<1>5. CASE Flush /\ ~NoTail
  <2> DEFINE b == [start |-> next_start, end |-> token_count]
             done == IF windows = <<>> THEN 0 ELSE windows[Len(windows)].end
  <2>1. b \in Boundary /\ windows' = Append(windows, b) /\ windows \in Seq(Boundary)
    BY <1>5 DEF Flush, WindowerInv, WindowerTypeOK, Boundary
  <2>2. /\ Len(windows') = Len(windows) + 1 /\ windows'[Len(windows) + 1] = b
        /\ \A i \in 1..Len(windows) : windows'[i] = windows[i]
        /\ windows' # <<>> /\ windows' \in Seq(Boundary)
        /\ windows # <<>> => Len(windows) \in 1..Len(windows)
    BY <2>1, BoundaryAppended
  <2>3. WindowerTypeOK'
    BY <1>5, <2>2 DEF Flush, WindowerInv, WindowerTypeOK
  <2>4. CursorInv'
    BY <1>5 DEF Flush, CursorInv
  <2>5. done \in Nat /\ b.start <= done
    BY <1>5, <2>2 DEF Flush, WindowerInv, WindowerTypeOK, CursorInv
  <2>6. \A t \in 0..(done - 1) :
          \E i \in 1..Len(windows) : windows[i].start <= t /\ t < windows[i].end
    BY DEF WindowerInv, PrefixInv, Covered
  <2>7. \A t \in 0..(b.end - 1) :
          \E i \in 1..Len(windows') : windows'[i].start <= t /\ t < windows'[i].end
    <3> HIDE DEF b, done
    <3> QED BY <2>1, <2>5, <2>6, PrefixGrows
  <2>8. PrefixInv' /\ TailInv'
    BY <1>5, <2>2, <2>7 DEF PrefixInv, TailInv, Covered, Flush
  <2>9. WindowsAdvance'
    <3> SUFFICES ASSUME NEW i \in 1..Len(windows)
                 PROVE  /\ windows'[i + 1].start = windows'[i].end - OverlapTokens
                        /\ windows'[i + 1].end > windows'[i].end
      BY <2>2 DEF WindowsAdvance
    <3>1. CASE i = Len(windows)
      <4>1. windows # <<>> /\ phase = "feed"
        BY <1>5, <3>1 DEF Flush, WindowerInv, WindowerTypeOK
      <4>2. /\ windows[i].end = last_full_end
            /\ last_full_end = next_start + OverlapTokens
            /\ last_full_end <= token_count
        BY <3>1, <4>1 DEF WindowerInv, CursorInv
      <4>3. last_full_end # token_count
        BY <1>5 DEF NoTail
      <4>4. windows'[i] = windows[i] /\ windows'[i + 1] = b
        BY <2>2, <3>1
      <4> QED BY <4>2, <4>3, <4>4 DEF WindowerInv, WindowerTypeOK
    <3>2. CASE i < Len(windows)
      <4>1. i + 1 \in 1..Len(windows) /\ i \in 1..(Len(windows) - 1)
        BY <3>2 DEF WindowerInv, WindowerTypeOK
      <4> QED BY <2>2, <4>1 DEF WindowerInv, WindowsAdvance
    <3> QED BY <3>1, <3>2 DEF WindowerInv, WindowerTypeOK
  <2>10. NoWindowWaits'
    BY <1>5, <2>2 DEF Flush, WindowerInv, WindowerTypeOK, CursorInv, NoWindowWaits
  <2> QED BY <2>3, <2>4, <2>8, <2>9, <2>10 DEF WindowerInv
<1>6. CASE Raise
  BY <1>6 DEF WindowerInv, WindowerTypeOK, CursorInv, PrefixInv, TailInv, WindowsAdvance,
              NoWindowWaits, Covered, Raise
<1>7. CASE Reset
  BY <1>7 DEF WindowerInv, WindowerTypeOK, CursorInv, PrefixInv, TailInv, WindowsAdvance,
              NoWindowWaits, Covered, Reset
<1>8. CASE UNCHANGED windowerVars
  BY <1>8 DEF WindowerInv, WindowerTypeOK, CursorInv, PrefixInv, TailInv, WindowsAdvance,
              NoWindowWaits, Covered, windowerVars
<1> QED
  BY <1>1, <1>2, <1>3, <1>4, <1>5, <1>6, <1>7, <1>8 DEF WindowerNext

\* The strengthened invariant holds in every reachable state.
THEOREM WindowerInvariance == WindowerSpec => []WindowerInv
BY WindowerInitInv, WindowerNextInv, PTL DEF WindowerSpec

\* No token of a turn is lost by the cutter (StreamingWindower.flush).
THEOREM TurnCovered == WindowerSpec => []FlushCoversTheTurn
<1>1. WindowerInv => FlushCoversTheTurn
  BY DEF WindowerInv, PrefixInv, TailInv, FlushCoversTheTurn
<1> QED BY <1>1, WindowerInvariance, PTL

\* Consecutive windows share the overlap and nothing else.
THEOREM WindowsOverlap == WindowerSpec => []WindowsAdvance
<1>1. WindowerInv => WindowsAdvance
  BY DEF WindowerInv
<1> QED BY <1>1, WindowerInvariance, PTL

\* Every window but the tail is full, and none waits between two calls.
THEOREM WindowsAreFull == WindowerSpec => []NoWindowWaits
<1>1. WindowerInv => NoWindowWaits
  BY DEF WindowerInv
<1> QED BY <1>1, WindowerInvariance, PTL
=============================================================================
