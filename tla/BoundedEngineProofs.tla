------------------------- MODULE BoundedEngineProofs -------------------------
(***************************************************************************)
(* For every budget, checkpoint interval and length of the turns, the hot  *)
(* state is the beginning of the window, and its keys stand as far apart   *)
(* as their tokens do.                                                     *)
(***************************************************************************)
EXTENDS BoundedEngine, SequenceTheorems, TLAPS

\* What the larger of two numbers is.
LEMMA LargerFacts ==
  \A m, n \in Int : /\ Larger(m, n) \in Int /\ Larger(m, n) >= m /\ Larger(m, n) >= n
                    /\ Larger(m, n) = m \/ Larger(m, n) = n
BY DEF Larger

\* The tokens of the window, and those of them behind the first n.
LEMMA WindowFacts ==
  ASSUME TypeOK, start <= total
  PROVE  /\ Window \in Seq(Token) /\ Len(Window) = total - start
         /\ \A i \in 1..(total - start) : Window[i] = start + i
<1>1. total - start \in Nat /\ start \in Nat
  BY DEF TypeOK
<1>2. \A i \in 1..(total - start) : start + i \in Token
  BY <1>1 DEF Token
<1> QED BY <1>1, <1>2 DEF Window

\* A part of the window is the tokens at its places.
LEMMA PartFacts ==
  ASSUME TypeOK, start <= total, NEW m \in Nat, NEW n \in 0..(total - start), m <= n
  PROVE  /\ SubSeq(Window, m + 1, n) \in Seq(Token)
         /\ Len(SubSeq(Window, m + 1, n)) = n - m
         /\ \A i \in 1..(n - m) : SubSeq(Window, m + 1, n)[i] = start + m + i
<1>1. total - start \in Nat /\ start \in Nat
  BY DEF TypeOK
<1>2. \A i \in 1..(total - start) : Window[i] = start + i /\ Window[i] \in Token
  BY <1>1, WindowFacts DEF Token
<1>3. \A i \in (m + 1)..n : Window[i] \in Token
  BY <1>1, <1>2
<1>4. m + 1 \in Int /\ n \in Int
  OBVIOUS
<1>5. /\ SubSeq(Window, m + 1, n) \in Seq(Token)
      /\ Len(SubSeq(Window, m + 1, n)) = IF m + 1 <= n THEN n - (m + 1) + 1 ELSE 0
      /\ \A i \in 1..(n - (m + 1) + 1) : SubSeq(Window, m + 1, n)[i] = Window[(m + 1) + i - 1]
  BY <1>3, <1>4, SubSeqProperties
<1>6. \A i \in 1..(n - m) : Window[(m + 1) + i - 1] = start + m + i
  BY <1>1, <1>2
<1> QED BY <1>5, <1>6

\* The tokens behind the first n.
LEMMA BehindFacts ==
  ASSUME TypeOK, start <= total, NEW n \in 0..(total - start)
  PROVE  /\ UncachedBehind(n) \in Seq(Token) /\ Len(UncachedBehind(n)) = total - start - n
         /\ \A i \in 1..(total - start - n) : UncachedBehind(n)[i] = start + n + i
<1>1. total - start \in 0..(total - start) /\ n \in Nat /\ n <= total - start
  BY DEF TypeOK
<1>2. UncachedBehind(n) = SubSeq(Window, n + 1, total - start)
  BY WindowFacts DEF UncachedBehind
<1> QED BY <1>1, <1>2, PartFacts

\* The entries of the tokens q with positions from p on.
LEMMA EntriesFacts ==
  ASSUME NEW q \in Seq(Token), NEW p \in Int
  PROVE  /\ Entries(q, p) \in Seq(Entry) /\ Len(Entries(q, p)) = Len(q)
         /\ \A i \in 1..Len(q) : Entries(q, p)[i].token = q[i] /\ Entries(q, p)[i].at = p + i - 1
<1>1. Len(q) \in Nat /\ \A i \in 1..Len(q) : q[i] \in Token
  BY LenProperties, ElementOfSeq
<1>2. \A i \in 1..Len(q) : [token |-> q[i], at |-> p + i - 1] \in Entry
  BY <1>1 DEF Entry
<1>3. /\ Entries(q, p) \in Seq(Entry) /\ Len(Entries(q, p)) = Len(q)
      /\ \A i \in 1..Len(q) : Entries(q, p)[i] = [token |-> q[i], at |-> p + i - 1]
  BY <1>1, <1>2 DEF Entries
<1>4. ASSUME NEW i \in 1..Len(q)
      PROVE  Entries(q, p)[i].token = q[i] /\ Entries(q, p)[i].at = p + i - 1
  <2>1. Entries(q, p)[i] = [token |-> q[i], at |-> p + i - 1]
    BY <1>3
  <2> QED BY <2>1
<1> QED BY <1>3, <1>4

\* A rotation moves the keys and leaves the tokens.
LEMMA RotatedFacts ==
  ASSUME NEW h \in Seq(Entry), NEW p \in Int
  PROVE  /\ Rotated(h, p) \in Seq(Entry) /\ Len(Rotated(h, p)) = Len(h)
         /\ \A i \in 1..Len(h) : /\ Rotated(h, p)[i].token = h[i].token
                                 /\ Rotated(h, p)[i].at = p - Len(h) + i - 1
<1>1. Len(h) \in Nat /\ \A i \in 1..Len(h) : h[i] \in Entry
  BY LenProperties, ElementOfSeq
<1>2. \A i \in 1..Len(h) : [h[i] EXCEPT !.at = p - Len(h) + i - 1] \in Entry
  <2>1. \A i \in 1..Len(h) : h[i] \in Entry /\ p - Len(h) + i - 1 \in Int
    BY <1>1
  <2>2. \A e \in Entry, n \in Int : [e EXCEPT !.at = n] \in Entry
    BY DEF Entry
  <2> QED BY <2>1, <2>2
<1>3. /\ Rotated(h, p) \in Seq(Entry) /\ Len(Rotated(h, p)) = Len(h)
      /\ \A i \in 1..Len(h) : Rotated(h, p)[i] = [h[i] EXCEPT !.at = p - Len(h) + i - 1]
  BY <1>1, <1>2 DEF Rotated
<1>4. ASSUME NEW e \in Entry, NEW n \in Int
      PROVE  [e EXCEPT !.at = n].token = e.token /\ [e EXCEPT !.at = n].at = n
  BY DEF Entry
<1>5. \A i \in 1..Len(h) : p - Len(h) + i - 1 \in Int
  BY <1>1
<1>6. ASSUME NEW i \in 1..Len(h)
      PROVE  Rotated(h, p)[i].token = h[i].token /\ Rotated(h, p)[i].at = p - Len(h) + i - 1
  <2>1. h[i] \in Entry /\ p - Len(h) + i - 1 \in Int
    BY <1>1, <1>5
  <2>2. Rotated(h, p)[i] = [h[i] EXCEPT !.at = p - Len(h) + i - 1]
    BY <1>3
  <2> HIDE <1>3
  <2> QED BY <1>4, <2>1, <2>2
<1> QED BY <1>3, <1>6

\* Without its first n entries a hot state goes on where they ended.
LEMMA CutFacts ==
  ASSUME NEW h \in Seq(Entry), NEW n \in Nat
  PROVE  /\ SubSeq(h, n + 1, Len(h)) \in Seq(Entry)
         /\ Len(SubSeq(h, n + 1, Len(h))) = IF n <= Len(h) THEN Len(h) - n ELSE 0
         /\ \A i \in 1..(Len(h) - n) : SubSeq(h, n + 1, Len(h))[i] = h[n + i]
<1>1. Len(h) \in Nat /\ \A i \in 1..Len(h) : h[i] \in Entry
  BY LenProperties, ElementOfSeq
<1>2. n + 1 \in Int /\ Len(h) \in Int /\ \A i \in (n + 1)..Len(h) : h[i] \in Entry
  BY <1>1
<1>3. /\ SubSeq(h, n + 1, Len(h)) \in Seq(Entry)
      /\ Len(SubSeq(h, n + 1, Len(h))) = IF n + 1 <= Len(h) THEN Len(h) - (n + 1) + 1 ELSE 0
      /\ \A i \in 1..(Len(h) - (n + 1) + 1) : SubSeq(h, n + 1, Len(h))[i] = h[(n + 1) + i - 1]
  BY <1>2, SubSeqProperties
<1>4. \A i \in 1..(Len(h) - n) : (n + 1) + i - 1 = n + i
  OBVIOUS
<1> QED BY <1>1, <1>3, <1>4

-----------------------------------------------------------------------------
(* What the three ways to build a hot state make.                          *)

\* A sequence without its last element.
LEMMA ButLastFacts ==
  ASSUME NEW h \in Seq(Entry), h # <<>>
  PROVE  /\ SubSeq(h, 1, Len(h) - 1) \in Seq(Entry)
         /\ Len(SubSeq(h, 1, Len(h) - 1)) = Len(h) - 1
         /\ \A i \in 1..(Len(h) - 1) : SubSeq(h, 1, Len(h) - 1)[i] = h[i]
<1> DEFINE n == Len(h)
           g == SubSeq(h, 1, n - 1)
<1>1. n \in Nat \ {0} /\ \A i \in 1..n : h[i] \in Entry
  BY EmptySeq, ElementOfSeq
<1> HIDE DEF n
<1>2. 1 \in Int /\ n - 1 \in Int /\ \A i \in 1..(n - 1) : h[i] \in Entry
  BY <1>1
<1>3. /\ g \in Seq(Entry) /\ Len(g) = IF 1 <= n - 1 THEN (n - 1) - 1 + 1 ELSE 0
      /\ \A i \in 1..((n - 1) - 1 + 1) : g[i] = h[1 + i - 1]
  BY <1>2, SubSeqProperties
<1> HIDE DEF g
<1>4. Len(g) = n - 1
  BY <1>1, <1>3
<1>5. \A i \in 1..(n - 1) : g[i] = h[i]
  <2>1. \A i \in 1..(n - 1) : i \in 1..((n - 1) - 1 + 1) /\ 1 + i - 1 = i
    BY <1>1
  <2> QED BY <1>3, <2>1, Zenon
<1> QED BY <1>3, <1>4, <1>5 DEF g, n

\* Concatenation, element by element.
LEMMA JoinFacts ==
  ASSUME NEW h \in Seq(Entry), NEW g \in Seq(Entry)
  PROVE  /\ h \o g \in Seq(Entry) /\ Len(h \o g) = Len(h) + Len(g)
         /\ \A i \in 1..(Len(h) + Len(g)) :
              (h \o g)[i] = IF i <= Len(h) THEN h[i] ELSE g[i - Len(h)]
BY ConcatProperties

\* A hot state that follows first is extended by the tokens behind it.
LEMMA FollowJoin ==
  ASSUME NEW h \in Seq(Entry), NEW g \in Seq(Entry), NEW first \in Int,
         Follow(h, first), Follow(g, first + Len(h))
  PROVE  Follow(h \o g, first)
<1>1. Len(h) \in Nat /\ Len(g) \in Nat
  BY LenProperties
<1>2. ASSUME NEW i \in 1..(Len(h) + Len(g)) PROVE (h \o g)[i].token = first + i
  <2>1. CASE i <= Len(h)
    BY <1>1, <2>1, JoinFacts DEF Follow
  <2>2. CASE i > Len(h)
    <3>1. i - Len(h) \in 1..Len(g) /\ (h \o g)[i] = g[i - Len(h)]
      BY <1>1, <2>2, JoinFacts
    <3> QED BY <1>1, <3>1 DEF Follow
  <2> QED BY <1>1, <2>1, <2>2
<1> QED BY <1>2, JoinFacts DEF Follow

\* Keys that stand from 0 on are extended by keys that go on behind them.
LEMMA CountedJoin ==
  ASSUME NEW h \in Seq(Entry), NEW q \in Seq(Token),
         \A i \in 1..Len(h) : h[i].at = i - 1
  PROVE  \A i \in 1..Len(h \o Entries(q, Len(h))) : (h \o Entries(q, Len(h)))[i].at = i - 1
<1> DEFINE g == Entries(q, Len(h))
<1>1. Len(h) \in Nat /\ Len(h) \in Int /\ Len(q) \in Nat
  BY LenProperties
<1>2. /\ g \in Seq(Entry) /\ Len(g) = Len(q)
      /\ \A i \in 1..Len(q) : g[i].token = q[i] /\ g[i].at = Len(h) + i - 1
  BY <1>1, EntriesFacts
<1> HIDE DEF g
<1>3. ASSUME NEW i \in 1..(Len(h) + Len(g)) PROVE (h \o g)[i].at = i - 1
  <2>1. CASE i <= Len(h)
    BY <1>1, <1>2, <2>1, JoinFacts
  <2>2. CASE i > Len(h)
    <3>1. i - Len(h) \in 1..Len(g) /\ (h \o g)[i] = g[i - Len(h)]
      BY <1>1, <1>2, <2>2, JoinFacts
    <3>2. g[i - Len(h)].at = Len(h) + (i - Len(h)) - 1
      BY <1>2, <3>1
    <3> QED BY <1>1, <3>1, <3>2
  <2> QED BY <1>1, <1>2, <2>1, <2>2
<1> QED BY <1>2, <1>3, JoinFacts DEF g

\* The entries of consecutive tokens follow the token before them, and stand
\* where their tokens do when they begin at its place.
LEMMA EntriesFollow ==
  ASSUME NEW q \in Seq(Token), NEW first \in Nat, NEW p \in Int,
         \A i \in 1..Len(q) : q[i] = first + i
  PROVE  /\ Follow(Entries(q, p), first)
         /\ p = first => \A i \in 1..Len(q) : Entries(q, p)[i].at = Entries(q, p)[i].token - 1
<1>1. Len(q) \in Nat
  BY LenProperties
<1>2. /\ Len(Entries(q, p)) = Len(q)
      /\ \A i \in 1..Len(q) : Entries(q, p)[i].token = q[i] /\ Entries(q, p)[i].at = p + i - 1
  BY EntriesFacts
<1>3. ASSUME NEW i \in 1..Len(q)
      PROVE  /\ Entries(q, p)[i].token = first + i
             /\ p = first => Entries(q, p)[i].at = Entries(q, p)[i].token - 1
  <2>1. Entries(q, p)[i].token = q[i] /\ Entries(q, p)[i].at = p + i - 1
    BY <1>2
  <2> QED BY <1>1, <2>1
<1> QED BY <1>2, <1>3 DEF Follow

\* What _ensure_rs, _ensure_kv_direct and the generators make of a hot state
\* h that follows first and of the tokens q behind it.
LEMMA ExtendedFacts ==
  ASSUME NEW h \in Seq(Entry), NEW q \in Seq(Token), NEW p \in Int
  PROVE  /\ Extended(h, q, p) \in Seq(Entry) /\ Len(Extended(h, q, p)) = Len(h) + Len(q)
         /\ \A first \in Nat :
              Follow(h, first) /\ (\A i \in 1..Len(q) : q[i] = first + Len(h) + i) =>
                Follow(Extended(h, q, p), first)
         /\ mode = "rs" =>
              \A i \in 1..(Len(h) + Len(q)), j \in 1..(Len(h) + Len(q)) :
                Extended(h, q, p)[i].at - Extended(h, q, p)[j].at = i - j
         /\ mode # "rs" => Extended(h, q, p) = h \o Entries(q, p)
<1> DEFINE g == Entries(q, p)
           r == h \o g
<1>1. Len(h) \in Nat /\ Len(q) \in Nat /\ p + Len(q) \in Int
  BY LenProperties
<1>2. g \in Seq(Entry) /\ Len(g) = Len(q)
  BY EntriesFacts
<1>3. r \in Seq(Entry) /\ Len(r) = Len(h) + Len(q)
  <2> HIDE DEF g
  <2> QED BY <1>2, JoinFacts
<1>4. ASSUME NEW first \in Nat, Follow(h, first),
             \A i \in 1..Len(q) : q[i] = first + Len(h) + i
      PROVE  Follow(r, first)
  <2>1. first + Len(h) \in Nat /\ first \in Int
    BY <1>1
  <2>2. Follow(g, first + Len(h))
    BY <1>4, <2>1, EntriesFollow
  <2> HIDE DEF g
  <2> QED BY <1>2, <1>4, <2>1, <2>2, FollowJoin
<1>5. Extended(h, q, p) = IF mode = "rs" THEN Rotated(r, p + Len(q)) ELSE r
  BY DEF Extended
<1> HIDE DEF g, r
<1>6. CASE mode = "rs"
  <2> DEFINE e == p + Len(q)
             t == Rotated(r, e)
  <2>1. e \in Int
    BY <1>1
  <2> HIDE DEF e
  <2>a. /\ t \in Seq(Entry) /\ Len(t) = Len(r)
        /\ \A i \in 1..Len(r) : t[i].token = r[i].token /\ t[i].at = e - Len(r) + i - 1
    BY <1>3, <2>1, RotatedFacts
  <2>2. Extended(h, q, p) = t
    BY <1>5, <1>6 DEF e
  <2> HIDE DEF t
  <2>3. /\ t \in Seq(Entry) /\ Len(t) = Len(h) + Len(q)
        /\ \A i \in 1..Len(t) : t[i].token = r[i].token /\ t[i].at = e - Len(t) + i - 1
    BY <1>3, <2>a
  <2>4. ASSUME NEW first \in Nat, Follow(h, first),
               \A i \in 1..Len(q) : q[i] = first + Len(h) + i
        PROVE  Follow(t, first)
    <3>1. Follow(r, first)
      BY <1>4, <2>4
    <3> QED BY <1>3, <2>3, <3>1 DEF Follow
  <2>5. ASSUME NEW i \in 1..(Len(h) + Len(q)), NEW j \in 1..(Len(h) + Len(q))
        PROVE  t[i].at - t[j].at = i - j
    <3>1. t[i].at = e - Len(t) + i - 1 /\ t[j].at = e - Len(t) + j - 1 /\ Len(t) \in Int
      BY <1>1, <2>3
    <3> QED BY <2>1, <3>1
  <2> QED BY <1>6, <2>2, <2>3, <2>4, <2>5
<1>7. CASE mode # "rs"
  <2>1. Extended(h, q, p) = r
    BY <1>5, <1>7
  <2>2. r = h \o Entries(q, p)
    BY DEF r, g
  <2> QED BY <1>3, <1>4, <1>7, <2>1, <2>2
<1> QED BY <1>6, <1>7

-----------------------------------------------------------------------------
(* The invariant.                                                          *)

\* A new conversation satisfies the invariant.
LEMMA InitInv == Init => IInv
<1> SUFFICES ASSUME Init PROVE IInv
  OBVIOUS
<1>1. <<>> \in Seq(Entry)
  BY EmptySeq
<1>2. TypeOK
  BY <1>1 DEF Init, TypeOK
<1> QED BY <1>2 DEF Init, IInv, WindowInv, HotInv

\* The facts of the constants.
LEMMA Sizes == MaxHot \in Nat /\ MaxHot >= 1 /\ Interval \in Nat /\ Interval >= 1
BY BoundedEngineAssumption

\* The last checkpoint is the old one or of a token just generated.
LEMMA StoredFacts ==
  ASSUME TypeOK, NEW n \in Nat
  PROVE  Stored(n) = ckpt \/ (Stored(n) \in Nat /\ total < Stored(n) /\ Stored(n) <= n)
<1>1. Interval \in Nat /\ Interval >= 1 /\ total \in Nat
  BY Sizes DEF TypeOK
<1>2. n % Interval \in Nat
  BY <1>1
<1> QED BY <1>1, <1>2 DEF Stored

\* A turn begins: the window keeps room for its answer, and a KV state that
\* cannot slide is given up.
LEMMA BeginTurnInv ==
  ASSUME IInv, NEW prompt \in Nat, NEW max \in Nat, BeginTurn(prompt, max)
  PROVE  IInv'
<1>1. TypeOK /\ WindowInv /\ HotInv
  BY DEF IInv
<1>2. total \in Nat /\ start \in Nat /\ ckpt \in Nat /\ count \in Nat /\ hotStart \in Nat
  BY <1>1 DEF TypeOK
<1>3. /\ EffectiveMax(max) \in Nat /\ EffectiveMax(max) >= 1
      /\ EffectiveMax(max) = Larger(1, MaxHot - max)
  BY Sizes DEF EffectiveMax, Larger
<1>4. /\ total' = total + prompt /\ (prompt > 0 \/ total > 0)
      /\ start' = Larger(start, total' - EffectiveMax(max))
      /\ pc = "idle" /\ pc' = "ensure" /\ headroom' = max
      /\ UNCHANGED <<mode, hotStart, cache, next, shifted, faults>>
  BY DEF BeginTurn
<1>5. /\ total' \in Nat /\ start' \in Nat /\ total' > 0 /\ start <= start' /\ start' < total'
      /\ total' - start' <= EffectiveMax(max) /\ total <= total'
  BY <1>1, <1>2, <1>3, <1>4 DEF Larger, WindowInv
<1>6. /\ ckpt' \in Nat /\ (ckpt' # 0 => start' < ckpt' /\ ckpt' <= total')
  BY <1>1, <1>2, <1>4, <1>5 DEF BeginTurn, WindowInv
<1>7. \/ hot' = <<>> /\ count' = 0 /\ torn' = FALSE
      \/ hot' = hot /\ count' = count /\ torn' = torn /\ (mode = "kv" => start' = start)
  <2>1. CASE start' > start
    BY <2>1 DEF BeginTurn
  <2>2. CASE ~(start' > start)
    <3>1. hot' = hot /\ count' = count /\ torn' = torn
      BY <2>2 DEF BeginTurn
    <3>2. start' = start
      BY <1>2, <1>5, <2>2
    <3> QED BY <3>1, <3>2
  <2> QED BY <2>1, <2>2
<1>8. hot' \in Seq(Entry) /\ count' \in Nat /\ torn' \in BOOLEAN
  <2>1. <<>> \in Seq(Entry)
    BY EmptySeq
  <2>2. hot \in Seq(Entry) /\ count \in Nat /\ torn \in BOOLEAN
    BY <1>1 DEF TypeOK
  <2>3. hot' \in Seq(Entry) /\ count' \in Nat
    <3>1. CASE hot' = <<>> /\ count' = 0
      BY <2>1, <3>1
    <3>2. CASE hot' = hot /\ count' = count
      BY <2>2, <3>2
    <3> QED BY <1>7, <3>1, <3>2
  <2>4. torn' \in BOOLEAN
    BY <1>7, <2>2, Zenon
  <2> QED BY <2>3, <2>4
<1>9. TypeOK'
  BY <1>1, <1>4, <1>5, <1>6, <1>8 DEF TypeOK
<1>10. WindowInv'
  <2>1. mode' = "kv" /\ hot' # <<>> => count' <= total' - start'
    BY <1>1, <1>2, <1>4, <1>5, <1>7 DEF WindowInv
  <2> QED BY <1>3, <1>4, <1>5, <1>6, <2>1 DEF WindowInv, Larger
<1>11. HotInv'
  <2>1. CASE hot' = <<>>
    BY <2>1 DEF HotInv
  <2>2. CASE hot' = hot /\ count' = count /\ torn' = torn /\ (mode = "kv" => start' = start)
    <3>1. HotFirst' = HotFirst
      BY <1>4, <2>2 DEF HotFirst
    <3>2. /\ Placed(hot) => Placed(hot)'
          /\ Follow(hot, HotFirst) => Follow(hot, HotFirst)'
      BY <1>4, <2>2, <3>1 DEF Placed, Follow
    <3> SUFFICES ASSUME ~torn, hot # <<>>
                 PROVE  /\ Len(hot') = count' /\ Follow(hot, HotFirst)' /\ Placed(hot)'
                        /\ HotFirst' <= start' /\ HotFirst' + count' <= total'
      BY <1>4, <2>2 DEF HotInv, Follow
    <3>3. /\ Len(hot) = count /\ Follow(hot, HotFirst) /\ Placed(hot)
          /\ HotFirst <= start /\ HotFirst + count <= total
      BY <1>1 DEF HotInv
    <3>4. HotFirst \in Nat
      BY <1>2 DEF HotFirst
    <3> QED BY <1>2, <1>5, <2>2, <3>1, <3>2, <3>3, <3>4
  <2> QED BY <1>7, <2>1, <2>2
<1> QED BY <1>9, <1>10, <1>11 DEF IInv

\* The type and the length alone.
LEMMA ExtendedType ==
  ASSUME NEW h \in Seq(Entry), NEW q \in Seq(Token), NEW p \in Int
  PROVE  Extended(h, q, p) \in Seq(Entry) /\ Len(Extended(h, q, p)) = Len(h) + Len(q)
BY ExtendedFacts

\* A state that is extended from h, and follows first from then on.
LEMMA HotGrows ==
  ASSUME TypeOK, NEW h \in Seq(Entry), NEW q \in Seq(Token), NEW p \in Nat, NEW first \in Nat,
         Follow(h, first), Placed(h), \A i \in 1..Len(q) : q[i] = first + Len(h) + i,
         mode = "kv" => p = Len(h),
         mode = "kv_direct" => p = first + Len(h)
  PROVE  /\ Extended(h, q, p) \in Seq(Entry) /\ Len(Extended(h, q, p)) = Len(h) + Len(q)
         /\ Follow(Extended(h, q, p), first) /\ Placed(Extended(h, q, p))
<1> DEFINE x == Extended(h, q, p)
<1>1. /\ x \in Seq(Entry) /\ Len(x) = Len(h) + Len(q) /\ Follow(x, first)
      /\ mode = "rs" => \A i \in 1..Len(x), j \in 1..Len(x) : x[i].at - x[j].at = i - j
      /\ mode # "rs" => x = h \o Entries(q, p)
  <2>1. p \in Int
    OBVIOUS
  <2>2. /\ x \in Seq(Entry) /\ Len(x) = Len(h) + Len(q)
        /\ mode = "rs" => \A i \in 1..(Len(h) + Len(q)), j \in 1..(Len(h) + Len(q)) :
                            x[i].at - x[j].at = i - j
        /\ mode # "rs" => x = h \o Entries(q, p)
    BY <2>1, ExtendedFacts
  <2>3. Follow(x, first)
    BY <2>1, ExtendedFacts
  <2> HIDE DEF x
  <2> QED BY <2>2, <2>3
<1> HIDE DEF x
<1>2. ASSUME mode = "kv" PROVE \A i \in 1..Len(x) : x[i].at = i - 1
  <2>1. x = h \o Entries(q, Len(h)) /\ \A i \in 1..Len(h) : h[i].at = i - 1
    BY <1>1, <1>2 DEF Placed
  <2> QED BY <2>1, CountedJoin
<1>3. ASSUME mode = "kv_direct", ~shifted, NEW i \in 1..Len(x)
      PROVE  x[i].at = x[i].token - 1
  <2> DEFINE g == Entries(q, p)
  <2>1. Len(h) \in Nat /\ Len(q) \in Nat /\ first + Len(h) \in Nat
    BY LenProperties
  <2>2. /\ g \in Seq(Entry) /\ Len(g) = Len(q)
        /\ \A k \in 1..Len(q) : g[k].at = g[k].token - 1
    BY <1>3, <2>1, EntriesFacts, EntriesFollow
  <2>3. x = h \o g
    BY <1>1, <1>3
  <2> HIDE DEF g
  <2>4. x[i] = IF i <= Len(h) THEN h[i] ELSE g[i - Len(h)]
    BY <1>1, <2>2, <2>3, JoinFacts
  <2>5. CASE i <= Len(h)
    BY <1>3, <2>4, <2>5 DEF Placed
  <2>6. CASE i > Len(h)
    <3>1. i - Len(h) \in 1..Len(q)
      BY <1>1, <2>1, <2>6
    <3> QED BY <2>2, <2>4, <2>6, <3>1
  <2> QED BY <2>1, <2>5, <2>6
<1>4. Placed(x)
  BY <1>1, <1>2, <1>3 DEF Placed
<1> QED BY <1>1, <1>4 DEF x


\* What the invariant says where a hot state is ensured.
LEMMA EnsureFacts ==
  ASSUME IInv, pc = "ensure"
  PROVE  /\ TypeOK
         /\ total \in Nat /\ start \in Nat /\ count \in Nat /\ hotStart \in Nat
         /\ hot \in Seq(Entry) /\ Len(hot) \in Nat
         /\ start <= total /\ start < total /\ total - start \in Nat
         /\ total - start <= Larger(1, MaxHot - headroom)
         /\ mode = "kv" /\ hot # <<>> => count <= total - start
         /\ ~torn /\ hot # <<>> =>
              /\ Len(hot) = count /\ Follow(hot, HotFirst) /\ Placed(hot)
              /\ HotFirst <= start /\ HotFirst + count <= total
<1>1. TypeOK /\ WindowInv /\ HotInv
  BY DEF IInv
<1>2. /\ total \in Nat /\ start \in Nat /\ count \in Nat /\ hotStart \in Nat
      /\ hot \in Seq(Entry) /\ Len(hot) \in Nat
  BY <1>1, LenProperties DEF TypeOK
<1>3. /\ start < total /\ total - start <= Larger(1, MaxHot - headroom)
      /\ mode = "kv" /\ hot # <<>> => count <= total - start
  BY <1>1 DEF WindowInv
<1>4. start <= total /\ total - start \in Nat
  BY <1>2, <1>3
<1>5. ~torn /\ hot # <<>> =>
        /\ Len(hot) = count /\ Follow(hot, HotFirst) /\ Placed(hot)
        /\ HotFirst <= start /\ HotFirst + count <= total
  BY <1>1 DEF HotInv
<1> QED BY <1>1, <1>2, <1>3, <1>4, <1>5

\* A hot state that was ensured is the whole window.
LEMMA ReadyInv ==
  ASSUME IInv, pc = "ensure", pc' = "generate",
         UNCHANGED <<mode, total, start, ckpt, headroom, torn, faults>>,
         cache' = hot', hot' \in Seq(Entry), hot' # <<>>, count' = total - start,
         next' \in Nat, hotStart' \in Nat, shifted' \in BOOLEAN,
         mode # "kv" => next' = total /\ hotStart' = start,
         ~torn => Len(hot') = total - start /\ Follow(hot', start) /\ Placed(hot)'
  PROVE  IInv'
<1>1. TypeOK /\ WindowInv /\ HotInv
  BY DEF IInv
<1>2. total \in Nat /\ start \in Nat /\ total - start \in Nat
  BY EnsureFacts
<1>3. TypeOK'
  BY <1>1, <1>2 DEF TypeOK
<1>4. WindowInv'
  BY <1>1, <1>2 DEF WindowInv, Larger
<1>5. HotFirst' = start
  BY DEF HotFirst
<1>6. Follow(hot', start) => Follow(hot, HotFirst)'
  BY <1>5 DEF Follow
<1>7. HotInv'
  BY <1>2, <1>5, <1>6 DEF HotInv
<1> QED BY <1>3, <1>4, <1>7 DEF IInv

\* An exception leaves what was assigned, which is consistent or torn.
LEMMA FailedInv ==
  ASSUME IInv, pc = "ensure", pc' = "idle",
         UNCHANGED <<mode, total, start, hot, ckpt, headroom, cache, next, shifted>>,
         count' \in Nat, hotStart' \in Nat, faults' \in Nat, torn' \in BOOLEAN,
         mode = "kv" /\ hot # <<>> => count' <= total - start,
         ~torn' => ~torn /\ (hot # <<>> => count' = count /\ HotFirst = start /\ HotFirst' = start)
  PROVE  IInv'
<1>1. TypeOK /\ WindowInv /\ HotInv
  BY DEF IInv
<1>2. TypeOK'
  BY <1>1 DEF TypeOK
<1>3. WindowInv'
  BY <1>1 DEF WindowInv
<1>4. HotInv'
  <2> SUFFICES ASSUME ~torn', hot # <<>>
               PROVE  /\ Len(hot) = count' /\ Follow(hot, start) /\ Placed(hot)
                      /\ start <= start /\ start + count' <= total
                      /\ headroom < MaxHot => count' <= MaxHot
    <3>1. ~torn' /\ hot # <<>> => HotFirst' = start
      OBVIOUS
    <3>2. Placed(hot) => Placed(hot)'
      BY DEF Placed
    <3>3. ~torn' /\ hot # <<>> /\ Follow(hot, start) => Follow(hot, HotFirst)'
      BY <3>1 DEF Follow
    <3> QED BY <3>1, <3>2, <3>3 DEF HotInv
  <2>1. /\ Len(hot) = count /\ Follow(hot, start) /\ Placed(hot) /\ start + count <= total
        /\ total \in Nat /\ start \in Nat /\ count \in Nat /\ count' = count
        /\ total - start <= Larger(1, MaxHot - headroom)
    BY EnsureFacts
  <2>2. headroom \in Nat
    BY <1>1 DEF TypeOK
  <2>3. headroom < MaxHot => count <= MaxHot
    BY <2>1, <2>2, Sizes DEF Larger
  <2> QED BY <2>1, <2>3
<1> QED BY <1>2, <1>3, <1>4 DEF IInv

\* A turn on a hot KV cache feeds the uncached tokens (_ensure_kv).
LEMMA ExtendKVInv == IInv /\ ExtendKV => IInv'
<1> SUFFICES ASSUME IInv, ExtendKV PROVE IInv'
  OBVIOUS
<1>1. mode = "kv" /\ hot # <<>> /\ pc = "ensure"
  BY DEF ExtendKV
<1>2. /\ TypeOK /\ total \in Nat /\ start \in Nat /\ count \in Nat /\ hotStart \in Nat
      /\ hot \in Seq(Entry) /\ start <= total /\ start < total /\ total - start \in Nat
      /\ count <= total - start
      /\ ~torn => Len(hot) = count /\ Follow(hot, start) /\ Placed(hot)
  BY <1>1, EnsureFacts DEF HotFirst
<1>3. Len(hot) \in Nat /\ Len(hot) >= 1
  BY <1>1, <1>2, EmptySeq
<1>4. count \in 0..(total - start)
  BY <1>2
<1>5. Uncached = UncachedBehind(count)
  BY DEF Uncached, UncachedBehind
<1>6. /\ Uncached \in Seq(Token) /\ Len(Uncached) = total - start - count
      /\ \A i \in 1..(total - start - count) : Uncached[i] = start + count + i
  BY <1>2, <1>4, <1>5, BehindFacts
<1>7. /\ UNCHANGED <<mode, total, start, hotStart, ckpt, headroom, next, torn, shifted, faults>>
      /\ cache' = hot' /\ pc' = "generate" /\ count' = total - start
  BY <1>2, <1>6 DEF ExtendKV
<1>8. next' \in Nat /\ shifted' \in BOOLEAN
  BY <1>2, <1>7 DEF TypeOK
<1>9. CASE Uncached # <<>>
  <2>1. hot' = Extended(hot, Uncached, Len(hot))
    BY <1>1, <1>9 DEF ExtendKV, Extended
  <2>a. hot \in Seq(Entry) /\ Uncached \in Seq(Token) /\ Len(hot) \in Int
    BY <1>2, <1>3, <1>6
  <2>2. hot' \in Seq(Entry) /\ Len(hot') = Len(hot) + Len(Uncached)
    BY <2>1, <2>a, ExtendedType
  <2>3. ASSUME ~torn
        PROVE  Len(hot') = total - start /\ Follow(hot', start) /\ Placed(hot)'
    <3>1. \A i \in 1..Len(Uncached) : Uncached[i] = start + Len(hot) + i
      BY <1>2, <1>6, <2>3
    <3>2. Follow(hot', start) /\ Placed(hot')
      BY <1>1, <1>2, <1>3, <1>6, <2>1, <2>3, <3>1, HotGrows
    <3>3. Placed(hot') => Placed(hot)'
      BY <1>7 DEF Placed
    <3> QED BY <1>2, <1>6, <2>2, <2>3, <3>2, <3>3
  <2>4. hot' # <<>>
    BY <1>3, <1>6, <2>2, <1>2, EmptySeq
  <2> QED BY <1>1, <1>2, <1>7, <1>8, <2>2, <2>3, <2>4, ReadyInv
<1>10. CASE Uncached = <<>>
  <2> DEFINE h == SubSeq(hot, 1, Len(hot) - 1)
             q == <<total>>
  <2>1. q \in Seq(Token) /\ Len(q) = 1 /\ q[1] = total
    BY <1>2 DEF Token
  <2>2. /\ h \in Seq(Entry) /\ Len(h) = Len(hot) - 1
        /\ \A i \in 1..(Len(hot) - 1) : h[i] = hot[i]
    BY <1>1, <1>2, ButLastFacts
  <2>3. hot' = Extended(h, q, Len(h))
    BY <1>1, <1>3, <1>10, <2>2 DEF ExtendKV, Extended
  <2> HIDE DEF h, q
  <2>4. hot' \in Seq(Entry) /\ Len(hot') = Len(hot)
    <3>1. h \in Seq(Entry) /\ q \in Seq(Token) /\ Len(h) \in Int
      BY <1>3, <2>1, <2>2
    <3>2. hot' \in Seq(Entry) /\ Len(hot') = Len(h) + Len(q)
      BY <2>3, <3>1, ExtendedType
    <3> QED BY <1>3, <2>1, <2>2, <3>2
  <2>5. ASSUME ~torn
        PROVE  Len(hot') = total - start /\ Follow(hot', start) /\ Placed(hot)'
    <3>1. Len(hot) = total - start /\ Len(hot) = count
      <4>1. Len(Uncached) = 0
        BY <1>10, EmptySeq
      <4> QED BY <1>2, <1>6, <2>5, <4>1
    <3>2. Follow(h, start)
      <4>1. Follow(hot, start) /\ \A i \in 1..Len(h) : i \in 1..Len(hot) /\ h[i] = hot[i]
        BY <1>2, <1>3, <2>2, <2>5
      <4> QED BY <4>1 DEF Follow
    <3>3. Placed(h)
      <4>1. Placed(hot) /\ \A i \in 1..Len(h) : i \in 1..Len(hot) /\ h[i] = hot[i]
        BY <1>2, <1>3, <2>2, <2>5
      <4> QED BY <1>1, <4>1 DEF Placed
    <3>4. \A i \in 1..Len(q) : q[i] = start + Len(h) + i
      BY <1>2, <2>1, <2>2, <3>1
    <3>5. Follow(hot', start) /\ Placed(hot')
      <4>1. /\ TypeOK /\ h \in Seq(Entry) /\ q \in Seq(Token) /\ Len(h) \in Nat /\ start \in Nat
            /\ mode = "kv"
        BY <1>1, <1>2, <1>3, <2>1, <2>2
      <4> QED BY <2>3, <3>2, <3>3, <3>4, <4>1, HotGrows
    <3>6. Placed(hot') => Placed(hot)'
      BY <1>7 DEF Placed
    <3> QED BY <2>4, <3>1, <3>5, <3>6
  <2>6. hot' # <<>>
    BY <1>3, <2>4, EmptySeq
  <2> QED BY <1>1, <1>2, <1>7, <1>8, <2>4, <2>5, <2>6, ReadyInv
<1> QED BY <1>9, <1>10

\* A turn without a hot cache rebuilds it from the checkpoint or whole (_ensure_kv).
LEMMA RebuildKVInv == IInv /\ RebuildKV => IInv'
<1> SUFFICES ASSUME IInv, RebuildKV PROVE IInv'
  OBVIOUS
<1>1. /\ mode = "kv" /\ hot = <<>> /\ pc = "ensure" /\ cache' = hot' /\ pc' = "generate"
      /\ count' = Len(hot')
      /\ UNCHANGED <<mode, total, start, hotStart, ckpt, headroom, next, torn, shifted, faults>>
  BY DEF RebuildKV
<1>2. /\ TypeOK /\ total \in Nat /\ start \in Nat /\ hotStart \in Nat
      /\ start <= total /\ total - start \in Nat
  BY <1>1, EnsureFacts
<1>3. next' \in Nat /\ shifted' \in BOOLEAN /\ ckpt \in Nat
  BY <1>1, <1>2 DEF TypeOK
<1>4. Window \in Seq(Token) /\ Len(Window) = total - start
  BY <1>2, WindowFacts
<1>5. PICK prefix, suffix :
        /\ prefix = (IF BestCheckpoint THEN SubSeq(Window, 1, ckpt - start) ELSE Window)
        /\ suffix = SubSeq(Window, Len(prefix) + 1, Len(Window))
        /\ hot' = Entries(prefix, 0) \o Entries(suffix, Len(prefix))
  BY DEF RebuildKV
<1>6. PICK n \in 0..(total - start) : prefix = SubSeq(Window, 1, n)
  <2>1. CASE BestCheckpoint
    <3>1. ckpt - start \in 0..(total - start)
      BY <1>2, <1>3, <2>1 DEF BestCheckpoint, IInv, WindowInv
    <3> QED BY <1>5, <2>1, <3>1
  <2>2. CASE ~BestCheckpoint
    <3>1. Window = SubSeq(Window, 1, total - start)
      BY <1>4, SubSeqFull
    <3>2. total - start \in 0..(total - start)
      BY <1>2
    <3> QED BY <1>5, <2>2, <3>1, <3>2
  <2> QED BY <2>1, <2>2
<1>7. prefix \in Seq(Token) /\ Len(prefix) = n /\ \A i \in 1..n : prefix[i] = start + i
  <2>1. 0 \in Nat /\ 0 <= n /\ n \in Nat
    BY <1>2
  <2>2. /\ prefix \in Seq(Token) /\ Len(prefix) = n - 0
        /\ \A i \in 1..(n - 0) : prefix[i] = start + 0 + i
    <3>1. prefix = SubSeq(Window, 0 + 1, n)
      BY <1>6
    <3> QED BY <1>2, <2>1, <3>1, PartFacts
  <2> QED BY <1>2, <2>1, <2>2
<1>8. /\ suffix \in Seq(Token) /\ Len(suffix) = total - start - n
      /\ \A i \in 1..(total - start - n) : suffix[i] = start + n + i
  <2>1. suffix = UncachedBehind(n)
    BY <1>5, <1>7 DEF UncachedBehind
  <2> QED BY <1>2, <2>1, BehindFacts
<1> DEFINE h == Entries(prefix, 0)
<1>9. h \in Seq(Entry) /\ Len(h) = n /\ Follow(h, start) /\ \A i \in 1..n : h[i].at = i - 1
  <2>1. Follow(h, start)
    BY <1>2, <1>7, EntriesFollow
  <2>2. /\ h \in Seq(Entry) /\ Len(h) = Len(prefix)
        /\ \A i \in 1..Len(prefix) : h[i].at = 0 + i - 1
    BY <1>7, EntriesFacts
  <2> HIDE DEF h
  <2> QED BY <1>7, <2>1, <2>2
<1>10. hot' = Extended(h, suffix, n)
  BY <1>1, <1>5, <1>7 DEF Extended
<1> HIDE DEF h
<1>11. /\ hot' \in Seq(Entry) /\ Len(hot') = n + Len(suffix)
       /\ Follow(hot', start) /\ Placed(hot')
  <2>1. Placed(h)
    BY <1>1, <1>9 DEF Placed
  <2>2. \A i \in 1..Len(suffix) : suffix[i] = start + Len(h) + i
    BY <1>8, <1>9
  <2>3. h \in Seq(Entry) /\ suffix \in Seq(Token) /\ n \in Nat /\ start \in Nat /\ TypeOK /\ n = Len(h)
    BY <1>2, <1>8, <1>9
  <2>4. mode = "kv" /\ Follow(h, start)
    BY <1>1, <1>9
  <2> QED BY <1>10, <2>1, <2>2, <2>3, <2>4, HotGrows
<1>12. Placed(hot') => Placed(hot)'
  BY <1>1 DEF Placed
<1>13. Len(hot') = total - start
  BY <1>2, <1>8, <1>11
<1>14. hot' # <<>>
  <2>1. start < total
    BY <1>1, EnsureFacts
  <2> QED BY <1>2, <1>13, <2>1, EmptySeq
<1> QED BY <1>1, <1>2, <1>3, <1>11, <1>12, <1>13, <1>14, ReadyInv

\* A forward that raises between two tokens leaves a count that is ahead.
LEMMA ExtendKVFailsInv ==
  ASSUME IInv, NEW fed \in Nat, ExtendKVFails(fed) PROVE IInv'
<1>1. /\ mode = "kv" /\ hot # <<>> /\ pc = "ensure" /\ pc' = "idle"
      /\ fed \in 0..Len(Uncached) /\ (Uncached # <<>> => fed < Len(Uncached))
      /\ count' = count + fed /\ faults' = faults + 1
      /\ UNCHANGED <<mode, total, start, hot, hotStart, ckpt, headroom, cache, next, shifted>>
  BY DEF ExtendKVFails
<1>2. /\ TypeOK /\ total \in Nat /\ start \in Nat /\ count \in Nat /\ hotStart \in Nat
      /\ start <= total /\ total - start \in Nat /\ count \in 0..(total - start)
  BY <1>1, EnsureFacts
<1>3. Len(Uncached) = total - start - count
  BY <1>2, BehindFacts DEF Uncached, UncachedBehind
<1>4. count' \in Nat /\ count' <= total - start
  BY <1>1, <1>2, <1>3
<1>5. torn' = (torn \/ fed > 0) /\ torn \in BOOLEAN /\ faults' \in Nat
  BY <1>1, <1>2 DEF ExtendKVFails, TypeOK
<1>6. ~torn' => ~torn /\ count' = count
  <2>1. ~torn' => ~torn /\ ~(fed > 0)
    BY <1>5, Zenon
  <2>2. ~(fed > 0) => count' = count
    BY <1>1, <1>2
  <2> QED BY <2>1, <2>2
<1>7. HotFirst = start /\ HotFirst' = start
  BY <1>1 DEF HotFirst
<1>8. torn' \in BOOLEAN
  BY <1>5
<1> QED BY <1>1, <1>2, <1>4, <1>5, <1>6, <1>7, <1>8, FailedInv

-----------------------------------------------------------------------------
(* The two modes whose hot state slides.                                   *)

\* What is left of the hot state once the window has moved is the beginning of
\* the window.
LEMMA SlidFacts ==
  ASSUME IInv, pc = "ensure", mode # "kv", hot # <<>>
  PROVE  /\ Evicted \in Nat /\ SlidCount \in Nat /\ Slid(hot) \in Seq(Entry)
         /\ ~torn => /\ Len(Slid(hot)) = SlidCount /\ SlidCount <= total - start
                     /\ Follow(Slid(hot), start) /\ Placed(Slid(hot))
                     /\ Evicted = start - hotStart
<1>1. /\ total \in Nat /\ start \in Nat /\ count \in Nat /\ hotStart \in Nat
      /\ hot \in Seq(Entry) /\ Len(hot) \in Nat /\ start < total
      /\ ~torn => /\ Len(hot) = count /\ Follow(hot, hotStart) /\ Placed(hot)
                  /\ hotStart <= start /\ hotStart + count <= total
  BY EnsureFacts DEF HotFirst
<1>2. Evicted \in Nat /\ (hotStart <= start => Evicted = start - hotStart)
  BY <1>1 DEF Evicted, Larger
<1>3. SlidCount \in Nat /\ (Evicted <= count => SlidCount = count - Evicted)
      /\ (count < Evicted => SlidCount = 0)
  BY <1>1, <1>2 DEF SlidCount, Larger
<1> DEFINE n == Evicted
           g == Slid(hot)
<1>4. /\ g \in Seq(Entry) /\ Len(g) = IF n <= Len(hot) THEN Len(hot) - n ELSE 0
      /\ \A i \in 1..(Len(hot) - n) : g[i] = hot[n + i]
  BY <1>1, <1>2, CutFacts DEF Slid
<1> HIDE DEF n, g
<1>5. ASSUME ~torn
      PROVE  /\ Len(g) = SlidCount /\ SlidCount <= total - start
             /\ Follow(g, start) /\ Placed(g)
             /\ n = start - hotStart
  <2>1. n \in Nat /\ n = start - hotStart /\ Len(hot) = count
    BY <1>1, <1>2, <1>5 DEF n
  <2>2. Len(g) = SlidCount
    BY <1>1, <1>3, <1>4, <2>1 DEF n
  <2>3. SlidCount <= total - start
    BY <1>1, <1>3, <1>5, <2>1 DEF n
  <2>4. ASSUME NEW i \in 1..Len(g)
        PROVE  n + i \in 1..Len(hot) /\ g[i] = hot[n + i]
    <3>1. i \in 1..(Len(hot) - n)
      BY <1>1, <1>4, <2>1
    <3> QED BY <1>1, <1>4, <2>1, <3>1
  <2>5. Follow(g, start)
    <3>1. ASSUME NEW i \in 1..Len(g) PROVE g[i].token = start + i
      <4>1. hot[n + i].token = hotStart + (n + i)
        BY <1>1, <1>5, <2>4 DEF Follow
      <4> QED BY <1>1, <2>1, <2>4, <4>1
    <3> QED BY <3>1 DEF Follow
  <2>6. Placed(g)
    <3>1. ASSUME mode = "rs", NEW i \in 1..Len(g), NEW j \in 1..Len(g)
          PROVE  g[i].at - g[j].at = i - j
      <4>1. hot[n + i].at - hot[n + j].at = (n + i) - (n + j)
        BY <1>1, <1>5, <2>4, <3>1 DEF Placed
      <4>2. g[i] = hot[n + i] /\ g[j] = hot[n + j]
        BY <2>4
      <4>3. i \in Int /\ j \in Int /\ (n + i) - (n + j) = i - j
        BY <2>1
      <4> QED BY <4>1, <4>2, <4>3
    <3>2. ASSUME mode = "kv_direct", ~shifted, NEW i \in 1..Len(g)
          PROVE  g[i].at = g[i].token - 1
      BY <1>1, <1>5, <2>4, <3>2 DEF Placed
    <3> QED BY <3>1, <3>2 DEF Placed
  <2> QED BY <2>1, <2>2, <2>3, <2>5, <2>6
<1> QED BY <1>2, <1>3, <1>4, <1>5 DEF n, g

\* A turn on a direct hot state slides it and extends it.
LEMMA ExtendDirectInv == IInv /\ ExtendDirect => IInv'
<1> SUFFICES ASSUME IInv, ExtendDirect PROVE IInv'
  OBVIOUS
<1> DEFINE g == Slid(hot)
           n == SlidCount
           q == UncachedBehind(n)
<1>1. /\ mode # "kv" /\ hot # <<>> /\ pc = "ensure" /\ pc' = "generate" /\ cache' = hot'
      /\ q # <<>> /\ hot' = Extended(g, q, AbsStart(n))
      /\ count' = Len(Window) /\ hotStart' = start /\ next' = start + Len(Window)
      /\ UNCHANGED <<mode, total, start, ckpt, headroom, torn, shifted, faults>>
  BY DEF ExtendDirect
<1>2. /\ TypeOK /\ total \in Nat /\ start \in Nat /\ start <= total /\ total - start \in Nat
  BY <1>1, EnsureFacts
<1>3. /\ n \in Nat /\ g \in Seq(Entry)
      /\ ~torn => Len(g) = n /\ Follow(g, start) /\ Placed(g)
  BY <1>1, SlidFacts
<1>4. Len(Window) = total - start
  BY <1>2, WindowFacts
<1>5. n \in 0..(total - start)
  <2>1. CASE n <= total - start
    BY <1>2, <1>3, <2>1
  <2>2. CASE n > total - start
    <3>1. n + 1 \in Int /\ Len(Window) \in Int /\ Len(Window) < n + 1
      BY <1>2, <1>3, <1>4, <2>2
    <3>2. SubSeq(Window, n + 1, Len(Window)) = <<>>
      BY <3>1, SubSeqEmpty
    <3> QED BY <1>1, <3>2 DEF UncachedBehind
  <2> QED BY <1>2, <1>3, <2>1, <2>2
<1>6. /\ q \in Seq(Token) /\ Len(q) = total - start - n
      /\ \A i \in 1..(total - start - n) : q[i] = start + n + i
  BY <1>2, <1>5, BehindFacts
<1>7. AbsStart(n) = start + n /\ AbsStart(n) \in Nat
  BY <1>2, <1>3 DEF AbsStart
<1> HIDE DEF g, n, q
<1>8. hot' \in Seq(Entry) /\ Len(hot') = Len(g) + Len(q)
  <2>1. g \in Seq(Entry) /\ q \in Seq(Token) /\ AbsStart(n) \in Int
    BY <1>3, <1>6, <1>7
  <2> QED BY <1>1, <2>1, ExtendedType
<1>9. ASSUME ~torn
      PROVE  Len(hot') = total - start /\ Follow(hot', start) /\ Placed(hot)'
  <2>1. /\ g \in Seq(Entry) /\ q \in Seq(Token) /\ AbsStart(n) \in Nat /\ start \in Nat /\ TypeOK
        /\ Follow(g, start) /\ Placed(g) /\ mode # "kv" /\ AbsStart(n) = start + Len(g)
    BY <1>1, <1>2, <1>3, <1>6, <1>7, <1>9
  <2>2. \A i \in 1..Len(q) : q[i] = start + Len(g) + i
    BY <1>3, <1>6, <1>9
  <2>3. Follow(hot', start) /\ Placed(hot')
    BY <1>1, <2>1, <2>2, HotGrows
  <2>4. Placed(hot') => Placed(hot)'
    BY <1>1 DEF Placed
  <2>5. Len(hot') = total - start
    BY <1>2, <1>3, <1>5, <1>6, <1>8, <1>9
  <2> QED BY <2>3, <2>4, <2>5
<1>10. next' = total /\ next' \in Nat /\ count' = total - start /\ shifted' \in BOOLEAN
  BY <1>1, <1>2, <1>4 DEF TypeOK
<1>11. hot' # <<>>
  <2>1. Len(q) \in Nat \ {0} /\ Len(g) \in Nat
    BY <1>1, <1>3, <1>6, EmptySeq, LenProperties
  <2> QED BY <1>8, <2>1, EmptySeq
<1> QED BY <1>1, <1>2, <1>8, <1>9, <1>10, <1>11, ReadyInv

\* The slide was counted, and the hot state is as it was.
LEMMA ExtendDirectFailsInv == IInv /\ ExtendDirectFails => IInv'
<1> SUFFICES ASSUME IInv, ExtendDirectFails PROVE IInv'
  OBVIOUS
<1>1. /\ mode # "kv" /\ hot # <<>> /\ pc = "ensure" /\ pc' = "idle"
      /\ count' = SlidCount /\ hotStart' = hotStart + Evicted
      /\ UNCHANGED <<mode, total, start, hot, ckpt, headroom, cache, next, shifted>>
  BY DEF ExtendDirectFails
<1>2. /\ TypeOK /\ total \in Nat /\ start \in Nat /\ count \in Nat /\ hotStart \in Nat
      /\ ~torn => hotStart <= start
  BY <1>1, EnsureFacts DEF HotFirst
<1>3. Evicted \in Nat /\ SlidCount \in Nat
  BY <1>1, SlidFacts
<1>4. count' \in Nat /\ hotStart' \in Nat
  BY <1>1, <1>2, <1>3
<1>5. faults' \in Nat
  <2>1. faults' = faults \/ faults' = faults + 1
    BY DEF ExtendDirectFails
  <2> QED BY <1>2, <2>1 DEF TypeOK
<1>6. torn' = (torn \/ Evicted > 0) /\ torn \in BOOLEAN
  BY <1>2 DEF ExtendDirectFails, TypeOK
<1>7. torn' \in BOOLEAN
  BY <1>6
<1>8. ~torn' => ~torn /\ count' = count /\ HotFirst = start /\ HotFirst' = start
  <2>1. ~torn' => ~torn /\ ~(Evicted > 0)
    BY <1>6, Zenon
  <2>2. ASSUME ~torn, ~(Evicted > 0)
        PROVE  count' = count /\ hotStart = start /\ hotStart' = start
    <3>1. Evicted = 0
      BY <1>3, <2>2
    <3>2. hotStart = start
      BY <1>2, <2>2, <3>1 DEF Evicted, Larger
    <3>3. SlidCount = count
      BY <1>2, <3>1 DEF SlidCount, Larger
    <3> QED BY <1>1, <1>2, <3>1, <3>2, <3>3
  <2> QED BY <1>1, <2>1, <2>2 DEF HotFirst
<1> QED BY <1>1, <1>4, <1>5, <1>7, <1>8, FailedInv

\* A turn without a direct hot state prefills the window.
LEMMA PrefillDirectInv == IInv /\ PrefillDirect => IInv'
<1> SUFFICES ASSUME IInv, PrefillDirect PROVE IInv'
  OBVIOUS
<1>1. /\ mode # "kv" /\ hot = <<>> /\ pc = "ensure" /\ pc' = "generate" /\ cache' = hot'
      /\ hot' = Entries(Window, 0) /\ shifted' = (start > 0)
      /\ count' = Len(Window) /\ hotStart' = start /\ next' = start + Len(Window)
      /\ UNCHANGED <<mode, total, start, ckpt, headroom, torn, faults>>
  BY DEF PrefillDirect
<1>2. /\ TypeOK /\ total \in Nat /\ start \in Nat /\ start <= total /\ total - start \in Nat
  BY <1>1, EnsureFacts
<1>3. /\ Window \in Seq(Token) /\ Len(Window) = total - start
      /\ \A i \in 1..(total - start) : Window[i] = start + i
  BY <1>2, WindowFacts
<1> DEFINE w == Window
<1>4. /\ hot' \in Seq(Entry) /\ Len(hot') = total - start
      /\ \A i \in 1..(total - start) : hot'[i].token = w[i] /\ hot'[i].at = 0 + i - 1
  BY <1>1, <1>3, EntriesFacts
<1>5. \A i \in 1..(total - start) : hot'[i].token = start + i /\ hot'[i].at = i - 1
  BY <1>3, <1>4
<1>6. Follow(hot', start)
  BY <1>4, <1>5 DEF Follow
<1>7. Placed(hot)'
  <2>1. ASSUME NEW i \in 1..(total - start), NEW k \in 1..(total - start)
        PROVE  hot'[i].at - hot'[k].at = i - k
    BY <1>5
  <2>2. ASSUME ~(start > 0), NEW i \in 1..(total - start)
        PROVE  hot'[i].at = hot'[i].token - 1
    BY <1>2, <1>5, <2>2
  <2> QED BY <1>1, <1>4, <2>1, <2>2 DEF Placed
<1>8. next' = total /\ next' \in Nat /\ count' = total - start /\ shifted' \in BOOLEAN
  BY <1>1, <1>2, <1>3
<1>9. hot' # <<>>
  <2>1. start < total
    BY <1>1, EnsureFacts
  <2> QED BY <1>2, <1>4, <2>1, EmptySeq
<1> QED BY <1>1, <1>2, <1>4, <1>6, <1>7, <1>8, <1>9, ReadyInv

\* A rebuild or prefill that raises has assigned nothing.
LEMMA RebuildFailsInv == IInv /\ RebuildFails => IInv'
<1> SUFFICES ASSUME IInv, RebuildFails PROVE IInv'
  OBVIOUS
<1>1. /\ hot = <<>> /\ pc = "ensure" /\ pc' = "idle" /\ faults' = faults + 1
      /\ UNCHANGED <<mode, stateVars, headroom, cache, next, torn, shifted>>
  BY DEF RebuildFails
<1>2. TypeOK /\ faults \in Nat /\ torn \in BOOLEAN /\ count \in Nat /\ hotStart \in Nat
  BY <1>1, EnsureFacts DEF TypeOK
<1>3. faults' \in Nat
  BY <1>1, <1>2
<1> QED BY <1>1, <1>2, <1>3, FailedInv DEF stateVars

-----------------------------------------------------------------------------
(* The answer.                                                             *)

\* The checkpoint that is kept is of a token of the window.
LEMMA CheckpointStays ==
  ASSUME IInv, pc = "generate", NEW m \in Nat, NEW n \in Nat, n <= m, total <= m
  PROVE  Stored(n) \in Nat /\ (Stored(n) # 0 => start < Stored(n) /\ Stored(n) <= m)
<1>1. /\ TypeOK /\ total \in Nat /\ start \in Nat /\ ckpt \in Nat /\ start <= total
      /\ ckpt # 0 => start < ckpt /\ ckpt <= total
  BY DEF IInv, WindowInv, TypeOK
<1>2. Stored(n) = ckpt \/ (Stored(n) \in Nat /\ total < Stored(n) /\ Stored(n) <= n)
  BY <1>1, StoredFacts
<1> QED BY <1>1, <1>2

\* A generation that raises leaves the tokens counted so far in the window.
LEMMA GenerateFailsInv ==
  ASSUME IInv, NEW n \in Nat, GenerateFails(n) PROVE IInv'
<1>1. /\ pc = "generate" /\ n \in 1..headroom /\ total' = total + n /\ count' = count + n
      /\ ckpt' \in {Stored(total' - 1), Stored(total')} /\ torn' = TRUE
      /\ pc' = "idle" /\ cache' = <<>> /\ next' = 0 /\ faults' = faults + 1
      /\ UNCHANGED <<mode, start, hot, hotStart, headroom, shifted>>
  BY DEF GenerateFails
<1>2. TypeOK /\ WindowInv
  BY DEF IInv
<1>3. total \in Nat /\ start \in Nat /\ start < total /\ count \in Nat /\ faults \in Nat
  BY <1>1, <1>2 DEF TypeOK, WindowInv
<1>4. total' \in Nat /\ total' - 1 \in Nat /\ total <= total' /\ total' > 0 /\ start < total'
  BY <1>1, <1>3
<1>5. ckpt' \in Nat /\ (ckpt' # 0 => start < ckpt' /\ ckpt' <= total')
  <2>1. total' - 1 <= total' /\ total' <= total'
    <3>1. \A t \in Nat : t - 1 <= t /\ t <= t
      OBVIOUS
    <3> QED BY <1>4, <3>1
  <2>2. CASE ckpt' = Stored(total' - 1)
    BY <1>1, <1>4, <2>1, <2>2, CheckpointStays
  <2>3. CASE ckpt' = Stored(total')
    BY <1>1, <1>4, <2>1, <2>3, CheckpointStays
  <2> QED BY <1>1, <2>2, <2>3
<1>6. <<>> \in Seq(Entry)
  BY EmptySeq
<1>7. TypeOK'
  BY <1>1, <1>2, <1>3, <1>4, <1>5, <1>6 DEF TypeOK
<1>8. mode = "kv" => count + n <= (total + n) - start
  BY <1>1, <1>2, <1>3 DEF WindowInv
<1>9. WindowInv'
  BY <1>1, <1>3, <1>4, <1>5, <1>8 DEF WindowInv
<1>10. HotInv'
  BY <1>1 DEF HotInv
<1> QED BY <1>7, <1>9, <1>10 DEF IInv

\* A generation counts and appends its tokens and moves the checkpoint.
LEMMA GenerateInv == IInv /\ Generate => IInv'
<1> SUFFICES ASSUME IInv, Generate PROVE IInv'
  OBVIOUS
<1> DEFINE q == Generated(headroom)
           p == IF mode = "kv" THEN Len(cache) ELSE next
<1>1. /\ pc = "generate" /\ total' = total + headroom /\ count' = count + headroom
      /\ hot' = (IF headroom = 0 THEN cache ELSE Extended(cache, q, p))
      /\ ckpt' = Stored(total') /\ pc' = "idle" /\ cache' = <<>> /\ next' = 0
      /\ UNCHANGED <<mode, start, hotStart, headroom, torn, shifted, faults>>
  BY DEF Generate
<1>2. TypeOK /\ WindowInv /\ HotInv
  BY DEF IInv
<1>3. /\ total \in Nat /\ start \in Nat /\ start < total /\ count \in Nat /\ headroom \in Nat
      /\ hot \in Seq(Entry) /\ Len(hot) \in Nat /\ hotStart \in Nat
      /\ cache = hot /\ hot # <<>> /\ count = total - start /\ (mode # "kv" => next = total)
      /\ total - start <= Larger(1, MaxHot - headroom)
  BY <1>1, <1>2, LenProperties DEF TypeOK, WindowInv
<1>4. total' \in Nat /\ total <= total' /\ total' > 0 /\ start < total' /\ total' <= total'
  BY <1>1, <1>3
<1>5. ckpt' \in Nat /\ (ckpt' # 0 => start < ckpt' /\ ckpt' <= total')
  BY <1>1, <1>4, CheckpointStays
<1>6. q \in Seq(Token) /\ Len(q) = headroom /\ \A i \in 1..headroom : q[i] = total + i
  <2>1. \A i \in 1..headroom : total + i \in Token
    BY <1>3 DEF Token
  <2> QED BY <1>3, <2>1 DEF Generated
<1>7. p \in Nat
  BY <1>3
<1> HIDE DEF q, p
<1>8. hot' \in Seq(Entry) /\ Len(hot') = Len(hot) + headroom
  <2>1. CASE headroom = 0
    BY <1>1, <1>3, <2>1
  <2>2. CASE headroom # 0
    <3>1. p \in Int /\ hot' = Extended(hot, q, p)
      BY <1>1, <1>3, <1>7, <2>2
    <3> QED BY <1>3, <1>6, <3>1, ExtendedType
  <2> QED BY <2>1, <2>2
<1>9. TypeOK'
  <2>1. <<>> \in Seq(Entry)
    BY EmptySeq
  <2>2. count' \in Nat
    BY <1>1, <1>3
  <2> QED BY <1>1, <1>2, <1>4, <1>5, <1>8, <2>1, <2>2 DEF TypeOK
<1>10. WindowInv'
  BY <1>1, <1>3, <1>4, <1>5 DEF WindowInv
<1>11. HotInv'
  <2> SUFFICES ASSUME ~torn, hot' # <<>> PROVE HotInv'
    BY <1>1 DEF HotInv
  <2>1. /\ Len(hot) = count /\ Follow(hot, start) /\ Placed(hot) /\ HotFirst = start
    BY <1>1, <1>2, <1>3 DEF HotInv
  <2>2. HotFirst' = start
    BY <1>1, <2>1 DEF HotFirst
  <2>3. Follow(hot', start) /\ Placed(hot')
    <3>1. CASE headroom = 0
      BY <1>1, <1>3, <2>1, <3>1
    <3>2. CASE headroom # 0
      <4>1. hot' = Extended(hot, q, p)
        BY <1>1, <1>3, <3>2
      <4>2. /\ TypeOK /\ hot \in Seq(Entry) /\ q \in Seq(Token) /\ p \in Nat /\ start \in Nat
            /\ Follow(hot, start) /\ Placed(hot)
        BY <1>2, <1>3, <1>6, <1>7, <2>1
      <4>3. \A i \in 1..Len(q) : q[i] = start + Len(hot) + i
        BY <1>3, <1>6, <2>1
      <4>4. (mode = "kv" => p = Len(hot)) /\ (mode = "kv_direct" => p = start + Len(hot))
        <5>1. (mode = "kv" => p = Len(hot)) /\ (mode # "kv" => p = total)
          BY <1>3 DEF p
        <5>2. total = start + Len(hot)
          BY <1>3, <2>1
        <5> QED BY <5>1, <5>2
      <4> QED BY <4>1, <4>2, <4>3, <4>4, HotGrows
    <3> QED BY <3>1, <3>2
  <2>4. Follow(hot, HotFirst)' /\ Placed(hot)'
    BY <1>1, <2>2, <2>3 DEF Follow, Placed
  <2>5. Len(hot') = count' /\ start + count' <= total'
    BY <1>1, <1>3, <1>8, <2>1
  <2>6. headroom < MaxHot => count' <= MaxHot
    BY <1>1, <1>3, Sizes DEF Larger
  <2>7. start <= start /\ start' = start
    BY <1>1, <1>3
  <2> QED BY <1>1, <2>2, <2>4, <2>5, <2>6, <2>7 DEF HotInv
<1> QED BY <1>9, <1>10, <1>11 DEF IInv

-----------------------------------------------------------------------------
\* The invariant holds for every budget and every length of a turn.
THEOREM IInvInvariant == Spec => []IInv
<1>1. IInv /\ [Next]_vars => IInv'
  <2> SUFFICES ASSUME IInv, [Next]_vars PROVE IInv'
    OBVIOUS
  <2>1. ASSUME NEW prompt \in 0..MaxPrompt, NEW max \in 0..MaxNew, BeginTurn(prompt, max)
        PROVE  IInv'
    <3>1. prompt \in Nat /\ max \in Nat
      BY BoundedEngineAssumption
    <3> QED BY <2>1, <3>1, BeginTurnInv
  <2>2. ASSUME NEW n \in 0..MaxTokens, ExtendKVFails(n) \/ GenerateFails(n)
        PROVE  IInv'
    <3>1. n \in Nat
      BY BoundedEngineAssumption
    <3> QED BY <2>2, <3>1, ExtendKVFailsInv, GenerateFailsInv
  <2>3. CASE UNCHANGED vars
    BY <2>3 DEF vars, stateVars, IInv, TypeOK, WindowInv, HotInv, HotFirst, Follow, Placed
  <2> QED BY <2>1, <2>2, <2>3, ExtendKVInv, RebuildKVInv, ExtendDirectInv, PrefillDirectInv,
             GenerateInv, ExtendDirectFailsInv, RebuildFailsInv DEF Next
<1> QED BY InitInv, <1>1, PTL DEF Spec

\* Between turns the hot state is the beginning of the window, within the
\* budget when the budget has room for the answer (_enforce_budget,
\* _ensure_hot_state, the generators).
THEOREM HotIsTheWindowTheorem == Spec => []HotIsTheWindow
<1>1. IInv => HotIsTheWindow
  <2> SUFFICES ASSUME IInv, pc = "idle", ~torn, hot # <<>>
               PROVE  /\ Tokens(hot) = SubSeq(Window, 1, count)
                      /\ mode # "kv" => hotStart = start
                      /\ headroom < MaxHot => Len(hot) <= MaxHot
    BY DEF IInv, HotIsTheWindow
  <2>1. /\ TypeOK /\ Len(hot) = count /\ Follow(hot, start) /\ HotFirst = start
        /\ start + count <= total /\ start <= total
        /\ headroom < MaxHot => count <= MaxHot
    BY DEF IInv, WindowInv, HotInv
  <2>2. /\ total \in Nat /\ start \in Nat /\ count \in Nat /\ hot \in Seq(Entry)
        /\ DOMAIN hot = 1..count
    BY <2>1, LenProperties DEF TypeOK
  <2>3. /\ \A i \in 1..count : Tokens(hot)[i] = start + i /\ start + i \in Token
        /\ Tokens(hot) = [i \in 1..count |-> hot[i].token]
    BY <2>1, <2>2 DEF Tokens, Follow, Token
  <2>4. Tokens(hot) \in Seq(Token) /\ Len(Tokens(hot)) = count
    <3>1. \A i \in 1..count : hot[i].token \in Token
      BY <2>2, <2>3
    <3> QED BY <2>2, <2>3, <3>1
  <2>5. /\ SubSeq(Window, 1, count) \in Seq(Token) /\ Len(SubSeq(Window, 1, count)) = count
        /\ \A i \in 1..count : SubSeq(Window, 1, count)[i] = start + i
    <3>1. 0 \in Nat /\ count \in 0..(total - start) /\ 0 <= count
      BY <2>1, <2>2
    <3>2. /\ SubSeq(Window, 0 + 1, count) \in Seq(Token)
          /\ Len(SubSeq(Window, 0 + 1, count)) = count - 0
          /\ \A i \in 1..(count - 0) : SubSeq(Window, 0 + 1, count)[i] = start + 0 + i
      BY <2>1, <3>1, PartFacts
    <3> QED BY <2>2, <3>2
  <2>6. Tokens(hot) = SubSeq(Window, 1, count)
    BY <2>3, <2>4, <2>5, SeqEqual
  <2> QED BY <2>1, <2>6 DEF HotFirst
<1> QED BY IInvInvariant, <1>1, PTL

\* The keys of the hot state stand as far apart as their tokens do, and a
\* checkpoint is of a token of the window (_ensure_kv_direct, _warm_rebuild_kv).
THEOREM DistancesAreRightTheorem == Spec => []DistancesAreRight
<1>1. IInv => DistancesAreRight
  <2> SUFFICES ASSUME IInv
               PROVE  /\ ~torn /\ ~(mode = "kv_direct" /\ shifted) =>
                           \A i \in DOMAIN hot, j \in DOMAIN hot :
                             hot[i].at - hot[j].at = hot[i].token - hot[j].token
                      /\ ckpt # 0 => start < ckpt /\ ckpt <= total
    BY DEF DistancesAreRight
  <2>1. TypeOK /\ WindowInv /\ HotInv
    BY DEF IInv
  <2>2. /\ hot \in Seq(Entry) /\ DOMAIN hot = 1..Len(hot) /\ Len(hot) \in Nat /\ HotFirst \in Nat
        /\ mode \in {"kv", "rs", "kv_direct"}
    BY <2>1, LenProperties DEF TypeOK, HotFirst
  <2>3. ASSUME ~torn, ~(mode = "kv_direct" /\ shifted), NEW i \in DOMAIN hot, NEW j \in DOMAIN hot
        PROVE  hot[i].at - hot[j].at = hot[i].token - hot[j].token
    <3>1. hot # <<>> /\ i \in 1..Len(hot) /\ j \in 1..Len(hot) /\ i \in Int /\ j \in Int
      BY <2>2, <2>3, EmptySeq
    <3>2. /\ hot[i].token = HotFirst + i /\ hot[j].token = HotFirst + j /\ Placed(hot)
      BY <2>1, <2>3, <3>1 DEF HotInv, Follow
    <3>3. hot[i].at - hot[j].at = i - j
      <4>1. CASE mode = "kv"
        <5>1. hot[i].at = i - 1 /\ hot[j].at = j - 1
          BY <3>1, <3>2, <4>1 DEF Placed
        <5> QED BY <3>1, <5>1
      <4>2. CASE mode = "rs"
        BY <3>1, <3>2, <4>2 DEF Placed
      <4>3. CASE mode = "kv_direct"
        <5>1. hot[i].at = hot[i].token - 1 /\ hot[j].at = hot[j].token - 1
          BY <2>3, <3>1, <3>2, <4>3 DEF Placed
        <5> QED BY <2>2, <3>1, <3>2, <5>1
      <4> QED BY <2>2, <4>1, <4>2, <4>3
    <3> QED BY <2>2, <3>1, <3>2, <3>3
  <2>4. ckpt # 0 => start < ckpt /\ ckpt <= total
    BY <2>1 DEF WindowInv
  <2> QED BY <2>3, <2>4
<1> QED BY IInvInvariant, <1>1, PTL
=============================================================================
