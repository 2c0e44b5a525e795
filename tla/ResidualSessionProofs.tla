------------------------ MODULE ResidualSessionProofs ------------------------
(***************************************************************************)
(* The WARM session cache, for any number of threads, conversations and    *)
(* dialogues and every budget: it is bounded, has one entry per            *)
(* conversation, frees what leaves it, and no two conversations share a KV *)
(* object; and as long as generations block and none raises, what the      *)
(* model attends to is the text of its own conversation.                   *)
(***************************************************************************)
EXTENDS ResidualSession, SequenceTheorems, FiniteSetTheorems, WellFoundedInduction, TLAPS

-----------------------------------------------------------------------------
(* Texts.                                                                  *)

\* A text is a token, and so is every one of its beginnings.
LEMMA NthFacts ==
  ASSUME NEW t \in Tokens, NEW i \in Nat, i <= t[2]
  PROVE  Nth(t, i) \in Tokens /\ Nth(t, i)[2] = i /\ t[2] \in Nat
<1>1. /\ t[1] \in Dialogues \cup {Shared} /\ t[2] \in Nat
      /\ t[1] = Shared <=> t[2] <= Common
  BY DEF Tokens
<1>2. Common \in Nat
  BY SessionAssumption
<1>3. CASE i <= Common
  BY <1>1, <1>2, <1>3 DEF Nth, Token, Tokens
<1>4. CASE ~(i <= Common)
  <2>1. ~(t[2] <= Common)
    BY <1>1, <1>2, <1>4
  <2> QED BY <1>1, <1>2, <1>4, <2>1 DEF Nth, Token, Tokens
<1> QED BY <1>3, <1>4

\* What extends a text has its tokens.
LEMMA ExtendsFacts ==
  ASSUME NEW s \in Tokens, NEW t \in Tokens, Extends(s, t)
  PROVE  /\ s[2] \in Nat /\ t[2] \in Nat /\ s[2] < t[2]
         /\ \A i \in 1..s[2] : Nth(s, i) = Nth(t, i)
<1>1. s[2] \in Nat /\ t[2] \in Nat /\ Common \in Nat /\ s[2] < t[2] /\ s = Nth(t, s[2])
  BY SessionAssumption DEF Tokens, Extends
<1>2. ASSUME NEW i \in 1..s[2] PROVE Nth(s, i) = Nth(t, i)
  <2>1. CASE i <= Common
    BY <2>1 DEF Nth, Token
  <2>2. CASE ~(i <= Common)
    <3>1. ~(s[2] <= Common)
      BY <1>1, <2>2
    <3>2. s[1] = t[1]
      BY <1>1, <3>1 DEF Nth, Token
    <3> QED BY <2>2, <3>2 DEF Nth, Token
  <2> QED BY <2>1, <2>2
<1> QED BY <1>1, <1>2

\* A sampled token continues the text.
LEMMA SampledFacts ==
  ASSUME NEW t \in Tokens, NEW u \in Sampled(t)
  PROVE  u \in Tokens /\ Extends(t, u) /\ u[2] = t[2] + 1 /\ t[2] \in Nat
<1>1. /\ t[1] \in Dialogues \cup {Shared} /\ t[2] \in Nat /\ Common \in Nat
      /\ t[1] = Shared <=> t[2] <= Common
      /\ t = <<t[1], t[2]>>
  BY SessionAssumption DEF Tokens
<1>2. PICK d \in IF t[2] < Common \/ t[1] # Shared THEN {t[1]} ELSE Dialogues : u = Token(d, t[2] + 1)
  BY DEF Sampled
<1>3. CASE t[2] < Common
  <2>1. d = t[1] /\ d = Shared /\ t[2] + 1 <= Common /\ t[2] <= Common
    BY <1>1, <1>2, <1>3
  <2>2. u = <<Shared, t[2] + 1>> /\ t = <<Shared, t[2]>>
    BY <1>1, <1>2, <2>1 DEF Token
  <2> QED BY <1>1, <2>1, <2>2 DEF Tokens, Extends, Nth, Token
<1>4. CASE ~(t[2] < Common) /\ t[1] = Shared
  <2>1. d \in Dialogues /\ d # Shared /\ t[2] = Common /\ ~(t[2] + 1 <= Common)
    BY <1>1, <1>2, <1>4, SessionAssumption
  <2>2. u = <<d, t[2] + 1>> /\ t = <<Shared, t[2]>>
    BY <1>1, <1>2, <1>4, <2>1 DEF Token
  <2> QED BY <1>1, <2>1, <2>2 DEF Tokens, Extends, Nth, Token
<1>5. CASE t[1] # Shared
  <2>1. d = t[1] /\ ~(t[2] <= Common) /\ ~(t[2] + 1 <= Common)
    BY <1>1, <1>2, <1>5
  <2>2. u = <<t[1], t[2] + 1>>
    BY <1>2, <2>1 DEF Token
  <2> QED BY <1>1, <1>5, <2>1, <2>2 DEF Tokens, Extends, Nth, Token
<1> QED BY <1>3, <1>4, <1>5

\* A prompt is a text with a token.
LEMMA PromptFacts ==
  ASSUME NEW t \in Prompts
  PROVE  t \in Tokens /\ t[2] >= 1
<1>1. PICK d \in Dialogues, i \in 1..MaxLength : t = Token(d, i)
  BY DEF Prompts
<1>2. Common \in Nat /\ MaxLength \in Nat /\ d # Shared
  BY SessionAssumption
<1> QED BY <1>1, <1>2 DEF Token, Tokens

-----------------------------------------------------------------------------
(* Slots.                                                                  *)

\* The seed is no token.
LEMMA SeedIsNoToken == Seed \notin Tokens
BY SessionAssumption DEF Tokens

\* A function on 1..n is a sequence of length n.
LEMMA FunctionIsSequence ==
  ASSUME NEW S, NEW n \in Nat, NEW f \in [1..n -> S]
  PROVE  f \in Seq(S) /\ Len(f) = n
<1>1. f \in Seq(S)
  BY SeqDef
<1>2. Len(f) \in Nat /\ DOMAIN f = 1..Len(f) /\ DOMAIN f = 1..n
  BY <1>1, LenProperties
<1>3. CASE n < Len(f)
  <2>1. Len(f) \in 1..Len(f) /\ Len(f) \notin 1..n
    BY <1>2, <1>3
  <2> QED BY <1>2, <2>1
<1>4. CASE Len(f) < n
  <2>1. n \in 1..n /\ n \notin 1..Len(f)
    BY <1>2, <1>4
  <2> QED BY <1>2, <2>1
<1> QED BY <1>1, <1>2, <1>3, <1>4

\* Slots lists the tokens behind the first m.
LEMMA SlotsFacts ==
  ASSUME NEW t \in Tokens, NEW m \in Nat, m <= t[2], NEW p \in Nat
  PROVE  /\ Slots(t, m + 1, t[2], p) \in Seq(Slot)
         /\ Len(Slots(t, m + 1, t[2], p)) = t[2] - m
         /\ \A n \in 1..(t[2] - m) :
              /\ Slots(t, m + 1, t[2], p)[n].token = Nth(t, m + n)
              /\ Nth(t, m + n) \in Tokens /\ Nth(t, m + n)[2] = m + n
              /\ Slots(t, m + 1, t[2], p)[n].pos = p + n - 1
<1> DEFINE N == t[2] - m
           r == Slots(t, m + 1, t[2], p)
<1>1. N \in Nat /\ t[2] \in Nat
  BY DEF Tokens
<1>2. ASSUME NEW n \in 1..N
      PROVE  /\ Nth(t, m + n) \in Tokens /\ Nth(t, m + n)[2] = m + n
             /\ p + n - 1 \in Nat
  <2>1. m + n \in Nat /\ m + n <= t[2] /\ p + n - 1 \in Nat
    BY <1>1
  <2> QED BY <2>1, NthFacts
<1>3. \A n \in 1..N : [token |-> Nth(t, m + n), pos |-> p + n - 1] \in Slot
  BY <1>2 DEF Slot
<1>4. r = [n \in 1..N |-> [token |-> Nth(t, m + n), pos |-> p + n - 1]]
  <2>1. t[2] + 1 - (m + 1) = N
    BY <1>1
  <2>2. \A n \in 1..N : m + 1 + n - 1 = m + n
    BY <1>1
  <2> QED BY <2>1, <2>2 DEF Slots
<1> HIDE DEF N, r
<1>5. r \in Seq(Slot) /\ Len(r) = N
  <2>1. r \in [1..N -> Slot]
    BY <1>3, <1>4
  <2> QED BY <1>1, <2>1, FunctionIsSequence
<1>6. ASSUME NEW n \in 1..N
      PROVE  r[n].token = Nth(t, m + n) /\ r[n].pos = p + n - 1
  <2> DEFINE x == r[n]
             a == Nth(t, m + n)
             b == p + n - 1
  <2>1. x = [token |-> a, pos |-> b]
    BY <1>4, Zenon
  <2> HIDE DEF x, a, b
  <2>2. x.token = a /\ x.pos = b
    BY <2>1
  <2> QED BY <2>2 DEF x, a, b
<1> QED BY <1>2, <1>5, <1>6 DEF N, r

\* Trimming keeps the last n slots.
LEMMA TrimFacts ==
  ASSUME NEW q \in Seq(Slot), NEW n \in Nat, n >= 1
  PROVE  /\ Trim(q, n) \in Seq(Slot)
         /\ Len(Trim(q, n)) = Least(Len(q), n) /\ Len(q) \in Nat
         /\ \A i \in 1..Len(Trim(q, n)) : Trim(q, n)[i] = q[i + Len(q) - Len(Trim(q, n))]
<1>1. Len(q) \in Nat
  BY LenProperties
<1>2. CASE Len(q) <= n
  <2>1. Trim(q, n) = q /\ Least(Len(q), n) = Len(q)
    BY <1>1, <1>2 DEF Trim, Least
  <2>2. \A i \in 1..Len(q) : i + Len(q) - Len(q) = i
    BY <1>1
  <2> QED BY <1>1, <2>1, <2>2
<1>3. CASE ~(Len(q) <= n)
  <2> DEFINE m == Len(q) - n + 1
  <2>1. /\ Trim(q, n) = SubSeq(q, m, Len(q)) /\ Least(Len(q), n) = n
        /\ m \in Int /\ Len(q) \in Int /\ m <= Len(q) /\ m >= 1
    BY <1>1, <1>3 DEF Trim, Least
  <2>2. \A i \in m..Len(q) : q[i] \in Slot
    BY <1>1, <2>1
  <2> HIDE DEF m
  <2>3. /\ SubSeq(q, m, Len(q)) \in Seq(Slot)
        /\ Len(SubSeq(q, m, Len(q))) = IF m <= Len(q) THEN Len(q) - m + 1 ELSE 0
        /\ \A i \in 1..(Len(q) - m + 1) : SubSeq(q, m, Len(q))[i] = q[m + i - 1]
    BY <2>1, <2>2, SubSeqProperties
  <2>4. Len(q) - m + 1 = n
    BY <1>1 DEF m
  <2>5. \A i \in 1..n : m + i - 1 = i + Len(q) - n
    BY <1>1 DEF m
  <2> QED BY <1>1, <2>1, <2>3, <2>4, <2>5
<1> QED BY <1>2, <1>3

\* What a trim leaves is aligned.
LEMMA AlignedTrim ==
  ASSUME NEW q \in Seq(Slot), Len(q) >= 1, NEW n \in Nat, n >= 1,
         NEW t \in Tokens, NEW total \in Nat, NEW start \in Nat, Aligned(q, t, total, start)
  PROVE  /\ Trim(q, n) \in Seq(Slot)
         /\ Len(Trim(q, n)) \in Nat /\ Len(Trim(q, n)) >= 1 /\ Len(Trim(q, n)) <= n
         /\ total - Len(Trim(q, n)) \in Nat
         /\ total - Len(Trim(q, n)) = start + Len(q) - Len(Trim(q, n))
         /\ Aligned(Trim(q, n), t, total, total - Len(Trim(q, n)))
<1> DEFINE r == Trim(q, n)
           d == Len(q) - Len(r)
<1>1. /\ r \in Seq(Slot) /\ Len(r) = Least(Len(q), n) /\ Len(q) \in Nat
      /\ \A i \in 1..Len(r) : r[i] = q[i + Len(q) - Len(r)]
  BY TrimFacts
<1>2. Len(r) \in Nat /\ Len(r) >= 1 /\ Len(r) <= n /\ Len(r) <= Len(q)
  BY <1>1 DEF Least
<1>3. start = total - Len(q)
  BY DEF Aligned
<1>4. d \in Nat /\ total - Len(r) = start + d /\ total - Len(r) \in Nat
  BY <1>1, <1>2, <1>3
<1> HIDE DEF r
<1>5. \A i \in 1..Len(r) : i + d \in 1..Len(q) /\ r[i] = q[i + d]
  <2> SUFFICES ASSUME NEW i \in 1..Len(r) PROVE i + d \in 1..Len(q) /\ r[i] = q[i + d]
    OBVIOUS
  <2>1. i + Len(q) - Len(r) = i + d /\ i + d \in 1..Len(q)
    BY <1>1, <1>2
  <2>2. r[i] = q[i + Len(q) - Len(r)]
    BY <1>1
  <2> QED BY <2>1, <2>2
<1>6. d \in Nat
  BY <1>4
<1> HIDE DEF d
<1>7. ASSUME NEW i \in 1..Len(r)
      PROVE  /\ r[i].pos = start + d + i - 1
             /\ r[i].token = Seed => i = 1
             /\ r[i].token # Seed => r[i].token = Nth(t, r[i].token[2]) /\ r[i].token[2] \in 1..t[2]
             /\ r[i].token # Seed => \A j \in 1..Len(r) : i < j => r[i].token[2] < r[j].token[2]
  <2> DEFINE k == i + d
  <2>1. k \in 1..Len(q) /\ r[i] = q[k]
    BY <1>5
  <2>2. /\ q[k].pos = start + k - 1
        /\ q[k].token = Seed => k = 1
        /\ q[k].token # Seed => q[k].token = Nth(t, q[k].token[2]) /\ q[k].token[2] \in 1..t[2]
        /\ q[k].token # Seed => \A j \in 1..Len(q) : k < j => q[k].token[2] < q[j].token[2]
    BY <2>1 DEF Aligned
  <2>3. k = 1 => i = 1
    BY <1>2, <1>6
  <2>4. start + k - 1 = start + d + i - 1
    BY <1>6, <1>2
  <2>5. \A j \in 1..Len(r) : i < j => k < j + d
    BY <1>6, <1>2
  <2> HIDE DEF k
  <2>6. r[i].token # Seed => \A j \in 1..Len(r) : i < j => r[i].token[2] < r[j].token[2]
    BY <1>5, <2>1, <2>2, <2>5
  <2> QED BY <2>1, <2>2, <2>3, <2>4, <2>6
<1>8. Aligned(r, t, total, total - Len(r))
  BY <1>4, <1>7 DEF Aligned, d
<1> QED BY <1>1, <1>2, <1>4, <1>8 DEF r, d

\* Slots of a text are slots of what extends it.
LEMMA AlignedLater ==
  ASSUME NEW q \in Seq(Slot), NEW s \in Tokens, NEW t \in Tokens, Extends(s, t),
         NEW total \in Nat, NEW start \in Nat, Aligned(q, s, total, start)
  PROVE  Aligned(q, t, total, start)
<1>1. s[2] \in Nat /\ t[2] \in Nat /\ s[2] < t[2] /\ \A i \in 1..s[2] : Nth(s, i) = Nth(t, i)
  BY ExtendsFacts
<1>2. \A i \in 1..s[2] : i \in 1..t[2]
  BY <1>1
<1> QED BY <1>1, <1>2 DEF Aligned

\* Slots of a text, with the slots of the tokens it is extended by.
LEMMA AlignedJoin ==
  ASSUME NEW q \in Seq(Slot), NEW s \in Tokens, NEW t \in Tokens, Extends(s, t),
         NEW total \in Nat, NEW start \in Nat, Aligned(q, s, total, start)
  PROVE  LET all == q \o Slots(t, s[2] + 1, t[2], total) IN
           /\ all \in Seq(Slot) /\ Len(all) = Len(q) + t[2] - s[2]
           /\ total + t[2] - s[2] \in Nat
           /\ Aligned(all, t, total + t[2] - s[2], start)
<1> DEFINE r   == Slots(t, s[2] + 1, t[2], total)
           all == q \o r
           d   == t[2] - s[2]
<1>1. s[2] \in Nat /\ t[2] \in Nat /\ s[2] < t[2] /\ d \in Nat /\ s[2] <= t[2]
  BY ExtendsFacts
<1>2. Len(q) \in Nat /\ total + t[2] - s[2] = total + d
  BY <1>1, LenProperties
<1>3. /\ r \in Seq(Slot) /\ Len(r) = d
      /\ \A n \in 1..d : /\ r[n].token = Nth(t, s[2] + n)
                         /\ Nth(t, s[2] + n) \in Tokens /\ Nth(t, s[2] + n)[2] = s[2] + n
                         /\ r[n].pos = total + n - 1
  <2> DEFINE m == s[2]
  <2>1. m \in Nat /\ m <= t[2] /\ s[2] = m
    BY <1>1
  <2> HIDE DEF m
  <2>2. /\ Slots(t, m + 1, t[2], total) \in Seq(Slot)
        /\ Len(Slots(t, m + 1, t[2], total)) = t[2] - m
        /\ \A n \in 1..(t[2] - m) :
             /\ Slots(t, m + 1, t[2], total)[n].token = Nth(t, m + n)
             /\ Nth(t, m + n) \in Tokens /\ Nth(t, m + n)[2] = m + n
             /\ Slots(t, m + 1, t[2], total)[n].pos = total + n - 1
    BY ONLY <2>1, SlotsFacts, t \in Tokens, total \in Nat
  <2> QED BY <2>1, <2>2
<1> HIDE DEF r
<1>4. ASSUME NEW n \in 1..d
      PROVE  /\ r[n].token = Nth(t, s[2] + n) /\ r[n].token # Seed
             /\ r[n].token[2] = s[2] + n /\ s[2] + n \in 1..t[2]
             /\ r[n].pos = total + n - 1
  <2>1. s[2] + n \in 1..t[2]
    BY <1>1
  <2> QED BY <1>3, <2>1, SeedIsNoToken
<1>5. r \in Seq(Slot) /\ Len(r) = d
  BY <1>3
<1>6. /\ all \in Seq(Slot) /\ Len(all) = Len(q) + Len(r)
      /\ \A i \in 1..(Len(q) + Len(r)) : all[i] = IF i <= Len(q) THEN q[i] ELSE r[i - Len(q)]
  BY <1>5, ConcatProperties
<1> HIDE DEF all
<1>7. \A i \in 1..Len(all) : \/ i \in 1..Len(q) /\ all[i] = q[i]
                             \/ i - Len(q) \in 1..d /\ all[i] = r[i - Len(q)]
  BY <1>1, <1>2, <1>5, <1>6
<1>8. Aligned(q, t, total, start) /\ start = total - Len(q)
  <2>1. Aligned(q, t, total, start)
    BY AlignedLater
  <2> QED BY <2>1 DEF Aligned
<1>9. ASSUME NEW i \in 1..Len(all)
      PROVE  /\ all[i].pos = start + i - 1
             /\ all[i].token = Seed => i = 1
             /\ all[i].token # Seed => all[i].token = Nth(t, all[i].token[2]) /\ all[i].token[2] \in 1..t[2]
             /\ all[i].token # Seed => \A j \in 1..Len(all) : i < j => all[i].token[2] < all[j].token[2]
  <2>1. CASE i \in 1..Len(q) /\ all[i] = q[i]
    <3>1. /\ q[i].pos = start + i - 1
          /\ q[i].token = Seed => i = 1
          /\ q[i].token # Seed => q[i].token = Nth(t, q[i].token[2]) /\ q[i].token[2] \in 1..t[2]
          /\ q[i].token # Seed => \A j \in 1..Len(q) : i < j => q[i].token[2] < q[j].token[2]
          /\ q[i].token # Seed => q[i].token[2] \in 1..s[2]
      BY <2>1, <1>8 DEF Aligned
    <3>2. ASSUME q[i].token # Seed, NEW j \in 1..Len(all), i < j
          PROVE  q[i].token[2] < all[j].token[2]
      <4>1. CASE j \in 1..Len(q) /\ all[j] = q[j]
        BY <3>1, <3>2, <4>1
      <4>2. CASE j - Len(q) \in 1..d /\ all[j] = r[j - Len(q)]
        <5>1. all[j].token[2] = s[2] + (j - Len(q)) /\ q[i].token[2] \in 1..s[2]
          BY <1>4, <3>1, <3>2, <4>2
        <5>2. j - Len(q) >= 1 /\ j - Len(q) \in Nat
          BY <4>2, <1>1
        <5> QED BY <5>1, <5>2, <1>1
      <4> QED BY <1>7, <4>1, <4>2
    <3> QED BY <2>1, <3>1, <3>2
  <2>2. CASE i - Len(q) \in 1..d /\ all[i] = r[i - Len(q)]
    <3> DEFINE n == i - Len(q)
    <3>1. /\ r[n].token = Nth(t, s[2] + n) /\ r[n].token # Seed
          /\ r[n].token[2] = s[2] + n /\ s[2] + n \in 1..t[2]
          /\ r[n].pos = total + n - 1
      BY <1>4, <2>2
    <3>2. total + n - 1 = start + i - 1
      BY <1>2, <1>8
    <3>3. ASSUME NEW j \in 1..Len(all), i < j
          PROVE  all[i].token[2] < all[j].token[2]
      <4>1. ~(j \in 1..Len(q))
        BY <2>2, <3>3, <1>2, <1>1
      <4>2. j - Len(q) \in 1..d /\ all[j] = r[j - Len(q)]
        BY <1>7, <4>1
      <4>3. all[j].token[2] = s[2] + (j - Len(q)) /\ all[i].token[2] = s[2] + (i - Len(q))
        BY <1>4, <4>2, <3>1, <2>2
      <4> QED BY <4>3, <3>3, <1>1, <1>2
    <3> QED BY <2>2, <3>1, <3>2, <3>3
  <2> QED BY <1>7, <2>1, <2>2
<1>10. start = total + d - Len(all) /\ total + d \in Nat /\ Len(all) = Len(q) + t[2] - s[2]
  BY <1>1, <1>2, <1>5, <1>6, <1>8
<1>11. Aligned(all, t, total + d, start)
  <2> DEFINE T == total + d
  <2>1. start = T - Len(all)
    <3>1. d \in Nat /\ Len(all) \in Nat
      BY <1>1, <1>6, LenProperties
    <3> HIDE DEF d
    <3> QED BY <1>10, <3>1
  <2> HIDE DEF T
  <2>2. Aligned(all, t, T, start)
    BY <1>9, <2>1 DEF Aligned
  <2> QED BY <2>2 DEF T
<1>12. Aligned(all, t, total + t[2] - s[2], start)
  BY <1>2, <1>11
<1> QED BY <1>2, <1>6, <1>10, <1>12 DEF all, r

\* The slots of the texts that a generation begins with, unknown to the cache.
LEMMA ColdFacts ==
  ASSUME NEW t \in Tokens, t[2] >= 1, NEW n \in Nat, n >= 1, n <= MaxHot
  PROVE  LET new == Trim(ColdSlots(t), n) IN
           /\ new \in Seq(Slot) /\ t[2] - Len(new) \in Nat
           /\ Exact(new, t, t[2], t[2] - Len(new))
<1>1. t[2] \in Nat /\ MaxHot \in Nat /\ Common \in Nat
  BY SessionAssumption DEF Tokens
<1>2. /\ ColdSlots(t) \in Seq(Slot) /\ Len(ColdSlots(t)) >= 1
      /\ \E start \in Nat : Aligned(ColdSlots(t), t, t[2], start)
  <2>1. CASE t[2] <= MaxHot
    <3> DEFINE s == <<Shared, 0>>
               q == <<>>
    <3>1. s \in Tokens /\ s[2] = 0
      BY <1>1 DEF Tokens
    <3>2. Extends(s, t)
      BY <1>1, <3>1 DEF Extends, Nth, Token
    <3>3. q \in Seq(Slot) /\ Len(q) = 0 /\ 0 \in Nat
      BY EmptySeq
    <3>4. Aligned(q, s, 0, 0)
      <4>1. Len(q) = 0
        BY <3>3
      <4> HIDE DEF q, s
      <4>2. 0 = 0 - Len(q) /\ \A i \in 1..Len(q) : FALSE
        BY <4>1
      <4> QED BY <4>2 DEF Aligned
    <3> DEFINE all == q \o Slots(t, s[2] + 1, t[2], 0)
    <3> HIDE DEF s, q
    <3> DEFINE z == 0
    <3>21. z \in Nat /\ Aligned(q, s, z, z) /\ q \in Seq(Slot) /\ s \in Tokens /\ Extends(s, t)
      BY <3>1, <3>2, <3>3, <3>4
    <3> HIDE DEF z
    <3>22. LET al == q \o Slots(t, s[2] + 1, t[2], z) IN
            /\ al \in Seq(Slot) /\ Len(al) = Len(q) + t[2] - s[2]
            /\ z + t[2] - s[2] \in Nat
            /\ Aligned(al, t, z + t[2] - s[2], z)
      BY <3>21, AlignedJoin
    <3>5. all \in Seq(Slot) /\ Len(all) = Len(q) + t[2] - s[2] /\ Aligned(all, t, 0 + t[2] - s[2], 0)
      BY <3>22 DEF z
    <3>6. Slots(t, s[2] + 1, t[2], 0) \in Seq(Slot)
      BY <1>1, <3>1, <3>3, SlotsFacts
    <3>7. all = Slots(t, s[2] + 1, t[2], 0)
      BY <3>6, ConcatEmptySeq DEF q
    <3>8. s[2] + 1 = 1 /\ 0 + t[2] - s[2] = t[2]
      BY <1>1, <3>1
    <3>9. ColdSlots(t) = all
      BY <2>1, <3>7, <3>8 DEF ColdSlots
    <3> HIDE DEF all
    <3>10. Len(all) >= 1
      BY <1>1, <3>1, <3>3, <3>5
    <3> QED BY <3>3, <3>5, <3>8, <3>9, <3>10
  <2>2. CASE ~(t[2] <= MaxHot)
    <3> DEFINE m == t[2] - MaxHot
               s == Nth(t, m)
               x == [token |-> Seed, pos |-> m - 1]
               q == <<x>>
    <3>1. m \in Nat /\ m >= 1 /\ m < t[2] /\ m - 1 \in Nat
      BY <1>1, <2>2, SessionAssumption
    <3> HIDE DEF m
    <3>2. s \in Tokens /\ s[2] = m
      BY <3>1, NthFacts
    <3>3. Extends(s, t)
      BY <3>1, <3>2 DEF Extends
    <3>4. x \in Slot /\ x.token = Seed /\ x.pos = m - 1
      BY <3>1 DEF Slot
    <3> HIDE DEF x, s
    <3>5. q \in Seq(Slot) /\ Len(q) = 1 /\ q[1] = x
      BY <3>4
    <3> HIDE DEF q
    <3>6. Aligned(q, s, m, m - 1)
      <4> DEFINE b == m - 1
      <4>1. b = m - 1 /\ b + 1 - 1 = m - 1 /\ Len(q) = 1
        BY <3>1, <3>5
      <4> HIDE DEF b
      <4>2. \A i \in 1..Len(q) : i = 1
        BY <3>5
      <4>3. \A i \in 1..Len(q) : q[i].pos = b + i - 1 /\ q[i].token = Seed
        BY <3>4, <3>5, <4>1, <4>2
      <4>4. b = m - Len(q)
        BY <4>1
      <4>5. Aligned(q, s, m, b)
        BY <4>2, <4>3, <4>4 DEF Aligned
      <4> QED BY <4>5 DEF b
    <3> DEFINE all == q \o Slots(t, s[2] + 1, t[2], m)
    <3>7. all \in Seq(Slot) /\ Len(all) = Len(q) + t[2] - s[2] /\ Aligned(all, t, m + t[2] - s[2], m - 1)
      BY <3>1, <3>2, <3>3, <3>5, <3>6, AlignedJoin
    <3>8. m + t[2] - s[2] = t[2]
      BY <1>1, <3>1, <3>2
    <3>9. ColdSlots(t) = all
      BY <2>2, <3>2 DEF ColdSlots, q, x, m
    <3> HIDE DEF all
    <3>10. Len(all) >= 1
      BY <1>1, <3>1, <3>2, <3>5, <3>7
    <3> QED BY <3>1, <3>7, <3>8, <3>9, <3>10
  <2> QED BY <2>1, <2>2
<1>3. PICK start \in Nat : Aligned(ColdSlots(t), t, t[2], start)
  BY <1>2
<1> DEFINE q == ColdSlots(t)
           new == Trim(q, n)
<1> HIDE DEF q
<1>4. /\ new \in Seq(Slot)
      /\ Len(new) \in Nat /\ Len(new) >= 1 /\ Len(new) <= n
      /\ t[2] - Len(new) \in Nat
      /\ Aligned(new, t, t[2], t[2] - Len(new))
  BY <1>1, <1>2, <1>3, AlignedTrim DEF q
<1> HIDE DEF new
<1>5. Len(new) \in 1..MaxHot
  BY <1>1, <1>4
<1>6. Exact(new, t, t[2], t[2] - Len(new))
  BY <1>4, <1>5 DEF Exact
<1> QED BY <1>4, <1>6 DEF new, q

\* The requested numbers of tokens are natural numbers.
LEMMA NewTokensAreNat == NewTokens \cup {0} \subseteq Nat
BY SessionAssumption

\* The budget of the prefill and of the delta.
LEMMA PrefillLimitFacts ==
  ASSUME NEW n \in Nat
  PROVE  PrefillLimit(n) \in Nat /\ PrefillLimit(n) >= 1 /\ PrefillLimit(n) <= MaxHot
BY SessionAssumption DEF PrefillLimit

\* What the delta forward and the trim leave.
LEMMA DeltaFacts ==
  ASSUME NEW q \in Seq(Slot), NEW s \in Tokens, NEW t \in Tokens, Extends(s, t),
         NEW total \in Nat, NEW n \in Nat, n >= 1, n <= MaxHot
  PROVE  LET new == Trim(q \o Slots(t, s[2] + 1, t[2], total), n)
             tot == total + t[2] - s[2] IN
           /\ new \in Seq(Slot) /\ tot \in Nat /\ Len(new) \in Nat
           /\ \A start \in Nat :
                Aligned(q, s, total, start) => tot >= Len(new) /\ Exact(new, t, tot, tot - Len(new))
<1> DEFINE r   == Slots(t, s[2] + 1, t[2], total)
           all == q \o r
           new == Trim(all, n)
           tot == total + t[2] - s[2]
<1>1. s[2] \in Nat /\ t[2] \in Nat /\ s[2] < t[2] /\ s[2] <= t[2] /\ Len(q) \in Nat
  BY ExtendsFacts, LenProperties
<1>2. r \in Seq(Slot)
  BY <1>1, SlotsFacts
<1> HIDE DEF r
<1>3. all \in Seq(Slot)
  BY <1>2, ConcatProperties
<1> HIDE DEF all
<1>4. new \in Seq(Slot) /\ Len(new) \in Nat
  <2>1. new \in Seq(Slot)
    BY <1>3, TrimFacts
  <2> QED BY <2>1, LenProperties
<1>5. tot \in Nat
  BY <1>1
<1> HIDE DEF new, tot
<1>6. ASSUME NEW start \in Nat, Aligned(q, s, total, start)
      PROVE  tot >= Len(new) /\ Exact(new, t, tot, tot - Len(new))
  <2>1. Len(all) = Len(q) + t[2] - s[2] /\ Aligned(all, t, tot, start)
    BY <1>6, AlignedJoin DEF all, r, tot
  <2>2. Len(all) >= 1
    BY <1>1, <2>1
  <2>3. /\ Len(new) \in Nat /\ Len(new) >= 1 /\ Len(new) <= n
        /\ tot - Len(new) \in Nat
        /\ Aligned(new, t, tot, tot - Len(new))
    BY <1>3, <1>5, <2>1, <2>2, AlignedTrim DEF new
  <2>4. Len(new) \in 1..MaxHot /\ tot >= Len(new)
    BY <1>5, <2>3, SessionAssumption
  <2> QED BY <2>3, <2>4 DEF Exact
<1> QED BY <1>4, <1>5, <1>6 DEF new, all, r, tot

\* What a step of the decode loop leaves.
LEMMA FedFacts ==
  ASSUME NEW q \in Seq(Slot), NEW t \in Tokens, NEW u \in Sampled(t), NEW total \in Nat
  PROVE  LET all == Append(q, [token |-> u, pos |-> total])
             new == Trim(all, MaxHot) IN
           /\ new \in Seq(Slot) /\ Len(all) \in Nat /\ Len(new) \in Nat /\ Len(new) <= Len(all)
           /\ \A start \in Nat :
                Exact(q, t, total, start) => Exact(new, u, total + 1, start + Len(all) - Len(new))
<1> DEFINE x   == [token |-> u, pos |-> total]
           r   == Slots(u, t[2] + 1, u[2], total)
           all == Append(q, x)
           new == Trim(all, MaxHot)
<1>1. /\ u \in Tokens /\ Extends(t, u) /\ u[2] = t[2] + 1 /\ t[2] \in Nat
      /\ MaxHot \in Nat /\ MaxHot >= 1
  BY SampledFacts, SessionAssumption
<1>2. r = <<x>>
  <2>1. u[2] \in Nat /\ t[2] <= u[2] /\ u[2] - t[2] = 1 /\ t[2] + 1 = u[2]
    BY <1>1
  <2>2. u[2] + 1 - (t[2] + 1) = 1
    BY <1>1
  <2>3. r = [k \in 1..1 |-> [token |-> Nth(u, t[2] + 1 + k - 1), pos |-> total + k - 1]]
    BY <2>2 DEF Slots
  <2>4. \A k \in 1..1 : t[2] + 1 + k - 1 = u[2] /\ total + k - 1 = total
    BY <1>1
  <2>5. Nth(u, u[2]) = u
    BY <1>1 DEF Tokens, Nth, Token
  <2>6. \A k \in 1..1 : [token |-> Nth(u, t[2] + 1 + k - 1), pos |-> total + k - 1] = x
    BY <2>4, <2>5
  <2> HIDE DEF r, x
  <2>7. r = [k \in 1..1 |-> x]
    BY <2>3, <2>6
  <2> QED BY <2>7
<1>3. x \in Slot
  BY <1>1 DEF Slot
<1> HIDE DEF x, r
<1>4. all \in Seq(Slot) /\ all = q \o r /\ Len(all) = Len(q) + 1 /\ Len(q) \in Nat
  BY <1>2, <1>3, AppendProperties, AppendIsConcat, LenProperties
<1> HIDE DEF all
<1>5. new \in Seq(Slot) /\ Len(new) = Least(Len(all), MaxHot) /\ Len(all) \in Nat
  BY <1>1, <1>4, TrimFacts
<1>6. Len(new) \in Nat /\ Len(new) <= Len(all)
  BY <1>1, <1>5 DEF Least
<1>7. ASSUME NEW start \in Nat, Exact(q, t, total, start)
      PROVE  Exact(new, u, total + 1, start + Len(all) - Len(new))
  <2>1. Aligned(q, t, total, start)
    BY <1>7 DEF Exact
  <2>2. total + u[2] - t[2] = total + 1 /\ total + 1 \in Nat /\ Len(all) >= 1
    BY <1>1, <1>4
  <2>3. Aligned(all, u, total + u[2] - t[2], start)
    BY <1>1, <1>4, <2>1, AlignedJoin DEF r
  <2>4. Aligned(all, u, total + 1, start)
    BY <2>2, <2>3
  <2> DEFINE tot == total + 1
  <2>5. tot \in Nat
    OBVIOUS
  <2> HIDE DEF tot
  <2>9. Aligned(all, u, tot, start)
    BY <2>4 DEF tot
  <2>10. /\ Len(new) \in Nat /\ Len(new) >= 1 /\ Len(new) <= MaxHot
         /\ tot - Len(new) \in Nat
         /\ Aligned(new, u, tot, tot - Len(new))
    BY <1>1, <1>4, <2>2, <2>9, <2>5, AlignedTrim
  <2>11. start = tot - Len(all)
    BY <2>9 DEF Aligned
  <2>6. /\ Len(new) \in Nat /\ Len(new) >= 1 /\ Len(new) <= MaxHot
        /\ tot - Len(new) = start + Len(all) - Len(new)
        /\ Aligned(new, u, tot, tot - Len(new))
    <3> HIDE DEF new
    <3> QED BY <1>4, <2>5, <2>10, <2>11
  <2>7. Len(new) \in 1..MaxHot
    BY <1>1, <2>6
  <2> HIDE DEF new
  <2>8. Exact(new, u, tot, start + Len(all) - Len(new))
    BY <2>6, <2>7 DEF Exact
  <2> QED BY <2>8 DEF tot
<1> QED BY <1>5, <1>6, <1>7 DEF new, all, x

-----------------------------------------------------------------------------
(* The cache.                                                              *)

UniqueKeys(c) == \A i, j \in 1..Len(c) : c[i].key = c[j].key => i = j
ElementsOf(c) == {c[i] : i \in 1..Len(c)}

\* Removing an element keeps the others in their order.
LEMMA RemoveFacts ==
  ASSUME NEW S, NEW q \in Seq(S), NEW i \in 1..Len(q)
  PROVE  /\ RemoveAt(q, i) \in Seq(S) /\ Len(RemoveAt(q, i)) = Len(q) - 1
         /\ \A n \in 1..(Len(q) - 1) : RemoveAt(q, i)[n] = IF n < i THEN q[n] ELSE q[n + 1]
<1>1. Len(q) \in Nat /\ \A j \in 1..Len(q) : q[j] \in S
  BY LenProperties, ElementOfSeq
<1> DEFINE a == SubSeq(q, 1, i - 1)
           b == SubSeq(q, i + 1, Len(q))
<1>2. /\ a \in Seq(S) /\ Len(a) = i - 1
      /\ \A n \in 1..(i - 1) : a[n] = q[n]
  <2>1. i \in Int /\ i >= 1 /\ i - 1 \in Int /\ \A j \in 1..(i - 1) : q[j] \in S
    BY <1>1
  <2>2. /\ a \in Seq(S) /\ Len(a) = IF 1 <= i - 1 THEN (i - 1) - 1 + 1 ELSE 0
        /\ \A n \in 1..((i - 1) - 1 + 1) : a[n] = q[1 + n - 1]
    BY <2>1, SubSeqProperties
  <2>3. (i - 1) - 1 + 1 = i - 1 /\ \A n \in 1..(i - 1) : 1 + n - 1 = n
    BY <2>1
  <2> QED BY <2>1, <2>2, <2>3
<1>3. /\ b \in Seq(S) /\ Len(b) = Len(q) - i
      /\ \A n \in 1..(Len(q) - i) : b[n] = q[n + i]
  <2>1. i + 1 \in Int /\ Len(q) \in Int /\ \A j \in (i + 1)..Len(q) : q[j] \in S
    BY <1>1
  <2>2. /\ b \in Seq(S) /\ Len(b) = IF i + 1 <= Len(q) THEN Len(q) - (i + 1) + 1 ELSE 0
        /\ \A n \in 1..(Len(q) - (i + 1) + 1) : b[n] = q[i + 1 + n - 1]
    BY <2>1, SubSeqProperties
  <2>3. Len(q) - (i + 1) + 1 = Len(q) - i /\ \A n \in 1..(Len(q) - i) : i + 1 + n - 1 = n + i
    BY <1>1
  <2> HIDE DEF b
  <2>4. b \in Seq(S) /\ Len(b) = Len(q) - i
    <3>1. (IF i + 1 <= Len(q) THEN Len(q) - (i + 1) + 1 ELSE 0) = Len(q) - i
      BY <1>1
    <3> QED BY <2>2, <3>1
  <2>5. ASSUME NEW n \in 1..(Len(q) - i) PROVE b[n] = q[n + i]
    <3>1. n \in 1..(Len(q) - (i + 1) + 1) /\ i + 1 + n - 1 = n + i
      BY <2>3
    <3>2. b[n] = q[i + 1 + n - 1]
      BY <2>2, <3>1
    <3> QED BY <3>1, <3>2
  <2> QED BY <2>4, <2>5
<1>4. RemoveAt(q, i) = a \o b
  BY DEF RemoveAt
<1> HIDE DEF a, b
<1>5. /\ a \o b \in Seq(S) /\ Len(a \o b) = Len(a) + Len(b)
      /\ \A n \in 1..(Len(a) + Len(b)) : (a \o b)[n] = IF n <= Len(a) THEN a[n] ELSE b[n - Len(a)]
  BY <1>2, <1>3, ConcatProperties
<1>6. ASSUME NEW n \in 1..(Len(q) - 1)
      PROVE  (a \o b)[n] = IF n < i THEN q[n] ELSE q[n + 1]
  <2>1. n \in 1..(Len(a) + Len(b)) /\ n \in Nat /\ n >= 1
    BY <1>1, <1>2, <1>3
  <2>2. CASE n < i
    <3>1. n <= Len(a) /\ n \in 1..(i - 1)
      BY <1>2, <2>1, <2>2
    <3> QED BY <1>2, <1>5, <2>1, <2>2, <3>1
  <2>3. CASE ~(n < i)
    <3>1. ~(n <= Len(a)) /\ n - Len(a) \in 1..(Len(q) - i) /\ n - Len(a) + i = n + 1
      BY <1>1, <1>2, <2>1, <2>3
    <3>2. (a \o b)[n] = b[n - Len(a)]
      BY <1>5, <2>1, <3>1
    <3> QED BY <1>3, <2>3, <3>1, <3>2
  <2> QED BY <2>2, <2>3
<1> QED BY <1>1, <1>2, <1>3, <1>4, <1>5, <1>6

\* What is left without a conversation.
LEMMA WithoutFacts ==
  ASSUME cache \in Seq(Entry), UniqueKeys(cache), NEW key
  PROVE  /\ Without(key) \in Seq(Entry) /\ UniqueKeys(Without(key))
         /\ Len(cache) \in Nat /\ Len(Without(key)) \in Nat
         /\ Len(Without(key)) <= Len(cache)
         /\ key \in KeysOf(cache) => Len(Without(key)) = Len(cache) - 1
         /\ ElementsOf(Without(key)) = {e \in Entries : e.key # key}
<1>1. Len(cache) \in Nat
  BY LenProperties
<1>2. CASE key \notin KeysOf(cache)
  BY <1>1, <1>2 DEF Without, ElementsOf, Entries, KeysOf
<1>3. CASE key \in KeysOf(cache)
  <2> DEFINE i == PlaceOf(key)
             r == RemoveAt(cache, i)
  <2>1. i \in 1..Len(cache) /\ cache[i].key = key
    BY <1>3 DEF PlaceOf, KeysOf
  <2>2. Without(key) = r
    BY <1>3 DEF Without
  <2> HIDE DEF i
  <2>3. /\ r \in Seq(Entry) /\ Len(r) = Len(cache) - 1
        /\ \A n \in 1..(Len(cache) - 1) : r[n] = IF n < i THEN cache[n] ELSE cache[n + 1]
    BY <2>1, RemoveFacts
  <2> HIDE DEF r
  <2>4. i \in Nat /\ i >= 1 /\ i <= Len(cache) /\ Len(r) \in Nat
    BY <1>1, <2>1, <2>3
  <2> DEFINE o(n) == IF n < i THEN n ELSE n + 1
  <2>5. \A n \in 1..Len(r) : o(n) \in 1..Len(cache) /\ o(n) # i /\ r[n] = cache[o(n)]
    BY <1>1, <2>3, <2>4
  <2>6. \A m, n \in 1..Len(r) : o(m) = o(n) => m = n
    BY <2>4
  <2>7. \A k \in 1..Len(cache) : k # i => \E n \in 1..Len(r) : o(n) = k
    <3> SUFFICES ASSUME NEW k \in 1..Len(cache), k # i PROVE \E n \in 1..Len(r) : o(n) = k
      OBVIOUS
    <3>1. CASE k < i
      BY <1>1, <2>3, <2>4, <3>1
    <3>2. CASE i < k
      <4>1. k - 1 \in 1..Len(r) /\ o(k - 1) = k
        BY <1>1, <2>3, <2>4, <3>2
      <4> QED BY <4>1
    <3> QED BY <2>4, <3>1, <3>2
  <2> HIDE DEF o
  <2>8. UniqueKeys(r)
    BY <2>5, <2>6 DEF UniqueKeys
  <2>9. \A k \in 1..Len(cache) : cache[k].key = key <=> k = i
    BY <2>1 DEF UniqueKeys
  <2>10. ElementsOf(r) \subseteq {e \in Entries : e.key # key}
    BY <2>5, <2>9 DEF ElementsOf, Entries
  <2>11. {e \in Entries : e.key # key} \subseteq ElementsOf(r)
    <3> SUFFICES ASSUME NEW k \in 1..Len(cache), cache[k].key # key PROVE cache[k] \in ElementsOf(r)
      BY DEF Entries
    <3>1. PICK n \in 1..Len(r) : o(n) = k
      BY <2>7, <2>9
    <3> QED BY <2>5, <3>1 DEF ElementsOf
  <2> QED BY <1>1, <2>2, <2>3, <2>4, <2>8, <2>10, <2>11
<1> QED BY <1>2, <1>3

\* An entry that is put last, in place of an older one of its conversation.
LEMMA UsedFacts ==
  ASSUME cache \in Seq(Entry), UniqueKeys(cache), NEW e \in Entry
  PROVE  /\ Used(e) \in Seq(Entry) /\ UniqueKeys(Used(e)) /\ Len(cache) \in Nat
         /\ Len(Used(e)) \in Nat /\ Len(Used(e)) >= 1 /\ Len(Used(e)) <= Len(cache) + 1
         /\ Used(e)[Len(Used(e))] = e
         /\ \A i \in 1..(Len(Used(e)) - 1) : Used(e)[i] \in Entries /\ Used(e)[i].key # e.key
         /\ e \in Entries => Len(Used(e)) = Len(cache)
         /\ ElementsOf(Used(e)) = {x \in Entries : x.key # e.key} \cup {e}
<1> DEFINE w == Without(e.key)
           u == Append(w, e)
<1>1. /\ w \in Seq(Entry) /\ UniqueKeys(w)
      /\ Len(cache) \in Nat /\ Len(w) \in Nat
      /\ Len(w) <= Len(cache)
      /\ e.key \in KeysOf(cache) => Len(w) = Len(cache) - 1
      /\ ElementsOf(w) = {x \in Entries : x.key # e.key}
  BY WithoutFacts
<1>2. Used(e) = u
  BY DEF Used
<1> HIDE DEF w
<1>3. /\ u \in Seq(Entry) /\ Len(u) = Len(w) + 1
      /\ \A i \in 1..Len(w) : u[i] = w[i]
      /\ u[Len(w) + 1] = e
  BY <1>1, AppendProperties
<1> HIDE DEF u
<1>4. Len(u) \in Nat /\ Len(u) >= 1 /\ Len(u) <= Len(cache) + 1 /\ Len(u) - 1 = Len(w)
  BY <1>1, <1>3
<1>5. \A i \in 1..Len(w) : u[i] \in Entries /\ u[i].key # e.key
  BY <1>1, <1>3 DEF ElementsOf
<1>6. \A i \in 1..Len(u) : i \in 1..Len(w) \/ i = Len(w) + 1
  BY <1>1, <1>3
<1>7. UniqueKeys(u)
  <2> SUFFICES ASSUME NEW i \in 1..Len(u), NEW j \in 1..Len(u), u[i].key = u[j].key PROVE i = j
    BY DEF UniqueKeys
  <2>1. CASE i \in 1..Len(w) /\ j \in 1..Len(w)
    BY <1>1, <1>3, <2>1 DEF UniqueKeys
  <2>2. CASE i = Len(w) + 1
    BY <1>3, <1>5, <1>6, <2>2
  <2>3. CASE j = Len(w) + 1
    BY <1>3, <1>5, <1>6, <2>3
  <2> QED BY <1>6, <2>1, <2>2, <2>3
<1>8. ElementsOf(u) = ElementsOf(w) \cup {e}
  <2>1. ElementsOf(u) \subseteq ElementsOf(w) \cup {e}
    BY <1>3, <1>6 DEF ElementsOf
  <2>2. \A i \in 1..Len(w) : i \in 1..Len(u)
    BY <1>1, <1>3
  <2>3. Len(w) + 1 \in 1..Len(u)
    BY <1>1, <1>3
  <2> QED BY <1>3, <2>1, <2>2, <2>3 DEF ElementsOf
<1>9. e \in Entries => Len(u) = Len(cache)
  <2>1. e \in Entries => e.key \in KeysOf(cache)
    BY DEF Entries, KeysOf
  <2> QED BY <1>1, <1>3, <2>1
<1> QED BY <1>1, <1>2, <1>3, <1>4, <1>5, <1>7, <1>8, <1>9

\* An entry that is read becomes the last; the cache holds the same entries.
LEMMA ReadFacts ==
  ASSUME cache \in Seq(Entry), UniqueKeys(cache), NEW e \in Entries
  PROVE  /\ Used(e) \in Seq(Entry) /\ UniqueKeys(Used(e))
         /\ Len(Used(e)) = Len(cache) /\ ElementsOf(Used(e)) = Entries
<1>1. e \in Entry
  <2>1. PICK i \in 1..Len(cache) : e = cache[i]
    BY DEF Entries
  <2> QED BY <2>1, ElementOfSeq
<1>2. \A x \in Entries : x.key = e.key => x = e
  BY DEF Entries, UniqueKeys
<1>3. /\ Used(e) \in Seq(Entry) /\ UniqueKeys(Used(e))
      /\ e \in Entries => Len(Used(e)) = Len(cache)
      /\ ElementsOf(Used(e)) = {x \in Entries : x.key # e.key} \cup {e}
  BY <1>1, UsedFacts
<1>4. {x \in Entries : x.key # e.key} \cup {e} = Entries
  BY <1>2
<1> QED BY <1>3, <1>4

\* What put leaves: the new entry, and of the others those whose hook has not run.
LEMMA PutFacts ==
  ASSUME cache \in Seq(Entry), UniqueKeys(cache), Len(cache) <= MaxSessions, NEW e \in Entry
  PROVE  LET kept   == Bounded(Used(e))
             hooked == KeysOf(cache) \ KeysOf(SubSeq(kept, 1, Len(kept) - 1)) IN
           /\ kept \in Seq(Entry) /\ UniqueKeys(kept) /\ Len(kept) <= MaxSessions
           /\ e \in ElementsOf(kept)
           /\ \A x \in ElementsOf(kept) : x = e \/ (x \in Entries /\ x.key # e.key)
           /\ \A x \in Entries : x.key \notin hooked => x \in ElementsOf(kept) /\ x.key # e.key
<1> DEFINE u    == Used(e)
           kept == Bounded(u)
           front == SubSeq(kept, 1, Len(kept) - 1)
           hooked == KeysOf(cache) \ KeysOf(front)
<1>1. MaxSessions \in Nat /\ MaxSessions >= 1
  BY SessionAssumption
<1>2. /\ u \in Seq(Entry) /\ UniqueKeys(u) /\ Len(cache) \in Nat
      /\ Len(u) \in Nat /\ Len(u) >= 1 /\ Len(u) <= Len(cache) + 1
      /\ u[Len(u)] = e
      /\ \A i \in 1..(Len(u) - 1) : u[i] \in Entries /\ u[i].key # e.key
  BY UsedFacts
<1> HIDE DEF u
<1>3. /\ kept \in Seq(Entry) /\ UniqueKeys(kept)
      /\ Len(kept) \in Nat /\ Len(kept) >= 1 /\ Len(kept) <= MaxSessions
      /\ kept[Len(kept)] = e
      /\ \A i \in 1..(Len(kept) - 1) : kept[i] \in Entries /\ kept[i].key # e.key
  <2>1. CASE ~(Len(u) > MaxSessions)
    <3>1. kept = u
      BY <2>1 DEF Bounded
    <3> HIDE DEF kept
    <3> QED BY <1>1, <1>2, <2>1, <3>1
  <2>2. CASE Len(u) > MaxSessions
    <3>1. kept = Tail(u)
      BY <2>2 DEF Bounded
    <3>2. u # <<>>
      BY <1>2, EmptySeq
    <3> HIDE DEF kept
    <3>3. /\ kept \in Seq(Entry) /\ Len(kept) = Len(u) - 1
          /\ \A i \in 1..Len(kept) : kept[i] = u[i + 1]
      BY <1>2, <3>1, <3>2, HeadTailProperties
    <3>4. Len(kept) \in Nat /\ Len(kept) >= 1 /\ Len(kept) <= MaxSessions
      BY <1>1, <1>2, <2>2, <3>3
    <3>5. \A i \in 1..Len(kept) : i + 1 \in 1..Len(u) /\ kept[i] = u[i + 1]
      BY <1>2, <3>3, <3>4
    <3>6. UniqueKeys(kept)
      <4> SUFFICES ASSUME NEW i \in 1..Len(kept), NEW j \in 1..Len(kept), kept[i].key = kept[j].key
                   PROVE  i = j
        BY DEF UniqueKeys
      <4>1. i + 1 = j + 1
        BY <1>2, <3>5 DEF UniqueKeys
      <4> QED BY <3>4, <4>1
    <3>7. kept[Len(kept)] = e
      <4>1. Len(kept) \in 1..Len(kept) /\ Len(kept) + 1 = Len(u)
        BY <1>2, <3>3, <3>4
      <4> QED BY <1>2, <3>3, <4>1
    <3>8. \A i \in 1..(Len(kept) - 1) : kept[i] \in Entries /\ kept[i].key # e.key
      <4> SUFFICES ASSUME NEW i \in 1..(Len(kept) - 1) PROVE kept[i] \in Entries /\ kept[i].key # e.key
        OBVIOUS
      <4>1. i \in 1..Len(kept) /\ i + 1 \in 1..(Len(u) - 1)
        BY <1>2, <3>3, <3>4
      <4> QED BY <1>2, <3>5, <4>1
    <3> QED BY <3>3, <3>4, <3>6, <3>7, <3>8
  <2> QED BY <2>1, <2>2
<1> HIDE DEF kept
<1>4. \A i \in 1..Len(kept) : i \in 1..(Len(kept) - 1) \/ i = Len(kept)
  BY <1>3
<1>5. Len(kept) \in 1..Len(kept) /\ \A i \in 1..(Len(kept) - 1) : i \in 1..Len(kept)
  BY <1>3
<1>6. e \in ElementsOf(kept)
  BY <1>3, <1>5 DEF ElementsOf
<1>7. \A x \in ElementsOf(kept) : x = e \/ (x \in Entries /\ x.key # e.key)
  BY <1>3, <1>4 DEF ElementsOf
<1>8. KeysOf(front) = {kept[i].key : i \in 1..(Len(kept) - 1)}
  <2> DEFINE n == Len(kept) - 1
  <2>1. n \in Int /\ n >= 0 /\ 1 \in Int /\ \A i \in 1..n : kept[i] \in Entry
    BY <1>3, <1>5, ElementOfSeq
  <2> HIDE DEF n
  <2>2. /\ SubSeq(kept, 1, n) \in Seq(Entry)
        /\ Len(SubSeq(kept, 1, n)) = IF 1 <= n THEN n - 1 + 1 ELSE 0
        /\ \A i \in 1..(n - 1 + 1) : SubSeq(kept, 1, n)[i] = kept[1 + i - 1]
    BY <2>1, SubSeqProperties
  <2>3. n - 1 + 1 = n /\ \A i \in 1..n : 1 + i - 1 = i
    BY <2>1
  <2>4. Len(SubSeq(kept, 1, n)) = n /\ \A i \in 1..n : SubSeq(kept, 1, n)[i] = kept[i]
    BY <2>1, <2>2, <2>3
  <2>5. KeysOf(SubSeq(kept, 1, n)) = {kept[i].key : i \in 1..n}
    BY <2>4 DEF KeysOf
  <2> QED BY <2>5 DEF n
<1>9. ASSUME NEW x \in Entries, x.key \notin hooked
      PROVE  x \in ElementsOf(kept) /\ x.key # e.key
  <2>1. x.key \in KeysOf(cache)
    BY DEF Entries, KeysOf
  <2>2. PICK i \in 1..(Len(kept) - 1) : kept[i].key = x.key
    BY <1>8, <1>9, <2>1
  <2>3. kept[i] \in Entries /\ kept[i].key # e.key
    BY <1>3
  <2>4. x = kept[i]
    BY <2>2, <2>3 DEF Entries, UniqueKeys
  <2> QED BY <1>5, <2>3, <2>4 DEF ElementsOf
<1> QED BY <1>3, <1>6, <1>7, <1>9 DEF kept, u

\* A set of natural numbers has a least element.
LEMMA LeastElement ==
  ASSUME NEW S \in SUBSET Nat, S # {}
  PROVE  \E m \in S : \A n \in S : m <= n
<1>1. PICK m \in S : \A n \in S : ~(<<n, m>> \in OpToRel(<, Nat))
  BY NatLessThanWellFounded, WFMin
<1>2. \A n \in S : ~(n < m)
  BY <1>1 DEF OpToRel
<1> QED BY <1>2

\* find_prefix_match returns an entry of the cache that matches.
LEMMA BestMatchFacts ==
  ASSUME cache \in Seq(Entry), NEW t \in Tokens, Matching(t) # {}
  PROVE  BestMatch(t) \in Matching(t)
<1> DEFINE M    == Matching(t)
           d(i) == t[2] - cache[i].cold[2]
           D    == {d(i) : i \in M}
<1>1. /\ M \subseteq Nat
      /\ \A i \in M : cache[i].cold[2] \in Nat /\ d(i) \in Nat
  <2> SUFFICES ASSUME NEW i \in M PROVE i \in Nat /\ cache[i].cold[2] \in Nat /\ d(i) \in Nat
    OBVIOUS
  <2>1. i \in 1..Len(cache) /\ Extends(cache[i].cold, t)
    BY DEF Matching
  <2>2. cache[i].cold \in Tokens
    <3>1. cache[i] \in Entry
      BY <2>1, ElementOfSeq
    <3> QED BY <3>1 DEF Entry
  <2>3. cache[i].cold[2] \in Nat /\ t[2] \in Nat /\ cache[i].cold[2] < t[2]
    BY <2>1, <2>2, ExtendsFacts
  <2> QED BY <2>1, <2>3
<1>2. t[2] \in Nat
  BY DEF Tokens
<1>3. D \in SUBSET Nat /\ D # {}
  BY <1>1
<1>4. PICK i0 \in M : \A k \in M : d(i0) <= d(k)
  <2>1. PICK m \in D : \A n \in D : m <= n
    BY <1>3, LeastElement
  <2> QED BY <2>1
<1> DEFINE P == {i \in M : d(i) = d(i0)}
<1>5. P \in SUBSET Nat /\ P # {}
  BY <1>1
<1>6. PICK i \in P : \A k \in P : i <= k
  BY <1>5, LeastElement
<1>7. \A k \in M : Better(i, k)
  <2> SUFFICES ASSUME NEW k \in M PROVE Better(i, k)
    OBVIOUS
  <2>1. d(i) <= d(k) /\ d(i) = d(i0) /\ i \in M
    BY <1>4, <1>6
  <2>2. CASE d(i) = d(k)
    <3>1. i <= k
      BY <1>6, <2>1, <2>2
    <3>2. cache[i].cold[2] = cache[k].cold[2]
      BY <1>1, <1>2, <2>1, <2>2
    <3> QED BY <3>1, <3>2 DEF Better
  <2>3. CASE d(i) < d(k)
    <3>1. cache[i].cold[2] > cache[k].cold[2]
      BY <1>1, <1>2, <2>1, <2>3
    <3> QED BY <3>1 DEF Better
  <2> QED BY <1>1, <2>1, <2>2, <2>3
<1> QED BY <1>6, <1>7 DEF BestMatch

-----------------------------------------------------------------------------
(* The workers.                                                            *)

\* HeldInv, for the worker j and the entries es.
WorkerOk(j, es) ==
  /\ j.pc = "idle" => j = Idle
  /\ j.pc # "idle" => j.text[2] >= 1
  /\ j.pc = "extend" => Extends(j.held.cold, j.text)
  /\ j.held.kv # NoKv => j.fresh
  /\ j.fresh => j.held \in es /\ j.held.key = j.key
  /\ j.kv # NoKv <=> j.pc \in {"decode", "put"}

\* The part of TypeOK about the lock.
LockInv == lock <=> \E w \in Workers : job[w].pc # "idle" /\ ~job[w].stream

\* The invariant, as the steps use it.
LEMMA InvFacts ==
  ASSUME IInv
  PROVE  /\ lock \in BOOLEAN /\ streaming \in BOOLEAN
         /\ requests \in 0..MaxRequests /\ faults \in 0..MaxFaults
         /\ cache \in Seq(Entry) /\ UniqueKeys(cache) /\ Len(cache) <= MaxSessions
         /\ kvs \in [KvIds -> Seq(Slot)]
         /\ job \in [Workers -> Job]
         /\ \A w \in Workers : job[w] \in Job /\ WorkerOk(job[w], Entries)
         /\ \A e \in Entries : e \in Entry /\ e.kv # NoKv /\ e.kv \in KvIds
         /\ LockInv /\ Blocking /\ OneKeyPerKv
<1>1. /\ lock \in BOOLEAN /\ streaming \in BOOLEAN
      /\ requests \in 0..MaxRequests /\ faults \in 0..MaxFaults
      /\ cache \in Seq(Entry) /\ kvs \in [KvIds -> Seq(Slot)] /\ job \in [Workers -> Job]
      /\ LockInv /\ Blocking /\ OneKeyPerKv
  BY DEF IInv, TypeOK, LockInv
<1>2. UniqueKeys(cache) /\ Len(cache) <= MaxSessions /\ \A e \in Entries : e.kv # NoKv
  BY DEF IInv, OneEntryPerKey, UniqueKeys
<1>3. \A w \in Workers : job[w] \in Job /\ WorkerOk(job[w], Entries)
  BY <1>1 DEF IInv, HeldInv, WorkerOk
<1>4. \A e \in Entries : e \in Entry
  BY <1>1, ElementOfSeq DEF Entries
<1>5. \A e \in Entries : e.kv \in KvIds
  BY <1>2, <1>4 DEF Entry
<1> QED BY <1>1, <1>2, <1>3, <1>4, <1>5

\* The invariant of the next state, from its parts.
LEMMA InvPrimed ==
  ASSUME lock' \in BOOLEAN, streaming' \in BOOLEAN,
         requests' \in 0..MaxRequests, faults' \in 0..MaxFaults,
         cache' \in Seq(Entry), UniqueKeys(cache'), Len(cache') <= MaxSessions,
         kvs' \in [KvIds -> Seq(Slot)], job' \in [Workers -> Job],
         \A w \in Workers : WorkerOk(job'[w], ElementsOf(cache')),
         \A e \in ElementsOf(cache') : e.kv # NoKv,
         LockInv', Blocking', OneKeyPerKv', QuietInv'
  PROVE  IInv'
<1>1. Entries' = ElementsOf(cache')
  BY DEF Entries, ElementsOf
<1>2. TypeOK'
  BY DEF TypeOK, LockInv
<1>3. OneEntryPerKey'
  BY <1>1 DEF OneEntryPerKey, UniqueKeys
<1>4. HeldInv'
  BY <1>1 DEF HeldInv, WorkerOk
<1> QED BY <1>2, <1>3, <1>4 DEF IInv

\* A worker without a request.
LEMMA IdleFacts ==
  /\ NoEntry \in Entry /\ Idle \in Job
  /\ NoEntry.kv = NoKv
  /\ Idle.pc = "idle" /\ Idle.stream = FALSE /\ Idle.kv = NoKv /\ Idle.fresh = FALSE
  /\ Idle.held = NoEntry
<1>1. <<Shared, 0>> \in Tokens
  BY SessionAssumption DEF Tokens
<1>2. NoEntry \in Entry /\ NoEntry.kv = NoKv
  BY <1>1 DEF NoEntry, Entry
<1>3. Idle \in Job
  BY <1>1, <1>2 DEF Idle, Job
<1> QED BY <1>2, <1>3 DEF Idle

\* Beside a blocking generation the others are idle.
LEMMA OthersIdle ==
  ASSUME IInv, ~streaming, NEW w \in Workers, NEW v \in Workers, v # w, job[w].pc # "idle"
  PROVE  job[v] = Idle
<1>1. ~job[v].stream /\ ~job[w].stream
  BY DEF IInv, Blocking
<1>2. job[v].pc = "idle"
  BY <1>1 DEF IInv, Blocking
<1> QED BY <1>2 DEF IInv, HeldInv

\* A KV object is left for a generation to begin with.
LEMMA NewKvFacts ==
  ASSUME IInv, NEW w \in Workers, job[w].kv = NoKv
  PROVE  NewKv \in KvIds /\ NewKv # NoKv /\ NewKv \notin Referenced(cache, job)
<1> DEFINE C == {cache[i].kv : i \in 1..Len(cache)}
           V == Workers \ {w}
           J == {job[v].kv : v \in V}
<1>1. /\ IsFiniteSet(Workers) /\ Cardinality(Workers) \in Nat /\ MaxSessions \in Nat
      /\ Len(cache) \in Nat /\ Len(cache) <= MaxSessions
  BY InvFacts, LenProperties, SessionAssumption, FS_CardinalityType
<1>2. \A k \in KvIds : k # NoKv
  BY <1>1 DEF KvIds, NoKv
<1>3. IsFiniteSet(C) /\ Cardinality(C) <= Len(cache)
  <2> DEFINE f == [i \in 1..Len(cache) |-> cache[i].kv]
  <2>1. f \in Surjection(1..Len(cache), C)
    BY DEF Surjection
  <2>2. IsFiniteSet(1..Len(cache)) /\ Cardinality(1..Len(cache)) = Len(cache)
    <3> DEFINE n == Len(cache)
    <3>1. n \in Int /\ 1 \in Int /\ (IF 1 > n THEN 0 ELSE n - 1 + 1) = n
      BY <1>1
    <3> HIDE DEF n
    <3>2. IsFiniteSet(1..n) /\ Cardinality(1..n) = IF 1 > n THEN 0 ELSE n - 1 + 1
      BY <3>1, FS_Interval
    <3> QED BY <3>1, <3>2 DEF n
  <2> HIDE DEF f, C
  <2>3. IsFiniteSet(C) /\ Cardinality(C) <= Cardinality(1..Len(cache))
    BY <2>1, <2>2, FS_Surjection
  <2> QED BY <2>2, <2>3
<1>4. IsFiniteSet(J) /\ Cardinality(J) <= Cardinality(Workers) - 1
  <2> DEFINE f == [v \in V |-> job[v].kv]
  <2>1. f \in Surjection(V, J)
    BY DEF Surjection
  <2>2. IsFiniteSet(V) /\ Cardinality(V) = Cardinality(Workers) - 1
    BY <1>1, FS_RemoveElement
  <2> HIDE DEF f, V, J
  <2>3. IsFiniteSet(J) /\ Cardinality(J) <= Cardinality(V)
    BY <2>1, <2>2, FS_Surjection
  <2> QED BY <2>2, <2>3
<1>5. Referenced(cache, job) \cap KvIds \subseteq C \cup J
  <2> SUFFICES ASSUME NEW k \in KvIds, k \in Referenced(cache, job) PROVE k \in C \cup J
    OBVIOUS
  <2>1. k # NoKv
    BY <1>2
  <2>2. ASSUME NEW v \in Workers, k = job[v].held.kv PROVE k \in C
    <3>1. job[v].held \in Entries
      BY <2>1, <2>2, InvFacts DEF WorkerOk
    <3> QED BY <2>2, <3>1 DEF Entries
  <2>3. ASSUME NEW v \in Workers, k = job[v].kv PROVE k \in J
    BY <2>1, <2>3
  <2> QED BY <2>2, <2>3 DEF Referenced
<1>6. \E k \in KvIds : k \notin Referenced(cache, job)
  <2> SUFFICES ASSUME KvIds \subseteq Referenced(cache, job) PROVE FALSE
    OBVIOUS
  <2>1. KvIds \subseteq C \cup J
    BY <1>5
  <2> HIDE DEF C, J
  <2>2. /\ IsFiniteSet(C \cup J) /\ Cardinality(C \cap J) \in Nat
        /\ Cardinality(C \cup J) = Cardinality(C) + Cardinality(J) - Cardinality(C \cap J)
    BY <1>3, <1>4, FS_Union, FS_Intersection, FS_CardinalityType
  <2>3. Cardinality(KvIds) <= Cardinality(C \cup J)
    BY <2>1, <2>2, FS_Subset
  <2>4. Cardinality(KvIds) = MaxSessions + Cardinality(Workers)
    <3>1. MaxSessions + Cardinality(Workers) \in Nat
      BY <1>1
    <3> QED BY <1>1, <3>1, FS_Interval DEF KvIds
  <2>5. Cardinality(C) \in Nat /\ Cardinality(J) \in Nat
    BY <1>3, <1>4, FS_CardinalityType
  <2> QED BY <1>1, <1>3, <1>4, <2>2, <2>3, <2>4, <2>5
<1> QED BY <1>2, <1>6 DEF NewKv

-----------------------------------------------------------------------------
(* The lock.                                                               *)

\* A step within a generation leaves the lock alone.
LEMMA LockKept ==
  ASSUME LockInv, Blocking, UNCHANGED <<lock, streaming>>,
         \A v \in Workers : job'[v].stream = job[v].stream /\ (job'[v].pc = "idle" <=> job[v].pc = "idle")
  PROVE  LockInv' /\ Blocking'
<1>1. LockInv'
  BY DEF LockInv
<1>2. \A v, w \in Workers :
        {job[v].pc, job[w].pc} \cap {"idle"} = {} <=> job[v].pc # "idle" /\ job[w].pc # "idle"
  OBVIOUS
<1>3. \A v, w \in Workers :
        {job'[v].pc, job'[w].pc} \cap {"idle"} = {} <=> job'[v].pc # "idle" /\ job'[w].pc # "idle"
  OBVIOUS
<1>4. Blocking'
  BY <1>2, <1>3 DEF Blocking
<1> QED BY <1>1, <1>4

\* A blocking generation that begins takes it.
LEMMA LockTaken ==
  ASSUME LockInv, Blocking, NEW w \in Workers, NEW stream \in {FALSE, streaming},
         stream \/ ~lock, lock' = (lock \/ ~stream), streaming' = streaming, streaming \in BOOLEAN,
         job[w].pc = "idle", job'[w].pc # "idle", job'[w].stream = stream,
         \A v \in Workers : v # w => job'[v] = job[v]
  PROVE  LockInv' /\ Blocking'
<1>1. LockInv'
  <2>1. CASE stream
    BY <2>1 DEF LockInv
  <2>2. CASE ~stream
    BY <2>2 DEF LockInv
  <2> QED BY <2>1, <2>2
<1>2. ~streaming' => \A v \in Workers : ~job'[v].stream
  BY DEF Blocking
<1>3. ASSUME NEW u \in Workers, NEW v \in Workers,
             {job'[u].pc, job'[v].pc} \cap {"idle"} = {}, ~job'[u].stream, ~job'[v].stream
      PROVE  u = v
  <2>1. job'[u].pc # "idle" /\ job'[v].pc # "idle"
    BY <1>3
  <2>2. CASE u # w /\ v # w
    <3>1. {job[u].pc, job[v].pc} \cap {"idle"} = {} /\ ~job[u].stream /\ ~job[v].stream
      BY <1>3, <2>2
    <3> QED BY <3>1 DEF Blocking
  <2>3. CASE u = w /\ v # w
    BY <1>3, <2>1, <2>3 DEF LockInv
  <2>4. CASE u # w /\ v = w
    BY <1>3, <2>1, <2>4 DEF LockInv
  <2> QED BY <2>2, <2>3, <2>4
<1> QED BY <1>1, <1>2, <1>3 DEF Blocking

\* A generation that ends gives it back.
LEMMA LockReleased ==
  ASSUME LockInv, Blocking, NEW w \in Workers,
         lock' = (lock /\ job[w].stream), streaming' = streaming,
         job[w].stream \in BOOLEAN,
         job[w].pc # "idle", job'[w].pc = "idle", job'[w].stream = FALSE,
         \A v \in Workers : v # w => job'[v].stream = job[v].stream /\ job'[v].pc = job[v].pc
  PROVE  LockInv' /\ Blocking'
<1>1. ASSUME NEW v \in Workers, ~job[w].stream, v # w
      PROVE  job[v].pc = "idle" \/ job[v].stream
  <2>1. ASSUME job[v].pc # "idle" /\ ~job[v].stream PROVE FALSE
    <3>1. {job[v].pc, job[w].pc} \cap {"idle"} = {}
      BY <2>1
    <3> QED BY <1>1, <2>1, <3>1 DEF Blocking
  <2> QED BY <2>1
<1>2. LockInv'
  <2>1. CASE job[w].stream
    BY <2>1 DEF LockInv
  <2>2. CASE ~job[w].stream
    BY <1>1, <2>2 DEF LockInv
  <2> QED BY <2>1, <2>2
<1>3. ~streaming' => \A v \in Workers : ~job'[v].stream
  BY DEF Blocking
<1>4. ASSUME NEW u \in Workers, NEW v \in Workers,
             {job'[u].pc, job'[v].pc} \cap {"idle"} = {}, ~job'[u].stream, ~job'[v].stream
      PROVE  u = v
  <2>1. u # w /\ v # w
    BY <1>4
  <2>2. {job[u].pc, job[v].pc} \cap {"idle"} = {} /\ ~job[u].stream /\ ~job[v].stream
    BY <1>4, <2>1
  <2> QED BY <2>2 DEF Blocking
<1> QED BY <1>2, <1>3, <1>4 DEF Blocking

-----------------------------------------------------------------------------
(* Steps that only look an entry up.                                       *)

\* A worker that has no KV object yet goes on; the cache keeps its entries.
LEMMA LookStep ==
  ASSUME IInv, NEW w \in Workers, NEW r \in Job, job' = [job EXCEPT ![w] = r],
         cache' \in Seq(Entry), UniqueKeys(cache'), Len(cache') = Len(cache),
         ElementsOf(cache') = Entries,
         UNCHANGED <<kvs, streaming, faults>>, requests' \in 0..MaxRequests, lock' \in BOOLEAN,
         job[w].kv = NoKv, r.kv = NoKv, WorkerOk(r, Entries), r.pc = "extend" => r.fresh,
         LockInv', Blocking'
  PROVE  IInv'
<1>1. /\ job'[w] = r /\ job' \in [Workers -> Job]
      /\ \A v \in Workers : v # w => job'[v] = job[v]
  BY InvFacts
<1>2. Entries' = Entries
  BY DEF Entries, ElementsOf
<1>3. \A v \in Workers : job'[v].kv = job[v].kv
  BY <1>1
<1>4. OneKeyPerKv'
  <2>1. \A e \in Entries : e.kv # NoKv
    BY InvFacts
  <2>2. \A e \in Entries, v \in Workers : e.kv = job'[v].kv => e.key = job'[v].key
    BY <1>1, <2>1, InvFacts DEF OneKeyPerKv
  <2>3. \A u, v \in Workers : job'[u].kv = job'[v].kv /\ job'[v].kv # NoKv => job'[u].key = job'[v].key
    BY <1>1, InvFacts DEF OneKeyPerKv
  <2>4. \A e, f \in Entries : e.kv = f.kv => e.key = f.key
    BY InvFacts DEF OneKeyPerKv
  <2> QED BY <1>2, <2>2, <2>3, <2>4 DEF OneKeyPerKv
<1>5. QuietInv'
  <2> SUFFICES ASSUME ~streaming /\ faults = 0 PROVE QuietInv'
    BY DEF QuietInv
  <2>1. /\ \A v \in Workers :
             /\ job[v].pc = "extend" => job[v].fresh
             /\ job[v].kv # NoKv => Exact(kvs[job[v].kv], job[v].text, job[v].total, job[v].start)
        /\ \A e \in Entries :
             (\A v \in Workers : job[v].kv # e.kv) => Exact(kvs[e.kv], e.cold, e.total, e.start)
    BY DEF IInv, QuietInv
  <2>2. \A v \in Workers :
          /\ job'[v].pc = "extend" => job'[v].fresh
          /\ job'[v].kv # NoKv => Exact(kvs'[job'[v].kv], job'[v].text, job'[v].total, job'[v].start)
    BY <1>1, <2>1
  <2>3. \A e \in Entries' :
          (\A v \in Workers : job'[v].kv # e.kv) => Exact(kvs'[e.kv], e.cold, e.total, e.start)
    BY <1>2, <1>3, <2>1
  <2> QED BY <2>2, <2>3 DEF QuietInv
<1>6. \A v \in Workers : WorkerOk(job'[v], ElementsOf(cache'))
  BY <1>1, InvFacts
<1>7. /\ streaming' \in BOOLEAN /\ faults' \in 0..MaxFaults /\ Len(cache') <= MaxSessions
      /\ kvs' \in [KvIds -> Seq(Slot)] /\ \A e \in ElementsOf(cache') : e.kv # NoKv
  BY InvFacts
<1> QED BY <1>1, <1>4, <1>5, <1>6, <1>7, InvPrimed

\* A step of the engine's lock, for the worker w that goes on.
LEMMA WorkerGoesOn ==
  ASSUME IInv, NEW w \in Workers, NEW r, job' = [job EXCEPT ![w] = r],
         UNCHANGED <<lock, streaming>>,
         r.stream = job[w].stream, job[w].pc # "idle", r.pc # "idle"
  PROVE  LockInv' /\ Blocking' /\ lock' \in BOOLEAN
<1>1. job'[w] = r /\ \A v \in Workers : v # w => job'[v] = job[v]
  BY InvFacts
<1>2. LockInv' /\ Blocking'
  BY <1>1, InvFacts, LockKept
<1> QED BY <1>2, InvFacts

\* A generation begins.
LEMMA BeginStep ==
  ASSUME IInv, NEW w \in Workers, Begin(w)
  PROVE  IInv'
<1>1. /\ job[w].pc = "idle" /\ requests < MaxRequests /\ requests' = requests + 1
      /\ UNCHANGED <<cache, kvs, streaming, faults>>
  BY DEF Begin
<1>2. PICK stream \in {FALSE, streaming}, user \in Users \cup {Anonymous}, t \in Prompts, n \in NewTokens :
        /\ stream \/ ~lock
        /\ lock' = (lock \/ ~stream)
        /\ job' = [job EXCEPT ![w] = [@ EXCEPT
             !.pc = "get", !.stream = stream, !.user = user, !.text = t, !.max = n,
             !.key = IF user = Anonymous THEN PrefixKey(t) ELSE user]]
  BY DEF Begin
<1> DEFINE key == IF user = Anonymous THEN PrefixKey(t) ELSE user
           r == [job[w] EXCEPT !.pc = "get", !.stream = stream, !.user = user, !.text = t,
                               !.max = n, !.key = key]
<1>3. key \in Keys \cup {Anonymous} /\ t \in Tokens /\ t[2] >= 1
  <2>1. t \in Tokens /\ t[2] >= 1 /\ t[2] \in Nat /\ HashWindow \in Nat
    BY PromptFacts, SessionAssumption DEF Tokens
  <2>2. Least(t[2], HashWindow) \in Nat /\ Least(t[2], HashWindow) <= t[2]
    BY <2>1 DEF Least
  <2>3. PrefixKey(t) \in Tokens
    BY <2>1, <2>2, NthFacts DEF PrefixKey
  <2> QED BY <2>1, <2>3 DEF Keys
<1> HIDE DEF key
<1>4. job[w] = Idle /\ job[w] \in Job
  BY <1>1, InvFacts DEF WorkerOk
<1>5. /\ r \in Job /\ r.pc = "get" /\ r.stream = stream /\ r.text = t
      /\ r.kv = NoKv /\ r.fresh = FALSE /\ r.held = NoEntry
  <2>1. stream \in BOOLEAN
    BY InvFacts
  <2> QED BY <1>3, <1>4, <2>1, IdleFacts DEF Job
<1>6. job' = [job EXCEPT ![w] = r]
  BY <1>2 DEF key
<1> HIDE DEF r
<1>7. job'[w] = r /\ \A v \in Workers : v # w => job'[v] = job[v]
  BY <1>6, InvFacts
<1>8. LockInv' /\ Blocking' /\ lock' \in BOOLEAN
  <2>1. streaming' = streaming /\ job'[w].pc # "idle" /\ job'[w].stream = stream
    BY <1>1, <1>5, <1>7
  <2>2. LockInv' /\ Blocking'
    BY <1>1, <1>2, <1>7, <2>1, InvFacts, LockTaken
  <2>3. lock' \in BOOLEAN
    BY <1>2, InvFacts
  <2> QED BY <2>2, <2>3
<1>9. WorkerOk(r, Entries)
  BY <1>3, <1>5, IdleFacts DEF WorkerOk
<1>10. /\ cache' \in Seq(Entry) /\ UniqueKeys(cache') /\ Len(cache') = Len(cache)
       /\ ElementsOf(cache') = Entries
  BY <1>1, InvFacts DEF ElementsOf, Entries
<1>11. requests' \in 0..MaxRequests
  BY <1>1, InvFacts, SessionAssumption
<1>12. job[w].kv = NoKv
  BY <1>4, IdleFacts
<1> QED BY <1>1, <1>5, <1>6, <1>8, <1>9, <1>10, <1>11, <1>12, LookStep

\* A worker takes an entry of the cache.
LEMMA HoldStep ==
  ASSUME IInv, NEW w \in Workers, NEW e \in Entries, job[w].pc \in {"get", "scan"}, Hold(w, e),
         UNCHANGED <<lock, kvs, streaming, requests, faults>>
  PROVE  IInv'
<1> DEFINE r == [job[w] EXCEPT !.pc = "check", !.key = e.key, !.held = e, !.fresh = TRUE]
<1>1. cache' = Used(e) /\ job' = [job EXCEPT ![w] = r]
  BY DEF Hold
<1>2. job[w] \in Job /\ WorkerOk(job[w], Entries) /\ e \in Entry
  BY InvFacts
<1>3. job[w].kv = NoKv /\ job[w].text[2] >= 1
  BY <1>2 DEF WorkerOk
<1>4. /\ r \in Job /\ r.pc = "check" /\ r.stream = job[w].stream /\ r.text = job[w].text
      /\ r.kv = NoKv /\ r.fresh = TRUE /\ r.held = e /\ r.key = e.key
  BY <1>2, <1>3 DEF Job, Entry
<1> HIDE DEF r
<1>5. WorkerOk(r, Entries)
  BY <1>3, <1>4 DEF WorkerOk
<1>6. /\ cache' \in Seq(Entry) /\ UniqueKeys(cache') /\ Len(cache') = Len(cache)
      /\ ElementsOf(cache') = Entries
  BY <1>1, InvFacts, ReadFacts
<1>7. LockInv' /\ Blocking' /\ lock' \in BOOLEAN
  BY <1>1, <1>4, WorkerGoesOn
<1>8. requests' \in 0..MaxRequests
  BY InvFacts
<1> QED BY <1>1, <1>3, <1>4, <1>5, <1>6, <1>7, <1>8, LookStep

\* A worker goes to the next place of the program.
LEMMA MoveStep ==
  ASSUME IInv, NEW w \in Workers, job[w].pc \in {"get", "scan", "check"},
         NEW pc \in {"scan", "prefill", "extend", "discard"}, job' = [job EXCEPT ![w].pc = pc],
         pc = "extend" => Reusable(w),
         UNCHANGED <<lock, cache, kvs, streaming, requests, faults>>
  PROVE  IInv'
<1> DEFINE r == [job[w] EXCEPT !.pc = pc]
<1>1. job' = [job EXCEPT ![w] = r]
  BY InvFacts
<1>2. job[w] \in Job /\ WorkerOk(job[w], Entries)
  BY InvFacts
<1>3. job[w].kv = NoKv
  BY <1>2 DEF WorkerOk
<1>4. /\ r \in Job /\ r.pc = pc /\ r.stream = job[w].stream /\ r.text = job[w].text
      /\ r.kv = NoKv /\ r.fresh = job[w].fresh /\ r.held = job[w].held /\ r.key = job[w].key
  BY <1>2, <1>3 DEF Job
<1> HIDE DEF r
<1>5. WorkerOk(r, Entries) /\ (r.pc = "extend" => r.fresh)
  BY <1>2, <1>4 DEF WorkerOk, Reusable
<1>6. /\ cache' \in Seq(Entry) /\ UniqueKeys(cache') /\ Len(cache') = Len(cache)
      /\ ElementsOf(cache') = Entries
  BY InvFacts DEF ElementsOf, Entries
<1>7. LockInv' /\ Blocking' /\ lock' \in BOOLEAN
  BY <1>1, <1>4, WorkerGoesOn
<1>8. requests' \in 0..MaxRequests
  BY InvFacts
<1> QED BY <1>1, <1>3, <1>4, <1>5, <1>6, <1>7, <1>8, LookStep

\* cache.get under the key of the request.
LEMMA GetStep ==
  ASSUME IInv, NEW w \in Workers, Get(w)
  PROVE  IInv'
<1>1. job[w].pc = "get" /\ UNCHANGED <<lock, kvs, streaming, requests, faults>>
  BY DEF Get
<1>2. CASE \E e \in EntryOf(job[w].key) : Hold(w, e)
  <2>1. PICK e \in EntryOf(job[w].key) : Hold(w, e)
    BY <1>2
  <2>2. e \in Entries
    BY DEF EntryOf
  <2> QED BY <1>1, <2>1, <2>2, HoldStep
<1>3. CASE /\ job' = [job EXCEPT ![w].pc = IF job[w].user = Anonymous THEN "scan" ELSE "prefill"]
           /\ UNCHANGED cache
  <2> DEFINE pc == IF job[w].user = Anonymous THEN "scan" ELSE "prefill"
  <2>1. pc \in {"scan", "prefill", "extend", "discard"} /\ pc # "extend"
    OBVIOUS
  <2> HIDE DEF pc
  <2>2. job' = [job EXCEPT ![w].pc = pc]
    BY <1>3 DEF pc
  <2> QED BY <1>1, <1>3, <2>1, <2>2, MoveStep
<1> QED BY <1>2, <1>3 DEF Get

\* find_prefix_match of an anonymous request.
LEMMA ScanStep ==
  ASSUME IInv, NEW w \in Workers, Scan(w)
  PROVE  IInv'
<1>1. job[w].pc = "scan" /\ UNCHANGED <<lock, kvs, streaming, requests, faults>>
  BY DEF Scan
<1>2. CASE Matching(job[w].text) # {}
  <2> DEFINE i == BestMatch(job[w].text)
  <2>1. cache \in Seq(Entry) /\ job[w].text \in Tokens
    BY InvFacts DEF Job
  <2>2. i \in 1..Len(cache)
    BY <1>2, <2>1, BestMatchFacts DEF Matching
  <2>3. cache[i] \in Entries
    BY <2>2 DEF Entries
  <2>4. Hold(w, cache[i])
    BY <1>2 DEF Scan
  <2> QED BY <1>1, <2>3, <2>4, HoldStep
<1>3. CASE ~(Matching(job[w].text) # {})
  <2>1. job' = [job EXCEPT ![w].pc = "prefill"] /\ UNCHANGED cache
    BY <1>3 DEF Scan
  <2> QED BY <1>1, <2>1, MoveStep
<1> QED BY <1>2, <1>3

\* The checks of reuse_from_session_cache.
LEMMA CheckStep ==
  ASSUME IInv, NEW w \in Workers, Check(w)
  PROVE  IInv'
<1> DEFINE pc == IF Reusable(w) THEN "extend" ELSE "discard"
<1>1. pc \in {"scan", "prefill", "extend", "discard"} /\ (pc = "extend" => Reusable(w))
  OBVIOUS
<1>2. /\ job[w].pc = "check" /\ job' = [job EXCEPT ![w].pc = pc]
      /\ UNCHANGED <<lock, cache, kvs, streaming, requests, faults>>
  BY DEF Check
<1> HIDE DEF pc
<1> QED BY <1>1, <1>2, MoveStep

-----------------------------------------------------------------------------
(* Steps of a generation.                                                  *)

\* The generation of w leaves q in the KV object k.
LEMMA GenerateStep ==
  ASSUME IInv, NEW w \in Workers, NEW r \in Job, job' = [job EXCEPT ![w] = r],
         NEW k \in KvIds, NEW q \in Seq(Slot), kvs' = [kvs EXCEPT ![k] = q],
         UNCHANGED <<lock, cache, streaming, requests, faults>>,
         job[w].pc # "idle", job[w].kv \in {NoKv, k},
         r.kv = k, k # NoKv, r.key = job[w].key, r.stream = job[w].stream,
         r.held = job[w].held, r.fresh = job[w].fresh, r.pc \in {"decode", "put"},
         r.text[2] >= 1,
         \A e \in Entries : e.kv = k => e.key = job[w].key,
         \A v \in Workers : v # w /\ job[v].kv = k => job[v].key = job[w].key,
         ~streaming /\ faults = 0 => Exact(q, r.text, r.total, r.start)
  PROVE  IInv'
<1>1. /\ job'[w] = r /\ job' \in [Workers -> Job]
      /\ \A v \in Workers : v # w => job'[v] = job[v]
  BY InvFacts
<1>2. Entries' = Entries /\ ElementsOf(cache') = Entries
  BY DEF Entries, ElementsOf
<1>3. /\ kvs' \in [KvIds -> Seq(Slot)] /\ kvs'[k] = q
      /\ \A l \in KvIds : l # k => kvs'[l] = kvs[l]
  BY InvFacts
<1>4. OneKeyPerKv'
  <2>1. \A e, f \in Entries : e.kv = f.kv => e.key = f.key
    BY InvFacts DEF OneKeyPerKv
  <2>2. ASSUME NEW e \in Entries, NEW v \in Workers, e.kv = job'[v].kv
        PROVE  e.key = job'[v].key
    <3>1. CASE v = w
      BY <1>1, <2>2, <3>1
    <3>2. CASE v # w
      BY <1>1, <2>2, <3>2, InvFacts DEF OneKeyPerKv
    <3> QED BY <3>1, <3>2
  <2>3. ASSUME NEW u \in Workers, NEW v \in Workers, job'[u].kv = job'[v].kv, job'[v].kv # NoKv
        PROVE  job'[u].key = job'[v].key
    <3>1. CASE u # w /\ v # w
      BY <1>1, <2>3, <3>1, InvFacts DEF OneKeyPerKv
    <3>2. CASE u = w \/ v = w
      BY <1>1, <2>3, <3>2
    <3> QED BY <3>1, <3>2
  <2> QED BY <1>2, <2>1, <2>2, <2>3 DEF OneKeyPerKv
<1>5. QuietInv'
  <2> SUFFICES ASSUME ~streaming /\ faults = 0 PROVE QuietInv'
    BY DEF QuietInv
  <2>1. \A e \in Entries :
          (\A v \in Workers : job[v].kv # e.kv) => Exact(kvs[e.kv], e.cold, e.total, e.start)
    BY DEF IInv, QuietInv
  <2>2. ASSUME NEW v \in Workers
        PROVE  /\ job'[v].pc = "extend" => job'[v].fresh
               /\ job'[v].kv # NoKv =>
                    Exact(kvs'[job'[v].kv], job'[v].text, job'[v].total, job'[v].start)
    <3>1. CASE v = w
      BY <1>1, <1>3, <3>1
    <3>2. CASE v # w
      <4>1. job'[v] = Idle
        BY <1>1, <3>2, OthersIdle
      <4> QED BY <4>1, IdleFacts
    <3> QED BY <3>1, <3>2
  <2>3. ASSUME NEW e \in Entries, \A v \in Workers : job'[v].kv # e.kv
        PROVE  Exact(kvs'[e.kv], e.cold, e.total, e.start)
    <3>1. e.kv \in KvIds /\ e.kv # NoKv /\ e.kv # k
      BY <1>1, <2>3, InvFacts
    <3>2. \A v \in Workers : job[v].kv # e.kv
      BY <1>1, <2>3, <3>1
    <3> QED BY <1>3, <2>1, <3>1, <3>2
  <2> QED BY <1>2, <2>2, <2>3 DEF QuietInv
<1>6. WorkerOk(r, Entries)
  <2>1. WorkerOk(job[w], Entries)
    BY InvFacts
  <2> QED BY <2>1 DEF WorkerOk
<1>7. \A v \in Workers : WorkerOk(job'[v], ElementsOf(cache'))
  BY <1>1, <1>2, <1>6, InvFacts
<1>8. LockInv' /\ Blocking' /\ lock' \in BOOLEAN
  BY WorkerGoesOn
<1>9. /\ streaming' \in BOOLEAN /\ faults' \in 0..MaxFaults /\ requests' \in 0..MaxRequests
      /\ cache' \in Seq(Entry) /\ UniqueKeys(cache') /\ Len(cache') <= MaxSessions
      /\ \A e \in ElementsOf(cache') : e.kv # NoKv
  BY <1>2, InvFacts
<1> QED BY <1>1, <1>3, <1>4, <1>5, <1>7, <1>8, <1>9, InvPrimed

\* The forward over the delta.
LEMMA ExtendStep ==
  ASSUME IInv, NEW w \in Workers, Extend(w)
  PROVE  IInv'
<1> DEFINE e   == job[w].held
           k   == IF e.kv = NoKv THEN NewKv ELSE e.kv
           new == Trim(kvs[k] \o Slots(job[w].text, e.cold[2] + 1, job[w].text[2], e.total),
                       PrefillLimit(job[w].max))
           tot == e.total + job[w].text[2] - e.cold[2]
           start == IF tot > Len(new) THEN tot - Len(new) ELSE 0
           r   == [job[w] EXCEPT !.pc = "decode", !.kv = k, !.total = tot, !.start = start]
<1>1. /\ job[w].pc = "extend" /\ kvs' = [kvs EXCEPT ![k] = new]
      /\ job' = [job EXCEPT ![w] = r]
      /\ UNCHANGED <<lock, cache, streaming, requests, faults>>
  BY DEF Extend
<1>2. job[w] \in Job /\ WorkerOk(job[w], Entries)
  BY InvFacts
<1>3. /\ e \in Entry /\ e.cold \in Tokens /\ e.total \in Nat /\ job[w].text \in Tokens
      /\ job[w].max \in Nat
  <2>1. /\ e \in Entry /\ job[w].text \in Tokens /\ job[w].max \in NewTokens \cup {0}
    BY <1>2 DEF Job
  <2> HIDE DEF e
  <2>2. e.cold \in Tokens /\ e.total \in Nat
    BY <2>1 DEF Entry
  <2> QED BY <2>1, <2>2, NewTokensAreNat
<1>4. /\ Extends(e.cold, job[w].text) /\ job[w].kv = NoKv /\ job[w].text[2] >= 1
      /\ e.kv # NoKv => e \in Entries /\ e.key = job[w].key
  BY <1>1, <1>2 DEF WorkerOk
<1>5. /\ k \in KvIds /\ k # NoKv
      /\ e.kv = NoKv => k \notin Referenced(cache, job)
      /\ e.kv # NoKv => k = e.kv
  <2>1. CASE e.kv = NoKv
    BY <1>4, <2>1, NewKvFacts
  <2>2. CASE e.kv # NoKv
    BY <1>4, <2>2, InvFacts
  <2> QED BY <2>1, <2>2
<1>6. kvs[k] \in Seq(Slot)
  BY <1>5, InvFacts
<1>7. PrefillLimit(job[w].max) \in Nat /\ PrefillLimit(job[w].max) >= 1 /\ PrefillLimit(job[w].max) <= MaxHot
  BY <1>3, PrefillLimitFacts
<1> DEFINE q == kvs[k]
           s == e.cold
           t == job[w].text
           n == PrefillLimit(job[w].max)
           total == e.total
<1>8. /\ new \in Seq(Slot) /\ tot \in Nat /\ Len(new) \in Nat
      /\ \A st \in Nat :
           Aligned(q, s, total, st) => tot >= Len(new) /\ Exact(new, t, tot, tot - Len(new))
  <2>1. /\ q \in Seq(Slot) /\ s \in Tokens /\ t \in Tokens /\ Extends(s, t)
        /\ total \in Nat /\ n \in Nat /\ n >= 1 /\ n <= MaxHot
        /\ new = Trim(q \o Slots(t, s[2] + 1, t[2], total), n)
        /\ tot = total + t[2] - s[2]
    BY <1>3, <1>4, <1>6, <1>7
  <2> HIDE DEF q, s, t, n, total, new, tot
  <2> QED BY <2>1, DeltaFacts
<1> HIDE DEF k, new, tot
<1>9. start \in Nat
  BY <1>8
<1> HIDE DEF start
<1>10. /\ r \in Job /\ r.pc = "decode" /\ r.kv = k /\ r.total = tot /\ r.start = start
       /\ r.stream = job[w].stream /\ r.text = job[w].text /\ r.key = job[w].key
       /\ r.held = job[w].held /\ r.fresh = job[w].fresh
  BY <1>2, <1>5, <1>8, <1>9 DEF Job
<1> HIDE DEF r
<1>11. \A f \in Entries : f.kv = k => f.key = job[w].key
  <2>1. CASE e.kv = NoKv
    BY <1>5, <2>1 DEF Referenced, Entries
  <2>2. CASE e.kv # NoKv
    BY <1>4, <1>5, <2>2, InvFacts DEF OneKeyPerKv
  <2> QED BY <2>1, <2>2
<1>12. \A v \in Workers : v # w /\ job[v].kv = k => job[v].key = job[w].key
  <2>1. CASE e.kv = NoKv
    BY <1>5, <2>1 DEF Referenced
  <2>2. CASE e.kv # NoKv
    BY <1>4, <1>5, <2>2, InvFacts DEF OneKeyPerKv
  <2> QED BY <2>1, <2>2
<1>13. ASSUME ~streaming /\ faults = 0 PROVE Exact(new, r.text, r.total, r.start)
  <2>1. e \in Entries
    BY <1>1, <1>2, <1>13 DEF IInv, QuietInv, WorkerOk
  <2>2. e.kv # NoKv /\ e.kv \in KvIds /\ k = e.kv
    BY <1>5, <2>1, InvFacts
  <2>3. \A v \in Workers : job[v].kv # e.kv
    <3> SUFFICES ASSUME NEW v \in Workers PROVE job[v].kv # e.kv
      OBVIOUS
    <3>1. CASE v = w
      BY <1>4, <2>2, <3>1
    <3>2. CASE v # w
      <4>1. job[v] = Idle
        BY <1>1, <1>13, <3>2, OthersIdle
      <4> QED BY <2>2, <4>1, IdleFacts
    <3> QED BY <3>1, <3>2
  <2>4. Exact(kvs[e.kv], e.cold, e.total, e.start)
    BY <1>13, <2>1, <2>3 DEF IInv, QuietInv
  <2>5. Aligned(q, s, total, e.start) /\ e.start \in Nat
    BY <1>3, <2>2, <2>4 DEF Exact, Entry
  <2>6. tot >= Len(new) /\ Exact(new, t, tot, tot - Len(new))
    BY <1>8, <2>5
  <2>7. start = tot - Len(new)
    BY <1>8, <2>6 DEF start
  <2> QED BY <1>10, <2>6, <2>7
<1> QED BY <1>1, <1>4, <1>5, <1>8, <1>10, <1>11, <1>12, <1>13, GenerateStep

\* The cold prefill, or the seed and the hot tokens.
LEMMA PrefillStep ==
  ASSUME IInv, NEW w \in Workers, Prefill(w)
  PROVE  IInv'
<1> DEFINE t     == job[w].text
           k     == NewKv
           new   == Trim(ColdSlots(t), PrefillLimit(job[w].max))
           start == t[2] - Len(new)
           r     == [job[w] EXCEPT !.pc = "decode", !.kv = k, !.total = t[2], !.start = start]
<1>1. /\ job[w].pc = "prefill" /\ kvs' = [kvs EXCEPT ![k] = new]
      /\ job' = [job EXCEPT ![w] = r]
      /\ UNCHANGED <<lock, cache, streaming, requests, faults>>
  BY DEF Prefill
<1>2. job[w] \in Job /\ WorkerOk(job[w], Entries)
  BY InvFacts
<1>3. t \in Tokens /\ t[2] \in Nat /\ job[w].max \in Nat
  <2>1. t \in Tokens /\ job[w].max \in NewTokens \cup {0}
    BY <1>2 DEF Job
  <2> HIDE DEF t
  <2>2. t[2] \in Nat
    BY <2>1 DEF Tokens
  <2> QED BY <2>1, <2>2, NewTokensAreNat
<1>4. job[w].kv = NoKv /\ t[2] >= 1
  BY <1>1, <1>2 DEF WorkerOk
<1>5. k \in KvIds /\ k # NoKv /\ k \notin Referenced(cache, job)
  BY <1>4, NewKvFacts
<1>6. PrefillLimit(job[w].max) \in Nat /\ PrefillLimit(job[w].max) >= 1 /\ PrefillLimit(job[w].max) <= MaxHot
  BY <1>3, PrefillLimitFacts
<1> HIDE DEF t, k
<1>7. new \in Seq(Slot) /\ start \in Nat /\ Exact(new, t, t[2], start)
  BY <1>3, <1>4, <1>6, ColdFacts
<1> HIDE DEF new, start
<1>8. /\ r \in Job /\ r.pc = "decode" /\ r.kv = k /\ r.total = t[2] /\ r.start = start
      /\ r.stream = job[w].stream /\ r.text = job[w].text /\ r.key = job[w].key
      /\ r.held = job[w].held /\ r.fresh = job[w].fresh
  BY <1>2, <1>3, <1>5, <1>7 DEF Job
<1> HIDE DEF r
<1>9. /\ \A e \in Entries : e.kv # k
      /\ \A v \in Workers : job[v].kv # k
  BY <1>5 DEF Referenced, Entries
<1>10. Exact(new, r.text, r.total, r.start) /\ r.text[2] >= 1
  BY <1>4, <1>7, <1>8 DEF t
<1>11. /\ \A e \in Entries : e.kv = k => e.key = job[w].key
       /\ \A v \in Workers : v # w /\ job[v].kv = k => job[v].key = job[w].key
       /\ job[w].kv \in {NoKv, k} /\ job[w].pc # "idle" /\ r.pc \in {"decode", "put"}
  BY <1>1, <1>4, <1>8, <1>9
<1> QED BY <1>1, <1>11, <1>4, <1>5, <1>7, <1>8, <1>9, <1>10, GenerateStep

\* One decoded token, and the trim.
LEMMA DecodeStep ==
  ASSUME IInv, NEW w \in Workers, Decode(w)
  PROVE  IInv'
<1>1. job[w].pc = "decode" /\ UNCHANGED <<lock, cache, streaming, requests, faults>>
  BY DEF Decode, DecodeTo
<1>2. job[w] \in Job /\ WorkerOk(job[w], Entries)
  BY InvFacts
<1> DEFINE t == job[w].text
           k == job[w].kv
           q == kvs[k]
<1>3. /\ t \in Tokens /\ t[2] \in Nat /\ t[2] >= 1 /\ job[w].total \in Nat /\ job[w].start \in Nat
      /\ job[w].made \in Nat /\ job[w].max \in NewTokens \cup {0}
  BY <1>1, <1>2 DEF Job, WorkerOk, Tokens
<1>4. k \in KvIds /\ k # NoKv
  BY <1>1, <1>2 DEF WorkerOk, Job
<1>5. q \in Seq(Slot)
  BY <1>4, InvFacts
<1>6. /\ \A e \in Entries : e.kv = k => e.key = job[w].key
      /\ \A v \in Workers : v # w /\ job[v].kv = k => job[v].key = job[w].key
  BY <1>4, InvFacts DEF OneKeyPerKv
<1>7. ~streaming /\ faults = 0 => Exact(q, t, job[w].total, job[w].start)
  BY <1>4 DEF IInv, QuietInv
<1>8. ASSUME NEW u \in Sampled(t),
             job' = [job EXCEPT ![w] = [job[w] EXCEPT !.pc = "put", !.text = u,
                                                      !.made = job[w].made + 1]],
             UNCHANGED kvs
      PROVE  IInv'
  <2> DEFINE m == job[w].made + 1
             r == [job[w] EXCEPT !.pc = "put", !.text = u, !.made = m]
  <2>1. job' = [job EXCEPT ![w] = r] /\ kvs' = [kvs EXCEPT ![k] = q]
    <3>1. kvs \in [KvIds -> Seq(Slot)] /\ job \in [Workers -> Job]
      BY InvFacts
    <3>2. kvs' = [kvs EXCEPT ![k] = q]
      BY <1>4, <1>8, <3>1
    <3>3. job' = [job EXCEPT ![w] = r]
      BY <1>8
    <3> QED BY <3>2, <3>3
  <2>2. u \in Tokens /\ Extends(t, u) /\ u[2] >= 1
    <3>1. u \in Tokens /\ Extends(t, u) /\ u[2] = t[2] + 1
      BY <1>3, SampledFacts
    <3> QED BY <1>3, <3>1
  <2>3. /\ r \in Job /\ r.pc = "put" /\ r.text = u /\ r.kv = k
        /\ r.total = job[w].total /\ r.start = job[w].start
        /\ r.stream = job[w].stream /\ r.key = job[w].key
        /\ r.held = job[w].held /\ r.fresh = job[w].fresh
    <3>1. m \in Nat
      BY <1>3
    <3> HIDE DEF m
    <3> QED BY <1>2, <1>3, <2>2, <3>1 DEF Job
  <2> HIDE DEF r
  <2>4. ASSUME ~streaming /\ faults = 0 PROVE Exact(q, r.text, r.total, r.start)
    <3>1. Exact(q, t, job[w].total, job[w].start)
      BY <1>7, <2>4
    <3>2. Aligned(q, u, job[w].total, job[w].start)
      <4>1. Aligned(q, t, job[w].total, job[w].start)
        BY <3>1 DEF Exact
      <4> HIDE DEF q, t
      <4> QED BY <1>3, <1>5, <2>2, <4>1, AlignedLater
    <3>3. Len(q) \in 1..MaxHot
      BY <3>1 DEF Exact
    <3>4. Exact(q, u, job[w].total, job[w].start)
      BY <3>2, <3>3 DEF Exact
    <3> QED BY <2>3, <3>4
  <2> HIDE DEF q, k, t
  <2>5. job[w].kv \in {NoKv, k} /\ r.text[2] >= 1
    BY <2>2, <2>3 DEF k
  <2> QED BY <1>1, <1>4, <1>5, <1>6, <2>1, <2>3, <2>4, <2>5, GenerateStep
<1>9. ASSUME NEW u \in Sampled(t),
             LET all == Append(kvs[k], [token |-> u, pos |-> job[w].total])
                 new == Trim(all, MaxHot) IN
               /\ kvs' = [kvs EXCEPT ![k] = new]
               /\ job' = [job EXCEPT ![w] = [job[w] EXCEPT
                    !.text = u, !.made = job[w].made + 1, !.total = job[w].total + 1,
                    !.start = job[w].start + Len(all) - Len(new)]]
      PROVE  IInv'
  <2> DEFINE total == job[w].total
             all   == Append(q, [token |-> u, pos |-> total])
             new   == Trim(all, MaxHot)
             start == job[w].start + Len(all) - Len(new)
             m     == job[w].made + 1
             more  == total + 1
             r     == [job[w] EXCEPT !.text = u, !.made = m, !.total = more, !.start = start]
  <2>1. kvs' = [kvs EXCEPT ![k] = new] /\ job' = [job EXCEPT ![w] = r]
    BY <1>9
  <2>2. u \in Tokens /\ u[2] >= 1
    <3>1. u \in Tokens /\ u[2] = t[2] + 1
      BY <1>3, SampledFacts
    <3> QED BY <1>3, <3>1
  <2>3. /\ new \in Seq(Slot) /\ Len(all) \in Nat /\ Len(new) \in Nat /\ Len(new) <= Len(all)
        /\ \A st \in Nat :
             Exact(q, t, total, st) => Exact(new, u, total + 1, st + Len(all) - Len(new))
    <3> HIDE DEF q, t, total
    <3>1. total \in Nat
      BY <1>3 DEF total
    <3> QED BY <1>3, <1>5, <3>1, FedFacts
  <2> HIDE DEF all, new
  <2>4. start \in Nat
    BY <1>3, <2>3
  <2> HIDE DEF start
  <2>5. /\ r \in Job /\ r.pc = "decode" /\ r.text = u /\ r.kv = k
        /\ r.total = total + 1 /\ r.start = start
        /\ r.stream = job[w].stream /\ r.key = job[w].key
        /\ r.held = job[w].held /\ r.fresh = job[w].fresh
    <3>1. m \in Nat /\ more \in Nat /\ more = total + 1
      BY <1>3
    <3> HIDE DEF m, more
    <3> QED BY <1>1, <1>2, <1>3, <2>2, <2>4, <3>1 DEF Job
  <2> HIDE DEF r
  <2>6. ASSUME ~streaming /\ faults = 0 PROVE Exact(new, r.text, r.total, r.start)
    <3>1. Exact(q, t, total, job[w].start)
      BY <1>7, <2>6
    <3>2. Exact(new, u, total + 1, job[w].start + Len(all) - Len(new))
      BY <1>3, <2>3, <3>1
    <3> QED BY <2>5, <3>2 DEF start
  <2> HIDE DEF q, k, t
  <2>7. job[w].kv \in {NoKv, k} /\ r.text[2] >= 1
    BY <2>2, <2>5 DEF k
  <2> QED BY <1>1, <1>4, <1>6, <2>1, <2>3, <2>5, <2>6, <2>7, GenerateStep
<1> QED BY <1>8, <1>9 DEF Decode, DecodeTo

-----------------------------------------------------------------------------
(* Steps after which entries leave the cache.                              *)

\* What the hook does to a worker that holds an entry.
LEMMA HookedFacts ==
  ASSUME IInv, NEW keys, NEW v \in Workers
  PROVE  LET j == Hooked(job, keys)[v] IN
           /\ j \in Job /\ j.pc = job[v].pc /\ j.stream = job[v].stream /\ j.kv = job[v].kv
           /\ j.key = job[v].key /\ j.text = job[v].text /\ j.total = job[v].total
           /\ j.start = job[v].start /\ j.held.cold = job[v].held.cold
           /\ j.held.kv # NoKv => j.fresh
           /\ j.fresh => job[v].fresh /\ j.held = job[v].held /\ j.held.key \notin keys
           /\ j.pc = "idle" => j = job[v]
<1> DEFINE a == job[v]
           j == Hooked(job, keys)[v]
           b == [a EXCEPT !.held.kv = NoKv, !.fresh = FALSE]
<1>1. a \in Job /\ WorkerOk(a, Entries)
  BY InvFacts
<1>2. j = IF a.fresh /\ a.held.key \in keys THEN b ELSE a
  BY DEF Hooked
<1> HIDE DEF a
<1>3. CASE a.fresh /\ a.held.key \in keys
  <2>1. j = b
    BY <1>2, <1>3
  <2>2. a.pc # "idle"
    BY <1>1, <1>3, IdleFacts DEF WorkerOk
  <2>3. a.held \in Entry /\ NoKv \in KvIds \cup {NoKv}
    BY <1>1 DEF Job
  <2> DEFINE h == [a.held EXCEPT !.kv = NoKv]
  <2>4. h \in Entry /\ h.cold = a.held.cold /\ h.kv = NoKv
    BY <2>3 DEF Entry
  <2>5. b = [a EXCEPT !.held = h, !.fresh = FALSE]
    BY <1>1 DEF Job
  <2> HIDE DEF h, b, j
  <2>6. /\ b \in Job /\ b.pc = a.pc /\ b.stream = a.stream /\ b.kv = a.kv /\ b.key = a.key
        /\ b.text = a.text /\ b.total = a.total /\ b.start = a.start
        /\ b.held = h /\ b.fresh = FALSE
    BY <1>1, <2>4, <2>5 DEF Job
  <2> QED BY <2>1, <2>2, <2>4, <2>6 DEF a, j
<1>4. CASE ~(a.fresh /\ a.held.key \in keys)
  <2>1. j = a
    BY <1>2, <1>4
  <2>2. a.held.kv # NoKv => a.fresh
    BY <1>1 DEF WorkerOk
  <2> HIDE DEF j
  <2> QED BY <1>1, <1>4, <2>1, <2>2 DEF a, j
<1> QED BY <1>3, <1>4

\* What is referred to stays.
LEMMA SweptFacts ==
  ASSUME kvs \in [KvIds -> Seq(Slot)], NEW c, NEW j
  PROVE  /\ Swept(kvs, c, j) \in [KvIds -> Seq(Slot)]
         /\ \A k \in KvIds : k \in Referenced(c, j) => Swept(kvs, c, j)[k] = kvs[k]
<1>1. <<>> \in Seq(Slot)
  BY EmptySeq
<1> QED BY <1>1 DEF Swept

\* The worker w leaves with r, the hook has run on the entries of keys, and what
\* the cache holds that it did not hold before is of the generation of w.
LEMMA LeaveStep ==
  ASSUME IInv, NEW w \in Workers, NEW r \in Job, NEW keys,
         job' = [Hooked(job, keys) EXCEPT ![w] = r],
         r.kv = NoKv, r.held.kv = NoKv, r.fresh = FALSE, WorkerOk(r, {}), r.pc \in {"idle", "prefill"},
         cache' \in Seq(Entry), UniqueKeys(cache'), Len(cache') <= MaxSessions,
         kvs' = Swept(kvs, cache', job'),
         streaming' = streaming, faults' \in 0..MaxFaults, requests' = requests, lock' \in BOOLEAN,
         \A e \in ElementsOf(cache') :
            \/ e \in Entries
            \/ e.kv # NoKv /\ e.kv = job[w].kv /\ e.key = job[w].key,
         \A e \in Entries : e.key \notin keys => e \in ElementsOf(cache'),
         ~streaming /\ faults' = 0 =>
            /\ faults = 0
            /\ \A e \in ElementsOf(cache') : \/ e \in Entries /\ e.kv # job[w].kv
                                             \/ Exact(kvs[e.kv], e.cold, e.total, e.start),
         LockInv', Blocking', job[w].pc # "idle"
  PROVE  IInv'
<1> DEFINE j == Hooked(job, keys)
<1>1. /\ j \in [Workers -> Job]
      /\ \A v \in Workers :
           /\ j[v].pc = job[v].pc /\ j[v].kv = job[v].kv /\ j[v].key = job[v].key
           /\ j[v].text = job[v].text /\ j[v].held.cold = job[v].held.cold
           /\ j[v].held.kv # NoKv => j[v].fresh
           /\ j[v].fresh => job[v].fresh /\ j[v].held = job[v].held /\ j[v].held.key \notin keys
           /\ j[v].pc = "idle" => j[v] = job[v]
  <2>1. DOMAIN j = Workers /\ j = [v \in Workers |-> j[v]]
    BY DEF Hooked
  <2> HIDE DEF j
  <2>2. \A v \in Workers : j[v] \in Job
    BY HookedFacts DEF j
  <2>3. j \in [Workers -> Job]
    BY <2>1, <2>2
  <2> QED BY <2>3, HookedFacts DEF j
<1> HIDE DEF j
<1>2. /\ job'[w] = r /\ job' \in [Workers -> Job]
      /\ \A v \in Workers : v # w => job'[v] = j[v]
  BY <1>1 DEF j
<1>3. Entries' = ElementsOf(cache')
  BY DEF Entries, ElementsOf
<1>4. /\ kvs' \in [KvIds -> Seq(Slot)]
      /\ \A k \in KvIds : k \in Referenced(cache', job') => kvs'[k] = kvs[k]
  BY InvFacts, SweptFacts
<1>5. \A e \in ElementsOf(cache') : e \in Entry /\ e.kv # NoKv /\ e.kv \in KvIds
  <2>1. \A e \in ElementsOf(cache') : e \in Entry
    BY ElementOfSeq DEF ElementsOf
  <2>2. \A e \in ElementsOf(cache') : e.kv # NoKv
    BY InvFacts
  <2> QED BY <2>1, <2>2 DEF Entry
<1>6. ASSUME NEW v \in Workers PROVE WorkerOk(job'[v], ElementsOf(cache'))
  <2>1. CASE v = w
    BY <1>2, <2>1 DEF WorkerOk
  <2>2. CASE v # w
    <3>1. WorkerOk(job[v], Entries) /\ job'[v] = j[v]
      BY <1>2, <2>2, InvFacts
    <3>2. j[v].fresh => j[v].held \in ElementsOf(cache') /\ j[v].held.key = j[v].key
      BY <1>1, <3>1 DEF WorkerOk
    <3>3. /\ j[v].pc = "idle" => j[v] = Idle
          /\ j[v].pc # "idle" => j[v].text[2] >= 1
          /\ j[v].pc = "extend" => Extends(j[v].held.cold, j[v].text)
          /\ j[v].held.kv # NoKv => j[v].fresh
          /\ j[v].kv # NoKv <=> j[v].pc \in {"decode", "put"}
      BY <1>1, <3>1 DEF WorkerOk
    <3> QED BY <3>1, <3>2, <3>3 DEF WorkerOk
  <2> QED BY <2>1, <2>2
<1>7. OneKeyPerKv'
  <2>1. ASSUME NEW e \in ElementsOf(cache'), NEW f \in ElementsOf(cache'), e.kv = f.kv
        PROVE  e.key = f.key
    BY <1>5, <2>1, InvFacts DEF OneKeyPerKv
  <2>2. ASSUME NEW e \in ElementsOf(cache'), NEW v \in Workers, e.kv = job'[v].kv
        PROVE  e.key = job'[v].key
    <3>1. v # w
      BY <1>2, <1>5, <2>2
    <3>2. e.kv = job[v].kv /\ job'[v].key = job[v].key /\ e.kv # NoKv
      BY <1>1, <1>2, <1>5, <2>2, <3>1
    <3>3. CASE e \in Entries
      BY <3>2, <3>3, InvFacts DEF OneKeyPerKv
    <3>4. CASE e.kv = job[w].kv /\ e.key = job[w].key
      <4>1. \A u \in Workers : job[v].kv = job[u].kv /\ job[u].kv # NoKv => job[v].key = job[u].key
        BY InvFacts DEF OneKeyPerKv
      <4> QED BY <3>2, <3>4, <4>1
    <3> QED BY <3>3, <3>4
  <2>3. ASSUME NEW u \in Workers, NEW v \in Workers, job'[u].kv = job'[v].kv, job'[v].kv # NoKv
        PROVE  job'[u].key = job'[v].key
    <3>1. u # w /\ v # w
      BY <1>2, <2>3
    <3> QED BY <1>1, <1>2, <2>3, <3>1, InvFacts DEF OneKeyPerKv
  <2> QED BY <1>3, <2>1, <2>2, <2>3 DEF OneKeyPerKv
<1>8. QuietInv'
  <2> SUFFICES ASSUME ~streaming /\ faults' = 0 PROVE QuietInv'
    BY DEF QuietInv
  <2>1. faults = 0 /\ \A v \in Workers : v # w => job'[v] = Idle
    <3>1. \A v \in Workers : v # w => job[v] = Idle
      BY OthersIdle
    <3> QED BY <1>1, <1>2, <3>1, IdleFacts
  <2>2. \A v \in Workers : job'[v].kv = NoKv /\ job'[v].pc # "extend"
    BY <1>2, <2>1, IdleFacts
  <2>3. ASSUME NEW e \in ElementsOf(cache')
        PROVE  Exact(kvs'[e.kv], e.cold, e.total, e.start)
    <3>1. e.kv \in Referenced(cache', job')
      BY DEF Referenced, ElementsOf
    <3>2. kvs'[e.kv] = kvs[e.kv]
      BY <1>4, <1>5, <3>1
    <3>3. CASE e \in Entries /\ e.kv # job[w].kv
      <4>1. \A v \in Workers : job[v].kv # e.kv
        <5>1. \A v \in Workers : v # w => job[v].kv = NoKv
          BY OthersIdle, IdleFacts
        <5> QED BY <1>5, <3>3, <5>1
      <4> QED BY <2>1, <3>2, <3>3, <4>1 DEF IInv, QuietInv
    <3>4. CASE Exact(kvs[e.kv], e.cold, e.total, e.start)
      BY <3>2, <3>4
    <3> QED BY <3>3, <3>4
  <2> QED BY <1>3, <2>2, <2>3 DEF QuietInv
<1>9. streaming' \in BOOLEAN /\ requests' \in 0..MaxRequests
  BY InvFacts
<1> QED BY <1>2, <1>4, <1>5, <1>6, <1>7, <1>8, <1>9, InvPrimed

\* cache.discard of an entry that could not be reused.
LEMMA DiscardStep ==
  ASSUME IInv, NEW w \in Workers, Discard(w)
  PROVE  IInv'
<1> DEFINE key  == job[w].held.key
           keys == {e.key : e \in EntryOf(key)}
           j    == Hooked(job, keys)
           r    == [j[w] EXCEPT !.pc = "prefill", !.held = NoEntry, !.fresh = FALSE]
<1>1. /\ job[w].pc = "discard" /\ cache' = Without(key)
      /\ job' = [j EXCEPT ![w] = r]
      /\ kvs' = Swept(kvs, cache', job')
      /\ UNCHANGED <<lock, streaming, requests, faults>>
  BY DEF Discard
<1>2. /\ job[w] \in Job /\ WorkerOk(job[w], Entries)
      /\ j[w] \in Job /\ j[w].stream = job[w].stream /\ j[w].kv = job[w].kv
      /\ j[w].text = job[w].text
  BY InvFacts, HookedFacts
<1>3. job[w].kv = NoKv /\ job[w].text[2] >= 1
  BY <1>1, <1>2 DEF WorkerOk
<1>4. /\ r \in Job /\ r.pc = "prefill" /\ r.stream = job[w].stream /\ r.text = job[w].text
      /\ r.kv = NoKv /\ r.held = NoEntry /\ r.fresh = FALSE
  <2> HIDE DEF j
  <2> QED BY <1>2, <1>3, IdleFacts DEF Job
<1>5. /\ cache' \in Seq(Entry) /\ UniqueKeys(cache') /\ Len(cache') <= MaxSessions
      /\ ElementsOf(cache') = {e \in Entries : e.key # key}
  <2>1. /\ Without(key) \in Seq(Entry) /\ UniqueKeys(Without(key))
        /\ Len(cache) \in Nat /\ Len(Without(key)) \in Nat
        /\ Len(Without(key)) <= Len(cache)
        /\ ElementsOf(Without(key)) = {e \in Entries : e.key # key}
    <3> HIDE DEF key
    <3> QED BY InvFacts, WithoutFacts
  <2> QED BY <1>1, <2>1, InvFacts, SessionAssumption
<1>6. \A e \in Entries : e.key \notin keys => e \in ElementsOf(cache')
  BY <1>5 DEF EntryOf
<1>7. LockInv' /\ Blocking' /\ lock' \in BOOLEAN
  <2>1. ASSUME NEW v \in Workers
        PROVE  job'[v].stream = job[v].stream /\ (job'[v].pc = "idle" <=> job[v].pc = "idle")
    <3>1. j[v].stream = job[v].stream /\ j[v].pc = job[v].pc
      BY HookedFacts
    <3>2. DOMAIN j = Workers
      BY DEF Hooked
    <3> HIDE DEF j, r
    <3> QED BY <1>1, <1>4, <3>1, <3>2
  <2> QED BY <1>1, <2>1, InvFacts, LockKept
<1>8. WorkerOk(r, {}) /\ r.held.kv = NoKv
  BY <1>3, <1>4, IdleFacts DEF WorkerOk
<1>9. /\ \A e \in ElementsOf(cache') : e \in Entries
      /\ \A e \in ElementsOf(cache') : e.kv # job[w].kv
  BY <1>3, <1>5, InvFacts
<1>10. faults' \in 0..MaxFaults
  BY <1>1, InvFacts
<1> HIDE DEF r, keys, key
<1> QED BY <1>1, <1>4, <1>5, <1>6, <1>7, <1>8, <1>9, <1>10, LeaveStep DEF j

\* cache.put of the new entry; what it replaces or evicts is hooked.
LEMMA PutStep ==
  ASSUME IInv, NEW w \in Workers, Put(w)
  PROVE  IInv'
<1> DEFINE a    == job[w]
           e    == [key |-> a.key, cold |-> a.text, kv |-> a.kv, total |-> a.total, start |-> a.start]
           kept == Bounded(Used(e))
           keys == KeysOf(cache) \ KeysOf(SubSeq(kept, 1, Len(kept) - 1))
           j    == Hooked(job, keys)
<1>1. /\ a.pc = "put" /\ cache' = kept
      /\ job' = [j EXCEPT ![w] = Idle]
      /\ lock' = (lock /\ a.stream)
      /\ kvs' = Swept(kvs, cache', job')
      /\ UNCHANGED <<streaming, requests, faults>>
  BY DEF Put
<1>2. a \in Job /\ WorkerOk(a, Entries)
  BY InvFacts
<1>3. e \in Entry /\ e.kv = a.kv /\ e.key = a.key /\ e.cold = a.text /\ e.total = a.total /\ e.start = a.start
  BY <1>2 DEF Job, Entry
<1>4. a.kv # NoKv
  BY <1>1, <1>2 DEF WorkerOk
<1> HIDE DEF e
<1>5. /\ kept \in Seq(Entry) /\ UniqueKeys(kept) /\ Len(kept) <= MaxSessions
      /\ e \in ElementsOf(kept)
      /\ \A x \in ElementsOf(kept) : x = e \/ (x \in Entries /\ x.key # e.key)
      /\ \A x \in Entries : x.key \notin keys => x \in ElementsOf(kept) /\ x.key # e.key
  BY <1>3, InvFacts, PutFacts
<1> HIDE DEF kept, keys
<1>6. LockInv' /\ Blocking' /\ lock' \in BOOLEAN
  <2>1. ASSUME NEW v \in Workers, v # w
        PROVE  job'[v].stream = job[v].stream /\ job'[v].pc = job[v].pc
    <3>1. j[v].stream = job[v].stream /\ j[v].pc = job[v].pc
      BY HookedFacts
    <3>2. DOMAIN j = Workers
      BY DEF Hooked
    <3> HIDE DEF j
    <3> QED BY <1>1, <2>1, <3>1, <3>2
  <2>2. job'[w] = Idle
    <3>1. DOMAIN j = Workers
      BY DEF Hooked
    <3> HIDE DEF j
    <3> QED BY <1>1, <3>1
  <2>3. a.stream \in BOOLEAN /\ lock \in BOOLEAN /\ LockInv /\ Blocking
    BY <1>2, InvFacts DEF Job
  <2>4. LockInv' /\ Blocking'
    BY <1>1, <2>1, <2>2, <2>3, IdleFacts, LockReleased
  <2> QED BY <1>1, <2>3, <2>4
<1>7. WorkerOk(Idle, {})
  BY IdleFacts DEF WorkerOk
<1>8. \A x \in ElementsOf(cache') :
        \/ x \in Entries
        \/ x.kv # NoKv /\ x.kv = job[w].kv /\ x.key = job[w].key
  BY <1>1, <1>3, <1>4, <1>5
<1>9. ASSUME ~streaming /\ faults' = 0
      PROVE  /\ faults = 0
             /\ \A x \in ElementsOf(cache') : \/ x \in Entries /\ x.kv # job[w].kv
                                              \/ Exact(kvs[x.kv], x.cold, x.total, x.start)
  <2>1. faults = 0
    BY <1>1, <1>9
  <2>2. Exact(kvs[e.kv], e.cold, e.total, e.start)
    BY <1>3, <1>4, <1>9, <2>1 DEF IInv, QuietInv
  <2>3. \A x \in Entries : x.key # e.key => x.kv # job[w].kv
    BY <1>3, InvFacts DEF OneKeyPerKv
  <2> QED BY <1>1, <1>5, <2>1, <2>2, <2>3
<1>10. faults' \in 0..MaxFaults
  BY <1>1, InvFacts
<1> QED BY <1>1, <1>5, <1>6, <1>7, <1>8, <1>9, <1>10, IdleFacts, LeaveStep

\* A forward raises and nothing is put.
LEMMA FailStep ==
  ASSUME IInv, NEW w \in Workers, Fail(w)
  PROVE  IInv'
<1>1. /\ job[w].pc \in {"extend", "prefill", "decode"} /\ faults < MaxFaults
      /\ faults' = faults + 1
      /\ lock' = (lock /\ job[w].stream)
      /\ job' = [job EXCEPT ![w] = Idle]
      /\ kvs' = Swept(kvs, cache, job')
      /\ UNCHANGED <<cache, streaming, requests>>
  BY DEF Fail
<1>2. job \in [Workers -> Job] /\ job[w] \in Job
  BY InvFacts
<1>3. Hooked(job, {}) = job
  BY <1>2 DEF Hooked
<1>4. job' = [Hooked(job, {}) EXCEPT ![w] = Idle]
  BY <1>1, <1>3
<1>5. /\ cache' \in Seq(Entry) /\ UniqueKeys(cache') /\ Len(cache') <= MaxSessions
      /\ ElementsOf(cache') = Entries
  BY <1>1, InvFacts DEF ElementsOf, Entries
<1>6. LockInv' /\ Blocking' /\ lock' \in BOOLEAN
  <2>1. job'[w] = Idle /\ \A v \in Workers : v # w => job'[v] = job[v]
    BY <1>1, <1>2
  <2>2. job[w].stream \in BOOLEAN /\ lock \in BOOLEAN /\ LockInv /\ Blocking
    BY <1>2, InvFacts DEF Job
  <2>3. LockInv' /\ Blocking'
    BY <1>1, <2>1, <2>2, IdleFacts, LockReleased
  <2> QED BY <1>1, <2>2, <2>3
<1>7. WorkerOk(Idle, {})
  BY IdleFacts DEF WorkerOk
<1>8. faults' \in 0..MaxFaults /\ faults' # 0
  BY <1>1, InvFacts, SessionAssumption
<1>9. kvs' = Swept(kvs, cache', job')
  BY <1>1
<1> QED BY <1>1, <1>4, <1>5, <1>6, <1>7, <1>8, <1>9, IdleFacts, LeaveStep

-----------------------------------------------------------------------------
(* The invariant, and the theorems.                                        *)

\* The invariant holds of an empty cache without generations.
LEMMA InvBegins == Init => IInv
<1> SUFFICES ASSUME Init PROVE IInv
  OBVIOUS
<1>1. /\ lock = FALSE /\ cache = <<>> /\ kvs = [k \in KvIds |-> <<>>]
      /\ job = [w \in Workers |-> Idle] /\ streaming \in BOOLEAN
      /\ requests = 0 /\ faults = 0
  BY SessionAssumption DEF Init
<1>2. /\ \A w \in Workers : job[w] = Idle
      /\ job \in [Workers -> Job]
  BY <1>1, IdleFacts
<1>3. cache \in Seq(Entry) /\ Len(cache) = 0 /\ kvs \in [KvIds -> Seq(Slot)]
  <2>1. <<>> \in Seq(Entry) /\ Len(<<>>) = 0 /\ <<>> \in Seq(Slot)
    BY EmptySeq
  <2> QED BY <1>1, <2>1
<1>4. Entries = {}
  BY <1>3 DEF Entries
<1>5. TypeOK
  <2>1. requests \in 0..MaxRequests /\ faults \in 0..MaxFaults
    BY <1>1, SessionAssumption
  <2>2. ~(\E w \in Workers : job[w].pc # "idle" /\ ~job[w].stream)
    BY <1>2, IdleFacts
  <2> QED BY <1>1, <1>2, <1>3, <2>1, <2>2 DEF TypeOK
<1>6. OneEntryPerKey
  <2>1. 0 <= MaxSessions /\ \A i \in 1..Len(cache) : FALSE
    BY <1>3, SessionAssumption
  <2> QED BY <1>3, <1>4, <2>1 DEF OneEntryPerKey
<1>7. HeldInv
  BY <1>2, IdleFacts DEF HeldInv
<1>8. OneKeyPerKv
  BY <1>2, <1>4, IdleFacts DEF OneKeyPerKv
<1>9. Blocking
  <2>1. \A v, w \in Workers : {job[v].pc, job[w].pc} \cap {"idle"} # {}
    BY <1>2, IdleFacts
  <2> QED BY <1>2, <2>1, IdleFacts DEF Blocking
<1>10. QuietInv
  BY <1>2, <1>4, IdleFacts DEF QuietInv
<1> QED BY <1>5, <1>6, <1>7, <1>8, <1>9, <1>10 DEF IInv

\* Every step keeps the invariant.
LEMMA InvKept == IInv /\ [Next]_vars => IInv'
<1> SUFFICES ASSUME IInv, [Next]_vars PROVE IInv'
  OBVIOUS
<1>1. ASSUME NEW w \in Workers, Step(w) PROVE IInv'
  BY <1>1, BeginStep, GetStep, ScanStep, CheckStep, DiscardStep, ExtendStep, PrefillStep, DecodeStep,
     PutStep, FailStep DEF Step
<1>2. CASE UNCHANGED vars
  BY <1>2 DEF vars, IInv, TypeOK, OneEntryPerKey, Entries, HeldInv, OneKeyPerKv, Blocking, QuietInv
<1> QED BY <1>1, <1>2 DEF Next

\* Every variable keeps its type, the cache is bounded and has one entry per
\* conversation, what a thread holds is in it or has been cleared by the hook,
\* whoever has a KV object has it for the same conversation, and as long as
\* generations block and none raises, every KV object is exact.
THEOREM SessionInvariance == Spec => []IInv
BY InvBegins, InvKept, PTL DEF Spec

\* What the invariant says of the cache.
LEMMA InvGivesCacheInv == IInv => CacheInv
<1> SUFFICES ASSUME IInv PROVE CacheInv
  OBVIOUS
<1>1. /\ cache \in Seq(Entry) /\ UniqueKeys(cache) /\ Len(cache) <= MaxSessions
      /\ \A e \in Entries : e.kv # NoKv
  BY InvFacts
<1>2. \A w \in Workers : job[w].held.kv # NoKv => job[w].held \in Entries
  BY InvFacts DEF WorkerOk
<1>3. Cardinality(KeysOf(cache)) = Len(cache)
  <2> DEFINE n == Len(cache)
             f == [i \in 1..n |-> cache[i].key]
  <2>1. n \in Int /\ 1 \in Int /\ (IF 1 > n THEN 0 ELSE n - 1 + 1) = n
    <3>1. n \in Nat
      BY <1>1, LenProperties
    <3> HIDE DEF n
    <3> QED BY <3>1
  <2>2. f \in Bijection(1..n, KeysOf(cache))
    <3>1. f \in [1..n -> KeysOf(cache)]
      BY DEF KeysOf
    <3>2. \A i, j \in 1..n : f[i] = f[j] => i = j
      BY <1>1 DEF UniqueKeys
    <3>3. \A key \in KeysOf(cache) : \E i \in 1..n : f[i] = key
      BY DEF KeysOf
    <3> HIDE DEF f, n
    <3>4. DOMAIN f = 1..n
      BY <3>1
    <3>5. IsInjective(f)
      BY <3>2, <3>4 DEF IsInjective
    <3> QED BY <3>1, <3>3, <3>5 DEF Bijection, Injection, Surjection
  <2> HIDE DEF f, n
  <2>3. IsFiniteSet(1..n) /\ Cardinality(1..n) = IF 1 > n THEN 0 ELSE n - 1 + 1
    BY <2>1, FS_Interval
  <2>4. ExistsBijection(1..n, KeysOf(cache))
    BY <2>2 DEF ExistsBijection
  <2>5. Cardinality(KeysOf(cache)) = Cardinality(1..n)
    BY <2>3, <2>4, FS_Bijection
  <2> QED BY <2>1, <2>3, <2>5 DEF n
<1> QED BY <1>1, <1>2, <1>3 DEF CacheInv, IInv

\* However the threads interleave, the cache holds at most max_sessions entries,
\* one per conversation, each with its hot KV; and the entry a thread still holds
\* after it left the cache has its hot KV cleared (ResidualSessionCache.put,
\* _evict_if_needed_locked, make_cuda_eviction_hook).
THEOREM SessionCacheIsBounded == Spec => []CacheInv
BY SessionInvariance, InvGivesCacheInv, PTL

\* An object in two entries would give them one key, and keys are unique.
LEMMA InvGivesEachKv == IInv => EachKvHasOneConversation
<1> SUFFICES ASSUME IInv, NEW i \in 1..Len(cache), NEW j \in 1..Len(cache), cache[i].kv = cache[j].kv
             PROVE  i = j
  BY DEF EachKvHasOneConversation
<1>1. cache[i].key = cache[j].key
  BY InvFacts DEF OneKeyPerKv, Entries
<1> QED BY <1>1, InvFacts DEF UniqueKeys

\* No two conversations of the cache share one hot KV object, so extending it for
\* one never changes what the other continues from (_resolve_session_entry).
THEOREM KvIsNotShared == Spec => []EachKvHasOneConversation
BY SessionInvariance, InvGivesEachKv, PTL

\* Slots that are exact represent the text.
LEMMA ExactRepresents ==
  ASSUME NEW q \in Seq(Slot), NEW t, NEW total \in Nat, NEW start, Exact(q, t, total, start)
  PROVE  Represents(q, t, total)
<1>1. /\ Len(q) \in Nat /\ start = total - Len(q)
      /\ \A i \in 1..Len(q) :
           /\ q[i].pos = start + i - 1
           /\ q[i].token # Seed => q[i].token = Nth(t, q[i].token[2])
           /\ q[i].token # Seed => \A j \in 1..Len(q) : i < j => q[i].token[2] < q[j].token[2]
  BY LenProperties DEF Exact, Aligned
<1>2. \A i \in 1..Len(q) : q[i].pos = total - Len(q) + i - 1
  BY <1>1
<1> QED BY <1>1, <1>2 DEF Represents

\* A KV that is exact holds tokens of its conversation only.
LEMMA InvGivesNoForeignTokens == IInv => NoForeignTokens
<1> SUFFICES ASSUME IInv, NEW w \in Workers, ~streaming, faults = 0, job[w].pc \in {"decode", "put"}
             PROVE  Represents(kvs[job[w].kv], job[w].text, job[w].total)
  BY DEF NoForeignTokens
<1>1. job[w].kv # NoKv /\ job[w].kv \in KvIds /\ job[w].total \in Nat
  BY InvFacts DEF WorkerOk, Job
<1>2. Exact(kvs[job[w].kv], job[w].text, job[w].total, job[w].start)
  BY <1>1 DEF IInv, QuietInv
<1>3. kvs[job[w].kv] \in Seq(Slot)
  BY <1>1, InvFacts
<1> QED BY <1>1, <1>2, <1>3, ExactRepresents

\* With blocking requests and no failure, the model attends to the text of its own
\* conversation only, each token at most once and in order, whatever anonymous
\* requests hash to and whichever entry find_prefix_match picks.
THEOREM OwnConversationOnly == Spec => []NoForeignTokens
BY SessionInvariance, InvGivesNoForeignTokens, PTL

\* The entries of a quiet run are exact.
LEMMA InvGivesEntriesAreExact == IInv => EntriesAreExact
<1> SUFFICES ASSUME IInv, NEW e \in Entries, ~streaming, faults = 0,
                    \A w \in Workers : job[w].kv # e.kv
             PROVE  /\ Len(kvs[e.kv]) \in 1..MaxHot
                    /\ Represents(kvs[e.kv], e.cold, e.total)
                    /\ e.start = e.total - Len(kvs[e.kv])
  BY DEF EntriesAreExact
<1>1. e.kv \in KvIds /\ e.total \in Nat
  BY InvFacts DEF Entry
<1>2. Exact(kvs[e.kv], e.cold, e.total, e.start)
  BY DEF IInv, QuietInv
<1>3. kvs[e.kv] \in Seq(Slot)
  BY <1>1, InvFacts
<1>4. Represents(kvs[e.kv], e.cold, e.total)
  BY <1>1, <1>2, <1>3, ExactRepresents
<1> QED BY <1>2, <1>4 DEF Exact, Aligned

\* With blocking requests and no failure, every cached entry agrees with its hot
\* KV: it is within the budget, and total_seen_tokens and hot_window_start are the
\* positions the next delta forward relies on (reuse_from_session_cache).
THEOREM BookkeepingIsExact == Spec => []EntriesAreExact
BY SessionInvariance, InvGivesEntriesAreExact, PTL
=============================================================================
