------------------------ MODULE PrefillLibraryProofs ------------------------
(***************************************************************************)
(* However often the prefill of a document is interrupted, crashes, fails  *)
(* and is resumed, the windows in memory and in the library are the        *)
(* beginning of the document, and a library whose checkpoints were not     *)
(* destroyed can be resumed; for every document, window size, number of    *)
(* faults and number of runs.                                              *)
(***************************************************************************)
EXTENDS PrefillLibrary, SequenceTheorems, WellFoundedInduction, TLAPS

Tok == 1..NumTokens

Engines ==
  [archive : Seq(Seq(Tok)), ckpts : SUBSET (Nat \ {0}), cur : Seq(Tok),
   pos : Nat, saved : Nat, sigint : BOOLEAN, mode7 : BOOLEAN]

Kinds == {"none", "quick", "interrupted", "final", "phases", "pages"}

\* What engine r has archived and read of the document.
Archived(r) == FlattenSeq(r.archive)
ReadBy(r) == Archived(r) \o r.cur

\* No window is longer than WindowSize.
Fits(r) ==
  /\ \A i \in 1..Len(r.archive) : Len(r.archive[i]) <= WindowSize
  /\ Len(r.cur) <= WindowSize

\* What r has read is the beginning of the document.
Faithful(r) == ReadBy(r) = Document(1, Len(ReadBy(r)))

\* The archive of r has at least n tokens.
Covers(r, n) == Len(Archived(r)) >= n

\* The loop of r goes on where it has read to.
OnCourse(r) == r.pos = Len(ReadBy(r)) /\ (r.cur # <<>> => r.pos >= NumTokens)

\* Of each window of r the checkpoint is in c or in the memory, of the last one
\* in the memory; and r has no fewer than n windows.
Linked(r, n, c) ==
  /\ r.saved <= Len(r.archive) /\ n <= Len(r.archive)
  /\ 1..r.saved \subseteq c
  /\ (r.saved + 1)..Len(r.archive) \subseteq r.ckpts
  /\ r.archive # <<>> => Len(r.archive) \in r.ckpts

\* The tokens of the windows in windows.json.
Recorded == Offset(Len(windows) + 1)

CheckpointsAreSafe == skip = "no" /\ damage \cap {"zip", "fresh"} = {}

DiskTypeOK ==
  /\ skip \in {"no", "export", "darkspace"}
  /\ tokens \in Seq(Tok) /\ windows \in Seq(0..WindowSize)
  /\ ckpt \subseteq Nat \ {0}
  /\ manifest \in [total : Nat, num : Nat]
  /\ torn \subseteq {"zip", "windows", "manifest"}
  /\ damage \subseteq {"zip", "tokens", "windows", "manifest", "fresh"}

\* The library between two writes.
LibraryInv ==
  /\ DiskTypeOK
  /\ TokensAreSafe => tokens = Document(1, Len(tokens)) /\ Len(tokens) >= Recorded
  /\ CheckpointsAreSafe => "zip" \notin torn /\ 1..Len(windows) \subseteq ckpt

\* The engine, and how it stands to the library.
EngineInv ==
  /\ run \in Engines /\ kind \in Kinds
  /\ pc \in {"down", "loop", "processed", "flush", "zip", "mode7", "tokens", "windows", "manifest"}
  /\ pc \in {"down", "loop", "processed", "flush"} => kind = "none"
  /\ Fits(run)
  /\ pc = "down" => run = Idle
  /\ TokensAreSafe =>
       /\ Faithful(run)
       /\ pc # "down" => Covers(run, Recorded)
       /\ pc \in {"loop", "processed"} \/ kind = "quick" => OnCourse(run)
  /\ CheckpointsAreSafe /\ pc # "down" => Linked(run, Len(windows), ckpt)

\* What a save has written before its next step.
SavingInv ==
  /\ TokensAreSafe /\ pc \in {"windows", "manifest"} => tokens = Archived(run)
  /\ CheckpointsAreSafe /\ pc \in {"mode7", "tokens", "windows", "manifest"} =>
       1..Len(run.archive) \subseteq ckpt

\* The inductive invariant.
IInv == LibraryInv /\ EngineInv /\ SavingInv

-----------------------------------------------------------------------------
(* What FlattenSeq and Offset compute.                                     *)

\* Induction up to n, over a set.
LEMMA Induction ==
  ASSUME NEW n \in Nat, NEW S, 0 \in S, \A i \in 1..n : i - 1 \in S => i \in S
  PROVE  \A i \in 0..n : i \in S
<1> SUFFICES ASSUME NEW k \in 0..n, k \notin S PROVE FALSE
  OBVIOUS
<1> DEFINE T == {i \in 0..n : i \notin S}
<1>1. T \subseteq Nat /\ T # {}
  OBVIOUS
<1>2. PICK m \in T : \A i \in T : ~(<<i, m>> \in OpToRel(<, Nat))
  BY <1>1, NatLessThanWellFounded, WFMin
<1>3. \A i \in T : ~(i < m)
  BY <1>1, <1>2 DEF OpToRel
<1>4. m \in 1..n /\ m - 1 \in 0..n /\ m - 1 < m
  OBVIOUS
<1>5. m - 1 \in S
  BY <1>3, <1>4
<1> QED BY <1>4, <1>5

\* The function whose last value FlattenSeq is.
Flattened(s) ==
  CHOOSE f : f = [i \in 1..Len(s) |-> IF i = 1 THEN s[i] ELSE f[i - 1] \o s[i]]

\* g[i] is the concatenation of the first i sequences of s.
Concatenates(g, s) == g[0] = <<>> /\ \A i \in 1..Len(s) : g[i] = g[i - 1] \o s[i]

\* FlattenSeq(s) is whatever is built up from <<>> by the sequences of s.
LEMMA FlattenIs ==
  ASSUME NEW D, NEW s \in Seq(Seq(D)), NEW g \in [0..Len(s) -> Seq(D)], Concatenates(g, s)
  PROVE  FlattenSeq(s) = g[Len(s)]
<1>1. Len(s) \in Nat /\ \A i \in 1..Len(s) : s[i] \in Seq(D)
  BY LenProperties, ElementOfSeq
<1>2. CASE Len(s) = 0
  <2>1. s = <<>>
    BY <1>2, EmptySeq
  <2>2. FlattenSeq(s) = s
    BY <1>2 DEF FlattenSeq
  <2> QED BY <1>2, <2>1, <2>2 DEF Concatenates
<1>3. CASE Len(s) # 0
  <2> DEFINE h == [i \in 1..Len(s) |-> g[i]]
             F == Flattened(s)
             S == {i \in 0..Len(s) : i = 0 \/ F[i] = g[i]}
  <2>1. FlattenSeq(s) = F[Len(s)]
    BY <1>3 DEF FlattenSeq, Flattened
  <2>2. g[1] = s[1]
    <3>1. 1 \in 1..Len(s) /\ s[1] \in Seq(D)
      BY <1>1, <1>3
    <3>2. g[1] = g[1 - 1] \o s[1] /\ g[0] = <<>>
      BY <3>1 DEF Concatenates
    <3>3. 1 - 1 = 0
      OBVIOUS
    <3> QED BY <3>1, <3>2, <3>3, ConcatEmptySeq
  <2>3. h = [i \in 1..Len(s) |-> IF i = 1 THEN s[i] ELSE h[i - 1] \o s[i]]
    <3>1. ASSUME NEW i \in 1..Len(s)
          PROVE  g[i] = IF i = 1 THEN s[i] ELSE h[i - 1] \o s[i]
      <4>1. CASE i = 1
        BY <2>2, <4>1
      <4>2. CASE i # 1
        <5>1. i - 1 \in 1..Len(s)
          BY <1>1, <4>2
        <5> QED BY <4>2, <5>1 DEF Concatenates
      <4> QED BY <4>1, <4>2
    <3> QED BY <3>1
  <2>4. F = [i \in 1..Len(s) |-> IF i = 1 THEN s[i] ELSE F[i - 1] \o s[i]]
    <3> HIDE DEF h
    <3> QED BY <2>3 DEF Flattened
  <2> HIDE DEF F
  <2>5. ASSUME NEW i \in 1..Len(s), i - 1 \in S PROVE i \in S
    <3>1. CASE i = 1
      BY <2>2, <2>4, <3>1
    <3>2. CASE i # 1
      <4>1. F[i - 1] = g[i - 1]
        BY <2>5, <3>2
      <4>2. F[i] = F[i - 1] \o s[i]
        BY <2>4, <3>2
      <4>3. g[i] = g[i - 1] \o s[i]
        BY DEF Concatenates
      <4>4. F[i] = g[i]
        BY <4>1, <4>2, <4>3
      <4> QED BY <1>1, <4>4
    <3> QED BY <3>1, <3>2
  <2>6. Len(s) \in S
    <3>1. 0 \in S
      BY <1>1
    <3> HIDE DEF S
    <3>2. \A i \in 1..Len(s) : i - 1 \in S => i \in S
      BY <2>5
    <3>3. \A i \in 0..Len(s) : i \in S
      BY <1>1, <3>1, <3>2, Induction
    <3> QED BY <1>1, <3>3
  <2> QED BY <1>3, <2>1, <2>6
<1> QED BY <1>2, <1>3

\* Every sequence of sequences can be concatenated step by step.
LEMMA ConcatenationExists ==
  ASSUME NEW D, NEW s \in Seq(Seq(D))
  PROVE  \E g \in [0..Len(s) -> Seq(D)] : Concatenates(g, s)
<1>1. Len(s) \in Nat /\ \A i \in 1..Len(s) : s[i] \in Seq(D)
  BY LenProperties, ElementOfSeq
<1> DEFINE Upto(g, n) == g[0] = <<>> /\ \A i \in 1..n : g[i] = g[i - 1] \o s[i]
           S == {n \in 0..Len(s) : \E g \in [0..n -> Seq(D)] : Upto(g, n)}
<1>2. 0 \in S
  <2> DEFINE g == [i \in 0..0 |-> <<>>]
  <2>1. <<>> \in Seq(D)
    BY EmptySeq
  <2>2. g \in [0..0 -> Seq(D)] /\ Upto(g, 0)
    BY <2>1
  <2> HIDE DEF g
  <2>3. \E f \in [0..0 -> Seq(D)] : Upto(f, 0)
    BY <2>2
  <2>4. 0 \in 0..Len(s)
    BY <1>1
  <2> QED BY <2>3, <2>4, Zenon
<1>3. ASSUME NEW n \in 1..Len(s), n - 1 \in S PROVE n \in S
  <2>1. PICK g \in [0..(n - 1) -> Seq(D)] : Upto(g, n - 1)
    BY <1>3
  <2> DEFINE h == [i \in 0..n |-> IF i = n THEN g[n - 1] \o s[n] ELSE g[i]]
  <2>2. g[n - 1] \in Seq(D) /\ s[n] \in Seq(D)
    BY <1>1
  <2>3. g[n - 1] \o s[n] \in Seq(D)
    BY <2>2, ConcatProperties
  <2>4. h \in [0..n -> Seq(D)]
    BY <2>3
  <2>5. h[0] = <<>>
    BY <2>1
  <2>6. ASSUME NEW i \in 1..n PROVE h[i] = h[i - 1] \o s[i]
    <3>1. i - 1 \in 0..(n - 1) /\ i - 1 # n /\ i \in 0..n /\ i - 1 \in 0..n
      OBVIOUS
    <3>2. h[i - 1] = g[i - 1]
      BY <3>1
    <3>3. CASE i = n
      BY <3>1, <3>2, <3>3
    <3>4. CASE i # n
      <4>1. i \in 1..(n - 1)
        BY <3>4
      <4> QED BY <2>1, <3>1, <3>2, <3>4, <4>1
    <3> QED BY <3>3, <3>4
  <2> HIDE DEF h
  <2>7. \E f \in [0..n -> Seq(D)] : Upto(f, n)
    BY <2>4, <2>5, <2>6
  <2>8. n \in 0..Len(s)
    BY <1>1
  <2> QED BY <2>7, <2>8
<1>4. Len(s) \in S
  <2> HIDE DEF S
  <2>1. \A n \in 1..Len(s) : n - 1 \in S => n \in S
    BY <1>3
  <2>2. \A n \in 0..Len(s) : n \in S
    BY <1>1, <1>2, <2>1, Induction
  <2> QED BY <1>1, <2>2
<1> QED BY <1>4 DEF Concatenates

\* What FlattenSeq returns, and what a further sequence adds to it.
LEMMA FlattenFacts ==
  ASSUME NEW D, NEW s \in Seq(Seq(D)), NEW w \in Seq(D)
  PROVE  /\ FlattenSeq(s) \in Seq(D)
         /\ FlattenSeq(Append(s, w)) = FlattenSeq(s) \o w
<1>1. Len(s) \in Nat
  BY LenProperties
<1>2. PICK g \in [0..Len(s) -> Seq(D)] : Concatenates(g, s)
  BY ConcatenationExists
<1>3. FlattenSeq(s) = g[Len(s)] /\ g[Len(s)] \in Seq(D)
  BY <1>1, <1>2, FlattenIs
<1> DEFINE t == Append(s, w)
           h == [i \in 0..Len(t) |-> IF i = Len(t) THEN g[Len(s)] \o w ELSE g[i]]
<1>4. /\ t \in Seq(Seq(D)) /\ Len(t) = Len(s) + 1 /\ t[Len(t)] = w
      /\ \A i \in 1..Len(s) : t[i] = s[i]
  BY <1>1, AppendProperties
<1> HIDE DEF t
<1>5. h \in [0..Len(t) -> Seq(D)]
  <2>1. g[Len(s)] \o w \in Seq(D)
    BY <1>3, ConcatProperties
  <2> QED BY <1>1, <1>4, <2>1
<1>6. h[0] = <<>> /\ h[Len(t)] = g[Len(s)] \o w
  BY <1>1, <1>2, <1>4 DEF Concatenates
<1>7. ASSUME NEW i \in 1..Len(t) PROVE h[i] = h[i - 1] \o t[i]
  <2>1. i - 1 \in 0..Len(s) /\ i - 1 # Len(t) /\ i \in 0..Len(t) /\ i - 1 \in 0..Len(t)
    BY <1>1, <1>4
  <2>2. h[i - 1] = g[i - 1]
    BY <2>1
  <2>3. CASE i = Len(t)
    <3>1. h[i] = g[Len(s)] \o w
      BY <2>1, <2>3
    <3>2. i - 1 = Len(s) /\ t[i] = w
      BY <1>1, <1>4, <2>3
    <3> QED BY <2>2, <3>1, <3>2
  <2>4. CASE i # Len(t)
    <3>1. i \in 1..Len(s)
      BY <1>1, <1>4, <2>4
    <3> QED BY <1>2, <1>4, <2>1, <2>2, <2>4, <3>1 DEF Concatenates
  <2> QED BY <2>3, <2>4
<1>8. Concatenates(h, t)
  <2> HIDE DEF h
  <2> QED BY <1>6, <1>7 DEF Concatenates
<1>9. FlattenSeq(t) = h[Len(t)]
  <2> HIDE DEF h
  <2> QED BY <1>4, <1>5, <1>8, FlattenIs
<1> QED BY <1>3, <1>6, <1>9 DEF t

\* No windows have no tokens.
LEMMA FlattenNothing == FlattenSeq(<<>>) = <<>>
BY DEF FlattenSeq

\* c[i] is the sum of the first i numbers of w.
Sums(c, w) == c[0] = 0 /\ \A i \in 1..Len(w) : c[i] = c[i - 1] + w[i]

\* The function whose last value Offset is, for the windows w.
Offsets(w, i) == CHOOSE f : f = [n \in 1..i |-> IF n = 1 THEN 0 ELSE f[n - 1] + w[n - 1]]
OffsetIn(w, i) == Offsets(w, i)[i]

\* Offset is whatever is summed up from 0 by the sizes of the windows.
LEMMA OffsetIs ==
  ASSUME NEW w \in Seq(Nat), NEW c \in [0..Len(w) -> Nat], Sums(c, w),
         NEW i \in 1..(Len(w) + 1)
  PROVE  OffsetIn(w, i) = c[i - 1]
<1>1. Len(w) \in Nat /\ i \in Nat /\ \A n \in 1..Len(w) : w[n] \in Nat
  BY LenProperties, ElementOfSeq
<1> DEFINE h == [n \in 1..i |-> c[n - 1]]
           F == Offsets(w, i)
           S == {n \in 0..i : n = 0 \/ F[n] = c[n - 1]}
<1>2. h = [n \in 1..i |-> IF n = 1 THEN 0 ELSE h[n - 1] + w[n - 1]]
  <2>1. ASSUME NEW n \in 1..i
        PROVE  c[n - 1] = IF n = 1 THEN 0 ELSE h[n - 1] + w[n - 1]
    <3>1. CASE n = 1
      <4>1. n - 1 = 0
        BY <3>1
      <4> QED BY <3>1, <4>1 DEF Sums
    <3>2. CASE n # 1
      <4>1. n - 1 \in 1..Len(w) /\ n - 1 \in 1..i
        BY <1>1, <3>2
      <4>2. h[n - 1] = c[(n - 1) - 1]
        BY <4>1
      <4>3. c[n - 1] = c[(n - 1) - 1] + w[n - 1]
        BY <4>1 DEF Sums
      <4> QED BY <3>2, <4>2, <4>3
    <3> QED BY <3>1, <3>2
  <2> QED BY <2>1
<1>3. F = [n \in 1..i |-> IF n = 1 THEN 0 ELSE F[n - 1] + w[n - 1]]
  <2> HIDE DEF h
  <2> QED BY <1>2 DEF Offsets
<1> HIDE DEF F
<1>4. ASSUME NEW n \in 1..i, n - 1 \in S PROVE n \in S
  <2>1. n \in 0..i
    OBVIOUS
  <2>2. CASE n = 1
    <3>1. F[n] = 0 /\ c[n - 1] = 0
      <4>1. n - 1 = 0
        BY <2>2
      <4> QED BY <1>3, <2>2, <4>1 DEF Sums
    <3> QED BY <2>1, <3>1
  <2>3. CASE n # 1
    <3>1. F[n - 1] = c[(n - 1) - 1]
      BY <1>4, <2>3
    <3>2. F[n] = F[n - 1] + w[n - 1]
      BY <1>3, <2>3
    <3>3. c[n - 1] = c[(n - 1) - 1] + w[n - 1]
      <4>1. n - 1 \in 1..Len(w)
        BY <1>1, <2>3
      <4> QED BY <4>1 DEF Sums
    <3>4. F[n] = c[n - 1]
      BY <3>1, <3>2, <3>3
    <3> QED BY <2>1, <3>4
  <2> QED BY <2>2, <2>3
<1>5. 0 \in S
  BY <1>1
<1>6. i \in S
  <2> HIDE DEF S
  <2>1. \A n \in 1..i : n - 1 \in S => n \in S
    BY <1>4
  <2>2. \A n \in 0..i : n \in S
    BY <1>1, <1>5, <2>1, Induction
  <2> QED BY <1>1, <2>2
<1> QED BY <1>6 DEF OffsetIn, F

\* Sizes can be summed up step by step, and their sums grow.
LEMMA SumsExist ==
  ASSUME NEW w \in Seq(Nat)
  PROVE  \E c \in [0..Len(w) -> Nat] :
           Sums(c, w) /\ \A i \in 0..Len(w) : c[i] <= c[Len(w)]
<1>1. Len(w) \in Nat /\ \A i \in 1..Len(w) : w[i] \in Nat
  BY LenProperties, ElementOfSeq
<1> DEFINE Upto(c, n) ==
             /\ c[0] = 0 /\ \A i \in 1..n : c[i] = c[i - 1] + w[i]
             /\ \A i \in 0..n : c[i] <= c[n]
           S == {n \in 0..Len(w) : \E c \in [0..n -> Nat] : Upto(c, n)}
<1>2. 0 \in S
  <2> DEFINE c == [i \in 0..0 |-> 0]
  <2>1. c \in [0..0 -> Nat] /\ Upto(c, 0)
    OBVIOUS
  <2> HIDE DEF c
  <2>2. \E f \in [0..0 -> Nat] : Upto(f, 0)
    BY <2>1
  <2>3. 0 \in 0..Len(w)
    BY <1>1
  <2> QED BY <2>2, <2>3, Zenon
<1>3. ASSUME NEW n \in 1..Len(w), n - 1 \in S PROVE n \in S
  <2>1. PICK c \in [0..(n - 1) -> Nat] : Upto(c, n - 1)
    BY <1>3
  <2> DEFINE h == [i \in 0..n |-> IF i = n THEN c[n - 1] + w[n] ELSE c[i]]
  <2>2. c[n - 1] \in Nat /\ w[n] \in Nat /\ n \in 0..Len(w)
    BY <1>1
  <2>3. h \in [0..n -> Nat] /\ h[0] = 0 /\ h[n] = c[n - 1] + w[n]
    BY <2>1, <2>2
  <2>4. ASSUME NEW i \in 1..n PROVE h[i] = h[i - 1] + w[i]
    <3>1. i - 1 \in 0..(n - 1) /\ i - 1 # n /\ i \in 0..n /\ i - 1 \in 0..n
      OBVIOUS
    <3>2. h[i - 1] = c[i - 1]
      BY <3>1
    <3>3. CASE i = n
      BY <2>3, <3>2, <3>3
    <3>4. CASE i # n
      <4>1. i \in 1..(n - 1)
        BY <3>4
      <4> QED BY <2>1, <3>1, <3>2, <3>4, <4>1
    <3> QED BY <3>3, <3>4
  <2>5. ASSUME NEW i \in 0..n PROVE h[i] <= h[n]
    <3>1. CASE i = n
      BY <2>2, <2>3, <3>1
    <3>2. CASE i # n
      <4>1. i \in 0..(n - 1) /\ h[i] = c[i] /\ c[i] \in Nat
        BY <3>2
      <4>2. c[i] <= c[n - 1]
        BY <2>1, <4>1
      <4> QED BY <2>2, <2>3, <4>1, <4>2
    <3> QED BY <3>1, <3>2
  <2> HIDE DEF h
  <2>6. \E f \in [0..n -> Nat] : Upto(f, n)
    BY <2>3, <2>4, <2>5
  <2> QED BY <2>2, <2>6
<1>4. Len(w) \in S
  <2> HIDE DEF S
  <2>1. \A n \in 1..Len(w) : n - 1 \in S => n \in S
    BY <1>3
  <2>2. \A n \in 0..Len(w) : n \in S
    BY <1>1, <1>2, <2>1, Induction
  <2> QED BY <1>1, <2>2
<1> QED BY <1>4 DEF Sums

\* The offsets of the windows in windows.json.
LEMMA OffsetsOf ==
  ASSUME NEW i PROVE Offset(i) = OffsetIn(windows, i)
BY DEF Offset, OffsetIn, Offsets

\* The whole of some windows is as long as their concatenation.
LEMMA OffsetOfLengths ==
  ASSUME NEW D, NEW s \in Seq(Seq(D)), NEW w \in Seq(Nat), Len(w) = Len(s),
         \A i \in 1..Len(s) : w[i] = Len(s[i])
  PROVE  OffsetIn(w, Len(w) + 1) = Len(FlattenSeq(s))
<1>1. Len(s) \in Nat /\ \A i \in 1..Len(s) : s[i] \in Seq(D)
  BY LenProperties, ElementOfSeq
<1>2. PICK g \in [0..Len(s) -> Seq(D)] : Concatenates(g, s)
  BY ConcatenationExists
<1> DEFINE c == [i \in 0..Len(w) |-> Len(g[i])]
<1>3. c \in [0..Len(w) -> Nat]
  BY <1>1, LenProperties
<1>4. c[0] = 0
  BY <1>1, <1>2, EmptySeq DEF Concatenates
<1>5. ASSUME NEW i \in 1..Len(w) PROVE c[i] = c[i - 1] + w[i]
  <2>1. i \in 0..Len(w) /\ i - 1 \in 0..Len(w) /\ i \in 1..Len(s)
    BY <1>1
  <2>2. g[i] = g[i - 1] \o s[i] /\ g[i - 1] \in Seq(D) /\ s[i] \in Seq(D)
    BY <1>1, <1>2, <2>1 DEF Concatenates
  <2>3. Len(g[i]) = Len(g[i - 1]) + Len(s[i])
    BY <2>2, ConcatProperties
  <2> QED BY <2>1, <2>3
<1>6. c[Len(w)] = Len(FlattenSeq(s))
  BY <1>1, <1>2, FlattenIs
<1> HIDE DEF c
<1>7. Sums(c, w)
  BY <1>4, <1>5 DEF Sums
<1>8. Len(w) + 1 \in 1..(Len(w) + 1) /\ (Len(w) + 1) - 1 = Len(w)
  BY <1>1
<1>9. OffsetIn(w, Len(w) + 1) = c[Len(w)]
  BY <1>3, <1>7, <1>8, OffsetIs
<1> QED BY <1>6, <1>9

-----------------------------------------------------------------------------
(* Pieces of the document, and what restore_engine makes of the library.   *)

\* A function on the first n numbers is a sequence.
LEMMA FunctionIsSequence ==
  ASSUME NEW S, NEW n \in Nat, NEW f \in [1..n -> S]
  PROVE  f \in Seq(S) /\ Len(f) = n
<1>1. f \in Seq(S)
  BY SeqDef
<1>2. DOMAIN f = 1..n /\ DOMAIN f = 1..Len(f) /\ Len(f) \in Nat
  BY <1>1, LenProperties
<1> QED BY <1>1, <1>2

\* A piece of the document is a sequence of its tokens.
LEMMA DocumentFacts ==
  ASSUME NEW i \in Nat \ {0}, NEW j \in Nat, i <= j + 1
  PROVE  /\ Document(i, j) \in Seq(Nat) /\ Len(Document(i, j)) = j + 1 - i
         /\ j <= NumTokens => Document(i, j) \in Seq(Tok)
         /\ \A n \in 1..(j + 1 - i) : Document(i, j)[n] = i + n - 1
<1> DEFINE k == j + 1 - i
<1>1. k \in Nat /\ Document(i, j) = [n \in 1..k |-> i + n - 1]
  BY DEF Document
<1>2. \A n \in 1..k : i + n - 1 \in Nat /\ (j <= NumTokens => i + n - 1 \in Tok)
  BY PrefillAssumption DEF Tok
<1> HIDE DEF k
<1>3. Document(i, j) \in [1..k -> Nat] /\ (j <= NumTokens => Document(i, j) \in [1..k -> Tok])
  BY <1>1, <1>2
<1>4. /\ Document(i, j) \in Seq(Nat) /\ (j <= NumTokens => Document(i, j) \in Seq(Tok))
      /\ Len(Document(i, j)) = k
  <2> DEFINE q == Document(i, j)
  <2> HIDE DEF q
  <2>1. q \in [1..k -> Nat] /\ (j <= NumTokens => q \in [1..k -> Tok])
    BY <1>3 DEF q
  <2>2. q \in Seq(Nat) /\ (j <= NumTokens => q \in Seq(Tok)) /\ Len(q) = k
    BY ONLY <1>1, <2>1, FunctionIsSequence
  <2> QED BY <2>2 DEF q
<1>5. Len(Document(i, j)) = k
  BY <1>4
<1>6. \A n \in 1..k : Document(i, j)[n] = i + n - 1
  BY <1>1
<1> QED BY <1>4, <1>5, <1>6 DEF k

\* The same, by the number of tokens before the piece.
LEMMA PieceFacts ==
  ASSUME NEW a \in Nat, NEW b \in Nat, a <= b
  PROVE  /\ Document(a + 1, b) \in Seq(Nat) /\ Len(Document(a + 1, b)) = b - a
         /\ \A n \in 1..(b - a) : Document(a + 1, b)[n] = a + n
         /\ b <= NumTokens => Document(a + 1, b) \in Seq(Tok)
<1> DEFINE i == a + 1
<1>1. i \in Nat \ {0} /\ i <= b + 1 /\ b + 1 - i = b - a
  OBVIOUS
<1>2. \A n \in 1..(b - a) : i + n - 1 = a + n
  OBVIOUS
<1> HIDE DEF i
<1>3. /\ Document(i, b) \in Seq(Nat) /\ Len(Document(i, b)) = b + 1 - i
      /\ b <= NumTokens => Document(i, b) \in Seq(Tok)
      /\ \A n \in 1..(b + 1 - i) : Document(i, b)[n] = i + n - 1
  BY <1>1, DocumentFacts
<1> QED BY <1>1, <1>2, <1>3 DEF i

\* A beginning of the document is its first tokens.
LEMMA BeginningFacts ==
  ASSUME NEW b \in Nat
  PROVE  /\ Document(1, b) \in Seq(Nat) /\ Len(Document(1, b)) = b
         /\ \A n \in 1..b : Document(1, b)[n] = n
         /\ b <= NumTokens => Document(1, b) \in Seq(Tok)
<1> DEFINE z == 0
<1>1. z \in Nat /\ z <= b /\ z + 1 = 1 /\ b - z = b /\ \A n \in 1..b : z + n = n
  OBVIOUS
<1> HIDE DEF z
<1>2. /\ Document(z + 1, b) \in Seq(Nat) /\ Len(Document(z + 1, b)) = b - z
      /\ \A n \in 1..(b - z) : Document(z + 1, b)[n] = z + n
      /\ b <= NumTokens => Document(z + 1, b) \in Seq(Tok)
  BY <1>1, PieceFacts
<1> QED BY <1>1, <1>2

\* The next piece continues the beginning of the document.
LEMMA DocumentGrows ==
  ASSUME NEW a \in Nat, NEW b \in Nat, a <= b
  PROVE  Document(1, a) \o Document(a + 1, b) = Document(1, b)
<1> DEFINE s == Document(1, a)
           t == Document(a + 1, b)
           u == Document(1, b)
<1>1. /\ s \in Seq(Nat) /\ Len(s) = a /\ \A n \in 1..a : s[n] = n
      /\ t \in Seq(Nat) /\ Len(t) = b - a /\ \A n \in 1..(b - a) : t[n] = a + n
      /\ u \in Seq(Nat) /\ Len(u) = b /\ \A n \in 1..b : u[n] = n
  BY BeginningFacts, PieceFacts
<1> HIDE DEF s, t, u
<1>2. /\ s \o t \in Seq(Nat) /\ Len(s \o t) = b
      /\ \A n \in 1..b : (s \o t)[n] = IF n <= a THEN s[n] ELSE t[n - a]
  <2>1. /\ s \o t \in Seq(Nat) /\ Len(s \o t) = Len(s) + Len(t)
        /\ \A n \in 1..(Len(s) + Len(t)) :
             (s \o t)[n] = IF n <= Len(s) THEN s[n] ELSE t[n - Len(s)]
    BY ONLY <1>1, ConcatProperties
  <2>2. Len(s) + Len(t) = b
    BY <1>1
  <2> QED BY <1>1, <2>1, <2>2
<1>3. ASSUME NEW n \in 1..b PROVE (s \o t)[n] = u[n]
  <2>1. CASE n <= a
    BY <1>1, <1>2, <2>1
  <2>2. CASE ~(n <= a)
    <3>1. n - a \in 1..(b - a) /\ a + (n - a) = n
      BY <2>2
    <3>2. (s \o t)[n] = t[n - a]
      BY <1>2, <2>2
    <3>3. t[n - a] = a + (n - a)
      BY <1>1, <3>1
    <3> QED BY <1>1, <3>1, <3>2, <3>3
  <2> QED BY <2>1, <2>2
<1>4. s \o t = u
  <2> DEFINE st == s \o t
  <2>1. st \in Seq(Nat) /\ Len(st) = Len(u) /\ \A n \in 1..Len(st) : st[n] = u[n]
    BY <1>1, <1>2, <1>3
  <2> HIDE DEF st
  <2>2. st = u
    BY <1>1, <2>1, SeqEqual
  <2> QED BY <2>2 DEF st
<1> QED BY <1>4 DEF s, t, u

\* A piece of a beginning of the document is a piece of the document.
LEMMA PieceOfTheDocument ==
  ASSUME NEW L \in Nat, NEW a \in Nat, NEW b \in Nat, a <= b, b <= L
  PROVE  SubSeq(Document(1, L), a + 1, b) = Document(a + 1, b)
<1> DEFINE s == Document(1, L)
           t == SubSeq(s, a + 1, b)
           u == Document(a + 1, b)
<1>1. Len(s) = L /\ \A n \in 1..L : s[n] = n
  BY BeginningFacts
<1>2. u \in Seq(Nat) /\ Len(u) = b - a /\ \A n \in 1..(b - a) : u[n] = a + n
  BY PieceFacts
<1> HIDE DEF s, u
<1>3. \A n \in 1..L : s[n] = n
  BY <1>1
<1>4. \A n \in (a + 1)..b : s[n] \in Nat
  BY <1>3
<1>5. /\ t \in Seq(Nat) /\ Len(t) = IF a + 1 <= b THEN b - (a + 1) + 1 ELSE 0
      /\ \A n \in 1..(b - (a + 1) + 1) : t[n] = s[(a + 1) + n - 1]
  <2>1. a + 1 \in Int /\ b \in Int
    OBVIOUS
  <2> QED BY <1>4, <2>1, SubSeqProperties
<1> HIDE DEF t
<1>6. Len(t) = Len(u) /\ Len(t) = b - a
  BY <1>2, <1>5
<1>7. ASSUME NEW n \in 1..Len(t) PROVE t[n] = u[n]
  <2>1. n \in 1..(b - (a + 1) + 1) /\ n \in 1..(b - a)
        /\ (a + 1) + n - 1 \in 1..L /\ (a + 1) + n - 1 = a + n
    BY <1>6
  <2> QED BY <1>2, <1>3, <1>5, <2>1
<1>8. t = u
  BY <1>2, <1>5, <1>6, <1>7, SeqEqual
<1> QED BY <1>8 DEF s, t, u

\* Every offset is a number.
LEMMA OffsetFacts ==
  ASSUME windows \in Seq(Nat), NEW i \in 1..(Len(windows) + 1)
  PROVE  Offset(i) \in Nat
<1>1. PICK c \in [0..Len(windows) -> Nat] : Sums(c, windows)
  BY SumsExist
<1>2. Offset(i) = c[i - 1]
  BY <1>1, OffsetIs, OffsetsOf
<1>3. i - 1 \in 0..Len(windows)
  BY LenProperties
<1> QED BY <1>1, <1>2, <1>3

\* A window that is restored has its size or, if tokens.bin was cut, less.
LEMMA SavedWindowFacts ==
  ASSUME tokens \in Seq(Tok), windows \in Seq(0..WindowSize), NEW i \in 1..Len(windows)
  PROVE  SavedWindow(i) \in Seq(Tok) /\ Len(SavedWindow(i)) <= WindowSize
<1>1. /\ windows[i] \in Nat /\ windows[i] <= WindowSize /\ WindowSize \in Nat
      /\ Len(tokens) \in Nat /\ Len(windows) \in Nat
  BY PrefillAssumption, LenProperties, ElementOfSeq
<1>2. Offset(i) \in Nat
  <2>1. windows \in Seq(Nat)
    BY PrefillAssumption, SeqMonotonic
  <2>2. i \in 1..(Len(windows) + 1)
    BY <1>1
  <2> QED BY <2>1, <2>2, OffsetFacts
<1> DEFINE o == Offset(i)
           m == Least(o + windows[i], Len(tokens))
<1> HIDE DEF o
<1>3. o + 1 \in Int /\ m \in Int /\ m <= Len(tokens) /\ m <= o + windows[i] /\ o \in Nat
  BY <1>1, <1>2 DEF Least, o
<1>4. SavedWindow(i) = SubSeq(tokens, o + 1, m)
  BY DEF SavedWindow, o
<1> HIDE DEF m
<1>5. \A n \in (o + 1)..m : tokens[n] \in Tok
  <2>1. \A n \in 1..Len(tokens) : tokens[n] \in Tok
    BY ElementOfSeq
  <2> QED BY <1>1, <1>3, <2>1
<1>6. /\ SubSeq(tokens, o + 1, m) \in Seq(Tok)
      /\ Len(SubSeq(tokens, o + 1, m)) = IF o + 1 <= m THEN m - (o + 1) + 1 ELSE 0
  BY <1>3, <1>5, SubSeqProperties
<1> QED BY <1>1, <1>3, <1>4, <1>6

\* restore_engine reads the beginning of the document back, up to the end of the
\* last window.
LEMMA RestoredReads ==
  ASSUME windows \in Seq(Nat), tokens = Document(1, Len(tokens)), Len(tokens) \in Nat,
         Len(tokens) >= Offset(Len(windows) + 1)
  PROVE  LET s == [i \in 1..Len(windows) |-> SavedWindow(i)]
         IN  /\ s \in Seq(Seq(Nat))
             /\ FlattenSeq(s) = Document(1, Offset(Len(windows) + 1))
<1> DEFINE s == [i \in 1..Len(windows) |-> SavedWindow(i)]
           n == Len(windows)
<1>1. n \in Nat /\ \A i \in 1..n : windows[i] \in Nat
  BY LenProperties, ElementOfSeq
<1>2. PICK c \in [0..n -> Nat] : Sums(c, windows) /\ \A i \in 0..n : c[i] <= c[n]
  BY SumsExist
<1>3. \A i \in 1..(n + 1) : Offset(i) = c[i - 1]
  BY <1>2, OffsetIs, OffsetsOf
<1>4. c[n] = Offset(n + 1) /\ c[n] <= Len(tokens)
  <2>1. n + 1 \in 1..(n + 1) /\ (n + 1) - 1 = n /\ c[n] \in Nat
    BY <1>1
  <2> QED BY <1>3, <2>1
<1>5. ASSUME NEW i \in 1..n
      PROVE  s[i] = Document(c[i - 1] + 1, c[i]) /\ s[i] \in Seq(Nat)
  <2>1. i \in 0..n /\ i - 1 \in 0..n /\ i \in 1..(n + 1)
    BY <1>1
  <2>2. c[i] = c[i - 1] + windows[i] /\ c[i] \in Nat /\ c[i - 1] \in Nat
    BY <1>2, <2>1 DEF Sums
  <2>3. c[i] <= Len(tokens) /\ c[i - 1] <= c[i]
    <3>1. c[i] <= c[n] /\ c[n] \in Nat
      BY <1>1, <1>2, <2>1
    <3> QED BY <1>1, <1>4, <2>2, <3>1
  <2>4. SavedWindow(i) = SubSeq(tokens, c[i - 1] + 1, c[i])
    <3>1. Offset(i) = c[i - 1]
      BY <1>3, <2>1
    <3>2. Least(c[i - 1] + windows[i], Len(tokens)) = c[i]
      BY <2>2, <2>3 DEF Least
    <3> QED BY <3>1, <3>2 DEF SavedWindow
  <2>5. SubSeq(Document(1, Len(tokens)), c[i - 1] + 1, c[i]) = Document(c[i - 1] + 1, c[i])
    BY <2>2, <2>3, PieceOfTheDocument
  <2>6. SavedWindow(i) = Document(c[i - 1] + 1, c[i])
    BY <2>4, <2>5
  <2>7. Document(c[i - 1] + 1, c[i]) \in Seq(Nat)
    BY <2>2, <2>3, PieceFacts
  <2> QED BY <2>6, <2>7
<1>6. s \in Seq(Seq(Nat)) /\ Len(s) = n
  <2>1. s \in [1..n -> Seq(Nat)]
    BY <1>5
  <2> HIDE DEF s
  <2>2. s \in Seq(Seq(Nat))
    BY <1>1, <2>1, SeqDef
  <2> QED BY <1>1, <2>1, <2>2, LenProperties
<1> DEFINE g == [i \in 0..n |-> Document(1, c[i])]
<1> HIDE DEF s
<1>7. g \in [0..Len(s) -> Seq(Nat)]
  <2>1. \A i \in 0..n : Document(1, c[i]) \in Seq(Nat)
    BY <1>2, BeginningFacts
  <2> QED BY <1>6, <2>1
<1>8. g[0] = <<>>
  <2>1. g[0] = Document(1, 0)
    BY <1>1, <1>2 DEF Sums
  <2>2. Document(1, 0) \in Seq(Nat) /\ Len(Document(1, 0)) = 0
    BY BeginningFacts
  <2> QED BY <2>1, <2>2, EmptySeq
<1>9. ASSUME NEW i \in 1..Len(s) PROVE g[i] = g[i - 1] \o s[i]
  <2>1. i \in 0..n /\ i - 1 \in 0..n /\ i \in 1..n
    BY <1>1, <1>6
  <2>2. c[i] = c[i - 1] + windows[i] /\ c[i] \in Nat /\ c[i - 1] \in Nat /\ windows[i] \in Nat
    BY <1>1, <1>2, <2>1 DEF Sums
  <2>3. Document(1, c[i - 1]) \o Document(c[i - 1] + 1, c[i]) = Document(1, c[i])
    <3>1. c[i - 1] <= c[i]
      BY <2>2
    <3> QED BY <2>2, <3>1, DocumentGrows
  <2>4. s[i] = Document(c[i - 1] + 1, c[i])
    BY <1>5, <2>1
  <2> QED BY <2>1, <2>3, <2>4
<1>10. FlattenSeq(s) = g[n]
  <2>1. Concatenates(g, s)
    BY <1>8, <1>9 DEF Concatenates
  <2> HIDE DEF g
  <2> QED BY <1>6, <1>7, <2>1, FlattenIs
<1>11. g[n] = Document(1, Offset(n + 1))
  BY <1>1, <1>4
<1> QED BY <1>6, <1>10, <1>11 DEF s

-----------------------------------------------------------------------------
(* Engines.                                                                *)

\* An archive is a sequence of sequences of tokens, whichever set they are taken
\* from.
LEMMA ArchivedFacts ==
  ASSUME NEW r \in Engines
  PROVE  /\ r.archive \in Seq(Seq(Tok)) /\ Len(r.archive) \in Nat
         /\ Archived(r) \in Seq(Tok) /\ Len(Archived(r)) \in Nat
         /\ ReadBy(r) \in Seq(Tok) /\ Len(ReadBy(r)) = Len(Archived(r)) + Len(r.cur)
         /\ r.cur \in Seq(Tok) /\ Len(r.cur) \in Nat
<1>1. r.archive \in Seq(Seq(Tok)) /\ r.cur \in Seq(Tok)
  BY DEF Engines
<1>2. Archived(r) \in Seq(Tok)
  BY <1>1, FlattenFacts DEF Archived
<1>3. ReadBy(r) \in Seq(Tok) /\ Len(ReadBy(r)) = Len(Archived(r)) + Len(r.cur)
  BY <1>1, <1>2, ConcatProperties DEF ReadBy
<1> QED BY <1>1, <1>2, <1>3, LenProperties

\* The engine of a command that has just started has read nothing.
LEMMA IdleFacts ==
  /\ Idle \in Engines /\ Fits(Idle) /\ Faithful(Idle) /\ OnCourse(Idle)
  /\ Idle.archive = <<>> /\ Archived(Idle) = <<>> /\ Len(Archived(Idle)) = 0
  /\ Idle.saved = 0 /\ Idle.pos = 0 /\ Idle.cur = <<>>
<1>1. Idle.archive = <<>> /\ Idle.saved = 0 /\ Idle.pos = 0 /\ Idle.cur = <<>>
  BY DEF Idle
<1>2. <<>> \in Seq(Seq(Tok)) /\ <<>> \in Seq(Tok) /\ Len(<<>>) = 0
  BY EmptySeq
<1>3. Idle \in Engines
  BY <1>2 DEF Idle, Engines
<1>4. Archived(Idle) = <<>>
  BY <1>1, FlattenNothing DEF Archived
<1>5. ReadBy(Idle) = <<>>
  BY <1>1, <1>2, <1>4, ConcatEmptySeq DEF ReadBy
<1>6. Document(1, 0) = <<>>
  <2>1. Document(1, 0) \in Seq(Nat) /\ Len(Document(1, 0)) = 0
    BY BeginningFacts
  <2> QED BY <2>1, EmptySeq
<1> QED BY <1>1, <1>2, <1>3, <1>4, <1>5, <1>6, PrefillAssumption DEF Fits, Faithful, OnCourse

\* The type invariant is a part of the inductive one.
LEMMA TypesOfInv == IInv => TypeOK
BY DEF IInv, LibraryInv, DiskTypeOK, EngineInv, Engines, Kinds, Tok, TypeOK

\* Where the command comes to a stop, in its loop, at the beginning of a save or
\* at its end, what is known of its engine r is enough.
LEMMA Settled ==
  ASSUME NEW r,
         LibraryInv',
         \/ Ends
         \/ /\ run' = r /\ kind' \in Kinds
            /\ pc' \in {"loop", "processed", "flush", "zip"}
            /\ pc' # "zip" => kind' = "none"
            /\ r \in Engines /\ Fits(r)
            /\ TokensAreSafe' => Faithful(r) /\ Covers(r, Recorded')
            /\ TokensAreSafe' /\ (pc' \in {"loop", "processed"} \/ kind' = "quick") => OnCourse(r)
            /\ CheckpointsAreSafe' => Linked(r, Len(windows'), ckpt')
  PROVE  IInv'
<1>1. CASE Ends
  <2>1. run' = Idle /\ pc' = "down" /\ kind' = "none"
    BY <1>1 DEF Ends
  <2>2. Faithful(run') /\ Fits(run') /\ run' \in Engines
    BY <2>1, IdleFacts
  <2>3. EngineInv'
    BY <2>1, <2>2 DEF EngineInv, Kinds
  <2>4. SavingInv'
    BY <2>1 DEF SavingInv
  <2> QED BY <2>3, <2>4 DEF IInv
<1>2. CASE ~Ends
  <2>1. EngineInv'
    BY <1>2 DEF EngineInv
  <2>2. SavingInv'
    BY <1>2 DEF SavingInv
  <2> QED BY <2>1, <2>2 DEF IInv
<1> QED BY <1>1, <1>2

\* Where Save comes to: to the end of the command, to the first file, or, when a
\* periodic save raises, to the finally of the loop.
LEMMA SaveGoes ==
  ASSUME NEW r, NEW k \in Kinds, Save(k, r)
  PROVE  \/ Ends
         \/ /\ run' = r /\ kind' \in Kinds /\ pc' \in {"flush", "zip"}
            /\ kind' = "quick" => k = "quick"
            /\ pc' # "zip" => kind' = "none"
BY DEF Save, SaveRaises, Kinds

\* The parts of the invariant that most steps need.
LEMMA InvFacts ==
  ASSUME IInv
  PROVE  /\ LibraryInv /\ run \in Engines /\ Fits(run) /\ kind \in Kinds
         /\ pc \in {"down", "loop", "processed", "flush"} => kind = "none"
         /\ TokensAreSafe => Faithful(run)
         /\ TokensAreSafe /\ pc # "down" => Covers(run, Recorded)
         /\ TokensAreSafe /\ (pc \in {"loop", "processed"} \/ kind = "quick") => OnCourse(run)
         /\ CheckpointsAreSafe /\ pc # "down" => Linked(run, Len(windows), ckpt)
BY DEF IInv, EngineInv

\* A step that leaves the disk alone leaves what is known of it.
LEMMA DiskUnchanged ==
  ASSUME LibraryInv, UNCHANGED <<skip, disk, damage>>
  PROVE  /\ LibraryInv' /\ Recorded' = Recorded
         /\ windows' = windows /\ ckpt' = ckpt
         /\ (TokensAreSafe' <=> TokensAreSafe) /\ (CheckpointsAreSafe' <=> CheckpointsAreSafe)
<1>1. /\ skip' = skip /\ damage' = damage /\ tokens' = tokens /\ windows' = windows /\ ckpt' = ckpt
      /\ manifest' = manifest /\ torn' = torn
  BY DEF disk
<1>2. Recorded' = Recorded
  BY <1>1 DEF Recorded, Offset
<1>3. (TokensAreSafe' <=> TokensAreSafe) /\ (CheckpointsAreSafe' <=> CheckpointsAreSafe)
  BY <1>1 DEF TokensAreSafe, CheckpointsAreSafe
<1>4. LibraryInv'
  BY <1>1, <1>2, <1>3 DEF LibraryInv, DiskTypeOK
<1> QED BY <1>1, <1>2, <1>3, <1>4

-----------------------------------------------------------------------------
(* The loop over the windows.                                              *)

\* The next chunk is a window or what is left of the document.
LEMMA ChunkFacts ==
  ASSUME run \in Engines, run.pos < NumTokens
  PROVE  /\ Chunk \in Seq(Tok) /\ Len(Chunk) \in 1..WindowSize
         /\ Chunk = Document(run.pos + 1, run.pos + Len(Chunk))
         /\ Len(Chunk) # WindowSize => run.pos + Len(Chunk) = NumTokens
<1>1. run.pos \in Nat /\ NumTokens \in Nat /\ WindowSize \in Nat \ {0}
  BY PrefillAssumption DEF Engines
<1> DEFINE a == run.pos
           b == Least(a + WindowSize, NumTokens)
<1>2. /\ b \in Nat /\ a <= b /\ b <= NumTokens /\ b - a \in 1..WindowSize
      /\ b - a # WindowSize => b = NumTokens
  BY <1>1 DEF Least
<1>3. Chunk = Document(a + 1, b)
  BY DEF Chunk
<1> HIDE DEF b, a
<1>4. a \in Nat
  BY <1>1 DEF a
<1>5. Document(a + 1, b) \in Seq(Tok) /\ Len(Document(a + 1, b)) = b - a
  BY <1>2, <1>4, PieceFacts
<1>6. a + Len(Chunk) = b
  BY <1>2, <1>3, <1>4, <1>5
<1> QED BY <1>2, <1>3, <1>5, <1>6 DEF a

\* What closing a window over the tokens w makes of an engine.
LEMMA ClosedFacts ==
  ASSUME NEW r \in Engines, NEW w \in Seq(Tok), Fits(r), Len(w) <= WindowSize
  PROVE  LET q == Closed(r, w)
         IN  /\ q \in Engines /\ Fits(q) /\ q.cur = <<>> /\ q.pos = r.pos
             /\ Archived(q) = Archived(r) \o w /\ ReadBy(q) = Archived(r) \o w
             /\ \A n \in Nat : Covers(r, n) => Covers(q, n)
             /\ \A n \in Nat, c \in SUBSET Nat : Linked(r, n, c) => Linked(q, n, c)
<1> DEFINE q == Closed(r, w)
           s == Append(r.archive, w)
<1>1. r.archive \in Seq(Seq(Tok)) /\ Len(r.archive) \in Nat /\ Archived(r) \in Seq(Tok)
      /\ Len(Archived(r)) \in Nat /\ Len(w) \in Nat
  BY ArchivedFacts, LenProperties
<1>2. /\ s \in Seq(Seq(Tok)) /\ Len(s) = Len(r.archive) + 1 /\ s[Len(s)] = w /\ s # <<>>
      /\ \A i \in 1..Len(r.archive) : s[i] = r.archive[i]
  <2> DEFINE a == r.archive
  <2>1. a \in Seq(Seq(Tok)) /\ Len(a) \in Nat
    BY <1>1
  <2> HIDE DEF a
  <2>2. /\ Append(a, w) \in Seq(Seq(Tok)) /\ Append(a, w) # <<>> /\ Len(Append(a, w)) = Len(a) + 1
        /\ \A i \in 1..Len(a) : Append(a, w)[i] = a[i]
        /\ Append(a, w)[Len(a) + 1] = w
    BY <2>1, AppendProperties
  <2> QED BY <2>2 DEF a
<1>3. FlattenSeq(s) = Archived(r) \o w
  BY <1>1, FlattenFacts DEF Archived
<1> HIDE DEF s
<1>4. /\ q = [r EXCEPT !.archive = s, !.ckpts = r.ckpts \cup {Len(r.archive) + 1}, !.cur = <<>>]
      /\ <<>> \in Seq(Tok) /\ Len(<<>>) = 0
  BY EmptySeq DEF Closed, s
<1>5. /\ q.archive = s /\ q.ckpts = r.ckpts \cup {Len(r.archive) + 1} /\ q.cur = <<>>
      /\ q.pos = r.pos /\ q.saved = r.saved
  BY <1>4 DEF Engines
<1>6. q \in Engines
  <2>1. r.ckpts \cup {Len(r.archive) + 1} \in SUBSET (Nat \ {0})
    BY <1>1 DEF Engines
  <2> QED BY <1>2, <1>4, <2>1 DEF Engines
<1>7. Fits(q)
  <2>1. ASSUME NEW i \in 1..Len(s) PROVE Len(s[i]) <= WindowSize
    <3>1. CASE i = Len(s)
      BY <1>2, <3>1
    <3>2. CASE i # Len(s)
      <4>1. i \in 1..Len(r.archive)
        BY <1>1, <1>2, <3>2
      <4> QED BY <1>2, <4>1 DEF Fits
    <3> QED BY <3>1, <3>2
  <2> QED BY <1>4, <1>5, <2>1, PrefillAssumption DEF Fits
<1>8. Archived(q) = Archived(r) \o w
  BY <1>3, <1>5 DEF Archived
<1>9. Archived(r) \o w \in Seq(Tok) /\ Len(Archived(r) \o w) = Len(Archived(r)) + Len(w)
  BY <1>1, ConcatProperties
<1>10. ReadBy(q) = Archived(r) \o w
  BY <1>5, <1>8, <1>9, ConcatEmptySeq DEF ReadBy
<1>11. \A n \in Nat : Covers(r, n) => Covers(q, n)
  BY <1>1, <1>8, <1>9 DEF Covers
<1>12. ASSUME NEW n \in Nat, NEW c \in SUBSET Nat, Linked(r, n, c) PROVE Linked(q, n, c)
  <2>1. r.saved \in Nat
    BY DEF Engines
  <2>2. q.saved <= Len(q.archive) /\ n <= Len(q.archive) /\ 1..q.saved \subseteq c
    BY <1>1, <1>2, <1>5, <1>12, <2>1 DEF Linked
  <2>3. (q.saved + 1)..Len(q.archive) \subseteq q.ckpts
    <3>1. (r.saved + 1)..Len(r.archive) \subseteq r.ckpts
      BY <1>12 DEF Linked
    <3>2. (r.saved + 1)..(Len(r.archive) + 1) \subseteq r.ckpts \cup {Len(r.archive) + 1}
      <4> SUFFICES ASSUME NEW i \in (r.saved + 1)..(Len(r.archive) + 1), i # Len(r.archive) + 1
                   PROVE  i \in r.ckpts
        OBVIOUS
      <4>1. i \in (r.saved + 1)..Len(r.archive)
        BY <1>1, <2>1
      <4> QED BY <3>1, <4>1
    <3> QED BY <1>2, <1>5, <3>2
  <2>4. Len(q.archive) \in q.ckpts
    BY <1>2, <1>5
  <2> QED BY <2>2, <2>3, <2>4 DEF Linked
<1> HIDE DEF q
<1>13. /\ q \in Engines /\ Fits(q) /\ q.cur = <<>> /\ q.pos = r.pos
       /\ Archived(q) = Archived(r) \o w /\ ReadBy(q) = Archived(r) \o w
       /\ \A n \in Nat : Covers(r, n) => Covers(q, n)
       /\ \A n \in Nat, c \in SUBSET Nat : Linked(r, n, c) => Linked(q, n, c)
  BY <1>5, <1>6, <1>7, <1>8, <1>10, <1>11, <1>12
<1> QED BY <1>13 DEF q

\* The library's numbers are numbers.
LEMMA RecordedFacts ==
  ASSUME LibraryInv PROVE Recorded \in Nat /\ Len(windows) \in Nat /\ ckpt \in SUBSET Nat
<1>1. windows \in Seq(0..WindowSize) /\ ckpt \in SUBSET Nat
  BY DEF LibraryInv, DiskTypeOK
<1>2. windows \in Seq(Nat)
  BY <1>1, PrefillAssumption, SeqMonotonic
<1>3. Len(windows) + 1 \in 1..(Len(windows) + 1) /\ Len(windows) \in Nat
  BY <1>2, LenProperties
<1> QED BY <1>1, <1>2, <1>3, OffsetFacts DEF Recorded

\* In the loop nothing but the end of the document is left over.
LEMMA NothingLeftOver ==
  ASSUME NEW r \in Engines, Faithful(r), OnCourse(r), r.pos < NumTokens
  PROVE  r.cur = <<>> /\ Archived(r) = Document(1, r.pos) /\ Len(Archived(r)) = r.pos
<1>1. r.pos \in Nat /\ NumTokens \in Nat
  BY PrefillAssumption DEF Engines
<1>2. r.cur = <<>>
  BY <1>1 DEF OnCourse
<1>3. ReadBy(r) = Archived(r)
  BY <1>2, ArchivedFacts, ConcatEmptySeq DEF ReadBy
<1> QED BY <1>2, <1>3 DEF Faithful, OnCourse

\* The next chunk continues what was read.
LEMMA ChunkContinues ==
  ASSUME run \in Engines, Faithful(run), OnCourse(run), run.pos < NumTokens
  PROVE  LET d == Archived(run) \o Chunk
         IN  d = Document(1, Len(d)) /\ Len(d) = run.pos + Len(Chunk)
<1>1. Archived(run) = Document(1, run.pos) /\ Len(Archived(run)) = run.pos /\ run.pos \in Nat
  BY NothingLeftOver DEF Engines
<1>2. Chunk \in Seq(Tok) /\ Len(Chunk) \in Nat /\ Chunk = Document(run.pos + 1, run.pos + Len(Chunk))
  BY ChunkFacts, LenProperties
<1>3. Archived(run) \in Seq(Tok)
  BY ArchivedFacts
<1>4. Len(Archived(run) \o Chunk) = run.pos + Len(Chunk)
  BY <1>1, <1>2, <1>3, ConcatProperties
<1> DEFINE a == run.pos
           b == run.pos + Len(Chunk)
<1>5. a \in Nat /\ b \in Nat /\ a <= b
  BY <1>1, <1>2
<1> HIDE DEF a, b
<1>6. Document(1, a) \o Document(a + 1, b) = Document(1, b)
  BY <1>5, DocumentGrows
<1> QED BY <1>1, <1>2, <1>4, <1>6 DEF a, b

\* Engines that differ in their place in the document and their flags only.
LEMMA SameBooks ==
  ASSUME NEW r, NEW q, q.archive = r.archive, q.cur = r.cur, q.ckpts = r.ckpts, q.saved = r.saved
  PROVE  /\ Fits(r) => Fits(q)
         /\ Archived(q) = Archived(r) /\ ReadBy(q) = ReadBy(r)
         /\ Faithful(r) => Faithful(q)
         /\ q.pos = r.pos /\ OnCourse(r) => OnCourse(q)
         /\ \A n : Covers(r, n) => Covers(q, n)
         /\ \A n, c : Linked(r, n, c) => Linked(q, n, c)
BY DEF Fits, Archived, ReadBy, Faithful, OnCourse, Covers, Linked

\* The engine has read a chunk and keeps it as the beginning of a window.
LEMMA PartialFacts ==
  ASSUME NEW r \in Engines, NEW w \in Seq(Tok), Fits(r), Len(w) <= WindowSize
  PROVE  LET q == [r EXCEPT !.cur = w]
         IN  /\ q \in Engines /\ Fits(q) /\ q.pos = r.pos /\ q.cur = w
             /\ Archived(q) = Archived(r) /\ ReadBy(q) = Archived(r) \o w
             /\ \A n : Covers(r, n) => Covers(q, n)
             /\ \A n, c : Linked(r, n, c) => Linked(q, n, c)
<1> DEFINE q == [r EXCEPT !.cur = w]
<1>1. /\ q \in Engines /\ q.pos = r.pos /\ q.cur = w /\ q.archive = r.archive
      /\ q.ckpts = r.ckpts /\ q.saved = r.saved
  BY DEF Engines
<1> HIDE DEF q
<1>2. Fits(q)
  BY <1>1 DEF Fits
<1>3. Archived(q) = Archived(r) /\ ReadBy(q) = Archived(r) \o w
  BY <1>1 DEF Archived, ReadBy
<1>4. \A n : Covers(r, n) => Covers(q, n)
  BY <1>3 DEF Covers
<1>5. \A n, c : Linked(r, n, c) => Linked(q, n, c)
  BY <1>1 DEF Linked
<1>6. /\ q \in Engines /\ Fits(q) /\ q.pos = r.pos /\ q.cur = w
      /\ Archived(q) = Archived(r) /\ ReadBy(q) = Archived(r) \o w
      /\ \A n : Covers(r, n) => Covers(q, n)
      /\ \A n, c : Linked(r, n, c) => Linked(q, n, c)
  BY <1>1, <1>2, <1>3, <1>4, <1>5
<1> QED BY <1>6 DEF q

\* Where Process leads, with or without an exception behind it: the chunk w is
\* a window or the beginning of one, and the place r.pos may have moved.
LEMMA Processes ==
  ASSUME IInv, pc = "loop", run.pos < NumTokens,
         NEW r, r \in Engines, r.archive = run.archive, r.cur = run.cur, r.ckpts = run.ckpts,
         r.saved = run.saved,
         NEW q, \/ q = Closed(r, Chunk)
                \/ q = [r EXCEPT !.cur = Chunk]
  PROVE  /\ q \in Engines /\ Fits(q) /\ q.pos = r.pos
         /\ q = Closed(r, Chunk) => q.cur = <<>>
         /\ TokensAreSafe => /\ Faithful(q) /\ Covers(q, Recorded)
                             /\ Len(ReadBy(q)) = run.pos + Len(Chunk)
         /\ CheckpointsAreSafe => Linked(q, Len(windows), ckpt)
<1>1. /\ LibraryInv /\ run \in Engines /\ Fits(run)
      /\ TokensAreSafe => Faithful(run) /\ Covers(run, Recorded) /\ OnCourse(run)
      /\ CheckpointsAreSafe => Linked(run, Len(windows), ckpt)
  BY InvFacts
<1>2. Recorded \in Nat /\ Len(windows) \in Nat /\ ckpt \in SUBSET Nat
  BY <1>1, RecordedFacts
<1>3. Chunk \in Seq(Tok) /\ Len(Chunk) <= WindowSize
  <2>1. Chunk \in Seq(Tok) /\ Len(Chunk) \in 1..WindowSize
    BY <1>1, ChunkFacts
  <2> QED BY <2>1, PrefillAssumption
<1>4. /\ Fits(r) /\ Archived(r) = Archived(run)
      /\ \A n : Covers(run, n) => Covers(r, n)
      /\ \A n, c : Linked(run, n, c) => Linked(r, n, c)
  BY <1>1, SameBooks
<1>5. /\ q \in Engines /\ Fits(q) /\ q.pos = r.pos /\ ReadBy(q) = Archived(r) \o Chunk
      /\ q = Closed(r, Chunk) => q.cur = <<>>
      /\ \A n \in Nat : Covers(r, n) => Covers(q, n)
      /\ \A n \in Nat, c \in SUBSET Nat : Linked(r, n, c) => Linked(q, n, c)
  <2>1. CASE q = Closed(r, Chunk)
    BY <1>3, <1>4, <2>1, ClosedFacts
  <2>2. CASE q = [r EXCEPT !.cur = Chunk] /\ q # Closed(r, Chunk)
    BY <1>3, <1>4, <2>2, PartialFacts
  <2> QED BY <2>1, <2>2
<1>6. ASSUME TokensAreSafe
      PROVE  Faithful(q) /\ Covers(q, Recorded) /\ Len(ReadBy(q)) = run.pos + Len(Chunk)
  <2>1. /\ Archived(run) \o Chunk = Document(1, Len(Archived(run) \o Chunk))
        /\ Len(Archived(run) \o Chunk) = run.pos + Len(Chunk)
    BY <1>1, <1>6, ChunkContinues
  <2>2. ReadBy(q) = Archived(run) \o Chunk
    BY <1>4, <1>5
  <2>3. Covers(q, Recorded)
    BY <1>1, <1>2, <1>4, <1>5, <1>6
  <2> QED BY <2>1, <2>2, <2>3 DEF Faithful
<1>7. CheckpointsAreSafe => Linked(q, Len(windows), ckpt)
  BY <1>1, <1>2, <1>4, <1>5
<1> QED BY <1>5, <1>6, <1>7

\* engine.process of the next chunk.
LEMMA ProcessStep == IInv /\ Process => IInv'
<1> SUFFICES ASSUME IInv, Process PROVE IInv'
  OBVIOUS
<1> DEFINE next == run.pos + Len(Chunk)
           r == [run EXCEPT !.pos = next]
<1>1. /\ LibraryInv /\ run \in Engines /\ kind \in Kinds /\ (pc = "loop" => kind = "none")
  BY InvFacts
<1>2. /\ pc = "loop" /\ run.pos < NumTokens /\ pc' = "processed" /\ kind' = kind
      /\ UNCHANGED <<skip, disk, damage>>
      /\ run' = IF Len(Chunk) = WindowSize THEN Closed(r, Chunk) ELSE [r EXCEPT !.cur = Chunk]
  BY DEF Process
<1>3. /\ Len(Chunk) \in Nat /\ run.pos \in Nat /\ NumTokens \in Nat
      /\ Len(Chunk) # WindowSize => run.pos + Len(Chunk) = NumTokens
  <2>1. /\ Len(Chunk) \in 1..WindowSize
        /\ Len(Chunk) # WindowSize => run.pos + Len(Chunk) = NumTokens
    BY <1>1, <1>2, ChunkFacts
  <2> QED BY <1>1, <2>1, PrefillAssumption DEF Engines
<1>4. /\ r \in Engines /\ r.archive = run.archive /\ r.cur = run.cur /\ r.ckpts = run.ckpts
      /\ r.saved = run.saved /\ r.pos = run.pos + Len(Chunk)
  <2>1. next \in Nat
    BY <1>3
  <2> HIDE DEF next
  <2>2. /\ r \in Engines /\ r.archive = run.archive /\ r.cur = run.cur /\ r.ckpts = run.ckpts
        /\ r.saved = run.saved /\ r.pos = next
    BY <1>1, <2>1 DEF Engines
  <2> QED BY <2>2 DEF next
<1> HIDE DEF r
<1> DEFINE q == run'
<1>5. q = Closed(r, Chunk) \/ q = [r EXCEPT !.cur = Chunk]
  BY <1>2
<1>6. /\ q \in Engines /\ Fits(q) /\ q.pos = r.pos
      /\ q = Closed(r, Chunk) => q.cur = <<>>
      /\ TokensAreSafe => /\ Faithful(q) /\ Covers(q, Recorded)
                          /\ Len(ReadBy(q)) = run.pos + Len(Chunk)
      /\ CheckpointsAreSafe => Linked(q, Len(windows), ckpt)
  <2> HIDE DEF q
  <2> QED BY <1>2, <1>4, <1>5, Processes
<1>7. /\ LibraryInv' /\ Recorded' = Recorded /\ windows' = windows /\ ckpt' = ckpt
      /\ (TokensAreSafe' <=> TokensAreSafe) /\ (CheckpointsAreSafe' <=> CheckpointsAreSafe)
  BY <1>1, <1>2, DiskUnchanged
<1>8. TokensAreSafe => OnCourse(q)
  BY <1>2, <1>3, <1>4, <1>6 DEF OnCourse
<1>9. run' = q
  OBVIOUS
<1> HIDE DEF q
<1> QED BY <1>1, <1>2, <1>6, <1>7, <1>8, <1>9, Settled

\* engine.process raises.
LEMMA ProcessFailsStep == IInv /\ ProcessFails => IInv'
<1> SUFFICES ASSUME IInv, ProcessFails PROVE IInv'
  OBVIOUS
<1>1. /\ LibraryInv /\ run \in Engines /\ Fits(run) /\ kind \in Kinds
      /\ pc = "loop" => kind = "none"
      /\ TokensAreSafe /\ pc # "down" => Faithful(run) /\ Covers(run, Recorded)
      /\ CheckpointsAreSafe /\ pc # "down" => Linked(run, Len(windows), ckpt)
  BY InvFacts
<1>2. /\ pc = "loop" /\ run.pos < NumTokens /\ pc' = "flush" /\ kind' = kind
      /\ UNCHANGED <<skip, disk, damage>>
      /\ run' = run \/ run' = [run EXCEPT !.cur = Chunk] \/ run' = Closed(run, Chunk)
  BY DEF ProcessFails
<1>3. /\ LibraryInv' /\ Recorded' = Recorded /\ windows' = windows /\ ckpt' = ckpt
      /\ (TokensAreSafe' <=> TokensAreSafe) /\ (CheckpointsAreSafe' <=> CheckpointsAreSafe)
  BY <1>1, <1>2, DiskUnchanged
<1> DEFINE q == run'
<1>4. /\ q \in Engines /\ Fits(q)
      /\ TokensAreSafe => Faithful(q) /\ Covers(q, Recorded)
      /\ CheckpointsAreSafe => Linked(q, Len(windows), ckpt)
  <2>1. CASE q = run
    BY <1>1, <1>2, <2>1
  <2>2. CASE q = [run EXCEPT !.cur = Chunk] \/ q = Closed(run, Chunk)
    <3> HIDE DEF q
    <3> DEFINE r == run
    <3>1. r \in Engines /\ (q = [r EXCEPT !.cur = Chunk] \/ q = Closed(r, Chunk))
      BY <1>1, <2>2
    <3>2. r.archive = run.archive /\ r.cur = run.cur /\ r.ckpts = run.ckpts /\ r.saved = run.saved
      OBVIOUS
    <3> HIDE DEF r
    <3> QED BY <1>2, <3>1, <3>2, Processes
  <2> QED BY <1>2, <2>1, <2>2
<1>5. run' = q
  OBVIOUS
<1> HIDE DEF q
<1> QED BY <1>1, <1>2, <1>3, <1>4, <1>5, Settled

\* A step that leaves the disk alone and leads to the engine r, or to the end.
LEMMA QuietlySettled ==
  ASSUME IInv, UNCHANGED <<skip, disk, damage>>,
         NEW r,
         \/ Ends
         \/ /\ run' = r /\ kind' \in Kinds
            /\ pc' \in {"loop", "processed", "flush", "zip"}
            /\ pc' # "zip" => kind' = "none"
            /\ r \in Engines /\ Fits(r)
            /\ TokensAreSafe => Faithful(r) /\ Covers(r, Recorded)
            /\ TokensAreSafe /\ (pc' \in {"loop", "processed"} \/ kind' = "quick") => OnCourse(r)
            /\ CheckpointsAreSafe => Linked(r, Len(windows), ckpt)
  PROVE  IInv'
<1>1. LibraryInv
  BY InvFacts
<1>2. /\ LibraryInv' /\ Recorded' = Recorded /\ windows' = windows /\ ckpt' = ckpt
      /\ (TokensAreSafe' <=> TokensAreSafe) /\ (CheckpointsAreSafe' <=> CheckpointsAreSafe)
  BY <1>1, DiskUnchanged
<1> QED BY <1>2, Settled

\* After a chunk.
LEMMA ProcessedStep == IInv /\ Processed => IInv'
<1> SUFFICES ASSUME IInv, Processed PROVE IInv'
  OBVIOUS
<1>1. pc = "processed" /\ UNCHANGED <<skip, disk, damage>>
  BY DEF Processed
<1>2. Save("quick", run) \/ GoOn(run)
  BY DEF Processed
<1>3. \/ Ends
      \/ /\ run' = run /\ kind' \in Kinds /\ pc' \in {"loop", "flush", "zip"}
         /\ pc' # "zip" => kind' = "none"
  <2>1. CASE Save("quick", run)
    BY <2>1, SaveGoes DEF Kinds
  <2>2. CASE Save("interrupted", run)
    BY <2>2, SaveGoes DEF Kinds
  <2>3. CASE pc' = "loop" /\ kind' = "none" /\ run' = run
    BY <2>3 DEF Kinds
  <2> QED BY <1>2, <2>1, <2>2, <2>3 DEF GoOn
<1>4. /\ run \in Engines /\ Fits(run)
      /\ TokensAreSafe => Faithful(run) /\ Covers(run, Recorded) /\ OnCourse(run)
      /\ CheckpointsAreSafe => Linked(run, Len(windows), ckpt)
  BY <1>1, InvFacts
<1> DEFINE r == run
<1>5. r = run
  OBVIOUS
<1> HIDE DEF r
<1> QED BY <1>1, <1>3, <1>4, <1>5, QuietlySettled

\* The loop has come to the end of the document.
LEMMA LoopEndsStep == IInv /\ LoopEnds => IInv'
<1> SUFFICES ASSUME IInv, LoopEnds PROVE IInv'
  OBVIOUS
<1>1. pc = "loop" /\ pc' = "flush" /\ kind' = kind /\ run' = run /\ UNCHANGED <<skip, disk, damage>>
  BY DEF LoopEnds
<1>2. /\ run \in Engines /\ Fits(run) /\ kind = "none" /\ kind \in Kinds
      /\ TokensAreSafe => Faithful(run) /\ Covers(run, Recorded) /\ OnCourse(run)
      /\ CheckpointsAreSafe => Linked(run, Len(windows), ckpt)
  BY <1>1, InvFacts
<1> DEFINE r == run
<1>3. r = run
  OBVIOUS
<1> HIDE DEF r
<1> QED BY <1>1, <1>2, <1>3, QuietlySettled

\* The first Ctrl-C.
LEMMA CtrlCStep == IInv /\ CtrlC => IInv'
<1> SUFFICES ASSUME IInv, CtrlC PROVE IInv'
  OBVIOUS
<1>1. /\ pc \in {"loop", "processed"} \/ kind = "quick"
      /\ run' = [run EXCEPT !.sigint = TRUE] /\ pc' = pc /\ kind' = kind
      /\ UNCHANGED <<skip, disk, damage>>
  BY DEF CtrlC
<1>2. LibraryInv /\ EngineInv /\ SavingInv
  BY DEF IInv
<1>3. run \in Engines
  BY <1>2 DEF EngineInv
<1>4. /\ run' \in Engines /\ run'.archive = run.archive /\ run'.cur = run.cur
      /\ run'.ckpts = run.ckpts /\ run'.saved = run.saved /\ run'.pos = run.pos
  BY <1>1, <1>3 DEF Engines
<1>5. pc # "down"
  BY <1>1, <1>2 DEF EngineInv
<1> DEFINE q == run'
           r == run
<1>6. q = run' /\ r = run
  OBVIOUS
<1> HIDE DEF q, r
<1>7. q.archive = r.archive /\ q.cur = r.cur /\ q.ckpts = r.ckpts /\ q.saved = r.saved /\ q.pos = r.pos
  BY <1>4, <1>6
<1>8. /\ Fits(r) => Fits(q)
      /\ Archived(q) = Archived(r)
      /\ Faithful(r) => Faithful(q)
      /\ OnCourse(r) => OnCourse(q)
      /\ Covers(r, Recorded) => Covers(q, Recorded)
      /\ Linked(r, Len(windows), ckpt) => Linked(q, Len(windows), ckpt)
  BY <1>7, SameBooks
<1>9. /\ LibraryInv' /\ Recorded' = Recorded /\ windows' = windows /\ ckpt' = ckpt
      /\ (TokensAreSafe' <=> TokensAreSafe) /\ (CheckpointsAreSafe' <=> CheckpointsAreSafe)
  BY <1>1, <1>2, DiskUnchanged
<1>10. /\ q \in Engines /\ Fits(q)
       /\ TokensAreSafe => /\ Faithful(q) /\ Covers(q, Recorded)
                           /\ pc \in {"loop", "processed"} \/ kind = "quick" => OnCourse(q)
       /\ CheckpointsAreSafe => Linked(q, Len(windows), ckpt)
  BY <1>2, <1>4, <1>5, <1>6, <1>8 DEF EngineInv
<1>11. EngineInv'
  BY <1>1, <1>2, <1>5, <1>6, <1>9, <1>10 DEF EngineInv
<1>12. SavingInv'
  <2>1. Archived(run') = Archived(run) /\ Len(run'.archive) = Len(run.archive)
    BY <1>6, <1>7, <1>8
  <2>2. tokens' = tokens
    BY <1>1 DEF disk
  <2> QED BY <1>1, <1>2, <1>9, <2>1, <2>2 DEF SavingInv
<1> QED BY <1>9, <1>11, <1>12 DEF IInv

\* The finally closes what is left over as a window and begins the last save.
LEMMA FlushStep == IInv /\ Flush => IInv'
<1> SUFFICES ASSUME IInv, Flush PROVE IInv'
  OBVIOUS
<1> DEFINE q == IF run.cur = <<>> THEN run ELSE Closed(run, run.cur)
<1>1. pc = "flush" /\ Save("final", q) /\ UNCHANGED <<skip, disk, damage>>
  BY DEF Flush
<1>2. /\ LibraryInv /\ run \in Engines /\ Fits(run)
      /\ TokensAreSafe => Faithful(run) /\ Covers(run, Recorded)
      /\ CheckpointsAreSafe => Linked(run, Len(windows), ckpt)
  BY <1>1, InvFacts
<1>3. Recorded \in Nat /\ Len(windows) \in Nat /\ ckpt \in SUBSET Nat
  BY <1>2, RecordedFacts
<1>4. /\ q \in Engines /\ Fits(q)
      /\ TokensAreSafe => Faithful(q) /\ Covers(q, Recorded)
      /\ CheckpointsAreSafe => Linked(q, Len(windows), ckpt)
  <2>1. CASE run.cur = <<>>
    BY <1>2, <2>1
  <2>2. CASE run.cur # <<>>
    <3> DEFINE c == Closed(run, run.cur)
    <3>1. run.cur \in Seq(Tok) /\ Len(run.cur) <= WindowSize
      BY <1>2, ArchivedFacts DEF Fits
    <3>2. /\ c \in Engines /\ Fits(c) /\ ReadBy(c) = Archived(run) \o run.cur
          /\ \A n \in Nat : Covers(run, n) => Covers(c, n)
          /\ \A n \in Nat, k \in SUBSET Nat : Linked(run, n, k) => Linked(c, n, k)
      BY <1>2, <3>1, ClosedFacts
    <3>3. q = c
      BY <2>2
    <3> HIDE DEF c, q
    <3>4. ReadBy(c) = ReadBy(run)
      BY <3>2 DEF ReadBy
    <3>5. Faithful(run) => Faithful(c)
      BY <3>4 DEF Faithful
    <3> QED BY <1>2, <1>3, <3>2, <3>3, <3>5
  <2> QED BY <2>1, <2>2
<1> HIDE DEF q
<1>5. \/ Ends
      \/ /\ run' = q /\ kind' \in Kinds /\ pc' \in {"flush", "zip"}
         /\ kind' = "quick" => "final" = "quick"
         /\ pc' # "zip" => kind' = "none"
  BY <1>1, SaveGoes DEF Kinds
<1> QED BY <1>1, <1>4, <1>5, QuietlySettled

\* engine.flush raises out of the finally, which ends the command.
LEMMA FlushFailsStep == IInv /\ FlushFails => IInv'
<1> SUFFICES ASSUME IInv, FlushFails PROVE IInv'
  OBVIOUS
<1>1. Ends /\ UNCHANGED <<skip, disk, damage>>
  BY DEF FlushFails
<1> QED BY <1>1, QuietlySettled

-----------------------------------------------------------------------------
(* The command starts.                                                     *)

\* A library without windows has no tokens.
LEMMA NothingRecorded == OffsetIn(<<>>, 1) = 0
<1> DEFINE w == <<>>
<1>1. w \in Seq(Nat) /\ Len(w) = 0
  BY EmptySeq
<1> HIDE DEF w
<1>2. PICK c \in [0..Len(w) -> Nat] : Sums(c, w)
  BY <1>1, SumsExist
<1>3. 1 \in 1..(Len(w) + 1) /\ 1 - 1 = 0
  BY <1>1
<1>4. OffsetIn(w, 1) = c[1 - 1]
  BY <1>1, <1>2, <1>3, OffsetIs
<1>5. OffsetIn(w, 1) = 0
  BY <1>2, <1>3, <1>4 DEF Sums
<1> QED BY <1>5 DEF w

\* The engine that restore_engine makes stands where the library ends, and has
\* the checkpoints of the library.
LEMMA RestoredFacts ==
  ASSUME LibraryInv
  PROVE  /\ Restored \in Engines /\ Fits(Restored)
         /\ TokensAreSafe => Faithful(Restored) /\ Covers(Restored, Recorded) /\ OnCourse(Restored)
         /\ CheckpointsAreSafe => Linked(Restored, Len(windows), ckpt)
<1> DEFINE n == Len(windows)
           s == [i \in 1..n |-> SavedWindow(i)]
           C == IF HasCheckpoints THEN 1..n ELSE {}
<1>1. /\ tokens \in Seq(Tok) /\ windows \in Seq(0..WindowSize) /\ windows \in Seq(Nat)
      /\ n \in Nat /\ Recorded \in Nat /\ Len(tokens) \in Nat /\ ckpt \in SUBSET Nat
  <2>1. tokens \in Seq(Tok) /\ windows \in Seq(0..WindowSize)
    BY DEF LibraryInv, DiskTypeOK
  <2>2. windows \in Seq(Nat)
    BY <2>1, PrefillAssumption, SeqMonotonic
  <2> QED BY <2>1, <2>2, RecordedFacts, LenProperties
<1>2. s \in [1..n -> Seq(Tok)] /\ \A i \in 1..n : Len(s[i]) <= WindowSize
  BY <1>1, SavedWindowFacts
<1>3. TokensAreSafe => s \in Seq(Seq(Nat)) /\ FlattenSeq(s) = Document(1, Recorded)
  <2> SUFFICES ASSUME TokensAreSafe PROVE s \in Seq(Seq(Nat)) /\ FlattenSeq(s) = Document(1, Recorded)
    OBVIOUS
  <2>1. tokens = Document(1, Len(tokens)) /\ Len(tokens) >= Offset(Len(windows) + 1)
    BY DEF LibraryInv, Recorded
  <2> QED BY <1>1, <2>1, RestoredReads DEF Recorded
<1>4. C \in SUBSET (Nat \ {0}) /\ (CheckpointsAreSafe /\ n # 0 => n \in C)
  <2>1. C \in SUBSET (Nat \ {0})
    BY <1>1
  <2>2. ASSUME CheckpointsAreSafe, n # 0 PROVE n \in C
    <3>1. "zip" \notin torn /\ 1..n \subseteq ckpt
      BY <2>2 DEF LibraryInv
    <3>2. 1 \in 1..n /\ n \in 1..n
      BY <1>1, <2>2
    <3>3. HasCheckpoints
      BY <3>1, <3>2 DEF HasCheckpoints
    <3> QED BY <3>2, <3>3
  <2> QED BY <2>1, <2>2
<1>5. Restored = [Idle EXCEPT !.archive = s, !.ckpts = C, !.pos = Recorded, !.saved = n]
  BY DEF Restored, Recorded
<1> HIDE DEF s, C
<1>6. s \in Seq(Seq(Tok)) /\ Len(s) = n
  <2>1. s \in Seq(Seq(Tok))
    BY <1>1, <1>2, SeqDef
  <2> QED BY <1>1, <1>2, <2>1, LenProperties
<1> DEFINE r == Restored
<1>7. /\ r \in Engines /\ r.archive = s /\ r.ckpts = C /\ r.pos = Recorded /\ r.saved = n
      /\ r.cur = <<>>
  <2>1. Idle \in Engines /\ Idle.cur = <<>>
    BY IdleFacts
  <2> HIDE DEF n
  <2> QED BY <1>1, <1>4, <1>5, <1>6, <2>1 DEF Engines
<1> HIDE DEF r, n
<1>8. Fits(r)
  BY <1>2, <1>6, <1>7, EmptySeq, PrefillAssumption DEF Fits
<1>9. ASSUME TokensAreSafe PROVE Faithful(r) /\ Covers(r, Recorded) /\ OnCourse(r)
  <2>1. Archived(r) = Document(1, Recorded)
    BY <1>3, <1>7, <1>9 DEF Archived
  <2>2. Document(1, Recorded) \in Seq(Nat) /\ Len(Document(1, Recorded)) = Recorded
    BY <1>1, BeginningFacts
  <2>3. ReadBy(r) = Document(1, Recorded)
    BY <1>7, <2>1, <2>2, ConcatEmptySeq DEF ReadBy
  <2> QED BY <1>1, <1>7, <2>1, <2>2, <2>3 DEF Faithful, Covers, OnCourse
<1>10. ASSUME CheckpointsAreSafe PROVE Linked(r, n, ckpt)
  <2>1. 1..n \subseteq ckpt
    BY <1>10 DEF LibraryInv, n
  <2>2. s # <<>> => n # 0
    BY <1>6, EmptySeq
  <2>3. n \in Nat
    BY <1>1
  <2>4. (n + 1)..n = {}
    BY <2>3
  <2> QED BY <1>4, <1>6, <1>7, <1>10, <2>1, <2>2, <2>3, <2>4 DEF Linked
<1> QED BY <1>7, <1>8, <1>9, <1>10 DEF r, n

\* A new command, or a resumed one.
LEMMA StartStep ==
  ASSUME IInv, NEW resume \in BOOLEAN, NEW phases, Start(resume, phases)
  PROVE  IInv'
<1> DEFINE e == IF resume THEN Restored ELSE Idle
           b == "mode7" \in phases
           r == [e EXCEPT !.mode7 = b]
<1>1. /\ skip' = skip /\ UNCHANGED disk
      /\ damage' = IF resume \/ windows = <<>> THEN damage ELSE damage \cup {"fresh"}
      /\ \/ Save("phases", r) \/ Save("pages", r)
         \/ pc' = "loop" /\ kind' = "none" /\ run' = r
  BY DEF Start
<1>2. /\ tokens' = tokens /\ windows' = windows /\ ckpt' = ckpt /\ manifest' = manifest /\ torn' = torn
  BY <1>1 DEF disk
<1>3. LibraryInv
  BY InvFacts
<1>4. /\ TokensAreSafe' => TokensAreSafe /\ (resume \/ windows = <<>>)
      /\ CheckpointsAreSafe' => CheckpointsAreSafe /\ (resume \/ windows = <<>>)
  BY <1>1 DEF TokensAreSafe, CheckpointsAreSafe
<1>5. Recorded' = Recorded
  BY <1>2 DEF Recorded, Offset
<1>6. LibraryInv'
  BY <1>1, <1>2, <1>3, <1>4, <1>5 DEF LibraryInv, DiskTypeOK
<1>7. /\ e \in Engines /\ Fits(e)
      /\ TokensAreSafe' => Faithful(e) /\ Covers(e, Recorded) /\ OnCourse(e)
      /\ CheckpointsAreSafe' => Linked(e, Len(windows), ckpt)
  <2>1. CASE resume
    BY <1>3, <1>4, <2>1, RestoredFacts
  <2>2. CASE ~resume
    <3>1. e = Idle
      BY <2>2
    <3> HIDE DEF e
    <3>2. windows = <<>> => Recorded = 0 /\ Len(windows) = 0
      BY NothingRecorded, OffsetsOf, EmptySeq DEF Recorded
    <3>3. windows = <<>> => Covers(e, Recorded)
      BY <3>1, <3>2, IdleFacts DEF Covers
    <3>4. windows = <<>> => Linked(e, Len(windows), ckpt)
      <4>1. Len(Idle.archive) = 0 /\ 1..0 = {} /\ (0 + 1)..0 = {}
        BY IdleFacts, EmptySeq
      <4> QED BY <3>1, <3>2, <4>1, IdleFacts DEF Linked
    <3> QED BY <1>4, <2>2, <3>1, <3>3, <3>4, IdleFacts
  <2> QED BY <2>1, <2>2
<1> HIDE DEF e
<1>8. /\ r \in Engines /\ r.archive = e.archive /\ r.cur = e.cur /\ r.ckpts = e.ckpts
      /\ r.saved = e.saved /\ r.pos = e.pos
  <2>1. b \in BOOLEAN
    OBVIOUS
  <2> HIDE DEF b
  <2> QED BY <1>7, <2>1 DEF Engines
<1> HIDE DEF r
<1>9. /\ r \in Engines /\ Fits(r)
      /\ TokensAreSafe' => Faithful(r) /\ Covers(r, Recorded) /\ OnCourse(r)
      /\ CheckpointsAreSafe' => Linked(r, Len(windows), ckpt)
  <2>1. /\ Fits(e) => Fits(r)
        /\ Faithful(e) => Faithful(r)
        /\ OnCourse(e) => OnCourse(r)
        /\ Covers(e, Recorded) => Covers(r, Recorded)
        /\ Linked(e, Len(windows), ckpt) => Linked(r, Len(windows), ckpt)
    BY <1>8, SameBooks
  <2> QED BY <1>7, <1>8, <2>1
<1>10. \/ Ends
       \/ /\ run' = r /\ kind' \in Kinds /\ pc' \in {"loop", "flush", "zip"}
          /\ pc' # "zip" => kind' = "none"
  <2>1. CASE Save("phases", r)
    BY <2>1, SaveGoes DEF Kinds
  <2>2. CASE Save("pages", r)
    BY <2>2, SaveGoes DEF Kinds
  <2>3. CASE pc' = "loop" /\ kind' = "none" /\ run' = r
    BY <2>3 DEF Kinds
  <2> QED BY <1>1, <2>1, <2>2, <2>3
<1> QED BY <1>2, <1>5, <1>6, <1>9, <1>10, Settled

-----------------------------------------------------------------------------
(* The files of a save.                                                    *)

\* A beginning of a beginning of the document is one.
LEMMA ArchivedIsABeginning ==
  ASSUME NEW r \in Engines, Faithful(r)
  PROVE  Archived(r) = Document(1, Len(Archived(r)))
<1> DEFINE a == Archived(r)
           d == ReadBy(r)
           u == Document(1, Len(a))
<1>1. /\ a \in Seq(Tok) /\ Len(a) \in Nat /\ d \in Seq(Tok) /\ r.cur \in Seq(Tok)
      /\ Len(r.cur) \in Nat /\ Len(d) = Len(a) + Len(r.cur) /\ d = a \o r.cur
  BY ArchivedFacts DEF ReadBy
<1>2. d = Document(1, Len(d))
  BY DEF Faithful
<1> HIDE DEF a, d
<1>3. \A n \in 1..Len(d) : d[n] = n
  <2>1. Len(d) \in Nat
    BY <1>1
  <2> QED BY <1>2, <2>1, BeginningFacts
<1>4. u \in Seq(Nat) /\ Len(u) = Len(a) /\ \A n \in 1..Len(a) : u[n] = n
  BY <1>1, BeginningFacts
<1> HIDE DEF u
<1>5. ASSUME NEW n \in 1..Len(a) PROVE a[n] = u[n]
  <2>1. n \in 1..(Len(a) + Len(r.cur)) /\ n <= Len(a)
    BY <1>1
  <2>2. (a \o r.cur)[n] = a[n]
    BY <1>1, <2>1, ConcatProperties
  <2> QED BY <1>1, <1>3, <1>4, <2>1, <2>2
<1>6. a \in Seq(Nat)
  <2>1. Tok \subseteq Nat
    BY PrefillAssumption DEF Tok
  <2> QED BY <1>1, <2>1, SeqMonotonic
<1>7. a = u
  BY <1>4, <1>5, <1>6, SeqEqual
<1> QED BY <1>7 DEF a, u

\* A save goes on to its next file.
LEMMA SaveProceeds ==
  ASSUME IInv, LibraryInv', run' = run, kind' = kind, pc # "down",
         pc' \in {"mode7", "tokens", "windows", "manifest"},
         TokensAreSafe' => TokensAreSafe /\ Covers(run, Recorded'),
         TokensAreSafe' /\ pc' \in {"windows", "manifest"} => tokens' = Archived(run),
         CheckpointsAreSafe' => /\ CheckpointsAreSafe
                                /\ Len(windows') <= Len(run.archive)
                                /\ 1..Len(run.archive) \subseteq ckpt'
  PROVE  IInv'
<1>1. /\ LibraryInv /\ run \in Engines /\ Fits(run) /\ kind \in Kinds
      /\ TokensAreSafe => Faithful(run)
      /\ TokensAreSafe /\ kind = "quick" => OnCourse(run)
      /\ CheckpointsAreSafe => Linked(run, Len(windows), ckpt)
  BY InvFacts
<1>2. ASSUME CheckpointsAreSafe' PROVE Linked(run, Len(windows'), ckpt')
  <2>1. Linked(run, Len(windows), ckpt)
    BY <1>1, <1>2
  <2>2. run.saved \in Nat /\ Len(run.archive) \in Nat
    BY <1>1, ArchivedFacts DEF Engines
  <2>3. 1..run.saved \subseteq 1..Len(run.archive)
    BY <2>1, <2>2 DEF Linked
  <2> QED BY <1>2, <2>1, <2>3 DEF Linked
<1>3. EngineInv'
  BY <1>1, <1>2 DEF EngineInv
<1>4. SavingInv'
  BY DEF SavingInv
<1> QED BY <1>3, <1>4 DEF IInv

\* Whatever the kind of the save, the archive of checkpoints is complete once
\* the checkpoints of the new windows are behind those in the file.
LEMMA NewAndKept ==
  ASSUME run \in Engines, Linked(run, Len(windows), ckpt)
  PROVE  1..Len(run.archive) \subseteq Kept \cup New
<1>1. run.saved \in Nat /\ Len(run.archive) \in Nat /\ 1..run.saved \subseteq ckpt
  BY ArchivedFacts DEF Linked, Engines
<1> SUFFICES ASSUME NEW i \in 1..Len(run.archive) PROVE i \in Kept \cup New
  OBVIOUS
<1>2. CASE kind = "pages" \/ run.saved = 0
  <2>1. AppendFrom = 0
    BY <1>2 DEF AppendFrom
  <2>2. i \in (0 + 1)..Len(run.archive)
    BY <1>1
  <2> QED BY <2>1, <2>2 DEF New, LastWindow
<1>3. CASE kind # "pages" /\ run.saved # 0
  <2>1. AppendFrom = run.saved /\ Kept = ckpt
    BY <1>3 DEF AppendFrom, Kept
  <2>2. CASE i <= run.saved
    BY <1>1, <2>1, <2>2
  <2>3. CASE ~(i <= run.saved)
    BY <1>1, <2>1, <2>3 DEF New, LastWindow
  <2> QED BY <2>2, <2>3
<1> QED BY <1>2, <1>3

\* The save writes the checkpoints archive.
LEMMA WriteCheckpointsStep == IInv /\ WriteCheckpoints => IInv'
<1> SUFFICES ASSUME IInv, WriteCheckpoints PROVE IInv'
  OBVIOUS
<1>1. /\ pc = "zip" /\ pc' \in {"mode7", "tokens"} /\ run' = run /\ kind' = kind
      /\ skip' = skip /\ tokens' = tokens /\ windows' = windows /\ manifest' = manifest
      /\ damage' = damage
      /\ IF Skips THEN UNCHANGED <<ckpt, torn>>
         ELSE New \subseteq run.ckpts /\ ckpt' = Kept \cup New /\ torn' = torn \ {"zip"}
  BY DEF WriteCheckpoints
<1>2. /\ LibraryInv /\ run \in Engines
      /\ TokensAreSafe => Covers(run, Recorded)
      /\ CheckpointsAreSafe => Linked(run, Len(windows), ckpt)
  BY <1>1, InvFacts
<1>3. /\ Recorded' = Recorded
      /\ (TokensAreSafe' <=> TokensAreSafe) /\ (CheckpointsAreSafe' <=> CheckpointsAreSafe)
  BY <1>1 DEF Recorded, Offset, TokensAreSafe, CheckpointsAreSafe
<1>4. ckpt' \subseteq Nat \ {0} /\ torn' \subseteq torn
  <2>1. ckpt \subseteq Nat \ {0} /\ run.ckpts \subseteq Nat \ {0}
    BY <1>2 DEF LibraryInv, DiskTypeOK, Engines
  <2> QED BY <1>1, <2>1 DEF Kept
<1>5. ASSUME CheckpointsAreSafe
      PROVE  /\ Len(windows') <= Len(run.archive) /\ 1..Len(run.archive) \subseteq ckpt'
             /\ 1..Len(windows') \subseteq ckpt' /\ "zip" \notin torn'
  <2>1. ~Skips
    BY <1>5 DEF CheckpointsAreSafe, Skips
  <2>2. Linked(run, Len(windows), ckpt)
    BY <1>2, <1>5
  <2>3. 1..Len(run.archive) \subseteq ckpt'
    BY <1>1, <1>2, <2>1, <2>2, NewAndKept
  <2>4. Len(windows) \in Nat /\ Len(run.archive) \in Nat /\ Len(windows) <= Len(run.archive)
    BY <1>2, <2>2, RecordedFacts, ArchivedFacts DEF Linked
  <2>5. 1..Len(windows) \subseteq 1..Len(run.archive)
    BY <2>4
  <2> QED BY <1>1, <2>1, <2>3, <2>4, <2>5
<1>6. LibraryInv'
  BY <1>1, <1>2, <1>3, <1>4, <1>5 DEF LibraryInv, DiskTypeOK
<1> QED BY <1>1, <1>2, <1>3, <1>5, <1>6, SaveProceeds

\* The save may calibrate the library.
LEMMA CalibrateStep == IInv /\ Calibrate => IInv'
<1> SUFFICES ASSUME IInv, Calibrate PROVE IInv'
  OBVIOUS
<1>1. pc = "mode7" /\ pc' = "tokens" /\ run' = run /\ kind' = kind /\ UNCHANGED <<skip, disk, damage>>
  BY DEF Calibrate
<1>2. /\ LibraryInv /\ run \in Engines
      /\ TokensAreSafe => Covers(run, Recorded)
      /\ CheckpointsAreSafe => Linked(run, Len(windows), ckpt)
  BY <1>1, InvFacts
<1>3. /\ LibraryInv' /\ Recorded' = Recorded /\ windows' = windows /\ ckpt' = ckpt
      /\ (TokensAreSafe' <=> TokensAreSafe) /\ (CheckpointsAreSafe' <=> CheckpointsAreSafe)
  BY <1>1, <1>2, DiskUnchanged
<1>4. CheckpointsAreSafe => /\ Len(windows) <= Len(run.archive)
                            /\ 1..Len(run.archive) \subseteq ckpt
  BY <1>1, <1>2 DEF IInv, SavingInv, Linked
<1> QED BY <1>1, <1>2, <1>3, <1>4, SaveProceeds

\* The save writes the token files.
LEMMA WriteTokensStep == IInv /\ WriteTokens => IInv'
<1> SUFFICES ASSUME IInv, WriteTokens PROVE IInv'
  OBVIOUS
<1>1. /\ pc = "tokens" /\ pc' = "windows" /\ run' = run /\ kind' = kind
      /\ skip' = skip /\ tokens' = Archived(run) /\ windows' = windows /\ ckpt' = ckpt
      /\ manifest' = manifest /\ torn' = torn /\ damage' = damage
  BY DEF WriteTokens, Archived
<1>2. /\ LibraryInv /\ run \in Engines
      /\ TokensAreSafe => Faithful(run) /\ Covers(run, Recorded)
      /\ CheckpointsAreSafe => Linked(run, Len(windows), ckpt)
  BY <1>1, InvFacts
<1>3. /\ Recorded' = Recorded
      /\ (TokensAreSafe' <=> TokensAreSafe) /\ (CheckpointsAreSafe' <=> CheckpointsAreSafe)
  BY <1>1 DEF Recorded, Offset, TokensAreSafe, CheckpointsAreSafe
<1>4. tokens' \in Seq(Tok)
  BY <1>1, <1>2, ArchivedFacts
<1>5. TokensAreSafe => tokens' = Document(1, Len(tokens')) /\ Len(tokens') >= Recorded
  BY <1>1, <1>2, ArchivedIsABeginning DEF Covers
<1>6. LibraryInv'
  BY <1>1, <1>2, <1>3, <1>4, <1>5 DEF LibraryInv, DiskTypeOK
<1>7. CheckpointsAreSafe => /\ Len(windows) <= Len(run.archive)
                            /\ 1..Len(run.archive) \subseteq ckpt
  BY <1>1, <1>2 DEF IInv, SavingInv, Linked
<1> QED BY <1>1, <1>2, <1>3, <1>6, <1>7, SaveProceeds

\* The save writes the list of windows.
LEMMA WriteWindowsStep == IInv /\ WriteWindows => IInv'
<1> SUFFICES ASSUME IInv, WriteWindows PROVE IInv'
  OBVIOUS
<1> DEFINE n == Len(run.archive)
           w == [i \in 1..n |-> Len(run.archive[i])]
<1>1. /\ pc = "windows" /\ pc' = "manifest" /\ run' = run /\ kind' = kind
      /\ skip' = skip /\ tokens' = tokens /\ windows' = w /\ ckpt' = ckpt
      /\ manifest' = manifest /\ torn' = torn \ {"windows"} /\ damage' = damage
  BY DEF WriteWindows, LastWindow
<1>2. LibraryInv /\ run \in Engines /\ Fits(run)
  BY InvFacts
<1>3. (TokensAreSafe' <=> TokensAreSafe) /\ (CheckpointsAreSafe' <=> CheckpointsAreSafe)
  BY <1>1 DEF TokensAreSafe, CheckpointsAreSafe
<1>4. run.archive \in Seq(Seq(Tok)) /\ n \in Nat /\ Archived(run) \in Seq(Tok) /\ Len(Archived(run)) \in Nat
  BY <1>2, ArchivedFacts
<1>5. \A i \in 1..n : Len(run.archive[i]) \in 0..WindowSize
  <2> SUFFICES ASSUME NEW i \in 1..n PROVE Len(run.archive[i]) \in 0..WindowSize
    OBVIOUS
  <2>1. run.archive[i] \in Seq(Tok)
    BY <1>4, ElementOfSeq
  <2>2. Len(run.archive[i]) \in Nat /\ Len(run.archive[i]) <= WindowSize
    BY <1>2, <2>1, LenProperties DEF Fits
  <2> QED BY <2>2, PrefillAssumption
<1>6. w \in Seq(0..WindowSize) /\ w \in Seq(Nat) /\ Len(w) = n
  <2>1. w \in [1..n -> 0..WindowSize]
    BY <1>5
  <2>2. \A i \in 1..n : w[i] = Len(run.archive[i])
    OBVIOUS
  <2>n. n \in Nat
    BY <1>4
  <2> HIDE DEF w, n
  <2>3. w \in Seq(0..WindowSize)
    BY <2>n, <2>1, SeqDef
  <2>4. Len(w) = n
    BY <1>4, <2>1, <2>3, LenProperties
  <2>5. w \in Seq(Nat)
    BY <2>3, PrefillAssumption, SeqMonotonic
  <2> QED BY <2>3, <2>4, <2>5
<1>7. \A i \in 1..n : w[i] = Len(run.archive[i])
  OBVIOUS
<1> HIDE DEF w
<1>8. Recorded' = Len(Archived(run))
  <2>1. Recorded' = OffsetIn(w, Len(w) + 1)
    BY <1>1 DEF Recorded, Offset, OffsetIn, Offsets
  <2>2. OffsetIn(w, Len(w) + 1) = Len(FlattenSeq(run.archive))
    BY <1>4, <1>6, <1>7, OffsetOfLengths
  <2> QED BY <2>1, <2>2 DEF Archived
<1>9. TokensAreSafe => tokens = Archived(run)
  BY <1>1 DEF IInv, SavingInv
<1>10. CheckpointsAreSafe => 1..n \subseteq ckpt
  BY <1>1 DEF IInv, SavingInv
<1>11. LibraryInv'
  BY <1>1, <1>2, <1>3, <1>4, <1>6, <1>8, <1>9, <1>10 DEF LibraryInv, DiskTypeOK
<1>12. Covers(run, Recorded')
  BY <1>4, <1>8 DEF Covers
<1> QED BY <1>1, <1>3, <1>4, <1>6, <1>9, <1>10, <1>11, <1>12, SaveProceeds

\* The manifest is the last file; after a periodic save the checkpoints that
\* were written leave the memory, but for the last.
LEMMA WriteManifestStep == IInv /\ WriteManifest => IInv'
<1> SUFFICES ASSUME IInv, WriteManifest PROVE IInv'
  OBVIOUS
<1> DEFINE n == Len(run.archive)
           C == run.ckpts \ Evicted
           r == [run EXCEPT !.ckpts = C, !.saved = n]
<1>1. /\ pc = "manifest" /\ skip' = skip /\ tokens' = tokens /\ windows' = windows /\ ckpt' = ckpt
      /\ torn' = torn \ {"manifest"} /\ damage' = damage
      /\ manifest' = [total |-> IF IsComplete THEN NumTokens ELSE Len(Archived(run)), num |-> n]
      /\ IF kind = "quick" THEN GoOn(r) ELSE Ends
  BY DEF WriteManifest, LastWindow, Archived
<1>2. /\ LibraryInv /\ run \in Engines /\ Fits(run)
      /\ TokensAreSafe => Faithful(run) /\ Covers(run, Recorded)
      /\ TokensAreSafe /\ kind = "quick" => OnCourse(run)
      /\ CheckpointsAreSafe => Linked(run, Len(windows), ckpt)
  BY <1>1, InvFacts
<1>3. /\ Recorded' = Recorded
      /\ (TokensAreSafe' <=> TokensAreSafe) /\ (CheckpointsAreSafe' <=> CheckpointsAreSafe)
  BY <1>1 DEF Recorded, Offset, TokensAreSafe, CheckpointsAreSafe
<1>4. n \in Nat /\ Len(Archived(run)) \in Nat /\ run.saved \in Nat /\ run.ckpts \in SUBSET (Nat \ {0})
  BY <1>2, ArchivedFacts DEF Engines
<1>5. manifest' \in [total : Nat, num : Nat]
  BY <1>1, <1>4, PrefillAssumption
<1>6. LibraryInv'
  BY <1>1, <1>2, <1>3, <1>5 DEF LibraryInv, DiskTypeOK
<1>7. /\ r \in Engines /\ r.archive = run.archive /\ r.cur = run.cur /\ r.pos = run.pos
      /\ r.ckpts = C /\ r.saved = n
  <2>1. C \in SUBSET (Nat \ {0})
    BY <1>4
  <2> HIDE DEF C, n
  <2> QED BY <1>2, <1>4, <2>1 DEF Engines
<1> HIDE DEF r
<1>8. /\ Fits(r) /\ (Faithful(run) => Faithful(r)) /\ (OnCourse(run) => OnCourse(r))
      /\ Covers(run, Recorded) => Covers(r, Recorded)
  BY <1>2, <1>7 DEF Fits, Faithful, OnCourse, Covers, ReadBy, Archived
<1>9. ASSUME CheckpointsAreSafe PROVE Linked(r, Len(windows), ckpt)
  <2>1. 1..n \subseteq ckpt
    BY <1>1, <1>9 DEF IInv, SavingInv
  <2>2. Linked(run, Len(windows), ckpt)
    BY <1>2, <1>9
  <2>3. run.archive # <<>> => n \in C
    <3>1. n \notin Evicted
      BY <1>4 DEF Evicted, LastWindow
    <3> QED BY <2>2, <3>1 DEF Linked
  <2>4. (n + 1)..n = {}
    BY <1>4
  <2>5. Len(windows) <= n
    BY <2>2 DEF Linked
  <2> HIDE DEF C
  <2> QED BY <1>4, <1>7, <2>1, <2>3, <2>4, <2>5 DEF Linked
<1>10. \/ Ends
       \/ /\ kind = "quick" /\ run' = r /\ kind' \in Kinds /\ pc' \in {"loop", "flush", "zip"}
          /\ pc' # "zip" => kind' = "none"
  <2>1. CASE kind # "quick"
    BY <1>1, <2>1
  <2>2. CASE kind = "quick"
    <3>1. CASE Save("interrupted", r)
      BY <2>2, <3>1, SaveGoes DEF Kinds
    <3>2. CASE pc' = "loop" /\ kind' = "none" /\ run' = r
      BY <2>2, <3>2 DEF Kinds
    <3> QED BY <1>1, <2>2, <3>1, <3>2 DEF GoOn
  <2> QED BY <2>1, <2>2
<1> QED BY <1>1, <1>2, <1>3, <1>6, <1>7, <1>8, <1>9, <1>10, Settled
-----------------------------------------------------------------------------
(* A step of a save is cut.                                                *)

\* What is left of the library: nothing is destroyed but what damage says.
LEMMA CutFacts ==
  ASSUME IInv, Saving, NEW crashed \in BOOLEAN, Cut(crashed), skip' = skip
  PROVE  /\ LibraryInv' /\ Recorded' \in Nat /\ Len(windows') \in Nat
         /\ TokensAreSafe' => TokensAreSafe /\ Recorded' <= Recorded
         /\ CheckpointsAreSafe' => /\ CheckpointsAreSafe /\ Len(windows') <= Len(windows)
                                   /\ kind # "pages" => 1..run.saved \subseteq ckpt'
<1>1. /\ LibraryInv /\ run \in Engines /\ Recorded \in Nat /\ Len(windows) \in Nat
      /\ CheckpointsAreSafe => Linked(run, Len(windows), ckpt)
  BY InvFacts, RecordedFacts DEF Saving
<1>2. /\ DiskTypeOK
      /\ TokensAreSafe => tokens = Document(1, Len(tokens)) /\ Len(tokens) >= Recorded
      /\ CheckpointsAreSafe => "zip" \notin torn /\ 1..Len(windows) \subseteq ckpt
  BY <1>1 DEF LibraryInv
<1>3. CheckpointsAreSafe => 1..run.saved \subseteq ckpt
  BY <1>1 DEF Linked
<1>4. windows' = windows => Recorded' = Recorded
  BY DEF Recorded, Offset
<1>5. CASE UNCHANGED <<disk, damage>>
  <2>1. UNCHANGED <<skip, disk, damage>>
    BY <1>5
  <2>2. /\ LibraryInv' /\ Recorded' = Recorded /\ windows' = windows /\ ckpt' = ckpt
        /\ (TokensAreSafe' <=> TokensAreSafe) /\ (CheckpointsAreSafe' <=> CheckpointsAreSafe)
    BY <1>1, <2>1, DiskUnchanged
  <2> QED BY <1>1, <1>3, <2>2
<1>6. CASE /\ pc = "zip" /\ ~Skips
           /\ IF crashed THEN ckpt' = {} /\ torn' = torn \cup {"zip"}
              ELSE /\ \E j \in AppendFrom..LastWindow :
                        /\ (AppendFrom + 1)..j \subseteq run.ckpts
                        /\ ckpt' = Kept \cup ((AppendFrom + 1)..j)
                   /\ torn' = torn \ {"zip"}
           /\ damage' = IF crashed \/ (AppendFrom = 0 /\ windows # <<>>)
                          THEN damage \cup {"zip"} ELSE damage
           /\ UNCHANGED <<tokens, windows, manifest>>
  <2>1. Recorded' = Recorded /\ windows' = windows /\ tokens' = tokens /\ manifest' = manifest
    BY <1>4, <1>6
  <2>2. (TokensAreSafe' <=> TokensAreSafe) /\ (CheckpointsAreSafe' => CheckpointsAreSafe)
    BY <1>6 DEF TokensAreSafe, CheckpointsAreSafe
  <2>3. ckpt' \subseteq Nat \ {0}
    <3>1. ckpt \subseteq Nat \ {0} /\ run.ckpts \subseteq Nat \ {0}
      BY <1>1, <1>2 DEF DiskTypeOK, Engines
    <3> QED BY <1>6, <3>1 DEF Kept
  <2>4. DiskTypeOK'
    BY <1>2, <1>6, <2>1, <2>3 DEF DiskTypeOK
  <2>5. ASSUME CheckpointsAreSafe'
        PROVE  /\ "zip" \notin torn' /\ 1..Len(windows) \subseteq ckpt'
               /\ kind # "pages" => 1..run.saved \subseteq ckpt'
    <3>1. ~crashed /\ (AppendFrom # 0 \/ windows = <<>>)
      BY <1>6, <2>5 DEF CheckpointsAreSafe
    <3>2. torn' = torn \ {"zip"} /\ Kept \subseteq ckpt'
      BY <1>6, <3>1
    <3>3. CASE AppendFrom # 0
      <4>1. ckpt \subseteq ckpt'
        BY <3>2, <3>3 DEF Kept
      <4> QED BY <1>2, <1>3, <2>2, <2>5, <3>2, <4>1
    <3>4. CASE AppendFrom = 0
      <4>1. Len(windows) = 0
        BY <3>1, <3>4, EmptySeq
      <4>2. 1..0 = {}
        OBVIOUS
      <4>3. kind # "pages" => run.saved = 0
        BY <3>4 DEF AppendFrom
      <4> QED BY <3>2, <4>1, <4>2, <4>3
    <3> QED BY <3>3, <3>4
  <2>6. LibraryInv'
    BY <1>2, <2>1, <2>2, <2>4, <2>5 DEF LibraryInv
  <2> QED BY <1>1, <2>1, <2>2, <2>5, <2>6
<1>7. CASE /\ pc = "tokens"
           /\ \E n \in 0..(Len(FlattenSeq(run.archive)) - 1) :
                tokens' = SubSeq(FlattenSeq(run.archive), 1, n)
           /\ damage' = damage \cup {"tokens"}
           /\ UNCHANGED <<windows, ckpt, manifest, torn>>
  <2>1. Recorded' = Recorded
    BY <1>4, <1>7
  <2>2. ~TokensAreSafe' /\ (CheckpointsAreSafe' <=> CheckpointsAreSafe)
    BY <1>7 DEF TokensAreSafe, CheckpointsAreSafe
  <2>3. tokens' \in Seq(Tok)
    <3> DEFINE a == Archived(run)
    <3>1. a \in Seq(Tok) /\ Len(a) \in Nat
      BY <1>1, ArchivedFacts
    <3>2. PICK n \in 0..(Len(a) - 1) : tokens' = SubSeq(a, 1, n)
      BY <1>7 DEF Archived
    <3> HIDE DEF a
    <3>3. n \in Nat /\ n <= Len(a)
      BY <3>1
    <3>4. ASSUME NEW i \in 1..n PROVE a[i] \in Tok
      <4>1. i \in 1..Len(a)
        BY <3>1, <3>3
      <4> QED BY <3>1, <4>1, ElementOfSeq
    <3> QED BY <3>2, <3>3, <3>4, SubSeqProperties
  <2>4. DiskTypeOK'
    BY <1>2, <1>7, <2>3 DEF DiskTypeOK
  <2>5. LibraryInv'
    BY <1>2, <1>7, <2>1, <2>2, <2>4 DEF LibraryInv
  <2> QED BY <1>1, <1>3, <1>7, <2>1, <2>2, <2>5
<1>8. CASE /\ pc \in {"windows", "manifest"}
           /\ windows' = IF pc = "windows" THEN <<>> ELSE windows
           /\ manifest' = IF pc = "manifest" THEN [total |-> 0, num |-> 0] ELSE manifest
           /\ torn' = torn \cup {pc}
           /\ damage' = damage \cup {pc}
           /\ UNCHANGED <<tokens, ckpt>>
  <2>1. (TokensAreSafe' <=> TokensAreSafe) /\ (CheckpointsAreSafe' <=> CheckpointsAreSafe)
    BY <1>8 DEF TokensAreSafe, CheckpointsAreSafe
  <2>2. /\ Recorded' \in Nat /\ Recorded' <= Recorded
        /\ Len(windows') \in Nat /\ Len(windows') <= Len(windows)
    <3>1. CASE windows' = windows
      BY <1>1, <1>4, <3>1
    <3>2. CASE windows' = <<>>
      <4>1. Len(windows') = 0 /\ 0 + 1 = 1
        BY <3>2, EmptySeq
      <4>2. Recorded' = OffsetIn(<<>>, 1)
        BY <3>2, <4>1 DEF Recorded, Offset, OffsetIn, Offsets
      <4> QED BY <1>1, <4>1, <4>2, NothingRecorded
    <3> QED BY <1>8, <3>1, <3>2
  <2>3. DiskTypeOK'
    <3>1. windows' \in Seq(0..WindowSize) /\ manifest' \in [total : Nat, num : Nat]
      BY <1>2, <1>8, EmptySeq DEF DiskTypeOK
    <3> QED BY <1>2, <1>8, <3>1 DEF DiskTypeOK
  <2>4. 1..Len(windows') \subseteq 1..Len(windows)
    BY <1>1, <2>2
  <2>5. TokensAreSafe' => tokens' = Document(1, Len(tokens')) /\ Len(tokens') >= Recorded'
    <3>1. Len(tokens) \in Nat
      BY <1>2, LenProperties DEF DiskTypeOK
    <3> QED BY <1>1, <1>2, <1>8, <2>1, <2>2, <3>1
  <2>6. CheckpointsAreSafe' => "zip" \notin torn' /\ 1..Len(windows') \subseteq ckpt'
    BY <1>2, <1>8, <2>1, <2>4
  <2>7. LibraryInv'
    BY <2>3, <2>5, <2>6 DEF LibraryInv
  <2> QED BY <1>3, <1>8, <2>1, <2>2, <2>7
<1> QED BY <1>5, <1>6, <1>7, <1>8 DEF Cut

\* An exception in a save: a periodic one goes on in the finally of the loop,
\* any other ends the command.
LEMMA SaveFailsStep == IInv /\ SaveFails => IInv'
<1> SUFFICES ASSUME IInv, SaveFails PROVE IInv'
  OBVIOUS
<1> DEFINE r == run
<1>1. /\ Saving /\ Cut(FALSE) /\ skip' = skip /\ pc # "down"
      /\ \/ Ends
         \/ kind = "quick" /\ pc' = "flush" /\ kind' = "none" /\ run' = r
  BY DEF SaveFails, SaveRaises, Saving
<1>2. /\ LibraryInv' /\ Recorded' \in Nat /\ Len(windows') \in Nat
      /\ TokensAreSafe' => TokensAreSafe /\ Recorded' <= Recorded
      /\ CheckpointsAreSafe' => /\ CheckpointsAreSafe /\ Len(windows') <= Len(windows)
                                /\ kind # "pages" => 1..run.saved \subseteq ckpt'
  <2>1. FALSE \in BOOLEAN
    OBVIOUS
  <2> QED BY <1>1, <2>1, CutFacts
<1>3. /\ LibraryInv /\ r \in Engines /\ Fits(r)
      /\ TokensAreSafe => Faithful(r) /\ Covers(r, Recorded)
      /\ TokensAreSafe /\ kind = "quick" => OnCourse(r)
      /\ CheckpointsAreSafe => Linked(r, Len(windows), ckpt)
  BY <1>1, InvFacts
<1>4. Recorded \in Nat /\ Len(windows) \in Nat /\ Len(Archived(r)) \in Nat /\ Len(r.archive) \in Nat
  BY <1>3, RecordedFacts, ArchivedFacts
<1>5. TokensAreSafe' => Covers(r, Recorded')
  BY <1>2, <1>3, <1>4 DEF Covers
<1>6. CheckpointsAreSafe' /\ kind = "quick" => Linked(r, Len(windows'), ckpt')
  BY <1>2, <1>3, <1>4 DEF Linked
<1> HIDE DEF r
<1>7. "none" \in Kinds
  BY DEF Kinds
<1> QED BY <1>1, <1>2, <1>3, <1>5, <1>6, <1>7, Settled

\* The process ends.
LEMMA CrashStep == IInv /\ Crash => IInv'
<1> SUFFICES ASSUME IInv, Crash PROVE IInv'
  OBVIOUS
<1>1. /\ Ends /\ skip' = skip
      /\ IF Saving THEN Cut(TRUE) ELSE UNCHANGED <<disk, damage>>
  BY DEF Crash
<1>2. LibraryInv
  BY InvFacts
<1>3. LibraryInv'
  <2>1. CASE Saving
    <3>1. TRUE \in BOOLEAN
      OBVIOUS
    <3> QED BY <1>1, <2>1, <3>1, CutFacts
  <2>2. CASE ~Saving
    BY <1>1, <1>2, <2>2, DiskUnchanged
  <2> QED BY <2>1, <2>2
<1> DEFINE r == run
<1> HIDE DEF r
<1> QED BY <1>1, <1>3, Settled

-----------------------------------------------------------------------------
(* The theorems.                                                           *)

\* The invariant holds of a command that has not begun.
LEMMA InitInv == Init => IInv
<1> SUFFICES ASSUME Init PROVE IInv
  OBVIOUS
<1>1. /\ skip \in {"no", "export", "darkspace"} /\ tokens = <<>> /\ windows = <<>> /\ ckpt = {}
      /\ manifest = [total |-> 0, num |-> 0] /\ torn = {} /\ pc = "down" /\ kind = "none"
      /\ run = Idle /\ damage = {}
  BY DEF Init
<1>2. Len(windows) = 0 /\ Len(tokens) = 0 /\ 0 + 1 = 1 /\ 1..0 = {}
  BY <1>1, EmptySeq
<1>3. Recorded = 0
  <2>1. Recorded = OffsetIn(<<>>, 1)
    BY <1>1, <1>2, OffsetsOf DEF Recorded
  <2> QED BY <2>1, NothingRecorded
<1>4. tokens = Document(1, 0)
  <2>1. 0 \in Nat
    OBVIOUS
  <2>2. Document(1, 0) \in Seq(Nat) /\ Len(Document(1, 0)) = 0
    BY <2>1, BeginningFacts
  <2> QED BY <1>1, <2>2, EmptySeq
<1>5. DiskTypeOK
  BY <1>1, EmptySeq DEF DiskTypeOK
<1>6. LibraryInv
  BY <1>1, <1>2, <1>3, <1>4, <1>5 DEF LibraryInv
<1>7. EngineInv
  BY <1>1, IdleFacts DEF EngineInv, Kinds
<1>8. SavingInv
  BY <1>1 DEF SavingInv
<1> QED BY <1>6, <1>7, <1>8 DEF IInv

\* The invariant speaks of the variables only.
LEMMA StutterInv == IInv /\ UNCHANGED vars => IInv'
<1> SUFFICES ASSUME IInv, UNCHANGED vars PROVE IInv'
  OBVIOUS
<1>1. UNCHANGED <<skip, disk, damage>> /\ pc' = pc /\ kind' = kind /\ run' = run
  BY DEF vars
<1>2. LibraryInv
  BY InvFacts
<1>3. /\ LibraryInv' /\ Recorded' = Recorded /\ windows' = windows /\ ckpt' = ckpt
      /\ (TokensAreSafe' <=> TokensAreSafe) /\ (CheckpointsAreSafe' <=> CheckpointsAreSafe)
  BY <1>1, <1>2, DiskUnchanged
<1>4. EngineInv'
  BY <1>1, <1>3 DEF IInv, EngineInv
<1>5. SavingInv'
  BY <1>1, <1>3 DEF IInv, SavingInv, disk
<1> QED BY <1>3, <1>4, <1>5 DEF IInv

\* Every step keeps the invariant.
LEMMA NextInv == IInv /\ [Next]_vars => IInv'
<1> SUFFICES ASSUME IInv, [Next]_vars PROVE IInv'
  OBVIOUS
<1>1. CASE \E resume \in BOOLEAN, phases \in Phases : Start(resume, phases)
  BY <1>1, StartStep
<1>2. CASE Loop
  BY <1>2, ProcessStep, ProcessFailsStep, ProcessedStep, LoopEndsStep, FlushStep DEF Loop
<1>3. CASE Writes
  BY <1>3, WriteCheckpointsStep, CalibrateStep, WriteTokensStep, WriteWindowsStep,
     WriteManifestStep DEF Writes
<1>4. CASE SaveFails
  BY <1>4, SaveFailsStep
<1>5. CASE Faults
  BY <1>5, CtrlCStep, FlushFailsStep, CrashStep DEF Faults
<1>6. CASE UNCHANGED vars
  BY <1>6, StutterInv
<1> QED BY <1>1, <1>2, <1>3, <1>4, <1>5, <1>6 DEF Next

\* Every reachable state satisfies the inductive invariant: the library between
\* two writes, the engine, and what a save has written so far
\* (save_library, restore_engine, context_prefill_cmd).
THEOREM PrefillInvariance == Spec => []IInv
<1>1. Init => IInv
  BY InitInv
<1>2. IInv /\ [Next]_vars => IInv'
  BY NextInv
<1> QED BY <1>1, <1>2, PTL DEF Spec

\* However often the command is interrupted, fails, crashes and is resumed, the
\* windows in memory and in the library are the beginning of the document, each
\* token once and in order, unless a write of tokens.bin was cut or a library
\* overwritten.
THEOREM PrefillSkipsNothing == Spec => []NothingIsSkipped
<1>1. IInv => NothingIsSkipped
  <2> SUFFICES ASSUME IInv PROVE NothingIsSkipped
    OBVIOUS
  <2>1. TypeOK
    BY TypesOfInv
  <2>2. LibraryInv /\ EngineInv
    BY DEF IInv
  <2>3. ASSUME TokensAreSafe
        PROVE  LET done == FlattenSeq(run.archive) \o run.cur
               IN /\ done = Document(1, Len(done))
                  /\ pc \in {"loop", "processed"} => run.pos = Len(done)
                  /\ Len(tokens) >= Offset(Len(windows) + 1)
                  /\ tokens = Document(1, Len(tokens))
    <3>1. Faithful(run) /\ (pc \in {"loop", "processed"} => OnCourse(run))
      BY <2>2, <2>3 DEF EngineInv
    <3>2. tokens = Document(1, Len(tokens)) /\ Len(tokens) >= Offset(Len(windows) + 1)
      BY <2>2, <2>3 DEF LibraryInv, Recorded
    <3> QED BY <3>1, <3>2 DEF Faithful, OnCourse, ReadBy, Archived
  <2> QED BY <2>1, <2>3 DEF NothingIsSkipped
<1> QED BY <1>1, PrefillInvariance, PTL

\* A library whose archive of checkpoints was not cut can be restored at any
\* time, and the loop always has the checkpoint its next window goes on from,
\* although every periodic save takes checkpoints out of the memory.
THEOREM PrefillCanResume == Spec => []LibraryCanBeResumed
<1>1. IInv => LibraryCanBeResumed
  <2> SUFFICES ASSUME IInv, CheckpointsAreSafe
               PROVE  1..Len(windows) \subseteq ckpt /\ (pc = "loop" => Chained)
    BY DEF LibraryCanBeResumed, CheckpointsAreSafe
  <2>1. 1..Len(windows) \subseteq ckpt
    BY DEF IInv, LibraryInv
  <2>2. ASSUME pc = "loop" PROVE Chained
    <3>1. Linked(run, Len(windows), ckpt)
      BY <2>2, InvFacts
    <3>2. run.archive = <<>> => Len(run.archive) = 0
      BY EmptySeq
    <3> QED BY <3>1, <3>2 DEF Linked, Chained, LastWindow
  <2> QED BY <2>1, <2>2
<1> QED BY <1>1, PrefillInvariance, PTL

=============================================================================
