---------------------------- MODULE FoldingProofs ----------------------------
(***************************************************************************)
(* Folds over sequences, for the modules that describe a loop over a text  *)
(* by one.  The step of the fold is a function and not an operator, so     *)
(* that what is said here of every step can be used for each.  Induction   *)
(* is by the least number that something does not hold of.                 *)
(***************************************************************************)
EXTENDS Integers, SequencesExt, WellFoundedInduction, TLAPS

----------------------------------------------------------------------------
(* Numbers.                                                                *)

\* A set of numbers that is not empty has a least member.
LEMMA LeastNumber ==
    ASSUME NEW S \in SUBSET Nat, S # {}
    PROVE  \E i \in S : \A j \in S : i <= j
<1>1. PICK i \in S : \A j \in S : <<j, i>> \notin OpToRel(<, Nat)
  BY NatLessThanWellFounded, WFMin
<1>2. ASSUME NEW j \in S PROVE i <= j
  <2>1. <<j, i>> \in Nat \X Nat
    OBVIOUS
  <2>2. ~ (j < i)
    BY <1>1, <2>1 DEF OpToRel
  <2> QED BY <2>2
<1> QED BY <1>2

\* What holds of 0 and, with a number, of the next, holds of all of them.
LEMMA Induction ==
    ASSUME NEW S \in SUBSET Nat, 0 \in S, \A n \in S : n + 1 \in S
    PROVE  S = Nat
<1> SUFFICES ASSUME Nat \ S # {} PROVE FALSE
  OBVIOUS
<1>1. PICK i \in Nat \ S : \A j \in Nat \ S : i <= j
  BY LeastNumber
<1>2. i \in Nat /\ i # 0
  OBVIOUS
<1>5. i - 1 \in Nat /\ ~ (i <= i - 1)
  BY ONLY <1>2
<1>3. i - 1 \in S
  BY <1>1, <1>5
<1>4. i = (i - 1) + 1
  BY ONLY <1>2
<1> QED BY <1>3, <1>4

\* What holds of a number when it holds of all that are less holds of all.
LEMMA StrongInduction ==
    ASSUME NEW S \in SUBSET Nat,
           \A n \in Nat : (\A m \in Nat : m < n => m \in S) => n \in S
    PROVE  S = Nat
<1> SUFFICES ASSUME Nat \ S # {} PROVE FALSE
  OBVIOUS
<1>1. PICK i \in Nat \ S : \A j \in Nat \ S : i <= j
  BY LeastNumber
<1>2. ASSUME NEW m \in Nat, m < i PROVE m \in S
  <2>1. ~ (i <= m)
    BY <1>2
  <2> QED BY <1>1, <2>1
<1> QED BY <1>2

\* A bounded set of numbers that is not empty has a greatest member.
LEMMA GreatestNumber ==
    ASSUME NEW n \in Nat, NEW S \in SUBSET (0 .. n), S # {}
    PROVE  /\ Max(S) \in S
           /\ \A j \in S : j <= Max(S)
<1> DEFINE D == {n - j : j \in S}
<1>1. D \in SUBSET Nat /\ D # {}
  <2>1. \A j \in 0 .. n : n - j \in Nat
    OBVIOUS
  <2> QED BY <2>1
<1>2. PICK d \in D : \A e \in D : d <= e
  BY <1>1, LeastNumber
<1>3. PICK i \in S : d = n - i
  OBVIOUS
<1>4. \A j \in S : n - j \in D
  OBVIOUS
<1>5. \A j \in S : j <= i
  <2> SUFFICES ASSUME NEW j \in S PROVE j <= i
    OBVIOUS
  <2>1. n - i <= n - j
    BY <1>2, <1>3, <1>4
  <2> QED BY <2>1
<1>6. \A j \in S : i >= j
  BY <1>5
<1>7. Max(S) \in S /\ \A j \in S : Max(S) >= j
  BY <1>6 DEF Max
<1> QED BY <1>7

----------------------------------------------------------------------------
(* Folds.                                                                  *)

\* What a loop makes of "base" that takes "step" for every item of seq.
Folded(step, base, seq) == FoldLeft(LAMBDA state, item : step[state][item], base, seq)

\* The recursion of the library's fold: iter[s] is what the items at the
\* positions s make of base.
IsFold(iter, step, base, seq, S) ==
    iter = [s \in SUBSET S |->
                IF s = {} THEN base ELSE step[iter[s \ {Max(s)}]][seq[Max(s)]]]

\* The fold follows that recursion, if anything does.
LEMMA FoldedIsFold ==
    ASSUME NEW step, NEW base, NEW seq,
           \E iter : IsFold(iter, step, base, seq, DOMAIN seq)
    PROVE  \E iter : /\ IsFold(iter, step, base, seq, DOMAIN seq)
                     /\ Folded(step, base, seq) = iter[DOMAIN seq]
BY DEF Folded, FoldLeft, MapThenFoldSet, IsFold

\* Something does.
LEMMA FoldExists ==
    ASSUME NEW step, NEW base, NEW seq
    PROVE  \A n \in Nat : \E iter : IsFold(iter, step, base, seq, 1 .. n)
<1> DEFINE S == {n \in Nat : \E iter : IsFold(iter, step, base, seq, 1 .. n)}
<1>1. 0 \in S
  <2>1. SUBSET (1 .. 0) = {{}}
    OBVIOUS
  <2>2. IsFold([s \in SUBSET (1 .. 0) |-> base], step, base, seq, 1 .. 0)
    BY <2>1 DEF IsFold
  <2> QED BY <2>2
<1>2. ASSUME NEW n \in S PROVE n + 1 \in S
  <2>1. PICK g : IsFold(g, step, base, seq, 1 .. n)
    OBVIOUS
  <2> DEFINE h == [s \in SUBSET (1 .. n + 1) |->
                      IF n + 1 \in s THEN step[g[s \ {n + 1}]][seq[n + 1]] ELSE g[s]]
  <2>2. ASSUME NEW s \in SUBSET (1 .. n + 1)
        PROVE  h[s] = IF s = {} THEN base ELSE step[h[s \ {Max(s)}]][seq[Max(s)]]
    <3>1. CASE n + 1 \in s
      <4>1. Max(s) = n + 1
        <5>1. s \in SUBSET (0 .. n + 1) /\ s # {} /\ n + 1 \in Nat
          BY <3>1
        <5>2. Max(s) \in s /\ n + 1 <= Max(s)
          BY <3>1, <5>1, GreatestNumber
        <5>3. Max(s) \in 1 .. n + 1
          BY <5>2
        <5> QED BY ONLY <5>1, <5>2, <5>3
      <4>2. s \ {n + 1} \in SUBSET (1 .. n + 1) /\ n + 1 \notin s \ {n + 1}
        OBVIOUS
      <4>3. h[s \ {n + 1}] = g[s \ {n + 1}]
        BY <4>2
      <4> QED BY <3>1, <4>1, <4>3
    <3>2. CASE n + 1 \notin s
      <4>1. s \in SUBSET (1 .. n)
        BY <3>2
      <4>2. h[s] = g[s]
        BY <3>2
      <4>3. s # {} => h[s \ {Max(s)}] = g[s \ {Max(s)}]
        BY <3>2
      <4>4. g[s] = IF s = {} THEN base ELSE step[g[s \ {Max(s)}]][seq[Max(s)]]
        BY <2>1, <4>1 DEF IsFold
      <4> QED BY <4>2, <4>3, <4>4
    <3> QED BY <3>1, <3>2
  <2>3. h = [s \in SUBSET (1 .. n + 1) |->
               IF s = {} THEN base ELSE step[h[s \ {Max(s)}]][seq[Max(s)]]]
    <3>1. h = [s \in SUBSET (1 .. n + 1) |-> h[s]]
      OBVIOUS
    <3> HIDE DEF h
    <3> QED BY <2>2, <3>1
  <2>4. IsFold(h, step, base, seq, 1 .. n + 1)
    <3> HIDE DEF h
    <3> QED BY <2>3 DEF IsFold
  <2> HIDE DEF h
  <2> QED BY <2>4
<1>3. S = Nat
  <2>1. S \in SUBSET Nat
    OBVIOUS
  <2> HIDE DEF S
  <2> QED BY <2>1, <1>1, <1>2, Induction
<1> QED BY <1>3

\* v holds what the first i items of seq make of base, for every i.
IsRun(v, step, base, seq) ==
    v[0] = base /\ \A i \in 1 .. Len(seq) : v[i] = step[v[i - 1]][seq[i]]

\* On the first positions, one after the other, the recursion is the run.
LEMMA FoldIsRun ==
    ASSUME NEW step, NEW base, NEW T, NEW seq \in Seq(T), NEW iter,
           IsFold(iter, step, base, seq, 1 .. Len(seq))
    PROVE  IsRun([i \in 0 .. Len(seq) |-> iter[1 .. i]], step, base, seq)
<1>1. 1 .. 0 = {} /\ {} \in SUBSET (1 .. Len(seq))
  OBVIOUS
<1>2. iter[1 .. 0] = base
  BY <1>1 DEF IsFold
<1>3. ASSUME NEW i \in 1 .. Len(seq)
      PROVE  iter[1 .. i] = step[iter[1 .. (i - 1)]][seq[i]]
  <2>1. i \in Nat /\ 1 .. i \in SUBSET (0 .. i) /\ i \in 1 .. i
    OBVIOUS
  <2>2. Max(1 .. i) \in 1 .. i /\ i <= Max(1 .. i)
    BY <2>1, GreatestNumber
  <2>3. Max(1 .. i) = i
    BY ONLY <2>1, <2>2
  <2>4. (1 .. i) \ {i} = 1 .. (i - 1)
    OBVIOUS
  <2>5. 1 .. i \in SUBSET (1 .. Len(seq)) /\ 1 .. i # {}
    BY <2>1
  <2>6. iter[1 .. i] = step[iter[(1 .. i) \ {Max(1 .. i)}]][seq[Max(1 .. i)]]
    BY <2>5 DEF IsFold
  <2> QED BY ONLY <2>3, <2>4, <2>6
<1> QED BY <1>2, <1>3 DEF IsRun

\* There is one run.
LEMMA RunIsUnique ==
    ASSUME NEW step, NEW base, NEW T, NEW seq \in Seq(T), NEW v, NEW w,
           IsRun(v, step, base, seq), IsRun(w, step, base, seq)
    PROVE  v[Len(seq)] = w[Len(seq)]
<1> DEFINE S == {i \in Nat : i <= Len(seq) => v[i] = w[i]}
<1>1. 0 \in S
  BY DEF IsRun
<1>2. ASSUME NEW i \in S PROVE i + 1 \in S
  <2> SUFFICES ASSUME i + 1 <= Len(seq) PROVE v[i + 1] = w[i + 1]
    OBVIOUS
  <2>1. i + 1 \in 1 .. Len(seq) /\ (i + 1) - 1 = i /\ i <= Len(seq)
    OBVIOUS
  <2>2. v[i] = w[i]
    BY <2>1
  <2> QED BY <2>1, <2>2 DEF IsRun
<1>3. S = Nat
  <2>1. S \in SUBSET Nat
    OBVIOUS
  <2> HIDE DEF S
  <2> QED BY <2>1, <1>1, <1>2, Induction
<1> QED BY <1>3

\* The fold is the last of a run.
LEMMA FoldedByRun ==
    ASSUME NEW step, NEW base, NEW T, NEW seq \in Seq(T)
    PROVE  /\ \E v : IsRun(v, step, base, seq)
           /\ \A v : IsRun(v, step, base, seq) => Folded(step, base, seq) = v[Len(seq)]
<1>1. DOMAIN seq = 1 .. Len(seq) /\ Len(seq) \in Nat
  OBVIOUS
<1>2. PICK iter : /\ IsFold(iter, step, base, seq, 1 .. Len(seq))
                  /\ Folded(step, base, seq) = iter[1 .. Len(seq)]
  BY <1>1, FoldExists, FoldedIsFold
<1> DEFINE w == [i \in 0 .. Len(seq) |-> iter[1 .. i]]
<1>3. IsRun(w, step, base, seq)
  BY <1>2, FoldIsRun
<1>4. Folded(step, base, seq) = w[Len(seq)]
  BY <1>1, <1>2
<1> HIDE DEF w
<1> QED BY <1>3, <1>4, RunIsUnique

\* A fold takes one step for every item, in their order, and keeps the type
\* of the state.
LEMMA FoldedEmpty ==
    ASSUME NEW step, NEW base
    PROVE  Folded(step, base, <<>>) = base
<1>1. DOMAIN <<>> = {}
  OBVIOUS
<1> QED BY <1>1 DEF Folded, FoldLeft, MapThenFoldSet

LEMMA FoldedAppend ==
    ASSUME NEW step, NEW base, NEW T, NEW seq \in Seq(T), NEW item \in T
    PROVE  Folded(step, base, Append(seq, item)) = step[Folded(step, base, seq)][item]
<1> DEFINE longer == Append(seq, item)
<1>1. /\ longer \in Seq(T) /\ Len(longer) = Len(seq) + 1 /\ Len(seq) \in Nat
      /\ longer[Len(longer)] = item
      /\ \A i \in 1 .. Len(seq) : longer[i] = seq[i]
  OBVIOUS
<1> HIDE DEF longer
<1>2. PICK v : IsRun(v, step, base, longer)
  BY <1>1, FoldedByRun
<1>3. IsRun(v, step, base, seq)
  BY <1>1, <1>2 DEF IsRun
<1>4. v[Len(longer)] = step[v[Len(seq)]][item]
  <2>1. Len(longer) \in 1 .. Len(longer) /\ Len(longer) - 1 = Len(seq)
    BY <1>1
  <2> QED BY <1>1, <1>2, <2>1 DEF IsRun
<1>5. /\ Folded(step, base, longer) = v[Len(longer)]
      /\ Folded(step, base, seq) = v[Len(seq)]
  BY <1>1, <1>2, <1>3, FoldedByRun
<1> QED BY <1>4, <1>5 DEF longer

\* What holds of base, and of every state with the next item, holds of the
\* fold; I is the states it holds of.
LEMMA FoldedKeeps ==
    ASSUME NEW step, NEW base, NEW T, NEW seq \in Seq(T), NEW I, base \in I,
           \A state \in I, item \in T : step[state][item] \in I
    PROVE  Folded(step, base, seq) \in I
<1>1. PICK v : IsRun(v, step, base, seq) /\ Folded(step, base, seq) = v[Len(seq)]
  BY FoldedByRun
<1> DEFINE S == {i \in Nat : i <= Len(seq) => v[i] \in I}
<1>2. 0 \in S
  BY <1>1 DEF IsRun
<1>3. ASSUME NEW i \in S PROVE i + 1 \in S
  <2> SUFFICES ASSUME i + 1 <= Len(seq) PROVE v[i + 1] \in I
    OBVIOUS
  <2>1. i + 1 \in 1 .. Len(seq) /\ (i + 1) - 1 = i /\ i <= Len(seq)
    OBVIOUS
  <2>2. v[i] \in I /\ seq[i + 1] \in T
    BY <2>1
  <2> QED BY <1>1, <2>1, <2>2 DEF IsRun
<1>4. S = Nat
  <2>1. S \in SUBSET Nat
    OBVIOUS
  <2> HIDE DEF S
  <2> QED BY <2>1, <1>2, <1>3, Induction
<1> QED BY <1>1, <1>4

\* To fold over two sequences, one after the other, is to fold over the
\* second from where the first has led to.
LEMMA FoldedConcat ==
    ASSUME NEW step, NEW base, NEW T, NEW s \in Seq(T), NEW t \in Seq(T)
    PROVE  Folded(step, base, s \o t) = Folded(step, Folded(step, base, s), t)
<1> DEFINE both == s \o t
<1>1. /\ both \in Seq(T) /\ Len(s) \in Nat /\ Len(t) \in Nat
      /\ Len(both) = Len(s) + Len(t)
      /\ \A i \in 1 .. Len(s) : both[i] = s[i]
      /\ \A i \in 1 .. Len(t) : both[Len(s) + i] = t[i]
  OBVIOUS
<1> HIDE DEF both
<1>2. PICK v : IsRun(v, step, base, both)
  BY <1>1, FoldedByRun
<1> DEFINE w == [i \in 0 .. Len(t) |-> v[Len(s) + i]]
<1>3. IsRun(v, step, base, s)
  <2>1. \A i \in 1 .. Len(s) : i \in 1 .. Len(both)
    BY <1>1
  <2> QED BY <1>1, <1>2, <2>1 DEF IsRun
<1>4. IsRun(w, step, v[Len(s)], t)
  <2>1. w[0] = v[Len(s)]
    BY <1>1
  <2>2. ASSUME NEW i \in 1 .. Len(t) PROVE w[i] = step[w[i - 1]][t[i]]
    <3>1. /\ Len(s) + i \in 1 .. Len(both) /\ (Len(s) + i) - 1 = Len(s) + (i - 1)
          /\ i - 1 \in 0 .. Len(t) /\ i \in 0 .. Len(t)
      BY <1>1
    <3>2. v[Len(s) + i] = step[v[Len(s) + (i - 1)]][t[i]]
      BY <1>1, <1>2, <3>1 DEF IsRun
    <3> QED BY <3>1, <3>2
  <2> HIDE DEF w
  <2> QED BY <2>1, <2>2 DEF IsRun
<1>5. w[Len(t)] = v[Len(both)]
  BY <1>1
<1> HIDE DEF w
<1>6. Folded(step, base, s) = v[Len(s)]
  BY <1>3, FoldedByRun
<1>7. Folded(step, base, both) = v[Len(both)]
  <2>1. both \in Seq(T)
    BY <1>1
  <2>2. \A u : IsRun(u, step, base, both) => Folded(step, base, both) = u[Len(both)]
    BY ONLY <2>1, FoldedByRun
  <2> QED BY <1>2, <2>2
<1>8. Folded(step, v[Len(s)], t) = w[Len(t)]
  <2>1. \A b : IsRun(w, step, b, t) => Folded(step, b, t) = w[Len(t)]
    BY FoldedByRun
  <2> QED BY <1>4, <2>1
<1> QED BY <1>5, <1>6, <1>7, <1>8 DEF both

============================================================================
