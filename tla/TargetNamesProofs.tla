-------------------------- MODULE TargetNamesProofs --------------------------
(***************************************************************************)
(* What holds of the keys that kbd-hid makes, whatever hosts are called,   *)
(* and of every word that a user types.                                    *)
(***************************************************************************)
EXTENDS TargetNames, TargetStoreProofs, SequenceTheorems, FiniteSetTheorems

----------------------------------------------------------------------------
(* The numbers of the tries.                                               *)

\* One digit less.
LEMMA Tenth ==
    ASSUME NEW n \in Nat
    PROVE  /\ n \div 10 \in Nat
           /\ n >= 10 => n \div 10 < n /\ n \div 10 >= 1
           /\ n % 10 \in 0 .. 9
           /\ n = 10 * (n \div 10) + (n % 10)
OBVIOUS

\* How n is spelled if d knows how n \div 10 is.
Spelled(d, n) == IF n < 10 THEN <<48 + n>> ELSE d[n \div 10] \o <<48 + (n % 10)>>

LEMMA SpelledAlike ==
    ASSUME NEW n \in Nat, NEW d, NEW e, ~ (n < 10) => d[n \div 10] = e[n \div 10]
    PROVE  Spelled(d, n) = Spelled(e, n)
<1>1. CASE n < 10
  BY <1>1 DEF Spelled
<1>2. CASE ~ (n < 10)
  <2>1. d[n \div 10] = e[n \div 10]
    BY <1>2
  <2> QED BY ONLY <1>2, <2>1 DEF Spelled
<1> QED BY <1>1, <1>2

\* d is Decimal as far as N.
IsDecimal(d, N) == d = [n \in 0 .. N |-> Spelled(d, n)]

\* There is one for every N,
LEMMA DecimalExists == \A N \in Nat : \E d : IsDecimal(d, N)
<1> DEFINE S == {N \in Nat : \E d : IsDecimal(d, N)}
<1>1. 0 \in S
  <2> DEFINE d == [n \in 0 .. 0 |-> <<48 + n>>]
  <2>1. d = [n \in 0 .. 0 |-> Spelled(d, n)]
    BY DEF Spelled
  <2> HIDE DEF d
  <2> QED BY <2>1 DEF IsDecimal
<1>2. ASSUME NEW N \in S PROVE N + 1 \in S
  <2>1. PICK d : IsDecimal(d, N)
    OBVIOUS
  <2> DEFINE e == [n \in 0 .. N + 1 |-> Spelled(d, n)]
  <2>2. ASSUME NEW n \in 0 .. N PROVE e[n] = d[n]
    BY <2>1 DEF IsDecimal
  <2>3. ASSUME NEW n \in 0 .. N + 1 PROVE e[n] = Spelled(e, n)
    <3>1. ~ (n < 10) => n \div 10 \in 0 .. N
      BY Tenth
    <3> HIDE DEF e
    <3>2. Spelled(d, n) = Spelled(e, n)
      BY <2>2, <3>1, SpelledAlike
    <3> QED BY <3>2 DEF e
  <2>4. e = [n \in 0 .. N + 1 |-> e[n]]
    OBVIOUS
  <2> HIDE DEF e
  <2>5. IsDecimal(e, N + 1)
    BY <2>3, <2>4 DEF IsDecimal
  <2> QED BY <2>5
<1>3. S = Nat
  <2>1. S \in SUBSET Nat
    OBVIOUS
  <2> HIDE DEF S
  <2> QED BY <2>1, <1>1, <1>2, Induction
<1> QED BY <1>3

\* and they agree.
LEMMA DecimalsAgree ==
    ASSUME NEW M \in Nat, NEW N \in Nat, NEW d, NEW e, IsDecimal(d, M), IsDecimal(e, N)
    PROVE  \A n \in Nat : n <= M /\ n <= N => d[n] = e[n]
<1> DEFINE S == {n \in Nat : n <= M /\ n <= N => d[n] = e[n]}
<1>1. ASSUME NEW n \in Nat, \A m \in Nat : m < n => m \in S PROVE n \in S
  <2> SUFFICES ASSUME n <= M, n <= N PROVE d[n] = e[n]
    OBVIOUS
  <2>1. ASSUME ~ (n < 10) PROVE d[n \div 10] = e[n \div 10]
    <3>1. n \div 10 \in Nat /\ n \div 10 < n /\ n \div 10 <= M /\ n \div 10 <= N
      BY <2>1, Tenth
    <3> QED BY <1>1, <3>1
  <2>2. d[n] = Spelled(d, n) /\ e[n] = Spelled(e, n)
    BY DEF IsDecimal
  <2> QED BY <2>1, <2>2, SpelledAlike
<1>2. S = Nat
  <2>1. S \in SUBSET Nat
    OBVIOUS
  <2> HIDE DEF S
  <2> QED BY <1>1, <2>1, StrongInduction
<1> QED BY <1>2

\* So Decimal is what its definition says.
LEMMA DecimalIs == \A n \in Nat : Decimal[n] = Spelled(Decimal, n)
<1> DEFINE Rec(f) == f = [m \in Nat |-> Spelled(f, m)]
           upto == [N \in Nat |-> CHOOSE d : IsDecimal(d, N)]
           all == [m \in Nat |-> upto[m][m]]
<1>1. \A N \in Nat : IsDecimal(upto[N], N)
  BY DecimalExists
<1> HIDE DEF upto
<1>2. ASSUME NEW m \in Nat PROVE all[m] = Spelled(all, m)
  <2>1. all[m] = Spelled(upto[m], m)
    <3> DEFINE d == upto[m]
    <3>1. IsDecimal(d, m) /\ m \in 0 .. m
      BY <1>1
    <3> HIDE DEF d
    <3>2. d[m] = Spelled(d, m)
      BY <3>1 DEF IsDecimal
    <3> QED BY <3>2 DEF d
  <2>2. ASSUME ~ (m < 10) PROVE upto[m][m \div 10] = all[m \div 10]
    <3> DEFINE t == m \div 10
    <3>1. t \in Nat /\ t <= m /\ t <= t
      BY <2>2, Tenth
    <3> HIDE DEF t
    <3>2. upto[m][t] = upto[t][t]
      BY <1>1, <3>1, DecimalsAgree
    <3> QED BY <3>1, <3>2 DEF t
  <2> HIDE DEF all
  <2> QED BY <2>1, <2>2, SpelledAlike
<1>3. Rec(all)
  <2>1. all = [m \in Nat |-> all[m]]
    OBVIOUS
  <2> HIDE DEF all
  <2> QED BY <1>2, <2>1
<1>4. Decimal = CHOOSE f : Rec(f)
  BY DEF Decimal, Spelled
<1>5. Rec(Decimal)
  <2> HIDE DEF all
  <2> QED BY <1>3, <1>4
<1> QED BY <1>5

\* Sequences that end with one item each.
LEMMA LastOfTwo ==
    ASSUME NEW T, NEW s \in Seq(T), NEW t \in Seq(T), NEW a \in T, NEW b \in T,
           s \o <<a>> = t \o <<b>>
    PROVE  s = t /\ a = b
<1>1. Append(s, a) = Append(t, b)
  BY AppendIsConcat
<1> QED BY <1>1, AppendInjective

\* One item more.
LEMMA OneMore ==
    ASSUME NEW T, NEW a \in T
    PROVE  /\ <<a>> \in Seq(T) /\ Len(<<a>>) = 1
           /\ \A s \in Seq(T) : /\ s \o <<a>> \in Seq(T)
                                /\ Len(s \o <<a>>) = Len(s) + 1 /\ Len(s) \in Nat
OBVIOUS

\* The last digit of a number, and what comes before it.
LowDigit(n) == 48 + (n % 10)

LEMMA DecimalSteps ==
    ASSUME NEW n \in Nat
    PROVE  /\ LowDigit(n) \in Digits
           /\ n < 10 => Decimal[n] = <<LowDigit(n)>>
           /\ ~ (n < 10) => /\ Decimal[n] = Decimal[n \div 10] \o <<LowDigit(n)>>
                            /\ n \div 10 \in Nat /\ n \div 10 < n
<1>1. LowDigit(n) \in Digits
  BY Tenth DEF LowDigit, Digits
<1>2. n < 10 => n % 10 = n
  BY Tenth
<1>3. Decimal[n] = Spelled(Decimal, n)
  BY DecimalIs
<1>4. CASE n < 10
  BY <1>1, <1>2, <1>3, <1>4 DEF Spelled, LowDigit
<1>5. CASE ~ (n < 10)
  <2>1. n \div 10 \in Nat /\ n \div 10 < n
    BY <1>5, Tenth
  <2>2. Decimal[n] = Decimal[n \div 10] \o <<LowDigit(n)>>
    BY <1>3, <1>5 DEF Spelled, LowDigit
  <2> QED BY <1>1, <1>5, <2>1, <2>2
<1> QED BY <1>4, <1>5

\* A number is spelled in digits, one at least.
LEMMA DecimalSpelled ==
    \A n \in Nat : Decimal[n] \in Seq(Digits) /\ Decimal[n] # <<>>
<1> DEFINE Q(s) == s \in Seq(Digits) /\ s # <<>>
           S == {n \in Nat : Q(Decimal[n])}
<1>1. ASSUME NEW n \in Nat, \A m \in Nat : m < n => m \in S PROVE n \in S
  <2>1. /\ Q(<<LowDigit(n)>>)
        /\ \A s \in Seq(Digits) : Q(s \o <<LowDigit(n)>>)
    <3> DEFINE d == LowDigit(n)
    <3>1. d \in Digits
      BY DecimalSteps
    <3> HIDE DEF d
    <3>2. Q(<<d>>)
      BY <3>1, OneMore
    <3>3. \A s \in Seq(Digits) : Q(s \o <<d>>)
      BY <3>1
    <3> QED BY <3>2, <3>3 DEF d
  <2> HIDE DEF Q
  <2>2. CASE n < 10
    BY <2>1, <2>2, DecimalSteps
  <2>3. CASE ~ (n < 10)
    <3>1. n \div 10 \in S /\ Decimal[n] = Decimal[n \div 10] \o <<LowDigit(n)>>
      BY <1>1, <2>3, DecimalSteps
    <3>2. Decimal[n \div 10] \in Seq(Digits)
      BY <3>1 DEF Q
    <3> QED BY <2>1, <3>1, <3>2
  <2> QED BY <2>2, <2>3
<1>2. S = Nat
  <2>1. S \in SUBSET Nat
    OBVIOUS
  <2> HIDE DEF S
  <2> QED BY <1>1, <2>1, StrongInduction
<1> QED BY <1>2

\* No two numbers are spelled alike.
LEMMA DecimalInjective == \A m, n \in Nat : Decimal[m] = Decimal[n] => m = n
<1> DEFINE S == {m \in Nat : \A n \in Nat : Decimal[m] = Decimal[n] => m = n}
<1>1. ASSUME NEW n \in Nat
      PROVE  /\ n < 10 => Len(Decimal[n]) = 1
             /\ ~ (n < 10) => Len(Decimal[n]) > 1
  <2> DEFINE d == LowDigit(n)
             s == Decimal[n \div 10]
  <2>1. d \in Digits
    BY DecimalSteps
  <2>2. CASE n < 10
    BY <2>1, <2>2, OneMore, DecimalSteps
  <2>3. CASE ~ (n < 10)
    <3>1. s \in Seq(Digits) /\ s # <<>> /\ Decimal[n] = s \o <<d>>
      BY <2>3, DecimalSpelled, DecimalSteps
    <3> HIDE DEF s, d
    <3>2. Len(s) > 0 /\ Len(s \o <<d>>) = Len(s) + 1
      BY <2>1, <3>1, OneMore
    <3> QED BY <2>3, <3>1, <3>2
  <2> QED BY <2>2, <2>3
<1>2. ASSUME NEW m \in Nat, \A j \in Nat : j < m => j \in S PROVE m \in S
  <2> SUFFICES ASSUME NEW n \in Nat, Decimal[m] = Decimal[n] PROVE m = n
    OBVIOUS
  <2>1. m < 10 <=> n < 10
    <3>1. /\ m < 10 => Len(Decimal[m]) = 1
          /\ ~ (m < 10) => Len(Decimal[m]) > 1
      BY <1>1
    <3>2. /\ n < 10 => Len(Decimal[n]) = 1
          /\ ~ (n < 10) => Len(Decimal[n]) > 1
      BY <1>1
    <3>3. ~ (1 > 1)
      OBVIOUS
    <3> QED BY <3>1, <3>2, <3>3
  <2>2. CASE m < 10 /\ n < 10
    <3>1. <<LowDigit(m)>> = <<LowDigit(n)>>
      BY <2>2, DecimalSteps
    <3>2. LowDigit(m) = LowDigit(n)
      BY <3>1
    <3> QED BY <2>2, <3>2 DEF LowDigit
  <2>3. CASE ~ (m < 10) /\ ~ (n < 10)
    <3> DEFINE s == Decimal[m \div 10]
               t == Decimal[n \div 10]
               a == LowDigit(m)
               b == LowDigit(n)
    <3>1. /\ s \in Seq(Digits) /\ t \in Seq(Digits) /\ a \in Digits /\ b \in Digits
          /\ s \o <<a>> = t \o <<b>>
      BY <2>3, DecimalSteps, DecimalSpelled
    <3> HIDE DEF s, t, a, b
    <3>2. s = t /\ a = b
      BY ONLY <3>1, LastOfTwo
    <3> USE DEF s, t, a, b
    <3>3. m \div 10 = n \div 10
      BY <1>2, <2>3, <3>2, DecimalSteps
    <3> QED BY <3>2, <3>3, Tenth DEF LowDigit
  <2> QED BY <2>1, <2>2, <2>3
<1>3. S = Nat
  <2>1. S \in SUBSET Nat
    OBVIOUS
  <2> HIDE DEF S
  <2> QED BY <1>2, <2>1, StrongInduction
<1> QED BY <1>3

----------------------------------------------------------------------------
(* The keys that are made of names.                                        *)

\* What keys are spelled with.
Marks == Kept \union {Dash}

LEMMA MarksAreNumbers ==
    /\ \A word \in Seq(Marks) : word \in Seq(Nat)
    /\ \A word \in Seq(Digits) : word \in Seq(Marks)
<1>1. Marks \subseteq Nat /\ Digits \subseteq Marks
  BY DEF Marks, Kept, LowerLetters, Digits, Dash
<1>2. ASSUME NEW word \in Seq(Marks) PROVE word \in Seq(Nat)
  BY ONLY <1>1, <1>2, SeqMonotonic
<1>3. ASSUME NEW word \in Seq(Digits) PROVE word \in Seq(Marks)
  BY ONLY <1>1, <1>3, SeqMonotonic
<1> QED BY <1>2, <1>3

\* Whatever the name, its characters become marks.
LEMMA DashedSpelled ==
    ASSUME NEW name \in Seq(Nat) PROVE Dashed(name) \in Seq(Marks)
<1>1. ASSUME NEW key \in Seq(Marks), NEW c \in Nat
      PROVE  Dashes[key][c] \in Seq(Marks)
  <2>1. key \in Seq(Nat)
    BY MarksAreNumbers
  <2>2. Dash \in Marks /\ (ToLower(c) \in Kept => ToLower(c) \in Marks)
    BY DEF Marks
  <2> DEFINE l == ToLower(c)
  <2>3. Dashes[key][c] = IF l \in Kept THEN Append(key, l)
                         ELSE IF key # <<>> /\ Last(key) # Dash THEN Append(key, Dash)
                         ELSE key
    BY <2>1 DEF Dashes
  <2> HIDE DEF l
  <2>4. Append(key, Dash) \in Seq(Marks) /\ (l \in Kept => Append(key, l) \in Seq(Marks))
    BY <2>2 DEF l
  <2> QED BY <2>3, <2>4
<1>2. <<>> \in Seq(Marks)
  OBVIOUS
<1>3. Folded(Dashes, <<>>, name) \in Seq(Marks)
  <2> DEFINE I == Seq(Marks)
  <2>1. <<>> \in I /\ \A key \in I, c \in Nat : Dashes[key][c] \in I
    BY <1>1, <1>2
  <2> HIDE DEF I
  <2>2. Folded(Dashes, <<>>, name) \in I
    BY <2>1, FoldedKeeps
  <2> QED BY <2>2 DEF I
<1> QED BY <1>3 DEF Dashed, Folded

\* A word that kbd takes for a target and not for a flag.
Handy(word) == word \in Seq(Marks) /\ word # <<>> /\ word[1] # Dash

\* What is left when dashes are trimmed off both ends does not start with one.
LEMMA TrimmedIsHandy ==
    ASSUME NEW key \in Seq(Marks) PROVE Trimmed(key) = <<>> \/ Handy(Trimmed(key))
<1> DEFINE on == {i \in DOMAIN key : key[i] # Dash}
<1>1. on \in SUBSET (0 .. Len(key)) /\ on \in SUBSET Nat /\ Len(key) \in Nat
  OBVIOUS
<1>2. CASE on = {}
  BY <1>2 DEF Trimmed
<1>3. CASE on # {}
  <2> DEFINE a == Min(on)
             b == Max(on)
  <2>1. b \in on /\ \A j \in on : j <= b
    BY <1>1, <1>3, GreatestNumber
  <2>2. a \in on
    <3>1. \E i \in on : \A j \in on : i <= j
      BY <1>1, <1>3, LeastNumber
    <3> QED BY <3>1 DEF Min
  <2>3. Trimmed(key) = SubSeq(key, a, b)
    BY <1>3 DEF Trimmed
  <2>4. /\ a \in 1 .. Len(key) /\ b \in 1 .. Len(key) /\ a <= b
        /\ key[a] # Dash
    BY <2>1, <2>2
  <2> HIDE DEF a, b
  <2>5. /\ SubSeq(key, a, b) \in Seq(Marks) /\ SubSeq(key, a, b)[1] = key[a]
        /\ Len(SubSeq(key, a, b)) = b - a + 1
    BY <1>1, <2>4
  <2>6. SubSeq(key, a, b) # <<>>
    BY <2>4, <2>5
  <2> QED BY <2>3, <2>4, <2>5, <2>6 DEF Handy
<1> QED BY <1>2, <1>3

\* "target" stands for a name that leaves nothing.
LEMMA TargetKeyIsHandy ==
    ASSUME NEW name \in Seq(Nat) PROVE Handy(TargetKey(name))
<1> DEFINE target == <<116, 97, 114, 103, 101, 116>>
<1>1. Handy(target)
  BY DEF Handy, Marks, Kept, LowerLetters, Digits, Dash
<1>2. Trimmed(Dashed(name)) = <<>> \/ Handy(Trimmed(Dashed(name)))
  BY DashedSpelled, TrimmedIsHandy
<1> QED BY <1>1, <1>2 DEF TargetKey

\* A suffix keeps a key handy.
LEMMA SuffixedIsHandy ==
    ASSUME NEW key, Handy(key), NEW suffix \in Seq(Marks)
    PROVE  Handy(key \o suffix)
BY DEF Handy

\* hidapp/app.go:200, 211: whatever a host is called, every key that is tried
\* for it is a valid name, and none looks like a flag.
LEMMA KeyTriedIsHandy ==
    ASSUME NEW name \in Seq(Nat), NEW i \in Nat PROVE Handy(KeyTried(name, i))
<1>1. <<Dash>> \in Seq(Marks)
  BY DEF Marks
<1>2. Decimal[i] \in Seq(Marks)
  BY DecimalSpelled, MarksAreNumbers
<1>3. Handy(TargetKey(name) \o <<Dash>>)
  BY <1>1, TargetKeyIsHandy, SuffixedIsHandy
<1>4. Handy((TargetKey(name) \o <<Dash>>) \o Decimal[i])
  BY <1>2, <1>3, SuffixedIsHandy
<1> QED BY <1>4, TargetKeyIsHandy DEF KeyTried

LEMMA HandyIsValid == \A word : Handy(word) => ValidName(word)
BY DEF Handy, ValidName, Marks

\* Two tries for a host never come to the same key, so that uniqueTargetKey
\* has no end of them (hidapp/app.go:203).
LEMMA TriesDiffer ==
    ASSUME NEW name \in Seq(Nat), NEW i \in Nat \ {0}, NEW j \in Nat \ {0},
           KeyTried(name, i) = KeyTried(name, j)
    PROVE  i = j
<1> DEFINE key == TargetKey(name)
           base == key \o <<Dash>>
<1>1. key \in Seq(Marks) /\ <<Dash>> \in Seq(Marks) /\ base \in Seq(Marks)
  BY TargetKeyIsHandy DEF Handy, Marks
<1>2. ASSUME NEW n \in Nat PROVE Decimal[n] \in Seq(Marks)
  BY DecimalSpelled, MarksAreNumbers
<1>3. /\ KeyTried(name, i) = IF i = 1 THEN key ELSE base \o Decimal[i]
      /\ KeyTried(name, j) = IF j = 1 THEN key ELSE base \o Decimal[j]
  BY DEF KeyTried
<1>4. ASSUME NEW n \in Nat PROVE base \o Decimal[n] # key
  <2> DEFINE d == Decimal[n]
  <2>1. d \in Seq(Marks)
    BY <1>2
  <2> HIDE DEF d, key
  <2>2. (key \o <<Dash>>) \o d # key
    <3>1. Len((key \o <<Dash>>) \o d) > Len(key) /\ ~ (Len(key) > Len(key))
      BY <1>1, <2>1
    <3> QED BY ONLY <3>1
  <2> QED BY <2>2 DEF d
<1> HIDE DEF base, key
<1>5. CASE i = 1 \/ j = 1
  BY <1>3, <1>4, <1>5
<1>6. CASE i # 1 /\ j # 1
  <2> DEFINE s == Decimal[i]
             t == Decimal[j]
  <2>1. s \in Seq(Marks) /\ t \in Seq(Marks) /\ base \o s = base \o t
    BY <1>2, <1>3, <1>6
  <2> HIDE DEF s, t
  <2>2. s = t
    BY ONLY <1>1, <2>1, ConcatSimplifications
  <2> QED BY <2>2, DecimalInjective DEF s, t
<1> QED BY <1>5, <1>6

----------------------------------------------------------------------------
(* The way of a word.                                                      *)

\* A word without a blank, as every valid name is.
Solid(word) == word \in Seq(Nat) /\ word # <<>> /\ \A i \in DOMAIN word : word[i] # Blank

LEMMA ValidIsSolid == \A word \in Seq(Nat) : ValidName(word) => Solid(word)
<1> TAKE word \in Seq(Nat)
<1>1. Blank \notin Kept \union 65 .. 90 \union {Dash}
  BY DEF Kept, LowerLetters, Digits, Dash, Blank
<1> HIDE DEF Kept, Dash, Blank
<1> QED BY <1>1 DEF ValidName, Solid

\* The shell with some words read and one begun.
Read(words, open) == [words |-> words, open |-> open]

LEMMA SplitTakes ==
    \A ws \in Seq(Seq(Nat)), open \in Seq(Nat), c \in Nat \ {Blank} :
        Splits[Read(ws, open)][c] = Read(ws, Append(open, c))
<1> TAKE ws \in Seq(Seq(Nat)), open \in Seq(Nat), c \in Nat \ {Blank}
<1>1. Read(ws, open) \in Splitting /\ c \in Nat /\ c # Blank
  BY DEF Splitting, Read
<1> HIDE DEF Blank
<1>2. Splits[Read(ws, open)][c] = [Read(ws, open) EXCEPT !.open = Append(@, c)]
  BY <1>1 DEF Splits
<1> QED BY <1>2 DEF Read

\* A blank ends the word, and before the first word there is nothing to end.
LEMMA SplitEnds ==
    \A ws \in Seq(Seq(Nat)), open \in Seq(Nat) :
        Splits[Read(ws, open)][Blank] =
            IF open = <<>> THEN Read(ws, <<>>) ELSE Read(Append(ws, open), <<>>)
<1> TAKE ws \in Seq(Seq(Nat)), open \in Seq(Nat)
<1>1. Read(ws, open) \in Splitting /\ Blank \in Nat /\ Read(ws, open).open = open
      /\ Read(ws, open).words = ws
  BY DEF Splitting, Blank, Read
<1> QED BY <1>1 DEF Splits, Read

\* The shell takes the characters of a word one after the other.
LEMMA SplitsWord ==
    \A ws \in Seq(Seq(Nat)) : \A word :
        Solid(word) => Folded(Splits, Read(ws, <<>>), word) = Read(ws, word)
<1> TAKE ws \in Seq(Seq(Nat))
<1> TAKE word
<1> HAVE Solid(word)
<1> DEFINE v == [i \in 0 .. Len(word) |-> Read(ws, SubSeq(word, 1, i))]
<1>1. word \in Seq(Nat) /\ Len(word) \in Nat
  BY DEF Solid
<1>2. v[0] = Read(ws, <<>>)
  <2>1. SubSeq(word, 1, 0) = <<>>
    BY <1>1
  <2>2. v[0] = Read(ws, SubSeq(word, 1, 0))
    BY <1>1
  <2> HIDE DEF v
  <2> QED BY ONLY <2>1, <2>2
<1>3. ASSUME NEW i \in 1 .. Len(word) PROVE v[i] = Splits[v[i - 1]][word[i]]
  <2> DEFINE s == SubSeq(word, 1, i - 1)
  <2>1. s \in Seq(Nat) /\ word[i] \in Nat \ {Blank}
    BY <1>1 DEF Solid
  <2>2. SubSeq(word, 1, i) = Append(s, word[i])
    BY <1>1
  <2>3. v[i] = Read(ws, SubSeq(word, 1, i))
    BY <1>1
  <2>4. v[i - 1] = Read(ws, s)
    <3>1. i - 1 \in 0 .. Len(word)
      BY <1>1
    <3> QED BY <3>1
  <2> HIDE DEF s, v
  <2>5. Splits[Read(ws, s)][word[i]] = Read(ws, Append(s, word[i]))
    BY <2>1, SplitTakes
  <2> QED BY <2>2, <2>3, <2>4, <2>5
<1>4. v[Len(word)] = Read(ws, word)
  <2>1. SubSeq(word, 1, Len(word)) = word
    BY <1>1
  <2>2. v[Len(word)] = Read(ws, SubSeq(word, 1, Len(word)))
    BY <1>1
  <2> HIDE DEF v
  <2> QED BY ONLY <2>1, <2>2
<1> HIDE DEF v
<1>5. IsRun(v, Splits, Read(ws, <<>>), word)
  BY <1>2, <1>3 DEF IsRun
<1> QED BY <1>1, <1>4, <1>5, FoldedByRun

\* What the two folds do with what is appended.
LEMMA LineAppend ==
    \A words \in Seq(Seq(Nat)), word \in Seq(Nat) :
        Folded(Joins, <<>>, Append(words, word)) = Joins[Folded(Joins, <<>>, words)][word]
BY FoldedAppend

LEMMA SplitAppend ==
    \A state : \A line \in Seq(Nat), c \in Nat :
        Folded(Splits, state, Append(line, c)) = Splits[Folded(Splits, state, line)][c]
BY FoldedAppend

LEMMA SplitConcat ==
    \A state : \A s \in Seq(Nat), t \in Seq(Nat) :
        Folded(Splits, state, s \o t) = Folded(Splits, Folded(Splits, state, s), t)
BY FoldedConcat

\* Two words that are joined come with a blank before each.
LEMMA LineOfTwo ==
    \A a \in Seq(Nat), b \in Seq(Nat) :
        Line(<<a, b>>) = ((<<>> \o <<Blank>> \o a) \o <<Blank>> \o b)
<1> TAKE a \in Seq(Nat), b \in Seq(Nat)
<1> DEFINE one == <<>> \o <<Blank>> \o a
<1>1. <<>> \in Seq(Nat) /\ <<Blank>> \in Seq(Nat)
  BY DEF Blank
<1>2. Joins[<<>>][a] = one
  BY <1>1 DEF Joins
<1>3. one \in Seq(Nat)
  BY <1>1
<1> HIDE DEF one
<1>4. Joins[one][b] = one \o <<Blank>> \o b
  BY <1>3 DEF Joins
<1>5. <<>> \in Seq(Seq(Nat)) /\ <<a>> \in Seq(Seq(Nat))
      /\ <<a>> = Append(<<>>, a) /\ <<a, b>> = Append(<<a>>, b)
  OBVIOUS
<1>6. Folded(Joins, <<>>, <<a>>) = Joins[Folded(Joins, <<>>, <<>>)][a]
  BY <1>5, LineAppend
<1>7. Folded(Joins, <<>>, <<a, b>>) = Joins[Folded(Joins, <<>>, <<a>>)][b]
  BY <1>5, LineAppend
<1>8. Folded(Joins, <<>>, <<>>) = <<>>
  BY FoldedEmpty
<1>9. Line(<<a, b>>) = Folded(Joins, <<>>, <<a, b>>)
  BY DEF Line, Folded
<1> QED BY <1>2, <1>4, <1>6, <1>7, <1>8, <1>9 DEF one

\* A blank and a word, and the blank after it: the word is read.
LEMMA SplitsOne ==
    \A ws \in Seq(Seq(Nat)) : \A word :
        Solid(word) =>
            Folded(Splits, Read(ws, word), <<Blank>>) = Read(Append(ws, word), <<>>)
<1> TAKE ws \in Seq(Seq(Nat))
<1> TAKE word
<1> HAVE Solid(word)
<1>1. <<>> \in Seq(Nat) /\ Blank \in Nat /\ <<Blank>> = Append(<<>>, Blank)
  BY DEF Blank
<1>2. Folded(Splits, Read(ws, word), <<Blank>>) =
        Splits[Folded(Splits, Read(ws, word), <<>>)][Blank]
  BY <1>1, SplitAppend
<1>3. Folded(Splits, Read(ws, word), <<>>) = Read(ws, word)
  BY FoldedEmpty
<1>4. word \in Seq(Nat) /\ word # <<>>
  BY DEF Solid
<1> QED BY <1>2, <1>3, <1>4, SplitEnds

\* Words that are joined and split are the words.
LEMMA TwoWordsArrive ==
    \A a, b : Solid(a) /\ Solid(b) => Words(Line(<<a, b>>)) = <<a, b>>
<1> TAKE a, b
<1> HAVE Solid(a) /\ Solid(b)
<1> DEFINE none == Read(<<>>, <<>>)
           sep == <<Blank>>
           one == <<>> \o sep \o a
           two == one \o sep \o b
<1>1. a \in Seq(Nat) /\ b \in Seq(Nat) /\ sep \in Seq(Nat) /\ Blank \in Nat
  BY DEF Solid, Blank
<1>2. <<>> \in Seq(Seq(Nat)) /\ <<>> \in Seq(Nat) /\ <<a>> \in Seq(Seq(Nat))
      /\ <<a>> = Append(<<>>, a) /\ <<a, b>> = Append(<<a>>, b)
  BY <1>1
<1>3. one = sep \o a /\ two = (one \o sep) \o b
  BY <1>1
<1>4. one \in Seq(Nat) /\ two \in Seq(Nat) /\ one \o sep \in Seq(Nat)
      /\ Append(two, Blank) = two \o sep /\ Append(<<>>, Blank) = sep
  BY <1>1
<1>5. Line(<<a, b>>) = two
  BY <1>1, LineOfTwo
<1>6. Words(two) = Folded(Splits, none, two \o sep).words
  BY <1>4 DEF Words, Folded, Read
<1> HIDE DEF sep, one, two, none
<1>7. Folded(Splits, none, sep) = none
  <2>1. Folded(Splits, none, Append(<<>>, Blank)) = Splits[Folded(Splits, none, <<>>)][Blank]
    BY <1>1, <1>2, SplitAppend
  <2>2. Folded(Splits, none, <<>>) = none
    BY FoldedEmpty
  <2>3. Splits[none][Blank] = none
    BY <1>2, SplitEnds DEF none
  <2> QED BY <1>4, <2>1, <2>2, <2>3
<1>8. Folded(Splits, none, one) = Read(<<>>, a)
  <2>1. Folded(Splits, none, sep \o a) = Folded(Splits, Folded(Splits, none, sep), a)
    BY <1>1, SplitConcat
  <2>2. Folded(Splits, none, a) = Read(<<>>, a)
    BY <1>2, SplitsWord DEF none
  <2> QED BY <1>3, <1>7, <2>1, <2>2
<1>9. Folded(Splits, none, one \o sep) = Read(<<a>>, <<>>)
  <2>1. Folded(Splits, none, one \o sep) = Folded(Splits, Folded(Splits, none, one), sep)
    BY <1>1, <1>4, SplitConcat
  <2>2. Folded(Splits, Read(<<>>, a), sep) = Read(<<a>>, <<>>)
    BY <1>2, SplitsOne DEF sep
  <2> QED BY <1>8, <2>1, <2>2
<1>10. Folded(Splits, none, two) = Read(<<a>>, b)
  <2>1. Folded(Splits, none, (one \o sep) \o b) =
          Folded(Splits, Folded(Splits, none, one \o sep), b)
    BY <1>1, <1>4, SplitConcat
  <2>2. Folded(Splits, Read(<<a>>, <<>>), b) = Read(<<a>>, b)
    BY <1>2, SplitsWord
  <2> QED BY <1>3, <1>9, <2>1, <2>2
<1>11. Folded(Splits, none, two \o sep) = Read(<<a, b>>, <<>>)
  <2>1. Folded(Splits, none, two \o sep) = Folded(Splits, Folded(Splits, none, two), sep)
    BY <1>1, <1>4, SplitConcat
  <2>2. Folded(Splits, Read(<<a>>, b), sep) = Read(<<a, b>>, <<>>)
    BY <1>2, SplitsOne DEF sep
  <2> QED BY <1>10, <2>1, <2>2
<1> QED BY <1>5, <1>6, <1>11 DEF Read

\* kbd-rpi makes of the words that the shell has split the target it is to
\* switch to.
LEMMA RequestArrives ==
    ASSUME NEW word \in Seq(Nat), ValidName(word)
    PROVE  SwitchRequest(Words(Line(<<SwitchWord, word>>))) = word
<1>1. Solid(SwitchWord)
  BY DEF SwitchWord, Solid, Blank
<1>2. Words(Line(<<SwitchWord, word>>)) = <<SwitchWord, word>>
  BY <1>1, ValidIsSolid, TwoWordsArrive
<1> HIDE DEF SwitchWord
<1>3. SwitchRequest(<<SwitchWord, word>>) = word
  <2>1. /\ <<SwitchWord, word>> # <<>> /\ Head(<<SwitchWord, word>>) = SwitchWord
        /\ Tail(<<SwitchWord, word>>) = <<word>>
        /\ Len(<<word>>) = 1 /\ <<word>>[1] = word
    OBVIOUS
  <2> QED BY <2>1 DEF SwitchRequest, ParseSwitchRequest
<1> QED BY <1>2, <1>3

\* localapp/app.go:109: "kbd switch" with a valid name, whatever it is, reaches
\* kbd-rpi as that name: neither the flags, nor ssh, nor the shell alter it.
THEOREM NamedTargetArrives ==
    ASSUME NEW word \in Seq(Nat), ValidName(word)
    PROVE  Reached(<<SwitchWord, word>>) = word
<1> DEFINE args == <<SwitchWord, word>>
<1>1. /\ args # <<>> /\ Head(args) = SwitchWord /\ Len(args) = 2
      /\ args[1] = SwitchWord /\ args[2] = word
  OBVIOUS
<1>2. SwitchWord # <<Dash, Dash>> /\ SwitchWord[1] # Dash
  BY DEF SwitchWord, Dash
<1> HIDE DEF args
<1>3. Operands(args) = args
  BY <1>1, <1>2 DEF Operands
<1>4. Sent(args) = args
  BY <1>1, <1>3 DEF Sent
<1> QED BY <1>4, RequestArrives DEF Reached, args

\* localapp/app.go:130: so does the name alone, if it is no flag and the name
\* of no command.
THEOREM ShorthandArrives ==
    ASSUME NEW word \in Seq(Nat), ValidName(word), word[1] # Dash, word \notin Commands
    PROVE  Reached(<<word>>) = word
<1> DEFINE args == <<word>>
<1>1. args # <<>> /\ Head(args) = word /\ Len(args) = 1 /\ args[1] = word
  OBVIOUS
<1>2. word # <<Dash, Dash>>
  OBVIOUS
<1> HIDE DEF args
<1>3. Operands(args) = args
  BY <1>1, <1>2 DEF Operands
<1>4. Sent(args) = <<SwitchWord, word>>
  BY <1>1, <1>3 DEF Sent, Commands
<1> QED BY <1>4, RequestArrives DEF Reached, args

----------------------------------------------------------------------------
(* The targets that kbd-hid learns.                                        *)

\* No key that kbd-hid makes looks like a flag.
LEMMA MadeKeysAreNoFlags == \A k \in Made : k[1] # Dash
<1> SUFFICES ASSUME NEW n \in Names, NEW i \in Tries PROVE KeyOf[n][i][1] # Dash
  BY DEF Made
<1>1. n \in Seq(Nat) /\ i \in Nat /\ KeyOf[n][i] = KeyTried(n, i)
  BY SpellingAssumption, StoreAssumption
<1>2. Handy(KeyOf[n][i])
  BY <1>1, KeyTriedIsHandy
<1> QED BY <1>2 DEF Handy

\* Every target can be switched to from the PC, and whatever a host is called,
\* the key that kbd-hid has made of it will do alone, unless it is the name of
\* a command (localapp/app.go:22-100).
THEOREM LearnedNamed == Spec => []LearnedCanBeNamed
<1>1. TypeOK => LearnedCanBeNamed
  <2> SUFFICES ASSUME TypeOK, conf # Unreadable, NEW k \in Keys, conf[k] # Absent
               PROVE  /\ Reached(<<SwitchWord, k>>) = k
                      /\ k \in Made \ Commands => Reached(<<k>>) = k
    BY DEF LearnedCanBeNamed, Candidates
  <2>1. k \in GoodKeys
    BY DEF TypeOK, ValidConfigs, Valid
  <2>2. k \in Seq(Nat) /\ ValidName(k)
    BY <2>1, SpellingAssumption
  <2>3. k \in Made => k[1] # Dash
    BY MadeKeysAreNoFlags
  <2> QED BY <2>2, <2>3, NamedTargetArrives, ShorthandArrives
<1> QED BY <1>1, TypeCorrect, PTL

\* The key of a new host is one that was tried for it, and a valid one.
LEMMA UniqueKeyIsGood ==
    ASSUME NEW c \in Config, NEW n \in Names, FreeTries(c, n) # {}
    PROVE  UniqueKey(c, n) \in GoodKeys
<1>1. PICK i \in FreeTries(c, n) : UniqueKey(c, n) = KeyOf[n][i]
  <2>1. FreeTries(c, n) \in SUBSET Nat
    BY StoreAssumption DEF FreeTries
  <2> QED BY <2>1, LeastNumber DEF UniqueKey
<1>2. i \in Tries /\ i \in Nat /\ n \in Seq(Nat) /\ KeyOf[n][i] \in Keys
  BY StoreAssumption, SpellingAssumption DEF FreeTries
<1>3. KeyOf[n][i] = KeyTried(n, i)
  BY <1>2, SpellingAssumption
<1>4. ValidName(KeyOf[n][i])
  BY <1>2, <1>3, KeyTriedIsHandy, HandyIsValid
<1> QED BY <1>1, <1>2, <1>4, SpellingAssumption

\* hidapp/app.go:211 against config.go:177 and 188: a new host that has a name,
\* in whatever script, is not refused when it is saved.
THEOREM NamedSaved == Spec => []NamedHostIsSaved
<1>1. TypeOK => NamedHostIsSaved
  <2> SUFFICES ASSUME TypeOK, conf # Unreadable, NEW n \in Names,
                      NEW m \in MACs \ MACsOf(conf), ~ IsBlank(n), FreeTries(conf, n) # {}
               PROVE  Valid(Added(conf, n, m))
    BY DEF NamedHostIsSaved
  <2>1. conf \in Config /\ Valid(conf)
    BY DEF TypeOK, ValidConfigs
  <2>2. UniqueKey(conf, n) \in GoodKeys
    BY <2>1, UniqueKeyIsGood
  <2>3. n \notin BlankNames
    BY SpellingAssumption
  <2> HIDE DEF UniqueKey
  <2> QED BY <2>1, <2>2, <2>3 DEF Valid, Added, Config
<1> QED BY <1>1, TypeCorrect, PTL

\* hidapp/app.go:203: the tries of uniqueTargetKey come to a free key, as they
\* go on without an end and a config has finitely many targets.  This is why
\* Learn may ask for a free try.
THEOREM SomeTryIsFree ==
    ASSUME Tries = Nat \ {0}, NEW c \in Config, IsFiniteSet(Candidates(c)),
           NEW n \in Names
    PROVE  FreeTries(c, n) # {}
<1> SUFFICES ASSUME FreeTries(c, n) = {} PROVE FALSE
  OBVIOUS
<1> DEFINE K == Candidates(c)
           N == Cardinality(K)
           S == 1 .. N + 1
           f == [i \in S |-> KeyTried(n, i)]
<1>1. N \in Nat
  BY FS_CardinalityType
<1>2. IsFiniteSet(S) /\ Cardinality(S) = N + 1
  <2> HIDE DEF N
  <2>1. 1 \in Int /\ N + 1 \in Int /\ ~ (1 > N + 1) /\ (N + 1) - 1 + 1 = N + 1
    BY <1>1
  <2> QED BY <2>1, FS_Interval
<1>3. ASSUME NEW i \in S PROVE i \in Tries /\ KeyTried(n, i) \in K
  <2>1. i \in Tries
    BY <1>1
  <2>2. KeyOf[n][i] \in Keys
    BY <2>1, StoreAssumption
  <2>3. KeyOf[n][i] = KeyTried(n, i)
    BY <2>1, SpellingAssumption
  <2>4. c[KeyOf[n][i]] # Absent
    BY <2>1 DEF FreeTries
  <2> QED BY <2>1, <2>2, <2>3, <2>4 DEF Candidates
<1>4. f \in [S -> K]
  BY <1>3
<1> HIDE DEF N, K
<1>5. N < N + 1 /\ IsFiniteSet(K) /\ N = Cardinality(K)
  BY <1>1 DEF N, K
<1> HIDE DEF S, f
<1>6. PICK i \in S, j \in S : i # j /\ f[i] = f[j]
  BY <1>2, <1>4, <1>5, FS_PigeonHole
<1>7. i \in Nat \ {0} /\ j \in Nat \ {0} /\ n \in Seq(Nat)
  BY <1>1, SpellingAssumption DEF S
<1>8. KeyTried(n, i) = KeyTried(n, j)
  BY <1>6 DEF f
<1> QED BY <1>6, <1>7, <1>8, TriesDiffer

============================================================================
