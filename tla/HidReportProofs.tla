---------------------------- MODULE HidReportProofs ----------------------------
(***************************************************************************)
(* What holds of the reports of every text.                                *)
(***************************************************************************)
EXTENDS HidReport, FoldingProofs

\* Every entry of the table presses a key that the report map announces.
LEMMA TableTyped ==
    ASSUME NEW k \in KeyTable
    PROVE  k[2] \in 0 .. 255 /\ k[3] \in 4 .. 101
<1>1. CASE k \in Letters
  BY <1>1 DEF Letters
<1>2. CASE k \in Capitals
  BY <1>2 DEF Capitals, Shift
<1>3. CASE k \in Digits
  BY <1>3 DEF Digits
<1>4. CASE k \in Blanks \union Punctuation
  BY <1>4 DEF Blanks, Punctuation
<1>5. CASE k \in ShiftedSymbols
  BY <1>5 DEF ShiftedSymbols, Shift
<1> QED BY <1>1, <1>2, <1>3, <1>4, <1>5 DEF KeyTable

\* So a press is a report, and no press is the release.
LEMMA PressTyped ==
    ASSUME NEW c, NEW key \in PressReport(c)
    PROVE  key \in Report /\ key # Released
<1>1. PICK k \in KeyTable : key = <<k[2], k[3]>>
  BY DEF PressReport
<1> HIDE DEF KeyTable
<1> QED BY <1>1, TableTyped DEF Report, Released

\* The two reports of a character.
LEMMA PairTyped ==
    ASSUME NEW key \in Report
    PROVE  <<key, Released>> \in Seq(Report) /\ Released \in Report
BY DEF Report, Released

\* Every turn of the loop preserves the types.
LEMMA NextTypeOK == TypeOK /\ [Next]_vars => TypeOK'
<1> SUFFICES ASSUME TypeOK, [Next]_vars PROVE TypeOK'
  OBVIOUS
<1>0. text \in Seq(Nat) /\ Len(text) \in Nat
  BY TextsAssumption DEF TypeOK
<1>1. CASE PressAndRelease
  <2>1. PICK key \in PressReport(text[pos]) : reports' = reports \o <<key, Released>>
    BY <1>1 DEF PressAndRelease
  <2>2. reports' \in Seq(Report)
    BY <2>1, PressTyped, PairTyped DEF TypeOK
  <2>3. pos' \in 1 .. Len(text) + 1
    BY <1>0, <1>1 DEF PressAndRelease, TypeOK
  <2> QED BY <1>1, <2>2, <2>3 DEF PressAndRelease, TypeOK
<1>2. CASE Unsupported
  BY <1>2 DEF Unsupported, TypeOK
<1>3. CASE Finish
  BY <1>3 DEF Finish, TypeOK
<1>4. CASE UNCHANGED vars
  BY <1>4 DEF vars, TypeOK
<1> QED BY <1>1, <1>2, <1>3, <1>4 DEF Next

\* The reports of every text are reports, and none come with an error.
THEOREM TypeCorrect == Spec => []TypeOK
<1>1. Init => TypeOK
  BY TextsAssumption DEF Init, TypeOK
<1>2. TypeOK /\ [Next]_vars => TypeOK'
  BY NextTypeOK
<1> QED BY <1>1, <1>2, PTL DEF Spec

\* What comes after an even number.
LEMMA Parity ==
    ASSUME NEW n \in Nat, n % 2 = 0 PROVE (n + 1) % 2 = 1 /\ (n + 2) % 2 = 0
OBVIOUS

\* Two more reports keep the alternation.
LEMMA PairKeepsAlternation ==
    ASSUME TypeOK, PressesAreReleased, NEW key \in Report, key # Released,
           reports' = reports \o <<key, Released>>
    PROVE  PressesAreReleased'
<1>1. /\ reports \in Seq(Report) /\ Len(reports) \in Nat
      /\ Len(reports') = Len(reports) + 2
  BY PairTyped DEF TypeOK
<1>0. /\ (Len(reports) + 1) % 2 = 1
      /\ (Len(reports) + 2) % 2 = 0
  <2>1. Len(reports) % 2 = 0
    BY DEF PressesAreReleased
  <2> QED BY ONLY <1>1, <2>1, Parity
<1>2. Len(reports') % 2 = 0
  BY ONLY <1>0, <1>1
<1>3. ASSUME NEW i \in 1 .. Len(reports')
      PROVE  i % 2 = 0 <=> reports'[i] = Released
  <2>1. CASE i <= Len(reports)
    <3>1. i \in 1 .. Len(reports) /\ reports'[i] = reports[i]
      BY <1>1, <2>1, PairTyped
    <3> QED BY <3>1 DEF PressesAreReleased
  <2>2. CASE i = Len(reports) + 1
    <3>1. reports'[i] = key
      BY <1>1, <2>2, PairTyped
    <3>2. i % 2 = 1
      BY ONLY <1>0, <2>2
    <3> QED BY <3>1, <3>2
  <2>3. CASE i = Len(reports) + 2
    <3>1. reports'[i] = Released
      BY <1>1, <2>3, PairTyped
    <3>2. i % 2 = 0
      BY ONLY <1>0, <2>3
    <3> QED BY <3>1, <3>2
  <2> QED BY <1>1, <2>1, <2>2, <2>3
<1> QED BY <1>2, <1>3 DEF PressesAreReleased

\* report.go:16: whatever the text, every press is followed by its
\* release, which is what HidApplication assumes of a batch.
THEOREM EveryPressReleased == Spec => []PressesAreReleased
<1>1. Init => PressesAreReleased
  BY DEF Init, PressesAreReleased
<1>2. TypeOK /\ PressesAreReleased /\ [Next]_vars => PressesAreReleased'
  <2> SUFFICES ASSUME TypeOK, PressesAreReleased, [Next]_vars
               PROVE  PressesAreReleased'
    OBVIOUS
  <2>1. CASE PressAndRelease
    <3>1. PICK key \in PressReport(text[pos]) : reports' = reports \o <<key, Released>>
      BY <2>1 DEF PressAndRelease
    <3> QED BY <3>1, PressTyped, PairKeepsAlternation
  <2>2. CASE Unsupported
    BY <2>2 DEF Unsupported, PressesAreReleased
  <2>3. CASE Finish \/ UNCHANGED vars
    BY <2>3 DEF Finish, vars, PressesAreReleased
  <2> QED BY <2>1, <2>2, <2>3 DEF Next
<1> QED BY <1>1, <1>2, TypeCorrect, PTL DEF Spec

----------------------------------------------------------------------------
(* What a host makes of the reports.                                       *)

\* What is at a position of a sequence that is put together from two.
LEMMA Concatenated ==
    \A s, t \in Seq(Nat) :
        /\ s \o t \in Seq(Nat) /\ Len(s \o t) = Len(s) + Len(t)
        /\ \A i \in 1 .. Len(s) : (s \o t)[i] = s[i]
        /\ \A i \in 1 .. Len(t) : (s \o t)[Len(s) + i] = t[i]
OBVIOUS

\* The keys of the layout: the letters come first, then the digits.
LEMMA LayoutOf ==
    /\ \A i \in 1 .. 26 : Plain[i] = 96 + i /\ WithShift[i] = 64 + i
    /\ \A i \in 1 .. 10 :
        /\ Plain[26 + i] = <<49, 50, 51, 52, 53, 54, 55, 56, 57, 48>>[i]
        /\ WithShift[26 + i] = <<33, 64, 35, 36, 37, 94, 38, 42, 40, 41>>[i]
    /\ \A i \in 1 .. 17 :
        /\ Plain[36 + i] =
            <<10, 0, 0, 9, 32, 45, 61, 91, 93, 92, 0, 59, 39, 96, 44, 46, 47>>[i]
        /\ WithShift[36 + i] =
            <<10, 0, 0, 9, 32, 95, 43, 123, 125, 124, 0, 58, 34, 126, 60, 62, 63>>[i]
<1> DEFINE a == [i \in 1 .. 26 |-> 96 + i]
           A == [i \in 1 .. 26 |-> 64 + i]
           b == <<49, 50, 51, 52, 53, 54, 55, 56, 57, 48>>
           B == <<33, 64, 35, 36, 37, 94, 38, 42, 40, 41>>
           c == <<10, 0, 0, 9, 32, 45, 61, 91, 93, 92, 0, 59, 39, 96, 44, 46, 47>>
           C == <<10, 0, 0, 9, 32, 95, 43, 123, 125, 124, 0, 58, 34, 126, 60, 62, 63>>
<1>1. /\ a \in Seq(Nat) /\ Len(a) = 26 /\ A \in Seq(Nat) /\ Len(A) = 26
      /\ \A i \in 1 .. 26 : a[i] = 96 + i /\ A[i] = 64 + i
  OBVIOUS
<1>2. b \in Seq(Nat) /\ Len(b) = 10 /\ B \in Seq(Nat) /\ Len(B) = 10
  OBVIOUS
<1>3. c \in Seq(Nat) /\ Len(c) = 17 /\ C \in Seq(Nat) /\ Len(C) = 17
  OBVIOUS
<1>4. Plain = (a \o b) \o c /\ WithShift = (A \o B) \o C
  BY DEF Plain, WithShift
<1> HIDE DEF a, A, b, B, c, C
<1>5. /\ a \o b \in Seq(Nat) /\ Len(a \o b) = Len(a) + Len(b)
      /\ \A i \in 1 .. Len(a) : (a \o b)[i] = a[i]
      /\ \A i \in 1 .. Len(b) : (a \o b)[Len(a) + i] = b[i]
  BY ONLY <1>1, <1>2, Concatenated
<1>6. /\ A \o B \in Seq(Nat) /\ Len(A \o B) = Len(A) + Len(B)
      /\ \A i \in 1 .. Len(A) : (A \o B)[i] = A[i]
      /\ \A i \in 1 .. Len(B) : (A \o B)[Len(A) + i] = B[i]
  BY ONLY <1>1, <1>2, Concatenated
<1>7. /\ \A i \in 1 .. 36 : Plain[i] = (a \o b)[i]
      /\ \A i \in 1 .. 17 : Plain[36 + i] = c[i]
  <2>1. a \o b \in Seq(Nat) /\ Len(a \o b) = 36
    BY ONLY <1>1, <1>2, <1>5
  <2>2. /\ \A i \in 1 .. Len(a \o b) : ((a \o b) \o c)[i] = (a \o b)[i]
        /\ \A i \in 1 .. Len(c) : ((a \o b) \o c)[Len(a \o b) + i] = c[i]
    BY ONLY <1>3, <2>1, Concatenated
  <2> QED BY <1>3, <1>4, <2>1, <2>2
<1>8. /\ \A i \in 1 .. 36 : WithShift[i] = (A \o B)[i]
      /\ \A i \in 1 .. 17 : WithShift[36 + i] = C[i]
  <2>1. A \o B \in Seq(Nat) /\ Len(A \o B) = 36
    BY ONLY <1>1, <1>2, <1>6
  <2>2. /\ \A i \in 1 .. Len(A \o B) : ((A \o B) \o C)[i] = (A \o B)[i]
        /\ \A i \in 1 .. Len(C) : ((A \o B) \o C)[Len(A \o B) + i] = C[i]
    BY ONLY <1>3, <2>1, Concatenated
  <2> QED BY <1>3, <1>4, <2>1, <2>2
<1>9. /\ \A i \in 1 .. 26 : i \in 1 .. 36
      /\ \A i \in 1 .. 10 : 26 + i \in 1 .. 36
  OBVIOUS
<1>10. \A i \in 1 .. 26 : Plain[i] = 96 + i /\ WithShift[i] = 64 + i
  BY <1>1, <1>5, <1>6, <1>7, <1>8, <1>9
<1>11. \A i \in 1 .. 10 : Plain[26 + i] = b[i] /\ WithShift[26 + i] = B[i]
  <2> SUFFICES ASSUME NEW i \in 1 .. 10
               PROVE  Plain[26 + i] = b[i] /\ WithShift[26 + i] = B[i]
    OBVIOUS
  <2>1. (a \o b)[26 + i] = b[i]
    BY ONLY <1>1, <1>2, <1>5
  <2>2. (A \o B)[26 + i] = B[i]
    BY ONLY <1>1, <1>2, <1>6
  <2> QED BY <1>7, <1>8, <1>9, <2>1, <2>2
<1> QED BY <1>7, <1>8, <1>10, <1>11 DEF b, B, c, C

\* What a host with the layout shows for the key of a character.
Typed(c) == IF c = 13 THEN 10 ELSE c

\* The table agrees with the layout.
LEMMA TableFitsLayout ==
    ASSUME NEW k \in KeyTable
    PROVE  CharOf(<<k[2], k[3]>>) = Typed(k[1])
<1> DEFINE char == IF k[2] = Shift THEN WithShift[k[3] - 3] ELSE Plain[k[3] - 3]
<1>0. CharOf(<<k[2], k[3]>>) = char
  BY DEF CharOf
<1>1. CASE k \in Letters
  <2>1. PICK i \in 0 .. 25 : k = <<97 + i, 0, 4 + i>>
    BY <1>1 DEF Letters
  <2>2. i + 1 \in 1 .. 26 /\ (4 + i) - 3 = i + 1 /\ 96 + (i + 1) = 97 + i /\ 97 + i # 13
    OBVIOUS
  <2>3. Plain[i + 1] = 97 + i
    BY <2>2, LayoutOf
  <2> QED BY <1>0, <2>1, <2>2, <2>3 DEF Typed, Shift
<1>2. CASE k \in Capitals
  <2>1. PICK i \in 0 .. 25 : k = <<65 + i, Shift, 4 + i>>
    BY <1>2 DEF Capitals
  <2>2. i + 1 \in 1 .. 26 /\ (4 + i) - 3 = i + 1 /\ 64 + (i + 1) = 65 + i /\ 65 + i # 13
    OBVIOUS
  <2>3. WithShift[i + 1] = 65 + i
    BY <2>2, LayoutOf
  <2> QED BY <1>0, <2>1, <2>2, <2>3 DEF Typed, Shift
<1>3. CASE k \in Digits
  <2>1. /\ Plain[27] = 49 /\ Plain[28] = 50 /\ Plain[29] = 51 /\ Plain[30] = 52
        /\ Plain[31] = 53 /\ Plain[32] = 54 /\ Plain[33] = 55 /\ Plain[34] = 56
        /\ Plain[35] = 57 /\ Plain[36] = 48
    BY LayoutOf
  <2>2. CASE k = <<48, 0, 39>>
    BY <1>0, <2>1, <2>2 DEF Typed, Shift
  <2>3. ASSUME NEW i \in 0 .. 8, k = <<49 + i, 0, 30 + i>>
        PROVE  char = Typed(k[1])
    <3>1. Plain[(30 + i) - 3] = 49 + i
      BY <2>1
    <3> QED BY <2>3, <3>1 DEF Typed, Shift
  <2> QED BY <1>0, <1>3, <2>2, <2>3 DEF Digits
<1>4. CASE k \in Blanks \union Punctuation
  <2>1. /\ Plain[37] = 10 /\ Plain[40] = 9 /\ Plain[41] = 32
        /\ Plain[42] = 45 /\ Plain[43] = 61 /\ Plain[44] = 91 /\ Plain[45] = 93
        /\ Plain[46] = 92 /\ Plain[48] = 59 /\ Plain[49] = 39 /\ Plain[50] = 96
        /\ Plain[51] = 44 /\ Plain[52] = 46 /\ Plain[53] = 47
    BY LayoutOf
  <2>2. CASE k \in Blanks
    BY <1>0, <2>1, <2>2 DEF Blanks, Typed, Shift
  <2>3. CASE k \in Punctuation
    BY <1>0, <2>1, <2>3 DEF Punctuation, Typed, Shift
  <2> QED BY <1>4, <2>2, <2>3
<1>5. CASE k \in ShiftedSymbols
  <2>1. /\ WithShift[27] = 33 /\ WithShift[28] = 64 /\ WithShift[29] = 35
        /\ WithShift[30] = 36 /\ WithShift[31] = 37 /\ WithShift[32] = 94
        /\ WithShift[33] = 38 /\ WithShift[34] = 42 /\ WithShift[35] = 40
        /\ WithShift[36] = 41
    BY LayoutOf
  <2>2. /\ WithShift[42] = 95 /\ WithShift[43] = 43 /\ WithShift[44] = 123
        /\ WithShift[45] = 125 /\ WithShift[46] = 124 /\ WithShift[48] = 58
        /\ WithShift[49] = 34 /\ WithShift[50] = 126 /\ WithShift[51] = 60
        /\ WithShift[52] = 62 /\ WithShift[53] = 63
    BY LayoutOf
  <2> QED BY <1>0, <1>5, <2>1, <2>2 DEF ShiftedSymbols, Typed, Shift
<1> QED BY <1>1, <1>2, <1>3, <1>4, <1>5 DEF KeyTable

\* So a press makes a host that has no key down type its character.
LEMMA PressIsTyped ==
    ASSUME NEW c \in Nat, NEW key \in PressReport(c)
    PROVE  CharOf(key) = Typed(c) /\ key[2] # 0
<1>1. PICK k \in KeyTable : k[1] = c /\ key = <<k[2], k[3]>>
  BY DEF PressReport
<1> HIDE DEF KeyTable
<1>2. key[2] = k[3] /\ k[3] # 0
  BY <1>1, TableTyped
<1> QED BY <1>1, <1>2, TableFitsLayout

\* The host as the reports for the first characters of the text leave it.
Upright == [down |-> 0, shown |-> <<>>]

HostAt(txt) == [down |-> 0, shown |-> Shown(txt)]

LEMMA HostFolds == \A rs : HostAfter(rs) = Folded(Reads, Upright, rs)
BY DEF HostAfter, Folded, Upright

\* A host reads one report after the other.
LEMMA HostReads ==
    ASSUME NEW rs \in Seq(Report), NEW r \in Report
    PROVE  HostAfter(Append(rs, r)) = Reads[HostAfter(rs)][r]
<1>1. Folded(Reads, Upright, Append(rs, r)) = Reads[Folded(Reads, Upright, rs)][r]
  BY FoldedAppend
<1> QED BY <1>1, HostFolds

\* A press and its release show a host one character more, and leave no key
\* down: the next press is noticed, whatever it is.
LEMMA PairIsRead ==
    ASSUME NEW rs \in Seq(Report), NEW txt \in Seq(Nat), HostAfter(rs) = HostAt(txt),
           NEW c \in Nat, NEW key \in PressReport(c)
    PROVE  /\ HostAfter(rs \o <<key, Released>>) = HostAt(Append(txt, c))
           /\ HostAfter(Append(rs, key)).shown = Shown(Append(txt, c))
<1>1. key \in Report /\ Released \in Report /\ CharOf(key) = Typed(c) /\ key[2] # 0
  BY PressTyped, PairTyped, PressIsTyped
<1>2. Append(rs, key) \in Seq(Report)
  BY <1>1
<1>3. rs \o <<key, Released>> = Append(Append(rs, key), Released)
  BY <1>1
<1>4. HostAfter(Append(rs, key)) = Reads[HostAt(txt)][key]
  BY <1>1, HostReads
<1>5. HostAfter(rs \o <<key, Released>>) = Reads[Reads[HostAt(txt)][key]][Released]
  BY <1>1, <1>2, <1>3, <1>4, HostReads
<1>6. Typed(c) \in Nat /\ Shown(txt) \in Seq(Nat) /\ Len(Shown(txt)) = Len(txt)
  BY DEF Typed, Shown
<1> DEFINE pressed == [down |-> key[2], shown |-> Append(Shown(txt), Typed(c))]
<1>7. HostAt(txt) \in Host
  BY <1>6 DEF HostAt, Host
<1>8. Reads[HostAt(txt)][key] = pressed
  BY <1>1, <1>7 DEF Reads, HostAt
<1>9. pressed \in Host
  BY <1>1, <1>6 DEF Host, Report
<1>10. Reads[pressed][Released] = [down |-> 0, shown |-> Append(Shown(txt), Typed(c))]
  BY <1>1, <1>9 DEF Reads, Released
<1>11. Shown(Append(txt, c)) = Append(Shown(txt), Typed(c))
  BY <1>6 DEF Shown, Typed
<1>12. pressed.shown = Append(Shown(txt), Typed(c))
  OBVIOUS
<1> HIDE DEF pressed
<1> QED BY <1>5, <1>8, <1>10, <1>11, <1>4, <1>12 DEF HostAt

\* What a host shows that has read some of the reports.
PartsShown(rs, txt) ==
    \A m \in 0 .. Len(rs) :
        HostAfter(SubSeq(rs, 1, m)).shown = Shown(SubSeq(txt, 1, (m + 1) \div 2))

\* The first reports stay the first ones when a pair follows.
LEMMA PairFollows ==
    ASSUME NEW rs \in Seq(Report), NEW key \in Report,
           NEW m \in 0 .. Len(rs) + 2
    PROVE  /\ m <= Len(rs) => SubSeq(rs \o <<key, Released>>, 1, m) = SubSeq(rs, 1, m)
           /\ m = Len(rs) + 1 => SubSeq(rs \o <<key, Released>>, 1, m) = Append(rs, key)
           /\ m = Len(rs) + 2 =>
                SubSeq(rs \o <<key, Released>>, 1, m) = rs \o <<key, Released>>
<1>1. Released \in Report
  BY PairTyped
<1>2. CASE m <= Len(rs)
  BY <1>1, <1>2
<1>3. CASE m = Len(rs) + 1
  BY <1>1, <1>3
<1>4. CASE m = Len(rs) + 2
  BY <1>1, <1>4
<1> QED BY <1>2, <1>3, <1>4

\* Two reports for a character.
LEMMA Halves ==
    ASSUME NEW n \in Nat
    PROVE  ((2 * n + 1) + 1) \div 2 = n + 1 /\ ((2 * n + 2) + 1) \div 2 = n + 1
OBVIOUS

\* What the loop has come to: the host shows the characters before "pos".
TypedSoFar ==
    /\ status # "error" =>
        /\ Len(reports) = 2 * (pos - 1)
        /\ HostAfter(reports) = HostAt(SubSeq(text, 1, pos - 1))
        /\ PartsShown(reports, text)
    /\ status = "ok" => pos = Len(text) + 1

\* A turn of the loop types the next character.
LEMMA NextTyped == TypeOK /\ TypedSoFar /\ [Next]_vars => TypedSoFar'
<1> SUFFICES ASSUME TypeOK, TypedSoFar, [Next]_vars PROVE TypedSoFar'
  OBVIOUS
<1>0. text \in Seq(Nat) /\ Len(text) \in Nat
  BY TextsAssumption DEF TypeOK
<1>1. CASE PressAndRelease
  <2>1. PICK key \in PressReport(text[pos]) : reports' = reports \o <<key, Released>>
    BY <1>1 DEF PressAndRelease
  <2>2. pos \in 1 .. Len(text) /\ pos' - 1 = pos /\ text' = text /\ status' = "loop"
    BY <1>0, <1>1 DEF PressAndRelease, TypeOK
  <2>3. /\ text[pos] \in Nat /\ SubSeq(text, 1, pos - 1) \in Seq(Nat)
        /\ SubSeq(text, 1, pos) = Append(SubSeq(text, 1, pos - 1), text[pos])
    BY ONLY <1>0, <2>2
  <2>4. /\ HostAfter(reports) = HostAt(SubSeq(text, 1, pos - 1))
        /\ Len(reports) = 2 * (pos - 1) /\ PartsShown(reports, text)
    BY <1>1 DEF TypedSoFar, PressAndRelease
  <2>5. reports \in Seq(Report) /\ key \in Report
    <3>1. reports \in Seq(Report)
      BY DEF TypeOK
    <3>2. key \in Report
      BY <2>3, PressTyped
    <3> QED BY <3>1, <3>2
  <2>6. /\ HostAfter(reports') = HostAt(SubSeq(text, 1, pos))
        /\ HostAfter(Append(reports, key)).shown = Shown(SubSeq(text, 1, pos))
    <3> DEFINE start == SubSeq(text, 1, pos - 1)
               c == text[pos]
    <3>1. start \in Seq(Nat) /\ c \in Nat /\ key \in PressReport(c)
          /\ HostAfter(reports) = HostAt(start)
      BY <2>3, <2>4
    <3>2. SubSeq(text, 1, pos) = Append(start, c)
      BY <2>3
    <3> HIDE DEF start, c
    <3>3. /\ HostAfter(reports \o <<key, Released>>) = HostAt(Append(start, c))
          /\ HostAfter(Append(reports, key)).shown = Shown(Append(start, c))
      BY <2>5, <3>1, PairIsRead
    <3> QED BY <2>1, <3>2, <3>3
  <2>7. Len(reports') = Len(reports) + 2 /\ Len(reports) \in Nat
    BY <2>1, <2>5
  <2>8. Len(reports') = 2 * pos
    BY ONLY <1>0, <2>2, <2>4, <2>7
  <2>9. ASSUME NEW m \in 0 .. Len(reports')
        PROVE  HostAfter(SubSeq(reports', 1, m)).shown
                  = Shown(SubSeq(text, 1, (m + 1) \div 2))
    <3>1. m \in 0 .. Len(reports) + 2
      BY <2>7
    <3>2. CASE m <= Len(reports)
      <4>1. m \in 0 .. Len(reports)
        BY <2>7, <3>1, <3>2
      <4>2. SubSeq(reports', 1, m) = SubSeq(reports, 1, m)
        BY <2>1, <2>5, <3>1, <3>2, PairFollows
      <4> QED BY <2>4, <4>1, <4>2 DEF PartsShown
    <3>3. CASE m = Len(reports) + 1
      <4>1. (m + 1) \div 2 = pos
        <5>1. pos - 1 \in Nat /\ m = 2 * (pos - 1) + 1 /\ (pos - 1) + 1 = pos
          BY ONLY <1>0, <2>2, <2>4, <3>3
        <5> QED BY <5>1, Halves
      <4>2. SubSeq(reports', 1, m) = Append(reports, key)
        BY <2>1, <2>5, <3>1, <3>3, PairFollows
      <4> QED BY ONLY <2>6, <4>1, <4>2
    <3>4. CASE m = Len(reports) + 2
      <4>1. (m + 1) \div 2 = pos
        <5>1. pos - 1 \in Nat /\ m = 2 * (pos - 1) + 2 /\ (pos - 1) + 1 = pos
          BY ONLY <1>0, <2>2, <2>4, <3>4
        <5> QED BY <5>1, Halves
      <4>2. SubSeq(reports', 1, m) = reports'
        BY <2>1, <2>5, <3>1, <3>4, PairFollows
      <4>3. HostAt(SubSeq(text, 1, pos)).shown = Shown(SubSeq(text, 1, pos))
        BY DEF HostAt
      <4> QED BY ONLY <2>6, <4>1, <4>2, <4>3
    <3>5. m <= Len(reports) \/ m = Len(reports) + 1 \/ m = Len(reports) + 2
      BY ONLY <2>7, <3>1
    <3> QED BY ONLY <3>2, <3>3, <3>4, <3>5
  <2>10. PartsShown(reports', text')
    BY ONLY <2>2, <2>9 DEF PartsShown
  <2> QED BY <2>2, <2>6, <2>8, <2>10 DEF TypedSoFar
<1>2. CASE Unsupported
  BY <1>2 DEF Unsupported, TypedSoFar
<1>3. CASE Finish
  <2>1. pos = Len(text) + 1
    BY <1>0, <1>3 DEF Finish, TypeOK
  <2> QED BY <1>3, <2>1 DEF Finish, TypedSoFar
<1>4. CASE UNCHANGED vars
  BY <1>4 DEF vars, TypedSoFar
<1> QED BY <1>1, <1>2, <1>3, <1>4 DEF Next

\* report.go:9, 16: a host with the layout that reads the reports of any text
\* that is accepted shows the text, with each character once, and is left
\* with no key down; after any part of them it shows the start of the text.
THEOREM TextTyped == Spec => []TextIsTyped
<1>1. Init => TypedSoFar
  <2> SUFFICES ASSUME Init PROVE TypedSoFar
    OBVIOUS
  <2>1. text \in Seq(Nat) /\ pos - 1 = 0 /\ SubSeq(text, 1, 0) = <<>>
    BY TextsAssumption DEF Init
  <2>2. Shown(<<>>) = <<>>
    BY DEF Shown
  <2>3. HostAfter(<<>>) = HostAt(<<>>)
    BY <2>2, HostFolds, FoldedEmpty DEF HostAt, Upright
  <2>4. /\ Len(<<>>) = 0 /\ \A m \in 0 .. Len(<<>>) : m = 0 /\ (m + 1) \div 2 = 0
        /\ SubSeq(<<>>, 1, 0) = <<>>
    OBVIOUS
  <2>5. HostAt(<<>>).shown = Shown(<<>>)
    BY DEF HostAt
  <2>6. PartsShown(<<>>, text)
    <3> SUFFICES ASSUME NEW m \in 0 .. Len(<<>>)
                 PROVE  HostAfter(SubSeq(<<>>, 1, m)).shown
                           = Shown(SubSeq(text, 1, (m + 1) \div 2))
      BY DEF PartsShown
    <3>1. m = 0 /\ (m + 1) \div 2 = 0
      BY <2>4
    <3>2. SubSeq(<<>>, 1, m) = <<>> /\ SubSeq(text, 1, (m + 1) \div 2) = <<>>
      BY ONLY <2>1, <2>4, <3>1
    <3> QED BY ONLY <2>3, <2>5, <3>2
  <2>7. reports = <<>> /\ status = "loop"
    BY DEF Init
  <2>8. Len(reports) = 2 * (pos - 1)
    BY ONLY <2>1, <2>4, <2>7
  <2>9. HostAfter(reports) = HostAt(SubSeq(text, 1, pos - 1))
    BY ONLY <2>1, <2>3, <2>7
  <2>10. PartsShown(reports, text)
    BY ONLY <2>6, <2>7
  <2> QED BY <2>7, <2>8, <2>9, <2>10 DEF TypedSoFar
<1>2. TypeOK /\ TypedSoFar => TextIsTyped
  <2> SUFFICES ASSUME TypeOK, TypedSoFar, status = "ok" PROVE TextIsTyped
    BY DEF TextIsTyped
  <2>1. text \in Seq(Nat) /\ pos - 1 = Len(text)
    BY TextsAssumption DEF TypeOK, TypedSoFar
  <2>2. SubSeq(text, 1, pos - 1) = text
    BY ONLY <2>1
  <2>3. HostAfter(reports) = HostAt(text) /\ PartsShown(reports, text)
    BY <2>2 DEF TypedSoFar
  <2> QED BY <2>3 DEF TextIsTyped, HostAt, PartsShown
<1> QED BY <1>1, <1>2, NextTyped, TypeCorrect, PTL DEF Spec

============================================================================
