------------------------------ MODULE HidReport ------------------------------
(***************************************************************************)
(* internal/hidreport/report.go: the keyboard reports that type a text.    *)
(* Of the eight bytes of a report only the modifier and the first key code *)
(* are ever set; a report is that pair.  Characters are code points.       *)
(***************************************************************************)
EXTENDS Naturals, Sequences, SequencesExt

CONSTANTS Texts         \* the texts that are typed

ASSUME TextsAssumption == Texts \subseteq Seq(Nat)

Shift == 2              \* modifierLeftShift
Released == <<0, 0>>    \* ReleaseReport

\* The table of keyForRune: character, modifier, key code.  The ranges a-z,
\* A-Z and 1-9 are arithmetic on the character.
Letters == {<<97 + i, 0, 4 + i>> : i \in 0 .. 25}
Capitals == {<<65 + i, Shift, 4 + i>> : i \in 0 .. 25}
Digits == {<<49 + i, 0, 30 + i>> : i \in 0 .. 8} \union {<<48, 0, 39>>}
Blanks == {<<10, 0, 40>>, <<13, 0, 40>>, <<9, 0, 43>>, <<32, 0, 44>>}

\* - = [ ] \ ; ' ` , . / from key code 45 on, with a gap at 50
Punctuation ==
    {<<45, 0, 45>>, <<61, 0, 46>>, <<91, 0, 47>>, <<93, 0, 48>>, <<92, 0, 49>>,
     <<59, 0, 51>>, <<39, 0, 52>>, <<96, 0, 53>>, <<44, 0, 54>>, <<46, 0, 55>>,
     <<47, 0, 56>>}

\* _ + { } | : " ~ < > ? on the same keys, and ! @ # $ % ^ & * ( ) on the digits
ShiftedSymbols ==
    {<<95, Shift, 45>>, <<43, Shift, 46>>, <<123, Shift, 47>>, <<125, Shift, 48>>,
     <<124, Shift, 49>>, <<58, Shift, 51>>, <<34, Shift, 52>>, <<126, Shift, 53>>,
     <<60, Shift, 54>>, <<62, Shift, 55>>, <<63, Shift, 56>>,
     <<33, Shift, 30>>, <<64, Shift, 31>>, <<35, Shift, 32>>, <<36, Shift, 33>>,
     <<37, Shift, 34>>, <<94, Shift, 35>>, <<38, Shift, 36>>, <<42, Shift, 37>>,
     <<40, Shift, 38>>, <<41, Shift, 39>>}

KeyTable ==
    Letters \union Capitals \union Digits \union Blanks
        \union Punctuation \union ShiftedSymbols

\* keyForRune and PressReport: the report that presses c, or none.
PressReport(c) == {<<k[2], k[3]>> : k \in {e \in KeyTable : e[1] = c}}

VARIABLES
    text,       \* what is to be typed
    pos,        \* the character the loop of ReportsForText comes to
    reports,    \* the reports so far
    status      \* "loop", "ok", or "error": the text cannot be typed

vars == <<text, pos, reports, status>>

\* The key codes are those the report map announces (hid.go:681, 684).
Report == (0 .. 255) \X (0 .. 101)

\* An error comes without reports.
TypeOK ==
    /\ text \in Texts
    /\ pos \in 1 .. Len(text) + 1
    /\ reports \in Seq(Report)
    /\ status \in {"loop", "ok", "error"}
    /\ status = "error" => reports = <<>>

Init == text \in Texts /\ pos = 1 /\ reports = <<>> /\ status = "loop"

\* Mutant of PressAndRelease: there is no release between two presses.
PressOnly ==
    /\ status = "loop"
    /\ pos <= Len(text)
    /\ \E key \in PressReport(text[pos]) :
        reports' = reports \o (IF pos = Len(text) THEN <<key, Released>> ELSE <<key>>)
    /\ pos' = pos + 1
    /\ UNCHANGED <<text, status>>

\* One turn of the loop.
PressAndRelease ==
    /\ status = "loop"
    /\ pos <= Len(text)
    /\ \E key \in PressReport(text[pos]) : reports' = reports \o <<key, Released>>
    /\ pos' = pos + 1
    /\ UNCHANGED <<text, status>>

\* Mutant of Unsupported: what came before the character is returned too.
UnsupportedKeepsStart ==
    /\ status = "loop"
    /\ pos <= Len(text)
    /\ PressReport(text[pos]) = {}
    /\ status' = "error"
    /\ UNCHANGED <<text, pos, reports>>

\* A character without a key: the error is all that is returned.
Unsupported ==
    /\ status = "loop"
    /\ pos <= Len(text)
    /\ PressReport(text[pos]) = {}
    /\ reports' = <<>>
    /\ status' = "error"
    /\ UNCHANGED <<text, pos>>

Finish ==
    /\ status = "loop"
    /\ pos > Len(text)
    /\ status' = "ok"
    /\ UNCHANGED <<text, pos, reports>>

Next == PressAndRelease \/ Unsupported \/ Finish

Spec == Init /\ [][Next]_vars

----------------------------------------------------------------------------
(* Properties.                                                             *)

\* Presses and releases alternate and no press is the release report: what
\* SendReports needs of a batch (ReportsAssumption of HidApplication) and
\* what leaves no key down when a batch has been sent (hid.go:192).
PressesAreReleased ==
    /\ Len(reports) % 2 = 0
    /\ \A i \in 1 .. Len(reports) : i % 2 = 0 <=> reports[i] = Released

(* A host with a US keyboard layout, as the USB HID usage tables give it:  *)
(* the characters of the key codes from 4 on, without and with Shift; 0 is *)
(* a key that types nothing.                                               *)

Plain ==
    [i \in 1 .. 26 |-> 96 + i] \o <<49, 50, 51, 52, 53, 54, 55, 56, 57, 48>>
        \o <<10, 0, 0, 9, 32, 45, 61, 91, 93, 92, 0, 59, 39, 96, 44, 46, 47>>

WithShift ==
    [i \in 1 .. 26 |-> 64 + i] \o <<33, 64, 35, 36, 37, 94, 38, 42, 40, 41>>
        \o <<10, 0, 0, 9, 32, 95, 43, 123, 125, 124, 0, 58, 34, 126, 60, 62, 63>>

CharOf(r) == IF r[1] = Shift THEN WithShift[r[2] - 3] ELSE Plain[r[2] - 3]

Host == [down : 0 .. 101, shown : Seq(Nat)]

\* A host types a character when a key goes down that was not down before.
Reads ==
    [host \in Host |-> [r \in Report |->
        [down |-> r[2],
         shown |-> IF r[2] \in {0, host.down} THEN host.shown
                                              ELSE Append(host.shown, CharOf(r))]]]

HostAfter(rs) ==
    FoldLeft(LAMBDA host, r : Reads[host][r], [down |-> 0, shown |-> <<>>], rs)

\* A carriage return is typed as the Enter key.
Shown(txt) == [i \in 1 .. Len(txt) |-> IF txt[i] = 13 THEN 10 ELSE txt[i]]

\* README.md:8 and report.go:9: a text that is accepted is what a host shows
\* when it has read the reports, a letter typed twice and one in both cases
\* included, and no key is down at the end.  One that has read a part of them,
\* as when the sending fails, shows the start of the text: each press, as soon
\* as it is read, one character more.
TextIsTyped ==
    status = "ok" =>
        /\ HostAfter(reports) = [down |-> 0, shown |-> Shown(text)]
        /\ \A m \in 0 .. Len(reports) :
            HostAfter(SubSeq(reports, 1, m)).shown = Shown(SubSeq(text, 1, (m + 1) \div 2))

============================================================================
