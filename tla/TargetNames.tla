----------------------------- MODULE TargetNames -----------------------------
(***************************************************************************)
(* How the targets of TargetStore are spelled: the key that kbd-hid makes  *)
(* of a host's name (targetKey in internal/hidapp/app.go), and the way of  *)
(* a key that a user types: kbd's arguments (internal/localapp/app.go),    *)
(* the command line that ssh hands to a shell on the Pi, and kbd-rpi's     *)
(* arguments (internal/rpiapp/app.go).  A name, a key and a word are       *)
(* sequences of code points.                                               *)
(***************************************************************************)
EXTENDS TargetStore, SequencesExt

Dash == 45
Blank == 32

LowerLetters == 97 .. 122
Digits == 48 .. 57

\* unicode.IsSpace: the code points with the property White_Space.
Spaces ==
    9 .. 13 \union 8192 .. 8202
        \union {Blank, 133, 160, 5760, 8232, 8233, 8239, 8287, 12288}

\* The names that strings.TrimSpace leaves nothing of.
IsBlank(name) == \A i \in DOMAIN name : name[i] \in Spaces

\* strings.ToLower; two letters that are not ASCII have a lower case that is.
ToLower(c) ==
    CASE c \in 65 .. 90 -> c + 32
      [] c = 304 -> 105     \* I with a dot above
      [] c = 8490 -> 107    \* the Kelvin sign
      [] OTHER -> c

\* What a key keeps of a name; the rest becomes dashes.
Kept == LowerLetters \union Digits \union {46, 95}

\* One character of the name: runs of other characters become one dash, at
\* the start none.
Dashes ==
    [key \in Seq(Nat) |-> [c \in Nat |->
        IF ToLower(c) \in Kept THEN Append(key, ToLower(c))
        ELSE IF key # <<>> /\ Last(key) # Dash THEN Append(key, Dash)
        ELSE key]]

Dashed(name) == FoldLeft(LAMBDA key, c : Dashes[key][c], <<>>, name)

\* strings.Trim(key, "-")
Trimmed(key) ==
    LET on == {i \in DOMAIN key : key[i] # Dash}
    IN  IF on = {} THEN <<>> ELSE SubSeq(key, Min(on), Max(on))

\* Mutant of TargetKey: nothing stands for a name that leaves nothing.
TargetKeyMayBeEmpty(name) == Trimmed(Dashed(name))

TargetKey(name) ==
    LET key == Trimmed(Dashed(name))
    IN  IF key = <<>> THEN <<116, 97, 114, 103, 101, 116>> ELSE key   \* target

\* strconv of a positive number
Decimal[n \in Nat] ==
    IF n < 10 THEN <<48 + n>> ELSE Decimal[n \div 10] \o <<48 + (n % 10)>>

\* The i-th key that uniqueTargetKey tries.
KeyTried(name, i) ==
    IF i = 1 THEN TargetKey(name) ELSE TargetKey(name) \o <<Dash>> \o Decimal[i]

\* config.ValidateName: letters, digits, '_', '-', '.'
ValidName(word) ==
    /\ word # <<>>
    /\ \A i \in DOMAIN word : word[i] \in Kept \union 65 .. 90 \union {Dash}

\* What TargetStore does not know of names and keys.  A user may choose any key.
ASSUME SpellingAssumption ==
    /\ Names \union Keys \subseteq Seq(Nat)
    /\ 0 \notin Tries
    /\ KeyOf = [n \in Names |-> [i \in Tries |-> KeyTried(n, i)]]
    /\ GoodKeys = {k \in Keys : ValidName(k)}
    /\ BlankNames = {n \in Names : IsBlank(n)}

----------------------------------------------------------------------------
(* The way of a typed word.                                                *)

SwitchWord == <<115, 119, 105, 116, 99, 104>>                       \* switch
ListWord == <<108, 105, 115, 116>>                                  \* list
StatusWord == <<115, 116, 97, 116, 117, 115>>                       \* status
CompletionWord == <<99, 111, 109, 112, 108, 101, 116, 105, 111, 110>> \* completion

CompleteTargetsWord ==                              \* __complete-targets
    <<95, 95, 99, 111, 109, 112, 108, 101, 116, 101, 45, 116, 97, 114, 103, 101,
      116, 115>>

\* The first words that kbd does not take for a target.
Commands ==
    {SwitchWord, ListWord, StatusWord, CompletionWord, CompleteTargetsWord}

\* flag.Parse, after --config: a first word with a dash is a flag, unless it
\* is a dash alone or the end of the flags; kbd has no other flag.
Operands(args) ==
    IF args # <<>> /\ Head(args) = <<Dash, Dash>> THEN Tail(args)
    ELSE IF args # <<>> /\ Len(Head(args)) > 1 /\ Head(args)[1] = Dash THEN <<>>
    ELSE args

\* Mutant of Sent: a word that is no command of kbd's is left to kbd-rpi.
SentAsTyped(args) ==
    LET ops == Operands(args)
    IN  CASE Len(ops) = 2 /\ ops[1] = SwitchWord /\ ValidName(ops[2]) -> ops
          [] Len(ops) = 1 /\ ops[1] \notin {SwitchWord, CompletionWord} -> ops
          [] OTHER -> <<>>

\* What kbd has ssh run after the remote command; nothing if it refuses.
Sent(args) ==
    LET ops == Operands(args)
    IN  CASE Len(ops) = 2 /\ ops[1] = SwitchWord /\ ValidName(ops[2]) -> ops
          [] Len(ops) = 1 /\ ops[1] \in Commands \ {SwitchWord, CompletionWord} -> ops
          [] Len(ops) = 1 /\ ops[1] \notin Commands /\ ValidName(ops[1]) ->
                <<SwitchWord, ops[1]>>
          [] OTHER -> <<>>

\* ssh joins the words with blanks.
Joins == [line \in Seq(Nat) |-> [word \in Seq(Nat) |-> line \o <<Blank>> \o word]]

Line(words) == FoldLeft(LAMBDA line, word : Joins[line][word], <<>>, words)

\* The shell on the Pi splits the line: a blank ends a word, if there is one.
Splitting == [words : Seq(Seq(Nat)), open : Seq(Nat)]

Splits ==
    [s \in Splitting |-> [c \in Nat |->
        IF c # Blank THEN [s EXCEPT !.open = Append(@, c)]
        ELSE IF s.open = <<>> THEN s
        ELSE [words |-> Append(s.words, s.open), open |-> <<>>]]]

Words(line) ==
    FoldLeft(LAMBDA s, c : Splits[s][c],
             [words |-> <<>>, open |-> <<>>], Append(line, Blank)).words

\* kbd-rpi accepts one valid name after "switch"; nothing if it refuses.
ParseSwitchRequest(args) ==
    IF Len(args) = 1 /\ ValidName(args[1]) THEN args[1] ELSE <<>>

\* The target that kbd-rpi, run with these words, is to switch to.
SwitchRequest(words) ==
    IF words # <<>> /\ Head(words) = SwitchWord THEN ParseSwitchRequest(Tail(words))
    ELSE <<>>

\* The target that "kbd args" switches to.
Reached(args) == SwitchRequest(Words(Line(Sent(args))))

\* What "kbd list" and the completion of "kbd switch" offer.
Candidates(c) == {k \in Keys : c[k] # Absent}

\* The keys that kbd-hid makes.
Made == {KeyOf[n][i] : n \in Names, i \in Tries}

----------------------------------------------------------------------------

\* The user can switch to every target from the PC, and to one whose key
\* kbd-hid has made, whatever the host is called, by the key alone (README.md's
\* shorthand) unless it is the name of a command.  A key that a user has chosen
\* may look like a flag.
LearnedCanBeNamed ==
    conf # Unreadable =>
        \A k \in Candidates(conf) :
            /\ Reached(<<SwitchWord, k>>) = k
            /\ k \in Made \ Commands => Reached(<<k>>) = k

\* A new host that has a name, in whatever script, is not refused: the config
\* with it passes the validation of keys and names, whatever is known already
\* (hidapp/app.go:211 against config.go:177 and 188).
NamedHostIsSaved ==
    conf # Unreadable =>
        \A n \in Names, m \in MACs \ MACsOf(conf) :
            IsBlank(n) \/ FreeTries(conf, n) = {} \/ Valid(Added(conf, n, m))

============================================================================
