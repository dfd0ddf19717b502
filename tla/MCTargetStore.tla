--------------------------- MODULE MCTargetStore ---------------------------
(* Small instances of TargetStore and TargetNames for TLC.                 *)
EXTENDS TargetNames

\* P   P 2   P!   two blanks, one of them ideographic   e acute   List   the
\* Kelvin sign
ManyNames ==
    {<<80>>, <<80, 32, 50>>, <<80, 33>>, <<32, 12288>>, <<233>>,
     <<76, 105, 115, 116>>, <<8490>>}

\* Two names with a key in common at the second try.
TwoNames == {<<80>>, <<80, 32, 50>>}

TheBlanks == {n \in Names : IsBlank(n)}

TheKeyOf == [n \in Names |-> [i \in Tries |-> KeyTried(n, i)]]

AllKeys == {KeyTried(n, i) : n \in Names, i \in Tries}

TheGoodKeys == {k \in AllKeys : ValidName(k)}

============================================================================
