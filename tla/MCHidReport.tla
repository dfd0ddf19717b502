---------------------------- MODULE MCHidReport ----------------------------
(* The texts of up to MaxLen characters over Alphabet, and each character  *)
(* of ASCII by itself.                                                     *)
EXTENDS HidReport

CONSTANTS Alphabet, MaxLen

ShortTexts ==
    UNION {[1 .. n -> Alphabet] : n \in 0 .. MaxLen} \union {<<c>> : c \in 0 .. 127}

============================================================================
