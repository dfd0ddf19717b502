SPECIFICATION Spec
\* a  A  1  )  0  -  _  newline  carriage return  e acute
CONSTANTS
    Alphabet = {97, 65, 49, 41, 48, 45, 95, 10, 13, 233}
    MaxLen = 3
    Texts <- ShortTexts
INVARIANTS TypeOK PressesAreReleased TextIsTyped
CHECK_DEADLOCK FALSE
