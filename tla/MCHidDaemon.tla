---------------------------- MODULE MCHidDaemon ----------------------------
(* Small instances of HidDaemon for TLC: the test text.                    *)
EXTENDS HidDaemon

CONSTANTS a, b

NoText == <<>>
OneKey == <<a, NoKey>>
TwoKeys == <<a, NoKey, b, NoKey>>

============================================================================
