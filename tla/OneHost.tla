------------------------------- MODULE OneHost -------------------------------
(***************************************************************************)
(* What kbd-rpi promises its user when one command runs at a time and      *)
(* disconnect_others is on (README.md:142): the keyboard is linked to at   *)
(* most one host, it leaves a host before it takes another, and its record *)
(* is changed only to the host it is linked to, or erased when it has      *)
(* left.  The steps of a command, the files and the faults are Switcher's  *)
(* business; Switcher implements this specification.                       *)
(***************************************************************************)
CONSTANTS
    MACs,       \* the hosts
    Entry,      \* what the record may hold: a target and its address
    NoRecord    \* nothing recorded

VARIABLES
    linked,     \* the hosts linked to the keyboard
    record      \* the entry "status" would report

Init == linked = {} /\ record = NoRecord

\* The link ends: by command, or by itself.
Leave == linked' = {} /\ UNCHANGED record

\* A new link: there must be none.
Take(m) == linked = {} /\ linked' = {m} /\ UNCHANGED record

\* The record comes to name e, whose host is the only one linked, if any.
Note(e) == linked \subseteq {e.mac} /\ record' = e /\ UNCHANGED linked

\* The record is erased: no host is left that it should name.
Erase == linked' = {} /\ record' = NoRecord

Next ==
    \/ Leave \/ Erase
    \/ \E m \in MACs : Take(m)
    \/ \E e \in Entry : Note(e)

Spec == Init /\ [][Next]_<<linked, record>>

============================================================================
