------------------------------ MODULE TargetMap ------------------------------
(***************************************************************************)
(* What kbd-hid promises of the targets (README.md:169): a host that it    *)
(* does not know gets a key that is not in use, for good.  How the file is *)
(* loaded and replaced, and what fails, is TargetStore's business;         *)
(* TargetStore implements this when a daemon is alone with its file.       *)
(***************************************************************************)
CONSTANTS
    Keys,       \* target keys
    Target,     \* what a key may stand for: a name and an address
    Absent      \* no target under a key

VARIABLE targets

Init == targets = [k \in Keys |-> Absent]

\* The host t becomes the target of k.
Register(k, t) ==
    /\ targets[k] = Absent
    /\ \A l \in Keys : targets[l] # Absent => targets[l].mac # t.mac
    /\ targets' = [targets EXCEPT ![k] = t]

Next == \E k \in Keys, t \in Target : Register(k, t)

Spec == Init /\ [][Next]_targets

============================================================================
