----------------------------- MODULE MCSwitcher -----------------------------
(* Small instances of Switcher for TLC: the configs the user may have.     *)
EXTENDS Switcher, TLC

CONSTANTS t1, t2, m1, m2

\* Each target has its host.
Both == [mac |-> (t1 :> m1 @@ t2 :> m2), others |-> TRUE]

\* An edit has moved t1 to the other host and removed t2.
Moved == [mac |-> (t1 :> m2 @@ t2 :> NoMAC), others |-> TRUE]

\* disconnect_others: false.
Keep == [mac |-> (t1 :> m1 @@ t2 :> m2), others |-> FALSE]

BothOnly == {Both}
Exclusive == {Both, Moved, InvalidConfig}
EveryConfig == Exclusive \union {Keep}

\* Slots and inodes are interchangeable.
Symmetry == Permutations(Procs) \union Permutations(Inodes)

============================================================================
