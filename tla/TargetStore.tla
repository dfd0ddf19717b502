----------------------------- MODULE TargetStore -----------------------------
(***************************************************************************)
(* The "targets" of config.yaml and how kbd-hid adds a host to them        *)
(* (cachePeer in internal/hidapp/app.go, LoadRPI and SaveRPI in            *)
(* internal/config/config.go): load the file, choose a key, write a        *)
(* temporary file and rename it over the config.  A reader of config.yaml  *)
(* opens one inode, so a config is read whole; but nothing keeps the file  *)
(* from changing between the load and the rename.                          *)
(***************************************************************************)
EXTENDS Naturals

CONSTANTS
    Writers,    \* kbd-hid processes that may learn a host
    Keys,       \* target keys
    Names,      \* names of hosts
    BlankNames, \* names that are empty but for white space
    GoodKeys,   \* keys that config.ValidateName accepts
    MACs,       \* Bluetooth addresses, all upper case
    Tries,      \* how often uniqueTargetKey tries; a bound only for TLC
    KeyOf,      \* KeyOf[n][i]: the i-th key tried for a host called n
    Absent,     \* no target under a key
    Unreadable, \* a config.yaml that LoadRPI refuses
    Faults      \* what may go wrong

\* "io"       a step of SaveRPI fails
\* "crash"    the daemon is killed, or ends while its worker is saving
\* "edit"     the user replaces config.yaml
\* "inplace"  the user's editor rewrites config.yaml in place
FaultKinds == {"io", "crash", "edit", "inplace"}

Target == [name : Names, mac : MACs]
Config == [Keys -> Target \union {Absent}]

ASSUME StoreAssumption ==
    /\ Tries \subseteq Nat
    /\ BlankNames \subseteq Names
    /\ KeyOf \in [Names -> [Tries -> Keys]]
    /\ Absent \notin Target
    /\ Unreadable \notin Config
    /\ Faults \subseteq FaultKinds

VARIABLES
    conf,       \* config.yaml
    editing,    \* the user's editor has truncated config.yaml
    pc,         \* where each writer is: "idle", "temp" or "rename"
    new,        \* the config each writer is to save
    temps,      \* writers whose temporary file exists
    orphans     \* writers that died and left a temporary file behind

vars == <<conf, editing, pc, new, temps, orphans>>

MACsOf(c) == {c[k].mac : k \in {l \in Keys : c[l] # Absent}}

\* SaveRPI validates what it is given, as LoadRPI does.
Valid(c) ==
    \A k \in Keys : c[k] # Absent => k \in GoodKeys /\ c[k].name \notin BlankNames

ValidConfigs == {c \in Config : Valid(c)}

\* Every address is the target of one key.
UniqueMACs(c) ==
    \A k, l \in Keys : c[k] # Absent /\ c[l] # Absent /\ c[k].mac = c[l].mac => k = l

TypeOK ==
    /\ conf \in ValidConfigs \union {Unreadable}
    /\ editing \in BOOLEAN
    /\ pc \in [Writers -> {"idle", "temp", "rename"}]
    /\ new \in [Writers -> ValidConfigs \union {Unreadable}]
    /\ temps \subseteq Writers
    /\ orphans \subseteq Writers
    /\ \A w \in Writers : pc[w] # "idle" => new[w] # Unreadable

Init ==
    /\ conf = [k \in Keys |-> Absent]
    /\ editing = FALSE
    /\ pc = [w \in Writers |-> "idle"]
    /\ new = [w \in Writers |-> Unreadable]
    /\ temps = {}
    /\ orphans = {}

----------------------------------------------------------------------------
(* cachePeer.                                                              *)

\* The tries that come to a key that no target has.
FreeTries(c, n) == {i \in Tries : c[KeyOf[n][i]] = Absent}

\* uniqueTargetKey: the first key tried that no target has.
UniqueKey(c, n) ==
    LET free == FreeTries(c, n)
    IN  KeyOf[n][CHOOSE i \in free : \A j \in free : i <= j]

\* cachePeer returns, with an error or without (what the daemon makes of the
\* error is in HidDaemon); the temporary file is removed, if there is one.
Done(w) ==
    /\ pc' = [pc EXCEPT ![w] = "idle"]
    /\ new' = [new EXCEPT ![w] = Unreadable]
    /\ temps' = temps \ {w}

\* Mutant of Added: the key is not made unique.
AddedOver(c, n, m) == [c EXCEPT ![KeyOf[n][1]] = [name |-> n, mac |-> m]]

\* The config with one more target; there is a key for it.
Added(c, n, m) == [c EXCEPT ![UniqueKey(c, n)] = [name |-> n, mac |-> m]]

\* Mutant of Learn: a host is looked up by its name.
LearnByName(w, n, m) ==
    /\ pc[w] = "idle"
    /\ UNCHANGED <<conf, editing, orphans>>
    /\ \/ conf = Unreadable /\ Done(w)
       \/ /\ conf # Unreadable
          /\ \E k \in Keys : conf[k] # Absent /\ conf[k].name = n
          /\ Done(w)
       \/ /\ conf # Unreadable
          /\ \A k \in Keys : conf[k] # Absent => conf[k].name # n
          /\ FreeTries(conf, n) # {}
          /\ IF Valid(Added(conf, n, m))
             THEN /\ pc' = [pc EXCEPT ![w] = "temp"]
                  /\ new' = [new EXCEPT ![w] = Added(conf, n, m)]
                  /\ UNCHANGED temps
             ELSE Done(w)

\* Mutant of Learn: what is to be saved is not validated.
LearnUnchecked(w, n, m) ==
    /\ pc[w] = "idle"
    /\ UNCHANGED <<conf, editing, orphans>>
    /\ \/ conf = Unreadable /\ Done(w)
       \/ conf # Unreadable /\ m \in MACsOf(conf) /\ Done(w)
       \/ /\ conf # Unreadable
          /\ m \notin MACsOf(conf)
          /\ FreeTries(conf, n) # {}
          /\ pc' = [pc EXCEPT ![w] = "temp"]
          /\ new' = [new EXCEPT ![w] = Added(conf, n, m)]
          /\ UNCHANGED temps

\* cachePeer for the host n with address m, up to the validation of what it
\* is to save.  A host that is a target already is left as it is.  The
\* suffixes of the code never end, so one of them is free.
Learn(w, n, m) ==
    /\ pc[w] = "idle"
    /\ UNCHANGED <<conf, editing, orphans>>
    /\ \/ conf = Unreadable /\ Done(w)
       \/ conf # Unreadable /\ m \in MACsOf(conf) /\ Done(w)
       \/ /\ conf # Unreadable
          /\ m \notin MACsOf(conf)
          /\ FreeTries(conf, n) # {}
          /\ IF Valid(Added(conf, n, m))
             THEN /\ pc' = [pc EXCEPT ![w] = "temp"]
                  /\ new' = [new EXCEPT ![w] = Added(conf, n, m)]
                  /\ UNCHANGED temps
             ELSE Done(w)

----------------------------------------------------------------------------
(* SaveRPI.                                                                *)

\* The temporary file is created, written, closed and made readable.
WriteTemp(w) ==
    /\ pc[w] = "temp"
    /\ pc' = [pc EXCEPT ![w] = "rename"]
    /\ temps' = temps \union {w}
    /\ UNCHANGED <<conf, editing, new, orphans>>

\* Mutant of Rename: the config is written in place, in two steps.
RenameInPlace(w) ==
    /\ pc[w] = "rename"
    /\ \/ conf # Unreadable /\ conf' = Unreadable /\ UNCHANGED <<pc, new, temps>>
       \/ conf = Unreadable /\ conf' = new[w] /\ Done(w)
    /\ UNCHANGED <<editing, orphans>>

\* The config is replaced; an editor that has it open writes to an inode
\* that has no name any more.
Rename(w) ==
    /\ pc[w] = "rename"
    /\ conf' = new[w]
    /\ editing' = FALSE
    /\ Done(w)
    /\ UNCHANGED orphans

\* Mutant of SaveFails: the temporary file stays.
SaveFailsDirty(w) ==
    /\ "io" \in Faults
    /\ pc[w] \in {"temp", "rename"}
    /\ pc' = [pc EXCEPT ![w] = "idle"]
    /\ new' = [new EXCEPT ![w] = Unreadable]
    /\ UNCHANGED <<conf, editing, temps, orphans>>

\* Any step of SaveRPI fails.
SaveFails(w) ==
    /\ "io" \in Faults
    /\ pc[w] \in {"temp", "rename"}
    /\ Done(w)
    /\ UNCHANGED <<conf, editing, orphans>>

\* The process ends in the midst of it.  Its temporary file, if there is one,
\* is left behind for good: every save makes a file of a new name.  At "temp"
\* it may have been created and not yet closed.
Crash(w) ==
    /\ "crash" \in Faults
    /\ pc[w] # "idle"
    /\ pc' = [pc EXCEPT ![w] = "idle"]
    /\ new' = [new EXCEPT ![w] = Unreadable]
    /\ temps' = temps \ {w}
    /\ \/ orphans' = orphans \union {w}
       \/ w \notin temps /\ UNCHANGED orphans
    /\ UNCHANGED <<conf, editing>>

----------------------------------------------------------------------------
(* The user.                                                               *)

\* What a user makes of a config: a target removed, or given another key.
Edited(c) ==
    {[c EXCEPT ![k] = Absent] : k \in Keys}
        \union {[c EXCEPT ![k] = Absent, ![l] = c[k]] :
                    k \in Keys, l \in {j \in GoodKeys \intersect Keys : c[j] = Absent}}

Edit ==
    /\ "edit" \in Faults
    /\ conf # Unreadable
    /\ conf' \in Edited(conf) \ {conf}
    /\ UNCHANGED <<editing, pc, new, temps, orphans>>

\* An editor that truncates the file and then writes it.
EditBegins ==
    /\ "inplace" \in Faults
    /\ conf # Unreadable
    /\ conf' = Unreadable
    /\ editing' = TRUE
    /\ UNCHANGED <<pc, new, temps, orphans>>

EditEnds ==
    /\ editing
    /\ conf' \in {c \in ValidConfigs : UniqueMACs(c)}
    /\ editing' = FALSE
    /\ UNCHANGED <<pc, new, temps, orphans>>

----------------------------------------------------------------------------

Next ==
    \/ \E w \in Writers :
        \/ \E n \in Names, m \in MACs : Learn(w, n, m)
        \/ WriteTemp(w) \/ Rename(w) \/ SaveFails(w) \/ Crash(w)
    \/ Edit \/ EditBegins \/ EditEnds

Spec == Init /\ [][Next]_vars

----------------------------------------------------------------------------
(* Properties.                                                             *)

\* However saves, edits and deaths come together, no address is the target of
\* two keys: one version of the file is made from one that was loaded.
OneKeyPerHost == conf # Unreadable => UniqueMACs(conf)

\* The daemon never leaves a config that cannot be loaded, wherever it dies:
\* only an editor that rewrites the file in place does (config.go:115, 140).
UnreadableOnlyWhileEdited == conf = Unreadable => editing

\* Of a writer that lives, a temporary file is there only while it is about
\* to be renamed: failing saves do not fill /etc/kbd-switch (config.go:120).
NoLitter == temps \subseteq {w \in Writers : pc[w] = "rename"}

\* README.md:169: the key and the name of a target are kept.  A daemon that
\* is alone with the file only ever adds to it.
TargetsAreKept ==
    [][\A k \in Keys : conf[k] # Absent => conf'[k] = conf[k]]_conf

\* The same and more: nothing but new hosts under new keys comes into it.
Map == INSTANCE TargetMap WITH targets <- conf

KeepsTargetMap == Map!Spec

============================================================================
