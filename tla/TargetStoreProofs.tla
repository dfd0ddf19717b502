-------------------------- MODULE TargetStoreProofs --------------------------
(***************************************************************************)
(* What holds of config.yaml for any number of daemons, hosts and keys.    *)
(***************************************************************************)
EXTENDS TargetStore, FoldingProofs

----------------------------------------------------------------------------
(* Configs.                                                                *)

\* uniqueTargetKey finds a key that no target has, if it ever tries one.
LEMMA UniqueKeyIsFree ==
    ASSUME NEW c \in Config, NEW n \in Names, FreeTries(c, n) # {}
    PROVE  UniqueKey(c, n) \in Keys /\ c[UniqueKey(c, n)] = Absent
<1> DEFINE free == FreeTries(c, n)
<1>1. free # {} /\ free \in SUBSET Nat
  BY StoreAssumption DEF FreeTries
<1>2. \E i \in free : \A j \in free : i <= j
  BY <1>1, LeastNumber
<1>3. (CHOOSE i \in free : \A j \in free : i <= j) \in free
  BY <1>2
<1> QED BY <1>3, StoreAssumption DEF UniqueKey, FreeTries

\* A config stays one with a target more, and keeps the targets it had.
LEMMA AddedTyped ==
    ASSUME NEW c \in Config, NEW n \in Names, NEW m \in MACs,
           FreeTries(c, n) # {}
    PROVE  /\ Added(c, n, m) \in Config
           /\ \A k \in Keys : c[k] # Absent => Added(c, n, m)[k] = c[k]
<1>1. UniqueKey(c, n) \in Keys /\ c[UniqueKey(c, n)] = Absent
  BY UniqueKeyIsFree
<1> HIDE DEF UniqueKey
<1> QED BY <1>1 DEF Added, Config, Target

\* A host that was not a target gets one key.
LEMMA AddedUnique ==
    ASSUME NEW c \in Config, NEW n \in Names, NEW m \in MACs,
           FreeTries(c, n) # {}, m \notin MACsOf(c), UniqueMACs(c)
    PROVE  UniqueMACs(Added(c, n, m))
<1> DEFINE u == UniqueKey(c, n)
<1>1. u \in Keys /\ c[u] = Absent
  BY UniqueKeyIsFree
<1>2. Added(c, n, m) = [c EXCEPT ![u] = [name |-> n, mac |-> m]]
  BY DEF Added
<1> HIDE DEF u
<1> QED BY <1>1, <1>2 DEF UniqueMACs, MACsOf, Config, Target

\* A user's edit leaves a valid config, with one key for each host.
LEMMA EditedTyped ==
    ASSUME NEW c \in ValidConfigs, NEW d \in Edited(c)
    PROVE  d \in ValidConfigs /\ (UniqueMACs(c) => UniqueMACs(d))
<1>1. CASE \E k \in Keys : d = [c EXCEPT ![k] = Absent]
  BY <1>1 DEF ValidConfigs, Valid, Config, UniqueMACs
<1>2. CASE \E k \in Keys, l \in {j \in GoodKeys \intersect Keys : c[j] = Absent} :
              d = [c EXCEPT ![k] = Absent, ![l] = c[k]]
  BY <1>2 DEF ValidConfigs, Valid, Config, UniqueMACs
<1> QED BY <1>1, <1>2 DEF Edited

\* Nothing that is not a target is taken for one.
LEMMA Distinct == Unreadable \notin ValidConfigs /\ Absent \notin Target
BY StoreAssumption DEF ValidConfigs

----------------------------------------------------------------------------
(* Types.                                                                  *)

\* The empty config is valid.
LEMMA InitTypeOK == Init => TypeOK
BY DEF Init, TypeOK, ValidConfigs, Valid, Config

\* A step of a daemon preserves the types.
LEMMA WriterTypeOK ==
    ASSUME TypeOK, NEW w \in Writers,
           \/ \E n \in Names, m \in MACs : Learn(w, n, m)
           \/ WriteTemp(w) \/ Rename(w) \/ SaveFails(w) \/ Crash(w)
    PROVE  TypeOK'
<1> USE DEF TypeOK
<1>1. ASSUME NEW n \in Names, NEW m \in MACs, Learn(w, n, m) PROVE TypeOK'
  <2>1. CASE Done(w)
    BY <1>1, <2>1 DEF Done, Learn
  <2>2. CASE /\ conf # Unreadable
             /\ FreeTries(conf, n) # {}
             /\ Valid(Added(conf, n, m))
             /\ pc' = [pc EXCEPT ![w] = "temp"]
             /\ new' = [new EXCEPT ![w] = Added(conf, n, m)]
             /\ UNCHANGED temps
    <3>1. conf \in Config
      BY <2>2 DEF ValidConfigs
    <3>2. Added(conf, n, m) \in ValidConfigs
      BY <2>2, <3>1, AddedTyped DEF ValidConfigs
    <3> QED BY <1>1, <2>2, <3>2, Distinct DEF Learn
  <2> QED BY <1>1, <2>1, <2>2 DEF Learn
<1>2. CASE WriteTemp(w)
  BY <1>2 DEF WriteTemp
<1>3. CASE Rename(w)
  BY <1>3 DEF Rename, Done
<1>4. CASE SaveFails(w)
  BY <1>4 DEF SaveFails, Done
<1>5. CASE Crash(w)
  BY <1>5 DEF Crash
<1> QED BY <1>1, <1>2, <1>3, <1>4, <1>5

\* So does every other step.
LEMMA NextTypeOK == TypeOK /\ [Next]_vars => TypeOK'
<1> SUFFICES ASSUME TypeOK, [Next]_vars PROVE TypeOK'
  OBVIOUS
<1>1. CASE \E w \in Writers :
              \/ \E n \in Names, m \in MACs : Learn(w, n, m)
              \/ WriteTemp(w) \/ Rename(w) \/ SaveFails(w) \/ Crash(w)
  BY <1>1, WriterTypeOK
<1>2. CASE Edit
  <2>1. conf \in ValidConfigs /\ conf' \in Edited(conf)
    BY <1>2 DEF Edit, TypeOK
  <2> QED BY <1>2, <2>1, EditedTyped DEF Edit, TypeOK
<1>3. CASE EditBegins \/ EditEnds
  BY <1>3 DEF EditBegins, EditEnds, TypeOK
<1>4. CASE UNCHANGED vars
  BY <1>4 DEF vars, TypeOK
<1> QED BY <1>1, <1>2, <1>3, <1>4 DEF Next

\* Every config that is in place or about to be saved is valid, however many
\* daemons and editors there are: no host without a name becomes a target.
THEOREM TypeCorrect == Spec => []TypeOK
<1>1. TypeOK /\ [Next]_vars => TypeOK'
  BY NextTypeOK
<1> QED BY <1>1, InitTypeOK, PTL DEF Spec

----------------------------------------------------------------------------
(* Any number of daemons, with every fault.                                *)

\* What is about to be saved has one key for each host, too.
UniqueSaves == \A w \in Writers : new[w] # Unreadable => UniqueMACs(new[w])

\* OneKeyPerHost is inductive with UniqueSaves: a config is only ever made
\* from one that was whole.
LEMMA NextOneKeyPerHost ==
    TypeOK /\ OneKeyPerHost /\ UniqueSaves /\ [Next]_vars
        => OneKeyPerHost' /\ UniqueSaves'
<1> SUFFICES ASSUME TypeOK, OneKeyPerHost, UniqueSaves, [Next]_vars
             PROVE  OneKeyPerHost' /\ UniqueSaves'
  OBVIOUS
<1> USE DEF TypeOK, OneKeyPerHost, UniqueSaves
<1>1. ASSUME NEW w \in Writers, NEW n \in Names, NEW m \in MACs, Learn(w, n, m)
      PROVE  OneKeyPerHost' /\ UniqueSaves'
  <2>1. CASE Done(w)
    BY <1>1, <2>1 DEF Done, Learn
  <2>2. CASE /\ conf # Unreadable
             /\ m \notin MACsOf(conf)
             /\ FreeTries(conf, n) # {}
             /\ new' = [new EXCEPT ![w] = Added(conf, n, m)]
    <3>1. conf \in Config
      BY <2>2 DEF ValidConfigs
    <3>2. UniqueMACs(Added(conf, n, m))
      BY <2>2, <3>1, AddedUnique
    <3> QED BY <1>1, <2>2, <3>2 DEF Learn
  <2> QED BY <1>1, <2>1, <2>2 DEF Learn
<1>2. ASSUME NEW w \in Writers, WriteTemp(w) \/ SaveFails(w) \/ Crash(w)
      PROVE  OneKeyPerHost' /\ UniqueSaves'
  BY <1>2 DEF WriteTemp, SaveFails, Crash, Done
<1>3. ASSUME NEW w \in Writers, Rename(w) PROVE OneKeyPerHost' /\ UniqueSaves'
  BY <1>3 DEF Rename, Done
<1>4. CASE Edit
  <2>1. conf \in ValidConfigs /\ conf' \in Edited(conf)
    BY <1>4 DEF Edit
  <2> QED BY <1>4, <2>1, EditedTyped DEF Edit
<1>5. CASE EditBegins \/ EditEnds
  BY <1>5 DEF EditBegins, EditEnds
<1>6. CASE UNCHANGED vars
  BY <1>6 DEF vars
<1> QED BY <1>1, <1>2, <1>3, <1>4, <1>5, <1>6 DEF Next

\* No host is ever the target of two keys (hidapp/app.go:185).
THEOREM OneKey == Spec => []OneKeyPerHost
<1>1. Init => OneKeyPerHost /\ UniqueSaves
  BY DEF Init, OneKeyPerHost, UniqueSaves, UniqueMACs
<1>2. TypeOK /\ OneKeyPerHost /\ UniqueSaves /\ [Next]_vars
        => OneKeyPerHost' /\ UniqueSaves'
  BY NextOneKeyPerHost
<1> QED BY <1>1, <1>2, TypeCorrect, PTL DEF Spec

\* Only an editor that rewrites the file in place makes it unreadable: no
\* daemon does, wherever it dies (config.go:115, 140).
THEOREM AlwaysReadable == Spec => []UnreadableOnlyWhileEdited
<1>1. Init => UnreadableOnlyWhileEdited
  BY Distinct, InitTypeOK DEF Init, UnreadableOnlyWhileEdited, ValidConfigs, Valid, Config
<1>2. TypeOK /\ UnreadableOnlyWhileEdited /\ [Next]_vars => UnreadableOnlyWhileEdited'
  <2> SUFFICES ASSUME TypeOK, UnreadableOnlyWhileEdited, [Next]_vars
               PROVE  UnreadableOnlyWhileEdited'
    OBVIOUS
  <2> USE DEF UnreadableOnlyWhileEdited
  <2>1. ASSUME NEW w \in Writers, NEW n \in Names, NEW m \in MACs, Learn(w, n, m)
        PROVE  UnreadableOnlyWhileEdited'
    BY <2>1 DEF Learn
  <2>2. ASSUME NEW w \in Writers, WriteTemp(w) \/ SaveFails(w) \/ Crash(w)
        PROVE  UnreadableOnlyWhileEdited'
    BY <2>2 DEF WriteTemp, SaveFails, Crash
  <2>3. ASSUME NEW w \in Writers, Rename(w) PROVE UnreadableOnlyWhileEdited'
    BY <2>3 DEF Rename, TypeOK
  <2>4. CASE Edit
    <3>1. conf' \in ValidConfigs
      BY <2>4, EditedTyped DEF Edit, TypeOK
    <3> QED BY <3>1, Distinct
  <2>5. CASE EditBegins \/ EditEnds
    BY <2>5, Distinct DEF EditBegins, EditEnds
  <2>6. CASE UNCHANGED vars
    BY <2>6 DEF vars
  <2> QED BY <2>1, <2>2, <2>3, <2>4, <2>5, <2>6 DEF Next
<1> QED BY <1>1, <1>2, TypeCorrect, PTL DEF Spec

\* A writer that lives leaves no temporary file behind, whatever fails
\* (config.go:120).
THEOREM NoFileLeft == Spec => []NoLitter
<1>1. Init => NoLitter
  BY DEF Init, NoLitter
<1>2. TypeOK /\ NoLitter /\ [Next]_vars => NoLitter'
  <2> SUFFICES ASSUME TypeOK, NoLitter, [Next]_vars PROVE NoLitter'
    OBVIOUS
  <2> USE DEF NoLitter, TypeOK
  <2>1. ASSUME NEW w \in Writers, NEW n \in Names, NEW m \in MACs, Learn(w, n, m)
        PROVE  NoLitter'
    BY <2>1 DEF Learn, Done
  <2>2. ASSUME NEW w \in Writers,
               WriteTemp(w) \/ Rename(w) \/ SaveFails(w) \/ Crash(w)
        PROVE  NoLitter'
    BY <2>2 DEF WriteTemp, Rename, SaveFails, Crash, Done
  <2>3. CASE Edit \/ EditBegins \/ EditEnds \/ UNCHANGED vars
    BY <2>3 DEF Edit, EditBegins, EditEnds, vars
  <2> QED BY <2>1, <2>2, <2>3 DEF Next
<1> QED BY <1>1, <1>2, TypeCorrect, PTL DEF Spec

----------------------------------------------------------------------------
(* A daemon that is alone with its config.                                 *)

Alone ==
    /\ \A v, w \in Writers : v = w
    /\ {"edit", "inplace"} \intersect Faults = {}

\* d is c with a new host under a new key.
Extends(d, c) ==
    \E k \in Keys, t \in Target :
        /\ c[k] = Absent
        /\ \A l \in Keys : c[l] # Absent => c[l].mac # t.mac
        /\ d = [c EXCEPT ![k] = t]

\* The config can be loaded, and what is about to be saved extends it.
SavesExtend ==
    /\ ~ editing
    /\ conf # Unreadable
    /\ \A w \in Writers : pc[w] # "idle" => Extends(new[w], conf)

\* A config with a host added extends it.
LEMMA AddedExtends ==
    ASSUME NEW c \in Config, NEW n \in Names, NEW m \in MACs,
           FreeTries(c, n) # {}, m \notin MACsOf(c)
    PROVE  Extends(Added(c, n, m), c)
<1> DEFINE u == UniqueKey(c, n)
           t == [name |-> n, mac |-> m]
<1>1. u \in Keys /\ c[u] = Absent
  BY UniqueKeyIsFree
<1>2. t \in Target /\ Added(c, n, m) = [c EXCEPT ![u] = t]
  BY DEF Added, Target
<1>3. \A l \in Keys : c[l] # Absent => c[l].mac # t.mac
  BY DEF MACsOf
<1> HIDE DEF u, t
<1> QED BY <1>1, <1>2, <1>3 DEF Extends

\* Nothing comes between the load and the rename.
LEMMA NextSavesExtend ==
    ASSUME Alone
    PROVE  TypeOK /\ SavesExtend /\ [Next]_vars => SavesExtend'
<1> SUFFICES ASSUME TypeOK, SavesExtend, [Next]_vars PROVE SavesExtend'
  OBVIOUS
<1> USE DEF TypeOK, SavesExtend
<1>1. ASSUME NEW w \in Writers, NEW n \in Names, NEW m \in MACs, Learn(w, n, m)
      PROVE  SavesExtend'
  <2>1. CASE Done(w)
    BY <1>1, <2>1 DEF Done, Learn
  <2>2. CASE /\ m \notin MACsOf(conf)
             /\ FreeTries(conf, n) # {}
             /\ pc' = [pc EXCEPT ![w] = "temp"]
             /\ new' = [new EXCEPT ![w] = Added(conf, n, m)]
    <3>1. Extends(Added(conf, n, m), conf)
      BY <2>2, AddedExtends DEF ValidConfigs
    <3> QED BY <1>1, <2>2, <3>1 DEF Learn
  <2> QED BY <1>1, <2>1, <2>2 DEF Learn
<1>2. ASSUME NEW w \in Writers, WriteTemp(w) \/ SaveFails(w) \/ Crash(w)
      PROVE  SavesExtend'
  BY <1>2 DEF WriteTemp, SaveFails, Crash, Done
<1>3. ASSUME NEW w \in Writers, Rename(w) PROVE SavesExtend'
  BY <1>3 DEF Rename, Done, Alone
<1>4. CASE Edit \/ EditBegins \/ EditEnds
  BY <1>4 DEF Edit, EditBegins, EditEnds, Alone
<1>5. CASE UNCHANGED vars
  BY <1>5 DEF vars
<1> QED BY <1>1, <1>2, <1>3, <1>4, <1>5 DEF Next

\* A rename registers the new host; every other step stutters.
LEMMA NextExtends ==
    ASSUME Alone
    PROVE  TypeOK /\ SavesExtend /\ [Next]_vars => UNCHANGED conf \/ Extends(conf', conf)
<1> SUFFICES ASSUME TypeOK, SavesExtend, [Next]_vars
             PROVE  UNCHANGED conf \/ Extends(conf', conf)
  OBVIOUS
<1>1. ASSUME NEW w \in Writers, Rename(w) PROVE Extends(conf', conf)
  BY <1>1 DEF Rename, SavesExtend
<1> QED BY <1>1 DEF Next, Learn, WriteTemp, SaveFails, Crash, Edit, EditBegins,
                    EditEnds, Alone, SavesExtend, vars

\* The config is extended and can be loaded as long as the daemon runs.
LEMMA AlwaysExtends == ASSUME Alone PROVE Spec => []SavesExtend
<1>1. Init => SavesExtend
  BY Distinct, InitTypeOK DEF Init, SavesExtend, TypeOK, ValidConfigs, Valid, Config
<1>2. TypeOK /\ SavesExtend /\ [Next]_vars => SavesExtend'
  BY NextSavesExtend
<1> QED BY <1>1, <1>2, TypeCorrect, PTL DEF Spec

\* The saves of a daemon that is alone with its config implement the map of
\* targets that kbd-hid promises: with every failed save and every death, all
\* that ever happens to the targets is that a new host gets a new key.
THEOREM ImplementsTargetMap == ASSUME Alone PROVE Spec => KeepsTargetMap
<1>1. Init => Map!Init
  BY DEF Init, Map!Init
<1>2. TypeOK /\ SavesExtend /\ [Next]_vars => [Map!Next]_conf
  BY NextExtends DEF Extends, Map!Next, Map!Register
<1> QED BY <1>1, <1>2, AlwaysExtends, TypeCorrect, PTL
        DEF Spec, KeepsTargetMap, Map!Spec

\* README.md:169: whatever fails and wherever it dies, a daemon that is alone
\* with its config keeps every target with its key and its name.
THEOREM TargetsKept == ASSUME Alone PROVE Spec => TargetsAreKept
<1>1. TypeOK /\ SavesExtend /\ [Next]_vars =>
        [\A k \in Keys : conf[k] # Absent => conf'[k] = conf[k]]_conf
  <2> SUFFICES ASSUME TypeOK, SavesExtend, Extends(conf', conf), NEW k \in Keys,
                      conf[k] # Absent
               PROVE  conf'[k] = conf[k]
    BY NextExtends
  <2>1. conf \in Config
    BY DEF TypeOK, SavesExtend, ValidConfigs
  <2> QED BY <2>1 DEF Extends, Config
<1> QED BY <1>1, AlwaysExtends, TypeCorrect, PTL DEF Spec, TargetsAreKept

============================================================================
