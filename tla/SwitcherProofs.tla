--------------------------- MODULE SwitcherProofs ---------------------------
(***************************************************************************)
(* What holds of kbd-rpi for any number of processes, hosts, targets and   *)
(* inodes.                                                                 *)
(***************************************************************************)
EXTENDS Switcher, TLAPS

USE DEF PCs, Ops, Exits, Killed

----------------------------------------------------------------------------
(* How the pieces of an action move the state of the processes.            *)

ProcTypeOK ==
    /\ pc \in [Procs -> PCs]
    /\ op \in [Procs -> Ops]
    /\ want \in [Procs -> Entry \union {NoEntry}]
    /\ others \in [Procs -> BOOLEAN]
    /\ cur \in [Procs -> Entry \union {NoEntry}]
    /\ exit \in [Procs -> Exits]

\* What process q knows of itself.
Locals(q) == <<pc[q], op[q], want[q], others[q], cur[q], exit[q], fd[q]>>

\* What a process does by itself.
Act(p) == (\E t \in Targets : Switch(p, t)) \/ Disconnect(p) \/ Status(p)
          \/ Step(p) \/ Crash(p)

\* The values a target of a valid config gives to a switch.
LEMMA ConfigTyped ==
    ASSUME cfg \in Configs, cfg # InvalidConfig,
           NEW t \in Targets, cfg.mac[t] # NoMAC
    PROVE  [target |-> t, mac |-> cfg.mac[t]] \in Entry /\ cfg.others \in BOOLEAN
<1>1. cfg \in Config
  BY SwitcherAssumption
<1> QED BY <1>1 DEF Config, Entry

LEMMA ExitTyped ==
    ASSUME ProcTypeOK, NEW p \in Procs, NEW code \in Exits, Exit(p, code)
    PROVE  ProcTypeOK'
BY DEF ProcTypeOK, Exit

LEMMA GotoTyped ==
    ASSUME ProcTypeOK, NEW p \in Procs, NEW l \in PCs, Goto(p, l)
    PROVE  ProcTypeOK'
BY DEF ProcTypeOK, Goto

LEMMA StartTyped ==
    ASSUME ProcTypeOK, NEW p \in Procs, NEW c \in Ops,
           NEW e \in Entry \union {NoEntry}, NEW o \in BOOLEAN, Start(p, c, e, o)
    PROVE  ProcTypeOK'
BY DEF ProcTypeOK, Start

LEMMA ProceedTyped ==
    ASSUME ProcTypeOK, NEW p \in Procs, NEW e \in Entry \union {NoEntry},
           Proceed(p, e)
    PROVE  ProcTypeOK'
<1>1. CASE Goto(p, "connect")
  BY <1>1, GotoTyped
<1>2. CASE Exit(p, 0)
  BY <1>2, ExitTyped
<1>3. CASE /\ pc' = [pc EXCEPT ![p] = "drop"]
           /\ cur' = [cur EXCEPT ![p] = e]
           /\ UNCHANGED <<op, want, others, exit>>
  BY <1>3 DEF ProcTypeOK
<1> QED BY <1>1, <1>2, <1>3 DEF Proceed

\* A process changes nothing of another one's.
LEMMA Frame ==
    ASSUME TypeOK, NEW p \in Procs, NEW q \in Procs, q # p, Act(p)
    PROVE  Locals(q)' = Locals(q)
<1> USE DEF TypeOK, FileTypeOK, Locals
<1>1. ASSUME NEW code, Exit(p, code)
      PROVE  <<pc[q], op[q], want[q], others[q], cur[q], exit[q]>>'
             = <<pc[q], op[q], want[q], others[q], cur[q], exit[q]>>
  BY <1>1 DEF Exit
<1>2. ASSUME NEW l, Goto(p, l)
      PROVE  <<pc[q], op[q], want[q], others[q], cur[q], exit[q]>>'
             = <<pc[q], op[q], want[q], others[q], cur[q], exit[q]>>
  BY <1>2 DEF Goto
<1>3. ASSUME NEW e, Proceed(p, e)
      PROVE  <<pc[q], op[q], want[q], others[q], cur[q], exit[q]>>'
             = <<pc[q], op[q], want[q], others[q], cur[q], exit[q]>>
  BY <1>3, <1>1, <1>2 DEF Proceed
<1>4. ASSUME NEW c, NEW w, NEW o, Start(p, c, w, o)
      PROVE  <<pc[q], op[q], want[q], others[q], cur[q], exit[q]>>'
             = <<pc[q], op[q], want[q], others[q], cur[q], exit[q]>>
  BY <1>4 DEF Start
<1>5. CASE (\E t \in Targets : Switch(p, t)) \/ Disconnect(p) \/ Status(p)
  BY <1>5, <1>1, <1>4 DEF Switch, Disconnect, Status
<1>6. CASE OpenState(p)
  BY <1>6, <1>1, <1>2, <1>3 DEF OpenState, OpenFile, fileVars
<1>7. CASE DecodeState(p) \/ Crash(p)
  BY <1>7, <1>1, <1>3 DEF DecodeState, Crash, CloseFile
<1>8. CASE DropSucceeds(p) \/ ConnectSucceeds(p) \/ CommandFails(p)
  BY <1>8, <1>1, <1>2 DEF DropSucceeds, ConnectSucceeds, CommandFails
<1>9. CASE CreateState(p)
  BY <1>9, <1>1, <1>2 DEF CreateState, CreateFile, fileVars
<1>10. CASE EncodeState(p) \/ RemoveState(p)
  BY <1>10, <1>1 DEF EncodeState, WriteFails, WriteEntry, RemoveState,
                     RemoveName, fileVars
<1> QED BY <1>5, <1>6, <1>7, <1>8, <1>9, <1>10 DEF Act, Step

----------------------------------------------------------------------------
(* Types.                                                                  *)

\* The initial state is well typed.
LEMMA InitTypeOK == Init => TypeOK
BY StateFileAssumption DEF Init, FileInit, TypeOK, FileTypeOK, Coherent

\* A step of a process keeps the types of the files, the links and the
\* config.
LEMMA ActKeepsWorldTyped ==
    ASSUME TypeOK, NEW p \in Procs, Act(p)
    PROVE  (FileTypeOK /\ links \subseteq MACs /\ cfg \in Configs)'
<1> USE DEF TypeOK, FileTypeOK
<1>1. CASE (\E t \in Targets : Switch(p, t)) \/ Disconnect(p) \/ Status(p)
  BY <1>1 DEF Switch, Disconnect, Status
<1>2. CASE OpenState(p) \/ DecodeState(p)
  BY <1>2 DEF OpenState, DecodeState, OpenFile, CloseFile, fileVars
<1>3. CASE DropSucceeds(p) \/ CommandFails(p)
  BY <1>3 DEF DropSucceeds, CommandFails
<1>4. CASE ConnectSucceeds(p)
  BY <1>4 DEF ConnectSucceeds, Coherent, Entry
<1>5. CASE CreateState(p)
  BY <1>5 DEF CreateState, CreateFile, fileVars
<1>6. CASE EncodeState(p)
  <2>1. want[p] \in Entry /\ fd[p] \in Inodes
    BY <1>6 DEF EncodeState, Coherent
  <2> QED BY <1>6, <2>1 DEF EncodeState, WriteFails, WriteEntry
<1>7. CASE RemoveState(p)
  BY <1>7 DEF RemoveState, RemoveName, fileVars
<1>8. CASE Crash(p)
  BY <1>8 DEF Crash, CloseFile, Coherent, Entry
<1> QED BY <1>1, <1>2, <1>3, <1>4, <1>5, <1>6, <1>7, <1>8 DEF Act, Step

\* A step of a process keeps the types of the processes.
LEMMA ActKeepsProcsTyped ==
    ASSUME TypeOK, NEW p \in Procs, Act(p)
    PROVE  ProcTypeOK'
<1>1. ProcTypeOK
  BY DEF TypeOK, ProcTypeOK
<1>2. ASSUME NEW t \in Targets, Switch(p, t) PROVE ProcTypeOK'
  <2>1. CASE Exit(p, 2)
    BY <2>1, <1>1, ExitTyped
  <2>2. CASE ~Exit(p, 2)
    <3>1. [target |-> t, mac |-> cfg.mac[t]] \in Entry /\ cfg.others \in BOOLEAN
      BY <1>2, <2>2, ConfigTyped DEF Switch, TypeOK
    <3>2. Start(p, "switch", [target |-> t, mac |-> cfg.mac[t]], cfg.others)
      BY <1>2, <2>2 DEF Switch
    <3> QED BY <1>1, <3>1, <3>2, StartTyped
  <2> QED BY <2>1, <2>2
<1>3. CASE Disconnect(p) \/ Status(p)
  BY <1>1, <1>3, StartTyped DEF Disconnect, Status
<1>4. CASE OpenState(p)
  BY <1>1, <1>4, ExitTyped, GotoTyped, ProceedTyped DEF OpenState
<1>5. CASE DecodeState(p)
  <2>1. content[fd[p]] \in Entry \union {Broken}
    BY <1>5 DEF DecodeState, TypeOK, FileTypeOK, Coherent
  <2> QED BY <1>1, <1>5, <2>1, ExitTyped, ProceedTyped DEF DecodeState
<1>6. CASE DropSucceeds(p) \/ ConnectSucceeds(p) \/ CommandFails(p)
  BY <1>1, <1>6, ExitTyped, GotoTyped
     DEF DropSucceeds, ConnectSucceeds, CommandFails
<1>7. CASE CreateState(p) \/ EncodeState(p) \/ RemoveState(p) \/ Crash(p)
  BY <1>1, <1>7, ExitTyped, GotoTyped
     DEF CreateState, EncodeState, RemoveState, Crash
<1> QED BY <1>2, <1>3, <1>4, <1>5, <1>6, <1>7 DEF Act, Step

\* A step of a process leaves it with what it needs for the next one.
LEMMA ActKeepsCoherent ==
    ASSUME TypeOK, NEW p \in Procs, Act(p)
    PROVE  Coherent(p)'
<1> USE StateFileAssumption DEF TypeOK, FileTypeOK, Coherent
<1>1. ASSUME NEW t \in Targets, Switch(p, t) PROVE Coherent(p)'
  BY <1>1, ConfigTyped DEF Switch, Exit, Start
<1>2. CASE Disconnect(p) \/ Status(p)
  BY <1>2 DEF Disconnect, Status, Start
<1>3. CASE OpenState(p)
  <2>1. CASE path = NoInode /\ Proceed(p, NoEntry) /\ UNCHANGED fileVars
    BY <1>3, <2>1 DEF OpenState, Proceed, Goto, Exit, fileVars
  <2>2. CASE OpenFile(p) /\ Goto(p, "decode")
    BY <1>3, <2>2 DEF OpenState, Goto, OpenFile
  <2>3. CASE Exit(p, 2) /\ UNCHANGED fileVars
    BY <1>3, <2>3 DEF OpenState, Exit, fileVars
  <2> QED BY <1>3, <2>1, <2>2, <2>3 DEF OpenState
<1>4. CASE DecodeState(p)
  <2>1. content[fd[p]] \in Entry \union {Broken} /\ fd'[p] = NoInode
    BY <1>4 DEF DecodeState, CloseFile
  <2>2. CASE Exit(p, 2)
    BY <2>1, <2>2 DEF Exit
  <2>3. ASSUME NEW e \in Entry, Proceed(p, e) PROVE Coherent(p)'
    BY <1>4, <2>1, <2>3, SwitcherAssumption DEF DecodeState, Proceed, Goto, Exit
  <2> QED BY <1>4, <2>1, <2>2, <2>3 DEF DecodeState
<1>5. CASE DropSucceeds(p) \/ ConnectSucceeds(p) \/ CommandFails(p)
  BY <1>5 DEF DropSucceeds, ConnectSucceeds, CommandFails, Goto, Exit
<1>6. CASE CreateState(p)
  BY <1>6 DEF CreateState, CreateFile, fileVars, Goto, Exit
<1>7. CASE EncodeState(p) \/ RemoveState(p)
  BY <1>7 DEF EncodeState, RemoveState, WriteFails, WriteEntry, RemoveName,
              fileVars, Exit
<1>8. CASE Crash(p)
  BY <1>8 DEF Crash, CloseFile, Exit
<1> QED BY <1>1, <1>2, <1>3, <1>4, <1>5, <1>6, <1>7, <1>8 DEF Act, Step

\* Every step keeps the state well typed.
LEMMA NextTypeOK == TypeOK /\ [Next]_vars => TypeOK'
<1> SUFFICES ASSUME TypeOK, [Next]_vars PROVE TypeOK'
  OBVIOUS
<1>1. ASSUME NEW p \in Procs, Act(p) PROVE TypeOK'
  <2>1. ASSUME NEW q \in Procs PROVE Coherent(q)'
    <3>1. CASE q = p
      BY <1>1, <3>1, ActKeepsCoherent
    <3>2. CASE q # p
      <4>1. Coherent(q) /\ Locals(q)' = Locals(q)
        BY <1>1, <3>2, Frame DEF TypeOK
      <4> QED BY <4>1 DEF Coherent, Locals
    <3> QED BY <3>1, <3>2
  <2> QED BY <1>1, <2>1, ActKeepsWorldTyped, ActKeepsProcsTyped
          DEF TypeOK, ProcTypeOK
<1>2. CASE Reboot
  BY <1>2, StateFileAssumption DEF Reboot, TypeOK, FileTypeOK, Coherent
<1>3. ASSUME NEW m \in MACs, LinkLost(m) \/ PeerConnects(m) PROVE TypeOK'
  BY <1>3 DEF LinkLost, PeerConnects, procVars, TypeOK, FileTypeOK, Coherent
<1>4. CASE EditConfig
  BY <1>4 DEF EditConfig, procVars, TypeOK, FileTypeOK, Coherent
<1>5. CASE UNCHANGED vars
  BY <1>5 DEF vars, TypeOK, FileTypeOK, Coherent
<1> QED BY <1>1, <1>2, <1>3, <1>4, <1>5 DEF Next, Act

\* Descriptors, entries and program counters of every process fit together
\* in every reachable state, whatever the faults.
THEOREM TypeCorrect == Spec => []TypeOK
BY InitTypeOK, NextTypeOK, PTL DEF Spec

----------------------------------------------------------------------------
(* The state file under any number of processes.                           *)

\* How a step that is neither a truncation nor a write leaves the file.
Saves(p) == CreateState(p) \/ EncodeState(p)

\* Contents change, and a process enters or leaves "encode", only in Create,
\* Encode and the death of a process.
LEMMA OnlySavesWrite ==
    ASSUME TypeOK, NEW p \in Procs, Act(p), ~Saves(p), ~Crash(p)
    PROVE  /\ content' = content
           /\ pc[p] # "encode" /\ pc'[p] # "encode"
           /\ path' \in {path, NoInode}
           /\ fd'[p] \in {NoInode, path}
<1> USE DEF TypeOK, FileTypeOK, Coherent
<1>1. CASE (\E t \in Targets : Switch(p, t)) \/ Disconnect(p) \/ Status(p)
  BY <1>1 DEF Switch, Disconnect, Status, Exit, Start
<1>2. CASE OpenState(p)
  BY <1>2 DEF OpenState, OpenFile, fileVars, Proceed, Goto, Exit
<1>3. CASE DecodeState(p)
  BY <1>3 DEF DecodeState, CloseFile, Proceed, Goto, Exit
<1>4. CASE DropSucceeds(p) \/ ConnectSucceeds(p) \/ CommandFails(p)
  BY <1>4 DEF DropSucceeds, ConnectSucceeds, CommandFails, Goto, Exit
<1>5. CASE RemoveState(p)
  BY <1>5 DEF RemoveState, RemoveName, fileVars, Exit
<1> QED BY <1>1, <1>2, <1>3, <1>4, <1>5 DEF Act, Step, Saves

\* What holds an inode: the name, or a descriptor.
Reachable(i) == i = path \/ \E p \in Procs : fd[p] = i

\* The invariant is inductive on its own: only Create makes contents that do
\* not decode, and the process that ran it is then in "encode" with the very
\* inode; only its own Encode takes it from there, and mends the contents.
LEMMA NextTornOnlyWhileSaving ==
    ASSUME "crash" \notin Faults, "io" \notin Faults,
           TypeOK, TornOnlyWhileSaving, [Next]_vars
    PROVE  TornOnlyWhileSaving'
<1> SUFFICES ASSUME NEW i \in Inodes, Reachable(i)', content'[i] = Broken
             PROVE  \E q \in Procs : pc'[q] = "encode" /\ fd'[q] = i
  BY DEF TornOnlyWhileSaving, Reachable
<1>0. ASSUME Reachable(i), content[i] = Broken
      PROVE  \E q \in Procs : pc[q] = "encode" /\ fd[q] = i
  BY <1>0 DEF TornOnlyWhileSaving, Reachable
<1>1. ASSUME NEW p \in Procs, Act(p)
      PROVE  \E q \in Procs : pc'[q] = "encode" /\ fd'[q] = i
  <2>0. /\ ~Crash(p)
        /\ \A q \in Procs \ {p} : pc'[q] = pc[q] /\ fd'[q] = fd[q]
    BY <1>1, Frame DEF Crash, Locals
  <2>1. CASE ~Saves(p)
    <3>1. /\ content' = content /\ pc[p] # "encode"
          /\ path' \in {path, NoInode} /\ fd'[p] \in {NoInode, path}
      BY <1>1, <2>0, <2>1, OnlySavesWrite
    <3>2. Reachable(i)
      BY <3>1, <2>0, StateFileAssumption DEF Reachable
    <3>3. PICK q \in Procs : pc[q] = "encode" /\ fd[q] = i
      BY <3>1, <3>2, <1>0
    <3> QED BY <3>1, <3>3, <2>0
  <2>2. CASE CreateState(p)
    <3>1. PICK j \in Inodes :
            /\ path' = j /\ content' = [content EXCEPT ![j] = Broken]
            /\ fd' = [fd EXCEPT ![p] = j] /\ pc' = [pc EXCEPT ![p] = "encode"]
            /\ path # NoInode => j = path
      BY <2>2 DEF CreateState, CreateFile, Goto
    <3>2. CASE i = j
      BY <3>1, <3>2 DEF TypeOK, FileTypeOK
    <3>3. CASE i # j
      <4>1. Reachable(i) /\ content[i] = Broken
        BY <3>1, <3>3, <2>0 DEF Reachable, TypeOK, FileTypeOK
      <4>2. PICK q \in Procs : pc[q] = "encode" /\ fd[q] = i
        BY <4>1, <1>0
      <4> QED BY <4>2, <2>0, <2>2 DEF CreateState
    <3> QED BY <3>2, <3>3
  <2>3. CASE EncodeState(p)
    <3>1. /\ want[p] \in Entry /\ fd[p] \in Inodes
          /\ content' = [content EXCEPT ![fd[p]] = want[p]]
          /\ fd' = [fd EXCEPT ![p] = NoInode] /\ path' = path
      BY <2>3 DEF EncodeState, WriteEntry, TypeOK, FileTypeOK, Coherent
    <3>2. i # fd[p] /\ content[i] = Broken
      BY <3>1, StateFileAssumption DEF TypeOK, FileTypeOK
    <3>3. Reachable(i)
      BY <3>1, <2>0, StateFileAssumption DEF Reachable, TypeOK, FileTypeOK
    <3>4. PICK q \in Procs : pc[q] = "encode" /\ fd[q] = i
      BY <3>2, <3>3, <1>0
    <3> QED BY <3>2, <3>4, <2>0
  <2> QED BY <2>1, <2>2, <2>3 DEF Saves
<1>2. CASE Reboot
  BY <1>2, StateFileAssumption DEF Reboot, Reachable
<1>3. CASE (\E m \in MACs : LinkLost(m) \/ PeerConnects(m)) \/ EditConfig
           \/ UNCHANGED vars
  BY <1>3, <1>0 DEF LinkLost, PeerConnects, EditConfig, procVars, vars, Reachable
<1> QED BY <1>1, <1>2, <1>3 DEF Next, Act

\* As long as no process dies and no write fails, any number of concurrent
\* switches, disconnects and statuses meet a file that does not decode only
\* while another process is about to write it.
THEOREM TornIsTransient ==
    ASSUME "crash" \notin Faults, "io" \notin Faults
    PROVE  Spec => []TornOnlyWhileSaving
<1>1. Init => TornOnlyWhileSaving
  BY StateFileAssumption DEF Init, FileInit, TornOnlyWhileSaving
<1>2. TypeOK /\ TornOnlyWhileSaving /\ [Next]_vars => TornOnlyWhileSaving'
  BY NextTornOnlyWhileSaving
<1> QED BY <1>1, <1>2, TypeCorrect, PTL DEF Spec

\* Whatever fails: the state file is left undecodable with nobody to write it
\* only by a step in which a process that had truncated it dies, or its write
\* fails.
THEOREM TornByDeath == Spec => TornOnlyByDeath
<1>1. ASSUME TypeOK, [Next]_vars, ~Torn, Torn'
      PROVE  \E p \in Procs : DiesSaving(p)
  <2> USE <1>1 DEF TypeOK, FileTypeOK, DiesSaving
  <2>1. ASSUME NEW p \in Procs, Act(p), ~DiesSaving(p) PROVE FALSE
    <3>0. \A q \in Procs \ {p} : pc'[q] = pc[q] /\ fd'[q] = fd[q]
      BY <2>1, Frame DEF Locals
    <3>1. CASE ~Saves(p) /\ ~Crash(p)
      BY <2>1, <3>0, <3>1, OnlySavesWrite DEF Torn
    <3>2. CASE CreateState(p)
      <4>1. CASE CreateFile(p) /\ Goto(p, "encode")
        BY <4>1 DEF CreateFile, Goto, Torn
      <4>2. CASE Exit(p, 1) /\ UNCHANGED fileVars
        BY <3>0, <3>2, <4>2 DEF CreateState, fileVars, Exit, Torn
      <4> QED BY <3>2, <4>1, <4>2 DEF CreateState
    <3>3. CASE EncodeState(p)
      <4>1. /\ WriteEntry(p, want[p]) /\ pc[p] = "encode"
            /\ want[p] \in Entry /\ fd[p] \in Inodes
        BY <2>1, <3>3 DEF EncodeState, Exit, Coherent
      <4>2. path' # fd[p]
        BY <4>1, StateFileAssumption DEF WriteEntry, Torn
      <4> QED BY <3>0, <4>1, <4>2 DEF WriteEntry, Torn
    <3>4. CASE Crash(p)
      BY <2>1, <3>0, <3>4 DEF Crash, CloseFile, Exit, Torn
    <3> QED BY <3>1, <3>2, <3>3, <3>4 DEF Saves
  <2>2. CASE Reboot
    BY <2>2 DEF Reboot, Torn
  <2>3. CASE (\E m \in MACs : LinkLost(m) \/ PeerConnects(m)) \/ EditConfig
             \/ UNCHANGED vars
    BY <2>3 DEF LinkLost, PeerConnects, EditConfig, procVars, vars, Torn
  <2> QED BY <2>1, <2>2, <2>3 DEF Next, Act
<1>2. TypeOK /\ [Next]_vars =>
        [~Torn /\ Torn' => \E p \in Procs : DiesSaving(p)]_vars
  BY <1>1
<1> QED BY <1>2, TypeCorrect, PTL DEF Spec, TornOnlyByDeath

\* Whatever fails: once the file is torn and no process is past reading it,
\* no process gets past reading it again, up to a reboot.
THEOREM TornStops == Spec => TornFileStopsEveryCommand
<1>1. ASSUME TypeOK, [Next]_vars, Wedged
      PROVE  Wedged' \/ (path' = NoInode /\ links' = {})
  <2> USE <1>1 DEF TypeOK, FileTypeOK, Wedged, Torn
  <2>1. ASSUME NEW p \in Procs, Act(p) PROVE Wedged'
    <3>0. \A q \in Procs \ {p} : pc'[q] = pc[q] /\ fd'[q] = fd[q]
      BY <2>1, Frame DEF Locals
    <3>1. /\ pc'[p] \in {"idle", "open"} \/ (pc'[p] = "decode" /\ fd'[p] = path)
          /\ path' = path /\ content' = content
      <4>1. CASE (\E t \in Targets : Switch(p, t)) \/ Disconnect(p) \/ Status(p)
        BY <4>1 DEF Switch, Disconnect, Status, Exit, Start
      <4>2. CASE OpenState(p)
        BY <4>2 DEF OpenState, OpenFile, fileVars, Goto, Exit
      <4>3. CASE DecodeState(p)
        BY <4>3 DEF DecodeState, CloseFile, Exit
      <4>4. CASE Crash(p)
        BY <4>4 DEF Crash, CloseFile, Exit
      <4> QED BY <2>1, <4>1, <4>2, <4>3, <4>4
              DEF Act, Step, DropSucceeds, ConnectSucceeds, CommandFails,
                  CreateState, EncodeState, RemoveState
    <3> QED BY <3>0, <3>1
  <2>2. CASE Reboot
    BY <2>2 DEF Reboot
  <2>3. CASE (\E m \in MACs : LinkLost(m) \/ PeerConnects(m)) \/ EditConfig
             \/ UNCHANGED vars
    BY <2>3 DEF LinkLost, PeerConnects, EditConfig, procVars, vars
  <2> QED BY <2>1, <2>2, <2>3 DEF Next, Act
<1>2. TypeOK /\ [Next]_vars => [Wedged => Wedged' \/ (path' = NoInode /\ links' = {})]_vars
  BY <1>1
<1> QED BY <1>2, TypeCorrect, PTL DEF Spec, TornFileStopsEveryCommand

============================================================================
