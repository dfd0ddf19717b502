---------------------------- MODULE OneHostProofs ----------------------------
(***************************************************************************)
(* What holds of kbd-rpi when the commands that run together are alike, no *)
(* process is killed, no operation on the state file fails, no host        *)
(* connects by itself and disconnect_others is on: for any number of       *)
(* processes, targets, hosts, configs and edits of the config, with        *)
(* failing commands, lost links and reboots.  And, with kills and failing  *)
(* operations too, which of them do harm.                                  *)
(***************************************************************************)
EXTENDS SwitcherProofs

\* The premises of this module on the constants.
Undisturbed ==
    /\ {"crash", "io", "peer"} \intersect Faults = {}
    /\ \A c \in Configs \ {InvalidConfig} : c.others = TRUE

\* One process is always alike to itself.
THEOREM OneProcessIsAlike ==
    ASSUME NEW s \in Procs, Procs = {s} PROVE Spec => []Alike
<1>1. Alike
  BY DEF Alike, Busy
<1> QED BY <1>1, PTL

\* Initially no process is running and there is neither link nor file.
LEMMA InitLinkFollowsSteps == Init => LinkFollowsSteps
BY DEF Init, LinkFollowsSteps, Busy

----------------------------------------------------------------------------
(* How the steps of a process move the world.                              *)

\* The steps that leave file and links alone: all but those below.
Looks(s) ==
    \/ (\E t \in Targets : Switch(s, t)) \/ Disconnect(s) \/ Status(s)
    \/ OpenState(s) \/ DecodeState(s) \/ CommandFails(s)

\* Such a step changes neither file nor links and neither begins nor ends a
\* save.
LEMMA LooksOnly ==
    ASSUME TypeOK, NEW s \in Procs, Looks(s)
    PROVE  /\ UNCHANGED <<path, content, links>>
           /\ s \notin Saving /\ pc'[s] \notin {"create", "encode"}
<1> USE DEF TypeOK, FileTypeOK, Saving
<1>1. CASE (\E t \in Targets : Switch(s, t)) \/ Disconnect(s) \/ Status(s)
  BY <1>1 DEF Switch, Disconnect, Status, Exit, Start
<1>2. CASE OpenState(s)
  BY <1>2 DEF OpenState, OpenFile, fileVars, Proceed, Goto, Exit
<1>3. CASE DecodeState(s)
  BY <1>3 DEF DecodeState, CloseFile, Proceed, Goto, Exit
<1>4. CASE CommandFails(s)
  BY <1>4 DEF CommandFails, Exit
<1> QED BY <1>1, <1>2, <1>3, <1>4 DEF Looks

\* A process that looks finds, at its next step, what it is to find there.
LEMMA LooksFinds ==
    ASSUME TypeOK, LinkFollowsSteps, Alike,
           NEW s \in Procs, Looks(s), s \in Busy', op'[s] = "switch" => others'[s]
    PROVE  Finds(s)'
<1> USE StateFileAssumption DEF TypeOK, FileTypeOK, Finds, Busy
<1>1. ASSUME NEW t \in Targets, Switch(s, t) PROVE Finds(s)'
  BY <1>1 DEF Switch, Exit, Start
<1>2. CASE Disconnect(s) \/ Status(s)
  BY <1>2 DEF Disconnect, Status, Start
\* An entry e that s goes on with tells of all linked hosts but, for a
\* switch, the target's.
<1>3. ASSUME NEW e \in Entry \union {NoEntry}, Proceed(s, e), s \in Busy,
             links' = links, op[s] = "switch" => others[s],
             e = NoEntry => links \subseteq
                (IF op[s] = "switch" THEN {want[s].mac} ELSE {}),
             e # NoEntry => links \subseteq
                (IF op[s] = "switch" THEN {e.mac, want[s].mac} ELSE {e.mac})
      PROVE  Finds(s)'
  <2>1. CASE /\ pc' = [pc EXCEPT ![s] = "drop"] /\ e # NoEntry
             /\ cur' = [cur EXCEPT ![s] = e]
             /\ UNCHANGED <<op, want, others, exit>>
    BY <1>3, <2>1
  <2>2. CASE Goto(s, "connect") /\ op[s] = "switch" /\ (e # NoEntry => e.mac = want[s].mac)
    BY <1>3, <2>2 DEF Goto
  <2>3. CASE Exit(s, 0)
    BY <2>3 DEF Exit
  <2> QED BY <1>3, <2>1, <2>2, <2>3 DEF Proceed
\* What is linked, is recorded or the host of the common target.
<1>4. ASSUME s \in Busy
      PROVE  links \subseteq RecordedMACs
                \union (IF op[s] = "switch" THEN {want[s].mac} ELSE {})
  <2>1. \A q \in Saving : q \in Busy /\ op[q] = "switch" /\ op[s] = "switch"
                          /\ want[q] = want[s]
    BY <1>4 DEF Saving, Alike, Coherent
  <2> QED BY <2>1 DEF LinkFollowsSteps
<1>5. CASE OpenState(s)
  <2>1. CASE path = NoInode /\ Proceed(s, NoEntry) /\ UNCHANGED fileVars
    <3>1. CASE op[s] = "status"
      BY <2>1, <3>1 DEF Proceed, Exit
    <3>2. CASE op[s] # "status"
      <4>1. s \in Busy /\ links' = links
        BY <1>5, <3>2 DEF OpenState
      <4>2. links \subseteq (IF op[s] = "switch" THEN {want[s].mac} ELSE {})
        BY <1>4, <2>1, <4>1 DEF RecordedMACs, Recorded
      <4> QED BY <1>3, <2>1, <4>1, <4>2 DEF LinkFollowsSteps
    <3> QED BY <3>1, <3>2
  <2>2. CASE OpenFile(s) /\ Goto(s, "decode")
    BY <1>5, <2>2 DEF OpenState, Goto, OpenFile, LinkFollowsSteps
  <2>3. CASE Exit(s, 2)
    BY <2>3 DEF Exit
  <2> QED BY <1>5, <2>1, <2>2, <2>3 DEF OpenState
<1>6. CASE DecodeState(s)
  <2>0. fd[s] \in Inodes /\ pc[s] = "decode"
    BY <1>6 DEF DecodeState, Coherent
  <2>1. CASE content[fd[s]] = Broken
    BY <1>6, <2>1 DEF DecodeState, Exit
  <2>2. CASE op[s] = "status"
    BY <1>6, <2>2 DEF DecodeState, Proceed, Exit
  <2>3. CASE content[fd[s]] # Broken /\ op[s] # "status"
    <3> DEFINE e == content[fd[s]]
    <3>1. s \in Busy /\ e \in Entry /\ e # NoEntry /\ Proceed(s, e) /\ links' = links
      BY <1>6, <2>0, <2>3, SwitcherAssumption DEF DecodeState
    <3>2. Finds(s)
      BY <3>1 DEF LinkFollowsSteps
    <3>3. fd[s] = path => RecordedMACs = {e.mac}
      BY <2>0, <2>3 DEF RecordedMACs, Recorded
    <3>4. path = NoInode => RecordedMACs = {}
      BY DEF RecordedMACs, Recorded
    <3>5. links \subseteq (IF op[s] = "switch" THEN {e.mac, want[s].mac} ELSE {e.mac})
      BY <1>4, <2>0, <3>1, <3>2, <3>3, <3>4
    <3> HIDE DEF e
    <3> QED BY <1>3, <3>1, <3>2, <3>5
  <2> QED BY <2>1, <2>2, <2>3
<1>7. CASE CommandFails(s)
  BY <1>7 DEF CommandFails, Exit
<1> QED BY <1>1, <1>2, <1>5, <1>6, <1>7 DEF Looks

----------------------------------------------------------------------------
(* LinkFollowsSteps is inductive while the commands are alike.             *)

\* A step of a process keeps it, unless the process dies after its connect.
LEMMA ActKeepsLinks ==
    ASSUME TypeOK, LinkFollowsSteps, Alike, NEW s \in Procs, Act(s),
           ~DiesBeforeSaved(s), s \in Busy' /\ op'[s] = "switch" => others'[s]
    PROVE  LinkFollowsSteps'
<1>1. \A q \in Procs \ {s} :
        /\ pc'[q] = pc[q] /\ op'[q] = op[q] /\ want'[q] = want[q] /\ fd'[q] = fd[q]
        /\ others'[q] = others[q] /\ cur'[q] = cur[q]
        /\ q \in Busy' <=> q \in Busy
        /\ q \in Saving' <=> q \in Saving
  BY Frame DEF Locals, Busy, Saving
\* Two busy processes are at the same command.
<1>2. \A p, q \in Busy : op[p] = op[q] /\ want[p] = want[q]
  BY DEF Alike
<1>3. \A q \in Busy : Finds(q)
  BY DEF LinkFollowsSteps
<1> DEFINE Others == \A q \in Busy \ {s} : Finds(q)'
           Known == links' \subseteq RecordedMACs' \union {want'[p].mac : p \in Saving'}
           Few == \A m, n \in links' : m = n
<1>4. SUFFICES Few /\ Known /\ Others /\ (s \in Busy' => Finds(s)')
  BY <1>1 DEF LinkFollowsSteps, Busy
<1>5. \A p \in Busy : p \in Procs
  BY DEF Busy
<1> USE StateFileAssumption DEF TypeOK, FileTypeOK
<1>6. CASE Looks(s)
  <2>1. UNCHANGED <<path, content, links>> /\ s \notin Saving /\ s \notin Saving'
    BY <1>6, LooksOnly DEF Saving
  <2>2. {want'[p].mac : p \in Saving'} = {want[p].mac : p \in Saving}
    BY <1>1, <2>1 DEF Saving
  <2>3. Few /\ Known
    BY <2>1, <2>2 DEF LinkFollowsSteps, RecordedMACs, Recorded
  <2>4. Others
    BY <1>1, <1>3, <1>5, <2>1 DEF Finds
  <2> QED BY <1>6, <2>3, <2>4, LooksFinds
<1>7. CASE DropSucceeds(s)
  <2>1. /\ links' = links \ {cur[s].mac} /\ UNCHANGED <<path, content, fd, op, want, others, cur>>
        /\ pc[s] = "drop" /\ pc' = [pc EXCEPT ![s] =
                                     IF op[s] = "switch" THEN "connect" ELSE "remove"]
        /\ s \in Busy /\ op[s] # "status"
    BY <1>7 DEF DropSucceeds, Goto, Coherent, Busy
  <2>2. {want'[p].mac : p \in Saving'} = {want[p].mac : p \in Saving}
    BY <1>1, <2>1 DEF Saving
  <2>3. Few /\ Known
    BY <2>1, <2>2 DEF LinkFollowsSteps, RecordedMACs, Recorded
  <2>4. Others
    BY <1>1, <1>3, <1>5, <2>1 DEF Finds
  <2>5. Finds(s) /\ op[s] \in {"switch", "disconnect"}
    BY <1>3, <2>1 DEF Ops
  <2>6. Finds(s)'
    <3>1. CASE op[s] = "switch"
      <4>1. links \subseteq {cur[s].mac, want[s].mac} /\ others[s] /\ pc'[s] = "connect"
        BY <2>1, <2>5, <3>1 DEF Finds
      <4> QED BY <2>1, <3>1, <4>1 DEF Finds
    <3>2. CASE op[s] = "disconnect"
      <4>1. links \subseteq {cur[s].mac} /\ pc'[s] = "remove"
        BY <2>1, <2>5, <3>2 DEF Finds
      <4> QED BY <2>1, <3>2, <4>1 DEF Finds
    <3> QED BY <2>5, <3>1, <3>2
  <2> QED BY <2>3, <2>4, <2>6
<1>8. CASE ConnectSucceeds(s)
  <2>1. /\ links' = links \union {want[s].mac} /\ UNCHANGED <<path, content, fd, op, want, others, cur>>
        /\ pc[s] = "connect" /\ pc' = [pc EXCEPT ![s] = "create"]
        /\ s \in Busy /\ op[s] = "switch"
    BY <1>8 DEF ConnectSucceeds, Goto, Coherent, Busy
  <2>2. links' = {want[s].mac} /\ Finds(s)
    BY <1>3, <2>1 DEF Finds
  <2>3. s \in Saving' /\ want'[s] = want[s]
    BY <2>1 DEF Saving
  <2>4. Others
    <3> SUFFICES ASSUME NEW q \in Busy, q # s PROVE Finds(q)'
      OBVIOUS
    <3>1. /\ op[q] = "switch" /\ want[q] = want[s] /\ Finds(q) /\ q \in Procs
          /\ pc[q] # "remove"
      BY <1>2, <1>3, <1>5, <2>1 DEF Coherent
    <3> QED BY <1>1, <2>1, <2>2, <3>1 DEF Finds
  <2>5. Finds(s)'
    BY <2>1, <2>2 DEF Finds
  <2> QED BY <2>2, <2>3, <2>4, <2>5
<1>9. CASE CreateState(s)
  <2>1. PICK i \in Inodes :
          /\ path' = i /\ (path # NoInode => i = path) /\ links' = links
          /\ fd' = [fd EXCEPT ![s] = i] /\ UNCHANGED <<op, want, others, cur>>
          /\ pc[s] = "create" /\ pc' = [pc EXCEPT ![s] = "encode"]
    BY <1>9 DEF CreateState, CreateFile, Goto, Exit, DiesBeforeSaved, Exits
  <2>2. s \in Busy /\ op[s] = "switch" /\ s \in Saving'
    BY <2>1 DEF Coherent, Busy, Saving
  <2>3. links \subseteq {want[s].mac}
    BY <1>3, <2>1, <2>2 DEF Finds
  <2>4. Few /\ Known
    BY <2>1, <2>2, <2>3
  <2>5. Others
    <3> SUFFICES ASSUME NEW q \in Busy, q # s PROVE Finds(q)'
      OBVIOUS
    <3>1. op[q] = "switch" /\ Finds(q) /\ q \in Procs /\ Coherent(q)
      BY <1>2, <1>3, <1>5, <2>2
    <3> QED BY <1>1, <2>1, <3>1 DEF Finds, Coherent
  <2>6. Finds(s)'
    BY <1>3, <2>1, <2>2, <2>3 DEF Finds
  <2> QED BY <2>4, <2>5, <2>6
<1>10. CASE EncodeState(s)
  <2>1. /\ content' = [content EXCEPT ![fd[s]] = want[s]] /\ path' = path
        /\ links' = links /\ pc[s] = "encode" /\ pc'[s] = "idle"
        /\ want[s] \in Entry /\ fd[s] \in Inodes /\ s \in Busy /\ op[s] = "switch"
    BY <1>10 DEF EncodeState, WriteEntry, Exit, Coherent, Busy, DiesBeforeSaved, Exits
  <2>2. fd[s] = path /\ links \subseteq {want[s].mac}
    BY <1>3, <2>1 DEF Finds
  <2>3. RecordedMACs' = {want[s].mac}
    BY <2>1, <2>2 DEF RecordedMACs, Recorded
  <2>4. Others
    BY <1>1, <1>3, <1>5, <2>1 DEF Finds
  <2>5. s \notin Busy'
    BY <2>1 DEF Busy
  <2> QED BY <2>1, <2>2, <2>3, <2>4, <2>5
<1>11. CASE RemoveState(s)
  <2>1. /\ path' \in {path, NoInode} /\ content' = content /\ links' = links
        /\ pc[s] = "remove" /\ pc'[s] = "idle" /\ fd' = fd
    BY <1>11 DEF RemoveState, RemoveName, Exit, fileVars
  <2>2. s \in Busy /\ op[s] = "disconnect" /\ links = {}
    BY <1>3, <2>1 DEF Coherent, Busy, Finds
  <2>3. Others
    <3> SUFFICES ASSUME NEW q \in Busy, q # s PROVE Finds(q)'
      OBVIOUS
    <3>1. op[q] = "disconnect" /\ Finds(q) /\ q \in Procs /\ Coherent(q)
      BY <1>2, <1>3, <1>5, <2>2
    <3> QED BY <1>1, <2>1, <2>2, <3>1 DEF Finds, Coherent
  <2>4. s \notin Busy'
    BY <2>1 DEF Busy
  <2> QED BY <2>1, <2>2, <2>3, <2>4
<1>12. CASE Crash(s)
  <2>1. /\ UNCHANGED <<path, content>> /\ pc[s] # "idle" /\ pc'[s] = "idle"
        /\ exit'[s] = Killed
    BY <1>12 DEF Crash, CloseFile, Exit
  <2>2. pc[s] \notin {"connect", "create", "encode"}
    BY <2>1 DEF DiesBeforeSaved
  <2>3. links' \subseteq links
    BY <1>12, <2>2 DEF Crash
  <2>4. {want'[p].mac : p \in Saving'} = {want[p].mac : p \in Saving}
    BY <1>1, <2>1, <2>2 DEF Saving
  <2>5. Few /\ Known
    BY <2>1, <2>3, <2>4 DEF LinkFollowsSteps, RecordedMACs, Recorded
  <2>6. Others
    BY <1>1, <1>3, <1>5, <2>1, <2>3 DEF Finds
  <2>7. s \notin Busy'
    BY <2>1 DEF Busy
  <2> QED BY <2>5, <2>6, <2>7
<1> QED
  BY <1>6, <1>7, <1>8, <1>9, <1>10, <1>11, <1>12 DEF Act, Step, Looks

\* Without kills and failing operations none dies there.
LEMMA NoDeath ==
    ASSUME Undisturbed, TypeOK, LinkFollowsSteps, NEW s \in Procs, Act(s)
    PROVE  ~DiesBeforeSaved(s) /\ (s \in Busy' /\ op'[s] = "switch" => others'[s])
<1> USE DEF TypeOK, Busy
<1>1. "crash" \notin Faults /\ "io" \notin Faults
  BY DEF Undisturbed
<1>2. cfg # InvalidConfig => cfg.others = TRUE
  BY DEF Undisturbed
<1>3. s \in Busy /\ op[s] = "switch" => others[s]
  BY DEF LinkFollowsSteps, Finds
<1>4. ASSUME NEW code, Exit(s, code)
      PROVE  s \notin Busy' /\ (code \in Exits => exit'[s] = code)
  BY <1>4 DEF Exit
<1>5. ASSUME NEW l \in PCs, Goto(s, l), pc[s] # "idle"
      PROVE  pc'[s] = l /\ (s \in Busy' /\ op'[s] = "switch" => others'[s])
  BY <1>3, <1>5 DEF Goto
<1>6. ASSUME NEW e, Proceed(s, e), pc[s] # "idle"
      PROVE  s \in Busy' /\ op'[s] = "switch" => others'[s]
  BY <1>3, <1>4, <1>5, <1>6 DEF Proceed, PCs
<1>7. CASE (\E t \in Targets : Switch(s, t)) \/ Disconnect(s) \/ Status(s)
  BY <1>2, <1>7 DEF Switch, Disconnect, Status, Exit, Start, DiesBeforeSaved
<1>8. CASE OpenState(s) \/ DecodeState(s)
  BY <1>4, <1>5, <1>6, <1>8 DEF OpenState, DecodeState, DiesBeforeSaved, PCs
<1>9. CASE DropSucceeds(s) \/ ConnectSucceeds(s)
  BY <1>5, <1>9 DEF DropSucceeds, ConnectSucceeds, DiesBeforeSaved, PCs
<1>10. CASE CommandFails(s) \/ RemoveState(s)
  BY <1>4, <1>10 DEF CommandFails, RemoveState, DiesBeforeSaved, Exits, Killed
<1>11. CASE CreateState(s) \/ EncodeState(s)
  BY <1>1, <1>4, <1>5, <1>11
     DEF CreateState, EncodeState, DiesBeforeSaved, PCs, Exits, Killed
<1> QED BY <1>1, <1>7, <1>8, <1>9, <1>10, <1>11 DEF Act, Step, Crash

\* So does a step of the surroundings.
LEMMA NextKeepsLinks ==
    ASSUME TypeOK, LinkFollowsSteps, Alike, [Next]_vars,
           \A m \in MACs : ~PeerConnects(m),
           \A s \in Procs : Act(s) =>
                /\ ~DiesBeforeSaved(s)
                /\ s \in Busy' /\ op'[s] = "switch" => others'[s]
    PROVE  LinkFollowsSteps'
<1> USE DEF LinkFollowsSteps, Finds, Busy, Saving, Recorded, RecordedMACs
<1>2. CASE Reboot
  BY <1>2 DEF Reboot
<1>3. ASSUME NEW m \in MACs, LinkLost(m) PROVE LinkFollowsSteps'
  BY <1>3 DEF LinkLost, procVars
<1>4. CASE EditConfig
  BY <1>4 DEF EditConfig, procVars
<1>5. CASE UNCHANGED vars
  BY <1>5 DEF vars
<1>6. ASSUME NEW s \in Procs, Act(s) PROVE LinkFollowsSteps'
  BY <1>6, ActKeepsLinks
<1> QED BY <1>2, <1>3, <1>4, <1>5, <1>6 DEF Next, Act

\* At every step of a command the links are those the step is to find, as
\* long as the commands that run together are alike.
THEOREM LinkFollowsStepsHolds ==
    ASSUME Undisturbed PROVE Spec /\ []Alike => []LinkFollowsSteps
<1>1. TypeOK /\ LinkFollowsSteps /\ Alike /\ [Next]_vars => LinkFollowsSteps'
  BY NextKeepsLinks, NoDeath DEF Undisturbed, PeerConnects
<1> QED BY <1>1, InitLinkFollowsSteps, TypeCorrect, PTL DEF Spec

\* With every fault there is: a link is forgotten only when a process dies
\* between its connect and the end of its save, or a host comes by itself.
THEOREM LinksForgotten == Spec => LinksForgottenOnlyByDeath
<1>1. TypeOK /\ [Next]_vars =>
        [LinkFollowsSteps /\ Alike /\ Excluding' /\ ~LinkFollowsSteps' =>
            \/ \E p \in Procs : DiesBeforeSaved(p)
            \/ \E m \in MACs : PeerConnects(m)]_vars
  BY NextKeepsLinks DEF Excluding
<1> QED BY <1>1, TypeCorrect, PTL DEF Spec, LinksForgottenOnlyByDeath

\* Whenever neither a switch nor a disconnect runs, every linked host is the
\* recorded one.
THEOREM LinksRecorded ==
    ASSUME Undisturbed PROVE Spec /\ []Alike => []LinksAreRecorded
<1>1. TypeOK /\ LinkFollowsSteps => LinksAreRecorded
  BY DEF LinkFollowsSteps, LinksAreRecorded, Saving, Busy, TypeOK, Coherent
<1> QED BY <1>1, LinkFollowsStepsHolds, TypeCorrect, PTL

\* A switch connects its target only when the host of the entry in the file,
\* if it is another one, is disconnected.
THEOREM PreviousDisconnected ==
    ASSUME Undisturbed PROVE Spec /\ []Alike => DisconnectsPreviousEntry
<1>1. ASSUME TypeOK, LinkFollowsSteps, NEW p \in Procs, pc[p] = "connect"
      PROVE  RecordedMACs \intersect links \subseteq {want[p].mac}
  BY <1>1 DEF LinkFollowsSteps, Finds, Busy, TypeOK, Coherent
<1>2. TypeOK /\ LinkFollowsSteps /\ [Next]_vars =>
        [\A p \in Procs :
            pc[p] = "connect" /\ pc'[p] = "create" /\ others[p] =>
                RecordedMACs \intersect links \subseteq {want[p].mac}]_vars
  BY <1>1
<1> QED BY <1>2, LinkFollowsStepsHolds, TypeCorrect, PTL DEF Spec, DisconnectsPreviousEntry

----------------------------------------------------------------------------
(* What a retry leaves alone.                                              *)

\* A switch disconnects another host than its own.
DropsAnother ==
    \A p \in Procs :
        pc[p] = "drop" /\ op[p] = "switch" => cur[p].mac # want[p].mac

\* Only a switch that has read another host's entry comes to its disconnect.
LEMMA NextDropsAnother ==
    TypeOK /\ DropsAnother /\ [Next]_vars => DropsAnother'
<1> SUFFICES ASSUME TypeOK, DropsAnother, [Next]_vars PROVE DropsAnother'
  OBVIOUS
<1> USE DEF DropsAnother, TypeOK
<1>1. ASSUME NEW s \in Procs, Act(s) PROVE DropsAnother'
  <2>1. \A q \in Procs \ {s} :
            pc'[q] = pc[q] /\ op'[q] = op[q] /\ want'[q] = want[q] /\ cur'[q] = cur[q]
    BY <1>1, Frame DEF Locals
  <2>2. SUFFICES ASSUME pc'[s] = "drop", op'[s] = "switch"
                 PROVE  cur'[s].mac # want'[s].mac
    BY <2>1
  <2>3. ASSUME NEW code, Exit(s, code) PROVE FALSE
    BY <2>2, <2>3 DEF Exit
  <2>4. ASSUME NEW l, l # "drop", Goto(s, l) PROVE FALSE
    BY <2>2, <2>4 DEF Goto
  <2>5. ASSUME NEW c, NEW e, NEW o, Start(s, c, e, o) PROVE FALSE
    BY <2>2, <2>5 DEF Start
  <2>6. ASSUME NEW e, Proceed(s, e) PROVE cur'[s].mac # want'[s].mac
    BY <2>2, <2>3, <2>4, <2>6 DEF Proceed
  <2>7. CASE (\E t \in Targets : Switch(s, t)) \/ Disconnect(s) \/ Status(s)
    BY <2>3, <2>5, <2>7 DEF Switch, Disconnect, Status
  <2>8. CASE OpenState(s) \/ DecodeState(s)
    BY <2>3, <2>4, <2>6, <2>8 DEF OpenState, DecodeState
  <2>9. CASE DropSucceeds(s) \/ ConnectSucceeds(s) \/ CommandFails(s)
    BY <2>3, <2>4, <2>9 DEF DropSucceeds, ConnectSucceeds, CommandFails
  <2>10. CASE CreateState(s) \/ EncodeState(s) \/ RemoveState(s) \/ Crash(s)
    BY <2>3, <2>4, <2>10 DEF CreateState, EncodeState, RemoveState, Crash
  <2> QED BY <1>1, <2>7, <2>8, <2>9, <2>10 DEF Act, Step
<1>2. CASE Reboot
  BY <1>2 DEF Reboot
<1>3. CASE UNCHANGED procVars
  BY <1>3 DEF procVars
<1>4. CASE (\E m \in MACs : LinkLost(m) \/ PeerConnects(m)) \/ EditConfig \/ UNCHANGED vars
  BY <1>3, <1>4 DEF LinkLost, PeerConnects, EditConfig, vars, procVars
<1> QED BY <1>1, <1>2, <1>4 DEF Next, Act

\* A link goes by a disconnect that runs, by itself or in a reboot.
LEMMA WhoseLinkGoes ==
    ASSUME TypeOK, [Next]_vars, NEW m \in links \ links'
    PROVE  Reboot \/ LinkLost(m) \/ \E s \in Procs : pc[s] = "drop" /\ m = cur[s].mac
<1>1. ASSUME NEW s \in Procs, Act(s) PROVE pc[s] = "drop" /\ m = cur[s].mac
  <2>1. CASE Looks(s)
    BY <2>1, LooksOnly
  <2>2. CASE ~Looks(s)
    BY <1>1, <2>2 DEF Act, Step, Looks, DropSucceeds, ConnectSucceeds, CreateState,
                      EncodeState, RemoveState, Crash
  <2> QED BY <2>1, <2>2
<1> QED BY <1>1 DEF Next, Act, LinkLost, PeerConnects, EditConfig, vars

\* With every fault there is: no process takes down the link that a switch at
\* work beside it is to leave (app.go:159).
THEOREM RetriesKeepLinks == Spec /\ []Alike => RetryKeepsLink
<1>1. Init => DropsAnother
  BY DEF Init, DropsAnother
<1>2. TypeOK /\ DropsAnother /\ [Next]_vars => DropsAnother'
  BY NextDropsAnother
<1>3. TypeOK /\ DropsAnother /\ Alike /\ [Next]_vars =>
        [\A q \in Busy :
            op[q] = "switch" /\ want[q].mac \in links \ links' =>
                Reboot \/ LinkLost(want[q].mac)]_vars
  <2> SUFFICES ASSUME TypeOK, DropsAnother, Alike, [Next]_vars, NEW q \in Busy,
                      op[q] = "switch", want[q].mac \in links \ links',
                      NEW s \in Procs, pc[s] = "drop", want[q].mac = cur[s].mac
               PROVE  FALSE
    BY WhoseLinkGoes
  <2>1. s \in Busy
    BY DEF Busy, TypeOK, Coherent
  <2>2. op[s] = "switch" /\ want[s] = want[q]
    BY <2>1 DEF Alike
  <2> QED BY <2>2 DEF DropsAnother
<1> QED BY <1>1, <1>2, <1>3, TypeCorrect, PTL DEF Spec, RetryKeepsLink

----------------------------------------------------------------------------
(* Switcher implements OneHost.                                            *)

\* What the record is about to be: the entry every writer writes, or the
\* contents of the file if there is none.
RecordIsKnown ==
    /\ \A p \in Procs : pc[p] = "encode" => path # NoInode /\ RecordInMaking = want[p]
    /\ (\A p \in Procs : pc[p] # "encode") =>
            RecordInMaking = IF path = NoInode THEN NoEntry ELSE content[path]

\* All writers have the file open that the name stands for, and the same
\* entry.
LEMMA RecordKnown ==
    TypeOK /\ LinkFollowsSteps /\ Alike => RecordIsKnown
<1> SUFFICES ASSUME TypeOK, LinkFollowsSteps, Alike PROVE RecordIsKnown
  OBVIOUS
<1> USE DEF TypeOK, FileTypeOK
<1>1. ASSUME NEW p \in Procs, pc[p] = "encode"
      PROVE  p \in Busy /\ fd[p] = path /\ path # NoInode
  BY <1>1 DEF Coherent, Busy, LinkFollowsSteps, Finds
<1>2. ASSUME NEW p \in Procs, pc[p] = "encode"
      PROVE  path # NoInode /\ RecordInMaking = want[p]
  <2> DEFINE q == CHOOSE q \in Procs : pc[q] = "encode" /\ fd[q] = path
  <2>1. q \in Procs /\ pc[q] = "encode"
    BY <1>1, <1>2
  <2>2. want[q] = want[p]
    <3> HIDE DEF q
    <3> QED BY <1>1, <1>2, <2>1 DEF Alike
  <2> QED BY <1>1, <1>2, <2>2 DEF RecordInMaking
<1> QED BY <1>2 DEF RecordIsKnown, RecordInMaking

\* A step of a process is a step of OneHost or changes nothing it sees, and
\* only a switch at work puts its entry in the record.
LEMMA ActImplements ==
    ASSUME Undisturbed, TypeOK, LinkFollowsSteps, Alike, RecordIsKnown,
           RecordIsKnown', Alike', NEW s \in Procs, Act(s)
    PROVE  /\ [Ledger!Next]_<<links, RecordInMaking>>
           /\ \/ RecordInMaking' \in {RecordInMaking, NoEntry}
              \/ op[s] = "switch" /\ pc[s] # "idle" /\ RecordInMaking' = want[s]
           /\ op[s] = "switch" /\ pc[s] # "idle" /\ pc'[s] = "idle" /\ exit'[s] = 0 =>
                RecordInMaking' = want[s] /\ links' \subseteq {want[s].mac}
<1>0. "crash" \notin Faults /\ "io" \notin Faults
  BY DEF Undisturbed
<1> DEFINE rec == RecordInMaking
           Saved == op[s] = "switch" /\ pc[s] # "idle" /\ pc'[s] = "idle" /\ exit'[s] = 0 =>
                        rec' = want[s] /\ links' \subseteq {want[s].mac}
           Changes ==
               \/ rec' \in {rec, NoEntry}
               \/ op[s] = "switch" /\ pc[s] # "idle" /\ rec' = want[s]
           Move ==
               \/ links' = links /\ rec' = rec
               \/ links' = {} /\ rec' \in {rec, NoEntry}
               \/ \E m \in MACs : links = {} /\ links' = {m} /\ rec' = rec
               \/ \E e \in Entry : links \subseteq {e.mac} /\ rec' = e /\ links' = links
<1>1. \A q \in Procs \ {s} : pc'[q] = pc[q] /\ want'[q] = want[q]
  BY Frame DEF Locals
<1>2. SUFFICES Move /\ Changes /\ Saved
  BY DEF Ledger!Next, Ledger!Leave, Ledger!Erase, Ledger!Take, Ledger!Note
\* Steps that leave the file alone and neither begin nor end a write leave
\* the record alone.
<1>3. ASSUME path' = path, content' = content, pc[s] # "encode", pc'[s] # "encode"
      PROVE  rec' = rec
  <2>1. CASE \A p \in Procs : pc[p] # "encode"
    <3>1. \A p \in Procs : pc'[p] # "encode"
      BY <1>1, <1>3, <2>1
    <3> QED BY <1>3, <2>1, <3>1 DEF RecordIsKnown
  <2>2. ASSUME NEW p \in Procs, pc[p] = "encode" PROVE rec' = rec
    BY <1>1, <1>3, <2>2 DEF RecordIsKnown
  <2> QED BY <2>1, <2>2
<1> HIDE DEF rec
<1>4. \A m, n \in links : m = n
  BY DEF LinkFollowsSteps
<1>5. \A p \in Busy : Finds(p)
  BY DEF LinkFollowsSteps
<1> USE StateFileAssumption DEF TypeOK, FileTypeOK
<1>6. CASE Looks(s)
  <2>1. UNCHANGED <<path, content, links>> /\ pc[s] # "encode" /\ pc'[s] # "encode"
    BY <1>6, LooksOnly DEF Saving
  <2>2. Saved
    <3>1. CASE (\E t \in Targets : Switch(s, t)) \/ Disconnect(s) \/ Status(s)
      BY <3>1 DEF Switch, Disconnect, Status
    <3>2. CASE OpenState(s)
      BY <3>2 DEF OpenState, OpenFile, fileVars, Proceed, Goto, Exit
    <3>3. CASE DecodeState(s)
      BY <3>3 DEF DecodeState, CloseFile, Proceed, Goto, Exit
    <3>4. CASE CommandFails(s)
      BY <3>4 DEF CommandFails, Exit
    <3> QED BY <1>6, <3>1, <3>2, <3>3, <3>4 DEF Looks
  <2> QED BY <1>3, <2>1, <2>2
<1>7. CASE DropSucceeds(s)
  <2>1. /\ links' = links \ {cur[s].mac} /\ UNCHANGED <<path, content>>
        /\ pc[s] = "drop" /\ pc'[s] \in {"connect", "remove"}
    BY <1>7 DEF DropSucceeds, Goto
  <2>2. links' = links \/ links' = {}
    BY <1>4, <2>1
  <2> QED BY <1>3, <2>1, <2>2
<1>8. CASE ConnectSucceeds(s)
  <2>1. /\ links' = links \union {want[s].mac} /\ UNCHANGED <<path, content>>
        /\ pc[s] = "connect" /\ pc'[s] = "create" /\ want[s].mac \in MACs
        /\ links \subseteq {want[s].mac}
    BY <1>5, <1>8 DEF ConnectSucceeds, Goto, Coherent, Busy, Finds, Entry
  <2>2. links' = links \/ (links = {} /\ links' = {want[s].mac})
    BY <2>1
  <2> QED BY <1>3, <2>1, <2>2
<1>9. CASE CreateState(s)
  <2>1. /\ links' = links /\ pc[s] = "create" /\ pc'[s] = "encode"
        /\ want' = want /\ want[s] \in Entry /\ links \subseteq {want[s].mac}
        /\ op[s] = "switch"
    BY <1>0, <1>5, <1>9 DEF CreateState, CreateFile, Goto, Coherent, Busy, Finds
  <2>2. rec' = want[s]
    BY <2>1 DEF RecordIsKnown, rec
  <2> QED BY <2>1, <2>2
<1>10. CASE EncodeState(s)
  <2>1. /\ content' = [content EXCEPT ![fd[s]] = want[s]] /\ path' = path
        /\ links' = links /\ pc[s] = "encode" /\ pc'[s] = "idle"
        /\ s \in Busy /\ fd[s] = path /\ path \in Inodes /\ links \subseteq {want[s].mac}
    BY <1>0, <1>5, <1>10 DEF EncodeState, WriteEntry, Exit, Coherent, Busy, Finds
  <2>2. rec = want[s]
    BY <2>1 DEF RecordIsKnown, rec
  <2>3. rec' = want[s]
    <3>1. ASSUME NEW q \in Procs, pc'[q] = "encode" PROVE rec' = want[s]
      <4>1. q # s /\ q \in Busy /\ want'[q] = want[s]
        BY <1>1, <2>1, <3>1 DEF Alike, Busy, Coherent
      <4> QED BY <3>1, <4>1 DEF RecordIsKnown, rec
    <3>2. CASE \A q \in Procs : pc'[q] # "encode"
      <4>1. path' # NoInode /\ content'[path'] = want[s]
        BY <2>1
      <4> QED BY <3>2, <4>1 DEF RecordIsKnown, rec
    <3> QED BY <3>1, <3>2
  <2> QED BY <2>1, <2>2, <2>3
<1>11. CASE RemoveState(s)
  <2>1. /\ path' = NoInode /\ links' = links /\ pc[s] = "remove" /\ pc'[s] = "idle"
        /\ op[s] = "disconnect" /\ links = {}
    BY <1>0, <1>5, <1>11 DEF RemoveState, RemoveName, Exit, Coherent, Busy, Finds
  <2>2. rec' = NoEntry
    <3>1. \A q \in Procs : pc'[q] # "encode"
      BY <2>1 DEF RecordIsKnown
    <3> QED BY <2>1, <3>1 DEF RecordIsKnown, rec
  <2> QED BY <2>1, <2>2
<1> QED
  BY <1>0, <1>6, <1>7, <1>8, <1>9, <1>10, <1>11 DEF Act, Step, Looks, Crash

\* So is a step of the surroundings.
LEMMA NextImplements ==
    ASSUME Undisturbed, TypeOK, LinkFollowsSteps, Alike, RecordIsKnown,
           RecordIsKnown', Alike', [Next]_vars
    PROVE  [Ledger!Next]_<<links, RecordInMaking>>
<1>1. CASE \E s \in Procs : Act(s)
  BY <1>1, ActImplements
<1>2. CASE Reboot
  <2>1. links' = {} /\ path' = NoInode /\ \A p \in Procs : pc'[p] # "encode"
    BY <1>2 DEF Reboot
  <2>2. RecordInMaking' = NoEntry
    BY <2>1 DEF RecordIsKnown
  <2> QED BY <2>1, <2>2 DEF Ledger!Next, Ledger!Erase
<1>3. ASSUME NEW m \in MACs, LinkLost(m)
      PROVE  [Ledger!Next]_<<links, RecordInMaking>>
  <2>1. links' = {}
    BY <1>3 DEF LinkLost, LinkFollowsSteps
  <2>2. RecordInMaking' = RecordInMaking
    BY <1>3 DEF LinkLost, procVars, RecordInMaking
  <2> QED BY <2>1, <2>2 DEF Ledger!Next, Ledger!Leave
<1>4. CASE EditConfig \/ UNCHANGED vars
  BY <1>4 DEF EditConfig, procVars, vars, RecordInMaking
<1> QED BY <1>1, <1>2, <1>3, <1>4 DEF Next, Act, PeerConnects, Undisturbed

\* The commands serve one host at a time and keep the record with the link.
THEOREM ImplementsOneHost ==
    ASSUME Undisturbed PROVE Spec /\ []Alike => ServesOneHost
<1>1. Init => Ledger!Init
  BY DEF Init, FileInit, Ledger!Init, RecordInMaking
<1>2. TypeOK /\ LinkFollowsSteps /\ Alike /\ RecordIsKnown /\ RecordIsKnown'
        /\ Alike' /\ [Next]_vars => [Ledger!Next]_<<links, RecordInMaking>>
  BY NextImplements
<1> QED BY <1>1, <1>2, RecordKnown, TypeCorrect, LinkFollowsStepsHolds, PTL
        DEF Spec, ServesOneHost, Ledger!Spec

\* A switch that exits with 0 has its entry in the file that the name stands
\* for.
THEOREM SuccessRecorded ==
    ASSUME Undisturbed PROVE Spec /\ []Alike => SuccessIsRecorded
<1> DEFINE Recording ==
        \A p \in Procs :
            op[p] = "switch" /\ pc[p] # "idle" /\ pc'[p] = "idle" /\ exit'[p] = 0 =>
                RecordInMaking' = want[p] /\ links' \subseteq {want[p].mac}
<1>1. ASSUME TypeOK, LinkFollowsSteps, Alike, RecordIsKnown, RecordIsKnown',
             Alike', Next
      PROVE  Recording
  <2>1. ASSUME NEW s \in Procs, Act(s) PROVE Recording
    <3>1. \A q \in Procs \ {s} : pc'[q] = pc[q]
      BY <1>1, <2>1, Frame DEF Locals
    <3> QED BY <1>1, <2>1, <3>1, ActImplements
  <2>2. CASE Reboot
    BY <1>1, <2>2 DEF Reboot, Killed, TypeOK
  <2>3. CASE (\E m \in MACs : LinkLost(m) \/ PeerConnects(m)) \/ EditConfig
    BY <2>3 DEF LinkLost, PeerConnects, EditConfig, procVars
  <2> QED BY <1>1, <2>1, <2>2, <2>3 DEF Next, Act
<1>2. TypeOK /\ LinkFollowsSteps /\ Alike /\ RecordIsKnown /\ RecordIsKnown'
        /\ Alike' /\ [Next]_vars => [Recording]_vars
  BY <1>1
<1> QED BY <1>2, RecordKnown, TypeCorrect, LinkFollowsStepsHolds, PTL
        DEF Spec, SuccessIsRecorded

============================================================================
