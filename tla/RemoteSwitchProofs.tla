------------------------- MODULE RemoteSwitchProofs -------------------------
(***************************************************************************)
(* What holds of kbd on the PCs and kbd-rpi on the Pi together.  The       *)
(* processes on the Pi behave as Switcher says, and those of patient users *)
(* are alike, so that the theorems of SwitcherProofs and OneHostProofs     *)
(* hold of them.                                                           *)
(***************************************************************************)
EXTENDS RemoteSwitch, OneHostProofs

Calling == call \in [Callers -> Call \union {NoCall}]

\* A call names a target and a process that is there.
LEMMA NextCalling ==
    ASSUME Calling, [RemoteNext]_remoteVars PROVE Calling'
<1> USE DEF Calling, Call
<1>1. ASSUME NEW c \in Callers, NEW t \in Targets, KbdSwitch(c, t) PROVE Calling'
  BY <1>1 DEF KbdSwitch
<1>2. ASSUME NEW c \in Callers, SshRuns(c) PROVE Calling'
  <2>1. PICK p \in Procs : call' = [call EXCEPT ![c].proc = p]
    BY <1>2 DEF SshRuns
  <2>2. call[c] \in Call
    BY <1>2 DEF SshRuns
  <2> QED BY <2>1, <2>2
<1>3. ASSUME NEW c \in Callers, SshReturns(c) \/ SshFails(c) PROVE Calling'
  BY <1>3 DEF SshReturns, SshFails
<1>4. CASE UNCHANGED call
  BY <1>4
<1> QED BY <1>1, <1>2, <1>3, <1>4 DEF RemoteNext, remoteVars

\* A step of the whole is a step on the Pi, or none.
LEMMA StepOnThePi ==
    ASSUME Calling, [RemoteNext]_remoteVars PROVE [Next]_vars
<1>1. ASSUME NEW c \in Callers, NEW t \in Targets, KbdSwitch(c, t) PROVE UNCHANGED vars
  BY <1>1 DEF KbdSwitch
<1>2. ASSUME NEW c \in Callers, SshReturns(c) \/ SshFails(c) PROVE UNCHANGED vars
  BY <1>2 DEF SshReturns, SshFails
<1>3. ASSUME NEW c \in Callers, SshRuns(c) PROVE Next
  <2>1. PICK p \in Procs : Switch(p, call[c].target)
    BY <1>3 DEF SshRuns
  <2>2. call[c].target \in Targets
    BY <1>3 DEF SshRuns, Calling, Call
  <2> QED BY <2>1, <2>2 DEF Next
<1>4. ASSUME NEW p \in Procs, OnThePi(p) \/ Step(p) \/ Crash(p) PROVE Next
  BY <1>4 DEF OnThePi, Next
<1>5. CASE Surroundings
  BY <1>5 DEF Surroundings, Next
<1>6. CASE UNCHANGED remoteVars
  BY <1>6 DEF remoteVars
<1> QED BY <1>1, <1>2, <1>3, <1>4, <1>5, <1>6 DEF RemoteNext

\* However calls are made, answered and lost, the processes on the Pi do what
\* Switcher lets them do.
THEOREM RunsSwitcher == RemoteSpec => Spec /\ []Calling
<1>1. RemoteInit => Init /\ Calling
  BY DEF RemoteInit, Calling
<1>2. Calling /\ [RemoteNext]_remoteVars => [Next]_vars /\ Calling'
  BY StepOnThePi, NextCalling
<1> QED BY <1>1, <1>2, PTL DEF RemoteSpec, Spec

----------------------------------------------------------------------------
(* Patience.                                                               *)

\* A process keeps to its command until it ends.
LEMMA StepKeepsCommand ==
    ASSUME TypeOK, NEW p \in Procs, Step(p) \/ Crash(p), pc'[p] # "idle"
    PROVE  pc[p] # "idle" /\ op'[p] = op[p] /\ want'[p] = want[p]
<1> USE DEF TypeOK
<1>1. ASSUME NEW code, Exit(p, code) PROVE FALSE
  BY <1>1 DEF Exit
<1>2. ASSUME NEW l, Goto(p, l), pc[p] # "idle"
      PROVE  op'[p] = op[p] /\ want'[p] = want[p]
  BY <1>2 DEF Goto
<1>3. ASSUME NEW e, Proceed(p, e), pc[p] # "idle"
      PROVE  op'[p] = op[p] /\ want'[p] = want[p]
  BY <1>1, <1>2, <1>3 DEF Proceed
<1>4. CASE OpenState(p) \/ DecodeState(p)
  BY <1>1, <1>2, <1>3, <1>4 DEF OpenState, DecodeState
<1>5. CASE DropSucceeds(p) \/ ConnectSucceeds(p) \/ CommandFails(p)
  BY <1>1, <1>2, <1>5 DEF DropSucceeds, ConnectSucceeds, CommandFails
<1>6. CASE CreateState(p) \/ EncodeState(p) \/ RemoveState(p) \/ Crash(p)
  BY <1>1, <1>2, <1>6 DEF CreateState, EncodeState, RemoveState, Crash
<1> QED BY <1>4, <1>5, <1>6 DEF Step

\* Whoever waits for the commands he knows of, and repeats only the one he has
\* lost sight of, never has two different ones at work.
LEMMA NextAlike ==
    ASSUME Patient = TRUE, TypeOK, Calling, Alike, [RemoteNext]_remoteVars
    PROVE  Alike'
<1> USE DEF Alike
\* It is enough that the one process that acts is alike to the others.
<1>1. ASSUME NEW s \in Procs, Act(s),
             s \in Busy' => \A q \in Busy \ {s} : op[q] = op'[s] /\ want[q] = want'[s]
      PROVE  Alike'
  <2>1. \A q \in Procs \ {s} : /\ q \in Busy' <=> q \in Busy
                               /\ op'[q] = op[q] /\ want'[q] = want[q]
    BY <1>1, Frame DEF Locals, Busy
  <2>2. \A q \in Busy' : q \in Procs
    BY DEF Busy
  <2> QED BY <1>1, <2>1, <2>2
<1>2. ASSUME NEW c \in Callers, SshRuns(c) PROVE Alike'
  <2> DEFINE t == call[c].target
             w == [target |-> t, mac |-> cfg.mac[t]]
  <2>1. PICK p \in Procs :
          /\ Free(p) /\ Switch(p, t)
          /\ cfg # InvalidConfig /\ cfg.mac[t] # NoMAC => Waits("switch", w)
    BY <1>2 DEF SshRuns
  <2>2. t \in Targets
    BY <1>2 DEF SshRuns, Calling, Call
  <2>3. ASSUME p \in Busy'
        PROVE  \A q \in Busy \ {p} : op[q] = op'[p] /\ want[q] = want'[p]
    <3>1. CASE Exit(p, 2)
      BY <2>3, <3>1 DEF Exit, Busy, TypeOK
    <3>2. CASE cfg # InvalidConfig /\ cfg.mac[t] # NoMAC /\ Start(p, "switch", w, cfg.others)
      <4>1. op'[p] = "switch" /\ want'[p] = w
        BY <3>2 DEF Start, TypeOK
      <4>2. \A q \in Busy : op[q] = "switch" /\ want[q] = w
        BY <2>1, <3>2 DEF Waits
      <4> QED BY <4>1, <4>2
    <3> QED BY <2>1, <3>1, <3>2 DEF Switch
  <2> HIDE DEF t
  <2> QED BY <1>1, <2>1, <2>2, <2>3 DEF Act
<1>3. ASSUME NEW p \in Procs, OnThePi(p) PROVE Alike'
  <2>1. CASE Waits("disconnect", NoEntry) /\ Disconnect(p)
    <3>1. op'[p] = "disconnect" /\ want'[p] = NoEntry
      BY <2>1 DEF Disconnect, Start, TypeOK
    <3> QED BY <1>1, <2>1, <3>1 DEF Waits, Act
  <2>2. CASE Status(p)
    <3>1. p \notin Busy'
      BY <2>2 DEF Status, Start, Busy, TypeOK
    <3> QED BY <1>1, <2>2, <3>1 DEF Act
  <2> QED BY <1>3, <2>1, <2>2 DEF OnThePi
<1>4. ASSUME NEW p \in Procs, Step(p) \/ Crash(p) PROVE Alike'
  BY <1>1, <1>4, StepKeepsCommand DEF Act, Busy
<1>5. CASE Reboot
  BY <1>5 DEF Reboot, Busy
<1>6. CASE UNCHANGED procVars
  BY <1>6 DEF procVars, Busy
<1>7. CASE Surroundings
  BY <1>5, <1>6, <1>7 DEF Surroundings, LinkLost, PeerConnects, EditConfig
<1>8. ASSUME UNCHANGED vars PROVE Alike'
  BY <1>6, <1>8 DEF vars, procVars
<1>9. ASSUME NEW c \in Callers,
             (\E t \in Targets : KbdSwitch(c, t)) \/ SshReturns(c) \/ SshFails(c)
      PROVE  UNCHANGED vars
  BY <1>9 DEF KbdSwitch, SshReturns, SshFails
<1> QED BY <1>2, <1>3, <1>4, <1>7, <1>8, <1>9 DEF RemoteNext, remoteVars

\* Patient users' commands are alike.
THEOREM PatientIsAlike ==
    ASSUME Patient = TRUE PROVE RemoteSpec => []Alike
<1>1. Init => Alike
  BY DEF Init, Alike, Busy
<1>2. TypeOK /\ Calling /\ Alike /\ [RemoteNext]_remoteVars => Alike'
  BY NextAlike
<1> QED BY <1>1, <1>2, RunsSwitcher, TypeCorrect, PTL DEF RemoteSpec, RemoteInit

\* With patient users, through connections that break and retries that run
\* beside what they repeat: at rest every linked host is the recorded one, the
\* record is changed as OneHost says, and a success is in the file.
THEOREM PatientServesOneHost ==
    ASSUME Patient = TRUE, Undisturbed
    PROVE  RemoteSpec => []LinksAreRecorded /\ ServesOneHost /\ SuccessIsRecorded
BY RunsSwitcher, PatientIsAlike, LinksRecorded, ImplementsOneHost,
   SuccessRecorded, PTL

\* Nor does a retry of theirs take down what the orphan has just connected,
\* whatever is killed, fails or is lost.
THEOREM PatientRetriesKeepLinks ==
    ASSUME Patient = TRUE PROVE RemoteSpec => RetryKeepsLink
BY RunsSwitcher, PatientIsAlike, RetriesKeepLinks, PTL

----------------------------------------------------------------------------
(* The answer of a kbd that is the only one.                               *)

\* While the process that kbd c waits for is at work, and from then on if it
\* has succeeded, every switch on the Pi is for its target; so is the record
\* when it has succeeded.
Answering(c) ==
    call[c] # NoCall /\ call[c].proc # NoProc =>
        LET p == call[c].proc
            t == call[c].target
        IN  /\ pc[p] # "idle" => op[p] = "switch"
            /\ pc[p] # "idle" \/ exit[p] = 0 =>
                    \A q \in Busy : op[q] = "switch" => want[q].target = t
            /\ pc[p] = "idle" /\ exit[p] = 0 =>
                    RecordInMaking = NoEntry \/ RecordInMaking.target = t

\* A step of a process that kbd has not started itself, and one of the
\* process it waits for.
LEMMA ActKeepsAnswering ==
    ASSUME Undisturbed, TypeOK, Calling, LinkFollowsSteps, Alike, Alike',
           RecordIsKnown, RecordIsKnown', NEW c \in Callers, Answering(c),
           call' = call,
           NEW s \in Procs, (s \notin Awaited /\ Disconnect(s))
                            \/ (s \notin Awaited /\ Status(s)) \/ Step(s) \/ Crash(s)
    PROVE  Answering(c)'
<1> SUFFICES ASSUME call[c] # NoCall, call[c].proc # NoProc
             PROVE  Answering(c)'
  BY DEF Answering
<1> DEFINE p == call[c].proc
           t == call[c].target
<1>1. p \in Procs /\ p \in Awaited
  BY DEF Calling, Call, Awaited
<1>2. Act(s)
  BY DEF Act
<1>3. \A q \in Procs \ {s} :
        /\ pc'[q] = pc[q] /\ op'[q] = op[q] /\ want'[q] = want[q] /\ exit'[q] = exit[q]
        /\ q \in Busy' <=> q \in Busy
  BY <1>2, Frame DEF Locals, Busy
<1>4. /\ \/ RecordInMaking' \in {RecordInMaking, NoEntry}
         \/ op[s] = "switch" /\ pc[s] # "idle" /\ RecordInMaking' = want[s]
      /\ op[s] = "switch" /\ pc[s] # "idle" /\ pc'[s] = "idle" /\ exit'[s] = 0 =>
            RecordInMaking' = want[s]
  BY <1>2, ActImplements
<1>5. /\ pc[p] # "idle" => op[p] = "switch"
      /\ pc[p] # "idle" \/ exit[p] = 0 =>
            \A q \in Busy : op[q] = "switch" => want[q].target = t
      /\ pc[p] = "idle" /\ exit[p] = 0 =>
            RecordInMaking = NoEntry \/ RecordInMaking.target = t
  BY DEF Answering
<1>6. s \in Busy' /\ op'[s] = "switch" => s \in Busy /\ op[s] = "switch" /\ want'[s] = want[s]
  <2>1. CASE Disconnect(s) \/ Status(s)
    BY <2>1 DEF Disconnect, Status, Start, TypeOK
  <2>2. CASE Step(s) \/ Crash(s)
    BY <2>2, StepKeepsCommand DEF Busy
  <2> QED BY <2>1, <2>2
<1>7. ASSUME NEW q \in Busy', op'[q] = "switch"
      PROVE  q \in Busy /\ op[q] = "switch" /\ want'[q] = want[q]
  <2>1. q \in Procs
    BY DEF Busy
  <2> QED BY <1>3, <1>6, <1>7, <2>1
<1>8. CASE s = p
  <2>1. Step(p) \/ Crash(p)
    BY <1>1, <1>8
  <2>2. pc[p] # "idle"
    BY <2>1 DEF Step, OpenState, DecodeState, DropSucceeds, ConnectSucceeds, CommandFails,
                CreateState, EncodeState, RemoveState, Crash
  <2>3. pc'[p] # "idle" => op'[p] = "switch"
    BY <1>1, <1>5, <2>1, <2>2, StepKeepsCommand
  <2>4. \A q \in Busy : op[q] = "switch" => want[q].target = t
    BY <1>5, <2>2
  <2>5. p \in Busy /\ op[p] = "switch"
    BY <1>1, <1>5, <2>2 DEF Busy
  <2>6. pc'[p] = "idle" /\ exit'[p] = 0 => RecordInMaking'.target = t
    BY <1>4, <1>8, <2>2, <2>4, <2>5
  <2>7. \A q \in Busy' : op'[q] = "switch" => want'[q].target = t
    BY <1>7, <2>4
  <2> HIDE DEF p, t
  <2> QED BY <2>3, <2>6, <2>7 DEF Answering, p, t
<1>9. CASE s # p
  <2>1. pc'[p] = pc[p] /\ op'[p] = op[p] /\ exit'[p] = exit[p]
    BY <1>1, <1>3, <1>9
  <2>2. pc[p] # "idle" \/ exit[p] = 0 =>
            \A q \in Busy' : op'[q] = "switch" => want'[q].target = t
    BY <1>5, <1>7
  <2>3. op[s] = "switch" /\ pc[s] # "idle" => s \in Busy
    BY DEF Busy
  <2>4. pc[p] = "idle" /\ exit[p] = 0 =>
            RecordInMaking' = NoEntry \/ RecordInMaking'.target = t
    BY <1>4, <1>5, <2>3
  <2> QED BY <1>5, <2>1, <2>2, <2>4 DEF Answering
<1> QED BY <1>8, <1>9

\* So do the calls and the surroundings.
LEMMA NextAnswering ==
    ASSUME Patient = TRUE, Undisturbed, NEW c \in Callers, Callers = {c},
           TypeOK, Calling, LinkFollowsSteps, Alike, Alike',
           RecordIsKnown, RecordIsKnown', Answering(c), [RemoteNext]_remoteVars
    PROVE  Answering(c)'
<1>1. ASSUME NEW t \in Targets, KbdSwitch(c, t) PROVE Answering(c)'
  <2>1. call'[c].proc = NoProc
    BY <1>1 DEF KbdSwitch, Calling
  <2> QED BY <2>1 DEF Answering
<1>2. CASE SshRuns(c)
  <2> DEFINE t == call[c].target
             w == [target |-> t, mac |-> cfg.mac[t]]
  <2>1. PICK p \in Procs :
          /\ Free(p) /\ Switch(p, t)
          /\ cfg # InvalidConfig /\ cfg.mac[t] # NoMAC => Waits("switch", w)
          /\ call' = [call EXCEPT ![c].proc = p]
    BY <1>2 DEF SshRuns
  <2>2. call'[c].proc = p /\ call'[c].target = t
    BY <1>2, <2>1 DEF SshRuns, Calling, Call
  <2>3. CASE Exit(p, 2)
    <3>1. pc'[p] = "idle" /\ exit'[p] = 2
      BY <2>3 DEF Exit, TypeOK
    <3> QED BY <2>2, <3>1 DEF Answering
  <2>4. CASE cfg # InvalidConfig /\ cfg.mac[t] # NoMAC /\ Start(p, "switch", w, cfg.others)
    <3>1. op'[p] = "switch" /\ want'[p] = w /\ pc'[p] = "open"
      BY <2>4 DEF Start, TypeOK
    <3>2. \A q \in Busy : want[q] = w
      BY <2>1, <2>4 DEF Waits
    <3>3. \A q \in Busy' : q = p \/ (q \in Busy /\ want'[q] = want[q])
      BY <2>4 DEF Start, Busy, TypeOK
    <3>4. \A q \in Busy' : want'[q].target = t
      BY <3>1, <3>2, <3>3
    <3> HIDE DEF t
    <3> QED BY <2>2, <3>1, <3>4 DEF Answering
  <2> QED BY <2>1, <2>3, <2>4 DEF Switch
<1>3. CASE SshReturns(c) \/ SshFails(c)
  <2>1. call'[c] = NoCall
    BY <1>3 DEF SshReturns, SshFails, Calling
  <2> QED BY <2>1 DEF Answering
<1>4. ASSUME NEW s \in Procs, OnThePi(s) \/ Step(s) \/ Crash(s), call' = call
      PROVE  Answering(c)'
  BY <1>4, ActKeepsAnswering DEF OnThePi, Free
<1>5. CASE UNCHANGED <<path, content, fd, procVars, call>>
  BY <1>5 DEF Answering, RecordInMaking, procVars, Busy
<1>6. CASE Reboot /\ call' = call
  <2>1. path' = NoInode /\ \A q \in Procs : pc'[q] = "idle"
    BY <1>6 DEF Reboot
  <2>2. RecordInMaking' = NoEntry /\ Busy' = {}
    BY <2>1 DEF RecordInMaking, Busy
  <2>3. call[c] # NoCall /\ call[c].proc # NoProc => pc'[call[c].proc] = "idle"
    BY <2>1 DEF Calling, Call
  <2> QED BY <1>6, <2>2, <2>3 DEF Answering
<1>7. CASE Surroundings /\ call' = call
  BY <1>5, <1>6, <1>7 DEF Surroundings, LinkLost, PeerConnects, EditConfig
<1>8. CASE UNCHANGED remoteVars
  BY <1>5, <1>8 DEF remoteVars, vars, procVars
<1> QED BY <1>1, <1>2, <1>3, <1>4, <1>7, <1>8 DEF RemoteNext

\* With one kbd, whose user is patient: it ends with 0 only when its target is
\* in the record or the record is gone, however many connections it has lost
\* before, and whatever their orphans do (localapp/app.go:106).
THEOREM AnswerIsTrue ==
    ASSUME Patient = TRUE, Undisturbed, NEW k \in Callers, Callers = {k}
    PROVE  RemoteSpec => AnswersTruly
<1>1. RemoteInit => Answering(k)
  BY DEF RemoteInit, Answering
<1>2. /\ TypeOK /\ Calling /\ LinkFollowsSteps /\ Alike /\ Alike'
      /\ RecordIsKnown /\ RecordIsKnown' /\ Answering(k) /\ [RemoteNext]_remoteVars
      => Answering(k)'
  BY NextAnswering
<1>3. Calling /\ Answering(k) =>
        [\A c \in Callers :
            SshReturns(c) /\ Answer(c) = 0 =>
                \/ RecordInMaking = NoEntry
                \/ RecordInMaking.target = call[c].target]_remoteVars
  BY DEF Answering, SshReturns, Answer
<1>4. RemoteSpec => [](TypeOK /\ Calling /\ LinkFollowsSteps /\ Alike /\ RecordIsKnown)
  BY RunsSwitcher, PatientIsAlike, TypeCorrect, LinkFollowsStepsHolds, RecordKnown, PTL
<1>5. RemoteSpec => []Answering(k)
  BY <1>1, <1>2, <1>4, PTL DEF RemoteSpec
<1> QED BY <1>3, <1>4, <1>5, PTL DEF RemoteSpec, AnswersTruly

============================================================================
