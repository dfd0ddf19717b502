--------------------------- MODULE HidDaemonProofs ---------------------------
(***************************************************************************)
(* What holds of kbd-hid for any text, any hosts and any bound on the      *)
(* calls that BlueZ leaves pending.                                        *)
(***************************************************************************)
EXTENDS HidDaemon, TLAPS

----------------------------------------------------------------------------
(* Types.                                                                  *)

\* The actions of the main goroutine and its surroundings.
Life ==
    \/ Register \/ RegisterFails \/ ServeCancelled \/ ServeError \/ Unwind
    \/ Begin \/ Signal_

\* The actions that end the process.
Ends == LoadFails \/ Exit \/ Kill

\* Every step is one of these.
LEMMA Cases ==
    ASSUME [Next]_vars
    PROVE  \/ Life \/ Ends \/ Worker \/ Handle
           \/ \E h \in Hosts : Host(h)
           \/ UNCHANGED vars
BY DEF Next, Main, Life, Ends, Restart, UserStarts

\* The text is a sequence, and so has a length.
LEMMA LenReports == Reports \in Seq(Report) /\ Len(Reports) \in Nat
BY ReportsAssumption DEF Report

\* There are eight steps of registration.
LEMMA LenSteps == Len(Steps) = 8
BY DEF Steps

\* The path is one of the two.
LEMMA OneTargetPath ==
    TargetPaths \subseteq InputPaths /\ \A p, q \in TargetPaths : p = q
BY DEF TargetPaths, Preferred, Fallback, InputPaths

\* The report that comes next is one.
LEMMA ReportTyped ==
    ASSUME next \in 1 .. Len(Reports) + 1, next <= Len(Reports)
    PROVE  Reports[next] \in Report
BY ReportsAssumption DEF Report

\* So is what it makes of the values.
LEMMA PutTyped ==
    ASSUME AppTypeOK, next <= Len(Reports), PutReport
    PROVE  value' \in [InputPaths -> Report]
BY ReportTyped DEF AppTypeOK, PutReport

\* The handlers preserve the types of the application and leave the rest.
LEMMA HandleTypeOK == TypeOK /\ Handle => TypeOK'
<1> SUFFICES ASSUME TypeOK, Handle PROVE TypeOK'
  OBVIOUS
<1> USE DEF TypeOK, AppTypeOK, Handle, daemonVars, bluezVars, Served
<1>1. ASSUME NEW p \in InputPaths, StartNotify(p) PROVE TypeOK'
  <2>1. [op |-> "StartNotify", path |-> p] \in Calls
    BY DEF Calls
  <2> QED BY <1>1, <2>1 DEF StartNotify
<1>2. ASSUME NEW p \in InputPaths, StopNotify(p) PROVE TypeOK'
  <2>1. [op |-> "StopNotify", path |-> p] \in Calls
    BY DEF Calls
  <2> QED BY <1>2, <2>1 DEF StopNotify
<1>3. ASSUME NEW v \in Values, WriteValue(v) PROVE TypeOK'
  <2>1. [op |-> "WriteValue", value |-> v] \in Calls
    BY DEF Calls
  <2> QED BY <1>3, <2>1 DEF WriteValue
<1> QED BY <1>1, <1>2, <1>3

\* So do the hosts.
LEMMA HostTypeOK == ASSUME TypeOK, NEW h \in Hosts, Host(h) PROVE TypeOK'
<1> USE DEF TypeOK, AppTypeOK, daemonVars, bluezVars, appVars, Call
<1>1. CASE HostConnects(h) \/ HostLeaves(h)
  BY <1>1 DEF HostConnects, HostLeaves
<1>2. ASSUME NEW p \in InputPaths, Subscribe(h, p) PROVE TypeOK'
  BY <1>2 DEF Subscribe
<1>3. ASSUME NEW p \in InputPaths, Unsubscribe(h, p) PROVE TypeOK'
  BY <1>3 DEF Unsubscribe
<1>4. ASSUME NEW v \in Values, WritesMode(h, v) PROVE TypeOK'
  <2>1. [op |-> "WriteValue", value |-> v] \in Calls
    BY DEF Calls
  <2> QED BY <1>4, <2>1 DEF WritesMode
<1> QED BY <1>1, <1>2, <1>3, <1>4 DEF Host

\* The worker keeps app.mu exactly while it sends.
LEMMA WorkerTypeOK == TypeOK /\ Worker => TypeOK'
<1> SUFFICES ASSUME TypeOK, Worker PROVE TypeOK'
  OBVIOUS
<1> USE DEF TypeOK, AppTypeOK, WorkerGoes, WorkerFails, appVars, bluezVars, daemonVars
<1>1. CASE WorkerWaits
  BY <1>1 DEF WorkerWaits
<1>2. CASE WorkerFindsPeer
  BY <1>2 DEF WorkerFindsPeer
<1>3. CASE WorkerLearns
  BY <1>3 DEF WorkerLearns
<1>4. CASE WorkerLocks
  BY <1>4, ReportsAssumption DEF WorkerLocks, LockForReports
<1>5. CASE WorkerSends
  <2>1. SendReport /\ UNCHANGED <<daemonVars, bluezVars>>
    BY <1>5 DEF WorkerSends
  <2>2. next' \in 1 .. Len(Reports) + 1
    BY <2>1, ReportsAssumption DEF SendReport
  <2>3. sent' \in Seq(Signal)
    <3>1. ASSUME NEW p \in TargetPaths
          PROVE  [path |-> p, report |-> Reports[next]] \in Signal
      BY <2>1, ReportTyped DEF SendReport, TargetPaths, Preferred, Fallback,
                               InputPaths, Signal
    <3>2. CASE UNCHANGED sent
      BY <3>2
    <3>3. ASSUME NEW p \in TargetPaths,
                 sent' = Append(sent, [path |-> p, report |-> Reports[next]])
          PROVE  sent' \in Seq(Signal)
      BY <3>1, <3>3
    <3> QED BY <2>1, <3>2, <3>3 DEF SendReport, EmitReport
  <2>4. value' \in [InputPaths -> Report]
    BY <2>1, PutTyped DEF SendReport, EmitReport
  <2>5. down' \subseteq InputPaths
    BY <2>1, OneTargetPath DEF SendReport, EmitReport
  <2> QED BY <2>1, <2>2, <2>3, <2>4, <2>5 DEF SendReport
<1>6. CASE WorkerCannotSend
  <2>1. value' \in [InputPaths -> Report]
    BY <1>6, PutTyped DEF WorkerCannotSend, SendReportFails
  <2> QED BY <1>6, <2>1 DEF WorkerCannotSend, SendReportFails
<1>7. CASE WorkerUnlocks
  BY <1>7 DEF WorkerUnlocks, UnlockAfterReports
<1> QED BY <1>1, <1>2, <1>3, <1>4, <1>5, <1>6, <1>7 DEF Worker

\* The end of the process makes everything new.
LEMMA OffTypeOK == ASSUME TypeOK, NEW status \in {0, 1}, Off(status) PROVE TypeOK'
<1>1. AppTypeOK' /\ mu' = "free"
  BY LenReports DEF Off, AppReset, NewApp, AppTypeOK, Report, TypeOK
<1>2. step' \in 1 .. Len(Steps) + 1 /\ undo' \in Seq(Undone)
  BY LenSteps DEF Off
<1>3. ccc' \in [Hosts -> SUBSET InputPaths]
  BY DEF Off
<1> QED BY <1>1, <1>2, <1>3 DEF Off, TypeOK

\* The main goroutine.
LEMMA LifeTypeOK == TypeOK /\ Life => TypeOK'
<1> SUFFICES ASSUME TypeOK, Life PROVE TypeOK'
  OBVIOUS
<1> USE DEF TypeOK, AppTypeOK, appVars, bluezVars
<1>1. CASE Register
  <2>1. step' \in 1 .. Len(Steps) + 1
    BY <1>1, LenSteps DEF Register
  <2>2. undo' \in Seq(Undone)
    <3>1. CASE Steps[step] \in Undone
      <4>1. undo' = Append(undo, Steps[step])
        BY <1>1, <3>1 DEF Register
      <4> QED BY <3>1, <4>1
    <3> QED BY <1>1, <3>1 DEF Register
  <2>3. reg' \subseteq Undone
    BY <1>1 DEF Register
  <2> QED BY <1>1, <2>1, <2>2, <2>3 DEF Register
<1>2. CASE RegisterFails \/ ServeCancelled \/ ServeError
  BY <1>2 DEF RegisterFails, ServeCancelled, ServeError, Return
<1>3. CASE Unwind
  <2>1. undo' \in Seq(Undone)
    BY <1>3 DEF Unwind
  <2>2. reg' \subseteq Undone /\ ccc' \in [Hosts -> SUBSET InputPaths]
    BY <1>3 DEF Unwind, Forgets
  <2> QED BY <1>3, <2>1, <2>2 DEF Unwind
<1>4. CASE Begin \/ Signal_
  BY <1>4 DEF Begin, Signal_
<1> QED BY <1>1, <1>2, <1>3, <1>4 DEF Life

\* Initially nothing is registered and nobody subscribed.
LEMMA InitTypeOK == Init => TypeOK
<1> SUFFICES ASSUME Init PROVE TypeOK
  OBVIOUS
<1>1. AppTypeOK /\ mu = "free"
  BY LenReports DEF Init, AppInit, NewApp, AppTypeOK, Report
<1>2. step \in 1 .. Len(Steps) + 1 /\ undo \in Seq(Undone)
  BY LenSteps DEF Init
<1>3. ccc \in [Hosts -> SUBSET InputPaths]
  BY DEF Init
<1> QED BY <1>1, <1>2, <1>3 DEF Init, TypeOK

\* Every step preserves the types.
LEMMA NextTypeOK == TypeOK /\ [Next]_vars => TypeOK'
<1> SUFFICES ASSUME TypeOK, [Next]_vars PROVE TypeOK'
  OBVIOUS
<1>1. CASE Ends
  BY <1>1, OffTypeOK DEF Ends, LoadFails, Exit, Kill, TypeOK
<1>2. CASE UNCHANGED vars
  BY <1>2 DEF vars, TypeOK, AppTypeOK
<1> QED BY <1>1, <1>2, Cases, HandleTypeOK, HostTypeOK, WorkerTypeOK, LifeTypeOK

\* The types, and with them that the worker has app.mu exactly while it sends
\* (hid.go:192) and a device to learn when it learns one (hid.go:357).
THEOREM TypeCorrect == Spec => []TypeOK
<1>1. TypeOK /\ [Next]_vars => TypeOK'
  BY NextTypeOK
<1> QED BY <1>1, InitTypeOK, PTL DEF Spec

----------------------------------------------------------------------------
(* The text.                                                               *)

\* What has been sent is on path p, report by report.
OnPath(p) ==
    \A i \in 1 .. Len(sent) :
        i <= Len(Reports) /\ sent[i] = [path |-> p, report |-> Reports[i]]

\* What the worker has sent when it is at each of its places: while it sends,
\* the path cannot change, since the handlers wait for app.mu.
Batch ==
    /\ worker \in {"none", "wait", "peer", "learn", "lock"} => sent = <<>>
    /\ worker = "send" =>
        IF TargetPaths = {} THEN sent = <<>>
        ELSE Len(sent) = next - 1 /\ \A p \in TargetPaths : OnPath(p)
    /\ worker = "done" =>
        /\ \E p \in InputPaths : OnPath(p)
        /\ readyErr \/ code = 1 \/ sent = <<>> \/ Len(sent) = Len(Reports)
    /\ main \in {"register", "serve"} => code = 0

\* Nothing is on any path before the first report.
LEMMA NothingSent == sent = <<>> => \A p \in InputPaths : OnPath(p)
BY DEF OnPath

\* One more report.
LEMMA SendKeepsBatch == TypeOK /\ Batch /\ WorkerSends => Batch'
<1> SUFFICES ASSUME TypeOK, Batch, WorkerSends PROVE Batch'
  OBVIOUS
<1>1. /\ worker = "send" /\ worker' = "send" /\ main' = main /\ code' = code
      /\ next \in Nat /\ next <= Len(Reports) /\ next' = next + 1
      /\ sent \in Seq(Signal) /\ mode' = mode /\ notifying' = notifying
  BY LenReports DEF WorkerSends, SendReport, daemonVars, TypeOK, AppTypeOK
<1>0. TargetPaths' = TargetPaths
  BY <1>1 DEF TargetPaths, Preferred, Fallback
<1>2. CASE TargetPaths = {}
  BY <1>0, <1>1, <1>2 DEF WorkerSends, SendReport, EmitReport, Batch
<1>3. ASSUME NEW p \in TargetPaths,
             sent' = Append(sent, [path |-> p, report |-> Reports[next]])
      PROVE  Batch'
  <2>1. Len(sent) = next - 1 /\ OnPath(p)
    BY <1>1, <1>3 DEF Batch
  <2>2. Len(sent') = next' - 1
    BY <1>1, <1>3, <2>1
  <2>3. OnPath(p)'
    BY <1>1, <1>3, <2>1, LenReports DEF OnPath
  <2> QED BY <1>0, <1>1, <1>3, <2>2, <2>3, OneTargetPath DEF Batch
<1> QED BY <1>2, <1>3 DEF WorkerSends, SendReport, EmitReport

\* The other steps of the worker.
LEMMA WorkerKeepsBatch == TypeOK /\ Batch /\ Worker => Batch'
<1> SUFFICES ASSUME TypeOK, Batch, Worker PROVE Batch'
  OBVIOUS
<1> USE DEF Batch, WorkerGoes, WorkerFails
<1>1. CASE WorkerWaits \/ WorkerFindsPeer \/ WorkerLearns
  <2>1. sent = <<>> /\ sent' = <<>> /\ main' = main /\ code' = code
    BY <1>1 DEF WorkerWaits, WorkerFindsPeer, WorkerLearns, appVars
  <2>2. \E p \in InputPaths : OnPath(p)'
    BY <2>1 DEF OnPath, InputPaths
  <2>3. worker' \in {"peer", "learn", "lock", "done"}
    BY <1>1 DEF WorkerWaits, WorkerFindsPeer, WorkerLearns
  <2> QED BY <2>1, <2>2, <2>3
<1>2. CASE WorkerLocks
  <2>1. sent' = <<>> /\ next' = 1 /\ worker' = "send" /\ main' = main /\ code' = code
    BY <1>2 DEF WorkerLocks, LockForReports
  <2>2. \A p \in InputPaths : OnPath(p)'
    BY <2>1 DEF OnPath
  <2>3. TargetPaths' \subseteq InputPaths
    BY DEF TargetPaths, Preferred, Fallback, InputPaths
  <2> QED BY <2>1, <2>2, <2>3
<1>3. CASE WorkerSends
  BY <1>3, SendKeepsBatch
<1>4. CASE WorkerCannotSend
  <2>1. /\ worker = "send" /\ worker' = "done" /\ main' = main /\ code' = code
        /\ readyErr' = TRUE /\ sent' = sent /\ TargetPaths # {}
    BY <1>4 DEF WorkerCannotSend, SendReportFails
  <2>2. PICK p \in InputPaths : OnPath(p)
    BY <2>1, OneTargetPath
  <2>3. OnPath(p)'
    BY <2>1, <2>2 DEF OnPath
  <2> QED BY <2>1, <2>3
<1>5. CASE WorkerUnlocks
  <2>1. /\ worker = "send" /\ worker' = "done" /\ main' = main /\ code' = code
        /\ sent' = sent /\ next = Len(Reports) + 1
    BY <1>5, LenReports DEF WorkerUnlocks, UnlockAfterReports, TypeOK, AppTypeOK
  <2>2. PICK p \in InputPaths : OnPath(p)
    BY <2>1, OneTargetPath, NothingSent DEF InputPaths
  <2>3. OnPath(p)'
    BY <2>1, <2>2 DEF OnPath
  <2>4. sent = <<>> \/ Len(sent) = Len(Reports)
    BY <2>1, LenReports
  <2> QED BY <2>1, <2>3, <2>4
<1> QED BY <1>1, <1>2, <1>3, <1>4, <1>5 DEF Worker

\* Nobody else touches the text; the handlers wait while it is sent.
LEMMA NextBatch == TypeOK /\ Batch /\ [Next]_vars => Batch'
<1> SUFFICES ASSUME TypeOK, Batch, [Next]_vars PROVE Batch'
  OBVIOUS
<1> USE DEF Batch
<1>1. ASSUME UNCHANGED <<sent, worker, readyErr, code, main, next, notifying, mode>>
      PROVE  Batch'
  <2>1. TargetPaths' = TargetPaths
    BY <1>1 DEF TargetPaths, Preferred, Fallback
  <2>2. ASSUME NEW p PROVE OnPath(p)' <=> OnPath(p)
    BY <1>1 DEF OnPath
  <2> QED BY <1>1, <2>1, <2>2
<1>2. CASE Life
  <2>1. UNCHANGED <<sent, next, notifying, mode>>
    BY <1>2 DEF Life, Register, RegisterFails, ServeCancelled, ServeError, Return,
                Unwind, Begin, Signal_, appVars
  <2>2. TargetPaths' = TargetPaths /\ \A p \in InputPaths : OnPath(p)' = OnPath(p)
    BY <2>1 DEF OnPath, TargetPaths, Preferred, Fallback
  <2>3. CASE Register
    BY <2>1, <2>2, <2>3 DEF Register, TypeOK
  <2>4. CASE RegisterFails \/ ServeCancelled \/ ServeError
    BY <2>1, <2>2, <2>4, OneTargetPath
       DEF RegisterFails, ServeCancelled, ServeError, Return, TypeOK
  <2>5. CASE Unwind \/ Begin \/ Signal_
    BY <2>1, <2>2, <2>5, OneTargetPath DEF Unwind, Begin, Signal_, TypeOK
  <2> QED BY <1>2, <2>3, <2>4, <2>5 DEF Life
<1>3. CASE Ends
  BY <1>3 DEF Ends, LoadFails, Exit, Kill, Off, AppReset, NewApp
<1>4. CASE Worker
  BY <1>4, WorkerKeepsBatch
<1>5. CASE Handle
  <2>1. mu = "free" /\ UNCHANGED <<sent, worker, readyErr, code, main>>
    BY <1>5 DEF Handle, StartNotify, StopNotify, WriteValue, daemonVars
  <2>2. worker # "send" /\ \A p \in InputPaths : OnPath(p)' = OnPath(p)
    BY <2>1 DEF TypeOK, OnPath
  <2> QED BY <2>1, <2>2
<1>6. ASSUME NEW h \in Hosts, Host(h) PROVE Batch'
  BY <1>1, <1>6 DEF Host, HostConnects, HostLeaves, Subscribe, Unsubscribe, WritesMode,
                    appVars, daemonVars
<1>7. CASE UNCHANGED vars
  BY <1>1, <1>7 DEF vars
<1> QED BY <1>2, <1>3, <1>4, <1>5, <1>6, <1>7, Cases

\* Whatever interrupts the worker, what it has sent is as Batch says.
LEMMA BatchHolds == Spec => []Batch
<1>1. Init => Batch
  BY DEF Init, AppInit, NewApp, Batch
<1>2. TypeOK /\ Batch /\ [Next]_vars => Batch'
  BY NextBatch
<1> QED BY <1>1, <1>2, TypeCorrect, PTL DEF Spec

\* hid_test.go:79 for every text and every interleaving: a prefix of the text
\* is sent, in order, on one characteristic.
THEOREM TextIsInOrder == Spec => []TextInOrder
<1>1. TypeOK /\ Batch => TextInOrder
  <2> SUFFICES ASSUME TypeOK, Batch PROVE \E p \in InputPaths : OnPath(p)
    BY DEF TextInOrder, OnPath
  <2>1. CASE sent = <<>>
    BY <2>1, NothingSent DEF InputPaths
  <2>2. CASE sent # <<>>
    BY <2>2, OneTargetPath DEF Batch, TypeOK
  <2> QED BY <2>1, <2>2
<1> QED BY <1>1, BatchHolds, TypeCorrect, PTL

----------------------------------------------------------------------------
(* The keys that are left down.                                            *)

\* The batch ends with a release.
LEMMA LastReport == Len(Reports) > 0 => Reports[Len(Reports)] = NoKey
BY ReportsAssumption, LenReports

\* In the midst of the batch the key of the notified path is down exactly if
\* the last report was a press.
DownFollows ==
    worker = "send" /\ next > 1 =>
        \A p \in TargetPaths : p \in down <=> Reports[next - 1] # NoKey

\* Only the sending of a report changes what is down and only the worker comes
\* to its batch or leaves it, but for the end of the process.  While it
\* sends, the handlers wait, and the path stays.
LEMMA OthersLeaveDown ==
    ASSUME TypeOK, [Next]_vars, ~WorkerSends
    PROVE  /\ down' = down
           /\ worker = "send" /\ worker' = "send" =>
                next' = next /\ TargetPaths' = TargetPaths
           /\ worker' = "send" => worker = "send" \/ (WorkerLocks /\ next' = 1)
           /\ worker = "send" /\ worker' # "send" =>
                \/ main' = "off"
                \/ worker' = "done" /\ readyErr'
                \/ WorkerUnlocks
<1> USE DEF TypeOK
<1>1. CASE UNCHANGED <<down, worker, next, notifying, mode>>
  BY <1>1 DEF TargetPaths, Preferred, Fallback
<1>2. CASE Life
  <2>1. UNCHANGED <<down, next, notifying, mode>>
    BY <1>2 DEF Life, Register, RegisterFails, ServeCancelled, ServeError, Return,
                Unwind, Begin, Signal_, appVars
  <2>2. worker' = worker \/ (worker = "none" /\ worker' = "wait")
    BY <1>2 DEF Life, Register, RegisterFails, ServeCancelled, ServeError, Return,
                Unwind, Begin, Signal_, TypeOK
  <2>3. TargetPaths' = TargetPaths
    BY <2>1 DEF TargetPaths, Preferred, Fallback
  <2> QED BY <2>1, <2>2, <2>3
<1>3. CASE Ends
  BY <1>3 DEF Ends, LoadFails, Exit, Kill, Off, AppReset
<1>4. CASE Worker
  <2> USE DEF WorkerGoes, WorkerFails, appVars
  <2>1. CASE WorkerWaits \/ WorkerFindsPeer \/ WorkerLearns
    BY <2>1 DEF WorkerWaits, WorkerFindsPeer, WorkerLearns
  <2>2. CASE WorkerLocks
    BY <2>2 DEF WorkerLocks, LockForReports
  <2>3. CASE WorkerCannotSend
    BY <2>3 DEF WorkerCannotSend, SendReportFails
  <2>4. CASE WorkerUnlocks
    BY <2>4 DEF WorkerUnlocks, UnlockAfterReports
  <2> QED BY <1>4, <2>1, <2>2, <2>3, <2>4 DEF Worker
<1>5. CASE Handle
  <2>1. mu = "free" /\ UNCHANGED <<down, worker>>
    BY <1>5 DEF Handle, StartNotify, StopNotify, WriteValue, daemonVars
  <2> QED BY <2>1
<1>6. ASSUME NEW h \in Hosts, Host(h)
      PROVE  UNCHANGED <<down, worker, next, notifying, mode>>
  BY <1>6 DEF Host, HostConnects, HostLeaves, Subscribe, Unsubscribe, WritesMode,
              appVars, daemonVars
<1>7. CASE UNCHANGED vars
  BY <1>1, <1>7 DEF vars
<1> QED BY <1>1, <1>2, <1>3, <1>4, <1>5, <1>6, <1>7, Cases

\* One more report.
LEMMA SendFollows ==
    ASSUME TypeOK, WorkerSends
    PROVE  /\ DownFollows' /\ LeftDown' \subseteq LeftDown
<1>1. /\ worker = "send" /\ worker' = "send" /\ next \in Nat /\ next >= 1
      /\ next' = next + 1 /\ mode' = mode /\ notifying' = notifying
      /\ down' = IF Reports[next] = NoKey THEN down \ TargetPaths
                                         ELSE down \union TargetPaths
  BY LenReports DEF WorkerSends, SendReport, EmitReport, daemonVars, TypeOK, AppTypeOK
<1>2. TargetPaths' = TargetPaths
  BY <1>1 DEF TargetPaths, Preferred, Fallback
<1>3. next' > 1 /\ next' - 1 = next
  BY <1>1
<1>4. DownFollows'
  BY <1>1, <1>2, <1>3 DEF DownFollows
<1>5. LeftDown' \subseteq LeftDown
  BY <1>1, <1>2, <1>3 DEF LeftDown
<1> QED BY <1>4, <1>5

\* So does every step.
LEMMA NextFollows ==
    TypeOK /\ DownFollows /\ [Next]_vars => DownFollows'
<1> SUFFICES ASSUME TypeOK, DownFollows, [Next]_vars PROVE DownFollows'
  OBVIOUS
<1>1. CASE WorkerSends
  BY <1>1, SendFollows
<1>2. CASE ~WorkerSends
  BY <1>2, OthersLeaveDown DEF DownFollows
<1> QED BY <1>1, <1>2

\* At its end the batch has released its key.
LEMMA UnlockLeavesNothing ==
    ASSUME TypeOK, DownFollows, WorkerUnlocks, down' = down, worker' # "send"
    PROVE  LeftDown' \subseteq LeftDown
<1>1. worker = "send" /\ next = Len(Reports) + 1
  BY LenReports DEF WorkerUnlocks, UnlockAfterReports, TypeOK, AppTypeOK
<1>2. next > 1 => Reports[next - 1] = NoKey
  BY <1>1, LastReport, LenReports
<1>3. next > 1 => \A p \in TargetPaths : p \notin down
  BY <1>1, <1>2 DEF DownFollows
<1>4. LeftDown = down
  BY <1>3 DEF LeftDown
<1> QED BY <1>4 DEF LeftDown

\* For every text and every interleaving a key comes to be left down only by
\* an emit that fails or by the end of the process in the midst of the batch
\* (hid.go:192-206, main.go:16).
THEOREM KeysLeftByCut == Spec => KeyLeftOnlyByCut
<1>1. Init => DownFollows
  BY DEF Init, DownFollows
<1>2. TypeOK /\ DownFollows /\ [Next]_vars => DownFollows'
  BY NextFollows
<1>3. TypeOK /\ DownFollows /\ [Next]_vars =>
        [LeftDown' \subseteq LeftDown
           \/ (worker = "send" /\ ((worker' = "done" /\ readyErr') \/ main' = "off"))]_vars
  <2> SUFFICES ASSUME TypeOK, DownFollows, [Next]_vars,
                      ~(worker = "send" /\ ((worker' = "done" /\ readyErr') \/ main' = "off"))
               PROVE  LeftDown' \subseteq LeftDown
    OBVIOUS
  <2>1. CASE WorkerSends
    BY <2>1, SendFollows
  <2>2. CASE ~WorkerSends /\ worker = "send" /\ worker' = "send"
    BY <2>2, OthersLeaveDown DEF LeftDown
  <2>3. CASE ~WorkerSends /\ worker = "send" /\ worker' # "send"
    BY <2>3, OthersLeaveDown, UnlockLeavesNothing
  <2>4. CASE ~WorkerSends /\ worker # "send"
    BY <2>4, OthersLeaveDown DEF LeftDown
  <2> QED BY <2>1, <2>2, <2>3, <2>4
<1> QED BY <1>1, <1>2, <1>3, TypeCorrect, PTL DEF Spec, KeyLeftOnlyByCut

----------------------------------------------------------------------------
(* What a poll reads.                                                      *)

\* Before and after the batch the values are releases; in the midst of it the
\* one that is notified is the last report.
PutValues ==
    /\ worker \in {"none", "wait", "peer", "learn", "lock"} =>
        \A p \in InputPaths : value[p] = NoKey
    /\ worker = "send" =>
        \A p \in InputPaths :
            value[p] = IF p \in TargetPaths /\ next > 1 THEN Reports[next - 1] ELSE NoKey
    /\ worker = "done" =>
        readyErr \/ code = 1 \/ \A p \in InputPaths : value[p] = NoKey

\* The worker puts and takes the values.
LEMMA WorkerKeepsValues == TypeOK /\ PutValues /\ Worker => PutValues'
<1> SUFFICES ASSUME TypeOK, PutValues, Worker PROVE PutValues'
  OBVIOUS
<1> USE DEF PutValues, WorkerGoes, WorkerFails
<1>1. CASE WorkerWaits \/ WorkerFindsPeer \/ WorkerLearns
  BY <1>1 DEF WorkerWaits, WorkerFindsPeer, WorkerLearns, appVars
<1>2. CASE WorkerLocks
  BY <1>2 DEF WorkerLocks, LockForReports
<1>3. CASE WorkerSends
  <2>1. /\ worker = "send" /\ worker' = "send" /\ next \in Nat /\ next >= 1
        /\ next' = next + 1 /\ PutReport
        /\ mode' = mode /\ notifying' = notifying
    BY <1>3, LenReports DEF WorkerSends, SendReport, EmitReport, daemonVars, TypeOK, AppTypeOK
  <2>2. TargetPaths' = TargetPaths
    BY <2>1 DEF TargetPaths, Preferred, Fallback
  <2>3. \A p \in InputPaths :
            value'[p] = IF p \in TargetPaths THEN Reports[next] ELSE value[p]
    BY <2>1 DEF PutReport
  <2>4. next' > 1 /\ next' - 1 = next
    BY <2>1
  <2> QED BY <2>1, <2>2, <2>3, <2>4
<1>4. CASE WorkerCannotSend
  BY <1>4 DEF WorkerCannotSend, SendReportFails
<1>5. CASE WorkerUnlocks
  <2>1. /\ worker = "send" /\ worker' = "done" /\ value' = value
        /\ next = Len(Reports) + 1
    BY <1>5, LenReports DEF WorkerUnlocks, UnlockAfterReports, TypeOK, AppTypeOK
  <2>2. next > 1 => Reports[next - 1] = NoKey
    BY <2>1, LastReport, LenReports
  <2> QED BY <2>1, <2>2
<1> QED BY <1>1, <1>2, <1>3, <1>4, <1>5 DEF Worker

\* Nobody else does; the handlers wait while the worker sends.
LEMMA NextValues == TypeOK /\ Batch /\ PutValues /\ [Next]_vars => PutValues'
<1> SUFFICES ASSUME TypeOK, Batch, PutValues, [Next]_vars PROVE PutValues'
  OBVIOUS
<1> USE DEF PutValues
<1>1. ASSUME UNCHANGED <<value, worker, readyErr, code, next, notifying, mode>>
      PROVE  PutValues'
  <2>1. TargetPaths' = TargetPaths
    BY <1>1 DEF TargetPaths, Preferred, Fallback
  <2> QED BY <1>1, <2>1
<1>2. CASE Life
  <2>1. UNCHANGED <<value, next, notifying, mode>>
    BY <1>2 DEF Life, Register, RegisterFails, ServeCancelled, ServeError, Return,
                Unwind, Begin, Signal_, appVars
  <2>2. TargetPaths' = TargetPaths
    BY <2>1 DEF TargetPaths, Preferred, Fallback
  <2>3. CASE Register
    BY <2>1, <2>2, <2>3 DEF Register, TypeOK
  <2>4. CASE RegisterFails \/ ServeCancelled \/ ServeError
    BY <2>1, <2>2, <2>4 DEF RegisterFails, ServeCancelled, ServeError, Return, Batch, TypeOK
  <2>5. CASE Unwind \/ Begin \/ Signal_
    BY <2>1, <2>2, <2>5 DEF Unwind, Begin, Signal_, TypeOK
  <2> QED BY <1>2, <2>3, <2>4, <2>5 DEF Life
<1>3. CASE Ends
  BY <1>3 DEF Ends, LoadFails, Exit, Kill, Off, AppReset, NewApp
<1>4. CASE Worker
  BY <1>4, WorkerKeepsValues
<1>5. CASE Handle
  <2>1. mu = "free" /\ UNCHANGED <<value, worker, readyErr, code>>
    BY <1>5 DEF Handle, StartNotify, StopNotify, WriteValue, daemonVars
  <2>2. worker # "send"
    BY <2>1 DEF TypeOK
  <2> QED BY <2>1, <2>2
<1>6. ASSUME NEW h \in Hosts, Host(h) PROVE PutValues'
  BY <1>1, <1>6 DEF Host, HostConnects, HostLeaves, Subscribe, Unsubscribe, WritesMode,
                    appVars, daemonVars
<1>7. CASE UNCHANGED vars
  BY <1>1, <1>7 DEF vars
<1> QED BY <1>2, <1>3, <1>4, <1>5, <1>6, <1>7, Cases

\* No poll reads a key that is down, whatever the text and the interleaving,
\* but for an error that ends the daemon (hid.go:192, 504, 526).
THEOREM NoKeyPolled == Spec => []NoPolledKey
<1>1. Init => PutValues
  BY DEF Init, AppInit, NewApp, PutValues
<1>2. TypeOK /\ Batch /\ PutValues /\ [Next]_vars => PutValues'
  BY NextValues
<1>3. TypeOK /\ PutValues => NoPolledKey
  BY DEF TypeOK, PutValues, NoPolledKey, Polled
<1> QED BY <1>1, <1>2, <1>3, BatchHolds, TypeCorrect, PTL DEF Spec

----------------------------------------------------------------------------
(* The registrations, with Unregister calls that do not fail.              *)

\* The registrations in the order in which they are made.
Order == <<"bus", "agent", "application", "advertisement">>

\* How many of them are made when the registration comes to step s.
Depth(s) ==
    IF s = 1 THEN 0 ELSE IF s < 6 THEN 1 ELSE IF s < 8 THEN 2 ELSE IF s = 8 THEN 3 ELSE 4

\* The first n are made, and to be undone.
UpTo(n) ==
    /\ undo = SubSeq(Order, 1, n)
    /\ reg = {Order[i] : i \in 1 .. n}

\* What is to be undone is what is registered.
Stacked ==
    /\ \E n \in 0 .. 4 : UpTo(n)
    /\ main = "register" => UpTo(Depth(step))
    /\ main = "off" => step = 1 /\ UpTo(0)

\* There are four.
LEMMA LenOrder == Order \in Seq(Undone) /\ Len(Order) = 4
BY DEF Order, Undone

\* A step that is to be undone makes the next registration.
LEMMA StepDepth ==
    ASSUME NEW s \in 1 .. 8
    PROVE  /\ Depth(s) \in 0 .. 4 /\ Depth(s + 1) \in 0 .. 4
           /\ Steps[s] \in Undone =>
                Depth(s) < 4 /\ Depth(s + 1) = Depth(s) + 1 /\ Steps[s] = Order[Depth(s) + 1]
           /\ Steps[s] \notin Undone => Depth(s + 1) = Depth(s)
<1>1. s = 1 \/ s = 2 \/ s = 3 \/ s = 4 \/ s = 5 \/ s = 6 \/ s = 7 \/ s = 8
  OBVIOUS
<1> QED BY <1>1 DEF Depth, Steps, Undone, Order

\* Registering and undoing keep the stack.
LEMMA NextStacked ==
    ASSUME "undo" \notin Faults
    PROVE  TypeOK /\ Stacked /\ [Next]_vars => Stacked'
<1> SUFFICES ASSUME TypeOK, Stacked, [Next]_vars PROVE Stacked'
  OBVIOUS
<1>1. ASSUME UNCHANGED <<main, step, undo, reg>> PROVE Stacked'
  <2>1. ASSUME NEW n PROVE UpTo(n)' <=> UpTo(n)
    BY <1>1 DEF UpTo
  <2> QED BY <1>1, <2>1 DEF Stacked
<1>2. CASE Register
  <2>1. step \in 1 .. 8 /\ step' = step + 1 /\ main' \in {"register", "serve"}
    BY <1>2, LenSteps DEF Register, TypeOK
  <2>2. UpTo(Depth(step)) /\ Depth(step) \in 0 .. 4
    BY <1>2, <2>1, StepDepth DEF Register, Stacked
  <2>3. CASE Steps[step] \in Undone
    <3>1. /\ reg' = reg \union {Order[Depth(step) + 1]}
          /\ undo' = Append(undo, Order[Depth(step) + 1])
          /\ Depth(step') = Depth(step) + 1 /\ Depth(step) < 4
      BY <1>2, <2>1, <2>3, StepDepth DEF Register
    <3>2. undo' = SubSeq(Order, 1, Depth(step) + 1)
      BY <2>2, <3>1, LenOrder DEF UpTo
    <3>3. reg' = {Order[i] : i \in 1 .. Depth(step) + 1}
      BY <2>2, <3>1 DEF UpTo
    <3>4. PICK n \in 0 .. 4 : n = Depth(step) + 1
      BY <2>2, <3>1
    <3>5. UpTo(n)' /\ Depth(step') = n
      BY <3>1, <3>2, <3>3, <3>4 DEF UpTo
    <3>6. UpTo(Depth(step))'
      BY <3>5 DEF UpTo
    <3> QED BY <2>1, <3>5, <3>6 DEF Stacked
  <2>4. CASE Steps[step] \notin Undone
    <3>1. UNCHANGED <<reg, undo>> /\ Depth(step') = Depth(step)
      BY <1>2, <2>1, <2>4, StepDepth DEF Register
    <3> QED BY <2>1, <2>2, <3>1 DEF Stacked, UpTo
  <2> QED BY <2>3, <2>4
<1>3. CASE Unwind
  <2>1. PICK n \in 0 .. 4 : UpTo(n)
    BY DEF Stacked
  <2>2. n > 0 /\ undo[Len(undo)] = Order[n] /\ Len(undo) = n
    BY <1>3, <2>1, LenOrder DEF Unwind, UpTo
  <2>3. undo' = SubSeq(Order, 1, n - 1)
    BY <1>3, <2>1, <2>2, LenOrder DEF Unwind, UpTo
  <2>4. reg' = IF Order[n] = "bus" THEN {} ELSE reg \ {Order[n]}
    BY <1>3, <2>2 DEF Unwind
  <2>5. reg' = {Order[i] : i \in 1 .. n - 1}
    <3>1. n = 1 \/ n = 2 \/ n = 3 \/ n = 4
      BY <2>2
    <3> QED BY <2>1, <2>4, <3>1 DEF UpTo, Order
  <2> QED BY <1>3, <2>2, <2>3, <2>5 DEF Stacked, UpTo, Unwind
<1>4. CASE RegisterFails \/ ServeCancelled \/ ServeError \/ Begin
  <2>1. UNCHANGED <<undo, reg, step>>
    BY <1>4 DEF RegisterFails, ServeCancelled, ServeError, Return, Begin
  <2>2. ASSUME NEW n PROVE UpTo(n)' <=> UpTo(n)
    BY <2>1 DEF UpTo
  <2>3. CASE Begin
    BY <2>1, <2>2, <2>3 DEF Begin, Stacked, Depth
  <2>4. CASE RegisterFails \/ ServeCancelled \/ ServeError
    BY <2>1, <2>2, <2>4 DEF RegisterFails, ServeCancelled, ServeError, Return, Stacked
  <2> QED BY <1>4, <2>3, <2>4
<1>5. CASE Signal_
  BY <1>1, <1>5 DEF Signal_
<1>6. CASE Ends
  <2>1. main' = "off" /\ step' = 1 /\ undo' = <<>> /\ reg' = {}
    BY <1>6 DEF Ends, LoadFails, Exit, Kill, Off
  <2>2. SubSeq(Order, 1, 0) = <<>>
    BY LenOrder
  <2> QED BY <2>1, <2>2 DEF Stacked, UpTo
<1>7. CASE Worker
  BY <1>1, <1>7 DEF Worker, WorkerWaits, WorkerFindsPeer, WorkerLearns, WorkerLocks,
                    WorkerSends, WorkerCannotSend, WorkerUnlocks, WorkerGoes,
                    WorkerFails, daemonVars
<1>8. CASE Handle
  BY <1>1, <1>8 DEF Handle, daemonVars
<1>9. ASSUME NEW h \in Hosts, Host(h) PROVE Stacked'
  BY <1>1, <1>9 DEF Host, HostConnects, HostLeaves, Subscribe, Unsubscribe, WritesMode,
                    daemonVars
<1>10. CASE UNCHANGED vars
  BY <1>1, <1>10 DEF vars
<1> QED BY <1>2, <1>3, <1>4, <1>5, <1>6, <1>7, <1>8, <1>9, <1>10, Cases DEF Life

\* Whichever step fails and whenever the daemon is told to stop.
LEMMA StackedHolds == ASSUME "undo" \notin Faults PROVE Spec => []Stacked
<1>1. Init => Stacked
  <2>1. SubSeq(Order, 1, 0) = <<>>
    BY LenOrder
  <2> QED BY <2>1 DEF Init, Stacked, UpTo, Depth
<1>2. TypeOK /\ Stacked /\ [Next]_vars => Stacked'
  BY NextStacked
<1> QED BY <1>1, <1>2, TypeCorrect, PTL DEF Spec

\* BlueZ never advertises a keyboard whose application it cannot reach.
THEOREM RegistrationsNest ==
    ASSUME "undo" \notin Faults PROVE Spec => []NestedRegistrations
<1>1. Stacked => NestedRegistrations
  <2> SUFFICES ASSUME NEW n \in 0 .. 4, UpTo(n) PROVE NestedRegistrations
    BY DEF Stacked
  <2>1. n = 0 \/ n = 1 \/ n = 2 \/ n = 3 \/ n = 4
    OBVIOUS
  <2> QED BY <2>1 DEF UpTo, NestedRegistrations, Order
<1> QED BY <1>1, StackedHolds, PTL

\* The connection is closed when nothing else is registered (hid.go:287).
THEOREM ClosesLast ==
    ASSUME "undo" \notin Faults PROVE Spec => ConnectionClosesLast
<1>1. Stacked /\ [Next]_vars =>
        [main' = "unwind" /\ "bus" \in reg /\ "bus" \notin reg' => reg = {"bus"}]_vars
  <2> SUFFICES ASSUME Stacked, [Next]_vars, main' = "unwind",
                      "bus" \in reg, "bus" \notin reg'
               PROVE  reg = {"bus"}
    OBVIOUS
  <2>1. Unwind
    BY Cases DEF Life, Ends, Register, RegisterFails, ServeCancelled, ServeError, Return,
         Begin, Signal_, LoadFails, Exit, Kill, Off, Worker, WorkerWaits,
         WorkerFindsPeer, WorkerLearns, WorkerLocks, WorkerSends, WorkerCannotSend,
         WorkerUnlocks, WorkerGoes, WorkerFails, Handle, Host, HostConnects, HostLeaves,
         Subscribe, Unsubscribe, WritesMode, daemonVars, vars
  <2>2. PICK n \in 0 .. 4 : UpTo(n)
    BY DEF Stacked
  <2>3. n > 0 /\ undo[Len(undo)] = Order[n]
    BY <2>1, <2>2, LenOrder DEF Unwind, UpTo
  <2>4. Order[n] = "bus"
    BY <2>1, <2>3 DEF Unwind
  <2>5. n = 1
    BY <2>3, <2>4 DEF Order
  <2> QED BY <2>2, <2>5 DEF UpTo, Order
<1> QED BY <1>1, StackedHolds, PTL DEF Spec, ConnectionClosesLast

----------------------------------------------------------------------------
(* Learning.                                                               *)

\* The channel is closed when the worker is past it.
WorkerSubscribed == worker \in {"peer", "learn", "lock", "send"} => subscribed

\* No host becomes a target before a subscription has reached the daemon
\* (hid.go:350), whatever else happens.
THEOREM NoEarlyLearning == Spec => LearnsAfterSubscription
<1>1. Init => WorkerSubscribed
  BY DEF Init, WorkerSubscribed
<1>2. TypeOK /\ WorkerSubscribed /\ [Next]_vars => WorkerSubscribed'
  <2> SUFFICES ASSUME TypeOK, WorkerSubscribed, [Next]_vars PROVE WorkerSubscribed'
    OBVIOUS
  <2> USE DEF WorkerSubscribed
  <2>1. CASE Life
    BY <2>1 DEF Life, Register, RegisterFails, ServeCancelled, ServeError, Return,
                Unwind, Begin, Signal_, appVars
  <2>2. CASE Ends
    BY <2>2 DEF Ends, LoadFails, Exit, Kill, Off
  <2>3. CASE Worker
    BY <2>3 DEF Worker, WorkerWaits, WorkerFindsPeer, WorkerLearns, WorkerLocks,
                LockForReports, WorkerSends, SendReport, WorkerCannotSend,
                SendReportFails, WorkerUnlocks, UnlockAfterReports, WorkerGoes,
                WorkerFails, appVars, daemonVars
  <2>4. CASE Handle
    <3>1. worker' = worker
      BY <2>4 DEF Handle, daemonVars
    <3>2. ASSUME NEW p, StartNotify(p) PROVE subscribed'
      BY <3>2 DEF StartNotify
    <3>3. ASSUME NEW p, StopNotify(p) PROVE subscribed' = subscribed
      BY <3>3 DEF StopNotify
    <3>4. ASSUME NEW v, WriteValue(v) PROVE subscribed' = subscribed
      BY <3>4 DEF WriteValue
    <3> QED BY <2>4, <3>1, <3>2, <3>3, <3>4 DEF Handle
  <2>5. ASSUME NEW h \in Hosts, Host(h) PROVE WorkerSubscribed'
    BY <2>5 DEF Host, HostConnects, HostLeaves, Subscribe, Unsubscribe, WritesMode,
                appVars, daemonVars
  <2>6. CASE UNCHANGED vars
    BY <2>6 DEF vars
  <2> QED BY <2>1, <2>2, <2>3, <2>4, <2>5, <2>6, Cases
<1>3. WorkerSubscribed /\ [Next]_vars => [learned' # learned => subscribed]_vars
  <2> SUFFICES ASSUME WorkerSubscribed, [Next]_vars, learned' # learned PROVE subscribed
    OBVIOUS
  <2>1. WorkerLearns
    BY Cases DEF Life, Ends, Register, RegisterFails, ServeCancelled, ServeError, Return,
         Unwind, Begin, Signal_, LoadFails, Exit, Kill, Off, Worker, WorkerWaits,
         WorkerFindsPeer, WorkerLocks, WorkerSends, WorkerCannotSend,
         WorkerUnlocks, Handle, Host, HostConnects, HostLeaves,
         Subscribe, Unsubscribe, WritesMode, daemonVars, vars
  <2> QED BY <2>1 DEF WorkerLearns, WorkerSubscribed
<1> QED BY <1>1, <1>2, <1>3, TypeCorrect, PTL DEF Spec, LearnsAfterSubscription

============================================================================
