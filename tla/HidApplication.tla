--------------------------- MODULE HidApplication ---------------------------
(***************************************************************************)
(* The GATT application of kbd-hid (internal/bluez/hid.go): the HID        *)
(* characteristics that BlueZ reads, writes and subscribes to, and         *)
(* SendReports, which types the test text into them.                       *)
(*                                                                         *)
(* BlueZ's calls are served by goroutines of the D-Bus library, one for    *)
(* each call, so calls that are pending together are served in any order.  *)
(* app.mu makes each handler one step; SendReports keeps app.mu for its    *)
(* whole batch, one step for each report.                                  *)
(***************************************************************************)
EXTENDS Naturals, Sequences

CONSTANTS
    Keys,       \* keys that can be pressed: modifier and key code
    NoKey,      \* the release report
    Reports,    \* the batch: the test text as reports
    Values      \* the bytes hosts write to Protocol Mode

\* The reports of hidreport.ReportsForText (see HidReport): every press is
\* followed by its release.
ASSUME ReportsAssumption ==
    /\ NoKey \notin Keys
    /\ Reports \in Seq(Keys \union {NoKey})
    /\ Len(Reports) % 2 = 0
    /\ \A i \in 1 .. Len(Reports) : i % 2 = 0 <=> Reports[i] = NoKey
    /\ Values \subseteq Nat

VARIABLES
    mu,         \* who holds app.mu between steps: "free" or "sender"
    notifying,  \* the notifying flag of the two input characteristics
    mode,       \* value of Protocol Mode: 0 boot, 1 report
    value,      \* the value of the two input characteristics
    subscribed, \* the channel "subscribed" is closed
    calls,      \* how many of each call of BlueZ are not served yet
    next,       \* the report SendReports comes to next
    sent,       \* the Value signals this process has emitted: path and report
    down        \* the paths whose last signal was a press, whoever emitted it

appVars == <<mu, notifying, mode, value, subscribed, calls, next, sent, down>>

\* ReportPath and BootInputPath; the others do not notify.
InputPaths == {"report", "boot"}

\* What BlueZ calls that changes the application.  Writes to the writable
\* characteristics but Protocol Mode change bytes that only BlueZ reads back,
\* and a write of any length but one is refused as a byte above 1 is.
Calls ==
    [op : {"StartNotify", "StopNotify"}, path : InputPaths]
        \union [op : {"WriteValue"}, value : Values]

Report == Keys \union {NoKey}
Signal == [path : InputPaths, report : Report]

AppTypeOK ==
    /\ mu \in {"free", "sender"}
    /\ notifying \in [InputPaths -> BOOLEAN]
    /\ mode \in {0, 1}
    /\ value \in [InputPaths -> Report]
    /\ subscribed \in BOOLEAN
    /\ calls \in [Calls -> Nat]
    /\ next \in 1 .. Len(Reports) + 1
    /\ sent \in Seq(Signal)
    /\ down \subseteq InputPaths

\* NewHIDApplication: report protocol, nobody subscribed.
NewApp ==
    [mu |-> "free", notifying |-> [p \in InputPaths |-> FALSE], mode |-> 1,
     value |-> [p \in InputPaths |-> NoKey], subscribed |-> FALSE,
     calls |-> [c \in Calls |-> 0], next |-> 1, sent |-> <<>>]

AppInit ==
    /\ mu = NewApp.mu /\ notifying = NewApp.notifying /\ mode = NewApp.mode
    /\ value = NewApp.value /\ subscribed = NewApp.subscribed
    /\ calls = NewApp.calls /\ next = NewApp.next /\ sent = NewApp.sent
    /\ down = {}

\* A new process begins anew; what hosts have been told stays.
AppReset ==
    /\ mu' = NewApp.mu /\ notifying' = NewApp.notifying /\ mode' = NewApp.mode
    /\ value' = NewApp.value /\ subscribed' = NewApp.subscribed
    /\ calls' = NewApp.calls /\ next' = NewApp.next /\ sent' = NewApp.sent
    /\ UNCHANGED down

----------------------------------------------------------------------------
(* The handlers of the characteristics.                                    *)

Served(c) == calls[c] > 0 /\ calls' = [calls EXCEPT ![c] = @ - 1]

\* Mutant of StartNotify: only one of the two characteristics counts.
StartNotifyOfReport(p) ==
    /\ mu = "free"
    /\ Served([op |-> "StartNotify", path |-> p])
    /\ notifying' = [notifying EXCEPT ![p] = TRUE]
    /\ subscribed' = (subscribed \/ p = "report")
    /\ UNCHANGED <<mu, mode, value, next, sent, down>>

\* StartNotify closes the channel the first time (sync.Once).
StartNotify(p) ==
    /\ mu = "free"
    /\ Served([op |-> "StartNotify", path |-> p])
    /\ notifying' = [notifying EXCEPT ![p] = TRUE]
    /\ subscribed' = TRUE
    /\ UNCHANGED <<mu, mode, value, next, sent, down>>

StopNotify(p) ==
    /\ mu = "free"
    /\ Served([op |-> "StopNotify", path |-> p])
    /\ notifying' = [notifying EXCEPT ![p] = FALSE]
    /\ UNCHANGED <<mu, mode, value, subscribed, next, sent, down>>

WriteValue(v) ==
    /\ mu = "free"
    /\ Served([op |-> "WriteValue", value |-> v])
    /\ mode' = IF v \in {0, 1} THEN v ELSE mode
    /\ UNCHANGED <<mu, notifying, value, subscribed, next, sent, down>>

----------------------------------------------------------------------------
(* SendReports.                                                            *)

\* notifyInputLocked: the path the protocol mode asks for if it notifies,
\* else the other one if that does, else none.
Preferred == IF mode = 0 THEN "boot" ELSE "report"
Fallback == IF mode = 0 THEN "report" ELSE "boot"
TargetPaths ==
    IF notifying[Preferred] THEN {Preferred}
    ELSE IF notifying[Fallback] THEN {Fallback} ELSE {}

LockForReports ==
    /\ mu = "free"
    /\ mu' = "sender"
    /\ next' = 1
    /\ UNCHANGED <<notifying, mode, value, subscribed, calls, sent, down>>

\* The report becomes the value of the characteristic before it is emitted.
PutReport == value' = [p \in InputPaths |->
                          IF p \in TargetPaths THEN Reports[next] ELSE value[p]]

\* The signal, on the path that is notified if there is one.
EmitReport ==
    /\ PutReport
    /\ \/ TargetPaths = {} /\ UNCHANGED sent
       \/ \E p \in TargetPaths :
            sent' = Append(sent, [path |-> p, report |-> Reports[next]])
    /\ down' = IF Reports[next] = NoKey THEN down \ TargetPaths
                                       ELSE down \union TargetPaths

\* Mutant of SendReport: app.mu is free between two reports.
SendReportUnlocked ==
    /\ next <= Len(Reports)
    /\ EmitReport
    /\ next' = next + 1
    /\ mu' = IF next = Len(Reports) THEN "sender" ELSE "free"
    /\ UNCHANGED <<notifying, mode, subscribed, calls>>

\* One report of the batch; with nobody to notify it is dropped.
SendReport ==
    /\ mu = "sender"
    /\ next <= Len(Reports)
    /\ EmitReport
    /\ next' = next + 1
    /\ UNCHANGED <<mu, notifying, mode, subscribed, calls>>

\* Emit returns an error; the batch ends there, and the value stays.
SendReportFails ==
    /\ mu = "sender"
    /\ next <= Len(Reports)
    /\ TargetPaths # {}
    /\ PutReport
    /\ mu' = "free"
    /\ UNCHANGED <<notifying, mode, subscribed, calls, next, sent, down>>

\* Mutant of UnlockAfterReports: app.mu is not given back.
UnlockForgotten ==
    /\ mu = "sender"
    /\ next > Len(Reports)
    /\ UNCHANGED appVars

UnlockAfterReports ==
    /\ mu = "sender"
    /\ next > Len(Reports)
    /\ mu' = "free"
    /\ UNCHANGED <<notifying, mode, value, subscribed, calls, next, sent, down>>

----------------------------------------------------------------------------

\* ReadValue of an input characteristic, which needs app.mu: what a host may
\* be told that polls the keyboard.
Polled(p) == IF mu = "free" THEN {value[p]} ELSE {}

\* The key a subscriber of path p has been told is down.
Held(p) ==
    LET on == {i \in 1 .. Len(sent) : sent[i].path = p}
    IN  IF on = {} THEN NoKey
        ELSE sent[CHOOSE i \in on : \A j \in on : j <= i].report

============================================================================
