----------------------------- MODULE HidDaemon -----------------------------
(***************************************************************************)
(* The life of kbd-hid (DBusDaemon.Run in internal/bluez/hid.go, daemon in *)
(* internal/hidapp/app.go, the systemd unit): the main goroutine registers *)
(* with BlueZ, serves until it is told to stop or the worker reports an    *)
(* error, and undoes its registrations; the worker waits for the first     *)
(* subscription, learns the host as a target and types the test text.      *)
(* BlueZ, the hosts and systemd are modelled from how the code uses them.  *)
(***************************************************************************)
EXTENDS HidApplication

CONSTANTS
    Hosts,      \* devices that may connect
    NoHost,     \* no device found yet
    MaxPending, \* bound: calls of one kind that BlueZ leaves unanswered
    Faults      \* what may go wrong

\* "dbus"    a D-Bus call of the daemon fails
\* "undo"    an Unregister call fails; its error is ignored
\* "emit"    a signal cannot be sent
\* "config"  the learned target cannot be saved
\* "stop"    SIGTERM or SIGINT
\* "kill"    the process is killed
FaultKinds == {"dbus", "undo", "emit", "config", "stop", "kill"}

ASSUME DaemonAssumption ==
    /\ NoHost \notin Hosts
    /\ MaxPending \in Nat
    /\ Faults \subseteq FaultKinds

VARIABLES
    main,       \* main goroutine: "register", "serve", "unwind" or "off"
    step,       \* the registration step it is at
    undo,       \* the deferred calls, the last one to run first
    code,       \* the exit status of Run, or of the last process
    cancelled,  \* the context is cancelled
    reg,        \* what BlueZ and the bus have registered
    worker,     \* where the worker goroutine is
    readyErr,   \* readyErrors, a channel of capacity one, holds an error
    peer,       \* the device the worker found
    linked,     \* devices with a link to the adapter
    ccc,        \* the paths each device has subscribed to, as BlueZ knows
    learned     \* hosts in "targets" of the config

daemonVars == <<main, step, undo, code, cancelled, reg, worker, readyErr, peer,
                learned>>
bluezVars == <<linked, ccc>>
vars == <<mu, notifying, mode, value, subscribed, calls, next, sent, down,
          main, step, undo, code, cancelled, reg, worker, readyErr, peer,
          linked, ccc, learned>>

\* Mutant of Steps: it advertises before the application is registered.
StepsHasty == <<"bus", "hello", "export", "adapter", "agent", "default",
                "advertisement", "application">>

\* The steps of Run up to the select: the connection, Auth with Hello, the
\* three Exports, the three SetProperty calls and four calls to BlueZ.
Steps == <<"bus", "hello", "export", "adapter", "agent", "default",
           "application", "advertisement">>

\* The steps that defer a call that undoes them.
Undone == {"bus", "agent", "application", "advertisement"}

TypeOK ==
    /\ AppTypeOK
    /\ main \in {"register", "serve", "unwind", "off"}
    /\ step \in 1 .. Len(Steps) + 1
    /\ undo \in Seq(Undone)
    /\ code \in {0, 1}
    /\ cancelled \in BOOLEAN
    /\ reg \subseteq Undone
    /\ worker \in {"none", "wait", "peer", "learn", "lock", "send", "done"}
    /\ readyErr \in BOOLEAN
    /\ peer \in Hosts \union {NoHost}
    /\ linked \subseteq Hosts
    /\ ccc \in [Hosts -> SUBSET InputPaths]
    /\ learned \subseteq Hosts
    /\ main \in {"register", "off"} => worker = "none"
    /\ worker = "learn" => peer \in Hosts
    /\ mu = "sender" <=> worker = "send"

Init ==
    /\ AppInit
    /\ main = "register" /\ step = 1 /\ undo = <<>> /\ code = 0
    /\ cancelled = FALSE /\ reg = {}
    /\ worker = "none" /\ readyErr = FALSE /\ peer = NoHost
    /\ linked \in SUBSET Hosts
    /\ ccc = [h \in Hosts |-> {}]
    /\ learned = {}

----------------------------------------------------------------------------
(* The main goroutine.                                                     *)

\* A step of the registration; what must be undone is deferred.  After the
\* last one the worker is started.
Register ==
    /\ main = "register"
    /\ step <= Len(Steps)
    /\ step' = step + 1
    /\ IF Steps[step] \in Undone
       THEN /\ reg' = reg \union {Steps[step]}
            /\ undo' = Append(undo, Steps[step])
       ELSE UNCHANGED <<reg, undo>>
    /\ IF step = Len(Steps)
       THEN main' = "serve" /\ worker' = "wait"
       ELSE UNCHANGED <<main, worker>>
    /\ UNCHANGED <<appVars, bluezVars, code, cancelled, readyErr, peer, learned>>

\* Run returns and its deferred calls are next.
Return(status) ==
    /\ main' = "unwind"
    /\ code' = status
    /\ UNCHANGED <<appVars, bluezVars, step, undo, cancelled, reg, worker, peer,
                   learned>>

RegisterFails ==
    /\ main = "register"
    /\ "dbus" \in Faults
    /\ Return(1)
    /\ UNCHANGED readyErr

\* Mutant of ServeCancelled: nothing listens to the context.
NeverCancelled == FALSE

\* Mutant of ServeError: the error is not returned.
ServeErrorLost == main = "serve" /\ readyErr /\ readyErr' = FALSE /\ Return(0)

\* The select at the end of Run: either branch if both are ready.
ServeCancelled == main = "serve" /\ cancelled /\ Return(0) /\ UNCHANGED readyErr

\* The other branch: the error that the worker sent.
ServeError == main = "serve" /\ readyErr /\ readyErr' = FALSE /\ Return(1)

\* BlueZ forgets an application: its subscriptions go with it.
Forgets(gone) ==
    ccc' = IF "application" \in gone THEN [h \in Hosts |-> {}] ELSE ccc

\* Mutant of Unwind: the deferred calls run first to last.
UnwindInOrder ==
    /\ main = "unwind"
    /\ undo # <<>>
    /\ undo' = Tail(undo)
    /\ reg' = IF Head(undo) = "bus" THEN {} ELSE reg \ {Head(undo)}
    /\ Forgets(reg \ reg')
    /\ UNCHANGED <<appVars, linked, main, step, code, cancelled, worker,
                   readyErr, peer, learned>>

\* The deferred calls run last to first.  The bus tells BlueZ of a client
\* that closes its connection, and BlueZ forgets what is left of it.
Unwind ==
    /\ main = "unwind"
    /\ undo # <<>>
    /\ LET last == undo[Len(undo)]
       IN  /\ undo' = SubSeq(undo, 1, Len(undo) - 1)
           /\ \/ reg' = IF last = "bus" THEN {} ELSE reg \ {last}
              \/ "undo" \in Faults /\ last # "bus" /\ UNCHANGED reg
    /\ Forgets(reg \ reg')
    /\ UNCHANGED <<appVars, linked, main, step, code, cancelled, worker,
                   readyErr, peer, learned>>

\* The process and its goroutines are gone.
Off(status) ==
    /\ AppReset
    /\ main' = "off" /\ step' = 1 /\ undo' = <<>> /\ code' = status
    /\ reg' = {} /\ ccc' = [h \in Hosts |-> {}]
    /\ worker' = "none" /\ readyErr' = FALSE /\ peer' = NoHost
    /\ UNCHANGED <<cancelled, linked, learned>>

\* The config cannot be loaded: the process ends before Run, with 2, which
\* systemd takes as it takes 1.
LoadFails ==
    /\ main = "register"
    /\ step = 1
    /\ "config" \in Faults
    /\ Off(1)

\* os.Exit, once Run has returned, whatever the worker is doing.
Exit == main = "unwind" /\ undo = <<>> /\ Off(code)

Kill == "kill" \in Faults /\ main # "off" /\ Off(1)

\* SIGINT or SIGTERM cancels the context of main.
Signal_ ==
    /\ "stop" \in Faults
    /\ main # "off"
    /\ cancelled' = TRUE
    /\ UNCHANGED <<appVars, bluezVars, main, step, undo, code, reg, worker,
                   readyErr, peer, learned>>

\* systemd starts the process again after a failure (Restart=on-failure), but
\* not when it was told to stop; then a user starts it.
Begin ==
    /\ main = "off"
    /\ main' = "register" /\ code' = 0 /\ cancelled' = FALSE
    /\ UNCHANGED <<appVars, bluezVars, step, undo, reg, worker, readyErr, peer,
                   learned>>
Restart == code = 1 /\ ~cancelled /\ Begin
UserStarts == (code = 0 \/ cancelled) /\ Begin

----------------------------------------------------------------------------
(* The worker goroutine.                                                   *)

WorkerGoes(l) ==
    /\ worker' = l
    /\ UNCHANGED <<main, step, undo, code, cancelled, reg, bluezVars>>

\* readyErrors <- err: the channel has room, and nobody else sends.
WorkerFails == ~readyErr /\ readyErr' = TRUE /\ WorkerGoes("done")

\* Mutant of WorkerWaits: it looks for the host without a subscription.
WorkerHurries ==
    /\ worker = "wait"
    /\ \/ WorkerGoes("peer")
       \/ cancelled /\ WorkerGoes("done")
    /\ UNCHANGED <<appVars, readyErr, peer, learned>>

\* WaitForSubscription; a cancellation is no error.
WorkerWaits ==
    /\ worker = "wait"
    /\ \/ subscribed /\ WorkerGoes("peer")
       \/ cancelled /\ WorkerGoes("done")
    /\ UNCHANGED <<appVars, readyErr, peer, learned>>

\* ConnectedPeer: exactly one connected device, or an error.  A cancelled
\* context or a closed connection is an error too.
WorkerFindsPeer ==
    /\ worker = "peer"
    /\ \/ /\ "bus" \in reg
          /\ \E h \in Hosts : linked = {h} /\ peer' = h
          /\ WorkerGoes("learn") /\ UNCHANGED readyErr
       \/ /\ \/ \A h \in Hosts : linked # {h}
             \/ cancelled \/ "bus" \notin reg \/ "dbus" \in Faults
          /\ WorkerFails /\ UNCHANGED peer
    /\ UNCHANGED <<appVars, learned>>

\* OnPeerReady, that is cachePeer (see TargetStore).
WorkerLearns ==
    /\ worker = "learn"
    /\ \/ learned' = learned \union {peer} /\ WorkerGoes("lock") /\ UNCHANGED readyErr
       \/ "config" \in Faults /\ WorkerFails /\ UNCHANGED learned
    /\ UNCHANGED <<appVars, peer>>

\* SendReports.
WorkerLocks ==
    /\ worker = "lock"
    /\ LockForReports
    /\ WorkerGoes("send")
    /\ UNCHANGED <<readyErr, peer, learned>>

WorkerSends ==
    /\ worker = "send"
    /\ \/ "bus" \in reg /\ SendReport
       \/ TargetPaths = {} /\ SendReport
    /\ UNCHANGED <<daemonVars, bluezVars>>

\* Mutant of WorkerCannotSend: the error of SendReports is dropped.
WorkerGivesUp ==
    /\ worker = "send"
    /\ "emit" \in Faults \/ "bus" \notin reg
    /\ SendReportFails
    /\ WorkerGoes("done")
    /\ UNCHANGED <<readyErr, peer, learned>>

WorkerCannotSend ==
    /\ worker = "send"
    /\ "emit" \in Faults \/ "bus" \notin reg
    /\ SendReportFails
    /\ WorkerFails
    /\ UNCHANGED <<peer, learned>>

WorkerUnlocks ==
    /\ worker = "send"
    /\ UnlockAfterReports
    /\ WorkerGoes("done")
    /\ UNCHANGED <<readyErr, peer, learned>>

Worker ==
    \/ WorkerWaits \/ WorkerFindsPeer \/ WorkerLearns
    \/ WorkerLocks \/ WorkerSends \/ WorkerCannotSend \/ WorkerUnlocks

----------------------------------------------------------------------------
(* BlueZ and the hosts.                                                    *)

\* A handler of the application runs in the process.
Handle ==
    /\ "bus" \in reg
    /\ \/ \E p \in InputPaths : StartNotify(p) \/ StopNotify(p)
       \/ \E v \in Values : WriteValue(v)
    /\ UNCHANGED <<daemonVars, bluezVars>>

HostConnects(h) ==
    /\ h \notin linked
    /\ linked' = linked \union {h}
    /\ UNCHANGED <<appVars, daemonVars, ccc>>

HostLeaves(h) ==
    /\ h \in linked
    /\ linked' = linked \ {h}
    /\ UNCHANGED <<appVars, daemonVars, ccc>>

\* BlueZ calls a method of the application, if it may have another pending.
Call(c) == calls[c] < MaxPending /\ calls' = [calls EXCEPT ![c] = @ + 1]

Subscribers(p) == {h \in Hosts : p \in ccc[h]}

\* BlueZ calls StartNotify for the first subscriber of a path and StopNotify
\* after the last one.
Subscribe(h, p) ==
    /\ h \in linked
    /\ "application" \in reg
    /\ p \notin ccc[h]
    /\ ccc' = [ccc EXCEPT ![h] = @ \union {p}]
    /\ IF Subscribers(p) = {} THEN Call([op |-> "StartNotify", path |-> p])
                              ELSE UNCHANGED calls
    /\ UNCHANGED <<mu, notifying, mode, value, subscribed, next, sent, down>>
    /\ UNCHANGED <<daemonVars, linked>>

\* The host asks for it, or it is no longer connected.
Unsubscribe(h, p) ==
    /\ p \in ccc[h]
    /\ ccc' = [ccc EXCEPT ![h] = @ \ {p}]
    /\ IF Subscribers(p) = {h} THEN Call([op |-> "StopNotify", path |-> p])
                               ELSE UNCHANGED calls
    /\ UNCHANGED <<mu, notifying, mode, value, subscribed, next, sent, down>>
    /\ UNCHANGED <<daemonVars, linked>>

WritesMode(h, v) ==
    /\ h \in linked
    /\ "application" \in reg
    /\ Call([op |-> "WriteValue", value |-> v])
    /\ UNCHANGED <<mu, notifying, mode, value, subscribed, next, sent, down>>
    /\ UNCHANGED <<daemonVars, bluezVars>>

Host(h) ==
    \/ HostConnects(h) \/ HostLeaves(h)
    \/ \E p \in InputPaths : Subscribe(h, p) \/ Unsubscribe(h, p)
    \/ \E v \in Values : WritesMode(h, v)

----------------------------------------------------------------------------

Main ==
    \/ LoadFails \/ Register \/ RegisterFails
    \/ ServeCancelled \/ ServeError \/ Unwind \/ Exit \/ Restart

Next ==
    \/ Main \/ UserStarts \/ Kill \/ Signal_
    \/ Worker \/ Handle
    \/ \E h \in Hosts : Host(h)

Spec == Init /\ [][Next]_vars

Serves(A) == "bus" \in reg /\ A /\ UNCHANGED <<daemonVars, bluezVars>>

\* The Go scheduler runs both goroutines and the goroutine of every call, and
\* systemd starts the process again; a D-Bus call returns.  Nothing makes a
\* host act or a user start the daemon.
DaemonFairness ==
    /\ WF_vars(Main)
    /\ WF_vars(Worker)
    /\ \A p \in InputPaths :
        WF_vars(Serves(StartNotify(p))) /\ WF_vars(Serves(StopNotify(p)))
    /\ \A v \in Values : WF_vars(Serves(WriteValue(v)))

FairSpec == Spec /\ DaemonFairness

----------------------------------------------------------------------------
(* Properties.                                                             *)

\* hid_test.go:79 for any interleaving: what has been emitted since the start
\* is a prefix of the text, in order, each report once, and all of it on one
\* characteristic, however hosts subscribe, leave and change the protocol
\* mode meanwhile.
TextInOrder ==
    \E p \in InputPaths : \A i \in 1 .. Len(sent) :
        i <= Len(Reports) /\ sent[i] = [path |-> p, report |-> Reports[i]]

\* The paths on which a key is down that the batch under way is not about to
\* release.
LeftDown == {p \in down : ~(worker = "send" /\ next > 1 /\ p \in TargetPaths)}

\* A key comes to be left down in one way only: the batch is cut short, by a
\* signal that cannot be sent or by the end of the process, which does not
\* wait for the worker (hid.go:192-206, main.go:16).  No host that subscribes,
\* leaves or changes the protocol mode meanwhile comes between a press and its
\* release, and a batch that ends by itself has released every key.
KeyLeftOnlyByCut ==
    [][LeftDown' \subseteq LeftDown
         \/ (worker = "send" /\ ((worker' = "done" /\ readyErr') \/ main' = "off"))]_vars

\* A host that polls instead of subscribing never reads a key that is down,
\* unless the same error is ending the daemon: no read comes between a press
\* and its release (hid.go:192, 504, 526).
NoPolledKey ==
    ~readyErr /\ code = 0 => \A p \in InputPaths : Polled(p) \subseteq {NoKey}

\* A key that an error has left down ends the daemon (hid.go:366).
StuckKeyEndsDaemon ==
    (worker = "done" /\ \E p \in InputPaths : Held(p) # NoKey) ~> (main = "off")

\* BlueZ never advertises a keyboard whose application it cannot reach, nor
\* has the application without the agent that lets a host pair, on the way up
\* or down, as long as its Unregister calls do not fail.
NestedRegistrations ==
    /\ "advertisement" \in reg => "application" \in reg
    /\ "application" \in reg => "agent" \in reg
    /\ "agent" \in reg => "bus" \in reg

\* On every return from Run, whichever step failed, the registrations are
\* undone before the connection is closed (hid.go:287-345).
ConnectionClosesLast ==
    [][main' = "unwind" /\ "bus" \in reg /\ "bus" \notin reg' => reg = {"bus"}]_vars

\* A signal ends the daemon, wherever its goroutines are.
StopsWhenTold == cancelled ~> (main = "off")

\* An error of the worker, that is a host that could not be learned or a text
\* that could not be sent, makes systemd start the daemon anew.
ErrorRestarts == (readyErr /\ ~cancelled) ~> (main = "register" \/ cancelled)

\* README.md:169: a host that subscribes becomes a target.  A host that is in
\* the end the only one connected and stays subscribed is learned.
EverySubscriberLearned ==
    \A h \in Hosts :
        <>[](linked = {h} /\ ccc[h] # {}) => <>(h \in learned)

\* No target is learned before a subscription has reached the daemon.
LearnsAfterSubscription == [][learned' # learned => subscribed]_vars

============================================================================
