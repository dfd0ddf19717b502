---------------------------- MODULE RemoteSwitch ----------------------------
(***************************************************************************)
(* kbd on the PC (internal/localapp/app.go): "kbd switch" runs kbd-rpi     *)
(* over ssh and ends with the exit status of ssh.  The connection may be   *)
(* refused, and it may be lost while kbd-rpi is at work: kbd then ends,    *)
(* and the process on the Pi goes on without anybody who waits for it.     *)
(* The processes on the Pi are Switcher's.                                 *)
(***************************************************************************)
EXTENDS Switcher

CONSTANTS
    Callers,    \* PCs, each with one kbd at a time
    NoCall,     \* no kbd is running
    NoProc,     \* ssh has not started kbd-rpi yet
    Lossy,      \* connections may be refused and lost
    Patient     \* nobody starts another command while one is running

ASSUME RemoteAssumption ==
    /\ NoProc \notin Procs
    /\ NoCall \notin [target : Targets, proc : Procs \union {NoProc}]
    /\ Lossy \in BOOLEAN
    /\ Patient \in BOOLEAN

VARIABLE call   \* the kbd of each caller: its target, its process on the Pi

remoteVars == <<vars, call>>

Call == [target : Targets, proc : Procs \union {NoProc}]

RemoteInit == Init /\ call = [c \in Callers |-> NoCall]

\* The processes on the Pi whose exit status a kbd waits for.
Awaited == {call[c].proc : c \in {d \in Callers : call[d] # NoCall}}

\* A process slot that is free; its last exit status is not needed any more.
Free(p) == pc[p] = "idle" /\ p \notin Awaited

\* The patience of a user: what is still running is the very same command.  A
\* retry may join its orphan, but not with another address: who has edited
\* the target of a command that may still run waits for it as for any other.
Waits(command, entry) ==
    Patient => \A q \in Busy : op[q] = command /\ want[q] = entry

----------------------------------------------------------------------------

\* "kbd switch t" or "kbd t": the config is read and ssh is started.
KbdSwitch(c, t) ==
    /\ call[c] = NoCall
    /\ call' = [call EXCEPT ![c] = [target |-> t, proc |-> NoProc]]
    /\ UNCHANGED vars

\* sshd starts kbd-rpi for the call.
SshRuns(c) ==
    /\ call[c] # NoCall /\ call[c].proc = NoProc
    /\ LET t == call[c].target
       IN  \E p \in Procs :
            /\ Free(p)
            /\ cfg # InvalidConfig /\ cfg.mac[t] # NoMAC =>
                Waits("switch", [target |-> t, mac |-> cfg.mac[t]])
            /\ Switch(p, t)
            /\ call' = [call EXCEPT ![c].proc = p]

\* What ssh and then kbd (execx.ExitCode) make of the end of the process: its
\* exit status, or 255 if a signal ended it.
Answer(c) == IF exit[call[c].proc] = Killed THEN 255 ELSE exit[call[c].proc]

\* The process on the Pi has ended, and kbd ends with its answer.
SshReturns(c) ==
    /\ call[c] # NoCall /\ call[c].proc # NoProc
    /\ pc[call[c].proc] = "idle"
    /\ call' = [call EXCEPT ![c] = NoCall]
    /\ UNCHANGED vars

\* No connection, a lost one, or a user who interrupts kbd: it ends with 255
\* and what it started goes on.
SshFails(c) ==
    /\ Lossy
    /\ call[c] # NoCall
    /\ call' = [call EXCEPT ![c] = NoCall]
    /\ UNCHANGED vars

\* kbd has no "disconnect": it is given on the Pi.  "kbd status" is a Status
\* like any other.
OnThePi(p) ==
    /\ Free(p)
    /\ \/ Waits("disconnect", NoEntry) /\ Disconnect(p)
       \/ Status(p)

Surroundings ==
    \/ \E m \in MACs : LinkLost(m) \/ PeerConnects(m)
    \/ Reboot \/ EditConfig

RemoteNext ==
    \/ \E c \in Callers :
        \/ \E t \in Targets : KbdSwitch(c, t)
        \/ SshRuns(c) \/ SshReturns(c) \/ SshFails(c)
    \/ /\ \/ \E p \in Procs : OnThePi(p) \/ Step(p) \/ Crash(p)
          \/ Surroundings
       /\ UNCHANGED call

RemoteSpec == RemoteInit /\ [][RemoteNext]_remoteVars

----------------------------------------------------------------------------

\* A kbd that ends with 0 has what it asked for in the record, or the record
\* is gone altogether: the orphan of an earlier call has not put another
\* target there behind its back.  Checked for one caller; with more of them
\* the next caller may already be at work.
AnswersTruly ==
    [][\A c \in Callers :
        SshReturns(c) /\ Answer(c) = 0 =>
            \/ RecordInMaking = NoEntry
            \/ RecordInMaking.target = call[c].target]_remoteVars

----------------------------------------------------------------------------

\* A started process runs on.  Nobody is made to ask for anything, no
\* connection and no command to succeed.
RetryFairness == \A p \in Procs : WF_remoteVars(Step(p) /\ UNCHANGED call)

RetrySpec == RemoteSpec /\ RetryFairness

============================================================================
