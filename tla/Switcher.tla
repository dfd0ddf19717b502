------------------------------ MODULE Switcher ------------------------------
(***************************************************************************)
(* kbd-rpi (internal/rpiapp/app.go): the commands "switch", "disconnect"   *)
(* and "status", each a short-lived process started over ssh.  Any number  *)
(* of them may run at once: there is no lock.  A process loads the config, *)
(* reads the state file, runs bluetoothctl and writes the state file, and  *)
(* every point where another process, a host or a failure can come between *)
(* is a separate step here.                                                *)
(***************************************************************************)
EXTENDS StateFile

CONSTANTS
    Configs,        \* versions of config.yaml the user may have in place
    InvalidConfig,  \* a config that LoadRPI refuses
    NoMAC,          \* the value of a target the config does not have
    NoEntry,        \* no state entry
    Faults          \* what may go wrong around the processes

\* "command"  a bluetoothctl run exits with an error
\* "io"       an operation on the state file fails
\* "crash"    a kbd-rpi process is killed
\* "reboot"   the machine restarts; the state file is on a tmpfs
\* "lost"     a host's link goes down by itself
\* "peer"     a host connects by itself
\* "edit"     config.yaml is replaced by another version
FaultKinds == {"command", "io", "crash", "reboot", "lost", "peer", "edit"}

Config == [mac : [Targets -> MACs \union {NoMAC}], others : BOOLEAN]

ASSUME SwitcherAssumption ==
    /\ Configs \subseteq Config \union {InvalidConfig}
    /\ NoMAC \notin MACs
    /\ NoEntry \notin Entry \union {Broken}
    /\ InvalidConfig \notin Config
    /\ Faults \subseteq FaultKinds

VARIABLES
    links,      \* the hosts that have a Bluetooth link to the keyboard
    cfg,        \* the config.yaml in place
    pc,         \* where each process is
    op,         \* the command it runs
    want,       \* the entry a switch is to leave in the state file
    others,     \* behavior.disconnect_others as the process loaded it
    cur,        \* the entry the process read and is to disconnect
    exit        \* the exit status of the slot's last process

procVars == <<pc, op, want, others, cur, exit>>
vars == <<path, content, fd, links, cfg, pc, op, want, others, cur, exit>>

PCs == {"idle", "open", "decode", "drop", "connect", "create", "encode",
        "remove"}
Ops == {"switch", "disconnect", "status"}
Killed == 3     \* no exit status: a signal ended the process
Exits == 0 .. Killed

\* A descriptor is held exactly between an open and its close, and a process
\* past the start of a switch or a disconnect has the entries it works with.
Coherent(p) ==
    /\ pc[p] \in {"decode", "encode"} <=> fd[p] # NoInode
    /\ pc[p] \in {"connect", "create", "encode"} => op[p] = "switch"
    /\ pc[p] # "idle" /\ op[p] = "switch" => want[p] \in Entry
    /\ pc[p] = "drop" => op[p] # "status" /\ cur[p] \in Entry
    /\ pc[p] = "remove" => op[p] = "disconnect"

TypeOK ==
    /\ FileTypeOK
    /\ links \subseteq MACs
    /\ cfg \in Configs
    /\ pc \in [Procs -> PCs]
    /\ op \in [Procs -> Ops]
    /\ want \in [Procs -> Entry \union {NoEntry}]
    /\ others \in [Procs -> BOOLEAN]
    /\ cur \in [Procs -> Entry \union {NoEntry}]
    /\ exit \in [Procs -> Exits]
    /\ \A p \in Procs : Coherent(p)

Init ==
    /\ FileInit
    /\ links = {}
    /\ cfg \in Configs
    /\ pc = [p \in Procs |-> "idle"]
    /\ op = [p \in Procs |-> "status"]
    /\ want = [p \in Procs |-> NoEntry]
    /\ others = [p \in Procs |-> TRUE]
    /\ cur = [p \in Procs |-> NoEntry]
    /\ exit = [p \in Procs |-> 0]

----------------------------------------------------------------------------
(* How a process moves and how it ends.                                    *)

Goto(p, l) ==
    /\ pc' = [pc EXCEPT ![p] = l]
    /\ UNCHANGED <<op, want, others, cur, exit>>

\* The process returns "code" and the slot is free again; its locals go.
Exit(p, code) ==
    /\ pc' = [pc EXCEPT ![p] = "idle"]
    /\ op' = [op EXCEPT ![p] = "status"]
    /\ want' = [want EXCEPT ![p] = NoEntry]
    /\ others' = [others EXCEPT ![p] = TRUE]
    /\ cur' = [cur EXCEPT ![p] = NoEntry]
    /\ exit' = [exit EXCEPT ![p] = code]

\* The process starts "command" and is about to read the state file.
Start(p, command, entry, disconnectOthers) ==
    /\ pc' = [pc EXCEPT ![p] = "open"]
    /\ op' = [op EXCEPT ![p] = command]
    /\ want' = [want EXCEPT ![p] = entry]
    /\ others' = [others EXCEPT ![p] = disconnectOthers]
    /\ exit' = [exit EXCEPT ![p] = 0]
    /\ UNCHANGED cur

----------------------------------------------------------------------------
(* The commands.                                                           *)

\* switch t: an invalid config or an unknown target ends it with 2.
Switch(p, t) ==
    /\ pc[p] = "idle"
    /\ IF cfg = InvalidConfig \/ cfg.mac[t] = NoMAC
       THEN Exit(p, 2)
       ELSE Start(p, "switch", [target |-> t, mac |-> cfg.mac[t]], cfg.others)
    /\ UNCHANGED <<path, content, fd, links, cfg>>

\* disconnect and status read no config.
Disconnect(p) ==
    /\ pc[p] = "idle"
    /\ Start(p, "disconnect", NoEntry, TRUE)
    /\ UNCHANGED <<path, content, fd, links, cfg>>

Status(p) ==
    /\ pc[p] = "idle"
    /\ Start(p, "status", NoEntry, TRUE)
    /\ UNCHANGED <<path, content, fd, links, cfg>>

\* Mutant of Proceed: a switch never disconnects the previous entry.
ProceedKeepsLink(p, e) ==
    IF op[p] = "disconnect" /\ e # NoEntry
    THEN /\ pc' = [pc EXCEPT ![p] = "drop"]
         /\ cur' = [cur EXCEPT ![p] = e]
         /\ UNCHANGED <<op, want, others, exit>>
    ELSE IF op[p] = "switch" THEN Goto(p, "connect") ELSE Exit(p, 0)

\* Mutant of Proceed: disconnect removes the entry and leaves the link.
ProceedForgetsFirst(p, e) ==
    IF op[p] = "switch" /\ e # NoEntry /\ others[p] /\ e.mac # want[p].mac
    THEN /\ pc' = [pc EXCEPT ![p] = "drop"]
         /\ cur' = [cur EXCEPT ![p] = e]
         /\ UNCHANGED <<op, want, others, exit>>
    ELSE CASE op[p] = "switch" -> Goto(p, "connect")
           [] op[p] = "disconnect" /\ e # NoEntry -> Goto(p, "remove")
           [] OTHER -> Exit(p, 0)

\* Mutant of Proceed: a switch disconnects the recorded host, its own or not.
ProceedDropsAny(p, e) ==
    IF e # NoEntry /\ (op[p] = "switch" => others[p]) /\ op[p] # "status"
    THEN /\ pc' = [pc EXCEPT ![p] = "drop"]
         /\ cur' = [cur EXCEPT ![p] = e]
         /\ UNCHANGED <<op, want, others, exit>>
    ELSE IF op[p] = "switch" THEN Goto(p, "connect") ELSE Exit(p, 0)

\* The process goes on with the entry it read, NoEntry if there was no file.
\* A switch disconnects another host first if it is told to; a disconnect
\* needs an entry; status only prints.
Proceed(p, e) ==
    IF \/ op[p] = "switch" /\ e # NoEntry /\ others[p] /\ e.mac # want[p].mac
       \/ op[p] = "disconnect" /\ e # NoEntry
    THEN /\ pc' = [pc EXCEPT ![p] = "drop"]
         /\ cur' = [cur EXCEPT ![p] = e]
         /\ UNCHANGED <<op, want, others, exit>>
    ELSE IF op[p] = "switch" THEN Goto(p, "connect") ELSE Exit(p, 0)

\* state.Load, first half: open the file.
OpenState(p) ==
    /\ pc[p] = "open"
    /\ \/ path = NoInode /\ Proceed(p, NoEntry) /\ UNCHANGED fileVars
       \/ OpenFile(p) /\ Goto(p, "decode")
       \/ "io" \in Faults /\ Exit(p, 2) /\ UNCHANGED fileVars
    /\ UNCHANGED <<links, cfg>>

\* Mutant of DecodeState: a file that cannot be decoded counts as absent.
DecodeStateTolerates(p) ==
    /\ pc[p] = "decode"
    /\ LET e == content[fd[p]] IN Proceed(p, IF e = Broken THEN NoEntry ELSE e)
    /\ CloseFile(p)
    /\ UNCHANGED <<links, cfg>>

\* state.Load, second half: read and decode what the inode holds by now.
DecodeState(p) ==
    /\ pc[p] = "decode"
    /\ LET e == content[fd[p]]
       IN  IF e = Broken THEN Exit(p, 2) ELSE Proceed(p, e)
    /\ CloseFile(p)
    /\ UNCHANGED <<links, cfg>>

\* bluetoothctl disconnect of the recorded host; a switch then sleeps for
\* reconnect_wait_sec before it connects.
DropSucceeds(p) ==
    /\ pc[p] = "drop"
    /\ links' = links \ {cur[p].mac}
    /\ Goto(p, IF op[p] = "switch" THEN "connect" ELSE "remove")
    /\ UNCHANGED <<path, content, fd, cfg>>

\* Mutant of ConnectSucceeds: only a first entry is saved.
ConnectSavesOnce(p) ==
    /\ pc[p] = "connect"
    /\ links' = links \union {want[p].mac}
    /\ IF path = NoInode THEN Goto(p, "create") ELSE Exit(p, 0)
    /\ UNCHANGED <<path, content, fd, cfg>>

\* bluetoothctl connect of the target's host.
ConnectSucceeds(p) ==
    /\ pc[p] = "connect"
    /\ links' = links \union {want[p].mac}
    /\ Goto(p, "create")
    /\ UNCHANGED <<path, content, fd, cfg>>

\* Mutant of CommandFails: a switch goes on after a failed disconnect.
CommandFailsIgnored(p) ==
    /\ pc[p] \in {"drop", "connect"}
    /\ "command" \in Faults
    /\ IF pc[p] = "drop" /\ op[p] = "switch" THEN Goto(p, "connect") ELSE Exit(p, 1)
    /\ UNCHANGED <<path, content, fd, links, cfg>>

\* Mutant of CommandFails: the error is not noticed in the exit status.
CommandFailsUnnoticed(p) ==
    /\ pc[p] \in {"drop", "connect"}
    /\ "command" \in Faults
    /\ Exit(p, 0)
    /\ UNCHANGED <<path, content, fd, links, cfg>>

\* Either command fails: the process gives up with 1.
CommandFails(p) ==
    /\ pc[p] \in {"drop", "connect"}
    /\ "command" \in Faults
    /\ Exit(p, 1)
    /\ UNCHANGED <<path, content, fd, links, cfg>>

\* Mutant of CreateState: the error of the save is not returned.
CreateStateFailsUnnoticed(p) ==
    /\ pc[p] = "create"
    /\ \/ CreateFile(p) /\ Goto(p, "encode")
       \/ "io" \in Faults /\ Exit(p, 0) /\ UNCHANGED fileVars
    /\ UNCHANGED <<links, cfg>>

\* state.Save, first half: make the directory, create or truncate the file.
CreateState(p) ==
    /\ pc[p] = "create"
    /\ \/ CreateFile(p) /\ Goto(p, "encode")
       \/ "io" \in Faults /\ Exit(p, 1) /\ UNCHANGED fileVars
    /\ UNCHANGED <<links, cfg>>

\* state.Save, second half: write the document and close.
EncodeState(p) ==
    /\ pc[p] = "encode"
    /\ \/ WriteEntry(p, want[p]) /\ Exit(p, 0)
       \/ "io" \in Faults /\ WriteFails(p, want[p]) /\ Exit(p, 1)
    /\ UNCHANGED <<links, cfg>>

\* state.Remove at the end of a disconnect.
RemoveState(p) ==
    /\ pc[p] = "remove"
    /\ \/ RemoveName /\ Exit(p, 0)
       \/ "io" \in Faults /\ Exit(p, 1) /\ UNCHANGED fileVars
    /\ UNCHANGED <<links, cfg>>

----------------------------------------------------------------------------
(* The surroundings.                                                       *)

\* A signal kills the process.  The bluetoothctl it started is not killed
\* with it, and may have its effect all the same.
Crash(p) ==
    /\ "crash" \in Faults
    /\ pc[p] # "idle"
    /\ \/ UNCHANGED links
       \/ pc[p] = "drop" /\ links' = links \ {cur[p].mac}
       \/ pc[p] = "connect" /\ links' = links \union {want[p].mac}
    /\ Exit(p, Killed)
    /\ CloseFile(p)
    /\ UNCHANGED cfg

Reboot ==
    /\ "reboot" \in Faults
    /\ path' = NoInode
    /\ fd' = [p \in Procs |-> NoInode]
    /\ links' = {}
    /\ pc' = [p \in Procs |-> "idle"]
    /\ op' = [p \in Procs |-> "status"]
    /\ want' = [p \in Procs |-> NoEntry]
    /\ others' = [p \in Procs |-> TRUE]
    /\ cur' = [p \in Procs |-> NoEntry]
    /\ exit' = [p \in Procs |-> IF pc[p] = "idle" THEN exit[p] ELSE Killed]
    /\ UNCHANGED <<content, cfg>>

LinkLost(m) ==
    /\ "lost" \in Faults
    /\ m \in links
    /\ links' = links \ {m}
    /\ UNCHANGED <<path, content, fd, cfg, procVars>>

PeerConnects(m) ==
    /\ "peer" \in Faults
    /\ links' = links \union {m}
    /\ UNCHANGED <<path, content, fd, cfg, procVars>>

EditConfig ==
    /\ "edit" \in Faults
    /\ cfg' \in Configs
    /\ UNCHANGED <<path, content, fd, links, procVars>>

----------------------------------------------------------------------------

\* A started process: what the machine does for it.
Step(p) ==
    \/ OpenState(p) \/ DecodeState(p)
    \/ DropSucceeds(p) \/ ConnectSucceeds(p) \/ CommandFails(p)
    \/ CreateState(p) \/ EncodeState(p) \/ RemoveState(p)

Next ==
    \/ \E p \in Procs :
        \/ \E t \in Targets : Switch(p, t)
        \/ Disconnect(p) \/ Status(p)
        \/ Step(p) \/ Crash(p)
    \/ \E m \in MACs : LinkLost(m) \/ PeerConnects(m)
    \/ Reboot \/ EditConfig

Spec == Init /\ [][Next]_vars

----------------------------------------------------------------------------
(* Commands that get along: one at a time, or the same one several times.  *)

\* The processes that run a switch or a disconnect.
Busy == {p \in Procs : pc[p] # "idle" /\ op[p] # "status"}

\* The commands that run together are the same: a retry of a switch whose
\* first process is still at work, say.  One process is always alike.
Alike == \A p, q \in Busy : op[p] = op[q] /\ want[p] = want[q]

\* At rest the state file names the host that is linked, so that the next
\* switch disconnects it and "status" tells the truth: a switch that gives
\* up half way (app.go:160, 167) has left no link that nobody remembers.
LinksAreRecorded == Busy = {} => links \subseteq RecordedMACs

\* The processes past their connect, which are to save the entry.
Saving == {p \in Procs : pc[p] \in {"create", "encode"}}

\* What a process at work can count on, wherever it is.
Finds(p) ==
    /\ op[p] = "switch" => others[p]
    /\ pc[p] \in {"decode", "encode"} =>
        fd[p] = path \/ (op[p] = "disconnect" /\ path = NoInode)
    /\ pc[p] = "drop" =>
        links \subseteq IF op[p] = "switch" THEN {cur[p].mac, want[p].mac} ELSE {cur[p].mac}
    /\ pc[p] \in {"connect", "create", "encode"} => links \subseteq {want[p].mac}
    /\ pc[p] = "remove" => links = {}

\* Why it holds, step by step (app.go:153-180): a linked host is recorded or
\* about to be; whoever connects has seen every other host dropped, whether
\* by itself or by another process at the same command.
LinkFollowsSteps ==
    /\ \A m, n \in links : m = n
    /\ links \subseteq RecordedMACs \union {want[p].mac : p \in Saving}
    /\ \A p \in Busy : Finds(p)

\* README.md:142: with disconnect_others a switch disconnects the previous
\* state entry before it connects another target.  So when it connects, the
\* entry in the file is its own host or one without a link.
DisconnectsPreviousEntry ==
    [][\A p \in Procs :
        pc[p] = "connect" /\ pc'[p] = "create" /\ others[p] =>
            RecordedMACs \intersect links \subseteq {want[p].mac}]_vars

\* The entry that the file holds, or will hold when the save under way ends.
RecordInMaking ==
    IF path = NoInode THEN NoEntry
    ELSE IF \E p \in Procs : pc[p] = "encode" /\ fd[p] = path
         THEN want[CHOOSE p \in Procs : pc[p] = "encode" /\ fd[p] = path]
         ELSE content[path]

\* A switch that reports success has left its entry in the state file, or
\* another process is about to write the same one: no entry went to a file
\* that has lost its name (state.go:46, 56, 66).
SuccessIsRecorded ==
    [][\A p \in Procs :
        op[p] = "switch" /\ pc[p] # "idle" /\ pc'[p] = "idle" /\ exit'[p] = 0 =>
            RecordInMaking' = want[p] /\ links' \subseteq {want[p].mac}]_vars

\* The commands keep what OneHost promises: no host is taken before the
\* other is left, and the record follows the link.
Ledger == INSTANCE OneHost WITH
    linked <- links, record <- RecordInMaking, NoRecord <- NoEntry

ServesOneHost == Ledger!Spec

\* However connections are lost and processes are killed, the link to the host
\* that a switch at work is to leave linked goes only by itself or in a
\* reboot: no process, and so no retry, takes down what another one has just
\* connected (app.go:159).
RetryKeepsLink ==
    [][\A q \in Busy :
        op[q] = "switch" /\ want[q].mac \in links \ links' =>
            Reboot \/ LinkLost(want[q].mac)]_vars

\* A switch to t that runs, and how it gets from one place to another.
Wants(p, t) == pc[p] # "idle" /\ op[p] = "switch" /\ want[p].target = t
Moves(p, t, from, to) == Wants(p, t) /\ pc[p] = from /\ pc'[p] = to

\* From some time on, the bluetoothctl that switches to t run at "place" fails
\* each time, and it is run again and again.
KeepsFailing(t, place) ==
    /\ []<><<\E p \in Procs : Moves(p, t, place, "idle") /\ exit'[p] = 1>>_vars
    /\ <>[][\A p \in Procs :
                Wants(p, t) /\ pc[p] = place /\ pc'[p] # place =>
                    pc'[p] = "idle" /\ exit'[p] = 1]_vars

\* A target to which kbd-rpi is asked to switch again and again is recorded
\* again and again, whatever else it is asked and whatever earlier commands
\* have left, unless one of two things fails each time: the connect of the
\* target's host, or the disconnect of the host that the record names.  The
\* code gives up in either case (app.go:160, 167), and the second needs no
\* fault of the target's: a recorded host that cannot be disconnected, say
\* because it is gone, keeps every other target from being served.  This is for
\* patient users, processes that are not killed and saves that do not fail.
EveryTargetServed ==
    \A t \in Targets :
        []<><<\E p \in Procs : pc[p] = "idle" /\ Wants(p, t)'>>_vars =>
            \/ []<>(\E e \in Recorded : e.target = t)
            \/ KeepsFailing(t, "drop")
            \/ KeepsFailing(t, "connect")

----------------------------------------------------------------------------
(* Any number of processes.                                                *)

\* os.Create empties the file that others read (state.go:46).  As long as no
\* process dies and no write fails, a file that cannot be decoded - the one
\* at the path or one a process still has open - is about to be written by a
\* process that has it open, so that the error a reader meets is transient.
TornOnlyWhileSaving ==
    \A i \in Inodes :
        (i = path \/ \E p \in Procs : fd[p] = i) /\ content[i] = Broken =>
            \E q \in Procs : pc[q] = "encode" /\ fd[q] = i

\* A file that cannot be decoded and that nobody is about to write.
Torn ==
    /\ path # NoInode
    /\ content[path] = Broken
    /\ \A q \in Procs : ~(pc[q] = "encode" /\ fd[q] = path)

\* A process that has truncated the file ends without having written it.
DiesSaving(p) == pc[p] = "encode" /\ pc'[p] = "idle" /\ exit'[p] \in {1, Killed}

\* With every fault there is: the file is torn only at the moment when a
\* process dies, or its write fails, between the truncation and the write.
TornOnlyByDeath == [][~Torn /\ Torn' => \E p \in Procs : DiesSaving(p)]_vars

\* The file is torn and no process is past the decoding of it.
Wedged ==
    /\ Torn
    /\ \A p \in Procs :
        \/ pc[p] \in {"idle", "open"}
        \/ pc[p] = "decode" /\ fd[p] = path

\* A torn file stops every command (app_test.go:239 wants exit 2 and no
\* bluetoothctl): none gets past the decoding, so none runs a command or
\* repairs the file, until a reboot takes file and links away.
TornFileStopsEveryCommand ==
    [][Wedged => Wedged' \/ (path' = NoInode /\ links' = {})]_vars

\* Every switch at work is to disconnect the previous host.
Excluding == \A p \in Busy : op[p] = "switch" => others[p]

\* A process ends between the connect, which may have had its effect, and the
\* end of the save, and says so by its exit status.
DiesBeforeSaved(p) ==
    /\ pc'[p] = "idle"
    /\ \/ pc[p] \in {"create", "encode"} /\ exit'[p] \in {1, Killed}
       \/ pc[p] = "connect" /\ exit'[p] = Killed

\* With every fault there is, as long as the commands are alike: a link gets
\* lost from the books only at the moment when a process is killed, or fails
\* and exits with 1, after its connect (app.go:167-178), or when a host
\* connects by itself.  A death or a failure anywhere else costs nothing.
LinksForgottenOnlyByDeath ==
    [][LinkFollowsSteps /\ Alike /\ Excluding' /\ ~LinkFollowsSteps' =>
            \/ \E p \in Procs : DiesBeforeSaved(p)
            \/ \E m \in MACs : PeerConnects(m)]_vars

============================================================================
