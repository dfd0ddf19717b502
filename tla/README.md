# A TLA+ model of RpiKeyboardSwitcher

RpiKeyboardSwitcher makes a Raspberry Pi a Bluetooth keyboard that is switched
between several hosts. This directory holds a model of it in TLA+, the TLC
configurations that check the model on small instances, and proofs of its main
properties for every instance. Every definition is translated from the Go
source; `PROJECT.json` gives the lines it stands for, in `map`.

## The system

| Part | Code | State | Operations |
| --- | --- | --- | --- |
| `kbd-rpi` | `internal/rpiapp/app.go` | none of its own: one short-lived process for each command | `switch`, `disconnect`, `status`, `list`, completion |
| state file | `internal/state/state.go` | `/run/kbd-switch/state.json`: the target that was last switched to | `Load`, `Save`, `Remove` |
| configuration | `internal/config/config.go` | `config.yaml`: targets, `disconnect_others`, settings of the keyboard | `LoadRPI`, `SaveRPI`, `LoadLocal`, validation |
| `kbd-hid` | `internal/hidapp/app.go`, `cmd/kbd-hid`, `rpi/systemd` | registrations with BlueZ, goroutines, the deferred calls | `daemon`, `inspect`, `cachePeer` |
| GATT application | `internal/bluez/hid.go` | mutex, notifying flags, protocol mode, the channel `subscribed` | `StartNotify`, `StopNotify`, `WriteValue`, `ReadValue`, `SendReports` |
| reports | `internal/hidreport/report.go` | none | `ReportsForText` |
| agent, properties | `internal/bluez/agent.go`, `properties.go` | none | constant answers, read-only views |
| `kbd` | `internal/localapp/app.go`, `execx/runner.go` | none: a process on a PC that waits for its ssh | `switch`, a target by itself, `status`, `list` |

How they interact. `kbd` starts `kbd-rpi` over ssh and answers with its exit
status; if the connection is lost, `kbd-rpi` goes on by itself. `kbd-rpi` reads
`config.yaml` and the state file, runs `bluetoothctl` and rewrites the state
file. `kbd-hid` registers with BlueZ over D-Bus; BlueZ calls its GATT
application, each call on a goroutine of its own; after the first subscription
a worker goroutine asks BlueZ which device is connected, adds it to
`config.yaml` and types the test text. `kbd-hid` and a user's editor write the
file that `kbd-rpi` reads. systemd restarts `kbd-hid` when it fails.

What is hard, and what must be right:

- **Switching.** Processes share two files and the radio without a lock; every
  command can fail half way, and the state file is truncated in place before it
  is written. The record must name the linked host, the previous host must be
  left before another is taken, a file that cannot be read must be a passing
  state unless somebody died, and no failure may stop later switches for good.
- **Over ssh.** A lost connection leaves a command at work that its user takes
  for failed; the retry runs beside it. Switching must stand that, and an
  answer of success must be true.
- **The daemon.** Thirteen fallible registration steps with four deferred
  calls, a worker that races with the hosts, with the stop signal and with the
  end of the process. It must always end when told to, never leave BlueZ with
  half a keyboard, type the text in order, and turn the worker's errors into a
  restart. A key may be left down only where the code cannot help it, when the
  batch is cut short.
- **Learning.** Load, change and rename of `config.yaml` against editors, other
  daemons and deaths. The file must stay loadable, with one key for a host, and
  learning may not overwrite a target. A key is made of a name in any script; it
  must pass the validation, and be one the user can type.
- **Reports.** What is accepted must be what a host shows.

`PROJECT.json` lists these hazards one by one with their lines and the
properties that cover them; a hazard without a property says why.

## Modules

| Module | Models | Theorems |
| --- | --- | --- |
| `StateFile` | the state file as directory entry, inodes and descriptors | |
| `Switcher` | `kbd-rpi`: processes, links, faults; EXTENDS `StateFile` | in `SwitcherProofs`, `OneHostProofs` |
| `OneHost` | abstract: a keyboard linked to one host at a time, and its record | |
| `RemoteSwitch` | `kbd`, ssh and what becomes of `kbd-rpi` without it; EXTENDS `Switcher` | in `RemoteSwitchProofs` |
| `HidApplication` | the GATT application and `SendReports` | |
| `HidDaemon` | the life of `kbd-hid`, BlueZ, hosts, systemd; EXTENDS `HidApplication` | in `HidDaemonProofs` |
| `TargetStore` | `cachePeer` and `SaveRPI` on a shared `config.yaml` | in `TargetStoreProofs` |
| `TargetMap` | abstract: a map from keys to hosts that only grows | |
| `TargetNames` | the keys made of names, and their way from `kbd`'s arguments to `kbd-rpi`; EXTENDS `TargetStore` | in `TargetNamesProofs` |
| `HidReport` | the key table and `ReportsForText` | in `HidReportProofs` |
| `FoldingProofs` | no code: folds over sequences, and induction, for the proofs about loops | lemmas only |
| `MCSwitcher`, `MCRemoteSwitch`, `MCHidDaemon`, `MCTargetStore`, `MCHidReport` | values of the constants for TLC | |

Each module holds, next to some definitions, a mutated form of it ("Mutant of
..."), which no specification uses: with it in place of the original, the
property named for it in `PROJECT.json` fails.

### Switcher and StateFile

A process has a place `pc` and the locals of the Go functions: `want` (the
target it looked up and validated), `others` (`disconnect_others` as loaded),
`cur` (the entry it read). `switchTarget` (app.go:140) is `Switch` (lines
141-151), `OpenState` and `DecodeState` (the two halves of `state.Load`),
`DropSucceeds` (160-164, with the sleep), `ConnectSucceeds` (167),
`CreateState` and `EncodeState` (the two halves of `state.Save`), and each
early return is an `Exit` with its status. `disconnect` and `status` share the
loading and branch in `Proceed`. The steps are cut where another process can
see or change something: opening, reading, truncating, writing, removing, and
each `bluetoothctl` run.

A file that is open keeps its inode when the name is removed, so a save may
write to a file nobody finds; `Broken` stands for all contents that do not
decode. A reader of a file in the midst of a write reads what is there, so
`DecodeState` looks at the inode, not at the name.

The surroundings (`Crash`, `Reboot`, `LinkLost`, `PeerConnects`, `EditConfig`,
and the failing branches) happen only if `Faults` names them, so that a run or
a theorem says exactly which faults it allows. A `bluetoothctl` whose process
failed is taken to have had no effect, and one that succeeded to have had its
effect; its parent may be killed while it runs, with either outcome.

### RemoteSwitch

`call` is the `kbd` of each PC: the target it was given and, once ssh has
started it, the process on the Pi. `KbdSwitch` is localapp's `Run` up to the
ssh; `SshRuns` starts a `Switch` of `Switcher`; `SshReturns` is the end of ssh
after the process, with `Answer` as `execx.ExitCode` makes it. `SshFails` is a
connection that is refused or lost, or a `kbd` that is interrupted, at any time
before: the process, if there is one, stays at work. `disconnect` is no command
of `kbd` and is given on the Pi.

There is no lock, so what holds depends on the users. With `Patient`, nobody
starts a switch or a disconnect while one is at work on the Pi, except the very
same one: the retry of a user whose connection was lost. Without it anything
may run beside anything. `status` may run at any time in both.

The very same command has the same address, too (`Waits`). Who edits the
address of a target while a switch to it may still be at work, and retries at
once, gives another command: both processes may have read the old entry, and two
hosts are linked, as in `switch_race`. A patient user is taken to wait then; the
hazard is listed without a property.

### HidApplication and HidDaemon

`Calls` counts the method calls of BlueZ that are not served yet; they are
served in any order, as godbus serves each on its own goroutine. `value` is the
value of the two input characteristics, set before each signal and left there
by one that fails; `Polled` is what `ReadValue` gives to a host that does not
subscribe. `sent` is what this
process has emitted and goes with it; `down`, the paths whose last signal was a
press, is what hosts have been told and does not. A handler
holds `app.mu` throughout and is one action; `SendReports` holds it over the
whole batch, so `mu` is a variable and every report is a step. Handlers of
other characteristics change only bytes that BlueZ reads back.

`Steps` is the sequence of registrations in `Run` (hid.go:283-345); three
groups of them (Auth and Hello, the three Exports, the three SetProperty
calls) are one step each, since nothing is deferred and nobody can look between
them. `undo` is the stack of deferred calls. `reg` is what the bus and BlueZ
know: closing the connection makes them forget all of it. The worker goroutine
(hid.go:349-370) is `WorkerWaits`, `WorkerFindsPeer`, `WorkerLearns`,
`WorkerLocks`, `WorkerSends`, `WorkerCannotSend`, `WorkerUnlocks`; it runs on
while the main goroutine unwinds and is gone at `Exit`. `code` is 0 or 1;
exits with 2 count as 1, as they do for systemd.

BlueZ is modelled as the code uses it: it calls `StartNotify` for the first
subscriber of a path and `StopNotify` after the last.

### TargetStore

`Learn` is `cachePeer` up to the validation in `SaveRPI`; `WriteTemp` and
`Rename` are the rest of `SaveRPI`; `SaveFails` is any early return of it, with
the deferred removal of the temporary file. `KeyOf[n]` is the sequence of keys
that `uniqueTargetKey` tries for a name and `GoodKeys` are the keys that pass the
validation, about which nothing is assumed here; a host
is learned if one of them is free, as is always so in the code, whose suffixes
never end (`SomeTryIsFree` proves it), and in the runs. `Unreadable` stands for each file that `LoadRPI` refuses. A writer
that loads an unreadable file returns an error and changes nothing. Users are
taken to write valid files with one key for each host: the validation accepts
two, and `OneKeyPerHost` is about what the daemons make of a coherent file.

### TargetNames and TargetMap

`TargetNames` gives `KeyOf` and `GoodKeys` their values: `TargetKey` is
`targetKey`, `ValidName` is `namePattern`, a character is its code point. Then
it follows a key that the user types: `Sent` is what `kbd` makes of its
arguments, `Line` and `Words` are ssh and the shell on the Pi, `SwitchRequest`
is what `kbd-rpi` reads. What happens to characters beyond ASCII matters only
where they have a lower case in ASCII (the Kelvin sign does) or not. The loops of
`targetKey`, of ssh and of the shell are folds of `Dashes`, `Joins` and `Splits`,
which are functions, not operators, so that lemmas about folds can be cited for
each of them. `SpellingAssumption` says that `TargetStore` is used with these
keys: `KeyOf` is `KeyTried`, and `GoodKeys` and `BlankNames` are what
`ValidName` and `IsBlank` say. It says nothing of what hosts are called or what
keys a user chooses.

`TargetMap` says what learning is for: a host that is not known gets a key that
is not in use, and nothing else ever changes. `TargetStore` implements it when
one daemon is alone with the file.

### HidReport

A report is its modifier and its first key code; the other six bytes are never
set. The host that reads the reports (`Reads`) types a character when a key
goes down that was not down before, by the US layout of the USB HID usage
tables, which is written down apart from the table of `keyForRune`.
`TextIsTyped` is about each part of the reports that a host may have read, since
`SendReports` may fail between any two of them.

## Runs

All bounds are values of constants; the only bounds inside a module are
`MaxPending` in `HidDaemon` and, if it is finite, `Tries` in `TargetStore`.
`Procs`, `Inodes` and `Callers` bound what is there at one time.

| Run | Instance | States | Question |
| --- | --- | --- | --- |
| `switch_serial` | 1 patient user over ssh that may fail, 2 processes, 2 targets, 2 hosts, 3 configs (one moved, one invalid); failing commands, lost links, reboots, edits | 387 000 | does the file name the linked host, do the commands implement `OneHost`, does a retry leave alone what another process has connected, and is an answer of success true? |
| `switch_concurrent` | 3 processes, 3 inodes; failing commands | 609 000 | is a file that cannot be decoded always about to be written? |
| `switch_crash` | 2 processes, 4 configs, `disconnect_others` on or off; every fault | 611 000 | what tears the file, what does a torn file stop, and which deaths leave a link that no record names? |
| `switch_retry` | the same user, 2 processes, 3 configs; failing commands, lost links, hosts that connect by themselves, edits; fairness | 109 000 | what keeps a target that is asked for again and again from being served? |
| `switch_race` | 1 user who does not wait, a connection that may be lost, no other faults | violation | is the previous host disconnected when two switches run at once? |
| `hid_text` | 1 host, a text of two keys, writes of 0 and 1 to Protocol Mode; failing signals and Unregister calls, stop, kill | 4.8 million | is the text typed in order, what leaves a key down, and is one ever read by a poll? |
| `hid_lifecycle` | 2 hosts, no text; failing D-Bus calls and saves, stop | 810 000 | are registrations nested, undone before the connection closes, and is nothing learned before a subscription? |
| `hid_liveness` | 1 host, one key; failing D-Bus calls, signals and saves, stop; fairness | 187 000 | does the daemon stop, restart, and learn a host that stays? |
| `hid_second_host` | 2 hosts, no faults; fairness | violation | is every host that subscribes learned? |
| `targets_alone` | 1 daemon, 7 names with 3 keys each, 3 hosts; failing saves, deaths | 5 200 | does learning implement `TargetMap`, is no named host refused, and can every key be typed? |
| `targets_shared` | 2 daemons, 2 names with 2 keys each, 2 hosts, an editor that replaces and one that rewrites; all faults | 308 000 | does the file stay coherent and loadable? |
| `report_text` | 1 230 texts | 5 200 | does a host show the text, and the start of it when the sending is cut off? |

Why these sizes: two hosts are needed for one to be left, two targets for one
to be edited, and three processes for a reader to hold an inode that a second
has truncated while a third creates the next; a fourth repeats one of these
parts, and the theorems below do without the bound. Two keys in a text make a
press and a release that lie on both sides of a change of subscription; two
hosts make "the connected device" ambiguous. One pending call of each kind
allows a StartNotify, a StopNotify and a write in any order. Over ssh, two
processes are the one that nobody waits for any more and its retry. Of the
seven names, two make the same key ("P" and "P!"), the plain key of another is
the second of theirs ("P 2"), one is a command of `kbd` ("List"), one is two
blanks of different scripts, and two are a single letter beyond ASCII.

`switch_concurrent` and `switch_crash` use the symmetry of processes and
inodes, which no definition tells apart; no liveness is checked with symmetry.
`report_text` ends when the text is converted, so it does not look for
deadlock.

### The two violations

`switch_race`: a user's connection is lost while his switch is at work, and
instead of the same target he asks for another. Both processes read the state
file, one connects and saves, the other connects: it had no entry to disconnect
when it looked, and two hosts are linked. README.md:142 of the repository promises that the
previous state entry is disconnected before another target is connected; there
is no lock that would make it so.

`hid_second_host`: the worker runs once in the life of the process, and it
learns the device that is connected when it looks, not the one that has
subscribed. A host that subscribes after that is never learned, while
README.md:169 says that a host is added once it subscribes. With one host
(`hid_liveness`) the property holds.

## Fairness

`RetrySpec` (`switch_retry`): weak fairness of each started process; the
kernel runs it. Nothing else is assumed: no user is made to ask, no connection
and no `bluetoothctl` to succeed, no process to be the only one. `EveryTargetServed`
carries its own premise, that a switch to the target is started again and
again, and its own exceptions: the connect of the target's host fails each time,
or the disconnect of the host that the record names does (`KeepsFailing`). The
second is a hazard of the code, which gives up at app.go:160 and keeps the
record: a recorded host that is gone for good blocks every other target. The run
shows that these two are all: without either exception TLC finds a behaviour in
which a target is not served, with both it finds none. Users are patient in this
run, and nobody is killed; if they are not, a switch may meet the file in the
midst of another one's save each time, and exit with 2.

`FairSpec` (`hid_liveness`, `hid_second_host`): weak fairness of the main
goroutine, of the worker, and of each pending call: the Go scheduler runs every
goroutine that can run, the mutex is handed on, and D-Bus calls return. That
`main` includes `Restart` is systemd's `Restart=on-failure`. No host and no
user is assumed to do anything.

## Proofs

TLAPS checks the theorems for every value of the constants that satisfies the
named assumptions (`StateFileAssumption`, `SwitcherAssumption`,
`RemoteAssumption`, `ReportsAssumption`, `DaemonAssumption`, `StoreAssumption`,
`SpellingAssumption`, `TextsAssumption`), each of which TLC
evaluates on every run of its module.

`SwitcherProofs`, any number of processes, targets, hosts and inodes:

- `TypeCorrect`: `TypeOK` is inductive. Its part `Coherent`, that a process has
  a file open exactly between an open and its close, is what the other proofs
  rest on. Every action is one process's `Act` or the surroundings; the lemma
  `Frame` says that the locals of the others do not change.
- `TornIsTransient`: without kills and failing file operations,
  `TornOnlyWhileSaving`. It must speak of every inode that is named or open,
  not only of the one at the path, to be inductive: a reader may hold an inode
  whose name another process has removed.
- `TornByDeath`, `TornStops`: action properties, with every fault. Only
  `CreateState` breaks contents that are named, and its process is at `encode`
  afterwards; a process that has not got past the decoding of a torn file can
  only open it or exit.

`OneHostProofs`, for any number of processes as long as the switches and
disconnects at work are `Alike`, the same command for the same target. All but
the first, `LinksForgotten` and `RetriesKeepLinks` have the premise `Undisturbed` besides:
`disconnect_others` is on, and there is no kill, no failing file operation and
no host that connects by itself.

- `OneProcessIsAlike`: a single process is alike to itself, whatever it does.
- `LinkFollowsStepsHolds`: the inductive invariant, which says for each place
  of a process which host may be linked. `LinksAreRecorded` by itself is not
  inductive: it says nothing of a process half way. With several processes the
  inode that one of them still reads matters too: the name may lead to the next.
- `LinksRecorded`, `PreviousDisconnected` and `SuccessRecorded` follow from it.
- `LinksForgotten`, with every fault: `LinkFollowsSteps` survives any death and
  any failure but those of a process past its connect (`ActKeepsLinks`), and any
  step of the surroundings but a host that connects by itself.
- `RetriesKeepLinks`, with every fault: a link goes only by a disconnect at
  work, by itself or in a reboot (`WhoseLinkGoes`), and the disconnect of a
  switch is of another host than its own (`DropsAnother`), so of another host
  than that of any switch beside it.
- `ImplementsOneHost`: `Switcher` implements `OneHost` with the entry that is
  in the file, or will be when the save under way ends, as the record. Each
  action maps to `Leave`, `Take`, `Note`, `Erase` or a stutter.

`RemoteSwitchProofs`, any number of PCs:

- `RunsSwitcher`: whatever is called, answered and lost, the processes on the Pi
  behave as `Switcher` says, so all theorems about it hold here; `Calling` is
  the type of the calls.
- `PatientIsAlike`: with `Patient` users, all that is at work is alike.
- `PatientServesOneHost`: so links are recorded, `OneHost` is implemented and a
  success is in the file, however many connections are lost, with `Undisturbed`
  as the only other premise; `PatientRetriesKeepLinks` needs not even that.
- `AnswerIsTrue`: with one such user, a `kbd` that ends with 0 has its target in
  the record, or the record has been removed since. By `Answering`, between the
  end of a `kbd-rpi` and that of its ssh no switch to another target can be at
  work, and a `disconnect` on the Pi only removes the record; it needs to know of
  the exit status of the process that an ssh waits for.

`HidDaemonProofs`, any number of hosts, any text whose presses are each
followed by their release, and every fault except where one is named:

- `TypeCorrect`: besides the types, who holds the mutex and that the worker
  runs only after the registration.
- `TextIsInOrder` rests on the invariant `Batch`: what has been
  sent is the batch up to `next`, on the one path that notifies, or the
  sending has failed and the daemon is on its way to an exit with 1. That the
  path cannot change needs that the handlers wait for the mutex, so `TypeOK`
  has `mu = "sender" <=> worker = "send"`.
- `KeysLeftByCut`: a key comes to be left down only when a signal fails or the
  process ends in the midst of the batch. It rests on `DownFollows`, that the
  key of the notified path is down exactly if the last report was a press, so
  that a batch that ends by itself, with a release, leaves none.
- `NoKeyPolled`: outside a batch no characteristic holds a report with a key,
  so nobody reads a press that has no release. It needs `PutValues`, which says
  during a batch too what each characteristic holds.
- `RegistrationsNest` and `ClosesLast`, as long as BlueZ does not refuse an
  Unregister (`"undo" \notin Faults`; the code ignores that error): by
  `Stacked`, what is registered is what is on the stack of deferred calls, a
  prefix of the order of registration.
- `NoEarlyLearning`: the worker is past its wait only if the channel is closed.

`TargetStoreProofs`, any number of daemons, hosts, names and keys. The
tries may go on for ever, as in the code. `UniqueKeyIsFree` shows that what
`uniqueTargetKey` returns is a key that no target has.

- `OneKey`: with every fault and with lost updates. `OneKeyPerHost` needs that
  the configs that wait to be renamed are coherent too (`UniqueSaves`).
- `AlwaysReadable`, `NoFileLeft`: whatever daemons do, fail at and die of, only
  an editor's write makes the file unreadable for a while, and a temporary
  file stays only if its daemon died.
- `ImplementsTargetMap` and `TargetsKept`, for a daemon that is the only one to
  write the file (`Alone`): a config that waits to be renamed is that of the
  file with one target more (`SavesExtend`), so each `Rename` is a step of
  `TargetMap` (`Extends`).

`FoldingProofs` is about no code. The library's induction theorems take an
operator as a parameter, which the provers cannot instantiate, but its theorem
that the order of the numbers is well-founded takes a set: `LeastNumber`,
`Induction` and `StrongInduction` follow, each about a set of numbers. A fold
of the community modules is defined by a recursion over sets of positions, by a
`CHOOSE`; `FoldExists` shows that there is a function with that recursion, and
`FoldedByRun` that the fold of a curried step `step[state][item]` ends where its
run from item to item ends. `FoldedAppend` and `FoldedConcat` are what the
proofs below cite.

`HidReportProofs`, any texts:

- `TypeCorrect`, and `EveryPressReleased`, that the reports alternate between a
  press and the release. This is what `ReportsAssumption`, the premise of
  `HidDaemonProofs`, takes for granted.
- `TextTyped`: a host that reads the reports shows the text, and after the first
  m reports its first (m + 1) \div 2 characters. The invariant `TypedSoFar` says it of what the
  loop has come to; it needs that no key is down after a pair (`HostAt`), or
  the next press of the same key would not be noticed. `TableFitsLayout` compares
  the table with the layout, character by character. With `TextIsInOrder` of
  `HidDaemonProofs`, a host that has been subscribed throughout shows the start
  of the text, wherever the batch is cut off.

`TargetNamesProofs`, any names, in any script and of any length, and any keys:

- `KeyTriedIsHandy`: every key that is tried for a name is not empty, has only
  characters that the validation accepts, and does not start with a dash. The
  fold of `Dashes` stays within `Marks` (`DashedSpelled`), what is trimmed does
  not start with a dash, and suffixes of digits keep it so.
- `NamedSaved`: so the config with a new host passes the validation unless its
  name is blank.
- `LearnedNamed`, by `NamedTargetArrives` and `ShorthandArrives`: a valid name is
  a word without blanks, and two such words, joined and split again, are the two
  words (`TwoWordsArrive`).
- `SomeTryIsFree`: decimal numbers are different for different numbers
  (`DecimalInjective`), so no two tries for a name are the same key
  (`TriesDiffer`); with finitely many targets, one is free. This is why the
  guard of `Learn`, that a free try exists, leaves out nothing that the loop
  of `uniqueTargetKey` may do, and the loop ends.

Every invariant and every action property that a passing run checks is stated by
a theorem. Only model-checked are the liveness properties (`EveryTargetServed`,
`StuckKeyEndsDaemon`, `StopsWhenTold`, `ErrorRestarts`,
`EverySubscriberLearned`): fairness and ENABLED are beyond the prover.

## Not modelled

- The pairing agent and the D-Bus properties: constant answers and read-only
  views. Options, usage texts, `inspect`, completion scripts: no state.
- The choice of Alias, Name or address in `ConnectedPeer`: a host comes with the
  name that was chosen.
- YAML, JSON, log formats, and the values of `config.yaml` other than targets
  and `disconnect_others`. A target may be called "-x" by hand, which `kbd -x`
  takes for a flag; the second half of `LearnedCanBeNamed` is about keys that the
  daemon makes, which never start with a dash.
- The time of `reconnect_wait_sec`: the sleep is a point where others run.
- `bluetoothctl`'s own timeouts and outcomes that differ from its exit status.
- A crash of `bluetoothd` under a running daemon: nothing in the code notices.

`Switcher` and `TargetStore` are not composed. A command reads `config.yaml`
once, in one step; the daemon replaces the file by a rename, and all it does is
add targets (`KeepsTargetMap`). `EditConfig` puts any of the configs in the
place of any other between two commands or during one, which includes that.

## State of the project

Every part that keeps state is modelled, and each of its operations is an
action. Larger instances would repeat the cases of these; the theorems do
without the bounds. The hazards that are listed without a property are those
that the code has no answer to: a `bluetoothctl` whose result is not its exit
status, a `bluetoothd` that restarts, D-Bus calls that overtake each other (in
the model, but no document promises a subscriber later reports), the test text
that is sent once, an address that is edited between a command and its retry,
and an edit of `config.yaml` that a daemon overwrites.
