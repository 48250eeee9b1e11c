# terraform-provider-zedamigo in TLA+

terraform-provider-zedamigo runs edge nodes (EVE-OS virtual machines) and what
they need on a Linux or macOS host, local or reached over SSH: disks, bridges,
TAPs, DHCP servers, TPM emulators, claims on CPUs and devices. Every resource
keeps a directory with the files and PIDs of what it started; Terraform's state
is a second record of the same facts, and the processes on the host are the
facts. Most of what is hard in this code is keeping the three in step while
processes die, connections drop and several controllers work on one host.

This directory holds the TLA+ modules, the TLC configurations and the TLAPS
proofs. `PROJECT.json` lists the components, the runs, which lines of the source
every definition stands for, the mutants each property is tried against, the
hazards and the theorems.

    tlc -workers 2 -config reservation.cfg MCHostReservation
    tlapm HostReservation_proofs.tla

## Inventory

The provider process serves Terraform's calls (Create, Read, Update, Delete,
ImportState) on many resources in parallel, one call per resource at a time.
Handlers reach the host through an executor: `exec/local.go` or `exec/ssh.go`.

| Component | State | Operations | Talks to | What is hard | What makes it correct |
|---|---|---|---|---|---|
| **Host reservation** (`host_reservation.bash`, `host_reservation_resource.go`) | slot files with the id of their owner, an flock, Terraform's lists | reserve, release, scan; Create, Read, Delete, Import | scripts of other controllers, through the files only | check-then-write over many files, lock that may not be had, kill in mid-commit, calls whose answer is lost | a slot has one owner; state lists exactly the owned slots; all or nothing |
| **Process monitor** (`process_monitor.bash`) | child PID, failure counter, delay, PID file, pending traps | start, wait, restart, forward signals, clean up | swtpm, the swtpm resource | traps run between commands; a signal cuts a wait short | one child; restarts; ends on TERM; delay in range |
| **swtpm resource** (`swtpm_resource.go`) | directory, two PID files, control socket | Create, Read (heals), Update, Delete | process monitor, swtpm, QEMU | kill order, orphans, time-outs, errors read as "not running" | one monitor and one swtpm; neither survives a destroy |
| **wait_until** (`wait_until_resource.go`) | attempts, deadline, log directories | probe, abandon, prune, give up | executor | an abandoned probe runs on while the next starts | ends by its deadline; never prunes a log still written |
| **SSH executor** (`exec/ssh.go`) | cached client, SFTP client, jump clients, `done` | dial, run, run detached, kill, is-running, close | every resource | stale connection, answers lost after the effect, Close against use | what was reported done was done; no leak of connections |
| **Local executor** (`exec/local.go`) | child processes | same | every resource | zombies, PID reuse | the process found is the one started |
| **QMP monitor** (`qmp/socket.go`) | connection, two unbuffered channels, listener count | connect, run, events, disconnect | QEMU | listener blocked on one channel while the other is waited for | an answer goes to its command; Disconnect ends |
| **Serial tailer** (`socket/tailer.go`) | file, sync gauge, closed flag | write line, sync, close, serve | QEMU serial port | many writers, close in between | no write after close; bounded unsynced lines |
| **TAP and TAP mover** (`tap_resource.go`, `main_tap_mover_linux_amd64.go`) | interface, namespace, status file, PID file | create, read, delete; wait, move, configure | netlink, Edge node | resource reads while the daemon moves | an existing TAP is not dropped from the state |
| **Daemon resources** (DHCP, DHCPv6, RADV, datastore, internet monitor, system usage) | process, PID file, directory | start, stop, heal, update, delete | executor, daemon programs | PID file written after the start is reported | at most one daemon; none after a destroy |
| **Internet monitor** (`main_internet_monitor_linux_amd64.go`) | cycle number, parallel pings, buffered samples | probe a destination twice, flush, end | ICMP, DNS, HTTPS, a file | parallel pings append to one slice; a signal in mid-cycle | the file tells of whole cycles, nothing reordered or left out |
| **Edge node, QEMU, vfkit** (`edge_node_resource.go`, `installed_edge_node_resource.go`, `hypervisor/*`) | VM, gvproxy, tailer, directory, PTY path | start in order, status, stop, install | QMP, swtpm, TAPs | failure between two starts; three processes that end with each other or do not | nothing runs after a destroy |
| **LAG, bridge, VLAN, netns** | kernel interfaces | create, read, update in place, delete | `ip` | an update that fails half way | the next plan sees what is really there |
| **Command runner** (`internal/cmd`) | log files, a search window | run, run until a pattern shows | the executors (run), nothing yet (search) | pattern over several reads of a growing file | found if and only if written |
| **HTTP state backend** (`misc/tf_state_backend_http`) | state files | GET, POST, DELETE, LOCK | Terraform | LOCK locks nothing, writes in place | an example server, out of scope |
| **Provider set-up** (`provider.go`, `provider_platform.go`, `ssh_config.go`) | executor, binary and firmware files on the target | Configure | executor | several provider processes on one target, killed at any point | ready only with what was checked |
| **Disk images, installer, ISO** | one file each | one tool run each | executor | a tool that fails half way; a file lost later | Read notices what it can |
| **Schemas and plans** (all resources) | configuration, plan, state | plan, create, update in place, replace | Terraform | attributes nobody gives a value; changes accepted without effect | what is saved was carried out |
| Error search, helpers, generated QMP bindings | none | pure functions | | little | see `PROJECT.json` |

The lines at which each of these can go wrong are the hazards of `PROJECT.json`.

## Plan

| # | Module | Question | Runs | Proved |
|---|---|---|---|---|
| 1 | `HostReservation`, with `CapacityLedger` as its abstract specification | do concurrent controllers ever share a slot? | five | types, three safety properties, the refinement; every script comes to its end |
| 2 | `ProcessMonitor` | one child, ends on TERM | three | types, one child, back-off; a TERM is not lost |
| 3 | `SwTPM`, over an instance of `ProcessMonitor` | does a destroy leave a monitor, does a heal start a second one? | `resources` | types; one monitor and one swtpm, unless a look for the monitor failed; the monitor that was seen dies first |
| 4a | `DaemonResource` for the six daemon resources | double start, leak, a daemon nobody finds | two | types and four safety properties |
| 4b | `TapResource`, resource and mover | a TAP dropped from the state, drift that is none | `resources` | types and its three safety properties; the mover winds down |
| 5 | `QmpSocket`, `SshExecutor`, `Tailer` | deadlock of listener and caller, leaked connections, lost lines | `resources` | replies are handed to who asked, no standstill; nothing leaks, one request for the agent; lines kept |
| 6 | `WaitUntil`, `NodeResource`, `LagResource`, `LinkResource` | deadline and pruning, leaks, updates that fail half way | `resources` | the deadline and the pruning; a node's types, and that it ends what it started; the LAG's types and both its properties; the links' types, no spurious replacement |
| 7 | `ImageResource`, `ProviderSetup`, `ResourcePlan`, `InternetMonitor` | what a failure leaves; what a plan loses; what is recorded | `resources`, one violation | types; what a saved file or a ready provider stands for, whose a broken file is; an apply is what was reported; what is recorded |

All of it is on disk. What could follow: the search of a growing file
(`cmd/match_file.go`, `monitor_file.go`, called by nothing in the provider
today) against a reference; the loops of the DHCP and RADV servers, which are
third-party code behind a configuration.

The proofs are in eight modules, each of which extends what it is about:

| Module | About |
|---|---|
| `HostReservation_proofs`, `ProcessMonitor_proofs`, `DaemonResource_proofs` | the module of that name |
| `Resources_proofs` | `SwTPM`, citing what `ProcessMonitor_proofs` proves of any monitor; `NodeResource`, `ImageResource`, `ProviderSetup`; and `MCResources`, all parts at once, citing the others |
| `NetworkResources_proofs` | `TapResource`, `LinkResource` |
| `Connections_proofs` | `SshExecutor`, `QmpSocket` |
| `Records_proofs` | `Tailer`, `WaitUntil`, `ResourcePlan` |
| `Lists_proofs` | `LagResource`, `InternetMonitor` |

Every theorem holds for all values of the constants that the assumptions of the
modules admit. The assumptions say what kind of thing a constant is (a finite
set, a number, a sequence), that markers such as `None` are none of the values
they stand beside, and that a bound is a number; they are evaluated on every
run. Of note: a LAG's own configuration names none of its foreign ports
(`LagAssumption`), the interfaces a bridge may have are finitely many
(`LinkAssumption`), the kinds of `ResourcePlan` are among the nineteen that have a
schema (`PlanKindsAssumption`), the values of a configuration are told from the
framework's null, default and unknown (`PlanAssumption`), and the internet
monitor runs for one cycle at least (`InetAssumption`).

## HostReservation

An operator creates empty slot files; a script of a reservation claims them by
writing its id into them. The module has one process place per running script
(`pc`, `sh`: where it is, its shell variables), the files (`marker`), the flock
(`lock`), and Terraform's view of each reservation (`tf`, `st`, and in `call`
the script a handler waits for).

| Source | Module |
|---|---|
| `acquire_lock`, three ways to do without the lock | `acquire_lock` |
| selection: lowest free numbers first, then the devices, exit 4, 5, 7, 8 | `SelectCpus`, `SelectGbs`, `SelectDev`, `select_free` |
| commit, one file at a time, and its rollback, exit 9 | `BeginCommit`, `CommitWrite`, `CommitFail`, `RollbackClear`, `RollbackDone`, `CommitDone` |
| `emit_owned`, shared by reserve and scan | `emit_owned`, `EmitDone` |
| `do_release`: grep, compare, truncate | `ReleaseGrep`, `ReleaseCheck`, `ReleaseTruncate`, `ReleaseDone` |
| SIGKILL, power loss | `Crash` |
| the handlers, their early returns and errors | `Create` ... `DeleteReturns` |
| the connection drops, the provider dies | `LoseCall` |

Each file access is one step, so every interleaving of two scripts is explored.
`grep` is one step although it reads file by file: what it returns is checked
again, file by file, and a file it misses could only be one marked after the
release began, which no reserve of the same id does while a handler of that id
waits. The order of devices, and of the files a rollback or a release visits, is
left open. A slot file never disappears and nobody edits one by hand. A marker
is the id in its first field; ids are not prefixes of each other in what
`marker_id` compares, so an id is a model value.

Three constants switch the environment: `UnlockedRelease` (a release may have to
go on without the lock), `LostCalls` (a caller may vanish), `WriteFaults`
(truncating may fail; writing a marker may always fail).

**Runs.** `reservation` (two reservations, two scripts, four slots, requests that
fit together, that exhaust the CPUs, and for a device nobody declared) checks all
the safety properties with releases that go on without the lock. Four slots of
three kinds suffice for every pair of requests to overlap in none, one or all of
its slots; two scripts are enough because without lost calls a reservation has
one script at a time and the properties are about pairs. `reservation_lost_calls`
adds a third script, so that two releases of one reservation and a reserve of the
other overlap, on two cores of which each wants one. `reservation_liveness` has a
core and a device everyone wants, and failing writes.

- `ClaimsStayFree`: what a reserve found free stays free until it writes it.
- `OnlyOwnMarkers`: a file is written only when empty and truncated only by a
  script of the id in it.
- `StateExact`: Terraform's lists are the markers, while nobody destroys or loses
  the reservation.
- `ReserveExact`, `NothingLeft`: a reserve claims what was asked for or nothing.
- `ExclusiveAllocation`: the refinement of `CapacityLedger` under the mapping
  `held[i] = st[i]` while the reservation is in the state.
- `CallsReturn`, `LockIsReleased`: under weak fairness of every script and of
  every waiting handler. A script is a sequence of shell commands and its only
  wait, for the lock, has a time-out, so it always can go on; nothing is assumed
  about Terraform starting anything, or about the lock being fair.

**What does not hold.** `reservation_race_safe_release`: the comment at
`host_reservation.bash:255` calls an unlocked release race-safe. With a lost
call there can be two releases of one id; one of them may be between the
comparison (261) and the truncation (262) while the other frees the slot and a
reserve of another id takes it. `reservation_failed_create`: the comment at
`host_reservation_resource.go:355` says no markers remain after an error; a
reserve that is killed or cut off in its commit leaves some.

**Proofs** (`HostReservation_proofs`), for every set of ids, scripts, slots and
requests:

- `Typing`, without conditions.
- `ReserveNotOvertaken` and `MarkersAreSafe`, assuming
  `~(UnlockedRelease /\ LostCalls)`, the condition the first violation shows to
  be needed. The inductive invariant `IInv` adds to the types: a script that a
  handler waits for is of that handler's id and mode (`Attached`); a reserve past
  its first step holds the lock (`Locked`); what a reserve has yet to write is
  free, what it has written is its own, and the target of a truncation is marked
  with the releasing id (`Marked`). The last is the one that needs the condition:
  it is another release of the same id that could free the target, and it is
  excluded either by the lock or by there being one script per id.
- `StateIsExact` and `Refinement`, assuming `~LostCalls`. `ResultInv` adds that a
  running script is the one its handler waits for (`Suited`) and that what a
  scan has found so far is what is marked among the files it has visited
  (`Scanned`), which is stable because nobody else writes or clears the markers
  of that id.
- `ReservedAsAsked` and `AllOrNothing`, assuming `~LostCalls`. `HeldInv` adds,
  per script, where the markers of its id can be (`Holds`): none before a commit,
  among the written ones during it, exactly the claim after it, among the files
  still to visit in a release; that an id never created has none (`Untouched`);
  and that a claim never exceeds the request and meets it before the first write
  (`Sized`, a cardinality argument over the finite set of slots). The assumption
  on requests says that no device is named like a core or a GB: their files live
  in directories of their own.
- `HolderAtWork` and `ScriptsComeToAnEnd`, without conditions: what `CallsReturn`
  and `LockIsReleased` rest on beside fairness. Whoever holds the lock is a script
  at work past its wait, so nobody waits in a circle or for a dead one; and every
  step that moves a script lowers a measure of what it has left (`StepsLeft`: the
  phases that may follow, each worth a round of all slots, and the files still to
  visit in this one), which no step of anybody else touches. That it is a natural
  number, and positive as long as the script runs, follows from the finiteness of
  the slots.

## ProcessMonitor

One record of functions per monitor: where it is in the script (`mon`), the
signals whose trap has yet to run (`pending`), `$!` and `CHILD_PID` (`job`),
`FAILURES`, `current_delay`; and the processes of the command with their parent.
Bash runs a trap between two commands: a signal during `sleep` waits for its
end, one during `wait` ends the wait. Before the traps are set a signal ends the
script. TERM, INT and QUIT behave alike and are `"TERM"`; HUP, USR1 and USR2 are
`"HUP"`. The monitored command boots, lives, may exit at any time and ends some
time after a TERM. The end of a delay is a step without duration.

**Runs.** `monitor`: two monitors and three children, TERM and SIGKILL at any
point, `OneChild`. `monitor_signals`: one monitor, room for three children (two
it lost sight of and one it knows), TERM and HUP, delay 1 to 3 and two failures to a
doubling, so that the cap is met by the second doubling; `MonitorTypeOK`,
`Backoff`, `Restarted`, `TermEnds`. Nobody launches a monitor while a child of a
former one is left: the bound that keeps these runs finite.

Fairness: a bash process runs on (weak fairness of its steps); all pending traps
run between two commands, so signals that keep coming do not stop the script
(strong fairness of its steps other than the trap of HUP); a command told to end
does so. Nothing makes anyone send a signal.

**What does not hold.** `monitor_hup`: a HUP during `wait` starts a second child
beside the first, which no later signal reaches. Nothing in the provider sends
HUP to the monitor; its usage text and its traps provide for it.

**Proofs** (`ProcessMonitor_proofs`), for any number of monitors and children and
any options: `MonitorTyping`; `OneChildAtATime`, assuming HUP is not sent, from
the invariant that `$!` names every child of a monitor and that a monitor at the
head of its loop or in its delay has none; `BackoffStaysInRange`, also with HUP.
`TermIsNotLost`, with any signals: a TERM stays pending until its trap runs, from
there a monitor only goes down and starts nothing, and what it waits for is a
child it told to end (`ChildTold`). It is what `TermEnds` rests on beside fairness.

## DaemonResource

Six resources keep a process of the provider's own binary alive in the same way:
start it detached, find it by the PID it writes itself into `<dir>/pid`, kill
it, and at every read start or stop it if it is not as desired. The module has
one such resource, of any of four kinds that differ in `Update`: `"dhcp"` (DHCP
and DHCPv6), `"radv"`, `"datastore"`, `"monitor"` (internet monitor and system
usage).

| Source | Module |
|---|---|
| the handlers up to their first call that changes the host | `Create`, `Read`, `ImportState`, `Update...`, `Delete` |
| `startX`, `RunDetached` | `Start`, `RunDetached` |
| `readX`, with the starts and stops it makes | `Look`, then `Start` or `CheckStop`, `Kill` |
| `stopX`; what Delete and Update make of its error | `CheckStop`, `Kill`, `StopError` |
| `State.Set` at the end of a handler | `Save` |
| an early return with an error, the end of the provider | `Abort`, `Fail` |
| `main`: the PID file, the required config file | `WritePid`, `Begun` |
| a daemon ends, its PID goes to another process, somebody removes the directory | `End`, `Reuse`, `LoseDir` |

An operation is the sequence of steps in `op`; everything of the environment may
happen between two of them. `Look` and `CheckStop` each read the PID file and
ask for the process in one step: what happens between the two is what may happen
before or after. What a failed read of the file or of the process list returns
is the constant `Faults`.

A Terraform state is two facts, the field `state` and whether the computed paths
`pid_file` and `config_file` are known. They are unknown in the plan of an
update unless `Update` copies them, which only the two monitors do; a value still
unknown after an update is reported by Terraform as an error and saved as null.
After an import they are null too.

Terraform's part, taken from its protocol and not from this code: one operation
at a time on a resource, a refresh before an update is planned (`last = "ok"`),
an update only if something differs.

**Runs.** `daemon`: all four kinds, three processes, lost answers of a start
(`Faults = {"start"}`). Three starts are one more than it takes to lose sight of
a daemon (one that is known, one beside it), so a third can follow on that. An
operation may be given up at any point and nothing need ever go on, so deadlock
is not checked. The properties, for a resource that keeps its paths
(`KeepsPidFile`):

- `PidFileTells`: a daemon that is up, in a directory that is there, is the one
  of the PID file; the code knows a daemon by nothing else.
- `OneDaemon`: there are never two.
- `MonitorStopped`: saved as stopped, none runs.
- `DeleteLeavesNone`: Delete only logs an error of stopping the daemon, and yet
  leaves none, if it finds the directory at all.

They rest on two assumptions. `Prompt`: the 250 ms that `RunDetached` waits are
enough for the daemon to write its PID, so nobody looks for it before; a slower
one is started twice. And looking for and killing a process do not fail on a
host that is there (`Faults \subseteq {"start"}`): a failed look counts as "not
running", and Delete goes on after a failed kill.

**What does not hold.** `daemon_stopped`: after an update, a datastore's server
runs without a PID file; set to "stopped" the resource says it is, and the server
runs on. The DHCP servers and RADV also lose their config file, without which
the program refuses to start: after an update to "running" each read starts one
that ends at once, and the state says "running". An imported resource of any kind
is in the same position. None of these can be repaired by a later read, for the
paths are computed only in Create.

**Proofs** (`DaemonResource_proofs`), for any number of processes and starts:
`DaemonTypes`, without conditions; `FileTells`, `NeverTwo`, `StoppedIsStopped`
and `DeletedIsGone` under the two assumptions. `KeptInv` adds to the properties
what each step may rely on: nothing lives when a start is about to happen, a
stopped state is about to be saved, or the directory is about to be removed; and
a kill is aimed at the only process that may live (`StepsRely`). Every such fact
is established by a look at the PID file (`LookTells`) and kept by the
environment, which starts nothing. `PathKept` says that such a resource always
passes its paths on, and `Fresh` that there is nothing before Create.

## The run `resources`

The remaining parts share nothing but the executor: no variable of one is read
by another, so a state of two of them is a pair, and a behaviour of both is an
interleaving that no property of either can tell apart. `MCResources` therefore
extends all thirteen modules and adds one variable, `part`: a behaviour picks a
part of `Parts` (here all of them; fewer make for a quick look at one) and is a
behaviour of it while the others keep their first state, which `Init` pins, where
there are several. The states of the run are the sum of the states of the parts,
287 thousand, not their product. Its fairness is the conjunction of the three that
are stated, and a part that is not picked has no step that fairness could ask for.
Operations may stop at any point and nothing need be asked for again, so the run
does not check for deadlock. What can wait for ever is asked for by the liveness
properties.

Two of its bounds are constraints, of parts that have no liveness property.
`NotMisled`: a swtpm is looked at until a handler acts on a look that failed; from
there on its properties promise nothing (see SwTPM). `FewEdits`: a configuration is
edited twice for the DHCP servers and the datastore, where what an Update reaches
depends on the one before it, and once for the other kinds of resource.

That the parts share nothing is proved, not only said: a behaviour of the run is a
behaviour of every part, with its fairness (`PartsTogether`). So what is proved of
a part carries over: `Typing` is the type invariant of all thirteen, and `AllParts`
all the other safety properties the run checks, each under the assumptions of its
own module and with the conditions it states there (`Resources_proofs`). The theorems
need neither constraint.

The bounds, part by part, and why they are enough, follow with each module.

## SwTPM

The handlers of `zedamigo_swtpm` over the steps of `ProcessMonitor`, which is
instantiated: `Launch` is the start of a monitor, `SendSignal` and `Sigkill` are
what `stopSwTPM` and fate do to it. `swOp` holds where a handler is, `swFile`
and `pidfile` what `swtpm.pid` and the monitor's PID file name. `SwLook`,
`SwGone`, `SwNotGone` are the two polls of `waitSwTPMGone`, each of which looks
at the monitor first; their deadlines may pass at any time, for the five seconds
of the wait are fewer than the monitor may sleep.

A look for a process fails when its PID file cannot be read or the host cannot be
asked for the process. The handlers drop both errors (`swtpm_resource.go:355`,
`:382-383`, `:423-424`) and take such a process for one that does not run. So a
look finds the monitor or does not (`SwMonitorSeen`), wherever the code looks:
before a start, in the two polls, before each kill; and the same goes for swtpm,
whose steps are enabled whether or not it runs. The history variable `swMisled` is
set when the last look before a start, or before the removal of the directory, was
such a miss: a second monitor is started, or a living one left behind.

Two monitors and two swtpm are one more of each than there should ever be.

- `SwOneMonitor`: until a handler has acted on a miss, never two monitors, and
  none after a destroy that succeeded, however many starts, stops, signals and
  other looks failed before. Every other failure of the code is met by giving up
  the destroy, not by going on.
- `SwKillsOrphans`: "the monitor must die first": where `stopSwTPM` saw the monitor
  before its kill, the swtpm that is killed has no monitor left to restart it.

The condition is needed: the comment at `swtpm_resource.go:291` says a stop that
fails aborts the Delete, but one that could not look for the monitor does not, and
Delete removes the directory of a monitor that runs; a Read that could not look
starts a second one. Both are behaviours of the module.

Both properties are proved (`Resources_proofs`) for any number of processes and any
options, with the same condition on `swMisled`, and so is `OneSwtpm`: never two swtpm
whose monitors live. What a monitor does is not proved again: its steps are those of
`ProcessMonitor_proofs` with TERM as the only signal, whose typing lemma is cited
step by step. The invariant `SwInv` adds that a monitor which got past its launch
is the one of the PID file, that a child's parent is a monitor that lives, and
what a handler may rely on (`HandlerKnows`): it never looks before the files have
settled, so where it rightly saw no monitor there is none, and none starts before
it is done. Without the last, a start whose answer was lost would be a second
monitor at the next Read.

Nothing is claimed of swtpm itself after a destroy. A monitor that is killed with
SIGKILL, or that gets its TERM between `"$@" &` and `CHILD_PID="$!"`, leaves a
booting swtpm; until that writes `swtpm.pid` neither `stopSwTPM` nor a Read sees
it (`swtpm_resource.go:374-375` takes "both are gone" from the two files).
Nor is it claimed that an error after the start leaves nothing: the resource is
then `"lost"`, with both running.

## TapResource

A TAP that belongs in a network namespace is made in the default one and moved
by a process of the provider's binary, the mover. `tapOp.todo` and `mover.todo`
are the steps the handler and the mover have left, one `ip` command or file
access each, taken from the code in order; each may fail (`TapFaults`), and the
TAP or the namespace may go between any two. A status file is truncated and then
written. An `ip` command the mover was killed in is carried out all the same
(`orphan`).

Of Delete's commands, two may fail without ending it: stopping the mover
(`StopTAPMover`), when its PID file cannot be read or the signal not be sent
(`tap_resource.go:610-620` drops both errors), and moving the TAP back. Delete
then goes on, and so does the mover; `tapOp.ignored` remembers it. A Read that
cannot read the status file, or the PID file, goes on as without it (`MoverUnread`).

Four configurations (nothing, all settings, the master alone, MTU and state),
with and without a namespace, and every fault.

- `TapMovedIsDone`: where the status says "moved", the TAP is in its namespace
  with all its settings, which the kernel flushed in the move; every Read rests
  on this.
- `TapNoEarlyDrift`: until then the state keeps what was asked for.
- `TapDeleteLeavesNone`: a Delete that succeeds leaves the TAP in neither
  namespace, wherever the mover was, but for two cases: it went on after one of
  the two errors above, or the mover was killed while its `ip` was on the way and
  that moves the TAP after Delete looked for it.
- `TapMoverEnds`: a mover ends, link event or not. Fairness: the mover runs, and
  its wait has a timer. Nothing is assumed of the link event, which may have
  come before the subscription.

The first three are proved (`NetworkResources_proofs`) for any configuration and
any set of faults. None of them is inductive. `TapInv` adds which steps each
operation may have left (`TapTodo`); that nothing of a mover is there before the
end of Create (`MoverAfterCreate`); that the mover's steps are in order, what it
has not set yet is still ahead of it, and once it said "moved" it is over
(`MoverOrder`); that the MTU, which is set before the move and survives it, is
there (`MtuFirst`); that the status which a Read or the state knows as "moved" is
never anything else again (`MovedStays`); and that Delete finds the mover stopped,
then the TAP in the default namespace, then none (`DeleteInOrder`), in which both
exceptions are needed, and nowhere else. Of the types, which are proved as well, the
mover's steps are only a sequence of known ones; that they are the end of the
sequence the code has is part of `MoverOrder`.
`MoverWindsDown` is the part of `TapMoverEnds` that needs no fairness: a TAP has
one mover in its life, started by Create, and every step that changes what it has
left to do lowers a measure of it (`MoverLeft`), a way out after an error included.

A Read between the move and the writing of the status looks in the default
namespace and drops the resource. It is in the model (`TapNotThere`), and no text
says otherwise.

## LagResource and LinkResource

A LAG (a bond) is changed in place, one `ip` command after the other
(`lagOp.todo`), and the state is written only after the last. A bond that is gone
ends a Read, and drops the resource, at any of the three commands that read it
back (`BondMissing`). Somebody deletes the bond; another resource attaches itself
to it.

Another LAG is updated in the same apply, in any order with this one, and both
halves of its update are there. It enslaves an interface (`OtherEnslaves`), which
takes it off the bond it has; and it releases those its refresh found and its
configuration no longer names (`OtherPlansRelease`, `OtherReleases`) with a
`nomaster` that does not look whose they are by then: an interface this LAG has
enslaved in the meantime is lost to it. The plan, or the refresh it rests on, may be
old by the time the release comes, and the release may fail and not come at all.
`otherLag.took` remembers which ports this bond lost that way. The configuration of
this LAG may be edited to name whatever the other one has, so two LAGs may exchange
ports in one apply, in either order. The one thing left out is a configuration in
which both LAGs name the same port at once: each apply would then take it from the
other, and neither could be held to anything.

Two configurations over two ports, one port with an address and both with another:
one port stays, the other goes back and forth between the two LAGs, and the address
is exchanged. The theorems take any configurations, so any exchange of ports.

- `LagApplied`: an update that succeeds, after however many that failed half
  way, has brought the bond where the configuration says: no other address
  lingers, every member is up, and attached unless the other LAG's release has
  taken it off since it was enslaved.
- `LagForeignStays`: nothing but the end of the bond takes away what others
  attached.

The last exception is needed: `releaseMember` "detaches intf from its bond"
(`lag_resource.go:669`), whosever that is by then. This LAG does the same to the other
(`ReleaseMember`).

Both properties are proved (`Lists_proofs`) for any ports, addresses and configurations, with
commands that fail anywhere. `LagApplied` speaks of the end of a list of commands,
and `LagInv` of what may be in it: nothing follows the save, the bond is read back
last, an address is deleted before one is added, no port is brought up and then
down (`LagTodo`, from the order `MayPrecede`); saved members that are attached are
up, and without a bond there are no members (`LagPorts`); what is not up yet
has its command still to come, and what was read back as a member is one, or
the other LAG has taken it off since (`LagProgress`); and there is one address, which is deleted by a command still to
come if one is to be added (`OneAddress`). That the lists of `Create` and `Update`
keep that order is proved from lemmas about `FlattenSeq` and `SetToSeq`, by
induction over the number of ports.

`LinkResource` is a bridge, a VLAN or a namespace. `LinkNoSpuriousReplace`: a
replacement only follows on a member of the configuration that has left, never
on one another resource attached; two members and one foreign one.
`NetworkResources_proofs` proves it, and the types, for any members: a model, saved or of an
operation, never has a member the configuration does not name
(`OwnMembersOnly`). A Delete of a bridge or a namespace that is missing is an
error although a comment calls it idempotent: the text looked for is in what
`ip` prints, not in the error (`bridge_resource.go:445-458`,
`netns_resource.go:225-235`); the VLAN looks at both. It is in the model
(`DeleteLink`).

## QmpSocket

Callers of `Run`, the listener goroutine, a consumer of events, `Disconnect` and
QEMU. The channels are unbuffered, so a hand-over is one step of both sides. A
line is the caller whose command it answers, or `Nobody` for an event; the
connection may be closed by either side or reset, with lines unread. Two
callers, two events.

What the listener hands over is no copy of the line but the bytes of its scanner
(`socket.go:199`, `:206`), and the listener goes on to the next `Scan`, which may read
over them or not, as the buffer happens to be filled. `runs[c].got` is whose line was
handed to a caller, `runs[c].buf` whose line is in those bytes by now; each `Scan`
may overwrite any of those that were handed out.

- `QmpOwnReply`: the line a Run is handed is the reply to its own command, and until
  it returns, and lets go of the mutex, no reply to another command lands on it. An
  event may: the property does not deny it, for nothing in the code prevents it.
- `QmpReturns`: every Run returns and so does Disconnect. Fairness: the
  goroutines run, a mutex is handed on, QEMU answers. It is checked for a
  consumer that receives events until its channel is closed (`ConsumerStays`);
  with one that stops, the listener blocks on an event and both wait for ever.

What a Run has returned (`socket.go:284`) is outside of `QmpOwnReply`: the next reply or
event may be read over it. The provider sends one command per connection at a time and
decodes the reply at once, so with it only an event could.

`Connections_proofs` proves `QmpOwnReply`, both halves of it, for any number of callers
and events and any consumer. The mutex alone does not give it, for an answer is in
three places on its way; `OneReply` is the invariant that does: as long as the listener can
hand something over, what QEMU has yet to answer, what is on the wire and what
the listener holds are together at most one reply, and it is for the Run that
holds the mutex and waits. `NoStandstill` says when all of them can be waiting:
only with the listener at an event that nobody receives any more. Anywhere else,
while a Run or Disconnect has not returned, somebody has a step to take. It is the
safety half of `QmpReturns`, and shows that the consumer is the only condition it
needs.

## SshExecutor

The connection the calls share: dialled under a mutex hop by hop, with agent
forwarding asked for once, kept alive by a goroutine, closed at any time, also
twice; `Dial` of a socket with a timer racing the answer. A session or file
operation is one step that may fail. Two callers, two hops, two connections: a
jump host and a target, a cached connection and its successor.

- `SshNothingLeaks`: an open client belongs to the cached connection or to the
  dial under way, an open socket has someone who closes it, wherever a dial
  fails, a timer fires or Close comes in.
- `SshForwardsOnce`: the agent is asked for once per connection; sshd refuses a
  second request.

Both are proved (`Connections_proofs`) for any number of each. The invariant
adds that whoever dials holds the mutex, on the newest connection and with none
cached (`MutexInv`), and that the request has not been made before "forward"
and has been before "sftp" (`ForwardInv`). Not claimed: that a broken connection
is replaced. It is handed out for ever (`HandOut`, `LoseLink`).

## Tailer and WaitUntil

`Tailer` is the server: a goroutine per connection writes lines to one file,
which is synced when a gauge has run down, and a signal closes the file under
them. `TailLinesKept`: between two lines at most `SyncEvery` are unsynced, plus
one for each failed sync, and a file that closed cleanly holds everything. Two
connections with three lines each, synced every second line: enough for three
rounds of the gauge and failures in each. `Records_proofs` proves it for any
numbers, from `GaugeCounts`: unsynced lines and gauge add up to no more than
`SyncEvery` and the failures, but for the line being written.

`WaitUntil` is the retry loop in units of time: each attempt has a budget, the
wait has one, an attempt that is given up runs on. A result is an error and an
exit status, from which `classifyProbe` tells "not ready yet" from "cannot be
run"; the latter ends the wait only at the first attempt. The outcome is written to
a summary file (`waitSummary`), which may fail without a consequence.
`WaitWithinTimeout`: the wait is over at its timeout. `WaitLogsPruned`: pruning
spares the first attempt, what may still be written and the last `RetainLogs`, and
keeps up. A timeout of 7, intervals and budgets of 2 and one log to keep make up
to four attempts, each of which may exit or hang. Timers are taken to fire on time.

Both are proved for any values (`Records_proofs`). For the first, every running
timer is due by the timeout. For the second, `LogsInv`: the directories that may
be pruned are in the order of the attempts (`LogsInOrder`), they and the pruned
ones are those of the attempts that are over, to which no process writes
(`LogsOfFinished`), and never more than one above what is kept (`LogsBounded`).
With the second of an ordered list go only attempts that as many others follow.

## NodeResource

An edge node: VM, gvproxy and tailer with QEMU or vfkit, local or remote, with or
without gvproxy and a serial console, and the installation of a node with vfkit
(of QEMU's installation see ImageResource). `ndOp.at` is the next call of the
handler; the processes come up, wait for each other and end in their own steps.
Every combination the code allows is tried.

The disk configuration is what `edge_node_disks.go` makes of it: blocks or the
older attributes, the defaults a block leaves out (`DiskOf`), what is refused
(`BlockRefused`, `DisksRefused`) and, with vfkit, what cannot be had as a raw image
(`convertToRaw`, `VfDisk`). Ten configurations are tried: accepted and refused
ones of either form, and sources that only one of the hypervisors can use.

`NodeLeavesNothing`: on the host itself, a node whose last refresh saw its VM
run leaves no process when it is deleted, and neither does an installation when
Create is over. Fairness: a process that was told to end, or whose connection is
gone, ends. Remote, a stop may be lost and is only warned of; a node last seen
stopped is deleted without a stop. An error of Create after the VM was started
leaves VM and gvproxy with no state (`NodeFails`), as when vfkit names its PTY
too late for the one look at its log (`vfkit.go:375`).

`Resources_proofs` proves, for every hypervisor, executor and set of disks, the
types and the part of `NodeLeavesNothing` that needs no fairness. `EndsItself`:
when the handler is over, each process that is left was told to end or has lost
what it serves, and one of them can end at once. `WindsDown`: from then on nothing
starts, and every step lowers the number of steps that are left (`NodeLeft`). The
invariant follows Delete and the installation call by call: what has been told to
end by the time it reaches each, and that a tailer is connected, and QEMU's gvproxy
serves, only as long as there is a VM.

## ImageResource, ProviderSetup, ResourcePlan, InternetMonitor

`ImageResource`: disk image, ISO, installer and installed node: the tool that
makes the file, what Read looks at, every failure between. The run checks its
types only: a broken file is taken for a whole one wherever the code does
not look, and no text promises more. `ProviderSetup`: `Configure` of two provider
processes on one target, with the firmware files they extract; a file truncated
by one is whole for the other, and after a kill for everyone.

Beside the types, `Resources_proofs` proves what can be said of them. For images:
no resource in the state stands for an installer that still has the name docker
gave it (`SavedIsNamed`), and an installation saved without its log stays in doubt
whatever a refresh finds (`DoubtStays`). For the set-up, with any number of
provider processes: one that is ready has an accepted executor, a binary that may
run on the target and, for QEMU, firmware files to name (`ReadyIsChecked`); and a
firmware file is a part only while, or because, the process that opened it last
has not finished, failed or was killed over it (`PartHasCulprit`): however many
write it at once, it is whole when the last to open it finishes.

`ResourcePlan`: the schemas of all nineteen kinds of resources, and what Create
and Update make known, compare, keep and bring about. The framework's plan is
modelled from how the schemas use it, and refreshes are left out: drift is in
the modules of the resources. `plSaved` is what Terraform's state says, `plReal` what
the daemon, interface or file was last given. Two values, of which one is the "stopped"
of a daemon; everything given or only what is required, with a daemon that is to
run at first or not; up to two edits of one attribute each (a change, and a change
back or beside it).

What an Update hands to `ip`, the stop or the start of a daemon (the field `acts`) is
not always what it reaches (`Reaches`):

- the DHCP servers and RADV are started without their config file, which the plan of
  an Update does not know, and end at once (`ExitsUnconfigured`): a change of `state`
  to running has no effect, one to stopped has (`dhcp_server_resource.go:444`, `:525`,
  `main.go:136`, `radv_resource.go:450`);
- a datastore's server that an Update started has no PID file. The stop of the next
  Update does not find it (`ServerFound`); a server with the new settings comes up
  beside it on another port, or none does; and the file, if there is one, goes on
  naming the server before (`GoesStale`). The servers that so pile up are
  `DaemonResource`'s matter;
- to stop a daemon that has no PID file at all fails (`StopFindsNoFile`).

`PlanApplied`: what is unknown in a plan is known after an apply (`PlanKnown`), and
what is saved is what was given (`PlanCarriedOut`): no change of an attribute is
accepted without effect, and none is made that is not saved. In particular a daemon
saved as stopped was stopped. Excepted are, each by itself:

- a TAP in a namespace is saved without being read back: mtu and state, if not
  given, stay unknown, which Terraform reports as an error;
- an Update of the DHCP servers, RADV and the datastore forgets their computed
  paths (see DaemonResource);
- after an Update (`MayBeVain`): the state of one of `ExitsUnconfigured` that is saved
  as running; what RADV's Update accepts beside `state`, of which the comment at
  `radv_resource.go:435` says what it is meant to do; and anything of a datastore
  whose PID file does not name its server any more. The first and the last contradict
  the documented promise to "start or stop the daemon to match this state"
  (`dhcp_server_resource.go:173`, `docs/resources/local_datastore.md:36`);
  `daemon_stopped` shows one of them.

It is proved for all nineteen kinds, any values and any number of edits
(`Records_proofs`). What it comes down to is that the schema, Create and Update of
each kind agree (`SchemaAgrees`): every attribute that a plan may leave to the
provider is made, kept, filled in or read by the handler that accepts the plan,
and one that forces no replacement and is not refused is acted upon. That is shown
kind by kind, of the tables taken from the source; that it suffices, of the rules
of the framework and of what an Update reaches.

Resources whose Update only refuses plan changes in place that then always fail.
`plan_state_in_place` shows one more: with `lease_time` left out, each update of
a DHCP server compares an unknown value with the saved one, so that a change of
`state` alone, which the documentation promises to carry out, is refused.

`InternetMonitor`: cycles, rounds and parallel pings, the samples in the writer's
buffer and in the file, a signal and SIGKILL at any point. `InetRecordsWhole`:
the samples are those of whole cycles in order, a ping sample tells of every
address, an empty answer without an error was an answer, an orderly end leaves
nothing in the buffer and a kill loses no more than the cycles since the last
flush was due. One destination that cannot be parsed and one with up to two
addresses, two cycles, a flush every one or two. After a signal the rest of the
cycle is probed with a cancelled context and recorded as failures. The writer is
assumed to take every sample, for its errors are only logged.

It is proved (`Lists_proofs`) for any destinations, number of cycles and
`flush_every_n`. `InetInv` says where in its cycle the program is: the steps that
are left are the end of the cycle, and there is one sample for each before them, in
this cycle and all the earlier ones (`CycleInv`), which division by the length of
a cycle turns into the number and step of every sample; what the pings have told
is what the lookup before them found, one goroutine at a time (`PingInv`); and how
much of that is in the file (`FlushInv`). TLC checked it with three cycles too.

## Checked only, and left out

Every safety property of a passing run is a theorem. Liveness (`CallsReturn`,
`LockIsReleased`, `Restarted`, `TermEnds`, `TapMoverEnds`, `QmpReturns`,
`NodeLeavesNothing`) stays with TLC: it rests on fairness, whose `ENABLED` the
prover does not treat. For all of them but `Restarted`, what they need of the code
is proved: a measure that every step lowers, that nobody waits in a circle, or that
a request is not lost. What is left to TLC is that fairness turns these into an end.

The prover also cannot instantiate a theorem that takes an operator, which the
usual induction rules are; the proofs that need one (`Lists_proofs`) do the induction on a set of numbers, from the library's
theorem that a well-founded order has minimal elements. What TLC's runs bound and
the theorems do not is the number of actors and values; what both share is the
models' view of the host, and the assumptions named with each module.

Not modelled, with the reasons in `PROJECT.json`: the command runner's search in
growing files, which nothing in the provider calls; the HTTP state backend, an
example of its own; the protocol loops of the daemon programs, which are
third-party servers; the error search, dedenting, port-forward strings and
generated bindings, which keep no state; data sources; the contents of files,
messages and logs, SFTP in detail, and marker fields other than the id; files
edited by hand. Time is modelled in `WaitUntil` only; elsewhere a timer may fire
at any point, or a wait is assumed long enough where it is said so.

The operators named as mutants of others (for example `acquire_lockOptional`)
are plausible mistakes: each property is violated when one of them takes the
place of the operator it varies.
