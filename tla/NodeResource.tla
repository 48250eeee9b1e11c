---------------------------- MODULE NodeResource ----------------------------
(***************************************************************************)
(* An edge node: the VM a resource starts with QEMU or vfkit, the gvproxy  *)
(* that is its network and the tailer that logs its console.  The three    *)
(* processes start one after the other and depend on each other; Delete    *)
(* tells two of them to end, and only if the last refresh saw the VM run.  *)
(* With vfkit also the installation of a node: a VM that Create waits for. *)
(***************************************************************************)
EXTENDS Naturals, Sequences

CONSTANT NodeConfigs    \* records of a hypervisor, an executor and what the VM has

(* What is found at the source of a disk, where one is given.              *)
DiskSources == {"none", "missing", "raw", "qcow2", "other"}
DiskBlocks  == [type : {"", "overlay", "device", "file"}, source : DiskSources,
                format : {"", "raw", "qcow2"}, size : BOOLEAN]
LegacyDisks == [disk0 : DiskSources, disk1 : DiskSources, extras : BOOLEAN]

ASSUME NodeAssumption ==
    NodeConfigs \subseteq [vm : {"qemu", "vfkit"}, remote : BOOLEAN, gvproxy : BOOLEAN, serial : BOOLEAN,
                          install : BOOLEAN, blocks : Seq(DiskBlocks), legacy : LegacyDisks]

VARIABLES
    ndConf,     \* the configuration
    ndState,    \* the resource in Terraform's state
    ndRunning,  \* its vm_running
    ndOp,       \* the handler that runs and its next call
    vm,         \* the hypervisor's process
    gvproxy,    \* the gvproxy process
    tailer,     \* the tailer process
    pty         \* the path of vfkit's PTY: "unknown", in its "log", or "kept" in serial.pty

ndVars == <<ndConf, ndState, ndRunning, ndOp, vm, gvproxy, tailer, pty>>

NodeIdle == [name |-> "none", at |-> "idle"]

NodeInit ==
    /\ ndConf \in {c \in NodeConfigs : (c.vm = "vfkit" => c.serial /\ (c.gvproxy <=> ~c.install))
                                    /\ (c.vm = "qemu" => ~c.install)
                                    /\ (c.install => ~c.legacy.extras)
                                    /\ Len(c.blocks) <= 2}
    /\ ndState = "absent" /\ ndRunning = FALSE
    /\ ndOp = NodeIdle
    /\ vm = "none" /\ gvproxy = "none" /\ tailer = "none" /\ pty = "unknown"

-----------------------------------------------------------------------------
(* The processes.                                                          *)

(* gvproxy makes its socket. *)
GvproxyListens ==
    /\ gvproxy = "starting"
    /\ gvproxy' = "listening"
    /\ UNCHANGED <<ndConf, ndState, ndRunning, ndOp, vm, tailer, pty>>

(* Before it answers on its QMP socket QEMU waits for the client of its     *)
(* serial socket and connects to gvproxy.                                  *)
VmBoots ==
    /\ vm = "starting"
    /\ (ndConf.vm = "qemu" /\ ndConf.serial) => tailer = "connected"
    /\ ndConf.gvproxy => gvproxy = "listening"
    /\ vm' = "up"
    /\ gvproxy' = IF ndConf.gvproxy THEN "serving" ELSE gvproxy
    /\ UNCHANGED <<ndConf, ndState, ndRunning, ndOp, tailer, pty>>

(* A guest that is suspended, or stopped after an error, is a VM that runs  *)
(* and that query-status says does not.                                    *)
VmPauses ==
    /\ ndConf.vm = "qemu" /\ vm \in {"up", "paused"}
    /\ vm' = IF vm = "up" THEN "paused" ELSE "up"
    /\ UNCHANGED <<ndConf, ndState, ndRunning, ndOp, gvproxy, tailer, pty>>

TailerConnects ==
    /\ tailer = "dialing" /\ vm # "none"
    /\ tailer' = "connected"
    /\ UNCHANGED <<ndConf, ndState, ndRunning, ndOp, vm, gvproxy, pty>>

(* Without the VM there is no PTY to open; a socket is dialed again and     *)
(* again.                                                                  *)
TailerGivesUp ==
    /\ tailer = "dialing" /\ vm = "none" /\ ndConf.vm = "vfkit"
    /\ tailer' = "ending"
    /\ UNCHANGED <<ndConf, ndState, ndRunning, ndOp, vm, gvproxy, pty>>

(* The hypervisor fails to start, the guest shuts down, or it is told to    *)
(* end.  Its connections end with it: a tailer that has one returns, and    *)
(* so does a gvproxy that serves QEMU; to vfkit it speaks in datagrams.     *)
VmEnds ==
    /\ vm # "none"
    /\ vm' = "none"
    /\ tailer' = IF tailer = "connected" THEN "ending" ELSE tailer
    /\ gvproxy' = IF gvproxy = "serving" /\ ndConf.vm = "qemu" THEN "ending" ELSE gvproxy
    /\ UNCHANGED <<ndConf, ndState, ndRunning, ndOp, pty>>

GvproxyEnds ==
    /\ gvproxy = "ending"
    /\ gvproxy' = "none"
    /\ UNCHANGED <<ndConf, ndState, ndRunning, ndOp, vm, tailer, pty>>

TailerEnds ==
    /\ tailer = "ending"
    /\ tailer' = "none"
    /\ UNCHANGED <<ndConf, ndState, ndRunning, ndOp, vm, gvproxy, pty>>

-----------------------------------------------------------------------------
(* The handlers.                                                           *)
NodeCall ==
    /\ ndOp = NodeIdle
    /\ \/ /\ ndState = "absent"
          /\ ndOp' = [name |-> IF ndConf.install THEN "install" ELSE "create", at |-> "disks"]
       \/ ndState = "kept" /\ ndOp' = [name |-> "read", at |-> "status"]
       \/ ndState = "kept" /\ ndOp' = [name |-> "delete", at |-> IF ndRunning THEN "stop" ELSE "remove"]
    /\ UNCHANGED <<ndConf, ndState, ndRunning, vm, gvproxy, tailer, pty>>

NodeAt(at, next) == ndOp.at = at /\ ndOp' = [ndOp EXCEPT !.at = next]

(* An error of Create, or its warning that the status cannot be read, ends  *)
(* it before anything is saved: what was started has no state.  A command   *)
(* that runs in the background fails when it ends, and that the console of  *)
(* an installation is not logged is a warning.                             *)
NodeFails ==
    /\ ndOp.at \in {"disks", "gvproxy", "gvsock", "tpm", "vm", "pid", "tailer", "pins", "remove"}
    /\ ndOp.name = "install" => ndOp.at = "disks"
    /\ ndState' = IF ndOp.name = "delete" THEN ndState ELSE "lost"
    /\ ndOp' = NodeIdle
    /\ UNCHANGED <<ndConf, ndRunning, vm, gvproxy, tailer, pty>>

(* A `disk` block, with the defaults of what it leaves out.                *)
DiskOf(b) ==
    LET type == IF b.type = "" THEN "overlay" ELSE b.type
    IN  [type |-> type, source |-> b.source,
         format |-> IF b.format # "" THEN b.format ELSE IF type = "overlay" THEN "qcow2" ELSE "raw"]

(* What the provider makes has its format; what is there already has to be  *)
(* there and keeps its size.                                               *)
BlockRefused(b) ==
    \/ b.source = "none"
    \/ DiskOf(b).type = "overlay" /\ DiskOf(b).format # "qcow2"
    \/ DiskOf(b).type # "overlay" /\ (b.size \/ b.source = "missing")

(* The attributes that came before the blocks are overlays.                *)
LegacyUsed == ndConf.legacy # [disk0 |-> "none", disk1 |-> "none", extras |-> FALSE]
LegacyGiven == {ndConf.legacy.disk0, ndConf.legacy.disk1} \ {"none"}

buildDisks ==
    IF ndConf.blocks # <<>>
    THEN {DiskOf(ndConf.blocks[i]) : i \in DOMAIN ndConf.blocks}
    ELSE {[type |-> "overlay", source |-> s, format |-> "qcow2"] : s \in LegacyGiven}

(* Blocks or attributes, not both, and the first disk is needed.           *)
DisksRefused ==
    IF ndConf.blocks # <<>>
    THEN LegacyUsed \/ \E i \in DOMAIN ndConf.blocks : BlockRefused(ndConf.blocks[i])
    ELSE ndConf.legacy.disk0 = "none"

PrepareDisks ==
    /\ ndConf.vm = "qemu" /\ ~DisksRefused
    /\ NodeAt("disks", IF ndConf.gvproxy THEN "gvproxy" ELSE "tpm")
    /\ UNCHANGED <<ndConf, ndState, ndRunning, vm, gvproxy, tailer, pty>>

StartGvproxy ==
    /\ ndConf.vm = "qemu"
    /\ NodeAt("gvproxy", "gvsock")
    /\ gvproxy' = "starting"
    /\ UNCHANGED <<ndConf, ndState, ndRunning, vm, tailer, pty>>

(* Its socket is waited for. *)
GvproxyReady ==
    /\ NodeAt("gvsock", IF ndConf.vm = "qemu" THEN "tpm" ELSE "vm")
    /\ gvproxy # "starting"
    /\ UNCHANGED <<ndConf, ndState, ndRunning, vm, gvproxy, tailer, pty>>

WaitForSwTPMSocket ==
    /\ NodeAt("tpm", "vm")
    /\ UNCHANGED <<ndConf, ndState, ndRunning, vm, gvproxy, tailer, pty>>

(* Through ssh an answer may be lost: NodeFails, after this.                *)
StartVm ==
    /\ ndConf.vm = "qemu"
    /\ NodeAt("vm", IF ndConf.serial THEN "tailer" ELSE "pins")
    /\ vm' = "starting"
    /\ UNCHANGED <<ndConf, ndState, ndRunning, gvproxy, tailer, pty>>

StartTailer ==
    /\ ndConf.vm = "qemu" \/ (pty = "kept" /\ ~ndConf.install)
    /\ NodeAt("tailer", "pins")
    /\ tailer' = "dialing"
    /\ UNCHANGED <<ndConf, ndState, ndRunning, vm, gvproxy, pty>>

ApplyCPUPins ==
    /\ NodeAt("pins", "status")
    /\ UNCHANGED <<ndConf, ndState, ndRunning, vm, gvproxy, tailer, pty>>

-----------------------------------------------------------------------------
(* vfkit.  Its disks are raw: what qemu-img finds to be the base of an       *)
(* overlay is copied or converted; of a file the declared format counts.    *)
convertToRaw(format) == IF format \in {"missing", "other"} THEN "refused" ELSE "raw"

VfDisk(disk) == IF disk.type = "overlay" THEN convertToRaw(disk.source)
                ELSE IF disk.format = "qcow2" THEN "refused" ELSE "raw"

VfPrepareDisks ==
    /\ ndConf.vm = "vfkit" /\ ~DisksRefused
    /\ \A disk \in buildDisks : VfDisk(disk) # "refused"
    /\ NodeAt("disks", IF ndConf.gvproxy THEN "gvproxy" ELSE "vm")
    /\ UNCHANGED <<ndConf, ndState, ndRunning, vm, gvproxy, tailer, pty>>

VfStartGvproxy ==
    /\ ndConf.vm = "vfkit"
    /\ NodeAt("gvproxy", "gvsock")
    /\ gvproxy' = "starting"
    /\ UNCHANGED <<ndConf, ndState, ndRunning, vm, tailer, pty>>

(* vfkit says in its log which PTY it opened. *)
VfOpensPty ==
    /\ ndConf.vm = "vfkit" /\ vm # "none" /\ pty = "unknown"
    /\ pty' = "log"
    /\ UNCHANGED <<ndConf, ndState, ndRunning, ndOp, vm, gvproxy, tailer>>

VfStart ==
    /\ ndConf.vm = "vfkit"
    /\ NodeAt("vm", IF ndConf.install THEN "ptywait" ELSE "pid")
    /\ vm' = "starting"
    /\ UNCHANGED <<ndConf, ndState, ndRunning, gvproxy, tailer, pty>>

VfWritePid ==
    /\ NodeAt("pid", "pty")
    /\ UNCHANGED <<ndConf, ndState, ndRunning, vm, gvproxy, tailer, pty>>

(* The log is read once.  Without a path Start goes on, and Create, which   *)
(* wants the file, fails.                                                  *)
parsePtyPath ==
    /\ NodeAt("pty", "tailer")
    /\ pty' = IF pty = "log" THEN "kept" ELSE pty
    /\ UNCHANGED <<ndConf, ndState, ndRunning, vm, gvproxy, tailer>>

(* An installation looks again and again, for ten seconds.                  *)
waitForPtyPath ==
    /\ \/ pty = "log" /\ NodeAt("ptywait", "tailer")
       \/ NodeAt("ptywait", "vmwait")
    /\ UNCHANGED <<ndConf, ndState, ndRunning, vm, gvproxy, tailer, pty>>

InstallTailer ==
    /\ ndConf.install
    /\ NodeAt("tailer", "vmwait")
    /\ tailer' \in {"none", "dialing"}
    /\ UNCHANGED <<ndConf, ndState, ndRunning, vm, gvproxy, pty>>

(* The VM has shut down: the tailer is told to end, and the command may     *)
(* have failed.                                                            *)
InstallEnds ==
    /\ ndOp.at = "vmwait" /\ vm = "none"
    /\ tailer' \in {IF tailer = "none" THEN "none" ELSE "ending"} \cup (IF ndConf.remote THEN {tailer} ELSE {})
    /\ ndState' \in {"installed", "lost"}
    /\ ndOp' = NodeIdle
    /\ UNCHANGED <<ndConf, ndRunning, vm, gvproxy, pty>>

-----------------------------------------------------------------------------
(* QEMU is asked, vfkit's process is looked for.                            *)
Reachable == vm \in {"up", "paused"}
SeenRunning == IF ndConf.vm = "qemu" THEN vm = "up" ELSE vm # "none"

StatusRead ==
    /\ ndOp.at = "status"
    /\ ndConf.vm = "qemu" => Reachable
    /\ ndRunning' = SeenRunning
    /\ ndState' = "kept"
    /\ ndOp' = NodeIdle
    /\ UNCHANGED <<ndConf, vm, gvproxy, tailer, pty>>

(* A second to dial is little through ssh.  Read takes an error for a VM    *)
(* that is not there.                                                       *)
StatusFails ==
    /\ ndOp.at = "status"
    /\ ndConf.remote \/ (ndConf.vm = "qemu" /\ ~Reachable)
    /\ ndState' = IF ndOp.name = "create" THEN "lost" ELSE ndState
    /\ ndRunning' = FALSE
    /\ ndOp' = NodeIdle
    /\ UNCHANGED <<ndConf, vm, gvproxy, tailer, pty>>

stopGvproxy == IF gvproxy = "none" THEN "none" ELSE "ending"

(* QMP's quit.  What becomes of it is not looked at.                        *)
StopVm ==
    /\ ndConf.vm = "qemu" /\ Reachable
    /\ NodeAt("stop", "remove")
    /\ \/ vm' = "quitting"
       \/ ndConf.remote /\ UNCHANGED vm
    /\ gvproxy' = stopGvproxy
    /\ UNCHANGED <<ndConf, ndState, ndRunning, tailer, pty>>

(* SIGTERM, two seconds, and then gvproxy. *)
VfStop ==
    /\ ndConf.vm = "vfkit"
    /\ NodeAt("stop", "gvstop")
    /\ \/ vm' = IF vm = "none" THEN "none" ELSE "quitting"
       \/ ndConf.remote /\ UNCHANGED vm
    /\ UNCHANGED <<ndConf, ndState, ndRunning, gvproxy, tailer, pty>>

(* Mutant: gvproxy is left to notice that its VM is gone.                   *)
VfStopGvproxy_none ==
    /\ NodeAt("gvstop", "remove")
    /\ UNCHANGED <<ndConf, ndState, ndRunning, vm, gvproxy, tailer, pty>>

VfStopGvproxy ==
    /\ NodeAt("gvstop", "remove")
    /\ gvproxy' \in {stopGvproxy} \cup (IF ndConf.remote THEN {gvproxy} ELSE {})
    /\ UNCHANGED <<ndConf, ndState, ndRunning, vm, tailer, pty>>

(* Only a warning.                                                          *)
StopFails ==
    /\ NodeAt("stop", "remove")
    /\ ndConf.remote \/ (ndConf.vm = "qemu" /\ ~Reachable)
    /\ UNCHANGED <<ndConf, ndState, ndRunning, vm, gvproxy, tailer, pty>>

RemoveNode ==
    /\ ndOp.at = "remove"
    /\ ndState' = "deleted"
    /\ ndOp' = NodeIdle
    /\ UNCHANGED <<ndConf, ndRunning, vm, gvproxy, tailer, pty>>

NodeNext ==
    \/ GvproxyListens \/ VmBoots \/ VmPauses \/ TailerConnects
    \/ VmEnds \/ GvproxyEnds \/ TailerGivesUp \/ TailerEnds
    \/ NodeCall \/ NodeFails
    \/ PrepareDisks \/ StartGvproxy \/ GvproxyReady \/ WaitForSwTPMSocket
    \/ StartVm \/ StartTailer \/ ApplyCPUPins \/ StatusRead \/ StatusFails
    \/ VfPrepareDisks \/ VfStartGvproxy \/ VfOpensPty \/ VfStart \/ VfWritePid \/ parsePtyPath
    \/ waitForPtyPath \/ InstallTailer \/ InstallEnds
    \/ StopVm \/ StopFails \/ VfStop \/ VfStopGvproxy \/ RemoveNode

(* A process that has nothing left to do, or was told to, ends. *)
NodeEnding == \/ vm = "quitting" /\ VmEnds
              \/ GvproxyEnds
              \/ TailerGivesUp \/ TailerEnds

NodeFairness == WF_ndVars(NodeEnding)

NodeSpec == NodeInit /\ [][NodeNext]_ndVars /\ NodeFairness

-----------------------------------------------------------------------------
(* The variables keep their types.                                         *)
NodeTypeOK ==
    /\ ndConf \in NodeConfigs
    /\ ndState \in {"absent", "kept", "lost", "installed", "deleted"}
    /\ ndRunning \in BOOLEAN
    /\ ndOp \in [name : {"none", "create", "install", "read", "delete"},
                 at : {"idle", "disks", "gvproxy", "gvsock", "tpm", "vm", "pid", "pty", "ptywait",
                       "tailer", "vmwait", "pins", "status", "stop", "gvstop", "remove"}]
    /\ vm \in {"none", "starting", "up", "paused", "quitting"}
    /\ gvproxy \in {"none", "starting", "listening", "serving", "ending"}
    /\ tailer \in {"none", "dialing", "connected", "ending"}
    /\ pty \in {"unknown", "log", "kept"}

(* On the host itself a node whose last refresh saw its VM run leaves       *)
(* nothing behind when it is deleted: the VM ends, and so do gvproxy, which *)
(* vfkit's end does not end, and the tailer, which nobody stops.  Neither   *)
(* does an installation when Create returns, whether it failed or not.      *)
NodeLeavesNothing ==
    (~ndConf.remote /\ \/ ndState = "deleted" /\ ndRunning
                       \/ ndConf.install /\ ndState \in {"installed", "lost"})
        ~> (vm = "none" /\ gvproxy = "none" /\ tailer = "none")
=============================================================================
