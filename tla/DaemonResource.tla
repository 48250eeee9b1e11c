--------------------------- MODULE DaemonResource ---------------------------
(***************************************************************************)
(* One resource of the kinds that keep a daemon of the provider's own      *)
(* binary alive: dhcp_server and dhcp6_server ("dhcp"), radv ("radv"),     *)
(* local_datastore ("datastore"), internet_monitor and                     *)
(* monitor_system_usage ("monitor").  Terraform calls one operation at a   *)
(* time on it; the daemons, which write their own PID file, and the host   *)
(* go on in between.  What a daemon serves is left out.                    *)
(***************************************************************************)
EXTENDS Naturals, FiniteSets

CONSTANTS
    Daemons,    \* processes; each is started at most once (bounds the starts)
    Kinds,      \* the kinds the resource may be of
    Faults,     \* calls on the target that may fail: "start", "stop", "read"
    Prompt,     \* RunDetached's wait is long enough for the PID to be written
    None        \* no PID, no saved state

ASSUME DaemonAssumption == /\ Kinds \subseteq {"dhcp", "radv", "datastore", "monitor"}
                           /\ Faults \subseteq {"start", "stop", "read"}
                           /\ Prompt \in BOOLEAN
                           /\ None \notin Daemons

VARIABLES
    kind,       \* the kind of the resource
    imported,   \* it came into the state by terraform import
    dir,        \* its directory exists
    pidFile,    \* the PID in the directory's file "pid", or None
    daemon,     \* every process: what became of it, and whether it was given its files
    saved,      \* Terraform's state of the resource, or None
    op,         \* the operation under way
    last        \* how the last operation ended; "new" before Create

vars == <<kind, imported, dir, pidFile, daemon, saved, op, last>>

(* The attributes the operations pass on: state, and whether the paths     *)
(* pid_file and config_file are known.  Unknown or null, they make startX  *)
(* pass -pid-file "" and, but for the datastore, an empty config file.     *)
Model(state, known) == [state |-> state, known |-> known]
Models == [state : {"running", "stopped"}, known : BOOLEAN]

Idle == [name |-> "idle", pc |-> "idle", next |-> "idle", warn |-> FALSE,
         model |-> Model("running", TRUE), pid |-> None]

Enter(name, pc, next, warn, model) ==
    op' = [name |-> name, pc |-> pc, next |-> next, warn |-> warn,
           model |-> model, pid |-> None]

Living(d)  == daemon[d].life \in {"starting", "up"}
Settled    == Prompt => \A d \in Daemons : daemon[d].life # "starting"

-----------------------------------------------------------------------------
Init ==
    /\ kind \in Kinds
    /\ imported = FALSE
    /\ dir = FALSE
    /\ pidFile = None
    /\ daemon = [d \in Daemons |-> [life |-> "unused", given |-> FALSE]]
    /\ saved = None
    /\ op = Idle
    /\ last = "new"

(* The operation returns an error and leaves the saved state as it was.    *)
Fail ==
    /\ op' = Idle
    /\ last' = "failed"
    /\ UNCHANGED saved

(* Create makes the directory and the config file; the state not given is  *)
(* unknown and becomes "running".                                          *)
Create(s) ==
    /\ last = "new" /\ op = Idle
    /\ dir' = TRUE
    /\ Enter("create", IF s = "running" THEN "start" ELSE "stat", "stat", FALSE, Model(s, TRUE))
    /\ last' = "failed"
    /\ UNCHANGED <<kind, imported, pidFile, daemon, saved>>

Read ==
    /\ op = Idle /\ saved # None
    /\ Enter("read", "stat", "stat", FALSE, saved)
    /\ UNCHANGED <<kind, imported, dir, pidFile, daemon, saved, last>>

(* ImportState passes on the id alone, and a Read follows: what a failed   *)
(* Create left can be had back, with every other attribute null.           *)
ImportState ==
    /\ op = Idle /\ saved = None /\ last # "new"
    /\ imported' = TRUE
    /\ Enter("read", "stat", "stat", FALSE, Model("running", FALSE))
    /\ UNCHANGED <<kind, dir, pidFile, daemon, saved, last>>

-----------------------------------------------------------------------------
(* Update.  The plan has the state of the configuration, "unset" when none *)
(* is given: the plan then holds an unknown, which is not Equal to the     *)
(* saved one and whose ValueString is "".  A computed attribute that       *)
(* Update does not copy from the state, such as the paths, is unknown too. *)
Desired_as_given(s) == s

Desired(s) == IF s = "unset" THEN "running" ELSE s

(* The state field alone: start or stop, or nothing, and then readX.       *)
FirstStep(s) ==
    IF s = saved.state THEN "stat"
    ELSE IF Desired(s) = "running" THEN "start" ELSE "stop"

ChangeState(s, known) ==
    Enter("update", FirstStep(s), "stat", FALSE, Model(Desired(s), known))

UpdateMonitor(s, changed) ==
    IF changed THEN Fail
    ELSE ChangeState(s, saved.known) /\ UNCHANGED <<saved, last>>

UpdateDHCP(s, changed) ==
    IF changed THEN Fail
    ELSE ChangeState(s, FALSE) /\ UNCHANGED <<saved, last>>

UpdateRADV(s, changed) ==
    ChangeState(s, FALSE) /\ UNCHANGED <<saved, last>>

UpdateDatastore(s, changed) ==
    /\ IF changed
       THEN Enter("update", "stop", IF Desired(s) = "running" THEN "start" ELSE "stat",
                  TRUE, Model(Desired(s), FALSE))
       ELSE ChangeState(s, FALSE)
    /\ UNCHANGED <<saved, last>>

(* Terraform reads a resource before it plans an update of it, and plans   *)
(* one only when an attribute differs.                                     *)
Update(s, changed) ==
    /\ op = Idle /\ saved # None /\ last = "ok"
    /\ changed \/ s \notin {saved.state, "unset"}
    /\ \/ kind = "monitor"   /\ UpdateMonitor(s, changed)
       \/ kind = "dhcp"      /\ UpdateDHCP(s, changed)
       \/ kind = "radv"      /\ UpdateRADV(s, changed)
       \/ kind = "datastore" /\ UpdateDatastore(s, changed)
    /\ UNCHANGED <<kind, imported, dir, pidFile, daemon>>

Delete_trusts_state ==
    /\ op = Idle /\ saved # None
    /\ Enter("delete", IF saved.state = "running" THEN "stop" ELSE "remove", "remove", TRUE, saved)
    /\ UNCHANGED <<kind, imported, dir, pidFile, daemon, saved, last>>

Delete ==
    /\ op = Idle /\ saved # None
    /\ Enter("delete", "stop", "remove", TRUE, saved)
    /\ UNCHANGED <<kind, imported, dir, pidFile, daemon, saved, last>>

-----------------------------------------------------------------------------
(* readX: is the directory there, and does a process have the PID in the   *)
(* file?  Every error of reading it counts as no.                          *)
HasProcess(p) == p # None /\ daemon[p].life \in {"up", "foreign"}

Runs == {HasProcess(pidFile)} \cup (IF "read" \in Faults THEN {FALSE} ELSE {})

(* Only Read takes a missing directory for a missing resource, and that of *)
(* local_datastore does not: its test for the error never holds.           *)
NoDirectory ==
    /\ ~dir
    /\ IF op.name = "read" /\ kind # "datastore"
       THEN saved' = None /\ op' = Idle /\ last' = "ok"
       ELSE Fail

(* Self-healing: reconcile what runs with the desired state.               *)
Reconcile_unasked(desired, running) ==
    IF desired = "running" THEN "heal"
    ELSE IF running THEN "stop" ELSE "save"

Reconcile_starts_only(desired, running) ==
    IF desired = "running" /\ ~running THEN "heal" ELSE "save"

Reconcile(desired, running) ==
    IF (desired = "running") = running THEN "save"
    ELSE IF running THEN "stop" ELSE "heal"

Look ==
    /\ op.pc = "stat" /\ Settled
    /\ \/ NoDirectory
       \/ /\ dir
          /\ \E running \in Runs :
               op' = [op EXCEPT !.pc = Reconcile(op.model.state, running),
                                !.next = "save", !.warn = FALSE]
          /\ UNCHANGED <<saved, last>>
    /\ UNCHANGED <<kind, imported, dir, pidFile, daemon>>

(* RunDetached makes the log directory, which is the resource's, starts    *)
(* the process and does not wait for it to end.                            *)
RunDetached(given) ==
    /\ \E d \in Daemons :
         /\ daemon[d].life = "unused"
         /\ daemon' = [daemon EXCEPT ![d] = [life |-> "starting", given |-> given]]
    /\ dir' = TRUE

(* startX.  When the answer of RunDetached is lost the daemon runs although *)
(* the call failed.                                                        *)
Start ==
    /\ op.pc \in {"start", "heal"}
    /\ RunDetached(op.model.known)
    /\ \/ op' = [op EXCEPT !.pc = IF op.pc = "start" THEN "stat" ELSE "save"]
          /\ UNCHANGED <<saved, last>>
       \/ "start" \in Faults /\ Fail
    /\ UNCHANGED <<kind, imported, pidFile>>

(* stopX.  An error of it ends Read and Update; Delete, and the change of  *)
(* a datastore's configuration, only log it.  The kill fails when the      *)
(* process has ended, and may when it is somebody else's.                  *)
Proceed == op' = [op EXCEPT !.pc = op.next] /\ UNCHANGED <<saved, last>>

StopError == IF op.warn THEN Proceed ELSE Fail

CheckStop ==
    /\ op.pc = "stop" /\ Settled
    /\ \/ (pidFile = None \/ "stop" \in Faults) /\ StopError
       \/ pidFile # None /\ ~HasProcess(pidFile) /\ Proceed
       \/ /\ HasProcess(pidFile)
          /\ op' = [op EXCEPT !.pc = "kill", !.pid = pidFile]
          /\ UNCHANGED <<saved, last>>
    /\ UNCHANGED <<kind, imported, dir, pidFile, daemon>>

Kill ==
    /\ op.pc = "kill"
    /\ \/ /\ HasProcess(op.pid)
          /\ daemon' = [daemon EXCEPT ![op.pid].life = "dead"]
          /\ Proceed
       \/ /\ daemon[op.pid].life # "up" \/ "stop" \in Faults
          /\ StopError
          /\ UNCHANGED daemon
    /\ UNCHANGED <<kind, imported, dir, pidFile>>

(* The state is saved as it was desired.  An attribute that is still       *)
(* unknown after an update is an error; Terraform saves it as null.        *)
Save ==
    /\ op.pc = "save"
    /\ saved' = op.model
    /\ op' = Idle
    /\ last' = IF op.name = "read" \/ op.model.known THEN "ok" ELSE "failed"
    /\ UNCHANGED <<kind, imported, dir, pidFile, daemon>>

Remove ==
    /\ op.pc = "remove"
    /\ dir' = FALSE
    /\ pidFile' = None
    /\ saved' = None
    /\ op' = Idle
    /\ last' = "ok"
    /\ UNCHANGED <<kind, imported, daemon>>

(* Any other call fails, or the provider is stopped where it is.           *)
Abort ==
    /\ op # Idle
    /\ Fail
    /\ UNCHANGED <<kind, imported, dir, pidFile, daemon>>

-----------------------------------------------------------------------------
(* What a daemon does first: it ends when it cannot write its PID, writes  *)
(* none when it is not told where, and refuses to run without a config     *)
(* file, which only the datastore's does not need.                         *)
Begun(d) ==
    IF daemon[d].given THEN (IF dir THEN "up" ELSE "dead")
    ELSE IF kind = "datastore" THEN "up" ELSE "refused"

WritePid_once(d) ==
    /\ daemon[d].life = "starting"
    /\ daemon' = [daemon EXCEPT ![d].life = Begun(d)]
    /\ pidFile' = IF daemon[d].given /\ dir /\ pidFile = None THEN d ELSE pidFile
    /\ UNCHANGED <<kind, imported, dir, saved, op, last>>

WritePid(d) ==
    /\ daemon[d].life = "starting"
    /\ daemon' = [daemon EXCEPT ![d].life = Begun(d)]
    /\ pidFile' = IF daemon[d].given /\ dir THEN d ELSE pidFile
    /\ UNCHANGED <<kind, imported, dir, saved, op, last>>

(* A daemon or the process that has its PID ends.                          *)
End(d) ==
    /\ daemon[d].life \in {"starting", "up", "foreign"}
    /\ daemon' = [daemon EXCEPT ![d].life = "dead"]
    /\ UNCHANGED <<kind, imported, dir, pidFile, saved, op, last>>

(* Another process gets the PID of a daemon that ended.                    *)
Reuse(d) ==
    /\ daemon[d].life \in {"dead", "refused"}
    /\ daemon' = [daemon EXCEPT ![d].life = "foreign"]
    /\ UNCHANGED <<kind, imported, dir, pidFile, saved, op, last>>

(* Somebody removes the directory.                                         *)
LoseDir ==
    /\ dir
    /\ dir' = FALSE
    /\ pidFile' = None
    /\ UNCHANGED <<kind, imported, daemon, saved, op, last>>

Operation ==
    \/ \E s \in {"running", "stopped"} : Create(s)
    \/ Read \/ ImportState
    \/ \E s \in {"running", "stopped", "unset"}, changed \in BOOLEAN : Update(s, changed)
    \/ Delete
    \/ Look \/ Start \/ CheckStop \/ Kill \/ Save \/ Remove \/ Abort

Environment ==
    \/ \E d \in Daemons : WritePid(d) \/ End(d) \/ Reuse(d)
    \/ LoseDir

Next == Operation \/ Environment

Spec == Init /\ [][Next]_vars

-----------------------------------------------------------------------------
Ops == [name  : {"idle", "create", "read", "update", "delete"},
        pc    : {"idle", "stat", "start", "heal", "stop", "kill", "save", "remove"},
        next  : {"idle", "stat", "start", "save", "remove"},
        warn  : BOOLEAN,
        model : Models,
        pid   : Daemons \cup {None}]

Processes == [life : {"unused", "starting", "up", "refused", "dead", "foreign"}, given : BOOLEAN]

DaemonTypeOK ==
    /\ kind \in Kinds
    /\ imported \in BOOLEAN
    /\ dir \in BOOLEAN
    /\ pidFile \in Daemons \cup {None}
    /\ daemon \in [Daemons -> Processes]
    /\ saved \in Models \cup {None}
    /\ op \in Ops
    /\ last \in {"new", "ok", "failed"}

(* What the operations promise holds for the kind whose Update keeps the   *)
(* paths; the others lose them at the first update, and a resource that    *)
(* was imported never had them (see README).                               *)
KeepsPidFile == kind = "monitor" /\ ~imported

(* The PID file tells the daemon: a daemon that is up while the directory  *)
(* is there is the one whose PID is in the file.  All of readX and stopX   *)
(* rests on this, for they know a daemon by nothing else.                  *)
PidFileTells ==
    KeepsPidFile /\ dir => \A d \in Daemons : daemon[d].life = "up" => pidFile = d

(* The resource never has two daemons, whatever operation failed half way, *)
(* answer was lost, directory was removed or daemon died in between.       *)
OneDaemon ==
    KeepsPidFile => \A d, e \in Daemons : Living(d) /\ Living(e) => d = e

(* "The provider will automatically start or stop the daemon to match this *)
(* state": once an operation has succeeded and the state is "stopped", no  *)
(* daemon of the resource runs.                                            *)
StoppedMeansStopped ==
    op = Idle /\ last = "ok" /\ saved # None /\ saved.state = "stopped"
        => \A d \in Daemons : ~Living(d)

(* The same for the resources whose Update keeps pid_file.                 *)
MonitorStopped == KeepsPidFile => StoppedMeansStopped

(* Delete takes an error of stopping the daemon for a daemon that is       *)
(* already stopped.  That is right: no daemon outlives a Delete that still *)
(* finds the directory.                                                    *)
DeleteLeavesNone ==
    [][KeepsPidFile /\ op.pc = "remove" /\ op' = Idle /\ dir /\ ~dir'
           => \A d \in Daemons : ~Living(d)]_vars
=============================================================================
