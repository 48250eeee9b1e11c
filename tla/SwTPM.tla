-------------------------------- MODULE SwTPM --------------------------------
(***************************************************************************)
(* zedamigo_swtpm: one software TPM, kept running for the VMs that attach  *)
(* to it.  The handlers of the resource start a process monitor, which     *)
(* starts and restarts swtpm (ProcessMonitor), and stop both.  All that a  *)
(* handler sees of the two is a PID file each of them writes, some time    *)
(* after it was started, and whether the process named there is alive.     *)
(* When it cannot read the file or ask for the process, the handlers drop  *)
(* the error and go on as if nothing ran.                                  *)
(***************************************************************************)
EXTENDS Integers

CONSTANTS
  Monitors, Children, None,              (* Bash and swtpm processes.          *)
  RestartDelay, MaxDelay, MaxFailures    (* The monitor's defaults.            *)

ASSUME SwAssumption ==
  /\ None \notin Monitors \cup Children
  /\ RestartDelay \in Nat /\ MaxDelay \in Nat /\ MaxFailures \in Nat

VARIABLES mon, pending, job, failures, delay, kid, parent, pidfile

Monitor == INSTANCE ProcessMonitor WITH Signals <- {"TERM"}, WaitForChild <- TRUE

VARIABLES
  swFile,     (* The swtpm named in swtpm.pid.                                 *)
  swSaved,    (* The resource in Terraform's state: its `state` attribute.     *)
  swOp,       (* The handler that runs: the state it is to bring about, where  *)
              (* it is, and whether it saw the monitor (pmRunning).            *)
  swMisled    (* History: a monitor has been started, or the resource deleted,  *)
              (* over a running monitor that the look for it missed.           *)

swHost  == <<mon, pending, job, failures, delay, pidfile, kid, parent>>
swVars  == <<swHost, swFile, swSaved, swOp, swMisled>>
SwIdle  == [name |-> "none", want |-> "running", at |-> "idle", seen |-> FALSE]

SwInit ==
  /\ Monitor!Init
  /\ swFile = None
  /\ swSaved = "absent"
  /\ swOp = SwIdle
  /\ swMisled = FALSE

-----------------------------------------------------------------------------
(* swtpm and its monitor.  PIDs are not used again while a file names them. *)

SwMonitorRuns(m) ==
  /\ Monitor!MonitorStep(m)
  /\ \A c \in Children : c = swFile /\ kid[c] = "none" => kid'[c] = "none"
  /\ UNCHANGED <<swFile, swSaved, swOp, swMisled>>

(* The control socket is there and swtpm.pid is written. *)
SwtpmUp(c) ==
  /\ Monitor!ChildUp(c)
  /\ swFile' = c
  /\ UNCHANGED <<swSaved, swOp, swMisled>>

(* swtpm exits when its VM shuts down, when it is told to and when it fails; *)
(* on a clean exit it removes swtpm.pid.                                     *)
SwtpmExits(c) ==
  /\ Monitor!ChildExits(c)
  /\ swFile' \in IF kid[c] = "booting" THEN {swFile} ELSE {swFile, None}
  /\ UNCHANGED <<swSaved, swOp, swMisled>>

SwMonitorDies(m) ==
  /\ Monitor!Sigkill(m)
  /\ UNCHANGED <<swFile, swSaved, swOp, swMisled>>

-----------------------------------------------------------------------------
readMonitorPID == pidfile # None /\ mon[pidfile] # "none"
readSwTPMPID   == swFile # None /\ kid[swFile] # "none"

(* A look for a process finds it, or fails, which counts as not running. *)
SwMonitorSeen == {readMonitorPID, FALSE}

(* Bash writes its PID file within the wait of RunDetached, or at least      *)
(* before the next call.                                                     *)
SwSettled == \A m \in Monitors : mon[m] # "launched"

SwGoto(from, to) == swOp.at = from /\ swOp' = [swOp EXCEPT !.at = to, !.seen = FALSE]

(* The model a handler succeeds with is saved to the state. *)
SwSucceed(state) == swSaved' = state /\ swOp' = SwIdle

(* An error of Create leaves nothing in the state; one of the others leaves *)
(* there what was there before.                                             *)
SwFail ==
  /\ swSaved' = IF swOp.name = "create" THEN "lost" ELSE swSaved
  /\ swOp' = SwIdle

(* Read is to bring about what the state says, Update what the plan says.    *)
SwCall(name) ==
  /\ swOp = SwIdle /\ SwSettled
  /\ \E want \in {"running", "stopped"} :
       /\ CASE name = "create" -> swSaved = "absent"
            [] name = "read"   -> swSaved = want
            [] name = "update" -> swSaved \in {"running", "stopped"}
            [] name = "delete" -> swSaved \in {"running", "stopped"} /\ want = "stopped"
       /\ swOp' = [name |-> name, want |-> want, at |-> IF name = "delete" THEN "stop" ELSE "look",
                   seen |-> FALSE]
  /\ UNCHANGED <<swHost, swFile, swSaved, swMisled>>

(* readSwTPM: what it does is decided by the monitor alone. *)
SwAgrees ==
  /\ swOp.at = "look"
  /\ (swOp.want = "running") \in SwMonitorSeen
  /\ SwSucceed(swOp.want)
  /\ UNCHANGED <<swHost, swFile, swMisled>>

SwToStop ==
  /\ SwGoto("look", "stop")
  /\ readMonitorPID /\ swOp.want = "stopped"
  /\ UNCHANGED <<swHost, swFile, swSaved, swMisled>>

(* No monitor is seen: the bash that runs one is started, and the answer may *)
(* be lost, or it is not.                                                    *)
startSwTPM(m) ==
  /\ swOp.want = "running"
  /\ \/ /\ SwGoto("look", "ready")
        /\ m # pidfile /\ Monitor!Launch(m)
        /\ UNCHANGED swSaved
     \/ /\ swOp.at = "look" /\ SwFail
        /\ (m # pidfile /\ Monitor!Launch(m)) \/ UNCHANGED swHost
  /\ swMisled' = (swMisled \/ (readMonitorPID /\ mon' # mon))
  /\ UNCHANGED swFile

waitSwTPMReady ==
  /\ swOp.at = "ready" /\ SwSettled
  /\ (readSwTPMPID /\ SwSucceed("running")) \/ SwFail
  /\ UNCHANGED <<swHost, swFile, swMisled>>

(* stopSwTPM and waitSwTPMGone look at the monitor first, then at swtpm.     *)
SwLook ==
  /\ \E go \in {<<"stop", "term">>, <<"wait", "waited">>, <<"killed", "last">>}, seen \in SwMonitorSeen :
       swOp.at = go[1] /\ swOp' = [swOp EXCEPT !.at = go[2], !.seen = seen]
  /\ UNCHANGED <<swHost, swFile, swSaved, swMisled>>

SwStopped == IF swOp.name = "delete" THEN swOp' = [swOp EXCEPT !.at = "remove"] /\ UNCHANGED swSaved
                                     ELSE SwSucceed("stopped")

(* Nothing runs, at the first look or at a later one, or the looks failed. *)
SwGone ==
  /\ swOp.at \in {"term", "waited", "last"}
  /\ ~swOp.seen
  /\ SwStopped
  /\ swMisled' = (swMisled \/ (readMonitorPID /\ swOp.name = "delete"))
  /\ UNCHANGED <<swHost, swFile>>

(* The signal does not reach a process that is dead by now, and may not reach *)
(* a living one; the error is ignored.                                       *)
SwTerm ==
  /\ SwGoto("term", "wait")
  /\ swOp.seen \/ readSwTPMPID
  /\ \/ /\ ~swOp.seen
        /\ kid' = [kid EXCEPT ![swFile] = "ending"]
        /\ UNCHANGED <<mon, pending, job, failures, delay, pidfile, parent>>
     \/ (swOp.seen /\ readMonitorPID /\ Monitor!SendSignal(pidfile, "TERM"))
     \/ UNCHANGED swHost
  /\ UNCHANGED <<swFile, swSaved, swMisled>>

(* The deadline of the wait may pass, for a monitor that sleeps too long.    *)
SwNotGone ==
  /\ SwGoto("waited", "wait") \/ SwGoto("waited", "killMonitor") \/ SwGoto("last", "killed")
  /\ swOp.seen \/ readSwTPMPID
  /\ UNCHANGED <<swHost, swFile, swSaved, swMisled>>

(* Mutant: swtpm is killed and the monitor is not.                           *)
SwKillMonitor_none ==
  /\ swOp.at = "killMonitor"
  /\ \E seen \in SwMonitorSeen :
       swOp' = [swOp EXCEPT !.at = "killSwtpm", !.seen = seen]
  /\ UNCHANGED <<swHost, swFile, swSaved, swMisled>>

SwKillMonitor ==
  /\ swOp.at = "killMonitor"
  /\ \E seen \in SwMonitorSeen :
       /\ swOp' = [swOp EXCEPT !.at = "killSwtpm", !.seen = seen]
       /\ IF seen THEN Monitor!Sigkill(pidfile) ELSE UNCHANGED swHost
  /\ UNCHANGED <<swFile, swSaved, swMisled>>

SwKillSwtpm ==
  /\ SwGoto("killSwtpm", "killed")
  /\ (readSwTPMPID /\ Monitor!ChildExits(swFile)) \/ UNCHANGED swHost
  /\ UNCHANGED <<swFile, swSaved, swMisled>>

(* Mutant: like the daemon resources, Delete goes on.                        *)
SwStopFails_ignored ==
  /\ \/ swOp.at \in {"killMonitor", "killSwtpm"}
     \/ swOp.at = "last" /\ (swOp.seen \/ readSwTPMPID)
  /\ IF swOp.name = "delete" THEN swOp' = [swOp EXCEPT !.at = "remove"] /\ UNCHANGED swSaved ELSE SwFail
  /\ UNCHANGED <<swHost, swFile, swMisled>>

(* The process ended between the look at it and the signal, or the signal is *)
(* not permitted; or it is there after the second wait.                      *)
SwStopFails ==
  /\ \/ swOp.at \in {"killMonitor", "killSwtpm"}
     \/ swOp.at = "last" /\ (swOp.seen \/ readSwTPMPID)
  /\ SwFail
  /\ UNCHANGED <<swHost, swFile, swMisled>>

(* The resource directory goes, and the PID files with it. *)
SwRemove ==
  /\ swOp.at = "remove"
  /\ \/ /\ SwSucceed("deleted")
        /\ pidfile' = None /\ swFile' = None
        /\ UNCHANGED <<mon, pending, job, failures, delay, kid, parent>>
     \/ (SwFail /\ UNCHANGED <<swHost, swFile>>)
  /\ UNCHANGED swMisled

SwNext ==
  \/ \E name \in {"create", "read", "update", "delete"} : SwCall(name)
  \/ SwAgrees \/ SwToStop \/ (\E m \in Monitors : startSwTPM(m)) \/ waitSwTPMReady
  \/ SwLook \/ SwGone \/ SwTerm \/ SwNotGone
  \/ SwKillMonitor \/ SwKillSwtpm \/ SwStopFails \/ SwRemove
  \/ \E m \in Monitors : SwMonitorRuns(m) \/ SwMonitorDies(m)
  \/ \E c \in Children : SwtpmUp(c) \/ SwtpmExits(c)

SwSpec == SwInit /\ [][SwNext]_swVars

-----------------------------------------------------------------------------
(* The variables keep their types.                                          *)
SwTypeOK ==
  /\ Monitor!MonitorTypeOK
  /\ swFile \in Children \cup {None}
  /\ swSaved \in {"absent", "running", "stopped", "lost", "deleted"}
  /\ swOp \in [name : {"none", "create", "read", "update", "delete"}, want : {"running", "stopped"},
               at : {"idle", "look", "ready", "stop", "term", "wait", "waited", "killMonitor",
                     "killSwtpm", "killed", "last", "remove"},
               seen : BOOLEAN]
  /\ swMisled \in BOOLEAN

(***************************************************************************)
(* "Deleting the resource directory while the processes are still alive    *)
(* would leave the monitor respawning swtpm against a missing state dir    *)
(* forever": no monitor survives, wherever it was when it was told to end, *)
(* however many starts, looks, signals and stops failed before; and at no  *)
(* time are there two.  Only a look that failed where it was the last      *)
(* before the start or the removal can bring about either.                 *)
(***************************************************************************)
SwOneMonitor ==
  ~swMisled =>
    /\ \A m, n \in Monitors : mon[m] # "none" /\ mon[n] # "none" => m = n
    /\ swSaved = "deleted" => \A m \in Monitors : mon[m] = "none"

(***************************************************************************)
(* "the monitor must die first (so that it cannot restart swtpm) and then  *)
(* swtpm must be killed explicitly": the swtpm that is killed has no       *)
(* monitor left that stopSwTPM saw and could have killed.                  *)
(***************************************************************************)
SwKillsOrphans ==
  [][SwKillSwtpm /\ swOp.seen /\ ~swMisled =>
       \A c \in Children : kid[c] # kid'[c] => parent[c] = None]_swVars
=============================================================================
