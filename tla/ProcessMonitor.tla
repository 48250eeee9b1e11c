---------------------------- MODULE ProcessMonitor ----------------------------
(***************************************************************************)
(* process_monitor.bash: runs a command, waits for it, and runs it again,  *)
(* with a delay that grows while it keeps failing.  Signals sent to the    *)
(* monitor are passed on to the child it knows of; TERM, INT and QUIT also *)
(* end the monitor, once the child is gone.                                *)
(*                                                                         *)
(* Bash runs a trap between two commands, never inside one: a signal that  *)
(* arrives during the sleep is handled after it, one that arrives during   *)
(* wait cuts the wait short.  Where each of these leaves CHILD_PID is what *)
(* the module is about.                                                    *)
(***************************************************************************)
EXTENDS Integers, FiniteSets

CONSTANTS
  Monitors,      (* Monitor processes.                                        *)
  Children,      (* Processes of the monitored command.                       *)
  None,          (* No process.                                               *)
  Signals,       (* What others send: "TERM" stands for TERM, INT and QUIT,   *)
                 (* "HUP" for HUP, USR1 and USR2.                             *)
  WaitForChild,  (* -w, the default, or -n.                                   *)
  RestartDelay, MaxDelay, MaxFailures   (* -d, -m and -f. *)

ASSUME ProcessesAssumption == None \notin Monitors \cup Children

ASSUME OptionsAssumption ==
  /\ Signals \subseteq {"TERM", "HUP"}
  /\ WaitForChild \in BOOLEAN
  /\ RestartDelay \in Nat /\ MaxDelay \in Nat /\ MaxFailures \in Nat

VARIABLES
  mon,        (* Where each monitor is in the script; "none" is no process.    *)
  pending,    (* Signals whose trap has not run yet.                           *)
  job,        (* $! of a monitor, and its CHILD_PID from NoteChild on.         *)
  failures,   (* FAILURES.                                                     *)
  delay,      (* current_delay.                                                *)
  kid,        (* The processes of the command.                                 *)
  parent,     (* Their parents; None when that one is gone.                    *)
  pidfile     (* The monitor named in the file of -p.                          *)

monitorVars == <<mon, pending, job, failures, delay, pidfile>>
childVars   == <<kid, parent>>
vars        == <<monitorVars, childVars>>

Untrapped == {"launched", "named"}
Looping   == {"loop", "forked", "waiting", "delaying"}
Stages    == Untrapped \cup Looping \cup {"none", "stopping", "leaving"}

Alive(c)      == kid[c] # "none"
Offspring(m)  == {c \in Children : Alive(c) /\ parent[c] = m}
Running(m)    == mon[m] # "none"

(* The child whose PID is in CHILD_PID, if kill -0 finds it. *)
KnownChild(m) == {c \in Children : /\ c = job[m] /\ Alive(c)
                                   /\ mon[m] \in {"waiting", "stopping"}}

Init ==
  /\ mon = [m \in Monitors |-> "none"]
  /\ pending = [m \in Monitors |-> {}]
  /\ job = [m \in Monitors |-> None]
  /\ failures = [m \in Monitors |-> 0]
  /\ delay = [m \in Monitors |-> RestartDelay]
  /\ kid = [c \in Children |-> "none"]
  /\ parent = [c \in Children |-> None]
  /\ pidfile = None

-----------------------------------------------------------------------------
(* The monitor *)

step(m, from, to) == mon[m] = from /\ mon' = [mon EXCEPT ![m] = to]

(* The end of a monitor's process: what it leaves behind has no parent. *)
Vanish(m) ==
  /\ mon' = [mon EXCEPT ![m] = "none"]
  /\ pending' = [pending EXCEPT ![m] = {}]
  /\ job' = [job EXCEPT ![m] = None]
  /\ failures' = [failures EXCEPT ![m] = 0]
  /\ delay' = [delay EXCEPT ![m] = RestartDelay]
  /\ parent' = [c \in Children |-> IF parent[c] = m THEN None ELSE parent[c]]

Launch(m) ==
  /\ step(m, "none", "launched")
  /\ UNCHANGED <<pending, job, failures, delay, pidfile, childVars>>

(* The directory of the PID file, or the file, may turn out not writable. *)
WritePidFile(m) ==
  \/ /\ step(m, "launched", "named")
     /\ pidfile' = m
     /\ UNCHANGED <<pending, job, failures, delay, childVars>>
  \/ /\ mon[m] = "launched"
     /\ Vanish(m)
     /\ UNCHANGED <<kid, pidfile>>

SetTraps(m) ==
  /\ step(m, "named", "loop")
  /\ UNCHANGED <<pending, job, failures, delay, pidfile, childVars>>

(* "$@" & *)
StartChild(m) ==
  /\ step(m, "loop", "forked")
  /\ pending[m] = {}
  /\ \E c \in Children :
       /\ ~Alive(c) /\ \A n \in Monitors : job[n] # c
       /\ kid' = [kid EXCEPT ![c] = "booting"]
       /\ parent' = [parent EXCEPT ![c] = m]
       /\ job' = [job EXCEPT ![m] = c]
  /\ UNCHANGED <<pending, failures, delay, pidfile>>

(* Mutants: CHILD_PID="$$"; a child that is gone by now leaves the monitor   *)
(* waiting for it.                                                           *)
NoteSelf(m) ==
  /\ step(m, "forked", "waiting")
  /\ job' = [job EXCEPT ![m] = m]
  /\ UNCHANGED <<pending, failures, delay, pidfile, childVars>>

NoteLivingChild(m) ==
  /\ step(m, "forked", "waiting")
  /\ pending[m] = {} /\ Alive(job[m])
  /\ UNCHANGED <<pending, job, failures, delay, pidfile, childVars>>

(* CHILD_PID="$!" *)
NoteChild(m) ==
  /\ step(m, "forked", "waiting")
  /\ pending[m] = {}
  /\ UNCHANGED <<pending, job, failures, delay, pidfile, childVars>>

(* Mutant: no cap. *)
Unbounded(n, bound) == n

(* CHILD_PID is emptied and the restart delay reckoned from the exit status. *)
Atmost(n, bound) == IF n > bound THEN bound ELSE n

Reckon(m, clean) ==
  /\ step(m, "waiting", "delaying")
  /\ job' = [job EXCEPT ![m] = None]
  /\ IF clean
       THEN /\ failures' = [failures EXCEPT ![m] = 0]
            /\ delay' = [delay EXCEPT ![m] = RestartDelay]
       ELSE IF failures[m] + 1 >= MaxFailures
       THEN /\ failures' = [failures EXCEPT ![m] = 0]
            /\ delay' = [delay EXCEPT ![m] = Atmost(2 * @, MaxDelay)]
       ELSE /\ failures' = [failures EXCEPT ![m] = @ + 1]
            /\ UNCHANGED delay

(* Mutant: whether the child is gone is not looked at. *)
ChildDoneEarly(m) ==
  /\ \E clean \in BOOLEAN : Reckon(m, clean)
  /\ UNCHANGED <<pending, pidfile, childVars>>

ChildDone(m) ==
  /\ KnownChild(m) = {}
  /\ \E clean \in BOOLEAN : Reckon(m, clean)
  /\ UNCHANGED <<pending, pidfile, childVars>>

DelayOver(m) ==
  /\ step(m, "delaying", "loop")
  /\ UNCHANGED <<pending, job, failures, delay, pidfile, childVars>>

forward(m) ==
  kid' = [c \in Children |-> IF c \in KnownChild(m) THEN "ending" ELSE kid[c]]

(* Mutant: a TERM that finds no child is over with its trap. *)
HandleTermReturns(m) ==
  /\ mon[m] \in (Looping \ {"delaying"}) \cup {"stopping"}
  /\ "TERM" \in pending[m]
  /\ pending' = [pending EXCEPT ![m] = @ \ {"TERM"}]
  /\ forward(m)
  /\ mon' = [mon EXCEPT ![m] = IF KnownChild(m) # {} THEN "stopping" ELSE @]
  /\ UNCHANGED <<job, failures, delay, parent, pidfile>>

(* handle_signal TERM: pass it on, then cleanup, which waits for the child. *)
HandleTerm(m) ==
  /\ mon[m] \in (Looping \ {"delaying"}) \cup {"stopping"}
  /\ "TERM" \in pending[m]
  /\ pending' = [pending EXCEPT ![m] = @ \ {"TERM"}]
  /\ forward(m)
  /\ mon' = [mon EXCEPT ![m] =
               IF KnownChild(m) # {} /\ WaitForChild THEN "stopping" ELSE "leaving"]
  /\ UNCHANGED <<job, failures, delay, parent, pidfile>>

(* handle_signal HUP: pass it on, and go on after the command it came in.     *)
(* When that command is a wait, the wait is over, whatever the child does.    *)
HandleHup(m) ==
  /\ "HUP" \in pending[m]
  /\ pending' = [pending EXCEPT ![m] = @ \ {"HUP"}]
  /\ \/ /\ mon[m] \in (Looping \ {"delaying"}) \cup {"stopping"}
        /\ UNCHANGED <<mon, job, failures, delay>>
     \/ Reckon(m, FALSE)
     \/ /\ step(m, "stopping", "leaving")
        /\ UNCHANGED <<job, failures, delay>>
  /\ UNCHANGED <<pidfile, childVars>>

StopWaiting(m) ==
  /\ step(m, "stopping", "leaving")
  /\ KnownChild(m) = {}
  /\ UNCHANGED <<pending, job, failures, delay, pidfile, childVars>>

(* rm -f "$PID_FILE"; exit 0 *)
Leave(m) ==
  /\ mon[m] = "leaving"
  /\ Vanish(m)
  /\ pidfile' = None
  /\ UNCHANGED kid

Advance(m) ==
  \/ WritePidFile(m) \/ SetTraps(m) \/ StartChild(m) \/ NoteChild(m) \/ ChildDone(m)
  \/ DelayOver(m) \/ HandleTerm(m) \/ StopWaiting(m) \/ Leave(m)

MonitorStep(m) == Advance(m) \/ HandleHup(m)

-----------------------------------------------------------------------------
(* What others do to the monitor, and the monitored command *)

(* Before its trap is set, a signal ends the monitor. *)
SendSignal(m, sig) ==
  /\ Running(m)
  /\ IF mon[m] \in Untrapped
       THEN Vanish(m)
       ELSE /\ pending' = [pending EXCEPT ![m] = @ \cup {sig}]
            /\ UNCHANGED <<mon, job, failures, delay, parent>>
  /\ UNCHANGED <<kid, pidfile>>

Sigkill(m) ==
  /\ Running(m)
  /\ Vanish(m)
  /\ UNCHANGED <<kid, pidfile>>

ChildUp(c) ==
  /\ kid[c] = "booting"
  /\ kid' = [kid EXCEPT ![c] = "up"]
  /\ UNCHANGED <<monitorVars, parent>>

ChildExits(c) ==
  /\ Alive(c)
  /\ kid' = [kid EXCEPT ![c] = "none"]
  /\ parent' = [parent EXCEPT ![c] = None]
  /\ UNCHANGED monitorVars

(* Bound: nobody launches a monitor while a process of an earlier one is left. *)
Orphans == {c \in Children : Alive(c) /\ parent[c] = None}

Next ==
  \/ \E m \in Monitors : \/ Orphans = {} /\ Launch(m)
                         \/ MonitorStep(m)
                         \/ Sigkill(m)
                         \/ \E sig \in Signals : SendSignal(m, sig)
  \/ \E c \in Children : ChildUp(c) \/ ChildExits(c)

Spec == Init /\ [][Next]_vars

(***************************************************************************)
(* A bash process runs on: all pending traps run between two commands, so  *)
(* even a monitor that is sent HUP over and over gets to its next command. *)
(* A command that was told to end does so.                                 *)
(***************************************************************************)
Fairness ==
  /\ \A m \in Monitors : WF_vars(MonitorStep(m)) /\ SF_vars(Advance(m))
  /\ \A c \in Children : WF_vars(kid[c] = "ending" /\ ChildExits(c))

FairSpec == Spec /\ Fairness

-----------------------------------------------------------------------------
(* Properties *)

MonitorTypeOK ==
  /\ mon \in [Monitors -> Stages]
  /\ pending \in [Monitors -> SUBSET {"TERM", "HUP"}]
  /\ job \in [Monitors -> Children \cup {None}]
  /\ failures \in [Monitors -> Nat]
  /\ delay \in [Monitors -> Nat]
  /\ kid \in [Children -> {"none", "booting", "up", "ending"}]
  /\ parent \in [Children -> Monitors \cup {None}]
  /\ pidfile \in Monitors \cup {None}

(***************************************************************************)
(* The command is restarted when it exits: a monitor never has two         *)
(* processes of it.  A monitor that is sent HUP does.                      *)
(***************************************************************************)
OneChild ==
  \A m \in Monitors : \A c, d \in Offspring(m) : c = d

(***************************************************************************)
(* The restart delay stays between -d and -m, however long the failures go *)
(* on and whatever cleaner exits come in between.                          *)
(***************************************************************************)
Backoff ==
  \A m \in Monitors :
    /\ delay[m] = RestartDelay \/ delay[m] <= MaxDelay
    /\ RestartDelay <= MaxDelay => RestartDelay <= delay[m]

(***************************************************************************)
(* A command that exited is started again, unless the monitor is on its    *)
(* way out.                                                                *)
(***************************************************************************)
Restarted ==
  \A m \in Monitors :
    mon[m] \in Looping /\ Offspring(m) = {} ~> Offspring(m) # {} \/ mon[m] \notin Looping

(***************************************************************************)
(* TERM ends the monitor, wherever in its loop it arrives.                 *)
(***************************************************************************)
TermEnds == \A m \in Monitors : "TERM" \in pending[m] ~> mon[m] = "none"
=============================================================================
