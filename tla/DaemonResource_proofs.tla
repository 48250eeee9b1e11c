----------------------- MODULE DaemonResource_proofs -----------------------
(***************************************************************************)
(* DaemonTypeOK for every instance; and, when RunDetached's wait is long   *)
(* enough and the calls that look for and kill a process do not fail, that *)
(* a resource whose Update keeps pid_file never has two daemons, finds the *)
(* one it has, stops it, and leaves none behind, for any number of         *)
(* starts.                                                                 *)
(***************************************************************************)
EXTENDS DaemonResource, TLAPS

(* The types of every variable are kept by every step of every kind of     *)
(* resource.                                                               *)
THEOREM DaemonTypes == Spec => []DaemonTypeOK
<1>1. Init => DaemonTypeOK
  <2>1. Idle \in Ops
    BY DEF Idle, Ops, Model, Models
  <2>2. ASSUME Init
        PROVE  daemon \in [Daemons -> Processes]
    BY <2>2 DEF Init, Processes
  <2> QED BY <2>1, <2>2, DaemonAssumption DEF Init, DaemonTypeOK
<1>2. DaemonTypeOK /\ [Next]_vars => DaemonTypeOK'
  <2> SUFFICES ASSUME DaemonTypeOK, [Next]_vars
               PROVE  DaemonTypeOK'
    OBVIOUS
  <2> USE DaemonAssumption DEF DaemonTypeOK, Models, Model, Ops, Processes
  <2>idle. Idle \in Ops
    BY DEF Idle
  <2>1. ASSUME NEW s \in {"running", "stopped"}, Create(s)
        PROVE  DaemonTypeOK'
    BY <2>1 DEF Create, Enter
  <2>2. CASE Read
    BY <2>2 DEF Read, Enter
  <2>import. CASE ImportState
    BY <2>import DEF ImportState, Enter
  <2>3. ASSUME NEW s \in {"running", "stopped", "unset"}, NEW changed \in BOOLEAN,
               Update(s, changed)
        PROVE  DaemonTypeOK'
    <3>1. Desired(s) \in {"running", "stopped"}
      BY DEF Desired
    <3>2. saved \in Models /\ saved.known \in BOOLEAN
      BY <2>3 DEF Update
    <3>3. ASSUME NEW k \in BOOLEAN, ChangeState(s, k), saved' = saved, last' = last
          PROVE  op' \in Ops
      <4>1. FirstStep(s) \in {"stat", "start", "stop"}
        BY DEF FirstStep
      <4>2. op' = [name |-> "update", pc |-> FirstStep(s), next |-> "stat", warn |-> FALSE,
                   model |-> [state |-> Desired(s), known |-> k], pid |-> None]
        BY <3>3 DEF ChangeState, Enter
      <4> QED BY <3>1, <4>1, <4>2
    <3>4. CASE UpdateMonitor(s, changed)
      BY <2>3, <2>idle, <3>2, <3>3, <3>4 DEF Update, UpdateMonitor, Fail
    <3>5. CASE UpdateDHCP(s, changed)
      BY <2>3, <2>idle, <3>3, <3>5 DEF Update, UpdateDHCP, Fail
    <3>6. CASE UpdateRADV(s, changed)
      BY <2>3, <3>3, <3>6 DEF Update, UpdateRADV
    <3>7. CASE UpdateDatastore(s, changed)
      <4>1. CASE changed
        <5>1. PICK n \in {"start", "stat"} :
                op' = [name |-> "update", pc |-> "stop", next |-> n, warn |-> TRUE,
                       model |-> [state |-> Desired(s), known |-> FALSE], pid |-> None]
          BY <3>7, <4>1 DEF UpdateDatastore, Enter
        <5>2. op' \in Ops
          BY <3>1, <5>1
        <5> QED BY <2>3, <3>7, <4>1, <5>2 DEF Update, UpdateDatastore
      <4>2. CASE ~changed
        BY <2>3, <3>3, <3>7, <4>2 DEF Update, UpdateDatastore
      <4> QED BY <4>1, <4>2
    <3> QED BY <2>3, <3>4, <3>5, <3>6, <3>7 DEF Update
  <2>4. CASE Delete
    BY <2>4 DEF Delete, Enter
  <2>5. CASE Look
    <3>1. CASE NoDirectory
      BY <2>5, <2>idle, <3>1 DEF Look, NoDirectory, Fail
    <3>2. CASE ~NoDirectory
      <4>1. PICK running \in Runs :
              op' = [op EXCEPT !.pc = Reconcile(op.model.state, running),
                               !.next = "save", !.warn = FALSE]
        BY <2>5, <3>2 DEF Look
      <4>2. Reconcile(op.model.state, running) \in {"heal", "stop", "save"}
        BY DEF Reconcile
      <4> HIDE DEF Models
      <4> QED BY <2>5, <3>2, <4>1, <4>2 DEF Look
    <3> QED BY <3>1, <3>2
  <2>6. CASE Start
    BY <2>6, <2>idle DEF Start, RunDetached, Fail
  <2>7. CASE CheckStop
    <3>1. op' \in Ops /\ saved' \in Models \cup {None} /\ last' \in {"new", "ok", "failed"}
      BY <2>7, <2>idle DEF CheckStop, StopError, Proceed, Fail, HasProcess
    <3>2. UNCHANGED <<kind, imported, dir, pidFile, daemon>>
      BY <2>7 DEF CheckStop
    <3> QED BY <3>1, <3>2
  <2>8. CASE Kill
    BY <2>8, <2>idle DEF Kill, StopError, Proceed, Fail, HasProcess
  <2>9. CASE Save
    BY <2>9, <2>idle DEF Save
  <2>10. CASE Remove
    <3>1. dir' = FALSE /\ pidFile' = None /\ saved' = None /\ op' = Idle /\ last' = "ok"
          /\ UNCHANGED <<kind, imported, daemon>>
      BY <2>10 DEF Remove
    <3>2. dir' \in BOOLEAN
      BY <3>1
    <3> QED BY <2>idle, <3>1, <3>2
  <2>11. CASE Abort
    BY <2>11, <2>idle DEF Abort, Fail
  <2>12. ASSUME NEW d \in Daemons, WritePid(d) \/ End(d) \/ Reuse(d)
         PROVE  DaemonTypeOK'
    BY <2>12 DEF WritePid, Begun, End, Reuse
  <2>13. CASE LoseDir
    <3>1. dir' = FALSE /\ pidFile' = None /\ UNCHANGED <<kind, imported, daemon, saved, op, last>>
      BY <2>13 DEF LoseDir
    <3>2. dir' \in BOOLEAN
      BY <3>1
    <3> QED BY <3>1, <3>2
  <2>14. CASE UNCHANGED vars
    BY <2>14 DEF vars
  <2> QED BY <2>1, <2>2, <2>import, <2>3, <2>4, <2>5, <2>6, <2>7, <2>8, <2>9, <2>10, <2>11,
             <2>12, <2>13, <2>14 DEF Next, Operation, Environment
<1> QED BY <1>1, <1>2, PTL DEF Spec

-----------------------------------------------------------------------------
(* The inductive invariant for a resource whose Update keeps pid_file.     *)
NoneLives == \A d \in Daemons : ~Living(d)

(* Every daemon was given the path, every saved state has it, and a file   *)
(* is in a directory.                                                      *)
PathKept ==
    /\ \A d \in Daemons : daemon[d].life # "unused" => daemon[d].given
    /\ saved # None => saved.known
    /\ op.model.known
    /\ ~dir => pidFile = None

(* Nothing is there before Create.                                         *)
Fresh ==
    last = "new" => /\ op = Idle /\ saved = None
                    /\ \A d \in Daemons : daemon[d].life = "unused"

(* What each step of an operation may rely on.                             *)
StepsRely ==
    /\ op.pc \in {"start", "heal"} => NoneLives
    /\ op.pc = "heal" => op.model.state = "running"
    /\ op.pc = "save" /\ op.model.state = "stopped" => NoneLives
    /\ op.pc = "kill" => /\ op.pid \in Daemons
                         /\ daemon[op.pid].life \in {"up", "dead", "foreign"}
                         /\ \A d \in Daemons : Living(d) => d = op.pid
    /\ op.pc = "remove" /\ dir => NoneLives
    /\ op.pc \in {"stop", "kill"} => op.next \in {"stat", "save", "remove"}
    /\ op.pc \in {"stop", "kill"} /\ op.warn => op.next = "remove"

KeptInv ==
    KeepsPidFile =>
        /\ PathKept /\ Fresh /\ StepsRely
        /\ PidFileTells /\ OneDaemon /\ StoppedMeansStopped

(* Where readX and stopX look, a directory whose file tells of no process  *)
(* means that no daemon lives, and one that does tells of the only one.    *)
LEMMA LookTells ==
    ASSUME DaemonTypeOK, KeptInv, KeepsPidFile, Settled, Prompt, dir
    PROVE  /\ ~HasProcess(pidFile) => NoneLives
           /\ \A d \in Daemons : Living(d) => d = pidFile
<1>1. \A d \in Daemons : Living(d) => daemon[d].life = "up"
  BY DEF Settled, Living
<1>2. \A d \in Daemons : Living(d) => d = pidFile
  BY <1>1 DEF KeptInv, PidFileTells
<1>3. \A d \in Daemons : Living(d) => HasProcess(pidFile)
  BY <1>1, <1>2, DaemonAssumption DEF HasProcess
<1> QED BY <1>2, <1>3 DEF NoneLives

(* An operation that ends in an error leaves a state nothing is said of.   *)
LEMMA FailKeeps ==
    ASSUME DaemonTypeOK, KeptInv, KeepsPidFile, Fail,
           UNCHANGED <<kind, imported, dir, pidFile, daemon>>
    PROVE  KeptInv'
<1>1. op' = Idle /\ op'.pc = "idle" /\ op'.model.known
  BY DEF Fail, Idle, Model
<1> QED BY <1>1 DEF Fail, KeptInv, PathKept, Fresh, StepsRely, PidFileTells, OneDaemon,
        StoppedMeansStopped, NoneLives, Living, KeepsPidFile

(* The invariant holds at the start and is kept by every step.             *)
LEMMA KeptInductive ==
    ASSUME Prompt, Faults \subseteq {"start"}
    PROVE  /\ Init => KeptInv
           /\ DaemonTypeOK /\ DaemonTypeOK' /\ KeptInv /\ [Next]_vars => KeptInv'
<1>1. Init => KeptInv
  BY DaemonAssumption DEF Init, KeptInv, KeepsPidFile, PathKept, Fresh, StepsRely, PidFileTells,
     OneDaemon, StoppedMeansStopped, NoneLives, Living, Idle, Model
<1>2. DaemonTypeOK /\ DaemonTypeOK' /\ KeptInv /\ [Next]_vars => KeptInv'
  <2> SUFFICES ASSUME DaemonTypeOK, DaemonTypeOK', KeptInv, [Next]_vars, KeepsPidFile'
               PROVE  KeptInv'
    BY DEF KeptInv
  <2>k. KeepsPidFile /\ ~ImportState
    <3>1. ~ImportState
      BY DEF ImportState, KeepsPidFile
    <3>2. kind' = kind /\ imported' = imported
      BY <3>1 DEF Next, Operation, Environment, Create, Read, Update, Delete, Look, Start,
         CheckStop, Kill, Save, Remove, Abort, WritePid, End, Reuse, LoseDir, vars
    <3> QED BY <3>1, <3>2 DEF KeepsPidFile
  <2>i. /\ PathKept /\ Fresh /\ StepsRely
        /\ PidFileTells /\ OneDaemon /\ StoppedMeansStopped
    BY <2>k DEF KeptInv
  <2> SUFFICES /\ PathKept' /\ Fresh' /\ StepsRely'
               /\ PidFileTells' /\ OneDaemon' /\ StoppedMeansStopped'
    BY DEF KeptInv
  <2>id. Idle.pc = "idle" /\ Idle.model.known
    BY DEF Idle, Model
  <2> USE <2>id DEF Living
  <2>b. ASSUME UNCHANGED <<kind, imported, dir, pidFile, daemon, saved, last>>, saved # None,
               op' # Idle, op'.model.known, StepsRely'
        PROVE  KeptInv'
    <3>1. PathKept' /\ PidFileTells' /\ OneDaemon'
      BY <2>b, <2>i DEF PathKept, PidFileTells, OneDaemon, KeepsPidFile
    <3>2. Fresh' /\ StoppedMeansStopped'
      BY <2>b, <2>i DEF Fresh, StoppedMeansStopped
    <3> QED BY <2>b, <3>1, <3>2 DEF KeptInv
  <2>1. ASSUME NEW s \in {"running", "stopped"}, Create(s)
        PROVE  KeptInv'
    <3>1. /\ op'.pc \in {"start", "stat"} /\ op'.model.known
          /\ saved' = None /\ last' = "failed" /\ dir'
          /\ UNCHANGED <<kind, imported, pidFile, daemon>>
      BY <2>1, <2>i DEF Create, Enter, Fresh, Model
    <3>2. \A d \in Daemons : daemon'[d].life = "unused"
      BY <2>1, <2>i, <3>1 DEF Create, Fresh
    <3> QED BY <3>1, <3>2, <2>i DEF KeptInv, PathKept, Fresh, StepsRely, PidFileTells, OneDaemon,
            StoppedMeansStopped, NoneLives
  <2>2. ASSUME Read
        PROVE  KeptInv'
    <3>1. /\ op'.pc = "stat" /\ op'.model = saved /\ saved # None
          /\ UNCHANGED <<kind, imported, dir, pidFile, daemon, saved, last>>
      BY <2>2 DEF Read, Enter
    <3>2. op' # Idle /\ op'.model.known /\ StepsRely'
      BY <2>i, <3>1 DEF PathKept, StepsRely
    <3> QED BY <2>b, <3>1, <3>2
  <2>3. ASSUME NEW s \in {"running", "stopped", "unset"}, NEW changed \in BOOLEAN,
               Update(s, changed)
        PROVE  KeptInv'
    <3>1. /\ UpdateMonitor(s, changed) /\ saved # None /\ op = Idle /\ last = "ok"
          /\ changed \/ s \notin {saved.state, "unset"}
          /\ UNCHANGED <<kind, imported, dir, pidFile, daemon>>
      BY <2>3, <2>k DEF Update, KeepsPidFile
    <3>2. CASE changed
      BY <2>k, <3>1, <3>2, FailKeeps DEF UpdateMonitor
    <3>3. CASE ~changed
      <4>1. /\ op'.pc = FirstStep(s) /\ op'.model.known = saved.known
            /\ op'.next = "stat" /\ op'.warn = FALSE
            /\ UNCHANGED <<kind, imported, dir, pidFile, daemon, saved, last>>
        BY <3>1, <3>3 DEF UpdateMonitor, ChangeState, Enter, Model
      <4>2. FirstStep(s) \in {"stat", "start", "stop"}
        BY DEF FirstStep
      <4>3. FirstStep(s) = "start" => NoneLives
        <5> SUFFICES ASSUME FirstStep(s) = "start" PROVE NoneLives
          OBVIOUS
        <5>1. s = "running"
          BY <3>1, <3>3 DEF FirstStep, Desired
        <5>2. saved.state = "stopped"
          BY <3>1, <3>3, <5>1 DEF DaemonTypeOK, Models
        <5> QED BY <2>i, <3>1, <5>2 DEF StoppedMeansStopped, NoneLives
      <4>4. op' # Idle /\ op'.model.known
        BY <2>i, <3>1, <4>1, <4>2 DEF PathKept
      <4>5. StepsRely'
        BY <4>1, <4>2, <4>3 DEF StepsRely, NoneLives
      <4> QED BY <2>b, <3>1, <4>1, <4>4, <4>5
    <3> QED BY <3>2, <3>3
  <2>4. ASSUME Delete
        PROVE  KeptInv'
    <3>1. /\ op'.pc = "stop" /\ op'.next = "remove" /\ op'.model = saved /\ saved # None
          /\ UNCHANGED <<kind, imported, dir, pidFile, daemon, saved, last>>
      BY <2>4 DEF Delete, Enter
    <3>2. op' # Idle /\ op'.model.known /\ StepsRely'
      BY <2>i, <3>1 DEF PathKept, StepsRely
    <3> QED BY <2>b, <3>1, <3>2
  <2>5. ASSUME Look
        PROVE  KeptInv'
    <3>1. CASE NoDirectory
      <4>1. CASE Fail
        BY <2>5, <2>k, <4>1, FailKeeps DEF Look
      <4>2. CASE saved' = None /\ op' = Idle /\ last' = "ok"
        <5>1. UNCHANGED <<kind, imported, dir, pidFile, daemon>>
          BY <2>5 DEF Look
        <5>2. PathKept' /\ PidFileTells' /\ OneDaemon'
          BY <2>i, <4>2, <5>1 DEF PathKept, PidFileTells, OneDaemon, KeepsPidFile
        <5>3. Fresh' /\ StepsRely' /\ StoppedMeansStopped'
          BY <4>2 DEF Fresh, StepsRely, StoppedMeansStopped
        <5> QED BY <5>2, <5>3 DEF KeptInv
      <4> QED BY <3>1, <4>1, <4>2 DEF NoDirectory
    <3>2. CASE ~NoDirectory
      <4> DEFINE r == HasProcess(pidFile)
      <4>1. /\ dir /\ Settled /\ op.pc = "stat"
            /\ op' = [op EXCEPT !.pc = Reconcile(op.model.state, r), !.next = "save", !.warn = FALSE]
            /\ UNCHANGED <<kind, imported, dir, pidFile, daemon, saved, last>>
        BY <2>5, <3>2 DEF Look, Runs
      <4>2. r \/ NoneLives
        BY <2>k, <4>1, LookTells
      <4>3. op.model.state \in {"running", "stopped"}
        BY DEF DaemonTypeOK, Ops, Models
      <4>4. /\ r \in BOOLEAN
            /\ Reconcile(op.model.state, r) \in {"save", "stop", "heal"}
            /\ Reconcile(op.model.state, r) = "heal" => op.model.state = "running" /\ ~r
            /\ Reconcile(op.model.state, r) = "save" /\ op.model.state = "stopped" => ~r
        BY <4>3 DEF Reconcile, HasProcess
      <4> HIDE DEF r
      <4>5. /\ op'.pc = Reconcile(op.model.state, r) /\ op'.model = op.model
            /\ op'.next = "save" /\ op'.warn = FALSE
        BY <4>1 DEF DaemonTypeOK, Ops
      <4>6. op' # Idle
        BY <4>4, <4>5
      <4>7. PathKept' /\ PidFileTells' /\ OneDaemon'
        BY <2>i, <4>1, <4>5 DEF PathKept, PidFileTells, OneDaemon, KeepsPidFile
      <4>8. Fresh' /\ StoppedMeansStopped'
        BY <2>i, <4>1, <4>6 DEF Fresh, StoppedMeansStopped
      <4>9. StepsRely'
        BY <4>1, <4>2, <4>4, <4>5 DEF StepsRely, NoneLives
      <4> QED BY <4>7, <4>8, <4>9 DEF KeptInv
    <3> QED BY <3>1, <3>2
  <2>6. ASSUME Start
        PROVE  KeptInv'
    <3>1. NoneLives /\ op # Idle
      BY <2>6, <2>i DEF Start, StepsRely
    <3>2. PICK d \in Daemons :
            /\ daemon[d].life = "unused"
            /\ daemon' = [daemon EXCEPT ![d] = [life |-> "starting", given |-> op.model.known]]
      BY <2>6 DEF Start, RunDetached
    <3>3. \A e \in Daemons \ {d} : daemon'[e] = daemon[e]
      BY <3>2 DEF DaemonTypeOK
    <3>4. daemon'[d].life = "starting" /\ daemon'[d].given
      BY <2>i, <3>2 DEF DaemonTypeOK, PathKept
    <3>5. dir' /\ UNCHANGED <<kind, imported, pidFile>> /\ op.pc \in {"start", "heal"}
      BY <2>6 DEF Start, RunDetached
    <3>6. \A e \in Daemons \ {d} : ~Living(e)'
      BY <3>1, <3>3 DEF NoneLives
    <3>7. PidFileTells' /\ OneDaemon'
      BY <3>4, <3>6 DEF PidFileTells, OneDaemon
    <3>8. \A e \in Daemons : daemon'[e].life # "unused" => daemon'[e].given
      BY <2>i, <3>3, <3>4 DEF PathKept
    <3>9. last # "new"
      BY <2>i, <3>1 DEF Fresh
    <3>10. CASE Fail
      BY <2>i, <3>5, <3>7, <3>8, <3>10 DEF KeptInv, Fail, PathKept, Fresh, StepsRely,
         StoppedMeansStopped
    <3>11. CASE /\ op' = [op EXCEPT !.pc = IF op.pc = "start" THEN "stat" ELSE "save"]
                /\ UNCHANGED <<saved, last>>
      <4>1. /\ op'.pc = (IF op.pc = "start" THEN "stat" ELSE "save")
            /\ op'.model = op.model
        BY <3>11 DEF DaemonTypeOK, Ops
      <4>2. op' # Idle
        BY <4>1
      <4>3. op'.pc = "save" => op'.model.state = "running"
        BY <2>i, <3>5, <4>1 DEF StepsRely
      <4> QED BY <2>i, <3>5, <3>7, <3>8, <3>9, <3>11, <4>1, <4>2, <4>3 DEF KeptInv, PathKept,
              Fresh, StepsRely, StoppedMeansStopped
    <3> QED BY <2>6, <3>10, <3>11 DEF Start

  <2>p. ASSUME Proceed, UNCHANGED <<kind, imported, dir, pidFile>>, op.pc \in {"stop", "kill"},
               PathKept', PidFileTells', OneDaemon',
               op.next \in {"save", "remove"} => NoneLives' \/ (op.next = "remove" /\ ~dir)
        PROVE  KeptInv'
    <3>1. op'.pc = op.next /\ op'.model = op.model
      BY <2>p DEF Proceed, DaemonTypeOK, Ops
    <3>2. op.next \in {"stat", "save", "remove"}
      BY <2>i, <2>p DEF StepsRely
    <3>3. op' # Idle /\ op # Idle /\ UNCHANGED <<saved, last>>
      BY <2>p, <3>1, <3>2 DEF Proceed
    <3>4. Fresh' /\ StoppedMeansStopped'
      BY <2>i, <3>3 DEF Fresh, StoppedMeansStopped
    <3>5. StepsRely'
      BY <2>p, <3>1, <3>2 DEF StepsRely
    <3> QED BY <2>p, <3>4, <3>5 DEF KeptInv
  <2>q. ASSUME UNCHANGED <<kind, imported, dir, pidFile, daemon>>, op'.model = op.model,
               UNCHANGED saved
        PROVE  PathKept' /\ PidFileTells' /\ OneDaemon'
    BY <2>i, <2>q DEF PathKept, PidFileTells, OneDaemon, KeepsPidFile
  <2>7. ASSUME CheckStop
        PROVE  KeptInv'
    <3>1. op.pc = "stop" /\ Settled /\ UNCHANGED <<kind, imported, dir, pidFile, daemon>>
      BY <2>7 DEF CheckStop
    <3>2. CASE Fail
      BY <2>k, <3>1, <3>2, FailKeeps
    <3>3. CASE Proceed /\ ~HasProcess(pidFile) /\ (pidFile # None \/ op.warn)
      <4>1. op'.model = op.model /\ UNCHANGED saved
        BY <3>3 DEF Proceed, DaemonTypeOK, Ops
      <4>2. dir => NoneLives
        BY <2>k, <3>1, <3>3, LookTells
      <4>3. op.warn => op.next = "remove"
        BY <2>i, <3>1 DEF StepsRely
      <4>4. ~dir => op.warn
        BY <2>i, <3>3 DEF PathKept
      <4>5. NoneLives => NoneLives'
        BY <3>1 DEF NoneLives
      <4> QED BY <2>p, <2>q, <3>1, <3>3, <4>1, <4>2, <4>3, <4>4, <4>5
    <3>4. CASE /\ HasProcess(pidFile)
               /\ op' = [op EXCEPT !.pc = "kill", !.pid = pidFile]
               /\ UNCHANGED <<saved, last>>
      <4>1. /\ op'.pc = "kill" /\ op'.pid = pidFile /\ op'.model = op.model
            /\ op'.next = op.next /\ op'.warn = op.warn
        BY <3>4 DEF DaemonTypeOK, Ops
      <4>2. dir
        BY <2>i, <3>4 DEF HasProcess, PathKept
      <4>3. \A d \in Daemons : Living(d) => d = pidFile
        BY <2>k, <3>1, <4>2, LookTells
      <4>4. StepsRely'
        <5>1. pidFile \in Daemons /\ daemon[pidFile].life \in {"up", "foreign"}
          BY <3>4 DEF HasProcess, DaemonTypeOK
        <5> QED BY <2>i, <3>1, <4>1, <4>3, <5>1 DEF StepsRely
      <4>5. Fresh' /\ StoppedMeansStopped'
        BY <2>i, <3>1, <3>4, <4>1 DEF Fresh, StoppedMeansStopped
      <4> QED BY <2>q, <3>1, <3>4, <4>1, <4>4, <4>5 DEF KeptInv
    <3>5. pidFile = None => ~HasProcess(pidFile)
      BY DEF HasProcess
    <3> QED BY <2>7, <3>2, <3>3, <3>4, <3>5 DEF CheckStop, StopError
  <2>8. ASSUME Kill
        PROVE  KeptInv'
    <3>1. op.pc = "kill" /\ UNCHANGED <<kind, imported, dir, pidFile>> /\ op # Idle
      BY <2>8 DEF Kill
    <3>2. \A d \in Daemons : Living(d) => d = op.pid
      BY <2>i, <3>1 DEF StepsRely
    <3>3. CASE /\ HasProcess(op.pid) /\ Proceed
               /\ daemon' = [daemon EXCEPT ![op.pid].life = "dead"]
      <4>1. op.pid \in Daemons
        BY <3>3 DEF HasProcess, DaemonTypeOK, Ops
      <4>2. /\ \A d \in Daemons \ {op.pid} : daemon'[d] = daemon[d]
            /\ daemon'[op.pid].life = "dead" /\ daemon'[op.pid].given = daemon[op.pid].given
        BY <3>3, <4>1 DEF DaemonTypeOK, Processes
      <4>3. NoneLives'
        BY <3>2, <4>2 DEF NoneLives
      <4>4. op'.model = op.model /\ UNCHANGED saved
        BY <3>3 DEF Proceed, DaemonTypeOK, Ops
      <4>5. daemon[op.pid].life # "unused"
        BY <3>3 DEF HasProcess
      <4>6. PathKept' /\ PidFileTells' /\ OneDaemon'
        BY <2>i, <3>1, <4>1, <4>2, <4>3, <4>4, <4>5 DEF PathKept, PidFileTells, OneDaemon, NoneLives
      <4> QED BY <2>p, <3>1, <3>3, <4>3, <4>6
    <3>4. CASE StopError /\ UNCHANGED daemon /\ daemon[op.pid].life # "up"
      <4>1. CASE Fail
        BY <2>k, <3>1, <3>4, <4>1, FailKeeps
      <4>2. CASE Proceed /\ op.warn
        <5>1. op'.model = op.model /\ UNCHANGED saved /\ op.next = "remove"
          BY <2>i, <3>1, <4>2 DEF Proceed, DaemonTypeOK, Ops, StepsRely
        <5>2. NoneLives'
          BY <2>i, <3>1, <3>2, <3>4 DEF StepsRely, NoneLives
        <5> QED BY <2>p, <2>q, <3>1, <3>4, <4>2, <5>1, <5>2
      <4> QED BY <3>4, <4>1, <4>2 DEF StopError
    <3> QED BY <2>8, <3>3, <3>4 DEF Kill
  <2>9. ASSUME Save
        PROVE  KeptInv'
    <3>1. /\ op.pc = "save" /\ saved' = op.model /\ op' = Idle
          /\ UNCHANGED <<kind, imported, dir, pidFile, daemon>>
      BY <2>9 DEF Save
    <3>2. last' \in {"ok", "failed"}
      BY <2>9 DEF Save
    <3>3. PathKept' /\ PidFileTells' /\ OneDaemon'
      BY <2>i, <3>1 DEF PathKept, PidFileTells, OneDaemon, KeepsPidFile
    <3>4. StoppedMeansStopped'
      BY <2>i, <3>1 DEF StoppedMeansStopped, StepsRely, NoneLives
    <3>5. StepsRely' /\ Fresh'
      BY <3>1, <3>2 DEF StepsRely, Fresh
    <3> QED BY <3>3, <3>4, <3>5 DEF KeptInv
  <2>10. ASSUME Remove
         PROVE  KeptInv'
    <3>1. /\ op.pc = "remove" /\ ~dir' /\ pidFile' = None /\ saved' = None /\ op' = Idle
          /\ last' = "ok" /\ UNCHANGED <<kind, imported, daemon>>
      BY <2>10 DEF Remove
    <3>2. PathKept' /\ PidFileTells' /\ OneDaemon'
      BY <2>i, <3>1 DEF PathKept, PidFileTells, OneDaemon, KeepsPidFile
    <3>3. StoppedMeansStopped' /\ StepsRely' /\ Fresh'
      BY <3>1 DEF StoppedMeansStopped, StepsRely, Fresh
    <3> QED BY <3>2, <3>3 DEF KeptInv
  <2>11. ASSUME Abort
         PROVE  KeptInv'
    BY <2>11, <2>k, FailKeeps DEF Abort
  <2>12. ASSUME NEW d \in Daemons, WritePid(d)
         PROVE  KeptInv'
    <3>1. /\ daemon[d].life = "starting" /\ daemon[d].given
          /\ UNCHANGED <<kind, imported, dir, saved, op, last>>
      BY <2>12, <2>i DEF WritePid, PathKept
    <3>2. /\ \A e \in Daemons \ {d} : daemon'[e] = daemon[e]
          /\ daemon'[d].given
          /\ daemon'[d].life = IF dir THEN "up" ELSE "dead"
      BY <2>12, <3>1 DEF WritePid, Begun, DaemonTypeOK, Processes
    <3>3. pidFile' = IF dir THEN d ELSE pidFile
      BY <2>12, <3>1 DEF WritePid
    <3>4. PathKept'
      BY <2>i, <3>1, <3>2, <3>3 DEF PathKept
    <3>5. \A e \in Daemons : Living(e)' => Living(e)
      BY <3>1, <3>2
    <3>6. OneDaemon' /\ PidFileTells'
      BY <2>k, <2>i, <3>1, <3>2, <3>3, <3>5 DEF PidFileTells, OneDaemon
    <3>7. StepsRely'
      BY <2>i, <3>1, <3>2, <3>5 DEF StepsRely, NoneLives
    <3>8. Fresh' /\ StoppedMeansStopped'
      BY <2>i, <3>1, <3>5 DEF Fresh, StoppedMeansStopped
    <3> QED BY <3>4, <3>6, <3>7, <3>8 DEF KeptInv
  <2>13. ASSUME NEW d \in Daemons, End(d) \/ Reuse(d)
         PROVE  KeptInv'
    <3>1. daemon[d].life # "unused" /\ UNCHANGED <<kind, imported, dir, pidFile, saved, op, last>>
      BY <2>13 DEF End, Reuse
    <3>2. /\ \A e \in Daemons \ {d} : daemon'[e] = daemon[e]
          /\ daemon'[d].given = daemon[d].given
          /\ daemon'[d].life \in {"dead", "foreign"}
      BY <2>13 DEF End, Reuse, DaemonTypeOK, Processes
    <3>3. PathKept'
      BY <2>i, <3>1, <3>2 DEF PathKept
    <3>4. \A e \in Daemons : Living(e)' => Living(e)
      BY <3>2
    <3>5. OneDaemon' /\ PidFileTells'
      BY <2>i, <3>1, <3>2, <3>4 DEF PidFileTells, OneDaemon, KeepsPidFile
    <3>6. StepsRely'
      BY <2>i, <3>1, <3>2, <3>4 DEF StepsRely, NoneLives
    <3>7. Fresh' /\ StoppedMeansStopped'
      BY <2>i, <3>1, <3>4 DEF Fresh, StoppedMeansStopped
    <3> QED BY <3>3, <3>5, <3>6, <3>7 DEF KeptInv
  <2>14. ASSUME LoseDir
         PROVE  KeptInv'
    <3>1. ~dir' /\ pidFile' = None /\ UNCHANGED <<kind, imported, daemon, saved, op, last>>
      BY <2>14 DEF LoseDir
    <3> QED BY <2>i, <3>1 DEF KeptInv, PathKept, Fresh, StepsRely, PidFileTells, OneDaemon,
            StoppedMeansStopped, NoneLives, KeepsPidFile
  <2>15. ASSUME UNCHANGED vars
         PROVE  KeptInv'
    BY <2>i, <2>15 DEF vars, KeptInv, PathKept, Fresh, StepsRely, PidFileTells, OneDaemon,
       StoppedMeansStopped, NoneLives, KeepsPidFile
  <2> QED BY <2>1, <2>2, <2>3, <2>4, <2>5, <2>6, <2>7, <2>8, <2>9, <2>10, <2>11, <2>12, <2>13,
             <2>14, <2>15, <2>k DEF Next, Operation, Environment, KeptInv
<1> QED BY <1>1, <1>2

(* The invariant in every state.                                           *)
LEMMA KeptAlways ==
    ASSUME Prompt, Faults \subseteq {"start"}
    PROVE  Spec => [](DaemonTypeOK /\ KeptInv)
<1>1. Init => KeptInv
  BY KeptInductive
<1>2. DaemonTypeOK /\ DaemonTypeOK' /\ KeptInv /\ [Next]_vars => KeptInv'
  BY KeptInductive
<1> QED BY <1>1, <1>2, DaemonTypes, PTL DEF Spec

(* A living daemon is always the one the PID file tells of.                *)
THEOREM FileTells ==
    ASSUME Prompt, Faults \subseteq {"start"}
    PROVE  Spec => []PidFileTells
<1>1. KeptInv => PidFileTells
  BY DEF KeptInv, PidFileTells
<1> QED BY <1>1, KeptAlways, PTL

(* There are never two daemons.                                            *)
THEOREM NeverTwo ==
    ASSUME Prompt, Faults \subseteq {"start"}
    PROVE  Spec => []OneDaemon
<1>1. KeptInv => OneDaemon
  BY DEF KeptInv, OneDaemon
<1> QED BY <1>1, KeptAlways, PTL

(* A resource that is saved as stopped has no daemon.                      *)
THEOREM StoppedIsStopped ==
    ASSUME Prompt, Faults \subseteq {"start"}
    PROVE  Spec => []MonitorStopped
<1>1. KeptInv => MonitorStopped
  BY DEF KeptInv, MonitorStopped
<1> QED BY <1>1, KeptAlways, PTL

(* Delete, which never gives up because of a daemon it could not stop,     *)
(* leaves none behind in a directory it still found.                       *)
THEOREM DeletedIsGone ==
    ASSUME Prompt, Faults \subseteq {"start"}
    PROVE  Spec => DeleteLeavesNone
<1>1. KeptInv /\ [Next]_vars =>
        [KeepsPidFile /\ op.pc = "remove" /\ op' = Idle /\ dir /\ ~dir'
           => \A d \in Daemons : ~Living(d)]_vars
  BY DEF KeptInv, StepsRely, NoneLives
<1> QED BY <1>1, KeptAlways, PTL DEF Spec, DeleteLeavesNone
=============================================================================
