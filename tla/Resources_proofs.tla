-------------------------- MODULE Resources_proofs --------------------------
(***************************************************************************)
(* swtpm, the edge node, the disk images and the set-up of a provider, for *)
(* any number of processes, of providers and of failures; and all parts in *)
(* one behaviour, with what is proved of each in its own module.           *)
(***************************************************************************)
EXTENDS MCResources, NetworkResources_proofs, Records_proofs, Connections_proofs, TLAPS

-----------------------------------------------------------------------------
(* swtpm and its monitor.                                                  *)

(* What is proved of process monitors in general. *)
Proofs == INSTANCE ProcessMonitor_proofs WITH Signals <- {"TERM"}, WaitForChild <- TRUE

LEMMA SameMonitor ==
  ASSUME NEW m \in Monitors
  PROVE  /\ Monitor!MonitorStep(m) <=> Proofs!MonitorStep(m)
         /\ Monitor!Launch(m) <=> Proofs!Launch(m)
         /\ Monitor!Sigkill(m) <=> Proofs!Sigkill(m)
         /\ Monitor!SendSignal(m, "TERM") <=> Proofs!SendSignal(m, "TERM")
         /\ \A c \in Children : /\ Monitor!ChildUp(c) <=> Proofs!ChildUp(c)
                               /\ Monitor!ChildExits(c) <=> Proofs!ChildExits(c)
         /\ Monitor!MonitorTypeOK <=> Proofs!MonitorTypeOK
         /\ Monitor!MonitorTypeOK' <=> Proofs!MonitorTypeOK'
<1>1. Monitor!Launch(m) <=> Proofs!Launch(m)
  BY DEF Monitor!Launch, Proofs!Launch, Monitor!step, Proofs!step, Monitor!childVars, Proofs!childVars
<1>2. Monitor!WritePidFile(m) <=> Proofs!WritePidFile(m)
  BY DEF Monitor!WritePidFile, Proofs!WritePidFile, Monitor!step, Proofs!step, Monitor!Vanish, Proofs!Vanish,
         Monitor!childVars, Proofs!childVars
<1>3. Monitor!SetTraps(m) <=> Proofs!SetTraps(m)
  BY DEF Monitor!SetTraps, Proofs!SetTraps, Monitor!step, Proofs!step, Monitor!childVars, Proofs!childVars
<1>4. Monitor!StartChild(m) <=> Proofs!StartChild(m)
  BY DEF Monitor!StartChild, Proofs!StartChild, Monitor!step, Proofs!step, Monitor!Alive, Proofs!Alive
<1>5. Monitor!NoteChild(m) <=> Proofs!NoteChild(m)
  BY DEF Monitor!NoteChild, Proofs!NoteChild, Monitor!step, Proofs!step, Monitor!childVars, Proofs!childVars
<1>6. Monitor!ChildDone(m) <=> Proofs!ChildDone(m)
  BY DEF Monitor!ChildDone, Proofs!ChildDone, Monitor!KnownChild, Proofs!KnownChild, Monitor!Alive,
         Proofs!Alive, Monitor!Reckon, Proofs!Reckon, Monitor!step, Proofs!step, Monitor!Atmost, Proofs!Atmost,
         Monitor!childVars, Proofs!childVars
<1>7. Monitor!DelayOver(m) <=> Proofs!DelayOver(m)
  BY DEF Monitor!DelayOver, Proofs!DelayOver, Monitor!step, Proofs!step, Monitor!childVars, Proofs!childVars
<1>8. Monitor!HandleTerm(m) <=> Proofs!HandleTerm(m)
  BY DEF Monitor!HandleTerm, Proofs!HandleTerm, Monitor!Looping, Proofs!Looping, Monitor!forward,
         Proofs!forward, Monitor!KnownChild, Proofs!KnownChild, Monitor!Alive, Proofs!Alive
<1>9. Monitor!HandleHup(m) <=> Proofs!HandleHup(m)
  BY DEF Monitor!HandleHup, Proofs!HandleHup, Monitor!Looping, Proofs!Looping, Monitor!Reckon, Proofs!Reckon,
         Monitor!step, Proofs!step, Monitor!Atmost, Proofs!Atmost, Monitor!childVars, Proofs!childVars
<1>10. Monitor!StopWaiting(m) <=> Proofs!StopWaiting(m)
  BY DEF Monitor!StopWaiting, Proofs!StopWaiting, Monitor!step, Proofs!step, Monitor!KnownChild,
         Proofs!KnownChild, Monitor!Alive, Proofs!Alive, Monitor!childVars, Proofs!childVars
<1>11. Monitor!Leave(m) <=> Proofs!Leave(m)
  BY DEF Monitor!Leave, Proofs!Leave, Monitor!Vanish, Proofs!Vanish
<1>12. Monitor!Sigkill(m) <=> Proofs!Sigkill(m)
  BY DEF Monitor!Sigkill, Proofs!Sigkill, Monitor!Running, Proofs!Running, Monitor!Vanish, Proofs!Vanish
<1>13. Monitor!SendSignal(m, "TERM") <=> Proofs!SendSignal(m, "TERM")
  BY DEF Monitor!SendSignal, Proofs!SendSignal, Monitor!Running, Proofs!Running, Monitor!Vanish, Proofs!Vanish,
         Monitor!Untrapped, Proofs!Untrapped
<1>14. ASSUME NEW c \in Children
       PROVE  (Monitor!ChildUp(c) <=> Proofs!ChildUp(c)) /\ (Monitor!ChildExits(c) <=> Proofs!ChildExits(c))
  BY DEF Monitor!ChildUp, Proofs!ChildUp, Monitor!ChildExits, Proofs!ChildExits, Monitor!Alive, Proofs!Alive,
         Monitor!monitorVars, Proofs!monitorVars
<1>15. /\ Monitor!MonitorTypeOK <=> Proofs!MonitorTypeOK
       /\ Monitor!MonitorTypeOK' <=> Proofs!MonitorTypeOK'
  BY DEF Monitor!MonitorTypeOK, Proofs!MonitorTypeOK, Monitor!Stages, Proofs!Stages, Monitor!Untrapped,
         Proofs!Untrapped, Monitor!Looping, Proofs!Looping
<1>16. Monitor!MonitorStep(m) <=> Proofs!MonitorStep(m)
  BY <1>2, <1>3, <1>4, <1>5, <1>6, <1>7, <1>8, <1>9, <1>10, <1>11
     DEF Monitor!MonitorStep, Proofs!MonitorStep, Monitor!Advance, Proofs!Advance
<1> QED BY <1>1, <1>12, <1>13, <1>14, <1>15, <1>16

(* Whatever happens to one monitor leaves the others alone; it names itself  *)
(* in the PID file when it leaves "launched", and it has children only while *)
(* it runs.                                                                  *)
LEMMA MonitorFacts ==
  ASSUME Monitor!MonitorTypeOK, NEW m \in Monitors,
         Monitor!MonitorStep(m) \/ Monitor!Sigkill(m) \/ Monitor!SendSignal(m, "TERM")
  PROVE  /\ Monitor!MonitorTypeOK'
         /\ mon[m] # "none" /\ mon'[m] # "launched"
         /\ \A n \in Monitors \ {m} : mon'[n] = mon[n]
         /\ mon'[m] # "none" => pidfile' = IF mon[m] = "launched" THEN m ELSE pidfile
         /\ \A c \in Children : parent'[c] # parent[c] /\ parent'[c] # None => parent'[c] = m
         /\ mon'[m] = "none" => \A c \in Children : parent'[c] # m
<1> DEFINE Facts == /\ mon[m] # "none" /\ mon'[m] # "launched"
                    /\ \A n \in Monitors \ {m} : mon'[n] = mon[n]
                    /\ mon'[m] # "none" => pidfile' = IF mon[m] = "launched" THEN m ELSE pidfile
                    /\ \A c \in Children : parent'[c] # parent[c] /\ parent'[c] # None => parent'[c] = m
                    /\ mon'[m] = "none" => \A c \in Children : parent'[c] # m
<1>0. /\ mon \in [Monitors -> Monitor!Stages] /\ parent \in [Children -> Monitors \cup {None}]
      /\ None \notin Monitors
  BY SwAssumption DEF Monitor!MonitorTypeOK
<1>1. Monitor!MonitorTypeOK'
  <2>1. Proofs!MonitorTypeOK /\ Proofs!MonitorAct(m)
    BY SameMonitor DEF Proofs!MonitorAct
  <2>2. Proofs!MonitorTypeOK'
    BY <2>1, SwAssumption, Proofs!MonitorType
  <2> QED BY <2>2, SameMonitor
<1>2. ASSUME mon[m] # "none", Monitor!Vanish(m) PROVE Facts
  BY <1>0, <1>2 DEF Monitor!Vanish
<1>3. ASSUME Monitor!Sigkill(m) \/ Monitor!Leave(m) PROVE Facts
  BY <1>2, <1>3 DEF Monitor!Sigkill, Monitor!Leave, Monitor!Running
<1>4. ASSUME Monitor!WritePidFile(m) PROVE Facts
  BY <1>0, <1>2, <1>4 DEF Monitor!WritePidFile, Monitor!step, Monitor!childVars
<1>5. ASSUME Monitor!SendSignal(m, "TERM") PROVE Facts
  <2>1. CASE mon[m] \in Monitor!Untrapped
    BY <1>2, <1>5, <2>1 DEF Monitor!SendSignal, Monitor!Running
  <2>2. CASE mon[m] \notin Monitor!Untrapped
    BY <1>0, <1>5, <2>2 DEF Monitor!SendSignal, Monitor!Running, Monitor!Untrapped
  <2> QED BY <2>1, <2>2
<1>6. ASSUME Monitor!StartChild(m) PROVE Facts
  BY <1>0, <1>6 DEF Monitor!StartChild, Monitor!step
<1>7. ASSUME Monitor!SetTraps(m) \/ Monitor!NoteChild(m) \/ Monitor!DelayOver(m) \/ Monitor!StopWaiting(m) PROVE Facts
  BY <1>0, <1>7 DEF Monitor!SetTraps, Monitor!NoteChild, Monitor!DelayOver, Monitor!StopWaiting, Monitor!step,
         Monitor!childVars
<1>8. ASSUME NEW clean \in BOOLEAN, Monitor!Reckon(m, clean), UNCHANGED <<pidfile, parent>> PROVE Facts
  BY <1>0, <1>8 DEF Monitor!Reckon, Monitor!step
<1>9. ASSUME Monitor!ChildDone(m) PROVE Facts
  BY <1>8, <1>9 DEF Monitor!ChildDone, Monitor!childVars
<1>10. ASSUME Monitor!HandleTerm(m) PROVE Facts
  BY <1>0, <1>10 DEF Monitor!HandleTerm, Monitor!Looping
<1>11. ASSUME Monitor!HandleHup(m) PROVE Facts
  <2>1. UNCHANGED <<pidfile, parent>>
    BY <1>11 DEF Monitor!HandleHup, Monitor!childVars
  <2>2. CASE mon[m] \in (Monitor!Looping \ {"delaying"}) \cup {"stopping"} /\ mon' = mon
    BY <1>0, <2>1, <2>2 DEF Monitor!Looping
  <2>3. CASE Monitor!Reckon(m, FALSE)
    BY <1>8, <2>1, <2>3
  <2>4. CASE Monitor!step(m, "stopping", "leaving")
    BY <1>0, <2>1, <2>4 DEF Monitor!step
  <2> QED BY <1>11, <2>2, <2>3, <2>4 DEF Monitor!HandleHup
<1>12. Facts
  BY <1>3, <1>4, <1>5, <1>6, <1>7, <1>9, <1>10, <1>11 DEF Monitor!MonitorStep, Monitor!Advance
<1> QED BY <1>1, <1>12

-----------------------------------------------------------------------------
NoMonitor == \A m \in Monitors : mon[m] = "none"

(* A handler looks when the files have settled, so a monitor it does not     *)
(* find is not there, unless the look failed, and none starts before it is   *)
(* done.                                                                     *)
HandlerKnows ==
  /\ swOp.at \notin {"idle", "ready"} => SwSettled
  /\ swOp.at = "killSwtpm" /\ swOp.seen => NoMonitor
  /\ swOp.at = "remove" => NoMonitor
  /\ swSaved = "deleted" => NoMonitor /\ swOp.at = "idle"

(* The monitor there is names itself in the file, and swtpm has no other.    *)
OneAtMost ==
  /\ \A m, n \in Monitors : mon[m] # "none" /\ mon[n] # "none" => m = n
  /\ \A m \in Monitors : mon[m] \notin {"none", "launched"} => pidfile = m
  /\ \A c \in Children : parent[c] # None => mon[parent[c]] # "none"

(* Nothing but the types holds once a failed look has been acted on.         *)
SwInv == SwTypeOK /\ (swMisled \/ (OneAtMost /\ HandlerKnows))

(* A monitor that settled is found by a look that does not fail. *)
LEMMA MonitorFound ==
  ASSUME SwTypeOK, OneAtMost, SwSettled
  PROVE  /\ readMonitorPID => pidfile \in Monitors /\ mon[pidfile] # "none"
         /\ ~readMonitorPID => NoMonitor
BY SwAssumption DEF SwTypeOK, OneAtMost, SwSettled, readMonitorPID, NoMonitor, Monitor!MonitorTypeOK

(* What the monitors do, by themselves or because they are told to. *)
LEMMA MonitorKeeps ==
  ASSUME SwTypeOK, OneAtMost, NEW m \in Monitors,
         Monitor!MonitorStep(m) \/ Monitor!Sigkill(m) \/ Monitor!SendSignal(m, "TERM")
  PROVE  /\ OneAtMost'
         /\ SwSettled => SwSettled'
         /\ ~NoMonitor
<1>1. /\ Monitor!MonitorTypeOK'
      /\ mon[m] # "none" /\ mon'[m] # "launched"
      /\ \A n \in Monitors \ {m} : mon'[n] = mon[n]
      /\ mon'[m] # "none" => pidfile' = IF mon[m] = "launched" THEN m ELSE pidfile
      /\ \A c \in Children : parent'[c] # parent[c] /\ parent'[c] # None => parent'[c] = m
      /\ mon'[m] = "none" => \A c \in Children : parent'[c] # m
  BY MonitorFacts DEF SwTypeOK
<1>2. \A n \in Monitors \ {m} : mon[n] = "none" /\ mon'[n] = "none"
  BY <1>1 DEF OneAtMost
<1>3. \A c \in Children : parent'[c] \in Monitors \cup {None}
  BY <1>1 DEF Monitor!MonitorTypeOK
<1>4. ASSUME NEW c \in Children, parent'[c] # None PROVE mon'[parent'[c]] # "none"
  <2>1. parent'[c] = m
    <3>1. CASE parent'[c] = parent[c]
      <4>1. mon[parent'[c]] # "none" /\ parent'[c] \in Monitors
        BY <1>3, <1>4, <3>1 DEF OneAtMost
      <4> QED BY <1>2, <4>1
    <3>2. CASE parent'[c] # parent[c]
      BY <1>1, <1>4, <3>2
    <3> QED BY <3>1, <3>2
  <2> QED BY <1>1, <2>1
<1>5. ASSUME mon'[m] \notin {"none", "launched"} PROVE pidfile' = m
  BY <1>1, <1>5 DEF OneAtMost
<1>6. SwSettled => SwSettled'
  BY <1>1, <1>2 DEF SwSettled
<1>7. ~NoMonitor
  BY <1>1 DEF NoMonitor
<1> QED BY <1>1, <1>2, <1>4, <1>5, <1>6, <1>7 DEF OneAtMost

LEMMA SwTypeKept ==
  ASSUME SwTypeOK, [SwNext]_swVars
  PROVE  SwTypeOK' /\ (swMisled => swMisled')
<1> DEFINE SwOpType == [name : {"none", "create", "read", "update", "delete"}, want : {"running", "stopped"},
                      at : {"idle", "look", "ready", "stop", "term", "wait", "waited", "killMonitor",
                            "killSwtpm", "killed", "last", "remove"},
                      seen : BOOLEAN]
           SwSavedType == {"absent", "running", "stopped", "lost", "deleted"}
           HostType == Monitor!MonitorTypeOK
           HandlerType == swOp \in SwOpType /\ swSaved \in SwSavedType
<1>0. HostType /\ HandlerType /\ swFile \in Children \cup {None} /\ swMisled \in BOOLEAN /\ None \notin Monitors \cup Children
  BY SwAssumption DEF SwTypeOK
<1>1. SUFFICES HostType' /\ HandlerType' /\ swFile' \in Children \cup {None} /\ swMisled' \in BOOLEAN
               /\ (swMisled => swMisled')
  BY DEF SwTypeOK
<1>2. ASSUME UNCHANGED swHost PROVE HostType'
  BY <1>0, <1>2 DEF swHost, Monitor!MonitorTypeOK
<1>3. ASSUME NEW m \in Monitors, Monitor!MonitorStep(m) \/ Monitor!Sigkill(m) \/ Monitor!SendSignal(m, "TERM")
      PROVE  HostType'
  BY <1>0, <1>3, MonitorFacts
<1>4. ASSUME NEW c \in Children, Monitor!ChildUp(c) \/ Monitor!ChildExits(c) PROVE HostType'
  <2>1. UNCHANGED <<mon, pending, job, failures, delay, pidfile>>
    BY <1>4 DEF Monitor!ChildUp, Monitor!ChildExits, Monitor!monitorVars
  <2>2. /\ kid' \in [Children -> {"none", "booting", "up", "ending"}]
        /\ parent' \in [Children -> Monitors \cup {None}]
    BY <1>0, <1>4 DEF Monitor!ChildUp, Monitor!ChildExits, Monitor!MonitorTypeOK
  <2> QED BY <1>0, <2>1, <2>2 DEF Monitor!MonitorTypeOK
<1>5. ASSUME NEW from, NEW to \in {"stop", "term", "wait", "waited", "killMonitor", "killSwtpm", "killed", "last", "ready"},
             SwGoto(from, to), swSaved' = swSaved
      PROVE  HandlerType'
  BY <1>0, <1>5 DEF SwGoto
<1>6. SwIdle \in SwOpType
  BY DEF SwIdle
<1>7. ASSUME SwFail PROVE HandlerType'
  BY <1>0, <1>6, <1>7 DEF SwFail
<1>8. ASSUME NEW s \in SwSavedType, SwSucceed(s) PROVE HandlerType'
  BY <1>6, <1>8 DEF SwSucceed
<1>9. CASE \E name \in {"create", "read", "update", "delete"} : SwCall(name)
  <2>1. HandlerType'
    BY <1>0, <1>9 DEF SwCall
  <2> QED BY <1>0, <1>2, <1>9, <2>1 DEF SwCall
<1>10. CASE SwAgrees
  <2>1. swOp.want \in SwSavedType
    BY <1>0
  <2> QED BY <1>0, <1>2, <1>8, <1>10, <2>1 DEF SwAgrees
<1>11. CASE SwToStop
  BY <1>0, <1>2, <1>5, <1>11 DEF SwToStop
<1>12. CASE \E m \in Monitors : startSwTPM(m)
  <2>1. PICK m \in Monitors : startSwTPM(m)
    BY <1>12
  <2>2. ASSUME Monitor!Launch(m) PROVE HostType'
    <3>1. mon' = [mon EXCEPT ![m] = "launched"] /\ UNCHANGED <<pending, job, failures, delay, pidfile, kid, parent>>
      BY <2>2 DEF Monitor!Launch, Monitor!step, Monitor!childVars
    <3> QED BY <1>0, <3>1 DEF Monitor!MonitorTypeOK, Monitor!Stages, Monitor!Untrapped
  <2>3. HandlerType'
    BY <1>5, <1>7, <2>1 DEF startSwTPM
  <2>4. HostType'
    BY <1>2, <2>1, <2>2 DEF startSwTPM
  <2>5. swMisled' \in BOOLEAN /\ (swMisled => swMisled')
    <3>1. swMisled' = (swMisled \/ (readMonitorPID /\ mon' # mon))
      BY <2>1 DEF startSwTPM
    <3> QED BY <1>0, <3>1
  <2>6. swFile' \in Children \cup {None}
    BY <1>0, <2>1 DEF startSwTPM
  <2> QED BY <2>3, <2>4, <2>5, <2>6
<1>13. CASE waitSwTPMReady
  BY <1>0, <1>2, <1>7, <1>8, <1>13 DEF waitSwTPMReady
<1>14. CASE SwLook
  <2>1. PICK go \in {<<"stop", "term">>, <<"wait", "waited">>, <<"killed", "last">>}, seen \in SwMonitorSeen :
          swOp.at = go[1] /\ swOp' = [swOp EXCEPT !.at = go[2], !.seen = seen]
    BY <1>14 DEF SwLook
  <2>2. go[2] \in {"term", "waited", "last"}
    OBVIOUS
  <2>3. seen \in BOOLEAN
    BY DEF SwMonitorSeen, readMonitorPID
  <2>4. swOp' \in SwOpType
    BY <1>0, <2>1, <2>2, <2>3
  <2> QED BY <1>0, <1>2, <1>14, <2>4 DEF SwLook
<1>15. CASE SwGone
  <2>1. HandlerType'
    <3>1. CASE swOp' = [swOp EXCEPT !.at = "remove"] /\ UNCHANGED swSaved
      BY <1>0, <3>1
    <3> QED BY <1>8, <1>15, <3>1 DEF SwGone, SwStopped
  <2>2. swMisled' \in BOOLEAN /\ (swMisled => swMisled')
    <3>1. swMisled' = (swMisled \/ (readMonitorPID /\ swOp.name = "delete"))
      BY <1>15 DEF SwGone
    <3> QED BY <1>0, <3>1
  <2> QED BY <1>0, <1>2, <1>15, <2>1, <2>2 DEF SwGone
<1>16. CASE SwTerm
  <2>1. HostType'
    <3>1. CASE ~swOp.seen /\ kid' = [kid EXCEPT ![swFile] = "ending"]
               /\ UNCHANGED <<mon, pending, job, failures, delay, pidfile, parent>>
      BY <1>0, <3>1 DEF Monitor!MonitorTypeOK
    <3>2. CASE readMonitorPID /\ Monitor!SendSignal(pidfile, "TERM")
      <4>1. pidfile \in Monitors
        BY <1>0, <3>2 DEF readMonitorPID, Monitor!MonitorTypeOK
      <4> QED BY <1>3, <3>2, <4>1
    <3>3. CASE UNCHANGED swHost
      BY <1>2, <3>3
    <3> QED BY <1>16, <3>1, <3>2, <3>3 DEF SwTerm
  <2> QED BY <1>0, <1>5, <1>16, <2>1 DEF SwTerm
<1>17. CASE SwNotGone
  BY <1>0, <1>2, <1>5, <1>17 DEF SwNotGone
<1>18. CASE SwKillMonitor
  <2>1. PICK seen \in SwMonitorSeen :
          /\ swOp' = [swOp EXCEPT !.at = "killSwtpm", !.seen = seen]
          /\ IF seen THEN Monitor!Sigkill(pidfile) ELSE UNCHANGED swHost
    BY <1>18 DEF SwKillMonitor
  <2>2. seen \in BOOLEAN /\ (seen => pidfile \in Monitors)
    BY <1>0 DEF SwMonitorSeen, readMonitorPID, Monitor!MonitorTypeOK
  <2>3. swOp' \in SwOpType
    BY <1>0, <2>1, <2>2
  <2>4. HostType'
    BY <1>2, <1>3, <2>1, <2>2
  <2> QED BY <1>0, <1>18, <2>3, <2>4 DEF SwKillMonitor
<1>19. CASE SwKillSwtpm
  <2>1. readSwTPMPID => swFile \in Children
    BY <1>0 DEF readSwTPMPID
  <2>2. HostType'
    BY <1>2, <1>4, <1>19, <2>1 DEF SwKillSwtpm
  <2> QED BY <1>0, <1>5, <1>19, <2>2 DEF SwKillSwtpm
<1>20. CASE SwStopFails
  BY <1>0, <1>2, <1>7, <1>20 DEF SwStopFails
<1>21. CASE SwRemove
  <2>1. CASE /\ SwSucceed("deleted") /\ pidfile' = None /\ swFile' = None
             /\ UNCHANGED <<mon, pending, job, failures, delay, kid, parent>>
    <3>1. HostType'
      BY <1>0, <2>1 DEF Monitor!MonitorTypeOK
    <3> QED BY <1>0, <1>8, <1>21, <2>1, <3>1 DEF SwRemove
  <2>2. CASE SwFail /\ UNCHANGED <<swHost, swFile>>
    BY <1>0, <1>2, <1>7, <1>21, <2>2 DEF SwRemove
  <2> QED BY <1>21, <2>1, <2>2 DEF SwRemove
<1>22. CASE \E m \in Monitors : SwMonitorRuns(m) \/ SwMonitorDies(m)
  BY <1>0, <1>3, <1>22 DEF SwMonitorRuns, SwMonitorDies
<1>23. CASE \E c \in Children : SwtpmUp(c) \/ SwtpmExits(c)
  <2>1. PICK c \in Children : SwtpmUp(c) \/ SwtpmExits(c)
    BY <1>23
  <2>2. /\ UNCHANGED <<swSaved, swOp, swMisled>> /\ swFile' \in {swFile, None, c}
        /\ Monitor!ChildUp(c) \/ Monitor!ChildExits(c)
    BY <2>1 DEF SwtpmUp, SwtpmExits
  <2> QED BY <1>0, <1>4, <2>2
<1>24. CASE UNCHANGED swVars
  BY <1>0, <1>2, <1>24 DEF swVars
<1> QED BY <1>9, <1>10, <1>11, <1>12, <1>13, <1>14, <1>15, <1>16, <1>17, <1>18, <1>19, <1>20, <1>21, <1>22, <1>23,
           <1>24 DEF SwNext

LEMMA SwKept ==
  ASSUME SwTypeOK, OneAtMost, HandlerKnows, [SwNext]_swVars, ~swMisled'
  PROVE  OneAtMost' /\ HandlerKnows'
<1>0. OneAtMost /\ HandlerKnows /\ SwTypeOK /\ SwTypeOK' /\ None \notin Monitors \cup Children
  BY SwTypeKept, SwAssumption
<1>2. ASSUME UNCHANGED swHost PROVE OneAtMost' /\ (SwSettled' <=> SwSettled) /\ (NoMonitor' <=> NoMonitor)
  BY <1>0, <1>2 DEF swHost, OneAtMost, SwSettled, NoMonitor
<1>3. ASSUME NEW m \in Monitors,
             Monitor!MonitorStep(m) \/ Monitor!Sigkill(m) \/ Monitor!SendSignal(m, "TERM")
      PROVE  OneAtMost' /\ (SwSettled => SwSettled') /\ ~NoMonitor
  BY <1>3, MonitorKeeps
<1>4. ASSUME NEW c \in Children, Monitor!ChildUp(c) \/ Monitor!ChildExits(c)
      PROVE  OneAtMost' /\ (SwSettled' <=> SwSettled) /\ (NoMonitor' <=> NoMonitor)
  <2>1. UNCHANGED <<mon, pending, job, failures, delay, pidfile>>
    BY <1>4 DEF Monitor!ChildUp, Monitor!ChildExits, Monitor!monitorVars
  <2>2. \A d \in Children : parent'[d] = parent[d] \/ parent'[d] = None
    BY <1>0, <1>4 DEF Monitor!ChildUp, Monitor!ChildExits, SwTypeOK, Monitor!MonitorTypeOK
  <2> QED BY <1>0, <2>1, <2>2 DEF SwSettled, NoMonitor, OneAtMost
<1>5. ASSUME NEW from, NEW to \in {"stop", "term", "wait", "waited", "killMonitor", "killSwtpm", "killed", "last", "ready"},
             SwGoto(from, to)
      PROVE  swOp.at = from /\ swOp'.at = to /\ ~swOp'.seen
  BY <1>0, <1>5 DEF SwGoto, SwTypeOK
<1>6. SwIdle.at = "idle"
  BY DEF SwIdle
<1>7. ASSUME SwFail PROVE swOp' = SwIdle /\ (swSaved' = "deleted" => swSaved = "deleted")
  BY <1>7 DEF SwFail
<1>8. ASSUME NEW s, SwSucceed(s) PROVE swOp' = SwIdle /\ swSaved' = s
  BY <1>8 DEF SwSucceed
<1>9. CASE \E name \in {"create", "read", "update", "delete"} : SwCall(name)
  <2>1. PICK name \in {"create", "read", "update", "delete"} : SwCall(name)
    BY <1>9
  <2>2. UNCHANGED <<swHost, swFile, swSaved>> /\ SwSettled
    BY <2>1 DEF SwCall
  <2>3. PICK want \in {"running", "stopped"} :
          /\ CASE name = "create" -> swSaved = "absent"
               [] name = "read"   -> swSaved = want
               [] name = "update" -> swSaved \in {"running", "stopped"}
               [] name = "delete" -> swSaved \in {"running", "stopped"} /\ want = "stopped"
          /\ swOp' = [name |-> name, want |-> want, at |-> IF name = "delete" THEN "stop" ELSE "look", seen |-> FALSE]
    BY <2>1 DEF SwCall
  <2>4. swSaved # "deleted"
    BY <2>3
  <2>5. swOp'.at \in {"stop", "look"}
    BY <2>3
  <2> QED BY <1>0, <1>2, <2>2, <2>4, <2>5 DEF HandlerKnows
<1>10. CASE SwAgrees
  <2>1. UNCHANGED <<swHost, swFile>> /\ swOp' = SwIdle /\ swSaved' = swOp.want
    BY <1>10 DEF SwAgrees, SwSucceed
  <2>2. swSaved' # "deleted"
    BY <1>0, <2>1 DEF SwTypeOK
  <2> QED BY <1>0, <1>2, <1>6, <2>1, <2>2 DEF HandlerKnows
<1>11. CASE SwToStop
  <2>1. UNCHANGED <<swHost, swFile, swSaved>> /\ SwGoto("look", "stop")
    BY <1>11 DEF SwToStop
  <2> QED BY <1>0, <1>2, <1>5, <2>1 DEF HandlerKnows
<1>12. CASE \E m \in Monitors : startSwTPM(m)
  <2>1. PICK m \in Monitors : startSwTPM(m)
    BY <1>12
  <2>2. swOp.at = "look" /\ SwSettled /\ swSaved # "deleted"
    <3>1. swOp.at = "look"
      BY <1>5, <2>1 DEF startSwTPM
    <3> QED BY <1>0, <3>1 DEF HandlerKnows
  <2>3. ASSUME Monitor!Launch(m) PROVE OneAtMost'
    <3>1. /\ mon' = [mon EXCEPT ![m] = "launched"] /\ mon[m] = "none"
          /\ UNCHANGED <<pending, job, failures, delay, pidfile, kid, parent>>
      BY <2>3 DEF Monitor!Launch, Monitor!step, Monitor!childVars
    <3>2. mon \in [Monitors -> Monitor!Stages] /\ parent \in [Children -> Monitors \cup {None}]
      BY <1>0 DEF SwTypeOK, Monitor!MonitorTypeOK
    <3>3. mon' # mon
      BY <3>1, <3>2
    <3>4. ~readMonitorPID
      BY <2>1, <3>3 DEF startSwTPM
    <3>5. NoMonitor
      BY <1>0, <2>2, <3>4, MonitorFound
    <3>6. \A n \in Monitors : mon'[n] = IF n = m THEN "launched" ELSE "none"
      BY <3>1, <3>2, <3>5 DEF NoMonitor
    <3>7. \A c \in Children : parent'[c] = None
      BY <1>0, <3>1, <3>2, <3>5 DEF NoMonitor, OneAtMost
    <3> QED BY <3>6, <3>7 DEF OneAtMost
  <2>4. OneAtMost'
    BY <1>2, <2>1, <2>3 DEF startSwTPM
  <2>5. CASE SwGoto("look", "ready") /\ swSaved' = swSaved
    BY <1>5, <2>2, <2>4, <2>5 DEF HandlerKnows
  <2>6. CASE SwFail
    BY <1>6, <1>7, <2>2, <2>4, <2>6 DEF HandlerKnows
  <2> QED BY <2>1, <2>5, <2>6 DEF startSwTPM
<1>13. CASE waitSwTPMReady
  <2>1. swOp.at = "ready" /\ UNCHANGED <<swHost, swFile>> /\ (SwSucceed("running") \/ SwFail)
    BY <1>13 DEF waitSwTPMReady
  <2>2. swSaved # "deleted"
    BY <1>0, <2>1 DEF HandlerKnows
  <2> QED BY <1>0, <1>2, <1>6, <1>7, <1>8, <2>1, <2>2 DEF HandlerKnows
<1>14. CASE SwLook
  <2>1. PICK go \in {<<"stop", "term">>, <<"wait", "waited">>, <<"killed", "last">>}, seen \in SwMonitorSeen :
          swOp.at = go[1] /\ swOp' = [swOp EXCEPT !.at = go[2], !.seen = seen]
    BY <1>14 DEF SwLook
  <2>2. swOp.at \in {"stop", "wait", "killed"} /\ swOp'.at \in {"term", "waited", "last"}
    BY <1>0, <2>1 DEF SwTypeOK
  <2>3. UNCHANGED <<swHost, swFile, swSaved>>
    BY <1>14 DEF SwLook
  <2> QED BY <1>0, <1>2, <2>2, <2>3 DEF HandlerKnows
<1>15. CASE SwGone
  <2>1. swOp.at \in {"term", "waited", "last"} /\ UNCHANGED <<swHost, swFile>> /\ SwStopped
        /\ (swOp.name = "delete" => ~readMonitorPID)
    BY <1>15 DEF SwGone
  <2>2. SwSettled /\ swSaved # "deleted"
    BY <1>0, <2>1 DEF HandlerKnows
  <2>3. CASE swOp.name = "delete" /\ swOp' = [swOp EXCEPT !.at = "remove"] /\ swSaved' = swSaved
    <3>1. NoMonitor /\ swOp'.at = "remove"
      BY <1>0, <2>1, <2>2, <2>3, MonitorFound DEF SwTypeOK
    <3> QED BY <1>0, <1>2, <2>1, <2>2, <2>3, <3>1 DEF HandlerKnows
  <2>4. CASE SwSucceed("stopped")
    BY <1>0, <1>2, <1>6, <1>8, <2>1, <2>2, <2>4 DEF HandlerKnows
  <2> QED BY <2>1, <2>3, <2>4 DEF SwStopped
<1>16. CASE SwTerm
  <2>1. SwGoto("term", "wait") /\ UNCHANGED <<swFile, swSaved>>
    BY <1>16 DEF SwTerm
  <2>2. OneAtMost' /\ (SwSettled => SwSettled')
    <3>1. CASE ~swOp.seen /\ kid' = [kid EXCEPT ![swFile] = "ending"]
               /\ UNCHANGED <<mon, pending, job, failures, delay, pidfile, parent>>
      BY <1>0, <3>1 DEF SwSettled, OneAtMost
    <3>2. CASE readMonitorPID /\ Monitor!SendSignal(pidfile, "TERM")
      <4>1. pidfile \in Monitors
        BY <1>0, <3>2 DEF readMonitorPID, SwTypeOK, Monitor!MonitorTypeOK
      <4> QED BY <1>3, <3>2, <4>1
    <3>3. CASE UNCHANGED swHost
      BY <1>0, <1>2, <3>3
    <3> QED BY <1>16, <3>1, <3>2, <3>3 DEF SwTerm
  <2> QED BY <1>0, <1>5, <2>1, <2>2 DEF HandlerKnows
<1>17. CASE SwNotGone
  <2>1. UNCHANGED <<swHost, swFile, swSaved>>
        /\ (SwGoto("waited", "wait") \/ SwGoto("waited", "killMonitor") \/ SwGoto("last", "killed"))
    BY <1>17 DEF SwNotGone
  <2>2. CASE SwGoto("waited", "wait") \/ SwGoto("waited", "killMonitor")
    BY <1>0, <1>2, <1>5, <2>1, <2>2 DEF HandlerKnows
  <2>3. CASE SwGoto("last", "killed")
    BY <1>0, <1>2, <1>5, <2>1, <2>3 DEF HandlerKnows
  <2> QED BY <2>1, <2>2, <2>3
<1>18. CASE SwKillMonitor
  <2>1. PICK seen \in SwMonitorSeen :
          /\ swOp' = [swOp EXCEPT !.at = "killSwtpm", !.seen = seen]
          /\ IF seen THEN Monitor!Sigkill(pidfile) ELSE UNCHANGED swHost
    BY <1>18 DEF SwKillMonitor
  <2>2. swOp.at = "killMonitor" /\ swOp'.at = "killSwtpm" /\ swOp'.seen = seen /\ swSaved' = swSaved
    BY <1>0, <1>18, <2>1 DEF SwKillMonitor, SwTypeOK
  <2>3. SwSettled /\ swSaved # "deleted"
    BY <1>0, <2>2 DEF HandlerKnows
  <2>4. OneAtMost' /\ SwSettled' /\ (seen => NoMonitor')
    <3>1. CASE seen
      <4>1. pidfile \in Monitors /\ Monitor!Sigkill(pidfile)
        BY <1>0, <2>1, <2>3, <3>1, MonitorFound DEF SwMonitorSeen
      <4>2. mon[pidfile] # "none" /\ mon' = [mon EXCEPT ![pidfile] = "none"]
        BY <4>1 DEF Monitor!Sigkill, Monitor!Vanish, Monitor!Running
      <4>3. NoMonitor'
        BY <1>0, <4>1, <4>2 DEF NoMonitor, OneAtMost, SwTypeOK, Monitor!MonitorTypeOK
      <4> QED BY <1>3, <2>3, <4>1, <4>3
    <3>2. CASE ~seen
      BY <1>2, <2>1, <2>3, <3>2
    <3> QED BY <3>1, <3>2
  <2> QED BY <2>2, <2>3, <2>4 DEF HandlerKnows
<1>19. CASE SwKillSwtpm
  <2>1. SwGoto("killSwtpm", "killed") /\ UNCHANGED <<swFile, swSaved>>
    BY <1>19 DEF SwKillSwtpm
  <2>2. OneAtMost' /\ (SwSettled' <=> SwSettled)
    <3>1. CASE readSwTPMPID /\ Monitor!ChildExits(swFile)
      <4>1. swFile \in Children
        BY <1>0, <3>1 DEF readSwTPMPID, SwTypeOK
      <4> QED BY <1>4, <3>1, <4>1
    <3>2. CASE UNCHANGED swHost
      BY <1>2, <3>2
    <3> QED BY <1>19, <3>1, <3>2 DEF SwKillSwtpm
  <2> QED BY <1>0, <1>5, <2>1, <2>2 DEF HandlerKnows
<1>20. CASE SwStopFails
  <2>1. UNCHANGED <<swHost, swFile>> /\ SwFail /\ swOp.at # "idle"
    BY <1>20 DEF SwStopFails
  <2> QED BY <1>0, <1>2, <1>6, <1>7, <2>1 DEF HandlerKnows
<1>21. CASE SwRemove
  <2>1. NoMonitor /\ swSaved # "deleted" /\ swOp.at = "remove"
    BY <1>0, <1>21 DEF SwRemove, HandlerKnows
  <2>2. CASE /\ SwSucceed("deleted") /\ pidfile' = None /\ swFile' = None
             /\ UNCHANGED <<mon, pending, job, failures, delay, kid, parent>>
    <3>1. OneAtMost' /\ NoMonitor'
      BY <1>0, <2>1, <2>2 DEF NoMonitor, OneAtMost
    <3> QED BY <1>6, <1>8, <2>2, <3>1 DEF HandlerKnows
  <2>3. CASE SwFail /\ UNCHANGED <<swHost, swFile>>
    BY <1>0, <1>2, <1>6, <1>7, <2>1, <2>3 DEF HandlerKnows
  <2> QED BY <1>21, <2>2, <2>3 DEF SwRemove
<1>22. CASE \E m \in Monitors : SwMonitorRuns(m) \/ SwMonitorDies(m)
  <2>1. PICK m \in Monitors : SwMonitorRuns(m) \/ SwMonitorDies(m)
    BY <1>22
  <2>2. UNCHANGED <<swFile, swSaved, swOp>> /\ (Monitor!MonitorStep(m) \/ Monitor!Sigkill(m))
    BY <2>1 DEF SwMonitorRuns, SwMonitorDies
  <2>3. OneAtMost' /\ (SwSettled => SwSettled') /\ ~NoMonitor
    BY <1>3, <2>2
  <2> QED BY <1>0, <2>2, <2>3 DEF HandlerKnows
<1>23. CASE \E c \in Children : SwtpmUp(c) \/ SwtpmExits(c)
  <2>1. PICK c \in Children : SwtpmUp(c) \/ SwtpmExits(c)
    BY <1>23
  <2>2. /\ UNCHANGED <<swSaved, swOp>> /\ swFile' \in {swFile, None, c}
        /\ Monitor!ChildUp(c) \/ Monitor!ChildExits(c)
    BY <2>1 DEF SwtpmUp, SwtpmExits
  <2>3. OneAtMost' /\ (SwSettled' <=> SwSettled) /\ (NoMonitor' <=> NoMonitor)
    BY <1>4, <2>2
  <2> QED BY <1>0, <2>2, <2>3 DEF HandlerKnows
<1>24. CASE UNCHANGED swVars
  <2>1. UNCHANGED <<swHost, swFile, swSaved, swOp>>
    BY <1>24 DEF swVars
  <2> QED BY <1>0, <1>2, <2>1 DEF HandlerKnows
<1> QED BY <1>9, <1>10, <1>11, <1>12, <1>13, <1>14, <1>15, <1>16, <1>17, <1>18, <1>19, <1>20, <1>21, <1>22, <1>23,
           <1>24 DEF SwNext

LEMMA SwAlways == SwSpec => []SwInv
<1>1. ASSUME SwInit PROVE SwInv
  <2>1. /\ mon = [m \in Monitors |-> "none"] /\ parent = [c \in Children |-> None] /\ pidfile = None
        /\ pending = [m \in Monitors |-> {}] /\ job = [m \in Monitors |-> None]
        /\ failures = [m \in Monitors |-> 0] /\ delay = [m \in Monitors |-> RestartDelay]
        /\ kid = [c \in Children |-> "none"]
        /\ swFile = None /\ swSaved = "absent" /\ swOp = SwIdle /\ swMisled = FALSE
    BY <1>1 DEF SwInit, Monitor!Init
  <2>2. Monitor!MonitorTypeOK
    BY <2>1, SwAssumption DEF Monitor!MonitorTypeOK, Monitor!Stages
  <2>3. HandlerKnows
    BY <2>1 DEF HandlerKnows, SwIdle
  <2> QED BY <2>1, <2>2, <2>3 DEF SwInv, OneAtMost, SwTypeOK, SwIdle
<1>2. SwInv /\ [SwNext]_swVars => SwInv'
  BY SwTypeKept, SwKept DEF SwInv
<1> QED BY <1>1, <1>2, PTL DEF SwSpec

(* The resource, its handlers and all processes keep their types. *)
THEOREM SwTyping == SwSpec => []SwTypeOK
<1>1. SwInv => SwTypeOK
  BY DEF SwInv
<1> QED BY <1>1, SwAlways, PTL

(* However often starts, stops and looks fail and whenever the processes     *)
(* end: there is one monitor at most, and none after a Delete (startSwTPM,   *)
(* stopSwTPM and waitSwTPMGone), unless a start or a Delete went by a look   *)
(* that failed.                                                              *)
THEOREM OneMonitor == SwSpec => []SwOneMonitor
<1>1. SwInv => SwOneMonitor
  BY DEF SwInv, SwOneMonitor, OneAtMost, HandlerKnows, NoMonitor
<1> QED BY <1>1, SwAlways, PTL

(* A monitor has one swtpm at most, and of all that have a monitor there is  *)
(* one at most as long as no failed look was acted on.                       *)
SwOneSwtpm ==
  \A c, d \in Children :
    /\ Monitor!Alive(c) /\ Monitor!Alive(d) /\ parent[c] # None /\ parent[d] # None
    /\ parent[c] = parent[d] \/ ~swMisled
    => c = d

LEMMA OnlyJobKept ==
  ASSUME SwTypeOK, Proofs!OnlyJob, [SwNext]_swVars
  PROVE  Proofs!OnlyJob'
<1>0. Monitor!MonitorTypeOK /\ Proofs!ChildInv
  BY SameMonitor DEF SwTypeOK, Monitor!MonitorTypeOK, Proofs!MonitorTypeOK, Monitor!Stages, Proofs!Stages,
     Monitor!Untrapped, Proofs!Untrapped, Monitor!Looping, Proofs!Looping, Proofs!ChildInv
<1>1. ASSUME NEW m \in Monitors, Monitor!MonitorStep(m) \/ Monitor!Sigkill(m) \/ Monitor!SendSignal(m, "TERM")
                                   \/ Monitor!Launch(m)
      PROVE  Proofs!OnlyJob'
  <2>1. Proofs!MonitorAct(m)
    BY <1>1, SameMonitor DEF Proofs!MonitorAct
  <2> QED BY <1>0, <2>1, SwAssumption, Proofs!MonitorOnlyJob
<1>2. ASSUME NEW c \in Children, Monitor!ChildUp(c) \/ Monitor!ChildExits(c) PROVE Proofs!OnlyJob'
  <2>1. Proofs!ChildAct(c)
    BY <1>2 DEF Proofs!ChildAct, Monitor!ChildUp, Proofs!ChildUp, Monitor!ChildExits, Proofs!ChildExits, Monitor!Alive,
       Proofs!Alive, Monitor!monitorVars, Proofs!monitorVars
  <2> QED BY <1>0, <2>1, SwAssumption, Proofs!ChildOnlyJob
<1>3. ASSUME UNCHANGED <<mon, pending, job, parent>>, \A c \in Children : kid'[c] = "none" <=> kid[c] = "none"
      PROVE  Proofs!OnlyJob'
  BY <1>3 DEF Proofs!OnlyJob, Proofs!Offspring, Proofs!Alive
<1>4. UNCHANGED swHost => Proofs!OnlyJob'
  BY <1>3 DEF swHost
<1>5. CASE SwTerm
  <2>1. CASE ~swOp.seen /\ kid' = [kid EXCEPT ![swFile] = "ending"]
             /\ UNCHANGED <<mon, pending, job, failures, delay, pidfile, parent>>
    <3>1. kid[swFile] # "none"
      BY <1>5, <2>1 DEF SwTerm, readSwTPMPID
    <3> QED BY <1>0, <1>3, <2>1, <3>1 DEF Monitor!MonitorTypeOK
  <2>2. CASE readMonitorPID /\ Monitor!SendSignal(pidfile, "TERM")
    <3>1. pidfile \in Monitors
      BY <1>0, <2>2 DEF readMonitorPID, Monitor!MonitorTypeOK
    <3> QED BY <1>1, <2>2, <3>1
  <2>3. CASE UNCHANGED swHost
    BY <1>4, <2>3
  <2> QED BY <1>5, <2>1, <2>2, <2>3 DEF SwTerm
<1>6. CASE SwKillMonitor
  <2>1. PICK seen \in SwMonitorSeen : IF seen THEN Monitor!Sigkill(pidfile) ELSE UNCHANGED swHost
    BY <1>6 DEF SwKillMonitor
  <2>2. seen => pidfile \in Monitors
    BY <1>0 DEF SwMonitorSeen, readMonitorPID, Monitor!MonitorTypeOK
  <2> QED BY <1>1, <1>4, <2>1, <2>2
<1>7. CASE SwKillSwtpm
  <2>1. readSwTPMPID => swFile \in Children
    BY DEF SwTypeOK, readSwTPMPID
  <2> QED BY <1>2, <1>4, <1>7, <2>1 DEF SwKillSwtpm
<1>8. CASE \E m \in Monitors : startSwTPM(m)
  BY <1>1, <1>4, <1>8 DEF startSwTPM
<1>9. CASE SwRemove
  BY <1>3, <1>4, <1>9 DEF SwRemove
<1>monitors. CASE \E m \in Monitors : SwMonitorRuns(m) \/ SwMonitorDies(m)
  BY <1>1, <1>monitors DEF SwMonitorRuns, SwMonitorDies
<1>children. CASE \E c \in Children : SwtpmUp(c) \/ SwtpmExits(c)
  BY <1>2, <1>children DEF SwtpmUp, SwtpmExits
<1>handler. CASE \/ \E name \in {"create", "read", "update", "delete"} : SwCall(name)
                 \/ SwAgrees \/ SwToStop \/ waitSwTPMReady \/ SwLook \/ SwGone \/ SwNotGone \/ SwStopFails
  <2>1. UNCHANGED swHost
    BY <1>handler DEF SwCall, SwAgrees, SwToStop, waitSwTPMReady, SwLook, SwGone, SwNotGone, SwStopFails
  <2> QED BY <1>4, <2>1
<1>idle. CASE UNCHANGED swVars
  BY <1>4, <1>idle DEF swVars
<1> QED BY <1>5, <1>6, <1>7, <1>8, <1>9, <1>monitors, <1>children, <1>handler, <1>idle DEF SwNext

(* However often swtpm ends, is told to end and is started again, by its     *)
(* monitor or by the handlers: never two of them run under a monitor on one  *)
(* state directory, and under two monitors only once a start went by a look  *)
(* that failed.  One whose monitor was killed is not counted; only its PID   *)
(* file tells of it (process_monitor.bash and startSwTPM).                   *)
THEOREM OneSwtpm == SwSpec => []SwOneSwtpm
<1>1. SwInit => Proofs!OnlyJob
  BY DEF SwInit, Monitor!Init, Proofs!OnlyJob, Proofs!Offspring, Proofs!Alive
<1>2. SwInv /\ Proofs!OnlyJob /\ [SwNext]_swVars => Proofs!OnlyJob'
  BY OnlyJobKept DEF SwInv
<1>3. ASSUME SwInv, Proofs!OnlyJob PROVE SwOneSwtpm
  <2>1. SUFFICES ASSUME NEW c \in Children, NEW d \in Children, Monitor!Alive(c), Monitor!Alive(d),
                        parent[c] # None, parent[d] # None, parent[c] = parent[d] \/ ~swMisled
                 PROVE  c = d
    BY DEF SwOneSwtpm
  <2>2. parent[c] \in Monitors /\ parent[d] \in Monitors
    BY <1>3, <2>1 DEF SwInv, SwTypeOK, Monitor!MonitorTypeOK
  <2>3. parent[c] = parent[d]
    BY <1>3, <2>1, <2>2 DEF SwInv, OneAtMost
  <2>4. c \in Proofs!Offspring(parent[c]) /\ d \in Proofs!Offspring(parent[c])
    BY <2>1, <2>3 DEF Proofs!Offspring, Proofs!Alive, Monitor!Alive
  <2> QED BY <1>3, <2>2, <2>4 DEF Proofs!OnlyJob
<1> QED BY <1>1, <1>2, <1>3, SwAlways, PTL DEF SwSpec

(* stopSwTPM kills the monitor before it kills swtpm, so what it kills is    *)
(* not started again, unless it could not see the monitor.                   *)
THEOREM KillsOrphans == SwSpec => SwKillsOrphans
<1>1. ASSUME SwInv, [SwNext]_swVars
      PROVE  [SwKillSwtpm /\ swOp.seen /\ ~swMisled =>
                \A c \in Children : kid[c] # kid'[c] => parent[c] = None]_swVars
  <2>1. ASSUME SwKillSwtpm, swOp.seen, ~swMisled, NEW c \in Children PROVE parent[c] = None
    <3>1. NoMonitor /\ OneAtMost
      BY <1>1, <2>1 DEF SwKillSwtpm, SwGoto, SwInv, HandlerKnows
    <3>2. parent[c] \in Monitors \cup {None}
      BY <1>1 DEF SwInv, SwTypeOK, Monitor!MonitorTypeOK
    <3> QED BY <3>1, <3>2 DEF OneAtMost, NoMonitor
  <2> QED BY <2>1
<1> QED BY <1>1, SwAlways, PTL DEF SwSpec, SwKillsOrphans

-----------------------------------------------------------------------------
(* The processes of an edge node.                                          *)

(* What a handler does, and what of the resource is there meanwhile.       *)
NodePlaces ==
    [create  |-> {"disks", "gvproxy", "gvsock", "tpm", "vm", "pid", "pty", "tailer", "pins", "status"},
     install |-> {"disks", "vm", "ptywait", "tailer", "vmwait"},
     read    |-> {"status"},
     delete  |-> {"stop", "gvstop", "remove"}]

NodeOpInv ==
    /\ ndOp.name = "none"    => ndOp.at = "idle"
    /\ ndOp.name = "create"  => ndOp.at \in NodePlaces.create  /\ ndState = "absent" /\ ~ndConf.install
    /\ ndOp.name = "install" => ndOp.at \in NodePlaces.install /\ ndState = "absent" /\ ndConf.install
    /\ ndOp.name = "read"    => ndOp.at \in NodePlaces.read    /\ ndState = "kept"
    /\ ndOp.name = "delete"  => ndOp.at \in NodePlaces.delete  /\ ndState = "kept"
    /\ ndState = "kept" => ~ndConf.install
    /\ ndOp.at \in {"pid", "pty", "ptywait", "vmwait", "gvstop"} => ndConf.vm = "vfkit"
    /\ ndOp.at = "tpm" => ndConf.vm = "qemu"

(* What was not configured is not started, and before Create nothing is.    *)
NodeStartInv ==
    /\ ndConf.install => ndConf.vm = "vfkit" /\ ~ndConf.gvproxy
    /\ ~ndConf.gvproxy => gvproxy = "none" /\ ndOp.at # "gvproxy" /\ ndOp.at # "gvsock"
    /\ ndState = "absent" /\ ndOp.at \in {"idle", "disks", "gvproxy"} => vm = "none" /\ tailer = "none" /\ gvproxy = "none"
    /\ ndOp.name = "install" /\ ndOp.at = "vm" => vm = "none" /\ tailer = "none"
    /\ ndConf.vm = "qemu" =>
         /\ ~ndConf.serial => tailer = "none" /\ ndOp.at # "tailer"
         /\ ndState = "absent" /\ ndOp.at \in {"gvsock", "tpm", "vm", "tailer"} => tailer = "none"
         /\ ndState = "absent" /\ ndOp.at \in {"gvsock", "tpm", "vm"} => vm = "none"
         /\ ndOp.at = "tailer" => vm \in {"none", "starting"}

(* A tailer has a connection as long as there is a VM.  QEMU answers once   *)
(* it is served: the tailer has dialed it, and it gvproxy.                  *)
NodeServed ==
    /\ tailer = "connected" => vm # "none"
    /\ ndConf.vm = "qemu" =>
         /\ gvproxy = "serving" => vm # "none"
         /\ vm \in {"up", "paused", "quitting"} =>
              gvproxy \notin {"starting", "listening"} /\ tailer # "dialing"
         /\ vm = "quitting" => gvproxy \in {"none", "ending"}
         /\ ndState = "kept" \/ ndState = "deleted" =>
              vm # "starting" /\ gvproxy \notin {"starting", "listening"} /\ tailer # "dialing"

(* Everything that is left ends.                                           *)
WindingDown ==
    /\ vm \in {"none", "quitting"}
    /\ gvproxy \in {"none", "ending"}
    /\ tailer = "connected" => vm = "quitting"
    /\ tailer = "dialing" => ndConf.vm = "vfkit"

NodeOver ==
    /\ ~ndConf.remote
    /\ \/ ndState = "deleted" /\ ndRunning
       \/ ndConf.install /\ ndState \in {"installed", "lost"}

NodeStopped ==
    ~ndConf.remote =>
      /\ ndOp.at = "gvstop" => ndConf.vm = "vfkit" /\ vm \in {"none", "quitting"}
      /\ ndOp.at = "remove" /\ ndRunning => WindingDown
      /\ NodeOver => WindingDown

NodeInv == NodeTypeOK /\ NodeOpInv /\ NodeStartInv /\ NodeServed /\ NodeStopped

(* The hypervisor, and what of it was asked for. *)
LEMMA ConfKnown ==
    ASSUME NodeTypeOK
    PROVE  /\ ndConf.vm \in {"qemu", "vfkit"}
           /\ ndConf.remote \in BOOLEAN /\ ndConf.gvproxy \in BOOLEAN
           /\ ndConf.serial \in BOOLEAN /\ ndConf.install \in BOOLEAN
  BY NodeAssumption DEF NodeTypeOK

(* The steps of the processes, which leave the resource alone ...          *)
ProcessStep ==
    \/ GvproxyListens \/ VmBoots \/ VmPauses \/ TailerConnects
    \/ VmEnds \/ GvproxyEnds \/ TailerGivesUp \/ TailerEnds \/ VfOpensPty

(* ... those of a handler before the processes are there, in Create ...    *)
StartStep ==
    \/ PrepareDisks \/ StartGvproxy \/ GvproxyReady \/ WaitForSwTPMSocket
    \/ StartVm \/ StartTailer \/ ApplyCPUPins
    \/ VfPrepareDisks \/ VfStartGvproxy \/ VfStart \/ VfWritePid \/ parsePtyPath
    \/ waitForPtyPath \/ InstallTailer

(* ... those of Delete, and the ones a handler begins and ends with.       *)
StopStep == StopVm \/ StopFails \/ VfStop \/ VfStopGvproxy
CallStep == NodeCall \/ NodeFails \/ InstallEnds \/ StatusRead \/ StatusFails \/ RemoveNode

LEMMA NodeSteps == NodeNext <=> ProcessStep \/ StartStep \/ StopStep \/ CallStep
  BY DEF NodeNext, ProcessStep, StartStep, StopStep, CallStep

LEMMA ProcessStepLeaves == ProcessStep => UNCHANGED <<ndConf, ndState, ndRunning, ndOp>>
  BY DEF ProcessStep, GvproxyListens, VmBoots, VmPauses, TailerConnects, VmEnds, GvproxyEnds, TailerGivesUp,
         TailerEnds, VfOpensPty

(* Where a handler goes on. *)
LEMMA NodeGoesOn ==
    ASSUME NodeTypeOK, NEW from, NEW to, NodeAt(from, to)
    PROVE  ndOp.at = from /\ ndOp'.name = ndOp.name /\ ndOp'.at = to
  BY DEF NodeTypeOK, NodeAt

LEMMA NodeStarts == NodeInit => NodeInv
<1> SUFFICES ASSUME NodeInit PROVE NodeInv
  OBVIOUS
<1> USE DEF NodeInit, NodeIdle
<1>1. NodeTypeOK
  BY DEF NodeTypeOK
<1>2. ndConf.install => ndConf.vm = "vfkit" /\ ~ndConf.gvproxy
  BY <1>1, ConfKnown
<1>3. NodeOpInv
  BY DEF NodeOpInv
<1>4. NodeStartInv
  BY <1>2 DEF NodeStartInv
<1>5. NodeServed /\ NodeStopped
  BY DEF NodeServed, NodeStopped, NodeOver
<1> QED BY <1>1, <1>3, <1>4, <1>5 DEF NodeInv

LEMMA NodeTypesKept ==
    ASSUME NodeTypeOK, [NodeNext]_ndVars
    PROVE  NodeTypeOK'
<1> USE DEF NodeTypeOK
<1>1. CASE ProcessStep
  BY <1>1 DEF ProcessStep, GvproxyListens, VmBoots, VmPauses, TailerConnects, VmEnds, GvproxyEnds, TailerGivesUp,
              TailerEnds, VfOpensPty
<1>2. CASE StartStep
  BY <1>2 DEF StartStep, PrepareDisks, StartGvproxy, GvproxyReady, WaitForSwTPMSocket, StartVm, StartTailer,
              ApplyCPUPins, VfPrepareDisks, VfStartGvproxy, VfStart, VfWritePid, parsePtyPath, waitForPtyPath,
              InstallTailer, NodeAt
<1>3. CASE StopStep
  BY <1>3 DEF StopStep, StopVm, StopFails, VfStop, VfStopGvproxy, stopGvproxy, NodeAt
<1>4. CASE NodeCall \/ NodeFails \/ InstallEnds \/ StatusFails \/ RemoveNode
  <2>1. CASE NodeCall
    BY <2>1 DEF NodeCall, NodeIdle
  <2>2. CASE NodeFails
    BY <2>2 DEF NodeFails, NodeIdle
  <2>3. CASE InstallEnds
    <3>1. tailer' \in {"none", "ending", tailer}
      BY <2>3 DEF InstallEnds
    <3> QED BY <2>3, <3>1 DEF InstallEnds, NodeIdle
  <2>4. CASE StatusFails
    <3>1. ndState' \in {"lost", ndState}
      BY <2>4 DEF StatusFails
    <3> QED BY <2>4, <3>1 DEF StatusFails, NodeIdle
  <2>5. CASE RemoveNode
    BY <2>5 DEF RemoveNode, NodeIdle
  <2> QED BY <1>4, <2>1, <2>2, <2>3, <2>4, <2>5
<1>5. CASE StatusRead
  <2>1. SeenRunning \in BOOLEAN
    BY Zenon DEF SeenRunning
  <2> QED BY <1>5, <2>1 DEF StatusRead, NodeIdle
<1>6. CASE UNCHANGED ndVars BY <1>6 DEF ndVars
<1> QED BY <1>1, <1>2, <1>3, <1>4, <1>5, <1>6, NodeSteps DEF CallStep

LEMMA NodeOpKept ==
    ASSUME NodeInv, [NodeNext]_ndVars
    PROVE  NodeOpInv'
<1> USE ConfKnown DEF NodeInv, NodeTypeOK, NodeOpInv, NodePlaces
<1>1. CASE ProcessStep
  BY <1>1, ProcessStepLeaves
<1>2. CASE StartStep
  <2>1. ndConf' = ndConf /\ ndState' = ndState /\ ndOp'.name = ndOp.name
    BY <1>2 DEF StartStep, PrepareDisks, StartGvproxy, GvproxyReady, WaitForSwTPMSocket, StartVm, StartTailer,
                ApplyCPUPins, VfPrepareDisks, VfStartGvproxy, VfStart, VfWritePid, parsePtyPath, waitForPtyPath,
                InstallTailer, NodeAt
  <2>2. CASE PrepareDisks \/ StartGvproxy \/ GvproxyReady \/ WaitForSwTPMSocket \/ StartVm
    BY <2>1, <2>2 DEF PrepareDisks, StartGvproxy, GvproxyReady, WaitForSwTPMSocket, StartVm, NodeAt, NodeStartInv
  <2>3. CASE StartTailer \/ ApplyCPUPins
    BY <2>1, <2>3 DEF StartTailer, ApplyCPUPins, NodeAt, NodeStartInv
  <2>4. CASE VfPrepareDisks \/ VfStartGvproxy \/ VfStart \/ VfWritePid \/ parsePtyPath
    BY <2>1, <2>4 DEF VfPrepareDisks, VfStartGvproxy, VfStart, VfWritePid, parsePtyPath, NodeAt, NodeStartInv
  <2>5. CASE waitForPtyPath \/ InstallTailer
    BY <2>1, <2>5 DEF waitForPtyPath, InstallTailer, NodeAt, NodeStartInv
  <2> QED BY <1>2, <2>2, <2>3, <2>4, <2>5 DEF StartStep
<1>3. CASE StopStep
  BY <1>3 DEF StopStep, StopVm, StopFails, VfStop, VfStopGvproxy, NodeAt
<1>4. CASE CallStep
  BY <1>4 DEF CallStep, NodeCall, NodeFails, InstallEnds, StatusRead, StatusFails, RemoveNode, NodeIdle
<1>5. CASE UNCHANGED ndVars BY <1>5 DEF ndVars
<1> QED BY <1>1, <1>2, <1>3, <1>4, <1>5, NodeSteps

LEMMA NodeStartKept ==
    ASSUME NodeInv, [NodeNext]_ndVars
    PROVE  NodeStartInv'
<1> USE ConfKnown DEF NodeInv, NodeTypeOK, NodeStartInv
<1>1. CASE ProcessStep
  <2>1. UNCHANGED <<ndConf, ndState, ndRunning, ndOp>>
    BY <1>1, ProcessStepLeaves
  <2>2. CASE GvproxyListens \/ GvproxyEnds
    BY <2>1, <2>2 DEF GvproxyListens, GvproxyEnds
  <2>3. CASE VmBoots
    BY <2>1, <2>3 DEF VmBoots, NodeOpInv, NodePlaces
  <2>4. CASE VmPauses
    BY <2>1, <2>4 DEF VmPauses
  <2>5. CASE VmEnds
    <3>1. vm' = "none" /\ (tailer = "none" => tailer' = "none") /\ (gvproxy = "none" => gvproxy' = "none")
      BY <2>5 DEF VmEnds
    <3> QED BY <2>1, <3>1
  <2>6. CASE TailerConnects \/ TailerGivesUp \/ TailerEnds \/ VfOpensPty
    BY <2>1, <2>6 DEF TailerConnects, TailerGivesUp, TailerEnds, VfOpensPty
  <2> QED BY <1>1, <2>2, <2>3, <2>4, <2>5, <2>6 DEF ProcessStep
<1>2. CASE StartStep
  <2>1. CASE PrepareDisks \/ StartGvproxy \/ GvproxyReady \/ WaitForSwTPMSocket \/ StartVm
    BY <2>1 DEF PrepareDisks, StartGvproxy, GvproxyReady, WaitForSwTPMSocket, StartVm, NodeAt, NodeOpInv, NodePlaces
  <2>2. CASE StartTailer \/ ApplyCPUPins
    BY <2>2 DEF StartTailer, ApplyCPUPins, NodeAt, NodeOpInv, NodePlaces
  <2>3. CASE VfPrepareDisks \/ VfStartGvproxy \/ VfStart \/ VfWritePid \/ parsePtyPath
    BY <2>3 DEF VfPrepareDisks, VfStartGvproxy, VfStart, VfWritePid, parsePtyPath, NodeAt, NodeOpInv, NodePlaces
  <2>4. CASE waitForPtyPath \/ InstallTailer
    BY <2>4 DEF waitForPtyPath, InstallTailer, NodeAt, NodeOpInv, NodePlaces
  <2> QED BY <1>2, <2>1, <2>2, <2>3, <2>4 DEF StartStep
<1>3. CASE StopStep
  BY <1>3 DEF StopStep, StopVm, StopFails, VfStop, VfStopGvproxy, stopGvproxy, NodeAt, NodeOpInv, NodePlaces
<1>4. CASE CallStep
  BY <1>4 DEF CallStep, NodeCall, NodeFails, InstallEnds, StatusRead, StatusFails, RemoveNode, NodeIdle, NodeOpInv, NodePlaces
<1>5. CASE UNCHANGED ndVars BY <1>5 DEF ndVars
<1> QED BY <1>1, <1>2, <1>3, <1>4, <1>5, NodeSteps

LEMMA NodeServedKept ==
    ASSUME NodeInv, [NodeNext]_ndVars
    PROVE  NodeServed'
<1> USE ConfKnown DEF NodeInv, NodeTypeOK, NodeServed
<1>1. CASE ProcessStep
  <2>1. UNCHANGED <<ndConf, ndState, ndRunning, ndOp>>
    BY <1>1, ProcessStepLeaves
  <2>2. CASE GvproxyListens \/ GvproxyEnds
    BY <2>1, <2>2 DEF GvproxyListens, GvproxyEnds
  <2>3. CASE VmBoots
    BY <2>1, <2>3 DEF VmBoots, NodeStartInv
  <2>4. CASE VmPauses \/ VmEnds
    BY <2>1, <2>4 DEF VmPauses, VmEnds
  <2>5. CASE TailerConnects \/ TailerGivesUp \/ TailerEnds \/ VfOpensPty
    BY <2>1, <2>5 DEF TailerConnects, TailerGivesUp, TailerEnds, VfOpensPty
  <2> QED BY <1>1, <2>2, <2>3, <2>4, <2>5 DEF ProcessStep
<1>2. CASE StartStep
  <2>1. CASE PrepareDisks \/ GvproxyReady \/ WaitForSwTPMSocket \/ ApplyCPUPins
    BY <2>1 DEF PrepareDisks, GvproxyReady, WaitForSwTPMSocket, ApplyCPUPins
  <2>2. CASE StartGvproxy
    BY <2>2, NodeGoesOn DEF StartGvproxy, NodeOpInv, NodePlaces, NodeStartInv
  <2>3. CASE StartVm
    BY <2>3, NodeGoesOn DEF StartVm, NodeOpInv, NodePlaces, NodeStartInv
  <2>4. CASE StartTailer
    BY <2>4, NodeGoesOn DEF StartTailer, NodeOpInv, NodePlaces, NodeStartInv
  <2>5. CASE VfPrepareDisks \/ VfStartGvproxy \/ VfStart \/ VfWritePid \/ parsePtyPath
    BY <2>5 DEF VfPrepareDisks, VfStartGvproxy, VfStart, VfWritePid, parsePtyPath
  <2>6. CASE waitForPtyPath \/ InstallTailer
    BY <2>6 DEF waitForPtyPath, InstallTailer, NodeStartInv
  <2> QED BY <1>2, <2>1, <2>2, <2>3, <2>4, <2>5, <2>6 DEF StartStep
<1>3. CASE StopStep
  <2>1. CASE StopVm
    BY <2>1 DEF StopVm, stopGvproxy, Reachable
  <2>2. CASE StopFails
    BY <2>2 DEF StopFails
  <2>3. CASE VfStop \/ VfStopGvproxy
    <3>1. ndConf.vm = "vfkit" /\ UNCHANGED <<ndConf, tailer>>
      BY <2>3, NodeGoesOn DEF VfStop, VfStopGvproxy, NodeOpInv
    <3>2. vm # "none" /\ tailer = "connected" => vm' # "none"
      BY <2>3 DEF VfStop, VfStopGvproxy
    <3> QED BY <3>1, <3>2
  <2> QED BY <1>3, <2>1, <2>2, <2>3 DEF StopStep
<1>4. CASE CallStep
  <2>1. CASE NodeCall \/ NodeFails \/ RemoveNode
    BY <2>1 DEF NodeCall, NodeFails, RemoveNode, NodeOpInv, NodePlaces
  <2>2. CASE InstallEnds
    BY <2>2 DEF InstallEnds, NodeOpInv
  <2>3. CASE StatusRead
    BY <2>3 DEF StatusRead, Reachable
  <2>4. CASE StatusFails
    BY <2>4 DEF StatusFails
  <2> QED BY <1>4, <2>1, <2>2, <2>3, <2>4 DEF CallStep
<1>5. CASE UNCHANGED ndVars BY <1>5 DEF ndVars
<1> QED BY <1>1, <1>2, <1>3, <1>4, <1>5, NodeSteps

(* Once everything that is left ends, no step of a process starts anything. *)
LEMMA WindsDownOnly ==
    ASSUME NodeTypeOK, WindingDown, ProcessStep
    PROVE  WindingDown'
<1> USE ConfKnown, ProcessStepLeaves DEF NodeTypeOK, WindingDown
<1>1. CASE GvproxyListens \/ VmBoots \/ VmPauses \/ GvproxyEnds
  BY <1>1 DEF GvproxyListens, VmBoots, VmPauses, GvproxyEnds
<1>2. CASE TailerConnects \/ TailerGivesUp \/ TailerEnds \/ VfOpensPty
  BY <1>2 DEF TailerConnects, TailerGivesUp, TailerEnds, VfOpensPty
<1>3. CASE VmEnds
  BY <1>3 DEF VmEnds
<1> QED BY <1>1, <1>2, <1>3 DEF ProcessStep

LEMMA NodeStoppedKept ==
    ASSUME NodeInv, [NodeNext]_ndVars
    PROVE  NodeStopped'
<1> USE ConfKnown DEF NodeInv, NodeTypeOK, NodeStopped
<1>1. CASE ProcessStep
  <2>1. UNCHANGED <<ndConf, ndState, ndRunning, ndOp>>
    BY <1>1, ProcessStepLeaves
  <2>2. NodeOver' = NodeOver /\ (WindingDown => WindingDown')
    BY <1>1, <2>1, WindsDownOnly DEF NodeOver
  <2>3. vm \in {"none", "quitting"} => vm' \in {"none", "quitting"}
    BY <1>1 DEF ProcessStep, GvproxyListens, VmBoots, VmPauses, TailerConnects, VmEnds, GvproxyEnds,
                TailerGivesUp, TailerEnds, VfOpensPty
  <2> QED BY <2>1, <2>2, <2>3
<1>2. CASE StartStep
  <2>1. ~NodeOver' /\ ndOp'.at \notin {"gvstop", "remove"}
    <3>1. ndState' = ndState /\ ndState = "absent"
      BY <1>2 DEF StartStep, PrepareDisks, StartGvproxy, GvproxyReady, WaitForSwTPMSocket, StartVm, StartTailer,
                  ApplyCPUPins, VfPrepareDisks, VfStartGvproxy, VfStart, VfWritePid, parsePtyPath, waitForPtyPath,
                  InstallTailer, NodeAt, NodeOpInv, NodePlaces
    <3>2. ndOp'.at \notin {"gvstop", "remove"}
      BY <1>2 DEF StartStep, PrepareDisks, StartGvproxy, GvproxyReady, WaitForSwTPMSocket, StartVm, StartTailer,
                  ApplyCPUPins, VfPrepareDisks, VfStartGvproxy, VfStart, VfWritePid, parsePtyPath, waitForPtyPath,
                  InstallTailer, NodeAt
    <3> QED BY <3>1, <3>2 DEF NodeOver
  <2> QED BY <2>1
<1>3. CASE StopStep
  <2>1. ndState' = ndState /\ ndState = "kept" /\ ndConf' = ndConf /\ ~ndConf.install
    BY <1>3 DEF StopStep, StopVm, StopFails, VfStop, VfStopGvproxy, NodeAt, NodeOpInv, NodePlaces
  <2>2. ~NodeOver'
    BY <2>1 DEF NodeOver
  <2>3. CASE StopVm
    BY <2>1, <2>2, <2>3, NodeGoesOn DEF StopVm, stopGvproxy, Reachable, NodeServed, WindingDown
  <2>4. CASE StopFails
    BY <2>1, <2>2, <2>4, NodeGoesOn DEF StopFails, Reachable, NodeServed, WindingDown
  <2>5. CASE VfStop
    BY <2>1, <2>2, <2>5, NodeGoesOn DEF VfStop
  <2>6. CASE VfStopGvproxy
    BY <2>1, <2>2, <2>6, NodeGoesOn DEF VfStopGvproxy, stopGvproxy, NodeServed, WindingDown
  <2> QED BY <1>3, <2>3, <2>4, <2>5, <2>6 DEF StopStep
<1>4. CASE CallStep
  <2>1. CASE NodeCall
    BY <2>1 DEF NodeCall, NodeOver, NodeOpInv
  <2>2. CASE NodeFails
    BY <2>2 DEF NodeFails, NodeOver, NodeIdle, NodeOpInv, NodePlaces, NodeStartInv, WindingDown
  <2>3. CASE InstallEnds
    BY <2>3 DEF InstallEnds, NodeOver, NodeIdle, NodeOpInv, NodePlaces, NodeStartInv, WindingDown
  <2>4. CASE StatusRead \/ StatusFails
    BY <2>4 DEF StatusRead, StatusFails, NodeOver, NodeIdle, NodeOpInv, NodePlaces
  <2>5. CASE RemoveNode
    BY <2>5 DEF RemoveNode, NodeOver, NodeIdle, NodeOpInv, NodePlaces, WindingDown
  <2> QED BY <1>4, <2>1, <2>2, <2>3, <2>4, <2>5 DEF CallStep
<1>5. CASE UNCHANGED ndVars
  BY <1>5 DEF ndVars, NodeOver, WindingDown
<1> QED BY <1>1, <1>2, <1>3, <1>4, <1>5, NodeSteps

LEMMA NodeAlways == NodeSpec => []NodeInv
<1>1. NodeInit => NodeInv
  BY NodeStarts
<1>2. NodeInv /\ [NodeNext]_ndVars => NodeInv'
  BY NodeTypesKept, NodeOpKept, NodeStartKept, NodeServedKept, NodeStoppedKept DEF NodeInv
<1> QED BY <1>1, <1>2, PTL DEF NodeSpec

(* For every hypervisor, executor and set of disks: the variables of a node *)
(* and of its processes keep their types.                                  *)
THEOREM NodeTypes == NodeSpec => []NodeTypeOK
  BY NodeAlways, PTL DEF NodeInv

-----------------------------------------------------------------------------
(* What NodeLeavesNothing promises is a matter of steps that are bound to   *)
(* come: here is all of it that is not fairness.                           *)
NodeGone == vm = "none" /\ gvproxy = "none" /\ tailer = "none"

(* One of the actions that NodeFairness is about can be taken.              *)
SomeoneEnds ==
    \/ vm = "quitting" \/ gvproxy = "ending" \/ tailer = "ending"
    \/ tailer = "dialing" /\ vm = "none" /\ ndConf.vm = "vfkit"

NodeEndsItself == NodeOver => WindingDown /\ (NodeGone \/ SomeoneEnds)

(* How many steps are left at most. *)
NodeLeft ==
    (IF vm = "none" THEN 0 ELSE 1) + (IF gvproxy = "none" THEN 0 ELSE 1) + (IF pty = "unknown" THEN 1 ELSE 0)
      + (IF tailer = "none" THEN 0 ELSE IF tailer = "ending" THEN 1 ELSE IF tailer = "connected" THEN 2 ELSE 3)

LEMMA OverIsIdle ==
    ASSUME NodeInv, NodeOver, NodeNext
    PROVE  ProcessStep /\ NodeOver'
<1> USE ConfKnown DEF NodeInv, NodeTypeOK, NodeOpInv, NodeOver
<1>1. ndOp.name = "none" /\ ndOp.at = "idle" /\ ndState \notin {"absent", "kept"}
  BY DEF NodePlaces
<1>2. ~StartStep
  BY <1>1 DEF StartStep, PrepareDisks, StartGvproxy, GvproxyReady, WaitForSwTPMSocket, StartVm, StartTailer,
              ApplyCPUPins, VfPrepareDisks, VfStartGvproxy, VfStart, VfWritePid, parsePtyPath, waitForPtyPath,
              InstallTailer, NodeAt
<1>3. ~StopStep
  BY <1>1 DEF StopStep, StopVm, StopFails, VfStop, VfStopGvproxy, NodeAt
<1>4. ~CallStep
  BY <1>1 DEF CallStep, NodeCall, NodeFails, InstallEnds, StatusRead, StatusFails, RemoveNode
<1>5. ProcessStep
  BY <1>2, <1>3, <1>4, NodeSteps
<1>6. NodeOver'
  BY <1>5, ProcessStepLeaves
<1> QED BY <1>5, <1>6

LEMMA FewerLeft ==
    ASSUME NodeTypeOK, WindingDown, ProcessStep
    PROVE  NodeLeft \in Nat /\ NodeLeft' < NodeLeft
<1> USE ConfKnown DEF NodeTypeOK, WindingDown, NodeLeft
<1>1. NodeLeft \in Nat
  OBVIOUS
<1>2. CASE GvproxyListens \/ VmBoots \/ VmPauses \/ GvproxyEnds
  BY <1>2 DEF GvproxyListens, VmBoots, VmPauses, GvproxyEnds
<1>3. CASE TailerConnects \/ TailerGivesUp \/ TailerEnds \/ VfOpensPty
  BY <1>3 DEF TailerConnects, TailerGivesUp, TailerEnds, VfOpensPty
<1>4. CASE VmEnds
  BY <1>4 DEF VmEnds
<1> QED BY <1>1, <1>2, <1>3, <1>4 DEF ProcessStep

(* When Delete of a node that was seen to run has returned, or Create of an *)
(* installed node, then on the host itself every process of the three that  *)
(* is left was told to end or has lost what it serves, and one of them can  *)
(* end at once, until all are gone (stopVM, Stop of vfkit, and the tailer). *)
THEOREM EndsItself == NodeSpec => []NodeEndsItself
<1>1. NodeInv => NodeEndsItself
  BY DEF NodeInv, NodeTypeOK, NodeStopped, NodeEndsItself, NodeOver, WindingDown, NodeGone, SomeoneEnds
<1> QED BY <1>1, NodeAlways, PTL

(* From then on nothing is started, and every step brings the processes     *)
(* closer to their end (the node that Delete removed has no handler left,   *)
(* and neither gvproxy nor the tailer is restarted by anybody).             *)
THEOREM WindsDown == NodeSpec => [][NodeOver => NodeOver' /\ NodeLeft' < NodeLeft]_ndVars
<1>1. NodeInv /\ [NodeNext]_ndVars => [NodeOver => NodeOver' /\ NodeLeft' < NodeLeft]_ndVars
  <2> SUFFICES ASSUME NodeInv, NodeNext, NodeOver PROVE NodeOver' /\ NodeLeft' < NodeLeft
    OBVIOUS
  <2>1. ProcessStep /\ NodeOver'
    BY OverIsIdle
  <2>2. NodeTypeOK /\ WindingDown
    BY DEF NodeInv, NodeStopped, NodeOver
  <2> QED BY <2>1, <2>2, FewerLeft
<1> QED BY <1>1, NodeAlways, PTL DEF NodeSpec

-----------------------------------------------------------------------------
(* The file of an image.                                                   *)

(* The calls Create has left, and those of the other handlers.             *)
ImCreateLeft ==
    CASE imKind = "disk"      -> {<<"prepare", "make", "info">>, <<"make", "info">>, <<"info">>}
      [] imKind = "iso"       -> {<<"prepare", "make", "name">>, <<"make", "name">>, <<"name">>}
      [] imKind = "installer" -> {<<"prepare", "make", "rename", "name">>, <<"make", "rename", "name">>,
                                  <<"rename", "name">>, <<"name">>}
      [] imKind = "installed" -> {<<"prepare", "install", "log">>, <<"install", "log">>, <<"log">>}

ImOpRecord == \E name, todo : imOp = [name |-> name, todo |-> todo]

(* docker's output has its own name until Create renames it; only an        *)
(* installation is reported and kept all the same.                         *)
ImOrder ==
    /\ ImOpRecord
    /\ imOp.name = "none"   => imOp.todo = <<>>
    /\ imOp.name = "create" => imOp.todo \in ImCreateLeft
    /\ imOp.name = "read"   => imOp.todo = ImReadCalls
    /\ imOp.name = "delete" => imOp.todo = <<"remove">>
    /\ imOp.name = "create" => imSaved = "absent"
    /\ imOp.name \in {"read", "delete"} => imSaved \in {"kept", "tainted"}
    /\ imFile = "unnamed" => imSaved = "lost" \/ (imOp.name = "create" /\ imOp.todo = <<"rename", "name">>)
    /\ imSaved = "tainted" => imKind = "installed"

ImInv == ImageTypeOK /\ ImOrder

LEMMA KindKnown == ImageTypeOK => imKind \in {"disk", "iso", "installer", "installed"}
  BY ImageAssumption DEF ImageTypeOK

(* The head and the rest of each of these lists. *)
LEMMA ImLists ==
    /\ \A a : Head(<<a>>) = a /\ Tail(<<a>>) = <<>> /\ <<a>> # <<>>
    /\ \A a, b : Head(<<a, b>>) = a /\ Tail(<<a, b>>) = <<b>> /\ <<a, b>> # <<>>
    /\ \A a, b, c : Head(<<a, b, c>>) = a /\ Tail(<<a, b, c>>) = <<b, c>> /\ <<a, b, c>> # <<>>
    /\ \A a, b, c, d : Head(<<a, b, c, d>>) = a /\ Tail(<<a, b, c, d>>) = <<b, c, d>> /\ <<a, b, c, d>> # <<>>
  OBVIOUS

(* What a handler that has a call to do is about. *)
LEMMA ImWhose ==
    ASSUME ImInv, NEW call, ImDo(call)
    PROVE  /\ call = "remove" => imOp.name = "delete"
           /\ call \in {"prepare", "make", "rename", "install"} =>
                imOp.name = "create" /\ Tail(imOp.todo) \in ImCreateLeft
           /\ call = "rename" => imOp.todo = <<"rename", "name">>
           /\ call = "make" => imKind # "installed"
                              /\ (imKind = "installer" => Tail(imOp.todo) = <<"rename", "name">>)
           /\ call \in {"info", "name", "log"} => imOp.name \in {"create", "read"} /\ imOp.todo = <<call>>
           /\ call \in {"info", "name", "log"} => (call = "log" <=> imKind = "installed")
           /\ imOp.name \in {"create", "read", "delete"}
<1> DEFINE t == imOp.todo
<1> USE DEF ImInv, ImOrder, ImDo, ImCreateLeft, ImReadCalls, ImageTypeOK
<1>1. imOp.name \in {"create", "read", "delete"} /\ t # <<>> /\ Head(t) = call
  OBVIOUS
<1>2. CASE imOp.name = "delete"
  BY <1>1, <1>2, ImLists
<1>3. CASE imOp.name = "read"
  <2>1. t = <<"info">> \/ t = <<"name">> \/ t = <<"log">>
    BY <1>3, KindKnown
  <2> QED BY <1>1, <1>3, <2>1, ImLists, KindKnown
<1>4. CASE imOp.name = "create"
  <2> USE <1>1, <1>4
  <2>1. CASE imKind = "disk"
    <3>1. t = <<"prepare", "make", "info">> \/ t = <<"make", "info">> \/ t = <<"info">>
      BY <2>1
    <3>2. t = <<"prepare", "make", "info">> => call = "prepare" /\ Tail(t) = <<"make", "info">>
      BY ImLists
    <3>3. t = <<"make", "info">> => call = "make" /\ Tail(t) = <<"info">>
      BY ImLists
    <3>4. t = <<"info">> => call = "info"
      BY ImLists
    <3>5. Tail(t) \in ImCreateLeft \/ call \in {"info", "name", "log"}
      BY <2>1, <3>1, <3>2, <3>3, <3>4
    <3> HIDE DEF ImCreateLeft
    <3> QED BY <2>1, <3>1, <3>2, <3>3, <3>4, <3>5
  <2>2. CASE imKind = "iso"
    <3>1. t = <<"prepare", "make", "name">> \/ t = <<"make", "name">> \/ t = <<"name">>
      BY <2>2
    <3>2. t = <<"prepare", "make", "name">> => call = "prepare" /\ Tail(t) = <<"make", "name">>
      BY ImLists
    <3>3. t = <<"make", "name">> => call = "make" /\ Tail(t) = <<"name">>
      BY ImLists
    <3>4. t = <<"name">> => call = "name"
      BY ImLists
    <3>5. Tail(t) \in ImCreateLeft \/ call \in {"info", "name", "log"}
      BY <2>2, <3>1, <3>2, <3>3, <3>4
    <3> HIDE DEF ImCreateLeft
    <3> QED BY <2>2, <3>1, <3>2, <3>3, <3>4, <3>5
  <2>3. CASE imKind = "installer"
    <3>1. t = <<"prepare", "make", "rename", "name">> \/ t = <<"make", "rename", "name">> \/ t = <<"rename", "name">> \/ t = <<"name">>
      BY <2>3
    <3>2. t = <<"prepare", "make", "rename", "name">> => call = "prepare" /\ Tail(t) = <<"make", "rename", "name">>
      BY ImLists
    <3>3. t = <<"make", "rename", "name">> => call = "make" /\ Tail(t) = <<"rename", "name">>
      BY ImLists
    <3>4. t = <<"rename", "name">> => call = "rename" /\ Tail(t) = <<"name">>
      BY ImLists
    <3>5. t = <<"name">> => call = "name"
      BY ImLists
    <3>6. Tail(t) \in ImCreateLeft \/ call \in {"info", "name", "log"}
      BY <2>3, <3>1, <3>2, <3>3, <3>4, <3>5
    <3> HIDE DEF ImCreateLeft
    <3> QED BY <2>3, <3>1, <3>2, <3>3, <3>4, <3>5, <3>6
  <2>4. CASE imKind = "installed"
    <3>1. t = <<"prepare", "install", "log">> \/ t = <<"install", "log">> \/ t = <<"log">>
      BY <2>4
    <3>2. t = <<"prepare", "install", "log">> => call = "prepare" /\ Tail(t) = <<"install", "log">>
      BY ImLists
    <3>3. t = <<"install", "log">> => call = "install" /\ Tail(t) = <<"log">>
      BY ImLists
    <3>4. t = <<"log">> => call = "log"
      BY ImLists
    <3>5. Tail(t) \in ImCreateLeft \/ call \in {"info", "name", "log"}
      BY <2>4, <3>1, <3>2, <3>3, <3>4
    <3> HIDE DEF ImCreateLeft
    <3> QED BY <2>4, <3>1, <3>2, <3>3, <3>4, <3>5
  <2> QED BY <2>1, <2>2, <2>3, <2>4, KindKnown
<1> QED BY <1>1, <1>2, <1>3, <1>4

LEMMA ImStarts == ImageInit => ImInv
<1> SUFFICES ASSUME ImageInit PROVE ImInv
  OBVIOUS
<1>1. imOp = [name |-> "none", todo |-> <<>>] /\ imFile = "none" /\ imSaved = "absent" /\ imKind \in ImageKinds
  BY DEF ImageInit, ImIdle
<1>2. imOp.name = "none" /\ imOp.todo = <<>> /\ ImOpRecord
  BY <1>1 DEF ImOpRecord
<1>3. ImOrder
  BY <1>1, <1>2 DEF ImOrder
<1> QED BY <1>1, <1>2, <1>3 DEF ImInv, ImageTypeOK

(* What a handler begins with. *)
LEMMA ImBegins ==
    ASSUME ImInv
    PROVE  ImCreateCalls \in ImCreateLeft /\ ImCreateCalls # <<"rename", "name">>
<1>1. CASE imKind = "disk" BY <1>1 DEF ImCreateCalls, ImCreateLeft
<1>2. CASE imKind = "iso" BY <1>2 DEF ImCreateCalls, ImCreateLeft
<1>3. CASE imKind = "installer" BY <1>3 DEF ImCreateCalls, ImCreateLeft
<1>4. CASE imKind = "installed" BY <1>4 DEF ImCreateCalls, ImCreateLeft
<1> QED BY <1>1, <1>2, <1>3, <1>4, KindKnown DEF ImInv

LEMMA ImKept ==
    ASSUME ImInv, [ImageNext]_imVars
    PROVE  ImInv'
<1> USE DEF ImInv, ImageTypeOK, ImOrder, ImOpRecord
<1>0. imKind' = imKind /\ ImCreateLeft' = ImCreateLeft /\ ImReadCalls' = ImReadCalls
  <2>1. imKind' = imKind
    BY DEF ImageNext, ImCall, ImFail, ImPrepare, ImMake, ImRename, ImInstall, ImInfo, ImName, ImLog, ImRemove,
           ImLoseFile, ImSave, imVars
  <2> QED BY <2>1 DEF ImCreateLeft, ImReadCalls
<1>idle. ASSUME imOp' = [name |-> "none", todo |-> <<>>]
       PROVE  imOp'.name = "none" /\ imOp'.todo = <<>> /\ ImOpRecord'
  BY <1>idle
<1>1. CASE ImCall
  <2>1. imOp.name = "none" /\ imFile' = imFile /\ imSaved' = imSaved
    BY <1>1 DEF ImCall, ImIdle
  <2>2. imFile = "unnamed" => imSaved = "lost"
    BY <2>1
  <2>3. PICK name, todo :
          /\ name \in {"create", "read", "delete"}
          /\ imOp' = [name |-> name, todo |-> todo]
          /\ name = "create" => imSaved = "absent" /\ todo = ImCreateCalls
          /\ name # "create" => imSaved \in {"kept", "tainted"}
          /\ name = "read" => todo = ImReadCalls
          /\ name = "delete" => todo = <<"remove">>
    BY <1>1 DEF ImCall
  <2>4. todo = ImCreateCalls => todo \in ImCreateLeft
    BY ImBegins
  <2> HIDE DEF ImOpRecord
  <2>5. imOp'.name = name /\ imOp'.todo = todo /\ ImOpRecord'
    BY <2>3 DEF ImOpRecord
  <2>6. ImOrder'
    BY <1>0, <2>1, <2>2, <2>3, <2>4, <2>5
  <2> QED BY <1>0, <2>1, <2>3, <2>5, <2>6
<1>2. CASE ImFail
  <2>1. imOp.name \in {"create", "read", "delete"}
    BY <1>2 DEF ImFail
  <2>2. imFile' = imFile \/ imFile' \in {"none", "broken"}
    BY <1>2 DEF ImFail
  <2>3. imSaved' = IF imOp.name = "create" THEN "lost" ELSE imSaved
    BY <1>2 DEF ImFail
  <2>4. imOp' = [name |-> "none", todo |-> <<>>]
    BY <1>2 DEF ImFail, ImIdle
  <2> QED BY <1>0, <1>idle, <2>1, <2>2, <2>3, <2>4
<1>3. ASSUME NEW call \in {"prepare", "make", "rename", "install"}, ImDo(call), ImGoOn
      PROVE  /\ imOp.name = "create" /\ imOp' = [name |-> "create", todo |-> Tail(imOp.todo)]
             /\ imOp'.name = "create" /\ imOp'.todo = Tail(imOp.todo)
             /\ Tail(imOp.todo) \in ImCreateLeft /\ ImOpRecord'
  BY <1>3, ImWhose DEF ImGoOn
<1> HIDE DEF ImOpRecord
<1>4. CASE ImPrepare
  <2>1. imOp.todo # <<"rename", "name">>
    BY <1>4, ImLists DEF ImPrepare, ImDo
  <2>2. /\ imOp.name = "create" /\ imOp'.name = "create" /\ imOp'.todo \in ImCreateLeft /\ ImOpRecord'
        /\ UNCHANGED <<imFile, imSaved>>
    BY <1>3, <1>4 DEF ImPrepare
  <2>3. imFile # "unnamed"
    BY <2>1, <2>2
  <2> QED BY <1>0, <2>2, <2>3
<1>5. CASE ImMake
  <2>1. imKind = "installer" => Tail(imOp.todo) = <<"rename", "name">>
    BY <1>5, ImWhose DEF ImMake
  <2>2. /\ imOp.name = "create" /\ imOp'.name = "create" /\ imOp'.todo = Tail(imOp.todo)
        /\ Tail(imOp.todo) \in ImCreateLeft /\ ImOpRecord' /\ imSaved' = imSaved
        /\ imFile' \in {"unnamed", "whole"} /\ (imFile' = "unnamed" => imKind = "installer")
    BY <1>3, <1>5 DEF ImMake
  <2> QED BY <1>0, <2>1, <2>2
<1>6. CASE ImRename \/ ImInstall
  <2>1. /\ imOp.name = "create" /\ imOp'.name = "create" /\ imOp'.todo \in ImCreateLeft /\ ImOpRecord'
        /\ imSaved' = imSaved /\ imFile' \in {"whole", "broken"}
    BY <1>3, <1>6 DEF ImRename, ImInstall
  <2> QED BY <1>0, <2>1
<1>7. CASE ImInfo \/ ImName \/ ImLog
  <2>1. PICK call \in {"info", "name", "log"} : ImDo(call) /\ (ImLog => call = "log") /\ (ImInfo \/ ImName => call # "log")
    <3>1. ASSUME ImInfo PROVE ImDo("info") /\ ~ImDo("log")
      BY <3>1 DEF ImInfo, ImDo
    <3>2. ASSUME ImName PROVE ImDo("name") /\ ~ImDo("log")
      BY <3>2 DEF ImName, ImDo
    <3>3. ImLog => ImDo("log")
      BY DEF ImLog
    <3> QED BY <1>7, <3>1, <3>2, <3>3
  <2>2. /\ imOp.name \in {"create", "read"} /\ imOp.todo = <<call>>
        /\ (call = "log" <=> imKind = "installed")
    BY <2>1, ImWhose
  <2>3. imOp.todo # <<"rename", "name">>
    BY <2>1, <2>2, ImLists
  <2>4. imFile # "unnamed"
    BY <2>2, <2>3
  <2>5. imFile' = imFile /\ imOp' = [name |-> "none", todo |-> <<>>]
    BY <1>7 DEF ImInfo, ImName, ImLog, ImSave, ImIdle
  <2>6. imSaved' = "kept" \/ (imSaved' = "tainted" /\ ImLog)
    BY <1>7 DEF ImInfo, ImName, ImLog, ImSave
  <2> QED BY <1>0, <1>idle, <2>1, <2>2, <2>4, <2>5, <2>6
<1>8. CASE ImRemove
  <2>1. imOp' = [name |-> "none", todo |-> <<>>] /\ imFile' = "none" /\ imSaved' = "deleted"
    BY <1>8 DEF ImRemove, ImIdle
  <2> QED BY <1>0, <1>idle, <2>1
<1>9. CASE ImLoseFile
  <2>1. imOp' = imOp /\ imSaved' = imSaved /\ imFile' \in {"none", "broken"} /\ (ImOpRecord => ImOpRecord')
    BY <1>9 DEF ImLoseFile, ImOpRecord
  <2> QED BY <1>0, <2>1
<1>10. CASE UNCHANGED imVars
  <2>1. imOp' = imOp /\ imSaved' = imSaved /\ imFile' = imFile /\ (ImOpRecord => ImOpRecord')
    BY <1>10 DEF imVars, ImOpRecord
  <2> QED BY <1>0, <2>1
<1> QED BY <1>1, <1>2, <1>4, <1>5, <1>6, <1>7, <1>8, <1>9, <1>10 DEF ImageNext

LEMMA ImAlways == ImageSpec => []ImInv
<1>1. ImInv /\ [ImageNext]_imVars => ImInv'
  BY ImKept
<1> QED BY <1>1, ImStarts, PTL DEF ImageSpec

(* For every kind of file: the variables of the resource keep their types.  *)
THEOREM ImageTypes == ImageSpec => []ImageTypeOK
  BY ImAlways, PTL DEF ImInv

ImNamed == imSaved \in {"kept", "tainted"} => imFile # "unnamed"

(* No resource in Terraform's state stands for an installer that still has  *)
(* the name docker gave it: a Create that fails before the rename is lost   *)
(* (Create of the EVE installer).                                          *)
THEOREM SavedIsNamed == ImageSpec => []ImNamed
<1>1. ImInv => ImNamed
  BY DEF ImInv, ImOrder, ImNamed
<1> QED BY <1>1, ImAlways, PTL

(* An installation that is saved without its log stays in doubt whatever a  *)
(* refresh finds later, until it is deleted (Create and Read of the         *)
(* installed node).                                                        *)
THEOREM DoubtStays == ImageSpec => [][imSaved = "tainted" => imSaved' \in {"tainted", "deleted"}]_imVars
<1>1. ASSUME ImInv, ImageNext, imSaved = "tainted" PROVE imSaved' \in {"tainted", "deleted"}
  <2> USE <1>1 DEF ImInv, ImOrder
  <2>1. CASE ImCall \/ ImPrepare \/ ImMake \/ ImRename \/ ImInstall \/ ImLoseFile \/ ImRemove
    BY <2>1 DEF ImCall, ImPrepare, ImMake, ImRename, ImInstall, ImLoseFile, ImRemove
  <2>2. CASE ImFail
    BY <2>2 DEF ImFail
  <2>3. ~ImInfo /\ ~ImName
    <3>1. ~ImDo("info") /\ ~ImDo("name")
      BY ImWhose
    <3> QED BY <3>1 DEF ImInfo, ImName
  <2>4. CASE ImLog
    BY <2>4 DEF ImLog, ImSave
  <2> QED BY <2>1, <2>2, <2>3, <2>4 DEF ImageNext
<1>2. ImInv /\ [ImageNext]_imVars => [imSaved = "tainted" => imSaved' \in {"tainted", "deleted"}]_imVars
  BY <1>1
<1> QED BY <1>2, ImAlways, PTL DEF ImageSpec

-----------------------------------------------------------------------------
(* The set-up of a provider.                                               *)

OnceChecked  == {"libPath", "binary", "mkdir", "platform", "tools", "code", "openCode", "writeCode",
                 "vars", "openVars", "writeVars", "hypervisor", "ready"}
OnceInstalled == OnceChecked \ {"libPath", "binary"}
OnLinux       == {"code", "openCode", "writeCode", "vars", "openVars", "writeVars"}
OnceKnown     == OnLinux \cup {"hypervisor", "ready"}
OnceCode      == {"writeCode", "vars", "openVars", "writeVars", "hypervisor", "ready"}
OnceVars      == {"writeVars", "hypervisor", "ready"}

(* What a process has got past, and what it has found or made.             *)
SetupOrder ==
    \A p \in Providers :
      LET c == setup[p].conf IN
      /\ setup[p].at \in OnceChecked   => c.local \/ SshValid(c)
      /\ setup[p].at \in OnceInstalled => c.local \/ c.binary # "dev"
      /\ setup[p].at \in OnceKnown     => target # "other"
      /\ setup[p].at \in OnLinux       => target = "linux"
      /\ setup[p].at \in OnceCode /\ target = "linux" => firmware["code"] # NoFile
      /\ setup[p].at \in OnceVars /\ target = "linux" => firmware["vars"] # NoFile

(* A provider that is configured reaches its target with what it was given, *)
(* has a command there it may run, and finds the firmware it needs.        *)
SetupReadyIsChecked ==
    \A p \in Providers : setup[p].at = "ready" =>
      /\ setup[p].conf.local \/ (SshValid(setup[p].conf) /\ setup[p].conf.binary # "dev")
      /\ target # "other"
      /\ target = "linux" => \A f \in Firmware : firmware[f] # NoFile

(* A firmware file that is not whole is being written by the process that   *)
(* truncated it last, or that process failed or was killed.                *)
SetupPartHasCulprit ==
    \A f \in Firmware : firmware[f] \in Providers =>
      setup[firmware[f]].at \in {Writes(f), "failed", "killed"}

SetupInv == SetupTypeOK /\ SetupOrder /\ SetupPartHasCulprit

(* A step of the process takes it from one place to another.               *)
LEMMA SetupGoesOn ==
    ASSUME SetupTypeOK, NEW p \in Providers, NEW from, NEW to, SetupAt(p, from, to)
    PROVE  /\ setup[p].at = from /\ setup'[p].at = to /\ setup'[p].conf = setup[p].conf
           /\ \A q \in Providers : q # p => setup'[q] = setup[q]
           /\ \A q \in Providers : setup'[q].conf = setup[q].conf
  BY DEF SetupTypeOK, SetupAt

SetupPlaces == {"start", "libPath", "binary", "mkdir", "platform", "tools", "code", "openCode", "writeCode",
                "vars", "openVars", "writeVars", "hypervisor", "ready", "failed", "killed"}

LEMMA SetupStays ==
    ASSUME SetupTypeOK, NEW p \in Providers, NEW from, NEW to \in SetupPlaces, SetupAt(p, from, to)
    PROVE  setup' \in [Providers -> [conf : SetupConfigs, at : SetupPlaces]]
  BY DEF SetupTypeOK, SetupAt, SetupPlaces

(* Every step of a process is one of these. *)
SetupMoves(p) ==
    /\ UNCHANGED <<target, firmware>>
    /\ \E from, to \in SetupPlaces :
         /\ SetupAt(p, from, to)
         /\ from \notin {"ready", "failed", "killed"}
         /\ LET c == setup[p].conf IN
            \/ to \in {"failed", "killed"}
            \/ from = "start" /\ to = "mkdir" /\ c.local
            \/ from = "start" /\ to \in {"libPath", "binary"} /\ SshValid(c)
            \/ from = "libPath" /\ to = "binary"
            \/ from = "binary" /\ to = "mkdir" /\ c.binary # "dev"
            \/ from = "mkdir" /\ to = "platform"
            \/ from = "platform" /\ to = "tools"
            \/ from = "tools" /\ to = "code" /\ target = "linux"
            \/ from = "tools" /\ to = "hypervisor" /\ target = "darwin"
            \/ from = "code" /\ to = "vars" /\ firmware["code"] # NoFile
            \/ from = "vars" /\ to = "hypervisor" /\ firmware["vars"] # NoFile
            \/ from = "code" /\ to = "openCode"
            \/ from = "vars" /\ to = "openVars"
            \/ from = "hypervisor" /\ to = "ready"

LEMMA SetupSteps ==
    ASSUME SetupTypeOK, SetupNext
    PROVE  \E p \in Providers : SetupMoves(p) \/ \E f \in Firmware : OpenFirmware(p, f) \/ WriteFirmware(p, f)
<1> USE DEF SetupMoves, SetupPlaces
<1>1. ASSUME NEW p \in Providers, BuildExecutor(p) PROVE SetupMoves(p)
  BY <1>1 DEF BuildExecutor
<1>2. ASSUME NEW p \in Providers, ResolveRemoteLibPath(p) \/ MakeLibPath(p) \/ DetectTargetPlatform(p) \/ CreateHypervisor(p)
      PROVE  SetupMoves(p)
  BY <1>2 DEF ResolveRemoteLibPath, MakeLibPath, DetectTargetPlatform, CreateHypervisor
<1>3. ASSUME NEW p \in Providers, ProvisionBinary(p) PROVE SetupMoves(p)
  BY <1>3 DEF ProvisionBinary
<1>4. ASSUME NEW p \in Providers, ConfigureTools(p) PROVE SetupMoves(p)
  <2>1. CASE target = "linux"
    BY <1>4, <2>1 DEF ConfigureTools
  <2>2. CASE target = "darwin"
    BY <1>4, <2>2 DEF ConfigureTools
  <2>3. CASE target \notin {"linux", "darwin"}
    BY <1>4, <2>3 DEF ConfigureTools
  <2> QED BY <2>1, <2>2, <2>3
<1>5. ASSUME NEW p \in Providers, NEW f \in Firmware, FirmwareThere(p, f) \/ FirmwareMissing(p, f)
      PROVE  SetupMoves(p)
  <2>1. CASE f = "code"
    BY <1>5, <2>1 DEF FirmwareThere, FirmwareMissing, After
  <2>2. CASE f = "vars"
    BY <1>5, <2>2 DEF FirmwareThere, FirmwareMissing, After
  <2> QED BY <2>1, <2>2 DEF Firmware
<1>6. ASSUME NEW p \in Providers, SetupFails(p) \/ SetupKilled(p) PROVE SetupMoves(p)
  BY <1>6 DEF SetupTypeOK, SetupFails, SetupKilled, SetupAt, SetupOver
<1> QED BY <1>1, <1>2, <1>3, <1>4, <1>5, <1>6 DEF SetupNext

LEMMA SetupStarts == SetupInit => SetupInv
  BY SetupAssumption DEF SetupInit, SetupInv, SetupTypeOK, SetupOrder, SetupPartHasCulprit, OnceChecked, OnceInstalled,
     OnLinux, OnceKnown, OnceCode, OnceVars, Firmware

(* A step from place to place keeps what the process got past, and leaves a *)
(* part of a file only by its end.                                         *)
LEMMA MovesKeep ==
    ASSUME SetupInv, NEW p \in Providers, SetupMoves(p)
    PROVE  SetupInv'
<1>1. PICK from \in SetupPlaces, to \in SetupPlaces :
        /\ SetupAt(p, from, to)
        /\ from \notin {"ready", "failed", "killed"}
        /\ LET c == setup[p].conf IN
           \/ to \in {"failed", "killed"}
           \/ from = "start" /\ to = "mkdir" /\ c.local
           \/ from = "start" /\ to \in {"libPath", "binary"} /\ SshValid(c)
           \/ from = "libPath" /\ to = "binary"
           \/ from = "binary" /\ to = "mkdir" /\ c.binary # "dev"
           \/ from = "mkdir" /\ to = "platform"
           \/ from = "platform" /\ to = "tools"
           \/ from = "tools" /\ to = "code" /\ target = "linux"
           \/ from = "tools" /\ to = "hypervisor" /\ target = "darwin"
           \/ from = "code" /\ to = "vars" /\ firmware["code"] # NoFile
           \/ from = "vars" /\ to = "hypervisor" /\ firmware["vars"] # NoFile
           \/ from = "code" /\ to = "openCode"
           \/ from = "vars" /\ to = "openVars"
           \/ from = "hypervisor" /\ to = "ready"
  BY DEF SetupMoves
<1>2. /\ setup[p].at = from /\ setup'[p].at = to /\ setup'[p].conf = setup[p].conf
      /\ \A q \in Providers : q # p => setup'[q] = setup[q]
  BY <1>1, SetupGoesOn DEF SetupInv
<1>3. UNCHANGED <<target, firmware>>
  BY DEF SetupMoves
<1>4. SetupTypeOK'
  BY <1>1, <1>3, SetupStays DEF SetupInv, SetupTypeOK, SetupPlaces
<1>5. SetupOrder'
  <2> SUFFICES ASSUME NEW q \in Providers
               PROVE  LET c == setup'[q].conf IN
                      /\ setup'[q].at \in OnceChecked   => c.local \/ SshValid(c)
                      /\ setup'[q].at \in OnceInstalled => c.local \/ c.binary # "dev"
                      /\ setup'[q].at \in OnceKnown     => target # "other"
                      /\ setup'[q].at \in OnLinux       => target = "linux"
                      /\ setup'[q].at \in OnceCode /\ target = "linux" => firmware["code"] # NoFile
                      /\ setup'[q].at \in OnceVars /\ target = "linux" => firmware["vars"] # NoFile
    BY <1>3 DEF SetupOrder, SshValid, HostKeyGiven, JumpKeyGiven
  <2>1. CASE q # p
    BY <1>2, <2>1 DEF SetupInv, SetupOrder
  <2>2. CASE q = p
    BY <1>1, <1>2, <2>2 DEF SetupInv, SetupOrder, OnceChecked, OnceInstalled, OnLinux, OnceKnown, OnceCode, OnceVars
  <2> QED BY <2>1, <2>2
<1>6. SetupPartHasCulprit'
  <2> SUFFICES ASSUME NEW f \in Firmware, firmware[f] \in Providers
               PROVE  setup'[firmware[f]].at \in {Writes(f), "failed", "killed"}
    BY <1>3 DEF SetupPartHasCulprit
  <2>1. setup[firmware[f]].at \in {Writes(f), "failed", "killed"}
    BY DEF SetupInv, SetupPartHasCulprit
  <2>2. CASE firmware[f] = p
    BY <1>1, <1>2, <2>1, <2>2 DEF Writes
  <2>3. CASE firmware[f] # p
    BY <1>2, <2>1, <2>3
  <2> QED BY <2>2, <2>3
<1> QED BY <1>4, <1>5, <1>6 DEF SetupInv

(* A write truncates what there was, whoever was writing it, and the file is *)
(* whole once that process is done.                                        *)
LEMMA FirmwareKeeps ==
    ASSUME SetupInv, NEW p \in Providers, NEW f \in Firmware, OpenFirmware(p, f) \/ WriteFirmware(p, f)
    PROVE  SetupInv'
<1> DEFINE from == setup[p].at
           to   == setup'[p].at
<1> USE SetupAssumption
<1>0. f \in {"code", "vars"} /\ Firmware = {"code", "vars"}
  BY DEF Firmware
<1>1. /\ setup'[p].conf = setup[p].conf
      /\ \A q \in Providers : q # p => setup'[q] = setup[q]
      /\ OpenFirmware(p, f) => from = (IF f = "code" THEN "openCode" ELSE "openVars") /\ to = Writes(f)
      /\ WriteFirmware(p, f) => from = Writes(f) /\ to = After(f)
  BY SetupGoesOn DEF SetupInv, OpenFirmware, WriteFirmware
<1>2. /\ target' = target
      /\ \A g \in Firmware : g # f => firmware'[g] = firmware[g]
      /\ OpenFirmware(p, f) => firmware'[f] = p
      /\ WriteFirmware(p, f) => firmware'[f] = IF firmware[f] = p THEN Whole ELSE firmware[f]
      /\ firmware' \in [Firmware -> {NoFile, Whole} \cup Providers]
  BY DEF SetupInv, SetupTypeOK, OpenFirmware, WriteFirmware
<1>3. SetupTypeOK'
  <2>1. setup' \in [Providers -> [conf : SetupConfigs, at : SetupPlaces]]
    <3>1. Writes(f) \in SetupPlaces /\ After(f) \in SetupPlaces
      BY DEF Writes, After, SetupPlaces
    <3> QED BY <3>1, SetupStays DEF SetupInv, OpenFirmware, WriteFirmware
  <2> QED BY <1>2, <2>1 DEF SetupInv, SetupTypeOK, SetupPlaces
<1>4. target = "linux" /\ from \in OnLinux
  BY <1>0, <1>1 DEF SetupInv, SetupOrder, Writes, OnLinux
<1>5. \A g \in Firmware : firmware[g] # NoFile => firmware'[g] # NoFile
  BY <1>2
<1>6. firmware'[f] # NoFile
  <2>1. WriteFirmware(p, f) => firmware[f] # NoFile
    BY <1>0, <1>1, <1>4 DEF SetupInv, SetupOrder, Writes, OnceCode, OnceVars
  <2> QED BY <1>2, <2>1
<1>7. SetupOrder'
  <2> SUFFICES ASSUME NEW q \in Providers
               PROVE  LET c == setup'[q].conf IN
                      /\ setup'[q].at \in OnceChecked   => c.local \/ SshValid(c)
                      /\ setup'[q].at \in OnceInstalled => c.local \/ c.binary # "dev"
                      /\ setup'[q].at \in OnceKnown     => target # "other"
                      /\ setup'[q].at \in OnLinux       => target = "linux"
                      /\ setup'[q].at \in OnceCode /\ target = "linux" => firmware'["code"] # NoFile
                      /\ setup'[q].at \in OnceVars /\ target = "linux" => firmware'["vars"] # NoFile
    BY <1>2 DEF SetupOrder, SshValid, HostKeyGiven, JumpKeyGiven
  <2>1. CASE q # p
    BY <1>0, <1>1, <1>5, <2>1 DEF SetupInv, SetupOrder
  <2>2. CASE q = p
    <3>1. setup[p].conf.local \/ SshValid(setup[p].conf)
      BY <1>4 DEF SetupInv, SetupOrder, OnLinux, OnceChecked
    <3>2. setup[p].conf.local \/ setup[p].conf.binary # "dev"
      BY <1>4 DEF SetupInv, SetupOrder, OnLinux, OnceChecked, OnceInstalled
    <3>3. to \in OnceCode => firmware'["code"] # NoFile
      BY <1>0, <1>1, <1>4, <1>5, <1>6 DEF SetupInv, SetupOrder, OnceCode, Writes, After
    <3>4. to \in OnceVars => firmware'["vars"] # NoFile
      BY <1>0, <1>1, <1>6 DEF OnceVars, Writes, After
    <3> QED BY <1>1, <1>4, <2>2, <3>1, <3>2, <3>3, <3>4
  <2> QED BY <2>1, <2>2
<1>8. SetupPartHasCulprit'
  <2> SUFFICES ASSUME NEW g \in Firmware, firmware'[g] \in Providers
               PROVE  setup'[firmware'[g]].at \in {Writes(g), "failed", "killed"}
    BY DEF SetupPartHasCulprit, Writes
  <2>1. firmware[g] \in Providers => setup[firmware[g]].at \in {Writes(g), "failed", "killed"}
    BY DEF SetupInv, SetupPartHasCulprit
  <2>2. CASE g = f /\ OpenFirmware(p, f)
    BY <1>1, <1>2, <2>2
  <2>3. CASE g = f /\ WriteFirmware(p, f)
    <3>1. firmware'[g] = firmware[g] /\ firmware[g] # p
      BY <1>2, <2>3
    <3> QED BY <1>1, <2>1, <3>1
  <2>4. CASE g # f
    <3>1. firmware'[g] = firmware[g]
      BY <1>2, <2>4
    <3>2. firmware[g] # p
      <4> SUFFICES ASSUME firmware[g] = p PROVE FALSE
        OBVIOUS
      <4>1. from \in {Writes(g), "failed", "killed"}
        BY <2>1
      <4> QED BY <1>0, <1>1, <2>4, <4>1 DEF Writes
    <3> QED BY <1>1, <2>1, <3>1, <3>2
  <2> QED BY <2>2, <2>3, <2>4
<1> QED BY <1>3, <1>7, <1>8 DEF SetupInv

LEMMA SetupAlways == SetupSpec => []SetupInv
<1>1. SetupInit => SetupInv
  BY SetupStarts
<1>2. SetupInv /\ [SetupNext]_setupVars => SetupInv'
  <2>1. ASSUME SetupInv, UNCHANGED setupVars PROVE SetupInv'
    BY <2>1 DEF setupVars, SetupInv, SetupTypeOK, SetupOrder, SetupPartHasCulprit, SshValid, HostKeyGiven, JumpKeyGiven
  <2>2. ASSUME SetupInv, SetupNext PROVE SetupInv'
    <3>1. SetupTypeOK
      BY <2>2 DEF SetupInv
    <3> QED BY <2>2, <3>1, SetupSteps, MovesKeep, FirmwareKeeps
  <2> QED BY <2>1, <2>2
<1> QED BY <1>1, <1>2, PTL DEF SetupSpec

(* For any number of provider processes and any configurations: the         *)
(* variables of Provider.Configure keep their types.                       *)
THEOREM SetupTypes == SetupSpec => []SetupTypeOK
  BY SetupAlways, PTL DEF SetupInv

(* A provider whose Configure succeeded has an executor that was accepted,  *)
(* a binary on the target that may run there, and, for QEMU, firmware files *)
(* to name, whatever the other processes did meanwhile (Configure).        *)
THEOREM ReadyIsChecked == SetupSpec => []SetupReadyIsChecked
<1>1. SetupInv => SetupReadyIsChecked
  BY DEF SetupInv, SetupOrder, SetupReadyIsChecked, OnceChecked, OnceInstalled, OnLinux, OnceKnown, OnceCode, OnceVars, Firmware
<1> QED BY <1>1, SetupAlways, PTL

(* What is left of a firmware file by any number of processes that write it *)
(* at once is whole, unless the one that opened it last is not done with it *)
(* or failed or was killed over it (extractFileIfNotExists only asks       *)
(* whether the file is there).                                             *)
THEOREM PartHasCulprit == SetupSpec => []SetupPartHasCulprit
  BY SetupAlways, PTL DEF SetupInv

-----------------------------------------------------------------------------
(* All parts in one behaviour.                                             *)

(* Whichever part a behaviour has picked: it is a behaviour of every part,  *)
(* for all but one of them one in which nothing happens.                   *)
PartSpecs ==
    /\ TapSpec /\ LagSpec /\ LinkSpec /\ QmpSpec /\ SwSpec /\ SshSpec /\ WaitSpec
    /\ TailSpec /\ NodeSpec /\ ImageSpec /\ SetupSpec /\ PlanSpec /\ InetSpec

LEMMA PartsStart ==
    ASSUME Init
    PROVE  /\ TapInit /\ LagInit /\ LinkInit /\ QmpInit /\ SwInit /\ SshInit /\ WaitInit
           /\ TailInit /\ NodeInit /\ ImageInit /\ SetupInit /\ PlanInit /\ InetInit
  BY DEF Init

LEMMA PartsGoOn ==
    ASSUME [Next]_vars
    PROVE  /\ [TapNext]_tapVars
           /\ [LagNext]_lagVars
           /\ [LinkNext]_linkVars
           /\ [QmpNext]_qmpVars
           /\ [SwNext]_swVars
           /\ [SshNext]_sshVars
           /\ [WaitNext]_waitVars
           /\ [TailNext]_tailVars
           /\ [NodeNext]_ndVars
           /\ [ImageNext]_imVars
           /\ [SetupNext]_setupVars
           /\ [PlanNext]_planVars
           /\ [InetNext]_inVars
<1>1. [TapNext]_tapVars
  BY DEF Next, vars
<1>2. [LagNext]_lagVars
  BY DEF Next, vars
<1>3. [LinkNext]_linkVars
  BY DEF Next, vars
<1>4. [QmpNext]_qmpVars
  BY DEF Next, vars
<1>5. [SwNext]_swVars
  BY DEF Next, vars
<1>6. [SshNext]_sshVars
  BY DEF Next, vars
<1>7. [WaitNext]_waitVars
  BY DEF Next, vars
<1>8. [TailNext]_tailVars
  BY DEF Next, vars
<1>9. [NodeNext]_ndVars
  BY DEF Next, vars
<1>10. [ImageNext]_imVars
  BY DEF Next, vars
<1>11. [SetupNext]_setupVars
  BY DEF Next, vars
<1>12. [PlanNext]_planVars
  BY DEF Next, vars
<1>13. [InetNext]_inVars
  BY DEF Next, vars
<1> QED BY <1>1, <1>2, <1>3, <1>4, <1>5, <1>6, <1>7, <1>8, <1>9, <1>10, <1>11, <1>12, <1>13

(* The parts get in nobody's way: a behaviour of all of them together is    *)
(* one of each, with the fairness it asks for, so that what is proved of a *)
(* part by itself holds of the provider that has them all.                 *)
THEOREM PartsTogether == Spec => PartSpecs
  BY PartsStart, PartsGoOn, PTL
       DEF Spec, Fairness, PartSpecs, TapSpec, LagSpec, LinkSpec, QmpSpec, SwSpec, SshSpec, WaitSpec, TailSpec,
           NodeSpec, ImageSpec, SetupSpec, PlanSpec, InetSpec

(* For every value of the constants, in every part's operations and at     *)
(* every failure of theirs: the variables keep their types.                *)
THEOREM Typing == Spec => []TypeOK
<1>1. TapSpec => []TapTypeOK
  BY TapTypes
<1>2. LagSpec => []LagTypeOK
  BY LagTypes
<1>3. LinkSpec => []LinkTypeOK
  BY LinkTypes
<1>4. QmpSpec => []QmpTypeOK
  BY QmpInvariant, PTL DEF QmpInv
<1>5. SwSpec => []SwTypeOK
  BY SwTyping
<1>6. SshSpec => []SshTypeOK
  BY SshInvariant, PTL DEF SshInv
<1>7. WaitSpec => []WaitTypeOK
  BY WaitAlways, PTL DEF LogsInv
<1>8. TailSpec => []TailTypeOK
  BY TailAlways, PTL DEF TailInv
<1>9. NodeSpec => []NodeTypeOK
  BY NodeTypes
<1>10. ImageSpec => []ImageTypeOK
  BY ImageTypes
<1>11. SetupSpec => []SetupTypeOK
  BY SetupTypes
<1>12. PlanSpec => []PlanTypeOK
  BY PlanAlways, PTL DEF PlanInv
<1>13. InetSpec => []InetTypeOK
  BY InetSafe, PTL DEF InetInv
<1> QED BY PartsTogether, <1>1, <1>2, <1>3, <1>4, <1>5, <1>6, <1>7, <1>8, <1>9, <1>10, <1>11, <1>12, <1>13, PTL
       DEF PartSpecs, TypeOK

(* And so does everything else that is checked of them in one run, but for *)
(* what must happen in the end: no property of the TAP, the LAG, the links, *)
(* QMP, swtpm, ssh, the waits, the tailer, the plans or the internet       *)
(* monitor is lost when another part of the provider is at work instead.   *)
THEOREM AllParts ==
    Spec => /\ [](TapNoEarlyDrift /\ TapDeleteLeavesNone /\ TapMovedIsDone)
            /\ [](LagApplied /\ LinkNoSpuriousReplace)
            /\ [](QmpOwnReply /\ SwOneMonitor)
            /\ [](SshNothingLeaks /\ SshForwardsOnce)
            /\ [](WaitLogsPruned /\ WaitWithinTimeout /\ TailLinesKept)
            /\ [](PlanApplied /\ InetRecordsWhole)
            /\ LagForeignStays /\ SwKillsOrphans
<1>1. TapSpec => [](TapNoEarlyDrift /\ TapDeleteLeavesNone /\ TapMovedIsDone)
  BY NoEarlyDrift, DeleteLeavesNone, MovedIsDone, PTL
<1>2. LagSpec => []LagApplied /\ LagForeignStays
  BY LagDone, ForeignStays, PTL
<1>3. LinkSpec => []LinkNoSpuriousReplace
  BY NoSpuriousReplace
<1>4. QmpSpec => []QmpOwnReply
  BY OwnReply
<1>5. SwSpec => []SwOneMonitor /\ SwKillsOrphans
  BY OneMonitor, KillsOrphans, PTL
<1>6. SshSpec => [](SshNothingLeaks /\ SshForwardsOnce)
  BY NothingStaysOpen, AskedOnce, PTL
<1>7. WaitSpec => [](WaitLogsPruned /\ WaitWithinTimeout)
  BY LogsPruned, WithinTimeout, PTL
<1>8. TailSpec => []TailLinesKept
  BY LinesKept
<1>9. PlanSpec => []PlanApplied
  BY Applied
<1>10. InetSpec => []InetRecordsWhole
  BY RecordsWhole
<1> QED BY PartsTogether, <1>1, <1>2, <1>3, <1>4, <1>5, <1>6, <1>7, <1>8, <1>9, <1>10, PTL
       DEF PartSpecs
=============================================================================
