------------------------ MODULE ProcessMonitor_proofs ------------------------
(***************************************************************************)
(* Proofs about ProcessMonitor, for any number of monitors, any delays and *)
(* any limit on failures.                                                  *)
(***************************************************************************)
EXTENDS ProcessMonitor, TLAPS

MonitorAct(m) ==
  \/ Launch(m) \/ MonitorStep(m) \/ Sigkill(m) \/ \E sig \in Signals : SendSignal(m, sig)

ChildAct(c) == ChildUp(c) \/ ChildExits(c)

LEMMA NextSplit ==
  Next => (\E m \in Monitors : MonitorAct(m)) \/ (\E c \in Children : ChildAct(c))
  BY DEF Next, MonitorAct, ChildAct

LEMMA AtmostProp ==
  \A n, bound \in Nat : /\ Atmost(n, bound) \in Nat /\ Atmost(n, bound) <= bound
                        /\ Atmost(n, bound) = n \/ Atmost(n, bound) = bound
  BY DEF Atmost

(* What the end of a monitor and the end of a wait do to the types. *)
LEMMA VanishType ==
  ASSUME NEW m \in Monitors, MonitorTypeOK, Vanish(m)
  PROVE  /\ mon' \in [Monitors -> Stages]
         /\ pending' \in [Monitors -> SUBSET {"TERM", "HUP"}]
         /\ job' \in [Monitors -> Children \cup {None}]
         /\ failures' \in [Monitors -> Nat]
         /\ delay' \in [Monitors -> Nat]
         /\ parent' \in [Children -> Monitors \cup {None}]
  BY OptionsAssumption DEF Vanish, MonitorTypeOK, Stages

LEMMA ReckonType ==
  ASSUME NEW m \in Monitors, NEW clean \in BOOLEAN, MonitorTypeOK, Reckon(m, clean)
  PROVE  /\ mon' \in [Monitors -> Stages]
         /\ job' \in [Monitors -> Children \cup {None}]
         /\ failures' \in [Monitors -> Nat]
         /\ delay' \in [Monitors -> Nat]
<1>1. delay[m] \in Nat /\ failures[m] \in Nat /\ failures[m] + 1 \in Nat /\ 2 * delay[m] \in Nat
  BY DEF MonitorTypeOK
<1>2. Atmost(2 * delay[m], MaxDelay) \in Nat
  BY <1>1, AtmostProp, OptionsAssumption
<1>3. /\ mon' \in [Monitors -> Stages]
      /\ job' \in [Monitors -> Children \cup {None}]
  BY DEF Reckon, step, MonitorTypeOK, Stages, Looping
<1>4. failures' \in [Monitors -> Nat] /\ delay' \in [Monitors -> Nat]
  BY <1>1, <1>2, OptionsAssumption DEF Reckon, MonitorTypeOK
<1> QED BY <1>3, <1>4

LEMMA MonitorType ==
  ASSUME NEW m \in Monitors, MonitorTypeOK, MonitorAct(m)
  PROVE  MonitorTypeOK'
<1>1. CASE Launch(m) \/ SetTraps(m) \/ NoteChild(m) \/ DelayOver(m) \/ StopWaiting(m)
  BY <1>1 DEF Launch, SetTraps, NoteChild, DelayOver, StopWaiting, step, childVars, MonitorTypeOK,
              Stages, Untrapped, Looping
<1>2. CASE WritePidFile(m)
  <2>1. CASE step(m, "launched", "named") /\ pidfile' = m
             /\ UNCHANGED <<pending, job, failures, delay, childVars>>
    BY <2>1 DEF step, childVars, MonitorTypeOK, Stages, Untrapped
  <2>2. CASE Vanish(m) /\ UNCHANGED <<kid, pidfile>>
    BY <2>2, VanishType DEF MonitorTypeOK
  <2> QED BY <1>2, <2>1, <2>2 DEF WritePidFile
<1>3. CASE StartChild(m)
  BY <1>3 DEF StartChild, step, MonitorTypeOK, Stages, Looping
<1>4. CASE ChildDone(m)
  BY <1>4, ReckonType DEF ChildDone, childVars, MonitorTypeOK
<1>5. CASE HandleTerm(m)
  BY <1>5 DEF HandleTerm, forward, MonitorTypeOK, Stages
<1>6. CASE HandleHup(m)
  <2>1. /\ pending' \in [Monitors -> SUBSET {"TERM", "HUP"}]
        /\ UNCHANGED <<pidfile, kid, parent>>
    BY <1>6 DEF HandleHup, childVars, MonitorTypeOK
  <2>2. CASE UNCHANGED <<mon, job, failures, delay>>
    BY <2>1, <2>2 DEF MonitorTypeOK
  <2>3. CASE Reckon(m, FALSE)
    BY <2>1, <2>3, ReckonType DEF MonitorTypeOK
  <2>4. CASE step(m, "stopping", "leaving") /\ UNCHANGED <<job, failures, delay>>
    BY <2>1, <2>4 DEF step, MonitorTypeOK, Stages
  <2> QED BY <1>6, <2>2, <2>3, <2>4 DEF HandleHup
<1>7. CASE Leave(m)
  BY <1>7, VanishType DEF Leave, MonitorTypeOK
<1>8. CASE Sigkill(m)
  BY <1>8, VanishType DEF Sigkill, MonitorTypeOK
<1>9. ASSUME NEW sig \in Signals, SendSignal(m, sig)
      PROVE  MonitorTypeOK'
  <2>1. CASE mon[m] \in Untrapped
    BY <1>9, <2>1, VanishType DEF SendSignal, MonitorTypeOK
  <2>2. CASE mon[m] \notin Untrapped
    <3>1. pending' \in [Monitors -> SUBSET {"TERM", "HUP"}]
      BY <1>9, <2>2, OptionsAssumption DEF SendSignal, MonitorTypeOK
    <3> QED BY <1>9, <2>2, <3>1 DEF SendSignal, MonitorTypeOK
  <2> QED BY <2>1, <2>2
<1> QED
  BY <1>1, <1>2, <1>3, <1>4, <1>5, <1>6, <1>7, <1>8, <1>9 DEF MonitorAct, MonitorStep, Advance

LEMMA ChildType ==
  ASSUME NEW c \in Children, MonitorTypeOK, ChildAct(c)
  PROVE  MonitorTypeOK'
  BY DEF ChildAct, ChildUp, ChildExits, monitorVars, MonitorTypeOK

(* The monitors, their children and their delays keep their types. *)
THEOREM MonitorTyping == Spec => []MonitorTypeOK
<1>1. Init => MonitorTypeOK
  BY OptionsAssumption DEF Init, MonitorTypeOK, Stages
<1>2. MonitorTypeOK /\ [Next]_vars => MonitorTypeOK'
  <2>1. MonitorTypeOK /\ UNCHANGED vars => MonitorTypeOK'
    BY DEF MonitorTypeOK, vars, monitorVars, childVars
  <2> QED BY <2>1, NextSplit, MonitorType, ChildType
<1> QED BY <1>1, <1>2, PTL DEF Spec

-----------------------------------------------------------------------------
(***************************************************************************)
(* Why there is one child: unless a HUP cuts a wait short, the monitor     *)
(* comes back to the head of its loop only when the child it waited for is *)
(* gone, and $! names every process it has.                                *)
(***************************************************************************)
OnlyJob ==
  \A m \in Monitors :
    /\ \A c \in Offspring(m) : c = job[m]
    /\ mon[m] \in {"none", "launched", "named", "loop", "delaying"} => Offspring(m) = {}
    /\ "HUP" \notin pending[m]

ChildInv == MonitorTypeOK /\ OnlyJob

LEMMA MonitorOnlyJob ==
  ASSUME "HUP" \notin Signals, NEW m \in Monitors, ChildInv, MonitorAct(m)
  PROVE  OnlyJob'
<1> DEFINE J(n) == /\ \A c \in Offspring(n) : c = job[n]
                   /\ mon[n] \in {"none", "launched", "named", "loop", "delaying"} => Offspring(n) = {}
                   /\ "HUP" \notin pending[n]
<1>0. MonitorTypeOK /\ None \notin Monitors /\ \A n \in Monitors : J(n)
  BY ProcessesAssumption DEF ChildInv, OnlyJob
<1>1. ASSUME Vanish(m), UNCHANGED kid
      PROVE  OnlyJob'
  <2>1. Offspring(m)' = {}
    BY <1>0, <1>1 DEF Vanish, Offspring, Alive, MonitorTypeOK
  <2>2. \A n \in Monitors \ {m} : /\ Offspring(n)' = Offspring(n) /\ job'[n] = job[n]
                                  /\ mon'[n] = mon[n] /\ pending'[n] = pending[n]
    BY <1>0, <1>1 DEF Vanish, Offspring, Alive, MonitorTypeOK
  <2>3. pending'[m] = {}
    BY <1>0, <1>1 DEF Vanish, MonitorTypeOK
  <2> QED BY <1>0, <2>1, <2>2, <2>3 DEF OnlyJob
<1>2. ASSUME \A n \in Monitors : Offspring(n)' = Offspring(n) /\ pending'[n] \subseteq pending[n],
             \A n \in Monitors \ {m} : mon'[n] = mon[n] /\ job'[n] = job[n],
             J(m)'
      PROVE  OnlyJob'
  BY <1>0, <1>2 DEF OnlyJob
<1>3. ASSUME UNCHANGED <<kid, parent>>
      PROVE  \A n \in Monitors : Offspring(n)' = Offspring(n)
  BY <1>3 DEF Offspring, Alive
<1>4. CASE Launch(m) \/ SetTraps(m) \/ NoteChild(m) \/ DelayOver(m)
  <2>1. UNCHANGED <<kid, parent, pending, job>>
    BY <1>4 DEF Launch, SetTraps, NoteChild, DelayOver, childVars
  <2>2. /\ \A n \in Monitors \ {m} : mon'[n] = mon[n]
        /\ \/ mon[m] \in {"none", "launched", "named", "loop", "delaying"}
           \/ mon'[m] = "waiting"
    BY <1>0, <1>4 DEF Launch, SetTraps, NoteChild, DelayOver, step, MonitorTypeOK
  <2> QED BY <1>0, <1>2, <1>3, <2>1, <2>2
<1>5. CASE WritePidFile(m)
  <2>1. CASE Vanish(m) /\ UNCHANGED kid
    BY <1>1, <2>1
  <2>2. CASE step(m, "launched", "named") /\ UNCHANGED <<pending, job, childVars>>
    <3>1. /\ \A n \in Monitors \ {m} : mon'[n] = mon[n]
          /\ mon[m] = "launched" /\ UNCHANGED <<kid, parent, pending, job>>
      BY <1>0, <2>2 DEF step, MonitorTypeOK, childVars
    <3> QED BY <1>0, <1>2, <1>3, <3>1
  <2> QED BY <1>5, <2>1, <2>2 DEF WritePidFile
<1>6. CASE StartChild(m)
  <2>1. PICK c \in Children : /\ ~Alive(c) /\ kid' = [kid EXCEPT ![c] = "booting"]
                              /\ parent' = [parent EXCEPT ![c] = m]
                              /\ job' = [job EXCEPT ![m] = c]
    BY <1>6 DEF StartChild
  <2>2. /\ mon[m] = "loop" /\ mon'[m] = "forked" /\ UNCHANGED pending
        /\ \A n \in Monitors \ {m} : mon'[n] = mon[n] /\ job'[n] = job[n]
        /\ job'[m] = c
    BY <1>0, <1>6, <2>1 DEF StartChild, step, MonitorTypeOK
  <2>3. \A n \in Monitors \ {m} : Offspring(n)' = Offspring(n)
    BY <1>0, <2>1 DEF Offspring, Alive, MonitorTypeOK
  <2>4. Offspring(m)' \subseteq Offspring(m) \cup {c}
    BY <1>0, <2>1 DEF Offspring, Alive, MonitorTypeOK
  <2> QED BY <1>0, <2>2, <2>3, <2>4 DEF OnlyJob
<1>7. CASE ChildDone(m)
  <2>1. /\ mon[m] = "waiting" /\ UNCHANGED <<kid, parent, pending>>
        /\ \A n \in Monitors \ {m} : mon'[n] = mon[n] /\ job'[n] = job[n]
    BY <1>0, <1>7 DEF ChildDone, Reckon, step, MonitorTypeOK, childVars
  <2>2. Offspring(m) = {}
    <3>1. \A c \in Offspring(m) : c \in KnownChild(m)
      BY <1>0, <2>1 DEF Offspring, KnownChild
    <3> QED BY <1>7, <3>1 DEF ChildDone
  <2> QED BY <1>0, <1>2, <1>3, <2>1, <2>2
<1>8. CASE HandleTerm(m)
  <2>1. /\ UNCHANGED <<job, parent>> /\ mon'[m] \in {"stopping", "leaving"}
        /\ \A n \in Monitors \ {m} : mon'[n] = mon[n]
        /\ \A n \in Monitors : pending'[n] \subseteq pending[n]
    BY <1>0, <1>8 DEF HandleTerm, MonitorTypeOK
  <2>2. \A c \in Children : Alive(c)' <=> Alive(c)
    BY <1>0, <1>8 DEF HandleTerm, forward, KnownChild, Alive, MonitorTypeOK
  <2>3. \A n \in Monitors : Offspring(n)' = Offspring(n)
    BY <2>1, <2>2 DEF Offspring
  <2> QED BY <1>0, <1>2, <2>1, <2>3
<1>9. CASE StopWaiting(m)
  <2>1. UNCHANGED <<kid, parent, pending, job>>
    BY <1>9 DEF StopWaiting, childVars
  <2>2. /\ mon'[m] = "leaving" /\ \A n \in Monitors \ {m} : mon'[n] = mon[n]
    BY <1>0, <1>9 DEF StopWaiting, step, MonitorTypeOK
  <2> QED BY <1>0, <1>2, <1>3, <2>1, <2>2
<1>10. CASE HandleHup(m)
  BY <1>0, <1>10 DEF HandleHup
<1>11. CASE Leave(m) \/ Sigkill(m)
  BY <1>1, <1>11 DEF Leave, Sigkill
<1>12. ASSUME NEW sig \in Signals, SendSignal(m, sig)
       PROVE  OnlyJob'
  <2>1. CASE mon[m] \in Untrapped
    BY <1>1, <1>12, <2>1 DEF SendSignal
  <2>2. CASE mon[m] \notin Untrapped
    <3>1. UNCHANGED <<kid, parent, mon, job>> /\ pending' = [pending EXCEPT ![m] = @ \cup {sig}]
      BY <1>12, <2>2 DEF SendSignal
    <3>2. \A n \in Monitors : Offspring(n)' = Offspring(n)
      BY <1>3, <3>1
    <3>3. \A n \in Monitors : "HUP" \notin pending'[n]
      BY <1>0, <1>12, <3>1 DEF MonitorTypeOK
    <3> QED BY <1>0, <3>1, <3>2, <3>3 DEF OnlyJob
  <2> QED BY <2>1, <2>2
<1> QED
  BY <1>4, <1>5, <1>6, <1>7, <1>8, <1>9, <1>10, <1>11, <1>12 DEF MonitorAct, MonitorStep, Advance

LEMMA ChildOnlyJob ==
  ASSUME NEW c \in Children, ChildInv, ChildAct(c)
  PROVE  OnlyJob'
<1>1. MonitorTypeOK /\ OnlyJob /\ UNCHANGED <<mon, job, pending>>
  BY DEF ChildInv, ChildAct, ChildUp, ChildExits, monitorVars
<1>2. \A m \in Monitors : Offspring(m)' \subseteq Offspring(m)
  BY <1>1 DEF ChildAct, ChildUp, ChildExits, Offspring, Alive, MonitorTypeOK
<1> QED BY <1>1, <1>2 DEF OnlyJob

(***************************************************************************)
(* As long as nobody sends the monitor a HUP, USR1 or USR2, it never runs  *)
(* two processes of the command at once.                                   *)
(***************************************************************************)
THEOREM OneChildAtATime ==
  ASSUME "HUP" \notin Signals
  PROVE  Spec => []OneChild
<1>1. Init => ChildInv
  BY OptionsAssumption DEF Init, ChildInv, OnlyJob, MonitorTypeOK, Stages, Offspring, Alive
<1>2. ChildInv /\ [Next]_vars => ChildInv'
  <2>1. ChildInv /\ UNCHANGED vars => ChildInv'
    BY DEF ChildInv, OnlyJob, MonitorTypeOK, Offspring, Alive, vars, monitorVars, childVars
  <2>2. ASSUME ChildInv, NEW m \in Monitors, MonitorAct(m)
        PROVE  ChildInv'
    BY <2>2, MonitorType, MonitorOnlyJob DEF ChildInv
  <2>3. ASSUME ChildInv, NEW c \in Children, ChildAct(c)
        PROVE  ChildInv'
    BY <2>3, ChildType, ChildOnlyJob DEF ChildInv
  <2> QED BY <2>1, <2>2, <2>3, NextSplit
<1>3. ChildInv => OneChild
  BY DEF ChildInv, OnlyJob, OneChild
<1> QED BY <1>1, <1>2, <1>3, PTL DEF Spec

-----------------------------------------------------------------------------
(* The delay changes when a monitor ends and when it reckons with an exit. *)
LEMMA DelaySteps ==
  ASSUME MonitorTypeOK, [Next]_vars
  PROVE  \/ UNCHANGED delay
         \/ \E m \in Monitors : Vanish(m) \/ \E clean \in BOOLEAN : Reckon(m, clean)
<1>1. ASSUME NEW m \in Monitors, MonitorAct(m)
      PROVE  \/ UNCHANGED delay
             \/ Vanish(m) \/ \E clean \in BOOLEAN : Reckon(m, clean)
  BY <1>1 DEF MonitorAct, MonitorStep, Advance, Launch, WritePidFile, SetTraps, StartChild, NoteChild,
     ChildDone, DelayOver, HandleTerm, HandleHup, StopWaiting, Leave, Sigkill, SendSignal
<1>2. ASSUME NEW c \in Children, ChildAct(c)
      PROVE  UNCHANGED delay
  BY <1>2 DEF ChildAct, ChildUp, ChildExits, monitorVars
<1>3. UNCHANGED vars => UNCHANGED delay
  BY DEF vars, monitorVars
<1> QED BY <1>1, <1>2, <1>3, NextSplit

(***************************************************************************)
(* However often the command fails, the delay before its restart stays     *)
(* within what -d and -m say.                                              *)
(***************************************************************************)
THEOREM BackoffStaysInRange == Spec => []Backoff
<1>1. Init => Backoff
  BY OptionsAssumption DEF Init, Backoff
<1>2. MonitorTypeOK /\ Backoff /\ [Next]_vars => Backoff'
  <2>1. CASE UNCHANGED delay
    BY <2>1 DEF Backoff
  <2>2. ASSUME MonitorTypeOK, Backoff, NEW m \in Monitors, Vanish(m)
        PROVE  Backoff'
    BY <2>2, OptionsAssumption DEF Vanish, Backoff, MonitorTypeOK
  <2>3. ASSUME MonitorTypeOK, Backoff, NEW m \in Monitors, NEW clean \in BOOLEAN, Reckon(m, clean)
        PROVE  Backoff'
    <3>1. delay[m] \in Nat /\ 2 * delay[m] \in Nat /\ 2 * delay[m] >= delay[m]
      BY <2>3 DEF MonitorTypeOK
    <3>2. \/ delay' = delay
          \/ delay' = [delay EXCEPT ![m] = RestartDelay]
          \/ delay' = [delay EXCEPT ![m] = Atmost(2 * delay[m], MaxDelay)]
      BY <2>3 DEF Reckon
    <3>3. /\ Atmost(2 * delay[m], MaxDelay) <= MaxDelay
          /\ RestartDelay <= MaxDelay => RestartDelay <= Atmost(2 * delay[m], MaxDelay)
      BY <2>3, <3>1, OptionsAssumption DEF Backoff, Atmost
    <3> QED BY <2>3, <3>2, <3>3, OptionsAssumption DEF Backoff, MonitorTypeOK
  <2> QED BY <2>1, <2>2, <2>3, DelaySteps
<1> QED BY <1>1, <1>2, MonitorTyping, PTL DEF Spec

-----------------------------------------------------------------------------
(***************************************************************************)
(* Why TERM ends a monitor: it is kept until its trap runs, from then on   *)
(* there is no way back into the loop, and the wait of cleanup is for a    *)
(* child that was told to end.                                             *)
(***************************************************************************)
GoingDown == {"stopping", "leaving", "none"}

ChildTold ==
  \A m \in Monitors : mon[m] = "stopping" => \A c \in KnownChild(m) : kid[c] = "ending"

TermGoesOn(m) ==
  /\ "TERM" \in pending[m] => "TERM" \in pending'[m] \/ mon'[m] \in GoingDown
  /\ mon[m] = "stopping" => mon'[m] \in GoingDown
  /\ mon[m] = "leaving" => mon'[m] \in {"leaving", "none"}
  /\ "TERM" \in pending[m] \/ mon[m] \in GoingDown => Offspring(m)' \subseteq Offspring(m)

(* What a monitor does changes nothing of another one. *)
LEMMA OthersUntouched ==
  ASSUME MonitorTypeOK, NEW m \in Monitors, MonitorAct(m), NEW n \in Monitors \ {m}
  PROVE  /\ mon'[n] = mon[n] /\ pending'[n] = pending[n] /\ job'[n] = job[n]
         /\ Offspring(n)' \subseteq Offspring(n)
<1>1. ASSUME Vanish(m), UNCHANGED kid
      PROVE  /\ mon'[n] = mon[n] /\ pending'[n] = pending[n] /\ job'[n] = job[n]
             /\ Offspring(n)' \subseteq Offspring(n)
  <2>1. mon'[n] = mon[n] /\ pending'[n] = pending[n] /\ job'[n] = job[n]
    BY <1>1 DEF Vanish, MonitorTypeOK
  <2>2. \A c \in Children : parent'[c] \in {None, parent[c]}
    BY <1>1 DEF Vanish
  <2>3. Offspring(n)' \subseteq Offspring(n)
    BY <1>1, <2>2, ProcessesAssumption DEF Offspring, Alive
  <2> QED BY <2>1, <2>3
<1>2. CASE Launch(m) \/ SetTraps(m) \/ NoteChild(m) \/ DelayOver(m) \/ StopWaiting(m)
  BY <1>2 DEF Launch, SetTraps, NoteChild, DelayOver, StopWaiting, step, childVars, Offspring,
              Alive, MonitorTypeOK
<1>3. CASE WritePidFile(m)
  BY <1>1, <1>3 DEF WritePidFile, step, childVars, Offspring, Alive, MonitorTypeOK
<1>4. CASE StartChild(m)
  BY <1>4 DEF StartChild, step, Offspring, Alive, MonitorTypeOK
<1>5. CASE ChildDone(m)
  BY <1>5 DEF ChildDone, Reckon, step, childVars, Offspring, Alive, MonitorTypeOK
<1>6. CASE HandleTerm(m)
  BY <1>6 DEF HandleTerm, forward, KnownChild, Offspring, Alive, MonitorTypeOK
<1>7. CASE HandleHup(m)
  BY <1>7 DEF HandleHup, Reckon, step, childVars, Offspring, Alive, MonitorTypeOK
<1>8. CASE Leave(m) \/ Sigkill(m)
  BY <1>1, <1>8 DEF Leave, Sigkill
<1>9. ASSUME NEW sig \in Signals, SendSignal(m, sig)
      PROVE  /\ mon'[n] = mon[n] /\ pending'[n] = pending[n] /\ job'[n] = job[n]
             /\ Offspring(n)' \subseteq Offspring(n)
  BY <1>1, <1>9 DEF SendSignal, Offspring, Alive, MonitorTypeOK
<1> QED
  BY <1>2, <1>3, <1>4, <1>5, <1>6, <1>7, <1>8, <1>9 DEF MonitorAct, MonitorStep, Advance

LEMMA OwnTerm ==
  ASSUME MonitorTypeOK, NEW m \in Monitors, MonitorAct(m)
  PROVE  TermGoesOn(m)
<1>1. ASSUME Vanish(m), UNCHANGED kid
      PROVE  TermGoesOn(m)
  <2>1. mon'[m] = "none" /\ Offspring(m)' = {}
    BY <1>1, ProcessesAssumption DEF Vanish, Offspring, MonitorTypeOK
  <2> QED BY <2>1 DEF TermGoesOn, GoingDown
<1>2. CASE Launch(m) \/ SetTraps(m) \/ NoteChild(m) \/ DelayOver(m) \/ StopWaiting(m)
  <2>1. UNCHANGED <<pending, kid, parent>>
    BY <1>2 DEF Launch, SetTraps, NoteChild, DelayOver, StopWaiting, childVars
  <2>2. /\ mon[m] # "leaving"
        /\ mon[m] = "stopping" => mon'[m] = "leaving"
    BY <1>2 DEF Launch, SetTraps, NoteChild, DelayOver, StopWaiting, step, MonitorTypeOK
  <2> QED BY <2>1, <2>2 DEF TermGoesOn, GoingDown, Offspring, Alive
<1>3. CASE WritePidFile(m)
  <2>1. CASE Vanish(m) /\ UNCHANGED kid
    BY <1>1, <2>1
  <2>2. CASE step(m, "launched", "named") /\ UNCHANGED <<pending, childVars>>
    BY <2>2 DEF step, childVars, TermGoesOn, GoingDown, Offspring, Alive
  <2> QED BY <1>3, <2>1, <2>2 DEF WritePidFile
<1>4. CASE StartChild(m)
  BY <1>4 DEF StartChild, step, TermGoesOn, GoingDown
<1>5. CASE ChildDone(m)
  BY <1>5 DEF ChildDone, Reckon, step, childVars, TermGoesOn, GoingDown, Offspring, Alive
<1>6. CASE HandleTerm(m)
  <2>1. mon'[m] \in {"stopping", "leaving"} /\ mon[m] # "leaving"
    BY <1>6 DEF HandleTerm, MonitorTypeOK, Looping
  <2>2. Offspring(m)' \subseteq Offspring(m)
    BY <1>6 DEF HandleTerm, forward, KnownChild, Offspring, Alive, MonitorTypeOK
  <2> QED BY <2>1, <2>2 DEF TermGoesOn, GoingDown
<1>7. CASE HandleHup(m)
  <2>1. UNCHANGED <<kid, parent>> /\ ("TERM" \in pending[m] => "TERM" \in pending'[m])
    BY <1>7 DEF HandleHup, childVars, MonitorTypeOK
  <2>2. /\ mon[m] # "leaving"
        /\ mon[m] = "stopping" => mon'[m] \in {"stopping", "leaving"}
    BY <1>7 DEF HandleHup, Reckon, step, MonitorTypeOK, Looping
  <2> QED BY <2>1, <2>2 DEF TermGoesOn, GoingDown, Offspring, Alive
<1>8. CASE Leave(m) \/ Sigkill(m)
  BY <1>1, <1>8 DEF Leave, Sigkill
<1>9. ASSUME NEW sig \in Signals, SendSignal(m, sig)
      PROVE  TermGoesOn(m)
  <2>1. CASE mon[m] \in Untrapped
    BY <1>1, <1>9, <2>1 DEF SendSignal
  <2>2. CASE mon[m] \notin Untrapped
    <3>1. UNCHANGED <<mon, kid, parent>> /\ pending[m] \subseteq pending'[m]
      BY <1>9, <2>2 DEF SendSignal, MonitorTypeOK
    <3> QED BY <3>1 DEF TermGoesOn, GoingDown, Offspring, Alive
  <2> QED BY <2>1, <2>2
<1> QED
  BY <1>2, <1>3, <1>4, <1>5, <1>6, <1>7, <1>8, <1>9 DEF MonitorAct, MonitorStep, Advance

(* A child that was told to end stays told: its place is not taken by a new *)
(* one as long as a monitor still knows it.                                *)
LEMMA ToldStays ==
  ASSUME MonitorTypeOK, ChildTold, [Next]_vars
  PROVE  ChildTold'
<1> SUFFICES ASSUME NEW m \in Monitors, mon'[m] = "stopping", NEW c \in KnownChild(m)'
             PROVE  kid'[c] = "ending"
  BY DEF ChildTold
<1>0. c \in Children /\ c = job'[m] /\ kid'[c] # "none"
  BY DEF KnownChild, Alive
<1>1. CASE UNCHANGED vars
  BY <1>1 DEF ChildTold, KnownChild, Alive, vars, monitorVars, childVars
<1>2. ASSUME NEW d \in Children, ChildAct(d)
      PROVE  kid'[c] = "ending"
  <2>1. mon' = mon /\ job' = job /\ (kid'[c] = kid[c] \/ kid[c] = "booting" \/ kid'[c] = "none")
    BY <1>0, <1>2 DEF ChildAct, ChildUp, ChildExits, monitorVars, MonitorTypeOK
  <2>2. kid[c] # "none"
    BY <1>0, <1>2 DEF ChildAct, ChildUp, ChildExits, Alive, MonitorTypeOK
  <2>3. kid[c] = "ending"
    BY <1>0, <2>1, <2>2 DEF ChildTold, KnownChild, Alive
  <2> QED BY <1>0, <2>1, <2>3
<1>3. ASSUME NEW n \in Monitors, MonitorAct(n)
      PROVE  kid'[c] = "ending"
  <2>1. CASE HandleTerm(n)
    <3>1. job' = job /\ kid' = [d \in Children |-> IF d \in KnownChild(n) THEN "ending" ELSE kid[d]]
      BY <2>1 DEF HandleTerm, forward
    <3>2. kid[c] # "none"
      BY <1>0, <3>1 DEF KnownChild, Alive
    <3>3. CASE n = m
      <4>1. mon[m] \in (Looping \ {"delaying"}) \cup {"stopping"} /\ KnownChild(m) # {}
        BY <2>1, <3>3 DEF HandleTerm, MonitorTypeOK
      <4>2. c \in KnownChild(m)
        BY <1>0, <3>1, <4>1 DEF KnownChild
      <4> QED BY <1>0, <3>1, <3>3, <4>2
    <3>4. CASE n # m
      <4>1. mon[m] = "stopping"
        BY <1>3, <3>4, OthersUntouched
      <4>2. kid[c] = "ending"
        BY <1>0, <3>1, <3>2, <4>1 DEF ChildTold, KnownChild, Alive
      <4> QED BY <1>0, <3>1, <4>2
    <3> QED BY <3>3, <3>4
  <2>2. CASE StartChild(n)
    <3>1. /\ mon'[n] = "forked" /\ \A k \in Monitors \ {n} : mon'[k] = mon[k] /\ job'[k] = job[k]
      BY <2>2 DEF StartChild, step, MonitorTypeOK
    <3>2. n # m /\ mon[m] = "stopping" /\ c = job[m]
      BY <1>0, <3>1
    <3>3. kid'[c] = kid[c]
      BY <1>0, <2>2, <3>2 DEF StartChild, MonitorTypeOK
    <3> QED BY <1>0, <3>2, <3>3 DEF ChildTold, KnownChild, Alive
  <2>3. CASE ~HandleTerm(n) /\ ~StartChild(n)
    <3>1. UNCHANGED kid
      BY <1>3, <2>3 DEF MonitorAct, MonitorStep, Advance, Launch, WritePidFile, SetTraps, NoteChild,
         ChildDone, DelayOver, HandleHup, StopWaiting, Leave, Sigkill, SendSignal, childVars
    <3>2. mon[m] = "stopping" /\ job'[m] = job[m]
      <4>1. CASE n # m
        BY <1>3, <4>1, OthersUntouched
      <4>2. CASE n = m
        <5>1. Vanish(m) => mon'[m] = "none"
          BY DEF Vanish, MonitorTypeOK
        <5>2. \A from, to : step(m, from, to) => mon'[m] = to
          BY DEF step, MonitorTypeOK
        <5> QED
          BY <1>3, <2>3, <4>2, <5>1, <5>2 DEF MonitorAct, MonitorStep, Advance, Launch, WritePidFile,
             SetTraps, NoteChild, ChildDone, DelayOver, HandleHup, StopWaiting, Leave, Sigkill,
             SendSignal, Reckon
      <4> QED BY <4>1, <4>2
    <3> QED BY <1>0, <3>1, <3>2 DEF ChildTold, KnownChild, Alive
  <2> QED BY <2>1, <2>2, <2>3
<1> QED BY <1>1, <1>2, <1>3, NextSplit

(***************************************************************************)
(* With any other signals in between, and however many monitors: a TERM is *)
(* not lost, a monitor that took it starts nothing any more and only comes *)
(* nearer its end, and what it waits for there is a child it told to end.  *)
(***************************************************************************)
THEOREM TermIsNotLost == Spec => []ChildTold /\ [][\A m \in Monitors : TermGoesOn(m)]_vars
<1>1. Init => ChildTold
  BY DEF Init, ChildTold
<1>2. MonitorTypeOK /\ ChildTold /\ [Next]_vars => ChildTold'
  BY ToldStays
<1>3. ASSUME MonitorTypeOK, Next, NEW m \in Monitors
      PROVE  TermGoesOn(m)
  <2>1. ASSUME NEW n \in Monitors, MonitorAct(n)
        PROVE  TermGoesOn(m)
    <3>1. CASE n = m
      BY <1>3, <2>1, <3>1, OwnTerm
    <3>2. CASE n # m
      BY <1>3, <2>1, <3>2, OthersUntouched DEF TermGoesOn, GoingDown
    <3> QED BY <3>1, <3>2
  <2>2. ASSUME NEW c \in Children, ChildAct(c)
        PROVE  TermGoesOn(m)
    <3>1. UNCHANGED <<mon, pending>> /\ Offspring(m)' \subseteq Offspring(m)
      BY <1>3, <2>2 DEF ChildAct, ChildUp, ChildExits, monitorVars, Offspring, Alive, MonitorTypeOK
    <3> QED BY <3>1 DEF TermGoesOn, GoingDown
  <2> QED BY <1>3, <2>1, <2>2, NextSplit
<1>4. MonitorTypeOK /\ [Next]_vars => [\A m \in Monitors : TermGoesOn(m)]_vars
  BY <1>3
<1> QED BY <1>1, <1>2, <1>4, MonitorTyping, PTL DEF Spec
=============================================================================
