----------------------- MODULE HostReservation_proofs -----------------------
(***************************************************************************)
(* Proofs about HostReservation, for any number of reservations, script    *)
(* processes and slots.                                                    *)
(***************************************************************************)
EXTENDS HostReservation, FiniteSetTheorems, TLAPS

LEMMA BlankShell == Blank \in Shell /\ Blank.id = Nobody
  BY DEF Blank, Shell, Modes

(* Assignments to a script's variables keep it a shell. *)
LEMMA ShellUpdates ==
  ASSUME NEW r \in Shell, NEW S \in SUBSET Slots, NEW T \in SUBSET Slots
  PROVE  /\ [r EXCEPT !.left = S] \in Shell
         /\ [r EXCEPT !.claim = S] \in Shell
         /\ [r EXCEPT !.written = S] \in Shell
         /\ [r EXCEPT !.target = S] \in Shell
         /\ [r EXCEPT !.left = S, !.claim = T] \in Shell
         /\ [r EXCEPT !.left = S, !.target = T] \in Shell
         /\ [r EXCEPT !.left = S, !.found = T] \in Shell
<1>1. [r EXCEPT !.left = S] \in Shell BY DEF Shell
<1>2. [r EXCEPT !.claim = S] \in Shell BY DEF Shell
<1>3. [r EXCEPT !.written = S] \in Shell BY DEF Shell
<1>4. [r EXCEPT !.target = S] \in Shell BY DEF Shell
<1>5. [r EXCEPT !.left = S, !.claim = T] \in Shell BY DEF Shell
<1>6. [r EXCEPT !.left = S, !.target = T] \in Shell BY DEF Shell
<1>7. [r EXCEPT !.left = S, !.found = T] \in Shell BY DEF Shell
<1> QED BY <1>1, <1>2, <1>3, <1>4, <1>5, <1>6, <1>7

(* What a handler or a script's end does to pc, sh, lock and call keeps their types. *)
LEMMA ExitType ==
  ASSUME NEW p \in Procs, NEW outcome \in Ended, TypeOK, pc[p] # "idle", Exit(p, outcome)
  PROVE  /\ pc' \in [Procs -> {"idle"} \cup Running \cup Ended]
         /\ sh' \in [Procs -> Shell]
         /\ \A q \in Procs : pc'[q] # "idle" => sh'[q].id \in Ids
         /\ lock' \in Procs \cup {Nobody}
  BY BlankShell DEF TypeOK, Exit, goto, assign

LEMMA RunScriptType ==
  ASSUME NEW i \in Ids, NEW p \in Procs, NEW mode \in Modes,
         NEW want \in Requests \cup {Nobody}, TypeOK, runScript(i, p, mode, want)
  PROVE  /\ pc' \in [Procs -> {"idle"} \cup Running \cup Ended]
         /\ sh' \in [Procs -> Shell]
         /\ \A q \in Procs : pc'[q] # "idle" => sh'[q].id \in Ids
         /\ call' \in [Ids -> Procs \cup {Nobody}]
<1>1. [Blank EXCEPT !.mode = mode, !.id = i, !.want = want, !.left = Slots] \in Shell
  BY DEF Blank, Shell
<1>2. [Blank EXCEPT !.mode = mode, !.id = i, !.want = want, !.left = Slots].id = i
  BY DEF Blank
<1> QED
  BY <1>1, <1>2 DEF TypeOK, runScript, goto, assign, Running

LEMMA CollectType ==
  ASSUME NEW i \in Ids, TypeOK, Collect(i)
  PROVE  /\ pc' \in [Procs -> {"idle"} \cup Running \cup Ended]
         /\ sh' \in [Procs -> Shell]
         /\ \A q \in Procs : pc'[q] # "idle" => sh'[q].id \in Ids
         /\ call' \in [Ids -> Procs \cup {Nobody}]
         /\ call[i] \in Procs
  BY BlankShell DEF TypeOK, Collect, goto, assign

LEMMA EnterType ==
  ASSUME NEW i \in Ids, NEW from, NEW to \in InCall \cup AtRest, TypeOK, Enter(i, from, to)
  PROVE  tf' \in [Ids -> InCall \cup AtRest]
  BY DEF TypeOK, Enter

(***************************************************************************)
(* The steps of a script keep the types.                                   *)
(***************************************************************************)
LEMMA ScriptType ==
  ASSUME NEW p \in Procs, TypeOK, ScriptStep(p) \/ Crash(p)
  PROVE  TypeOK'
<1>0. "ok" \in Ended /\ "failed" \in Ended /\ "killed" \in Ended
  BY DEF Ended
<1>s. sh[p] \in Shell
  BY DEF TypeOK
<1>r. pc[p] # "idle"
  BY DEF ScriptStep, acquire_lock, SelectCpus, SelectGbs, SelectDev, BeginCommit, CommitWrite,
         CommitFail, CommitDone, RollbackClear, RollbackDone, emit_owned, EmitDone, ReleaseGrep,
         ReleaseCheck, ReleaseTruncate, ReleaseDone, Crash, Running
<1>a. ASSUME NEW r \in Shell, r.id = sh[p].id, assign(p, r), UNCHANGED pc \/ (\E l : goto(p, l))
      PROVE  /\ sh' \in [Procs -> Shell]
             /\ \A q \in Procs : pc'[q] # "idle" => sh'[q].id \in Ids
  BY <1>a, <1>r DEF assign, goto, TypeOK
<1>g. ASSUME NEW label \in Running, goto(p, label)
      PROVE  /\ pc' \in [Procs -> {"idle"} \cup Running \cup Ended]
             /\ UNCHANGED sh => \A q \in Procs : pc'[q] # "idle" => sh'[q].id \in Ids
  BY <1>g, <1>r DEF goto, TypeOK
<1>1. CASE acquire_lock(p)
  BY <1>0, <1>1, <1>r, <1>g, ExitType DEF acquire_lock, TypeOK, Running
<1>2. ASSUME NEW S, NEW n, select_free(p, S, n), UNCHANGED <<marker, tf, st, call>>
      PROVE  TypeOK'
  <2>1. CASE Exit(p, "failed")
    BY <1>0, <1>2, <1>r, <2>1, ExitType DEF TypeOK
  <2>2. CASE ~Exit(p, "failed")
    <3>1. PICK s \in sh[p].left \cap S :
            /\ assign(p, [sh[p] EXCEPT !.left = @ \ {s},
                                       !.claim = IF marker[s] = Free THEN @ \cup {s} ELSE @])
            /\ UNCHANGED <<pc, lock>>
      BY <1>2, <2>2 DEF select_free
    <3>2. /\ sh[p].left \ {s} \in SUBSET Slots
          /\ (IF marker[s] = Free THEN sh[p].claim \cup {s} ELSE sh[p].claim) \in SUBSET Slots
      BY <1>s DEF Shell
    <3>3. [sh[p] EXCEPT !.left = @ \ {s},
                        !.claim = IF marker[s] = Free THEN @ \cup {s} ELSE @].id = sh[p].id
      BY <1>s DEF Shell
    <3> QED
      BY <1>2, <1>a, <1>s, <3>1, <3>2, <3>3, ShellUpdates DEF TypeOK
  <2> QED BY <2>1, <2>2
<1>3. CASE SelectCpus(p) \/ SelectGbs(p)
  BY <1>2, <1>3 DEF SelectCpus, SelectGbs
<1>4. CASE SelectDev(p)
  <2>1. CASE Exit(p, "failed")
    BY <1>0, <1>4, <1>r, <2>1, ExitType DEF SelectDev, TypeOK
  <2>2. CASE ~Exit(p, "failed")
    <3>1. PICK d \in Devs : assign(p, [sh[p] EXCEPT !.claim = @ \cup {d}]) /\ UNCHANGED <<pc, lock>>
      BY <1>4, <2>2 DEF SelectDev
    <3>2. sh[p].claim \cup {d} \in SUBSET Slots
      BY <1>s DEF Shell, Slots
    <3>3. [sh[p] EXCEPT !.claim = @ \cup {d}].id = sh[p].id
      BY <1>s DEF Shell
    <3> QED
      BY <1>4, <1>a, <1>s, <3>1, <3>2, <3>3, ShellUpdates DEF SelectDev, TypeOK
  <2> QED BY <2>1, <2>2
<1>5. CASE BeginCommit(p) \/ CommitFail(p)
  BY <1>5, <1>g DEF BeginCommit, CommitFail, TypeOK, Running
<1>6. CASE CommitWrite(p)
  <2>1. PICK s \in Unwritten(p) : /\ marker' = [marker EXCEPT ![s] = sh[p].id]
                                  /\ assign(p, [sh[p] EXCEPT !.written = @ \cup {s}])
    BY <1>6 DEF CommitWrite
  <2>2. sh[p].written \cup {s} \in SUBSET Slots
    BY <1>s DEF Unwritten, Shell
  <2>3. [sh[p] EXCEPT !.written = @ \cup {s}].id = sh[p].id
    BY <1>s DEF Shell
  <2>4. marker' \in [Slots -> Ids \cup {Free}]
    BY <1>r, <2>1 DEF TypeOK
  <2> QED
    BY <1>6, <1>a, <1>s, <2>1, <2>2, <2>3, <2>4, ShellUpdates DEF CommitWrite, TypeOK
<1>7. CASE CommitDone(p)
  <2>1. [sh[p] EXCEPT !.left = Slots].id = sh[p].id
    BY <1>s DEF Shell
  <2> QED
    BY <1>7, <1>a, <1>s, <1>g, <2>1, ShellUpdates DEF CommitDone, TypeOK, Running
<1>8. CASE RollbackClear(p)
  <2>1. PICK s \in sh[p].written : /\ marker' = [marker EXCEPT ![s] = Free] \/ UNCHANGED marker
                                   /\ assign(p, [sh[p] EXCEPT !.written = @ \ {s}])
    BY <1>8 DEF RollbackClear
  <2>2. sh[p].written \ {s} \in SUBSET Slots
    BY <1>s DEF Shell
  <2>3. [sh[p] EXCEPT !.written = @ \ {s}].id = sh[p].id
    BY <1>s DEF Shell
  <2>4. marker' \in [Slots -> Ids \cup {Free}]
    BY <2>1 DEF TypeOK
  <2> QED
    BY <1>8, <1>a, <1>s, <2>1, <2>2, <2>3, <2>4, ShellUpdates DEF RollbackClear, TypeOK
<1>9. CASE emit_owned(p)
  <2>1. PICK s \in sh[p].left :
          assign(p, [sh[p] EXCEPT !.left = @ \ {s},
                                  !.found = IF marker[s] = sh[p].id THEN @ \cup {s} ELSE @])
    BY <1>9 DEF emit_owned
  <2>2. /\ sh[p].left \ {s} \in SUBSET Slots
        /\ (IF marker[s] = sh[p].id THEN sh[p].found \cup {s} ELSE sh[p].found) \in SUBSET Slots
    BY <1>s DEF Shell
  <2>3. [sh[p] EXCEPT !.left = @ \ {s},
                      !.found = IF marker[s] = sh[p].id THEN @ \cup {s} ELSE @].id = sh[p].id
    BY <1>s DEF Shell
  <2> QED
    BY <1>9, <1>a, <1>s, <2>1, <2>2, <2>3, ShellUpdates DEF emit_owned, TypeOK
<1>10. CASE RollbackDone(p) \/ EmitDone(p) \/ ReleaseDone(p) \/ Crash(p)
  BY <1>0, <1>10, <1>r, ExitType DEF RollbackDone, EmitDone, ReleaseDone, Crash, TypeOK
<1>11. CASE ReleaseGrep(p)
  <2>1. [sh[p] EXCEPT !.left = Owned(sh[p].id)].id = sh[p].id
    BY <1>s DEF Shell
  <2>2. Owned(sh[p].id) \in SUBSET Slots
    BY DEF Owned
  <2> QED
    BY <1>11, <1>a, <1>s, <1>g, <2>1, <2>2, ShellUpdates DEF ReleaseGrep, TypeOK, Running
<1>12. CASE ReleaseCheck(p)
  <2>1. PICK s \in sh[p].left :
          \/ assign(p, [sh[p] EXCEPT !.target = {s}]) /\ goto(p, "truncate")
          \/ assign(p, [sh[p] EXCEPT !.left = @ \ {s}]) /\ UNCHANGED pc
    BY <1>12 DEF ReleaseCheck
  <2>2. {s} \in SUBSET Slots /\ sh[p].left \ {s} \in SUBSET Slots
    BY <1>s DEF Shell
  <2>3. /\ [sh[p] EXCEPT !.target = {s}].id = sh[p].id
        /\ [sh[p] EXCEPT !.left = @ \ {s}].id = sh[p].id
    BY <1>s DEF Shell
  <2>4. sh' \in [Procs -> Shell] /\ \A q \in Procs : pc'[q] # "idle" => sh'[q].id \in Ids
    BY <1>a, <1>s, <2>1, <2>2, <2>3, ShellUpdates
  <2>5. pc' \in [Procs -> {"idle"} \cup Running \cup Ended]
    BY <2>1, <1>g DEF TypeOK, Running
  <2> QED
    BY <1>12, <2>4, <2>5 DEF ReleaseCheck, TypeOK
<1>13. CASE ReleaseTruncate(p)
  <2>1. PICK s \in sh[p].target :
          /\ marker' = [marker EXCEPT ![s] = Free] \/ UNCHANGED marker
          /\ assign(p, [sh[p] EXCEPT !.left = @ \ {s}, !.target = {}])
    BY <1>13 DEF ReleaseTruncate
  <2>2. sh[p].left \ {s} \in SUBSET Slots /\ {} \in SUBSET Slots
    BY <1>s DEF Shell
  <2>3. [sh[p] EXCEPT !.left = @ \ {s}, !.target = {}].id = sh[p].id
    BY <1>s DEF Shell
  <2>4. marker' \in [Slots -> Ids \cup {Free}]
    BY <2>1 DEF TypeOK
  <2>5. goto(p, "check") /\ pc' \in [Procs -> {"idle"} \cup Running \cup Ended]
    BY <1>13, <1>g DEF ReleaseTruncate, Running
  <2>6. sh' \in [Procs -> Shell] /\ \A q \in Procs : pc'[q] # "idle" => sh'[q].id \in Ids
    BY <1>a, <1>s, <2>1, <2>2, <2>3, <2>5, ShellUpdates
  <2> QED
    BY <1>13, <2>4, <2>5, <2>6 DEF ReleaseTruncate, TypeOK
<1> QED
  BY <1>1, <1>3, <1>4, <1>5, <1>6, <1>7, <1>8, <1>9, <1>10, <1>11, <1>12, <1>13
  DEF ScriptStep

(***************************************************************************)
(* The steps of the handlers keep the types.                               *)
(***************************************************************************)
HandlerStep(i) == Create(i) \/ Read(i) \/ Delete(i) \/ Return(i) \/ LoseCall(i)

LEMMA HandlerType ==
  ASSUME NEW i \in Ids, TypeOK, HandlerStep(i)
  PROVE  TypeOK'
<1>0. ReadsOf \subseteq InCall /\ \A status \in ReadsOf : BeforeRead(status) \in AtRest
  BY DEF ReadsOf, InCall, AtRest, BeforeRead
<1>1. CASE Create(i)
  <2>1. CASE Enter(i, "new", "failed") /\ UNCHANGED <<marker, lock, pc, sh, st, call>>
    BY <2>1, EnterType DEF TypeOK, AtRest
  <2>2. CASE Enter(i, "new", "creating") /\ UNCHANGED <<marker, lock, st>>
    <3>1. PICK p \in Procs, r \in Requests : runScript(i, p, "reserve", r)
      BY <1>1, <2>2 DEF Create, Enter, TypeOK
    <3>2. "reserve" \in Modes /\ "creating" \in InCall
      BY DEF Modes, InCall
    <3> QED BY <2>2, <3>1, <3>2, RunScriptType, EnterType DEF TypeOK
  <2> QED BY <1>1, <2>1, <2>2 DEF Create
<1>2. CASE Read(i)
  <2>1. PICK p \in Procs : runScript(i, p, "scan", Nobody)
    BY <1>2 DEF Read
  <2>2. tf' \in [Ids -> InCall \cup AtRest]
    BY <1>2, EnterType DEF Read, InCall
  <2> QED BY <1>2, <2>1, <2>2, RunScriptType DEF Read, TypeOK, Modes
<1>3. CASE Delete(i)
  <2>1. PICK p \in Procs : runScript(i, p, "release", Nobody)
    BY <1>3 DEF Delete
  <2>2. tf' \in [Ids -> InCall \cup AtRest]
    BY <1>3, EnterType DEF Delete, InCall
  <2> QED BY <1>3, <2>1, <2>2, RunScriptType DEF Delete, TypeOK, Modes
<1>4. CASE CreateSucceeds(i)
  <2>1. Found(i) \in SUBSET Slots
    BY <1>4, CollectType DEF CreateSucceeds, Found, TypeOK, Shell
  <2> QED
    BY <1>4, <2>1, CollectType, EnterType DEF CreateSucceeds, TypeOK, AtRest
<1>5. CASE CreateUndoes(i)
  <2>1. call[i] \in Procs
    BY <1>5 DEF CreateUndoes, TypeOK
  <2>2. /\ [Blank EXCEPT !.mode = "release", !.id = i, !.left = Slots] \in Shell
        /\ [Blank EXCEPT !.mode = "release", !.id = i, !.left = Slots].id = i
    BY DEF Blank, Shell, Modes
  <2>3. /\ pc' \in [Procs -> {"idle"} \cup Running \cup Ended]
        /\ sh' \in [Procs -> Shell]
        /\ \A q \in Procs : pc'[q] # "idle" => sh'[q].id \in Ids
    BY <1>5, <2>1, <2>2 DEF CreateUndoes, goto, assign, TypeOK, Running
  <2> QED
    BY <1>5, <2>3, EnterType DEF CreateUndoes, TypeOK, InCall
<1>6. CASE CreateUndone(i) \/ CreateFails(i)
  BY <1>6, CollectType, EnterType DEF CreateUndone, CreateFails, TypeOK, AtRest
<1>7. CASE ReadSucceeds(i)
  <2>1. Found(i) \in SUBSET Slots
    BY <1>7, CollectType DEF ReadSucceeds, Found, TypeOK, Shell
  <2> QED
    BY <1>7, <2>1, CollectType DEF ReadSucceeds, TypeOK, AtRest
<1>8. CASE ReadFails(i)
  BY <1>0, <1>8, CollectType DEF ReadFails, TypeOK
<1>9. CASE DeleteReturns(i)
  BY <1>9, CollectType, EnterType DEF DeleteReturns, TypeOK, AtRest
<1>10. CASE LoseCall(i)
  BY <1>0, <1>10 DEF LoseCall, TypeOK, AtRest
<1> QED
  BY <1>1, <1>2, <1>3, <1>4, <1>5, <1>6, <1>7, <1>8, <1>9, <1>10 DEF HandlerStep, Return

LEMMA NextSplit ==
  Next => \/ \E p \in Procs : ScriptStep(p) \/ Crash(p)
          \/ \E i \in Ids : HandlerStep(i)
  BY DEF Next, HandlerStep

(***************************************************************************)
(* Every variable of the scripts and of the handlers keeps its type.       *)
(***************************************************************************)
THEOREM Typing == Spec => []TypeOK
<1>1. Init => TypeOK
  BY BlankShell DEF Init, TypeOK, AtRest
<1>2. TypeOK /\ [Next]_vars => TypeOK'
  <2>1. TypeOK /\ Next => TypeOK'
    BY NextSplit, ScriptType, HandlerType
  <2>2. TypeOK /\ UNCHANGED vars => TypeOK'
    BY DEF TypeOK, vars
  <2> QED BY <2>1, <2>2
<1> QED BY <1>1, <1>2, PTL DEF Spec

-----------------------------------------------------------------------------
(***************************************************************************)
(* The inductive invariant.  Attached ties a handler to the script it      *)
(* waits for, Locked says which scripts hold the lock, Marked what a       *)
(* script knows of the slot files it is about to write.                    *)
(***************************************************************************)
Attached ==
  /\ \A i \in Ids : call[i] # Nobody => pc[call[i]] # "idle" /\ sh[call[i]].id = i
  /\ \A i \in Ids : call[i] = Nobody <=> tf[i] \in AtRest
  /\ ~LostCalls => \A p \in Procs : pc[p] # "idle" => call[sh[p].id] = p

Locked ==
  \A p \in Procs :
    /\ pc[p] = "lock" => sh[p].mode \in {"reserve", "release"}
    /\ pc[p] \in {"select", "commit", "rollback"} => lock = p /\ sh[p].mode = "reserve"
    /\ pc[p] \in {"grep", "check", "truncate"} =>
         sh[p].mode = "release" /\ (~UnlockedRelease => lock = p)

Marked ==
  /\ ClaimsStayFree
  /\ \A p \in Procs :
       /\ pc[p] = "lock" => sh[p].claim = {}
       /\ pc[p] \in {"lock", "select"} => sh[p].written = {}
       /\ pc[p] \in {"commit", "rollback"} => \A s \in sh[p].written : marker[s] = sh[p].id
       /\ pc[p] = "truncate" => \A s \in sh[p].target : marker[s] = sh[p].id

IInv == TypeOK /\ Attached /\ Locked /\ Marked

(***************************************************************************)
(* Clearing markers without the lock is safe as long as no handler loses   *)
(* sight of a script it started.                                           *)
(***************************************************************************)
Safe == ~(UnlockedRelease /\ LostCalls)

(* A step of a script leaves the handlers and the other scripts alone. *)
Framed(p) ==
  /\ \A q \in Procs \ {p} : pc'[q] = pc[q] /\ sh'[q] = sh[q]
  /\ \A q \in Procs \ {p} : lock = q => lock' = q
  /\ \/ pc'[p] = "idle" /\ call[sh[p].id] # p
     \/ pc'[p] # "idle" /\ sh'[p].id = sh[p].id /\ sh'[p].mode = sh[p].mode

LEMMA ScriptFrame ==
  ASSUME NEW p \in Procs, TypeOK, ScriptStep(p) \/ Crash(p)
  PROVE  Framed(p) /\ UNCHANGED <<tf, st, call>> /\ pc[p] \in Running
<1>0. "idle" \notin Running \cup Ended /\ Nobody \notin Procs
  BY NamesAssumption DEF Running, Ended
<1>o. "ok" \in Ended /\ "failed" \in Ended /\ "killed" \in Ended
  BY DEF Ended
<1>s. sh[p] \in Shell
  BY DEF TypeOK
<1>e. ASSUME NEW outcome \in Ended, pc[p] # "idle", Exit(p, outcome)
      PROVE  Framed(p)
  BY <1>0, <1>e DEF Framed, Exit, goto, assign, TypeOK
<1>a. ASSUME NEW r, assign(p, r), r.id = sh[p].id, r.mode = sh[p].mode, pc[p] # "idle",
             UNCHANGED lock, UNCHANGED pc \/ \E l \in Running : goto(p, l)
      PROVE  Framed(p)
  BY <1>0, <1>a DEF Framed, assign, goto, TypeOK
<1>1. CASE acquire_lock(p)
  BY <1>0, <1>1, <1>e, <1>o DEF acquire_lock, Framed, goto, TypeOK, Running
<1>2. ASSUME NEW S, NEW n, select_free(p, S, n), pc[p] = "select"
      PROVE  Framed(p)
  <2>1. CASE Exit(p, "failed")
    BY <1>2, <1>e, <1>o, <2>1
  <2>2. CASE ~Exit(p, "failed")
    <3>1. PICK s \in sh[p].left \cap S :
            /\ assign(p, [sh[p] EXCEPT !.left = @ \ {s},
                                       !.claim = IF marker[s] = Free THEN @ \cup {s} ELSE @])
            /\ UNCHANGED <<pc, lock>>
      BY <1>2, <2>2 DEF select_free
    <3> DEFINE r == [sh[p] EXCEPT !.left = @ \ {s},
                                  !.claim = IF marker[s] = Free THEN @ \cup {s} ELSE @]
    <3>2. r.id = sh[p].id /\ r.mode = sh[p].mode
      BY <1>s DEF Shell
    <3> HIDE DEF r
    <3> QED BY <1>2, <1>a, <3>1, <3>2 DEF r
  <2> QED BY <2>1, <2>2
<1>3. CASE SelectCpus(p) \/ SelectGbs(p)
  BY <1>2, <1>3 DEF SelectCpus, SelectGbs, Running
<1>4. CASE SelectDev(p)
  <2>1. CASE Exit(p, "failed")
    BY <1>4, <1>e, <1>o, <2>1 DEF SelectDev, Running
  <2>2. CASE ~Exit(p, "failed")
    <3>1. PICK d : assign(p, [sh[p] EXCEPT !.claim = @ \cup {d}]) /\ UNCHANGED <<pc, lock>>
      BY <1>4, <2>2 DEF SelectDev
    <3>2. /\ [sh[p] EXCEPT !.claim = @ \cup {d}].id = sh[p].id
          /\ [sh[p] EXCEPT !.claim = @ \cup {d}].mode = sh[p].mode
      BY <1>s DEF Shell
    <3> QED BY <1>4, <1>a, <3>1, <3>2 DEF SelectDev, Running
  <2> QED BY <2>1, <2>2
<1>5. CASE BeginCommit(p) \/ CommitFail(p)
  BY <1>0, <1>5 DEF BeginCommit, CommitFail, Framed, goto, TypeOK, Running
<1>6. CASE CommitWrite(p)
  <2>1. PICK s : assign(p, [sh[p] EXCEPT !.written = @ \cup {s}])
    BY <1>6 DEF CommitWrite
  <2>2. /\ [sh[p] EXCEPT !.written = @ \cup {s}].id = sh[p].id
        /\ [sh[p] EXCEPT !.written = @ \cup {s}].mode = sh[p].mode
    BY <1>s DEF Shell
  <2> QED BY <1>6, <1>a, <2>1, <2>2 DEF CommitWrite, Running
<1>7. CASE CommitDone(p)
  <2>1. /\ [sh[p] EXCEPT !.left = Slots].id = sh[p].id
        /\ [sh[p] EXCEPT !.left = Slots].mode = sh[p].mode
    BY <1>s DEF Shell
  <2> QED BY <1>7, <1>a, <2>1 DEF CommitDone, Running
<1>8. CASE RollbackClear(p)
  <2>1. PICK s : assign(p, [sh[p] EXCEPT !.written = @ \ {s}])
    BY <1>8 DEF RollbackClear
  <2>2. /\ [sh[p] EXCEPT !.written = @ \ {s}].id = sh[p].id
        /\ [sh[p] EXCEPT !.written = @ \ {s}].mode = sh[p].mode
    BY <1>s DEF Shell
  <2> QED BY <1>8, <1>a, <2>1, <2>2 DEF RollbackClear, Running
<1>9. CASE emit_owned(p)
  <2>1. PICK s : assign(p, [sh[p] EXCEPT !.left = @ \ {s},
                                         !.found = IF marker[s] = sh[p].id THEN @ \cup {s} ELSE @])
    BY <1>9 DEF emit_owned
  <2> DEFINE r == [sh[p] EXCEPT !.left = @ \ {s},
                                !.found = IF marker[s] = sh[p].id THEN @ \cup {s} ELSE @]
  <2>2. r.id = sh[p].id /\ r.mode = sh[p].mode
    BY <1>s DEF Shell
  <2> HIDE DEF r
  <2> QED BY <1>9, <1>a, <2>1, <2>2 DEF emit_owned, Running, r
<1>10. CASE RollbackDone(p) \/ EmitDone(p) \/ ReleaseDone(p) \/ Crash(p)
  BY <1>0, <1>10, <1>e, <1>o DEF RollbackDone, EmitDone, ReleaseDone, Crash, Running
<1>11. CASE ReleaseGrep(p)
  <2>1. /\ [sh[p] EXCEPT !.left = Owned(sh[p].id)].id = sh[p].id
        /\ [sh[p] EXCEPT !.left = Owned(sh[p].id)].mode = sh[p].mode
    BY <1>s DEF Shell
  <2> QED BY <1>11, <1>a, <2>1 DEF ReleaseGrep, Running
<1>12. CASE ReleaseCheck(p)
  <2>1. PICK s :
          \/ assign(p, [sh[p] EXCEPT !.target = {s}]) /\ goto(p, "truncate")
          \/ assign(p, [sh[p] EXCEPT !.left = @ \ {s}]) /\ UNCHANGED pc
    BY <1>12 DEF ReleaseCheck
  <2>2. /\ [sh[p] EXCEPT !.target = {s}].id = sh[p].id
        /\ [sh[p] EXCEPT !.target = {s}].mode = sh[p].mode
        /\ [sh[p] EXCEPT !.left = @ \ {s}].id = sh[p].id
        /\ [sh[p] EXCEPT !.left = @ \ {s}].mode = sh[p].mode
    BY <1>s DEF Shell
  <2> QED BY <1>12, <1>a, <2>1, <2>2 DEF ReleaseCheck, Running
<1>13. CASE ReleaseTruncate(p)
  <2>1. PICK s : assign(p, [sh[p] EXCEPT !.left = @ \ {s}, !.target = {}])
    BY <1>13 DEF ReleaseTruncate
  <2>2. /\ [sh[p] EXCEPT !.left = @ \ {s}, !.target = {}].id = sh[p].id
        /\ [sh[p] EXCEPT !.left = @ \ {s}, !.target = {}].mode = sh[p].mode
    BY <1>s DEF Shell
  <2> QED BY <1>13, <1>a, <2>1, <2>2 DEF ReleaseTruncate, Running
<1>14. UNCHANGED <<tf, st, call>> /\ pc[p] \in Running
  BY DEF ScriptStep, acquire_lock, SelectCpus, SelectGbs, SelectDev, BeginCommit, CommitWrite,
         CommitFail, CommitDone, RollbackClear, RollbackDone, emit_owned, EmitDone, ReleaseGrep,
         ReleaseCheck, ReleaseTruncate, ReleaseDone, Crash, Running
<1> QED
  BY <1>1, <1>3, <1>4, <1>5, <1>6, <1>7, <1>8, <1>9, <1>10, <1>11, <1>12, <1>13, <1>14
  DEF ScriptStep

(***************************************************************************)
(* A slot file changes in one of two ways: a reserve marks it, or a script *)
(* of its own reservation truncates it.                                    *)
(***************************************************************************)
MarkedBy(p, s) ==
  pc[p] = "commit" /\ s \in Unwritten(p) /\ marker[s] = Free /\ marker'[s] = sh[p].id

ClearedBy(p, s) ==
  pc[p] \in {"rollback", "truncate"} /\ marker[s] = sh[p].id /\ marker'[s] = Free

LEMMA MarkerStep ==
  ASSUME NEW p \in Procs, TypeOK, Marked, ScriptStep(p) \/ Crash(p), NEW s \in Slots,
         marker'[s] # marker[s]
  PROVE  MarkedBy(p, s) \/ ClearedBy(p, s)
<1>1. CASE CommitWrite(p)
  BY <1>1 DEF CommitWrite, Unwritten, Marked, ClaimsStayFree, MarkedBy, TypeOK
<1>2. CASE RollbackClear(p)
  BY <1>2 DEF RollbackClear, Marked, ClearedBy, TypeOK
<1>3. CASE ReleaseTruncate(p)
  BY <1>3 DEF ReleaseTruncate, Marked, ClearedBy, TypeOK
<1> QED
  BY <1>1, <1>2, <1>3
  DEF ScriptStep, acquire_lock, SelectCpus, SelectGbs, SelectDev, BeginCommit,
      CommitFail, CommitDone, RollbackDone, emit_owned, EmitDone, ReleaseGrep,
      ReleaseCheck, ReleaseDone, Crash

(* Two scripts of one reservation are never about to write at the same time. *)
LEMMA NotOvertaken ==
  ASSUME Safe, IInv, NEW p \in Procs, NEW q \in Procs \ {p},
         pc[p] \in {"commit", "rollback", "truncate"},
         pc[q] \in {"commit", "rollback", "truncate"}
  PROVE  sh[p].id # sh[q].id
<1>1. CASE ~UnlockedRelease
  BY <1>1 DEF IInv, Locked
<1>2. CASE ~LostCalls
  BY <1>2 DEF IInv, Attached
<1> QED BY <1>1, <1>2 DEF Safe

LEMMA ScriptAttached ==
  ASSUME NEW p \in Procs, TypeOK, Attached, ScriptStep(p) \/ Crash(p)
  PROVE  Attached'
<1>1. Framed(p) /\ UNCHANGED <<tf, st, call>> /\ pc[p] # "idle"
  BY ScriptFrame DEF Running
<1>2. \A i \in Ids : call[i] # Nobody => call[i] \in Procs
  BY DEF TypeOK
<1>3. \A i \in Ids : call'[i] # Nobody => pc'[call'[i]] # "idle" /\ sh'[call'[i]].id = i
  BY <1>1, <1>2 DEF Attached, Framed
<1>4. \A i \in Ids : call'[i] = Nobody <=> tf'[i] \in AtRest
  BY <1>1 DEF Attached
<1>5. ~LostCalls => \A q \in Procs : pc'[q] # "idle" => call'[sh'[q].id] = q
  BY <1>1 DEF Attached, Framed
<1> QED BY <1>3, <1>4, <1>5 DEF Attached

(* A script works on the slots only from where the flock let it through. *)
LEMMA ScriptLocked ==
  ASSUME NEW p \in Procs, TypeOK, Locked, ScriptStep(p) \/ Crash(p)
  PROVE  Locked'
<1> DEFINE L(q) ==
    /\ pc[q] = "lock" => sh[q].mode \in {"reserve", "release"}
    /\ pc[q] \in {"select", "commit", "rollback"} => lock = q /\ sh[q].mode = "reserve"
    /\ pc[q] \in {"grep", "check", "truncate"} =>
         sh[q].mode = "release" /\ (~UnlockedRelease => lock = q)
<1>0. Locked <=> \A q \in Procs : L(q)
  BY DEF Locked
<1>1. Framed(p)
  BY ScriptFrame
<1>2. ASSUME NEW q \in Procs \ {p}
      PROVE  L(q)'
  BY <1>0, <1>1 DEF Framed
<1>s. pc[p] # "idle" /\ (pc'[p] # "idle" => sh'[p].mode = sh[p].mode)
  BY <1>1, ScriptFrame DEF Framed, Running
<1>3. L(p)'
  <2>1. CASE acquire_lock(p)
    BY <1>0, <1>s, <2>1 DEF acquire_lock, goto, Exit, TypeOK
  <2>2. ASSUME pc[p] = "select", UNCHANGED <<pc, lock>> \/ Exit(p, "failed")
        PROVE  L(p)'
    BY <1>0, <1>s, <2>2 DEF Exit, goto, TypeOK
  <2>3. CASE SelectCpus(p) \/ SelectGbs(p) \/ SelectDev(p)
    BY <2>2, <2>3 DEF SelectCpus, SelectGbs, SelectDev, select_free
  <2>4. CASE BeginCommit(p) \/ CommitWrite(p) \/ CommitFail(p) \/ CommitDone(p)
    BY <1>0, <1>s, <2>4 DEF BeginCommit, CommitWrite, CommitFail, CommitDone, goto, TypeOK
  <2>5. CASE RollbackClear(p) \/ emit_owned(p)
    BY <1>0, <1>s, <2>5 DEF RollbackClear, emit_owned
  <2>6. CASE RollbackDone(p) \/ EmitDone(p) \/ ReleaseDone(p) \/ Crash(p)
    BY <1>s, <2>6 DEF RollbackDone, EmitDone, ReleaseDone, Crash, Exit, goto, TypeOK
  <2>7. CASE ReleaseGrep(p) \/ ReleaseCheck(p) \/ ReleaseTruncate(p)
    BY <1>0, <1>s, <2>7 DEF ReleaseGrep, ReleaseCheck, ReleaseTruncate, goto, TypeOK
  <2> QED
    BY <2>1, <2>3, <2>4, <2>5, <2>6, <2>7 DEF ScriptStep
<1> QED
  BY <1>2, <1>3 DEF Locked

(* The slot files another script relies on are not touched under it. *)
LEMMA OthersMarked ==
  ASSUME Safe, IInv, NEW p \in Procs, NEW q \in Procs \ {p}, ScriptStep(p) \/ Crash(p)
  PROVE  /\ pc'[q] \in {"select", "commit"} => \A s \in Unwritten(q)' : marker'[s] = Free
         /\ pc'[q] = "lock" => sh'[q].claim = {}
         /\ pc'[q] \in {"lock", "select"} => sh'[q].written = {}
         /\ pc'[q] \in {"commit", "rollback"} => \A s \in sh'[q].written : marker'[s] = sh'[q].id
         /\ pc'[q] = "truncate" => \A s \in sh'[q].target : marker'[s] = sh'[q].id
<1>1. TypeOK /\ Locked /\ Marked /\ Free \notin Ids
  BY NamesAssumption DEF IInv
<1>2. pc'[q] = pc[q] /\ sh'[q] = sh[q] /\ pc[p] \in Running
  BY <1>1, ScriptFrame DEF Framed
<1>3. Unwritten(q)' = Unwritten(q)
  BY <1>2 DEF Unwritten
<1>4. sh[p].id \in Ids /\ (pc[q] # "idle" => sh[q].id \in Ids)
  BY <1>1, <1>2 DEF TypeOK, Running
<1>5. /\ Unwritten(q) \subseteq Slots /\ sh[q].written \subseteq Slots
      /\ sh[q].target \subseteq Slots
  BY <1>1 DEF TypeOK, Shell, Unwritten
<1>6. ASSUME NEW s \in Slots, marker'[s] # marker[s]
      PROVE  MarkedBy(p, s) \/ ClearedBy(p, s)
  BY <1>1, <1>6, MarkerStep
<1>7. ASSUME pc[q] \in {"select", "commit"}, NEW s \in Unwritten(q)
      PROVE  marker'[s] = Free
  <2>1. marker[s] = Free /\ s \in Slots /\ lock = q
    BY <1>1, <1>5, <1>7 DEF Marked, ClaimsStayFree, Locked
  <2>2. ~MarkedBy(p, s)
    BY <1>1, <2>1 DEF MarkedBy, Locked
  <2>3. ~ClearedBy(p, s)
    BY <1>1, <1>4, <2>1 DEF ClearedBy
  <2> QED BY <1>6, <2>1, <2>2, <2>3
<1>8. ASSUME pc[q] \in {"commit", "rollback", "truncate"}, NEW s \in Slots,
             marker[s] = sh[q].id
      PROVE  marker'[s] = sh[q].id
  <2>1. ~MarkedBy(p, s)
    BY <1>1, <1>4, <1>8 DEF MarkedBy
  <2>2. ~ClearedBy(p, s)
    BY <1>8, NotOvertaken DEF ClearedBy
  <2> QED BY <1>6, <1>8, <2>1, <2>2
<1> QED
  BY <1>1, <1>2, <1>3, <1>5, <1>7, <1>8 DEF Marked

(* A script decides on free slots only, and finds them as it left them. *)
LEMMA OwnMarked ==
  ASSUME IInv, NEW p \in Procs, ScriptStep(p) \/ Crash(p)
  PROVE  /\ pc'[p] \in {"select", "commit"} => \A s \in Unwritten(p)' : marker'[s] = Free
         /\ pc'[p] = "lock" => sh'[p].claim = {}
         /\ pc'[p] \in {"lock", "select"} => sh'[p].written = {}
         /\ pc'[p] \in {"commit", "rollback"} => \A s \in sh'[p].written : marker'[s] = sh'[p].id
         /\ pc'[p] = "truncate" => \A s \in sh'[p].target : marker'[s] = sh'[p].id
<1> DEFINE Goal ==
      /\ pc'[p] \in {"select", "commit"} => \A s \in Unwritten(p)' : marker'[s] = Free
      /\ pc'[p] = "lock" => sh'[p].claim = {}
      /\ pc'[p] \in {"lock", "select"} => sh'[p].written = {}
      /\ pc'[p] \in {"commit", "rollback"} => \A s \in sh'[p].written : marker'[s] = sh'[p].id
      /\ pc'[p] = "truncate" => \A s \in sh'[p].target : marker'[s] = sh'[p].id
<1>1. TypeOK /\ Locked /\ Marked /\ sh[p] \in Shell
  BY DEF IInv, TypeOK
<1>2. pc[p] # "idle"
  BY <1>1, ScriptFrame DEF Running
<1>3. ASSUME UNCHANGED <<marker, pc, lock>>, pc[p] = "select",
             NEW r \in Shell, assign(p, r), r.written = sh[p].written,
             \A s \in r.claim \ sh[p].claim : marker[s] = Free
      PROVE  Goal
  <2>1. sh'[p] = r /\ sh[p].written = {}
    BY <1>1, <1>3 DEF TypeOK, assign, Marked
  <2>2. \A s \in Unwritten(p)' : marker'[s] = Free
    BY <1>1, <1>3, <2>1 DEF Unwritten, Marked, ClaimsStayFree
  <2> QED BY <1>3, <2>1, <2>2
<1>4. ASSUME NEW outcome \in Ended, Exit(p, outcome)
      PROVE  Goal
  <2>1. pc'[p] \in {"idle"} \cup Ended
    BY <1>1, <1>4 DEF Exit, goto, TypeOK
  <2> QED BY <2>1 DEF Ended
<1>o. "ok" \in Ended /\ "failed" \in Ended /\ "killed" \in Ended
  BY DEF Ended
<1>5. CASE acquire_lock(p)
  <2>1. CASE Exit(p, "failed")
    BY <1>4, <1>o, <2>1
  <2>2. CASE ~Exit(p, "failed")
    <3>1. pc'[p] \in {"select", "grep"} /\ UNCHANGED <<sh, marker>> /\ pc[p] = "lock"
      BY <1>1, <1>5, <2>2 DEF acquire_lock, goto, TypeOK
    <3>2. Unwritten(p)' = {} /\ sh'[p].written = {}
      BY <1>1, <3>1 DEF Unwritten, Marked
    <3> QED BY <3>1, <3>2
  <2> QED BY <2>1, <2>2
<1>6. ASSUME NEW S, NEW n, pc[p] = "select", select_free(p, S, n), UNCHANGED marker
      PROVE  Goal
  <2>1. CASE Exit(p, "failed")
    BY <1>4, <1>o, <2>1
  <2>2. CASE ~Exit(p, "failed")
    <3>1. PICK s \in sh[p].left \cap S :
            /\ assign(p, [sh[p] EXCEPT !.left = @ \ {s},
                                       !.claim = IF marker[s] = Free THEN @ \cup {s} ELSE @])
            /\ UNCHANGED <<pc, lock>>
      BY <1>6, <2>2 DEF select_free
    <3> DEFINE r == [sh[p] EXCEPT !.left = @ \ {s},
                                  !.claim = IF marker[s] = Free THEN @ \cup {s} ELSE @]
    <3>2. /\ sh[p].left \ {s} \in SUBSET Slots
          /\ (IF marker[s] = Free THEN sh[p].claim \cup {s} ELSE sh[p].claim) \in SUBSET Slots
      BY <1>1, <3>1 DEF Shell
    <3>3. r \in Shell
      BY <1>1, <3>2, ShellUpdates
    <3>4. /\ r.written = sh[p].written
          /\ r.claim = IF marker[s] = Free THEN sh[p].claim \cup {s} ELSE sh[p].claim
      BY <1>1 DEF Shell
    <3>5. \A t \in r.claim \ sh[p].claim : marker[t] = Free
      BY <3>4
    <3> HIDE DEF r
    <3> QED BY <1>3, <1>6, <3>1, <3>3, <3>4, <3>5 DEF r
  <2> QED BY <2>1, <2>2
<1>7. CASE SelectCpus(p) \/ SelectGbs(p)
  BY <1>6, <1>7 DEF SelectCpus, SelectGbs
<1>8. CASE SelectDev(p)
  <2>1. CASE Exit(p, "failed")
    BY <1>4, <1>o, <2>1
  <2>2. CASE ~Exit(p, "failed")
    <3>1. PICK d \in Devs : /\ marker[d] = Free
                            /\ assign(p, [sh[p] EXCEPT !.claim = @ \cup {d}])
                            /\ UNCHANGED <<pc, lock, marker>> /\ pc[p] = "select"
      BY <1>8, <2>2 DEF SelectDev
    <3> DEFINE r == [sh[p] EXCEPT !.claim = @ \cup {d}]
    <3>2. sh[p].claim \cup {d} \in SUBSET Slots
      BY <1>1 DEF Shell, Slots
    <3>3. r \in Shell
      BY <1>1, <3>2, ShellUpdates
    <3>4. r.written = sh[p].written /\ r.claim = sh[p].claim \cup {d}
      BY <1>1 DEF Shell
    <3>5. \A t \in r.claim \ sh[p].claim : marker[t] = Free
      BY <3>1, <3>4
    <3> HIDE DEF r
    <3> QED BY <1>3, <3>1, <3>3, <3>4, <3>5 DEF r
  <2> QED BY <2>1, <2>2
<1>9. CASE BeginCommit(p) \/ CommitFail(p)
  <2>1. UNCHANGED <<marker, sh>> /\ Unwritten(p)' = Unwritten(p)
    BY <1>9 DEF BeginCommit, CommitFail, Unwritten
  <2>2. \/ pc[p] = "select" /\ pc'[p] = "commit"
        \/ pc[p] = "commit" /\ pc'[p] = "rollback"
    BY <1>1, <1>9 DEF BeginCommit, CommitFail, goto, TypeOK
  <2> QED BY <1>1, <2>1, <2>2 DEF Marked, ClaimsStayFree
<1>10. CASE CommitWrite(p)
  <2>1. PICK s \in Unwritten(p) : /\ marker' = [marker EXCEPT ![s] = sh[p].id]
                                  /\ assign(p, [sh[p] EXCEPT !.written = @ \cup {s}])
    BY <1>10 DEF CommitWrite
  <2>2. /\ sh'[p].written = sh[p].written \cup {s}
        /\ sh'[p].claim = sh[p].claim /\ sh'[p].id = sh[p].id
    BY <1>1, <2>1 DEF TypeOK, Shell, assign
  <2>3. Unwritten(p)' = Unwritten(p) \ {s} /\ Unwritten(p) \subseteq Slots
    BY <1>1, <2>2 DEF Unwritten, Shell
  <2>4. sh[p].written \subseteq Slots /\ s \in Slots
    BY <1>1, <2>1, <2>3 DEF Shell
  <2>5. pc[p] = "commit" /\ UNCHANGED pc
    BY <1>10 DEF CommitWrite
  <2>6. \A t \in Slots : marker'[t] = IF t = s THEN sh[p].id ELSE marker[t]
    BY <1>1, <2>1 DEF TypeOK
  <2>7. \A t \in Unwritten(p)' : marker'[t] = Free
    BY <1>1, <2>3, <2>5, <2>6 DEF Marked, ClaimsStayFree
  <2>8. \A t \in sh'[p].written : marker'[t] = sh'[p].id
    BY <1>1, <2>2, <2>4, <2>5, <2>6 DEF Marked
  <2> QED BY <2>5, <2>7, <2>8
<1>11. CASE RollbackClear(p)
  <2>1. PICK s \in sh[p].written : /\ marker' = [marker EXCEPT ![s] = Free] \/ UNCHANGED marker
                                   /\ assign(p, [sh[p] EXCEPT !.written = @ \ {s}])
    BY <1>11 DEF RollbackClear
  <2>2. sh'[p].written = sh[p].written \ {s} /\ sh'[p].id = sh[p].id
    BY <1>1, <2>1 DEF TypeOK, Shell, assign
  <2>3. \A t \in Slots \ {s} : marker'[t] = marker[t]
    BY <1>1, <2>1 DEF TypeOK
  <2>4. pc[p] = "rollback" /\ UNCHANGED pc /\ sh[p].written \subseteq Slots
    BY <1>1, <1>11 DEF RollbackClear, Shell
  <2> QED BY <1>1, <2>2, <2>3, <2>4 DEF Marked
<1>12. CASE ReleaseCheck(p)
  <2>1. PICK s \in sh[p].left :
          IF marker[s] = sh[p].id
            THEN assign(p, [sh[p] EXCEPT !.target = {s}]) /\ goto(p, "truncate")
            ELSE UNCHANGED pc
    BY <1>12 DEF ReleaseCheck
  <2>2. UNCHANGED marker /\ pc[p] = "check"
    BY <1>12 DEF ReleaseCheck
  <2>3. CASE marker[s] = sh[p].id
    <3>1. sh'[p].target = {s} /\ sh'[p].id = sh[p].id /\ pc'[p] = "truncate"
      BY <1>1, <2>1, <2>3 DEF TypeOK, Shell, assign, goto
    <3> QED BY <2>2, <2>3, <3>1
  <2>4. CASE marker[s] # sh[p].id
    BY <2>1, <2>2, <2>4
  <2> QED BY <2>3, <2>4
<1>13. CASE CommitDone(p) \/ ReleaseGrep(p) \/ ReleaseTruncate(p)
  <2>1. pc'[p] \in {"emit", "check"}
    BY <1>1, <1>13 DEF CommitDone, ReleaseGrep, ReleaseTruncate, goto, TypeOK
  <2> QED BY <2>1
<1>14. CASE emit_owned(p)
  BY <1>14 DEF emit_owned
<1>15. CASE RollbackDone(p) \/ EmitDone(p) \/ ReleaseDone(p) \/ Crash(p)
  BY <1>4, <1>o, <1>15 DEF RollbackDone, EmitDone, ReleaseDone, Crash
<1> QED
  BY <1>5, <1>7, <1>8, <1>9, <1>10, <1>11, <1>12, <1>13, <1>14, <1>15 DEF ScriptStep

LEMMA ScriptMarked ==
  ASSUME Safe, IInv, NEW p \in Procs, ScriptStep(p) \/ Crash(p)
  PROVE  Marked'
<1>1. ClaimsStayFree'
  BY OthersMarked, OwnMarked DEF ClaimsStayFree
<1> QED
  BY <1>1, OthersMarked, OwnMarked DEF Marked

(***************************************************************************)
(* A handler starts a script at its beginning, puts one away that has      *)
(* ended, or does neither.                                                 *)
(***************************************************************************)
Placed(p) ==
  /\ pc[p] \in {"idle"} \cup Ended
  /\ pc'[p] \in {"idle", "lock", "emit"}
  /\ pc'[p] = "lock" => /\ sh'[p].mode \in {"reserve", "release"}
                        /\ sh'[p].claim = {} /\ sh'[p].written = {}
  /\ pc'[p] = "emit" => sh'[p].mode = "scan" /\ sh'[p].left = Slots
  /\ pc'[p] # "idle" => sh'[p].found = {}

(* The script a handler waits for does what the handler asked. *)
Suits(status, mode) ==
  /\ status = "creating" => mode = "reserve"
  /\ status \in ReadsOf => mode = "scan"

LEMMA RunScriptPlaces ==
  ASSUME NEW i \in Ids, NEW p \in Procs, NEW mode \in Modes, NEW want, TypeOK,
         runScript(i, p, mode, want)
  PROVE  /\ Placed(p) /\ pc[p] = "idle" /\ pc'[p] # "idle" /\ sh'[p].id = i
         /\ sh'[p].mode = mode
         /\ \A q \in Procs \ {p} : pc'[q] = pc[q] /\ sh'[q] = sh[q]
         /\ call'[i] = p /\ \A j \in Ids \ {i} : call'[j] = call[j]
  BY DEF TypeOK, runScript, goto, assign, Placed, Modes, Blank

LEMMA CollectPlaces ==
  ASSUME NEW i \in Ids, TypeOK, Collect(i)
  PROVE  /\ call[i] \in Procs /\ Placed(call[i])
         /\ pc[call[i]] \in Ended /\ pc'[call[i]] = "idle"
         /\ \A q \in Procs \ {call[i]} : pc'[q] = pc[q] /\ sh'[q] = sh[q]
         /\ call'[i] = Nobody /\ \A j \in Ids \ {i} : call'[j] = call[j]
  BY DEF TypeOK, Collect, goto, assign, Placed

(* The three ways a handler step acts on the scripts and on its call. *)
Starts(i) ==
  \E p \in Procs : /\ pc[p] = "idle" /\ pc'[p] # "idle" /\ sh'[p].id = i
                   /\ call'[i] = p /\ tf[i] \in AtRest /\ tf'[i] \in InCall
                   /\ Placed(p) /\ Suits(tf'[i], sh'[p].mode)
                   /\ \A q \in Procs \ {p} : pc'[q] = pc[q] /\ sh'[q] = sh[q]

Continues(i) ==
  /\ call[i] \in Procs /\ pc[call[i]] = "ok" /\ Placed(call[i])
  /\ pc'[call[i]] = "lock" /\ sh'[call[i]].id = i
  /\ call'[i] = call[i] /\ tf[i] \in InCall /\ tf'[i] = "undoing"
  /\ \A q \in Procs \ {call[i]} : pc'[q] = pc[q] /\ sh'[q] = sh[q]

Ends(i) ==
  /\ call[i] \in Procs /\ pc[call[i]] \in Ended /\ pc'[call[i]] = "idle" /\ Placed(call[i])
  /\ call'[i] = Nobody /\ tf[i] \in InCall /\ tf'[i] \in AtRest
  /\ \A q \in Procs \ {call[i]} : pc'[q] = pc[q] /\ sh'[q] = sh[q]

Departs(i) ==
  /\ UNCHANGED <<pc, sh>> /\ tf'[i] \in AtRest
  /\ \/ LostCalls /\ call[i] \in Procs /\ call'[i] = Nobody
     \/ call'[i] = call[i] /\ tf[i] \in AtRest

LEMMA HandlerFrame ==
  ASSUME NEW i \in Ids, TypeOK, HandlerStep(i)
  PROVE  /\ UNCHANGED <<marker, lock>>
         /\ \A j \in Ids \ {i} : call'[j] = call[j] /\ tf'[j] = tf[j]
         /\ Starts(i) \/ Continues(i) \/ Ends(i) \/ Departs(i)
<1>0. ReadsOf \subseteq InCall /\ \A status \in ReadsOf : BeforeRead(status) \in AtRest
  BY DEF ReadsOf, InCall, AtRest, BeforeRead
<1>e. ASSUME NEW from, NEW to, Enter(i, from, to)
      PROVE  tf[i] = from /\ tf'[i] = to /\ \A j \in Ids \ {i} : tf'[j] = tf[j]
  BY <1>e DEF Enter, TypeOK
<1>1. CASE Create(i)
  <2>1. CASE Enter(i, "new", "failed") /\ UNCHANGED <<marker, lock, pc, sh, st, call>>
    BY <1>e, <2>1 DEF Departs, AtRest
  <2>2. CASE Enter(i, "new", "creating") /\ UNCHANGED <<marker, lock, st>>
    <3>1. PICK p \in Procs, r \in Requests : runScript(i, p, "reserve", r)
      BY <1>1, <1>e, <2>2 DEF Create
    <3>2. Suits(tf'[i], "reserve") /\ "reserve" \in Modes
      BY <1>e, <2>2 DEF Suits, ReadsOf, Modes
    <3> QED BY <1>e, <2>2, <3>1, <3>2, RunScriptPlaces DEF Starts, AtRest, InCall
  <2> QED BY <1>1, <2>1, <2>2 DEF Create
<1>2. CASE Read(i)
  <2>1. PICK p \in Procs : runScript(i, p, "scan", Nobody)
    BY <1>2 DEF Read
  <2>2. tf[i] \in AtRest /\ tf'[i] \in InCall /\ \A j \in Ids \ {i} : tf'[j] = tf[j]
    BY <1>2, <1>e DEF Read, AtRest, InCall
  <2>3. Suits(tf'[i], "scan") /\ "scan" \in Modes
    BY <1>2, <1>e DEF Read, Suits, Modes
  <2> QED BY <1>2, <2>1, <2>2, <2>3, RunScriptPlaces DEF Read, Starts
<1>3. CASE Delete(i)
  <2>1. PICK p \in Procs : runScript(i, p, "release", Nobody)
    BY <1>3 DEF Delete
  <2>2. tf[i] \in AtRest /\ tf'[i] \in InCall /\ \A j \in Ids \ {i} : tf'[j] = tf[j]
    BY <1>3, <1>e DEF Delete, AtRest, InCall
  <2>3. Suits(tf'[i], "release") /\ "release" \in Modes
    BY <1>3, <1>e DEF Delete, Suits, ReadsOf, Modes
  <2> QED BY <1>3, <2>1, <2>2, <2>3, RunScriptPlaces DEF Delete, Starts
<1>4. CASE CreateSucceeds(i) \/ CreateUndone(i) \/ CreateFails(i) \/ DeleteReturns(i)
  <2>1. tf[i] \in InCall /\ tf'[i] \in AtRest /\ \A j \in Ids \ {i} : tf'[j] = tf[j]
    BY <1>4, <1>e DEF CreateSucceeds, CreateUndone, CreateFails, DeleteReturns, AtRest, InCall
  <2>2. Collect(i) /\ UNCHANGED <<marker, lock>>
    BY <1>4 DEF CreateSucceeds, CreateUndone, CreateFails, DeleteReturns
  <2> QED BY <2>1, <2>2, CollectPlaces DEF Ends
<1>5. CASE ReadSucceeds(i) \/ ReadFails(i)
  <2>1. tf[i] \in InCall /\ tf'[i] \in AtRest /\ \A j \in Ids \ {i} : tf'[j] = tf[j]
    BY <1>0, <1>5 DEF ReadSucceeds, ReadFails, TypeOK, AtRest
  <2>2. Collect(i) /\ UNCHANGED <<marker, lock>>
    BY <1>5 DEF ReadSucceeds, ReadFails
  <2> QED BY <2>1, <2>2, CollectPlaces DEF Ends
<1>6. CASE CreateUndoes(i)
  <2>1. call[i] \in Procs /\ UNCHANGED <<marker, lock, call>>
    BY <1>6 DEF CreateUndoes, TypeOK
  <2>2. tf[i] \in InCall /\ tf'[i] = "undoing" /\ \A j \in Ids \ {i} : tf'[j] = tf[j]
    BY <1>6, <1>e DEF CreateUndoes, InCall
  <2>3. /\ pc[call[i]] = "ok" /\ Placed(call[i]) /\ pc'[call[i]] = "lock"
        /\ sh'[call[i]].id = i
        /\ \A q \in Procs \ {call[i]} : pc'[q] = pc[q] /\ sh'[q] = sh[q]
    BY <1>6, <2>1 DEF CreateUndoes, TypeOK, goto, assign, Placed, Blank, Ended
  <2> QED BY <2>1, <2>2, <2>3 DEF Continues
<1>7. CASE LoseCall(i)
  BY <1>0, <1>7 DEF LoseCall, Departs, TypeOK, AtRest
<1> QED
  BY <1>1, <1>2, <1>3, <1>4, <1>5, <1>6, <1>7 DEF HandlerStep, Return

LEMMA HandlerAttached ==
  ASSUME NEW i \in Ids, TypeOK, Attached, HandlerStep(i)
  PROVE  Attached'
<1>0. /\ Nobody \notin Procs /\ AtRest \cap InCall = {} /\ "idle" \notin Ended
      /\ \A j \in Ids : call[j] \in Procs \cup {Nobody} /\ tf[j] \in InCall \cup AtRest
  BY NamesAssumption DEF AtRest, InCall, Ended, TypeOK
<1>1. /\ \A j \in Ids \ {i} : call'[j] = call[j] /\ tf'[j] = tf[j]
      /\ Starts(i) \/ Continues(i) \/ Ends(i) \/ Departs(i)
  BY HandlerFrame
<1> DEFINE Linked(j) == call[j] # Nobody => pc[call[j]] # "idle" /\ sh[call[j]].id = j
           Awaited(q) == pc[q] # "idle" => call[sh[q].id] = q
           Agrees(j) == call[j] = Nobody <=> tf[j] \in AtRest
<1>a. Attached <=> /\ \A j \in Ids : Linked(j)
                   /\ \A j \in Ids : Agrees(j)
                   /\ ~LostCalls => \A q \in Procs : Awaited(q)
  BY DEF Attached
<1>b. ASSUME (\A j \in Ids : Linked(j)'), Agrees(i)', ~LostCalls => \A q \in Procs : Awaited(q)'
      PROVE  Attached'
  <2>1. \A j \in Ids : Agrees(j)'
    BY <1>a, <1>1, <1>b
  <2> QED BY <1>b, <2>1 DEF Attached
<1>2. CASE Starts(i)
  <2>1. PICK p \in Procs : /\ pc[p] = "idle" /\ pc'[p] # "idle" /\ sh'[p].id = i
                           /\ call'[i] = p /\ tf[i] \in AtRest /\ tf'[i] \in InCall
                           /\ \A q \in Procs \ {p} : pc'[q] = pc[q] /\ sh'[q] = sh[q]
    BY <1>2 DEF Starts
  <2>2. call[i] = Nobody /\ Agrees(i)'
    BY <1>0, <1>a, <2>1
  <2>3. ASSUME NEW j \in Ids PROVE Linked(j)'
    BY <1>0, <1>1, <1>a, <2>1
  <2>4. ASSUME ~LostCalls, NEW q \in Procs PROVE Awaited(q)'
    <3>1. CASE q = p
      BY <2>1, <3>1
    <3>2. CASE q # p /\ pc'[q] # "idle"
      <4>1. pc[q] # "idle" /\ sh'[q] = sh[q] /\ call[sh[q].id] = q
        BY <1>a, <2>1, <2>4, <3>2
      <4>2. sh[q].id \in Ids \ {i}
        BY <1>0, <2>2, <4>1 DEF TypeOK
      <4> QED BY <1>1, <4>1, <4>2
    <3> QED BY <3>1, <3>2
  <2> QED BY <1>b, <2>2, <2>3, <2>4
<1>3. CASE Continues(i)
  <2>1. /\ call[i] \in Procs /\ pc[call[i]] = "ok" /\ pc'[call[i]] = "lock"
        /\ sh'[call[i]].id = i /\ call'[i] = call[i] /\ tf'[i] = "undoing"
        /\ \A q \in Procs \ {call[i]} : pc'[q] = pc[q] /\ sh'[q] = sh[q]
    BY <1>3 DEF Continues
  <2>2. Agrees(i)'
    BY <1>0, <2>1 DEF AtRest
  <2>3. ASSUME NEW j \in Ids PROVE Linked(j)'
    BY <1>0, <1>1, <1>a, <2>1
  <2>4. ASSUME ~LostCalls, NEW q \in Procs PROVE Awaited(q)'
    <3>1. CASE q = call[i]
      BY <2>1, <3>1
    <3>2. CASE q # call[i] /\ pc'[q] # "idle"
      <4>1. pc[q] # "idle" /\ sh'[q] = sh[q] /\ call[sh[q].id] = q
        BY <1>a, <2>1, <2>4, <3>2
      <4>2. sh[q].id \in Ids
        BY <4>1 DEF TypeOK
      <4> QED BY <1>1, <2>1, <4>1, <4>2
    <3> QED BY <3>1, <3>2
  <2> QED BY <1>b, <2>2, <2>3, <2>4
<1>4. CASE Ends(i)
  <2>1. /\ call[i] \in Procs /\ pc[call[i]] \in Ended /\ pc'[call[i]] = "idle"
        /\ call'[i] = Nobody /\ tf'[i] \in AtRest
        /\ \A q \in Procs \ {call[i]} : pc'[q] = pc[q] /\ sh'[q] = sh[q]
    BY <1>4 DEF Ends
  <2>2. Agrees(i)'
    BY <2>1
  <2>3. ASSUME NEW j \in Ids PROVE Linked(j)'
    BY <1>0, <1>1, <1>a, <2>1
  <2>4. ASSUME ~LostCalls, NEW q \in Procs PROVE Awaited(q)'
    <3>1. CASE q # call[i] /\ pc'[q] # "idle"
      <4>1. pc[q] # "idle" /\ sh'[q] = sh[q] /\ call[sh[q].id] = q
        BY <1>a, <2>1, <2>4, <3>1
      <4>2. sh[q].id \in Ids \ {i}
        BY <3>1, <4>1 DEF TypeOK
      <4> QED BY <1>1, <4>1, <4>2
    <3> QED BY <2>1, <3>1
  <2> QED BY <1>b, <2>2, <2>3, <2>4
<1>5. CASE Departs(i)
  <2>1. /\ UNCHANGED <<pc, sh>> /\ tf'[i] \in AtRest
        /\ \/ LostCalls /\ call'[i] = Nobody
           \/ call'[i] = call[i] /\ tf[i] \in AtRest
    BY <1>5 DEF Departs
  <2>2. Agrees(i)'
    BY <1>a, <2>1
  <2>3. ASSUME NEW j \in Ids PROVE Linked(j)'
    BY <1>1, <1>a, <2>1
  <2>4. ASSUME ~LostCalls, NEW q \in Procs PROVE Awaited(q)'
    <3>1. pc'[q] # "idle" => sh[q].id \in Ids
      BY <2>1 DEF TypeOK
    <3> QED BY <1>1, <1>a, <2>1, <2>4, <3>1
  <2> QED BY <1>b, <2>2, <2>3, <2>4
<1> QED BY <1>1, <1>2, <1>3, <1>4, <1>5

LEMMA HandlerKeeps ==
  ASSUME NEW i \in Ids, TypeOK, Locked, Marked, HandlerStep(i)
  PROVE  Locked' /\ Marked'
<1>1. UNCHANGED <<marker, lock>>
  BY HandlerFrame
<1>2. \A p \in Procs : Placed(p) \/ (pc'[p] = pc[p] /\ sh'[p] = sh[p])
  BY HandlerFrame DEF Starts, Continues, Ends, Departs
<1>3. Locked'
  BY <1>1, <1>2 DEF Locked, Placed
<1>4. ASSUME NEW p \in Procs, pc'[p] \in {"select", "commit"}, NEW s \in Unwritten(p)'
      PROVE  marker'[s] = Free
  <2>1. pc'[p] = pc[p] /\ sh'[p] = sh[p]
    BY <1>2, <1>4 DEF Placed
  <2>2. Unwritten(p)' = Unwritten(p)
    BY <2>1 DEF Unwritten
  <2> QED BY <1>1, <1>4, <2>1, <2>2 DEF Marked, ClaimsStayFree
<1>5. Marked'
  BY <1>1, <1>2, <1>4 DEF Marked, ClaimsStayFree, Placed
<1> QED BY <1>3, <1>5

LEMMA Invariance ==
  ASSUME Safe
  PROVE  Spec => []IInv
<1>1. Init => IInv
  BY BlankShell DEF Init, IInv, TypeOK, Attached, Locked, Marked, ClaimsStayFree, AtRest
<1>2. IInv /\ [Next]_vars => IInv'
  <2>1. ASSUME IInv, NEW p \in Procs, ScriptStep(p) \/ Crash(p)
        PROVE  IInv'
    BY <2>1, ScriptType, ScriptAttached, ScriptLocked, ScriptMarked DEF IInv
  <2>2. ASSUME IInv, NEW i \in Ids, HandlerStep(i)
        PROVE  IInv'
    BY <2>2, HandlerType, HandlerAttached, HandlerKeeps DEF IInv
  <2>3. IInv /\ UNCHANGED vars => IInv'
    BY DEF IInv, TypeOK, Attached, Locked, Marked, ClaimsStayFree, Unwritten, vars
  <2> QED BY <2>1, <2>2, <2>3, NextSplit
<1> QED BY <1>1, <1>2, PTL DEF Spec

(***************************************************************************)
(* What do_reserve selected as free is still free when it writes it, for   *)
(* any number of scripts, as long as an unlocked release and a script that *)
(* outlives its caller do not come together.                               *)
(***************************************************************************)
THEOREM ReserveNotOvertaken ==
  ASSUME Safe
  PROVE  Spec => []ClaimsStayFree
<1>1. IInv => ClaimsStayFree
  BY DEF IInv, Marked
<1> QED BY <1>1, Invariance, PTL

(***************************************************************************)
(* No script of a reservation ever touches the marker of another one.      *)
(***************************************************************************)
THEOREM MarkersAreSafe ==
  ASSUME Safe
  PROVE  Spec => OnlyOwnMarkers
<1> DEFINE Step == \A s \in Slots : marker'[s] # marker[s] => SlotTaken(s) \/ SlotFreedByOwner(s)
<1>1. IInv /\ [Next]_vars => [Step]_vars
  <2>1. ASSUME IInv, NEW p \in Procs, ScriptStep(p) \/ Crash(p), NEW s \in Slots,
               marker'[s] # marker[s]
        PROVE  SlotTaken(s) \/ SlotFreedByOwner(s)
    <3>1. TypeOK /\ Marked /\ Free \notin Ids
      BY <2>1, NamesAssumption DEF IInv
    <3>2. sh[p].id \in Ids
      BY <2>1, <3>1, ScriptFrame DEF TypeOK, Running
    <3>3. MarkedBy(p, s) \/ ClearedBy(p, s)
      BY <2>1, <3>1, MarkerStep
    <3>4. ClearedBy(p, s) => sh'[p] # sh[p]
      <4>1. CASE RollbackClear(p)
        BY <3>1, <4>1 DEF RollbackClear, assign, TypeOK, Shell
      <4>2. CASE ReleaseTruncate(p)
        <5>1. PICK t \in sh[p].target : assign(p, [sh[p] EXCEPT !.left = @ \ {t}, !.target = {}])
          BY <4>2 DEF ReleaseTruncate
        <5>2. sh[p].target # {} /\ sh'[p].target = {}
          BY <3>1, <5>1 DEF assign, TypeOK, Shell
        <5> QED BY <5>2
      <4>3. CASE ~(RollbackClear(p) \/ ReleaseTruncate(p))
        BY <2>1, <3>2, <3>1, <4>3
        DEF ScriptStep, acquire_lock, SelectCpus, SelectGbs, SelectDev, BeginCommit, CommitWrite,
            CommitFail, CommitDone, RollbackDone, emit_owned, EmitDone, ReleaseGrep, ReleaseCheck,
            ReleaseDone, Crash, ClearedBy
      <4> QED BY <4>1, <4>2, <4>3
    <3> QED
      BY <3>1, <3>2, <3>3, <3>4 DEF MarkedBy, ClearedBy, SlotTaken, SlotFreedByOwner
  <2>2. ASSUME NEW i \in Ids, IInv, HandlerStep(i)
        PROVE  Step
    BY <2>2, HandlerFrame DEF IInv
  <2>3. IInv /\ Next => Step
    BY <2>1, <2>2, NextSplit
  <2> QED BY <2>3
<1>2. OnlyOwnMarkers <=> [][Step]_vars
  BY DEF OnlyOwnMarkers
<1> HIDE DEF Step
<1> QED BY <1>1, <1>2, Invariance, PTL DEF Spec

-----------------------------------------------------------------------------
(***************************************************************************)
(* When no call is lost, at most one script works for a reservation, and   *)
(* what it printed is what the host holds.                                 *)
(***************************************************************************)
Suited == \A i \in Ids : call[i] # Nobody => Suits(tf[i], sh[call[i]].mode)

Scanned ==
  \A p \in Procs :
    /\ pc[p] \in {"lock", "select", "commit"} => sh[p].found = {}
    /\ pc[p] = "emit" => /\ sh[p].mode # "release"
                         /\ sh[p].found = Owned(sh[p].id) \ sh[p].left
    /\ pc[p] = "ok" /\ sh[p].mode # "release" => sh[p].found = Owned(sh[p].id)

ResultInv == IInv /\ Suited /\ Scanned /\ StateExact

(* The slots of a reservation change only through a script of its own that writes. *)
LEMMA OwnedKept ==
  ASSUME IInv, NEW p \in Procs, ScriptStep(p) \/ Crash(p), NEW i \in Ids,
         sh[p].id # i \/ pc[p] \notin {"commit", "rollback", "truncate"}
  PROVE  Owned(i)' = Owned(i)
<1>1. TypeOK /\ Marked /\ Free \notin Ids
  BY NamesAssumption DEF IInv
<1>2. ASSUME NEW s \in Slots
      PROVE  marker'[s] = i <=> marker[s] = i
  <2>1. CASE MarkedBy(p, s)
    BY <1>1, <2>1 DEF MarkedBy
  <2>2. CASE ClearedBy(p, s)
    BY <1>1, <2>2 DEF ClearedBy
  <2>3. CASE marker'[s] = marker[s]
    BY <2>3
  <2> QED BY <1>1, <2>1, <2>2, <2>3, MarkerStep
<1> QED BY <1>2 DEF Owned

LEMMA ScriptSuited ==
  ASSUME TypeOK, Attached, Suited, NEW p \in Procs, ScriptStep(p) \/ Crash(p)
  PROVE  Suited'
<1>1. Framed(p) /\ UNCHANGED <<tf, call>>
  BY ScriptFrame
<1>2. ASSUME NEW i \in Ids, call'[i] # Nobody
      PROVE  sh'[call[i]].mode = sh[call[i]].mode
  <2>1. call[i] \in Procs /\ sh[call[i]].id = i
    BY <1>1, <1>2 DEF TypeOK, Attached
  <2> QED BY <1>1, <2>1 DEF Framed
<1> QED BY <1>1, <1>2 DEF Suited

LEMMA ScriptScanned ==
  ASSUME ~LostCalls, IInv, Scanned, NEW p \in Procs, ScriptStep(p) \/ Crash(p)
  PROVE  Scanned'
<1> DEFINE S(q) ==
    /\ pc[q] \in {"lock", "select", "commit"} => sh[q].found = {}
    /\ pc[q] = "emit" => /\ sh[q].mode # "release"
                         /\ sh[q].found = Owned(sh[q].id) \ sh[q].left
    /\ pc[q] = "ok" /\ sh[q].mode # "release" => sh[q].found = Owned(sh[q].id)
<1>1. TypeOK /\ Attached /\ Locked /\ sh[p] \in Shell
  BY DEF IInv, TypeOK
<1>2. Framed(p) /\ UNCHANGED call /\ pc[p] \in Running
  BY <1>1, ScriptFrame
<1>3. pc[p] # "idle" /\ sh[p].id \in Ids /\ call[sh[p].id] = p
  BY <1>1, <1>2 DEF Running, TypeOK, Attached
<1>4. ASSUME NEW q \in Procs \ {p}
      PROVE  S(q)'
  <2>1. pc'[q] = pc[q] /\ sh'[q] = sh[q] /\ S(q)
    BY <1>2, <1>4 DEF Framed, Scanned
  <2>2. CASE pc[q] \notin {"emit", "ok"}
    BY <2>1, <2>2
  <2>3. CASE pc[q] \in {"emit", "ok"}
    <3>1. sh[q].id \in Ids /\ sh[q].id # sh[p].id
      BY <1>1, <1>3, <1>4, <2>3 DEF TypeOK, Attached
    <3>2. \A i \in Ids : i # sh[p].id => Owned(i)' = Owned(i)
      BY OwnedKept
    <3>3. Owned(sh[q].id)' = Owned(sh[q].id)
      BY <2>1, <3>1, <3>2 DEF Owned
    <3> QED BY <2>1, <3>3
  <2> QED BY <2>2, <2>3
<1>5. S(p)'
  <2>0. S(p)
    BY DEF Scanned
  <2>1. ASSUME NEW outcome \in {"failed", "killed"}, Exit(p, outcome)
        PROVE  S(p)'
    <3>1. pc'[p] \in {"idle", "failed", "killed"}
      BY <1>1, <2>1 DEF Exit, goto, TypeOK
    <3> QED BY <3>1
  <2>2. CASE acquire_lock(p)
    <3>1. CASE Exit(p, "failed")
      BY <2>1, <3>1
    <3>2. CASE ~Exit(p, "failed")
      <4>1. pc[p] = "lock" /\ pc'[p] \in {"select", "grep"} /\ UNCHANGED sh
        BY <1>1, <2>2, <3>2 DEF acquire_lock, goto, TypeOK
      <4> QED BY <2>0, <4>1
    <3> QED BY <3>1, <3>2
  <2>3. ASSUME pc[p] = "select", UNCHANGED pc, sh'[p].found = sh[p].found
        PROVE  S(p)'
    BY <2>0, <2>3
  <2>4. ASSUME NEW T, NEW n, pc[p] = "select", select_free(p, T, n)
        PROVE  S(p)'
    <3>1. CASE Exit(p, "failed")
      BY <2>1, <3>1
    <3>2. CASE ~Exit(p, "failed")
      <4>1. PICK s : /\ assign(p, [sh[p] EXCEPT !.left = @ \ {s},
                                       !.claim = IF marker[s] = Free THEN @ \cup {s} ELSE @])
                     /\ UNCHANGED pc
        BY <2>4, <3>2 DEF select_free
      <4>2. sh'[p].found = sh[p].found
        BY <1>1, <4>1 DEF assign, TypeOK, Shell
      <4> QED BY <2>3, <2>4, <4>1, <4>2
    <3> QED BY <3>1, <3>2
  <2>5. CASE SelectCpus(p) \/ SelectGbs(p)
    BY <2>4, <2>5 DEF SelectCpus, SelectGbs
  <2>6. CASE SelectDev(p)
    <3>1. CASE Exit(p, "failed")
      BY <2>1, <3>1
    <3>2. CASE ~Exit(p, "failed")
      <4>1. PICK d : assign(p, [sh[p] EXCEPT !.claim = @ \cup {d}]) /\ UNCHANGED pc
        BY <2>6, <3>2 DEF SelectDev
      <4>2. sh'[p].found = sh[p].found
        BY <1>1, <4>1 DEF assign, TypeOK, Shell
      <4> QED BY <2>3, <2>6, <4>1, <4>2 DEF SelectDev
    <3> QED BY <3>1, <3>2
  <2>7. CASE BeginCommit(p) \/ CommitFail(p)
    BY <1>1, <2>0, <2>7 DEF BeginCommit, CommitFail, goto, TypeOK
  <2>8. CASE CommitWrite(p)
    <3>1. PICK s : assign(p, [sh[p] EXCEPT !.written = @ \cup {s}])
      BY <2>8 DEF CommitWrite
    <3>2. sh'[p].found = sh[p].found
      BY <1>1, <3>1 DEF assign, TypeOK, Shell
    <3> QED BY <2>0, <2>8, <3>2 DEF CommitWrite
  <2>9. CASE CommitDone(p)
    <3>1. sh'[p].found = {} /\ sh'[p].left = Slots /\ sh'[p].mode = "reserve"
      BY <1>1, <2>0, <2>9 DEF CommitDone, assign, TypeOK, Shell, Locked
    <3>2. pc'[p] = "emit"
      BY <1>1, <2>9 DEF CommitDone, goto, TypeOK
    <3>3. Owned(sh[p].id)' \subseteq Slots
      BY DEF Owned
    <3> QED BY <3>1, <3>2, <3>3
  <2>10. CASE emit_owned(p)
    <3>1. PICK s \in sh[p].left :
            assign(p, [sh[p] EXCEPT !.left = @ \ {s},
                                    !.found = IF marker[s] = sh[p].id THEN @ \cup {s} ELSE @])
      BY <2>10 DEF emit_owned
    <3>2. /\ sh'[p].left = sh[p].left \ {s} /\ sh'[p].id = sh[p].id /\ sh'[p].mode = sh[p].mode
          /\ sh'[p].found = IF marker[s] = sh[p].id THEN sh[p].found \cup {s} ELSE sh[p].found
      BY <1>1, <3>1 DEF assign, TypeOK, Shell
    <3>3. pc[p] = "emit" /\ UNCHANGED <<pc, marker>> /\ s \in Slots
      BY <1>1, <2>10, <3>1 DEF emit_owned, Shell
    <3>4. Owned(sh[p].id)' = Owned(sh[p].id) /\ (s \in Owned(sh[p].id) <=> marker[s] = sh[p].id)
      BY <3>2, <3>3 DEF Owned
    <3>5. sh'[p].found = Owned(sh[p].id)' \ sh'[p].left
      BY <2>0, <3>1, <3>2, <3>3, <3>4
    <3> QED BY <2>0, <3>2, <3>3, <3>5
  <2>11. CASE EmitDone(p)
    <3>1. UNCHANGED <<sh, marker>> /\ pc'[p] = "ok" /\ pc[p] = "emit" /\ sh[p].left = {}
      BY <1>1, <1>3, <2>11 DEF EmitDone, Exit, goto, TypeOK
    <3>2. Owned(sh[p].id)' = Owned(sh[p].id)
      BY <3>1 DEF Owned
    <3> QED BY <2>0, <3>1, <3>2
  <2>12. CASE ReleaseDone(p)
    <3>1. UNCHANGED sh /\ pc'[p] = "ok" /\ sh[p].mode = "release"
      BY <1>1, <1>3, <2>12 DEF ReleaseDone, Exit, goto, TypeOK, Locked
    <3> QED BY <3>1
  <2>13. CASE RollbackDone(p) \/ Crash(p)
    BY <2>1, <2>13 DEF RollbackDone, Crash
  <2>14. CASE RollbackClear(p) \/ ReleaseGrep(p) \/ ReleaseCheck(p) \/ ReleaseTruncate(p)
    <3>1. pc'[p] \in {"rollback", "check", "truncate"}
      BY <1>1, <2>14 DEF RollbackClear, ReleaseGrep, ReleaseCheck, ReleaseTruncate, goto, TypeOK
    <3> QED BY <3>1
  <2> QED
    BY <2>2, <2>5, <2>6, <2>7, <2>8, <2>9, <2>10, <2>11, <2>12, <2>13, <2>14 DEF ScriptStep
<1> HIDE DEF S
<1>6. (\A q \in Procs : S(q)') => Scanned'
  BY DEF Scanned, S
<1> QED BY <1>4, <1>5, <1>6

LEMMA ScriptExact ==
  ASSUME ~LostCalls, IInv, Suited, StateExact, NEW p \in Procs, ScriptStep(p) \/ Crash(p)
  PROVE  StateExact'
<1>1. TypeOK /\ Attached /\ Locked
  BY DEF IInv
<1>2. UNCHANGED <<tf, st>> /\ pc[p] # "idle"
  BY <1>1, ScriptFrame DEF Running
<1>3. sh[p].id \in Ids /\ call[sh[p].id] = p
  BY <1>1, <1>2 DEF TypeOK, Attached
<1>4. ASSUME NEW i \in Ids, Tracked(i)
      PROVE  Owned(i)' = Owned(i)
  <2>1. CASE sh[p].id # i
    BY <2>1, OwnedKept
  <2>2. CASE sh[p].id = i
    <3>1. tf[i] = "reading" /\ call[i] # Nobody
      BY <1>1, <1>3, <1>4, <2>2, NamesAssumption DEF Tracked, Attached, AtRest
    <3>2. sh[p].mode = "scan"
      BY <1>3, <2>2, <3>1 DEF Suited, Suits, ReadsOf
    <3>3. pc[p] \notin {"commit", "rollback", "truncate"}
      BY <1>1, <3>2 DEF Locked
    <3> QED BY <3>3, OwnedKept
  <2> QED BY <2>1, <2>2
<1>5. \A i \in Ids : Tracked(i)' <=> Tracked(i)
  BY <1>2 DEF Tracked
<1> QED BY <1>2, <1>4, <1>5 DEF StateExact

LEMMA HandlerSuited ==
  ASSUME ~LostCalls, IInv, Suited, Scanned, NEW i \in Ids, HandlerStep(i)
  PROVE  Suited' /\ Scanned'
<1>1. TypeOK /\ Attached /\ Nobody \notin Procs
  BY NamesAssumption DEF IInv
<1>2. /\ UNCHANGED marker
      /\ \A j \in Ids \ {i} : call'[j] = call[j] /\ tf'[j] = tf[j]
      /\ Starts(i) \/ Continues(i) \/ Ends(i) \/ Departs(i)
  BY <1>1, HandlerFrame
<1>3. ASSUME NEW j \in Ids \ {i}, call'[j] # Nobody
      PROVE  Suits(tf'[j], sh'[call'[j]].mode)
  <2>1. call'[j] = call[j] /\ tf'[j] = tf[j] /\ Suits(tf[j], sh[call[j]].mode)
    BY <1>2, <1>3 DEF Suited
  <2>2. call[j] \in Procs /\ pc[call[j]] # "idle" /\ sh[call[j]].id = j
    BY <1>1, <1>3, <2>1 DEF TypeOK, Attached
  <2>3. call[i] # Nobody => call[i] # call[j]
    BY <1>1, <2>2 DEF Attached
  <2>4. sh'[call[j]] = sh[call[j]]
    BY <1>1, <1>2, <2>2, <2>3 DEF Starts, Continues, Ends, Departs
  <2> QED BY <2>1, <2>4
<1>4. ASSUME call'[i] # Nobody
      PROVE  Suits(tf'[i], sh'[call'[i]].mode)
  <2>1. CASE Starts(i)
    BY <2>1 DEF Starts
  <2>2. CASE Continues(i)
    BY <2>2 DEF Continues, Suits, ReadsOf
  <2>3. CASE Ends(i)
    BY <1>4, <2>3 DEF Ends
  <2>4. CASE Departs(i)
    BY <1>1, <1>4, <2>4 DEF Departs, Attached
  <2> QED BY <1>2, <2>1, <2>2, <2>3, <2>4
<1>5. Suited'
  BY <1>3, <1>4 DEF Suited
<1>6. \A p \in Procs : Placed(p) \/ (pc'[p] = pc[p] /\ sh'[p] = sh[p])
  BY <1>2 DEF Starts, Continues, Ends, Departs
<1>7. ASSUME NEW p \in Procs
      PROVE  Owned(sh[p].id)' \subseteq Slots /\
             (sh'[p] = sh[p] => Owned(sh[p].id)' = Owned(sh[p].id))
  BY <1>2 DEF Owned
<1>8. Scanned'
  BY <1>6, <1>7 DEF Scanned, Placed
<1> QED BY <1>5, <1>8

(* What a handler writes into Terraform's state is what the host holds. *)
LEMMA HandlerExact ==
  ASSUME ~LostCalls, ResultInv, NEW i \in Ids, HandlerStep(i)
  PROVE  /\ \A j \in Ids \ {i} : st'[j] = st[j] /\ (Tracked(j)' <=> Tracked(j))
         /\ Tracked(i)' => st'[i] = Owned(i)
<1>1. TypeOK /\ Attached /\ Suited /\ Scanned /\ StateExact
  BY DEF ResultInv, IInv
<1>2. \A j \in Ids \ {i} : st'[j] = st[j] /\ tf'[j] = tf[j]
  <2>1. \A j \in Ids \ {i} : tf'[j] = tf[j]
    BY <1>1, HandlerFrame
  <2>2. \A j \in Ids \ {i} : st'[j] = st[j]
    BY <1>1 DEF TypeOK, HandlerStep, Create, Read, Delete, Return, CreateSucceeds, CreateUndoes,
       CreateUndone, CreateFails, ReadSucceeds, ReadFails, DeleteReturns, LoseCall
  <2> QED BY <2>1, <2>2
<1> SUFFICES Tracked(i)' => st'[i] = Owned(i)
  BY <1>2 DEF Tracked
<1>3. ASSUME Tracked(i), tf'[i] \in {"live", "reading"}, UNCHANGED st
      PROVE  st'[i] = Owned(i)
  BY <1>1, <1>3 DEF StateExact
<1>e. ASSUME NEW from, NEW to, Enter(i, from, to)
      PROVE  tf[i] = from /\ tf'[i] = to
  BY <1>1, <1>e DEF Enter, TypeOK
<1>4. CASE CreateSucceeds(i) \/ ReadSucceeds(i)
  <2>1. call[i] \in Procs /\ pc[call[i]] = "ok" /\ st'[i] = sh[call[i]].found
    BY <1>1, <1>4 DEF CreateSucceeds, ReadSucceeds, Collect, Outcome, Found, TypeOK
  <2>2. tf[i] = "creating" \/ tf[i] \in ReadsOf
    BY <1>4, <1>e DEF CreateSucceeds, ReadSucceeds
  <2>3. sh[call[i]].mode # "release" /\ sh[call[i]].id = i
    BY <1>1, <2>1, <2>2, NamesAssumption DEF Suited, Suits, Attached
  <2> QED BY <1>1, <2>1, <2>3 DEF Scanned
<1>5. CASE Read(i)
  BY <1>1, <1>3, <1>5, <1>e DEF Read, Tracked
<1>6. CASE ReadFails(i)
  <2>1. UNCHANGED st /\ tf'[i] = BeforeRead(tf[i]) /\ tf[i] \in ReadsOf
    BY <1>1, <1>6 DEF ReadFails, TypeOK
  <2> QED BY <1>3, <2>1 DEF Tracked, BeforeRead, ReadsOf
<1>7. CASE LoseCall(i)
  BY <1>7 DEF LoseCall
<1>8. CASE Create(i) \/ Delete(i) \/ CreateUndoes(i) \/ CreateUndone(i) \/ CreateFails(i)
           \/ DeleteReturns(i)
  BY <1>8, <1>e DEF Create, Delete, CreateUndoes, CreateUndone, CreateFails, DeleteReturns, Tracked
<1> QED
  BY <1>4, <1>5, <1>6, <1>7, <1>8 DEF HandlerStep, Return

LEMMA Results ==
  ASSUME ~LostCalls
  PROVE  Spec => []ResultInv
<1>1. Init => ResultInv
  BY BlankShell
  DEF Init, ResultInv, IInv, TypeOK, Attached, Locked, Marked, ClaimsStayFree, AtRest, Suited,
      Scanned, StateExact, Tracked
<1>2. Safe
  BY DEF Safe
<1>3. ResultInv /\ [Next]_vars => ResultInv'
  <2>1. ASSUME ResultInv, NEW p \in Procs, ScriptStep(p) \/ Crash(p)
        PROVE  ResultInv'
    <3>1. IInv'
      BY <1>2, <2>1, ScriptType, ScriptAttached, ScriptLocked, ScriptMarked DEF IInv, ResultInv
    <3>2. Suited' /\ Scanned' /\ StateExact'
      BY <2>1, ScriptSuited, ScriptScanned, ScriptExact DEF IInv, ResultInv
    <3> QED BY <3>1, <3>2 DEF ResultInv
  <2>2. ASSUME ResultInv, NEW i \in Ids, HandlerStep(i)
        PROVE  ResultInv'
    <3>1. IInv'
      BY <2>2, HandlerType, HandlerAttached, HandlerKeeps DEF IInv, ResultInv
    <3>2. Suited' /\ Scanned'
      BY <2>2, HandlerSuited DEF ResultInv
    <3>3. UNCHANGED marker
      BY <2>2, HandlerFrame DEF ResultInv, IInv
    <3>4. \A j \in Ids : Owned(j)' = Owned(j)
      BY <3>3 DEF Owned
    <3>5. StateExact'
      BY <2>2, <3>4, HandlerExact DEF ResultInv, StateExact
    <3> QED BY <3>1, <3>2, <3>5 DEF ResultInv
  <2>3. ResultInv /\ UNCHANGED vars => ResultInv'
    BY DEF ResultInv, IInv, TypeOK, Attached, Locked, Marked, ClaimsStayFree, Unwritten, Suited,
           Scanned, StateExact, Tracked, Owned, vars
  <2> QED BY <2>1, <2>2, <2>3, NextSplit
<1> QED BY <1>1, <1>3, PTL DEF Spec

(***************************************************************************)
(* The state Terraform keeps of a reservation is what the host holds for   *)
(* it, whatever other reservations, releases and killed scripts do.        *)
(***************************************************************************)
THEOREM StateIsExact ==
  ASSUME ~LostCalls
  PROVE  Spec => []StateExact
<1>1. ResultInv => StateExact
  BY DEF ResultInv
<1> QED BY <1>1, Results, PTL

(***************************************************************************)
(* The scripts and handlers implement an exclusive allocation in which a   *)
(* claim and its release are single steps.                                 *)
(***************************************************************************)
THEOREM Refinement ==
  ASSUME ~LostCalls
  PROVE  Spec => ExclusiveAllocation
<1> DEFINE held == [i \in Ids |-> IF Tracked(i) THEN st[i] ELSE {}]
<1>1. Init => Ledger!Init
  BY DEF Init, Ledger!Init, Tracked
<1>2. ResultInv /\ [Next]_vars => [Ledger!Next]_held
  <2>1. ASSUME UNCHANGED <<tf, st>>
        PROVE  UNCHANGED held
    BY <2>1 DEF Tracked
  <2>2. ASSUME ResultInv, NEW p \in Procs, ScriptStep(p) \/ Crash(p)
        PROVE  UNCHANGED held
    BY <2>1, <2>2, ScriptFrame DEF ResultInv, IInv
  <2>3. ASSUME ResultInv, NEW i \in Ids, HandlerStep(i)
        PROVE  [Ledger!Next]_held
    <3>1. /\ \A j \in Ids \ {i} : held'[j] = held[j]
          /\ held'[i] \in {{}, Owned(i)}
      BY <2>3, HandlerExact
    <3>2. CASE held'[i] = {}
      <4>1. held' = [held EXCEPT ![i] = {}]
        BY <3>1, <3>2
      <4> QED BY <4>1 DEF Ledger!Next, Ledger!GiveBack
    <3>3. CASE held'[i] = Owned(i) /\ Tracked(i)
      <4>1. held[i] = Owned(i)
        BY <2>3, <3>3 DEF ResultInv, StateExact
      <4>2. UNCHANGED held
        BY <3>1, <3>3, <4>1
      <4> QED BY <4>2
    <3>4. CASE held'[i] = Owned(i) /\ ~Tracked(i)
      <4>1. held[i] = {} /\ held' = [held EXCEPT ![i] = Owned(i)]
        BY <3>1, <3>4
      <4>2. \A j \in Ids : held[j] \subseteq Owned(j)
        BY <2>3 DEF ResultInv, StateExact
      <4>3. Owned(i) \cap Ledger!HeldByOthers(i) = {}
        BY <4>2 DEF Ledger!HeldByOthers, Owned
      <4>4. Owned(i) \in SUBSET Slots
        BY DEF Owned
      <4>5. \E S \in SUBSET Slots : Ledger!Grant(i, S)
        BY <4>1, <4>3, <4>4 DEF Ledger!Grant
      <4>6. Ledger!Next
        BY <4>5 DEF Ledger!Next
      <4> QED BY <4>6
    <3> QED BY <3>1, <3>2, <3>3, <3>4
  <2>4. UNCHANGED vars => UNCHANGED held
    BY <2>1 DEF vars
  <2> QED BY <2>2, <2>3, <2>4, NextSplit
<1>3. Spec => []ResultInv
  BY Results
<1> QED BY <1>1, <1>2, <1>3, PTL DEF Spec, ExclusiveAllocation, Ledger!Spec

-----------------------------------------------------------------------------
(***************************************************************************)
(* What a script knows of the slots of its own reservation.  A reserve     *)
(* starts from none, and adds only what it claims; a release has all that  *)
(* are left among the files it still has to visit.                         *)
(***************************************************************************)
Untouched == \A i \in Ids : tf[i] = "new" => Owned(i) = {}

Holds(p) ==
  LET own == Owned(sh[p].id)
  IN  /\ pc[p] \in {"lock", "select"} /\ sh[p].mode = "reserve" => own = {}
      /\ pc[p] = "commit" => own \subseteq sh[p].written /\ sh[p].written \subseteq sh[p].claim
      /\ pc[p] \in {"emit", "ok"} /\ sh[p].mode = "reserve" => own = sh[p].claim
      /\ ~WriteFaults =>
           /\ pc[p] = "rollback" => own \subseteq sh[p].written
           /\ pc[p] \in {"check", "truncate"} => own \subseteq sh[p].left
           /\ pc[p] = "failed" /\ sh[p].mode = "reserve" => own = {}
           /\ pc[p] = "ok" /\ sh[p].mode = "release" => own = {}

(* The claim of a reserve never exceeds the request, and meets it before a  *)
(* marker is written.                                                       *)
Meets(r, claim) ==
  /\ Cardinality(claim \cap Cpus) = r.cpus
  /\ Cardinality(claim \cap Gbs) = r.gbs
  /\ claim \cap Devs = r.devs

Within(r, claim) ==
  /\ Cardinality(claim \cap Cpus) <= r.cpus
  /\ Cardinality(claim \cap Gbs) <= r.gbs
  /\ claim \cap Devs \subseteq r.devs

Sized(p) ==
  sh[p].mode = "reserve" =>
    /\ pc[p] \in {"lock", "select"} => sh[p].want \in Requests /\ Within(sh[p].want, sh[p].claim)
    /\ pc[p] \in {"commit", "emit", "ok"} => Meets(sh[p].want, sh[p].claim)

HeldInv == ResultInv /\ Untouched /\ \A p \in Procs : Holds(p) /\ Sized(p)

(* A script works for the same reservation, and for the same request, to its end. *)
LEMMA ScriptWant ==
  ASSUME NEW p \in Procs, TypeOK, ScriptStep(p) \/ Crash(p), pc'[p] # "idle"
  PROVE  sh'[p].id = sh[p].id /\ sh'[p].mode = sh[p].mode /\ sh'[p].want = sh[p].want
<1>1. sh'[p].id = sh[p].id /\ sh'[p].mode = sh[p].mode
  BY ScriptFrame DEF Framed
<1> SUFFICES sh'[p].want = sh[p].want
  BY <1>1
<1>s. sh[p] \in Shell
  BY DEF TypeOK
<1>2. ASSUME NEW outcome, Exit(p, outcome)
      PROVE  sh'[p].want = sh[p].want
  <2>1. p \in DOMAIN pc
    BY DEF TypeOK
  <2>2. CASE call[sh[p].id] = p
    BY <1>2, <2>2 DEF Exit
  <2>3. CASE call[sh[p].id] # p
    BY <1>2, <2>1, <2>3 DEF Exit, goto
  <2> QED BY <2>2, <2>3
<1>a. ASSUME NEW r, assign(p, r), r.want = sh[p].want
      PROVE  sh'[p].want = sh[p].want
  BY <1>a DEF assign, TypeOK
<1>3. CASE acquire_lock(p)
  BY <1>2, <1>3 DEF acquire_lock
<1>4. ASSUME NEW S, NEW n, select_free(p, S, n)
      PROVE  sh'[p].want = sh[p].want
  <2>1. CASE Exit(p, "failed")
    BY <1>2, <2>1
  <2>2. CASE ~Exit(p, "failed")
    <3>1. PICK s : assign(p, [sh[p] EXCEPT !.left = @ \ {s},
                                !.claim = IF marker[s] = Free THEN @ \cup {s} ELSE @])
      BY <1>4, <2>2 DEF select_free
    <3> QED BY <1>s, <3>1 DEF assign, TypeOK, Shell
  <2> QED BY <2>1, <2>2
<1>5. CASE SelectCpus(p) \/ SelectGbs(p)
  BY <1>4, <1>5 DEF SelectCpus, SelectGbs
<1>6. CASE SelectDev(p)
  <2>1. CASE Exit(p, "failed")
    BY <1>2, <2>1
  <2>2. CASE ~Exit(p, "failed")
    <3>1. PICK d : assign(p, [sh[p] EXCEPT !.claim = @ \cup {d}])
      BY <1>6, <2>2 DEF SelectDev
    <3> QED BY <1>s, <3>1 DEF assign, TypeOK, Shell
  <2> QED BY <2>1, <2>2
<1>7. CASE BeginCommit(p) \/ CommitFail(p)
  BY <1>7 DEF BeginCommit, CommitFail
<1>8. CASE CommitWrite(p)
  <2>1. PICK s : assign(p, [sh[p] EXCEPT !.written = @ \cup {s}])
    BY <1>8 DEF CommitWrite
  <2> QED BY <1>s, <2>1 DEF assign, TypeOK, Shell
<1>9. CASE CommitDone(p)
  BY <1>9, <1>s DEF CommitDone, assign, TypeOK, Shell
<1>10. CASE RollbackClear(p)
  <2>1. PICK s : assign(p, [sh[p] EXCEPT !.written = @ \ {s}])
    BY <1>10 DEF RollbackClear
  <2> QED BY <1>s, <2>1 DEF assign, TypeOK, Shell
<1>11. CASE emit_owned(p)
  <2>1. PICK s : assign(p, [sh[p] EXCEPT !.left = @ \ {s},
                              !.found = IF marker[s] = sh[p].id THEN @ \cup {s} ELSE @])
    BY <1>11 DEF emit_owned
  <2> QED BY <1>s, <2>1 DEF assign, TypeOK, Shell
<1>12. CASE ReleaseGrep(p)
  BY <1>12, <1>s DEF ReleaseGrep, assign, TypeOK, Shell
<1>13. CASE ReleaseCheck(p)
  <2>1. PICK s : \/ assign(p, [sh[p] EXCEPT !.target = {s}])
                 \/ assign(p, [sh[p] EXCEPT !.left = @ \ {s}])
    BY <1>13 DEF ReleaseCheck
  <2> QED BY <1>s, <2>1 DEF assign, TypeOK, Shell
<1>14. CASE ReleaseTruncate(p)
  <2>1. PICK s : assign(p, [sh[p] EXCEPT !.left = @ \ {s}, !.target = {}])
    BY <1>14 DEF ReleaseTruncate
  <2> QED BY <1>s, <2>1 DEF assign, TypeOK, Shell
<1>15. CASE RollbackDone(p) \/ EmitDone(p) \/ ReleaseDone(p) \/ Crash(p)
  BY <1>2, <1>15 DEF RollbackDone, EmitDone, ReleaseDone, Crash
<1> QED
  BY <1>3, <1>5, <1>6, <1>7, <1>8, <1>9, <1>10, <1>11, <1>12, <1>13, <1>14, <1>15
  DEF ScriptStep

(* No other script works for the reservation of this one. *)
LEMMA OthersHold ==
  ASSUME ~LostCalls, IInv, NEW p \in Procs, NEW q \in Procs \ {p}, ScriptStep(p) \/ Crash(p),
         Holds(q), Sized(q)
  PROVE  Holds(q)' /\ Sized(q)'
<1>1. TypeOK /\ Attached
  BY DEF IInv
<1>2. pc'[q] = pc[q] /\ sh'[q] = sh[q] /\ pc[p] # "idle"
  BY <1>1, ScriptFrame DEF Framed, Running
<1>3. CASE pc[q] = "idle"
  BY <1>2, <1>3 DEF Holds, Sized
<1>4. CASE pc[q] # "idle"
  <2>1. sh[q].id \in Ids /\ sh[q].id # sh[p].id
    BY <1>1, <1>2, <1>4 DEF TypeOK, Attached
  <2>2. \A i \in Ids : i # sh[p].id => Owned(i)' = Owned(i)
    BY OwnedKept
  <2>3. Owned(sh[q].id)' = Owned(sh[q].id)
    BY <1>2, <2>1, <2>2 DEF Owned
  <2> QED BY <1>2, <2>3 DEF Holds, Sized
<1> QED BY <1>3, <1>4

(***************************************************************************)
(* A reserve writes what it claimed and no more, its rollback takes back   *)
(* what it wrote, and a release visits all it found.                       *)
(***************************************************************************)
LEMMA OwnHolds ==
  ASSUME ResultInv, NEW p \in Procs, ScriptStep(p) \/ Crash(p), Holds(p)
  PROVE  Holds(p)'
<1> DEFINE own == Owned(sh[p].id)
<1>1. TypeOK /\ Locked /\ Marked /\ Scanned /\ sh[p] \in Shell
  BY DEF ResultInv, IInv, TypeOK
<1>2. pc[p] # "idle" /\ sh[p].id \in Ids /\ Free \notin Ids
  BY <1>1, ScriptFrame, NamesAssumption DEF Running, TypeOK
<1>3. pc'[p] # "idle" => sh'[p].id = sh[p].id /\ sh'[p].mode = sh[p].mode
  BY <1>1, ScriptWant
<1>m. ASSUME UNCHANGED marker, pc'[p] # "idle"
      PROVE  Owned(sh[p].id)' = own
  BY <1>m, <1>3 DEF Owned
<1>4. CASE pc'[p] \in {"idle", "killed", "grep"}
  BY <1>4 DEF Holds
<1>x. ASSUME NEW outcome, Exit(p, outcome)
      PROVE  pc'[p] \in {"idle", outcome} /\ (pc'[p] # "idle" => UNCHANGED sh)
  BY <1>1, <1>x DEF Exit, goto, TypeOK
<1>f. ASSUME Exit(p, "failed"), UNCHANGED marker, ~WriteFaults => own = {}
      PROVE  Holds(p)'
  BY <1>4, <1>f, <1>m, <1>x DEF Holds
<1>5. CASE acquire_lock(p)
  <2>1. pc[p] = "lock" /\ UNCHANGED marker
    BY <1>5 DEF acquire_lock
  <2>2. CASE Exit(p, "failed") /\ sh[p].mode = "reserve"
    BY <1>f, <2>1, <2>2 DEF Holds
  <2>3. CASE ~(Exit(p, "failed") /\ sh[p].mode = "reserve")
    <3>1. pc'[p] \in {"select", "grep"} /\ UNCHANGED sh
      BY <1>1, <1>5, <2>3 DEF acquire_lock, goto, TypeOK
    <3> QED BY <1>4, <1>m, <2>1, <3>1 DEF Holds
  <2> QED BY <2>2, <2>3
<1>6. CASE SelectCpus(p) \/ SelectGbs(p) \/ SelectDev(p)
  <2>1. /\ pc[p] = "select" /\ UNCHANGED marker
        /\ UNCHANGED pc \/ Exit(p, "failed")
    BY <1>6 DEF SelectCpus, SelectGbs, SelectDev, select_free
  <2>2. own = {}
    BY <1>1, <2>1 DEF Holds, Locked
  <2>3. CASE UNCHANGED pc
    BY <1>m, <2>1, <2>2, <2>3 DEF Holds
  <2> QED BY <1>f, <2>1, <2>2, <2>3
<1>7. CASE BeginCommit(p)
  <2>1. pc[p] = "select" /\ pc'[p] = "commit" /\ UNCHANGED <<marker, sh>>
    BY <1>1, <1>7 DEF BeginCommit, goto, TypeOK
  <2>2. own = {} /\ sh[p].written = {}
    BY <1>1, <2>1 DEF Holds, Locked, Marked
  <2> QED BY <1>m, <2>1, <2>2 DEF Holds
<1>8. CASE CommitWrite(p)
  <2>1. PICK s \in Unwritten(p) : /\ marker' = [marker EXCEPT ![s] = sh[p].id]
                                  /\ assign(p, [sh[p] EXCEPT !.written = @ \cup {s}])
    BY <1>8 DEF CommitWrite
  <2>2. pc[p] = "commit" /\ UNCHANGED pc
    BY <1>8 DEF CommitWrite
  <2>3. /\ sh'[p].written = sh[p].written \cup {s}
        /\ sh'[p].claim = sh[p].claim /\ sh'[p].id = sh[p].id
    BY <1>1, <2>1 DEF TypeOK, Shell, assign
  <2>4. Owned(sh[p].id)' \subseteq own \cup {s} /\ s \in sh[p].claim
    BY <1>1, <2>1, <2>3 DEF Owned, TypeOK, Unwritten
  <2>5. own \subseteq sh[p].written /\ sh[p].written \subseteq sh[p].claim
    BY <2>2 DEF Holds
  <2> HIDE DEF own
  <2> QED BY <2>2, <2>3, <2>4, <2>5 DEF Holds
<1>9. CASE CommitFail(p)
  <2>1. pc[p] = "commit" /\ pc'[p] = "rollback" /\ UNCHANGED <<marker, sh>>
    BY <1>1, <1>9 DEF CommitFail, goto, TypeOK
  <2> QED BY <1>m, <2>1 DEF Holds
<1>10. CASE CommitDone(p)
  <2>1. /\ pc[p] = "commit" /\ pc'[p] = "emit" /\ UNCHANGED marker
        /\ sh'[p].claim = sh[p].claim /\ sh[p].claim \subseteq sh[p].written
    BY <1>1, <1>10 DEF CommitDone, goto, assign, TypeOK, Shell, Unwritten
  <2>2. sh[p].written \subseteq own
    BY <1>1, <2>1 DEF Marked, Owned, Shell
  <2>3. own = sh[p].claim
    BY <2>1, <2>2 DEF Holds
  <2> QED BY <1>m, <2>1, <2>3 DEF Holds
<1>11. CASE RollbackClear(p)
  <2>1. PICK s \in sh[p].written : /\ ~WriteFaults => marker' = [marker EXCEPT ![s] = Free]
                                   /\ assign(p, [sh[p] EXCEPT !.written = @ \ {s}])
    BY <1>11 DEF RollbackClear
  <2>2. pc[p] = "rollback" /\ UNCHANGED pc
    BY <1>11 DEF RollbackClear
  <2>3. sh'[p].written = sh[p].written \ {s} /\ sh'[p].id = sh[p].id
    BY <1>1, <2>1 DEF TypeOK, Shell, assign
  <2>4. ~WriteFaults => Owned(sh[p].id)' \subseteq own \ {s}
    BY <1>1, <1>2, <2>1, <2>3 DEF Owned, TypeOK, Shell
  <2> HIDE DEF own
  <2>5. ~WriteFaults => own \subseteq sh[p].written
    BY <2>2 DEF Holds, own
  <2> QED BY <2>2, <2>3, <2>4, <2>5 DEF Holds
<1>12. CASE RollbackDone(p)
  BY <1>f, <1>12 DEF RollbackDone, Holds
<1>13. CASE emit_owned(p)
  <2>1. pc[p] = "emit" /\ UNCHANGED <<marker, pc>> /\ sh'[p].claim = sh[p].claim
    BY <1>1, <1>13 DEF emit_owned, assign, TypeOK, Shell
  <2> QED BY <1>3, <1>m, <2>1 DEF Holds
<1>14. CASE EmitDone(p)
  <2>1. pc[p] = "emit" /\ Exit(p, "ok") /\ UNCHANGED marker /\ sh[p].mode # "release"
    BY <1>1, <1>14 DEF EmitDone, Scanned
  <2> QED BY <1>4, <1>m, <1>x, <2>1 DEF Holds
<1>15. CASE ReleaseGrep(p)
  <2>1. pc'[p] = "check" /\ UNCHANGED marker /\ sh'[p].left = own
    BY <1>1, <1>15 DEF ReleaseGrep, goto, assign, TypeOK, Shell
  <2> QED BY <1>m, <2>1 DEF Holds
<1>16. CASE ReleaseCheck(p)
  <2>1. pc[p] = "check" /\ pc'[p] \in {"check", "truncate"} /\ UNCHANGED marker
    BY <1>1, <1>16 DEF ReleaseCheck, goto, TypeOK
  <2>2. \/ sh'[p].left = sh[p].left
        \/ \E s : marker[s] # sh[p].id /\ sh'[p].left = sh[p].left \ {s}
    BY <1>1, <1>16 DEF ReleaseCheck, assign, TypeOK, Shell
  <2>3. own \subseteq sh[p].left => own \subseteq sh'[p].left
    BY <2>2 DEF Owned
  <2> HIDE DEF own
  <2>4. Owned(sh[p].id)' = own
    BY <1>m, <2>1
  <2>5. ~WriteFaults => own \subseteq sh[p].left
    BY <2>1 DEF Holds, own
  <2> QED BY <2>1, <2>3, <2>4, <2>5 DEF Holds
<1>17. CASE ReleaseTruncate(p)
  <2>1. PICK s \in sh[p].target :
          /\ ~WriteFaults => marker' = [marker EXCEPT ![s] = Free]
          /\ assign(p, [sh[p] EXCEPT !.left = @ \ {s}, !.target = {}])
    BY <1>17 DEF ReleaseTruncate
  <2>2. pc[p] = "truncate" /\ pc'[p] = "check"
    BY <1>1, <1>17 DEF ReleaseTruncate, goto, TypeOK
  <2>3. sh'[p].left = sh[p].left \ {s} /\ sh'[p].id = sh[p].id
    BY <1>1, <2>1 DEF TypeOK, Shell, assign
  <2>4. ~WriteFaults => Owned(sh[p].id)' \subseteq own \ {s}
    BY <1>1, <1>2, <2>1, <2>3 DEF Owned, TypeOK, Shell
  <2> HIDE DEF own
  <2>5. ~WriteFaults => own \subseteq sh[p].left
    BY <2>2 DEF Holds, own
  <2> QED BY <2>2, <2>3, <2>4, <2>5 DEF Holds
<1>18. CASE ReleaseDone(p)
  <2>1. /\ pc[p] = "check" /\ Exit(p, "ok") /\ UNCHANGED marker /\ sh[p].left = {}
        /\ sh[p].mode = "release"
    BY <1>1, <1>18 DEF ReleaseDone, Locked
  <2> QED BY <1>4, <1>m, <1>x, <2>1 DEF Holds
<1>19. CASE Crash(p)
  BY <1>4, <1>x, <1>19 DEF Crash
<1> QED
  BY <1>5, <1>6, <1>7, <1>8, <1>9, <1>10, <1>11, <1>12, <1>13, <1>14, <1>15, <1>16, <1>17,
     <1>18, <1>19 DEF ScriptStep

(* A claim grows one slot at a time, up to what was asked for. *)
LEMMA OneMore ==
  ASSUME NEW S \in SUBSET Slots, NEW s
  PROVE  /\ Cardinality(S) \in Nat
         /\ S \cup {s} \in SUBSET Slots => Cardinality(S \cup {s}) <= Cardinality(S) + 1
<1>1. IsFiniteSet(S)
  BY SlotsAssumption, FS_Subset
<1> QED BY <1>1, FS_CardinalityType, FS_AddElement

LEMMA EmptyClaim ==
  ASSUME NEW r \in Requests
  PROVE  Within(r, {})
<1>1. Cardinality({}) = 0
  BY FS_EmptySet
<1>2. {} \cap Cpus = {} /\ {} \cap Gbs = {} /\ {} \cap Devs \subseteq r.devs
  OBVIOUS
<1> QED BY <1>1, <1>2, RequestsAssumption DEF Within

(***************************************************************************)
(* A reserve stops choosing slots of a kind when it has as many as asked.  *)
(***************************************************************************)
LEMMA OwnSized ==
  ASSUME IInv, NEW p \in Procs, ScriptStep(p) \/ Crash(p), Sized(p)
  PROVE  Sized(p)'
<1> DEFINE r == sh[p].want
           claim == sh[p].claim
<1>1. TypeOK /\ Locked /\ Marked /\ sh[p] \in Shell
  BY DEF IInv, TypeOK
<1>2. pc'[p] # "idle" => /\ sh'[p].id = sh[p].id /\ sh'[p].mode = sh[p].mode
                         /\ sh'[p].want = sh[p].want
  BY <1>1, ScriptWant
<1>3. CASE pc'[p] \notin {"lock", "select", "commit", "emit", "ok"}
  BY <1>3 DEF Sized
<1>x. ASSUME NEW outcome, Exit(p, outcome)
      PROVE  pc'[p] \in {"idle", outcome} /\ (pc'[p] # "idle" => UNCHANGED sh)
  BY <1>1, <1>x DEF Exit, goto, TypeOK
<1>f. ASSUME NEW outcome \in {"failed", "killed"}, Exit(p, outcome)
      PROVE  Sized(p)'
  BY <1>3, <1>f, <1>x
<1>k. ASSUME UNCHANGED pc, sh'[p].claim = claim
      PROVE  Sized(p)'
  BY <1>2, <1>k DEF Sized
<1>s. ASSUME pc[p] = "select", UNCHANGED pc, NEW s \in Slots,
             sh'[p].claim \in {claim, claim \cup {s}},
             \/ s \in Cpus /\ Cardinality(claim \cap Cpus) < r.cpus
             \/ s \in Gbs /\ Cardinality(claim \cap Gbs) < r.gbs
             \/ s \in Devs /\ s \in r.devs
      PROVE  Sized(p)'
  <2>1. r \in Requests /\ Within(r, claim) /\ sh[p].mode = "reserve"
    BY <1>1, <1>s DEF Sized, Locked
  <2>2. r.cpus \in Nat /\ r.gbs \in Nat
    BY <2>1, RequestsAssumption
  <2>3. /\ claim \cap Cpus \in SUBSET Slots /\ claim \cap Gbs \in SUBSET Slots
        /\ (claim \cap Cpus) \cup {s} \in SUBSET Slots
        /\ (claim \cap Gbs) \cup {s} \in SUBSET Slots
    BY <1>1 DEF Shell
  <2> HIDE DEF r, claim
  <2>4. /\ Cardinality(claim \cap Cpus) \in Nat /\ Cardinality(claim \cap Gbs) \in Nat
        /\ Cardinality((claim \cap Cpus) \cup {s}) <= Cardinality(claim \cap Cpus) + 1
        /\ Cardinality((claim \cap Gbs) \cup {s}) <= Cardinality(claim \cap Gbs) + 1
    BY <2>3, OneMore
  <2>5. /\ Cardinality((claim \cap Cpus) \cup {s}) \in Nat
        /\ Cardinality((claim \cap Gbs) \cup {s}) \in Nat
    BY <2>3, OneMore
  <2>6. ASSUME s \in Cpus, Cardinality(claim \cap Cpus) < r.cpus
        PROVE  Within(r, claim \cup {s})
    <3>1. /\ (claim \cup {s}) \cap Cpus = (claim \cap Cpus) \cup {s}
          /\ (claim \cup {s}) \cap Gbs = claim \cap Gbs
          /\ (claim \cup {s}) \cap Devs = claim \cap Devs
      BY <2>6, SlotsAssumption
    <3>2. Cardinality((claim \cap Cpus) \cup {s}) <= r.cpus
      BY <2>2, <2>4, <2>5, <2>6
    <3> QED BY <2>1, <3>1, <3>2 DEF Within
  <2>7. ASSUME s \in Gbs, Cardinality(claim \cap Gbs) < r.gbs
        PROVE  Within(r, claim \cup {s})
    <3>1. /\ (claim \cup {s}) \cap Gbs = (claim \cap Gbs) \cup {s}
          /\ (claim \cup {s}) \cap Cpus = claim \cap Cpus
          /\ (claim \cup {s}) \cap Devs = claim \cap Devs
      BY <2>7, SlotsAssumption
    <3>2. Cardinality((claim \cap Gbs) \cup {s}) <= r.gbs
      BY <2>2, <2>4, <2>5, <2>7
    <3> QED BY <2>1, <3>1, <3>2 DEF Within
  <2>8. ASSUME s \in Devs, s \in r.devs
        PROVE  Within(r, claim \cup {s})
    <3>1. /\ (claim \cup {s}) \cap Gbs = claim \cap Gbs
          /\ (claim \cup {s}) \cap Cpus = claim \cap Cpus
          /\ (claim \cup {s}) \cap Devs = (claim \cap Devs) \cup {s}
      BY <2>8, SlotsAssumption
    <3> QED BY <2>1, <2>8, <3>1 DEF Within
  <2>9. Within(r, sh'[p].claim)
    BY <1>s, <2>1, <2>6, <2>7, <2>8
  <2>10. pc'[p] = "select" /\ sh'[p].want = r
    BY <1>2, <1>s DEF r
  <2> QED BY <2>1, <2>9, <2>10 DEF Sized
<1>4. CASE acquire_lock(p)
  <2>1. CASE Exit(p, "failed")
    BY <1>f, <2>1
  <2>2. CASE ~Exit(p, "failed")
    <3>1. pc[p] = "lock" /\ pc'[p] \in {"select", "grep"} /\ UNCHANGED sh
      BY <1>1, <1>4, <2>2 DEF acquire_lock, goto, TypeOK
    <3> QED BY <3>1 DEF Sized
  <2> QED BY <2>1, <2>2
<1>5. ASSUME NEW S, NEW n, select_free(p, S, n), pc[p] = "select",
             (S = Cpus /\ n = r.cpus) \/ (S = Gbs /\ n = r.gbs)
      PROVE  Sized(p)'
  <2>1. CASE Exit(p, "failed")
    BY <1>f, <2>1
  <2>2. CASE ~Exit(p, "failed")
    <3>1. PICK s \in S :
            /\ assign(p, [sh[p] EXCEPT !.left = @ \ {s},
                                       !.claim = IF marker[s] = Free THEN @ \cup {s} ELSE @])
            /\ UNCHANGED pc
      BY <1>5, <2>2 DEF select_free
    <3>2. sh'[p].claim \in {claim, claim \cup {s}}
      BY <1>1, <3>1 DEF assign, TypeOK, Shell
    <3>3. Cardinality(claim \cap S) < n
      BY <1>5 DEF select_free, Lacks
    <3>4. s \in Slots
      BY <1>5 DEF Slots
    <3> HIDE DEF r, claim
    <3> QED BY <1>5, <1>s, <3>1, <3>2, <3>3, <3>4
  <2> QED BY <2>1, <2>2
<1>6. CASE SelectCpus(p)
  BY <1>5, <1>6 DEF SelectCpus
<1>7. CASE SelectGbs(p)
  BY <1>5, <1>7 DEF SelectGbs
<1>8. CASE SelectDev(p)
  <2>1. CASE Exit(p, "failed")
    BY <1>f, <2>1
  <2>2. CASE ~Exit(p, "failed")
    <3>1. PICK d \in Devs : /\ assign(p, [sh[p] EXCEPT !.claim = @ \cup {d}])
                            /\ UNCHANGED pc /\ d \in r.devs
      BY <1>8, <2>2 DEF SelectDev
    <3>2. sh'[p].claim = claim \cup {d}
      BY <1>1, <3>1 DEF assign, TypeOK, Shell
    <3>3. d \in Slots /\ pc[p] = "select"
      BY <1>8 DEF Slots, SelectDev
    <3> HIDE DEF r, claim
    <3> QED BY <1>s, <3>1, <3>2, <3>3
  <2> QED BY <2>1, <2>2
<1>9. CASE BeginCommit(p)
  <2>1. pc[p] = "select" /\ pc'[p] = "commit" /\ UNCHANGED sh
    BY <1>1, <1>9 DEF BeginCommit, goto, TypeOK
  <2>2. r \in Requests /\ Within(r, claim)
    BY <1>1, <2>1 DEF Sized, Locked
  <2>3. r.cpus \in Nat /\ r.gbs \in Nat /\ r.devs \cap (Cpus \cup Gbs) = {}
    BY <2>2, RequestsAssumption
  <2>4. Cardinality(claim \cap Cpus) \in Nat /\ Cardinality(claim \cap Gbs) \in Nat
    <3>1. claim \cap Cpus \in SUBSET Slots /\ claim \cap Gbs \in SUBSET Slots
      BY <1>1 DEF Shell
    <3> QED BY <3>1, OneMore
  <2>5. /\ ~(Cardinality(claim \cap Cpus) < r.cpus) /\ ~(Cardinality(claim \cap Gbs) < r.gbs)
        /\ r.devs \subseteq claim
    BY <1>9 DEF BeginCommit, NumbersChosen, Lacks
  <2>6. claim \cap Devs = r.devs
    <3>1. claim \subseteq Cpus \cup Gbs \cup Devs
      BY <1>1 DEF Shell, Slots
    <3> QED BY <2>2, <2>3, <2>5, <3>1 DEF Within
  <2> HIDE DEF r, claim
  <2>7. Meets(r, claim)
    BY <2>2, <2>3, <2>4, <2>5, <2>6 DEF Within, Meets
  <2> QED BY <2>1, <2>7 DEF Sized, r, claim
<1>10. CASE CommitWrite(p)
  <2>1. PICK s : assign(p, [sh[p] EXCEPT !.written = @ \cup {s}])
    BY <1>10 DEF CommitWrite
  <2>2. sh'[p].claim = claim
    BY <1>1, <2>1 DEF assign, TypeOK, Shell
  <2> QED BY <1>10, <1>k, <2>2 DEF CommitWrite
<1>11. CASE CommitDone(p)
  <2>1. pc[p] = "commit" /\ pc'[p] = "emit" /\ sh'[p].claim = claim
    BY <1>1, <1>11 DEF CommitDone, goto, assign, TypeOK, Shell
  <2> QED BY <1>2, <2>1 DEF Sized
<1>12. CASE emit_owned(p)
  <2>1. PICK s : assign(p, [sh[p] EXCEPT !.left = @ \ {s},
                              !.found = IF marker[s] = sh[p].id THEN @ \cup {s} ELSE @])
    BY <1>12 DEF emit_owned
  <2>2. sh'[p].claim = claim
    BY <1>1, <2>1 DEF assign, TypeOK, Shell
  <2> QED BY <1>12, <1>k, <2>2 DEF emit_owned
<1>13. CASE EmitDone(p)
  <2>1. pc[p] = "emit" /\ Exit(p, "ok")
    BY <1>13 DEF EmitDone
  <2> QED BY <1>3, <1>x, <2>1 DEF Sized
<1>14. CASE ReleaseDone(p)
  <2>1. sh[p].mode = "release" /\ Exit(p, "ok")
    BY <1>1, <1>14 DEF ReleaseDone, Locked
  <2> QED BY <1>3, <1>x, <2>1 DEF Sized
<1>15. CASE RollbackDone(p) \/ Crash(p)
  BY <1>f, <1>15 DEF RollbackDone, Crash
<1>16. CASE CommitFail(p) \/ RollbackClear(p) \/ ReleaseGrep(p) \/ ReleaseCheck(p)
            \/ ReleaseTruncate(p)
  <2>1. pc'[p] \in {"rollback", "check", "truncate"}
    BY <1>1, <1>16 DEF CommitFail, RollbackClear, ReleaseGrep, ReleaseCheck, ReleaseTruncate,
       goto, TypeOK
  <2> QED BY <1>3, <2>1
<1> QED
  BY <1>4, <1>6, <1>7, <1>8, <1>9, <1>10, <1>11, <1>12, <1>13, <1>14, <1>15, <1>16 DEF ScriptStep

(* A reservation nobody has created yet has no markers: a reserve starts from none. *)
LEMMA HandlerHeld ==
  ASSUME HeldInv, NEW i \in Ids, HandlerStep(i)
  PROVE  Untouched' /\ \A p \in Procs : Holds(p)' /\ Sized(p)'
<1>1. TypeOK /\ UNCHANGED marker /\ \A j \in Ids \ {i} : tf'[j] = tf[j]
  BY HandlerFrame DEF HeldInv, ResultInv, IInv
<1>2. \A j \in Ids : Owned(j)' = Owned(j)
  BY <1>1 DEF Owned
<1>e. ASSUME NEW from, NEW to, Enter(i, from, to)
      PROVE  tf[i] = from /\ tf'[i] = to
  BY <1>1, <1>e DEF Enter, TypeOK
<1>3. tf'[i] # "new"
  <2>1. CASE ReadSucceeds(i) \/ ReadFails(i) \/ LoseCall(i)
    BY <1>1, <2>1 DEF ReadSucceeds, ReadFails, LoseCall, BeforeRead, TypeOK
  <2>2. CASE ~(ReadSucceeds(i) \/ ReadFails(i) \/ LoseCall(i))
    BY <1>e, <2>2 DEF HandlerStep, Return, Create, Read, Delete, CreateSucceeds, CreateUndoes,
       CreateUndone, CreateFails, DeleteReturns
  <2> QED BY <2>1, <2>2
<1>4. Untouched'
  BY <1>1, <1>2, <1>3 DEF HeldInv, Untouched
<1> SUFFICES ASSUME NEW p \in Procs PROVE Holds(p)' /\ Sized(p)'
  BY <1>4
<1>5. Holds(p) /\ Sized(p)
  BY DEF HeldInv
<1>6. CASE pc'[p] = pc[p] /\ sh'[p] = sh[p]
  <2>1. Owned(sh[p].id)' = Owned(sh[p].id)
    BY <1>1, <1>6 DEF Owned
  <2> QED BY <1>5, <1>6, <2>1 DEF Holds, Sized
<1>7. ASSUME pc'[p] = "idle" \/ (pc'[p] = "emit" /\ sh'[p].mode = "scan")
                            \/ (pc'[p] = "lock" /\ sh'[p].mode = "release")
      PROVE  Holds(p)' /\ Sized(p)'
  BY <1>7 DEF Holds, Sized
<1>8. ASSUME NEW q \in Procs, NEW r \in Requests, tf[i] = "new", runScript(i, q, "reserve", r)
      PROVE  Holds(p)' /\ Sized(p)'
  <2>1. CASE p # q
    BY <1>1, <1>6, <1>8, <2>1 DEF runScript, goto, assign, TypeOK
  <2>2. CASE p = q
    <3>1. /\ pc'[p] = "lock" /\ sh'[p].id = i /\ sh'[p].want = r /\ sh'[p].claim = {}
          /\ sh'[p].mode = "reserve"
      BY <1>1, <1>8, <2>2 DEF runScript, goto, assign, TypeOK, Blank
    <3>2. Owned(i)' = {}
      BY <1>2, <1>8 DEF HeldInv, Untouched
    <3>3. Owned(sh[p].id)' = {}
      BY <3>1, <3>2 DEF Owned
    <3> QED BY <3>1, <3>3, EmptyClaim DEF Holds, Sized
  <2> QED BY <2>1, <2>2
<1>9. ASSUME NEW q \in Procs, NEW mode \in {"scan", "release"}, runScript(i, q, mode, Nobody)
      PROVE  Holds(p)' /\ Sized(p)'
  <2>1. CASE p # q
    BY <1>1, <1>6, <1>9, <2>1 DEF runScript, goto, assign, TypeOK
  <2>2. CASE p = q
    BY <1>1, <1>7, <1>9, <2>2 DEF runScript, goto, assign, TypeOK, Blank
  <2> QED BY <2>1, <2>2
<1>10. CASE Create(i)
  <2>1. CASE UNCHANGED <<pc, sh>>
    BY <1>6, <2>1
  <2>2. CASE ~UNCHANGED <<pc, sh>>
    BY <1>8, <1>10, <1>e, <2>2 DEF Create
  <2> QED BY <2>1, <2>2
<1>11. CASE Read(i) \/ Delete(i)
  BY <1>9, <1>11 DEF Read, Delete
<1>12. CASE CreateUndoes(i)
  <2>1. CASE p # call[i]
    BY <1>1, <1>6, <1>12, <2>1 DEF CreateUndoes, goto, assign, TypeOK
  <2>2. CASE p = call[i]
    BY <1>1, <1>7, <1>12, <2>2 DEF CreateUndoes, goto, assign, TypeOK, Blank
  <2> QED BY <2>1, <2>2
<1>13. CASE Collect(i)
  BY <1>1, <1>6, <1>7, <1>13 DEF Collect, goto, assign, TypeOK
<1>14. CASE LoseCall(i)
  BY <1>6, <1>14 DEF LoseCall
<1> QED
  BY <1>10, <1>11, <1>12, <1>13, <1>14
  DEF HandlerStep, Return, CreateSucceeds, CreateUndone, CreateFails, ReadSucceeds, ReadFails,
      DeleteReturns

LEMMA Holding ==
  ASSUME ~LostCalls
  PROVE  Spec => []HeldInv
<1> DEFINE Kept == Untouched /\ \A p \in Procs : Holds(p) /\ Sized(p)
<1>1. Init => Kept
  BY NamesAssumption DEF Init, Untouched, Owned, Holds, Sized
<1>2. ResultInv /\ ResultInv' /\ Kept /\ [Next]_vars => Kept'
  <2>1. ASSUME ResultInv, Kept, NEW p \in Procs, ScriptStep(p) \/ Crash(p)
        PROVE  Kept'
    <3>1. TypeOK /\ Attached /\ IInv
      BY <2>1 DEF ResultInv, IInv
    <3>2. Untouched'
      <4>1. UNCHANGED <<tf, call>> /\ pc[p] # "idle"
        BY <2>1, <3>1, ScriptFrame DEF Running
      <4>2. ASSUME NEW i \in Ids, tf[i] = "new" PROVE Owned(i)' = Owned(i)
        <5>1. call[i] = Nobody /\ call[sh[p].id] = p /\ Nobody \notin Procs
          BY <3>1, <4>1, <4>2, NamesAssumption DEF Attached, AtRest
        <5>2. sh[p].id # i
          BY <5>1
        <5> QED BY <2>1, <3>1, <5>2, OwnedKept
      <4> QED BY <2>1, <4>1, <4>2 DEF Untouched
    <3>3. ASSUME NEW q \in Procs PROVE Holds(q)' /\ Sized(q)'
      <4>1. CASE q = p
        BY <2>1, <3>1, <4>1, OwnHolds, OwnSized
      <4>2. CASE q # p
        BY <2>1, <3>1, <4>2, OthersHold
      <4> QED BY <4>1, <4>2
    <3> QED BY <3>2, <3>3
  <2>2. ASSUME ResultInv, Kept, NEW i \in Ids, HandlerStep(i)
        PROVE  Kept'
    BY <2>2, HandlerHeld DEF HeldInv
  <2>3. Kept /\ UNCHANGED vars => Kept'
    BY DEF Untouched, Holds, Sized, Owned, vars
  <2> QED BY <2>1, <2>2, <2>3, NextSplit
<1>3. ResultInv /\ Kept => HeldInv
  BY DEF HeldInv
<1> HIDE DEF Kept
<1> QED BY <1>1, <1>2, <1>3, Results, PTL DEF Spec

(***************************************************************************)
(* A reserve that exits 0 printed exactly what it claimed, and that is as  *)
(* many slots of each kind as were asked for.                              *)
(***************************************************************************)
THEOREM ReservedAsAsked ==
  ASSUME ~LostCalls
  PROVE  Spec => []ReserveExact
<1>1. HeldInv => ReserveExact
  <2> SUFFICES ASSUME HeldInv, NEW p \in Procs, pc[p] = "ok", sh[p].mode = "reserve"
               PROVE  sh[p].found = sh[p].claim /\ Meets(sh[p].want, sh[p].claim)
    BY DEF ReserveExact, Meets
  <2>1. sh[p].found = Owned(sh[p].id)
    BY DEF HeldInv, ResultInv, Scanned
  <2> QED BY <2>1 DEF HeldInv, Holds, Sized
<1> QED BY <1>1, Holding, PTL

(***************************************************************************)
(* All or nothing: as long as a slot file can be truncated, a reserve that *)
(* exits with an error and a release that exits 0 leave no marker of their *)
(* reservation behind.                                                     *)
(***************************************************************************)
THEOREM AllOrNothing ==
  ASSUME ~LostCalls
  PROVE  Spec => []NothingLeft
<1>1. HeldInv => NothingLeft
  BY DEF HeldInv, Holds, NothingLeft
<1> QED BY <1>1, Holding, PTL

-----------------------------------------------------------------------------
(***************************************************************************)
(* Why the calls return and the lock is released: a script only ever gets  *)
(* nearer its end, and whoever waits for the lock waits for a script that  *)
(* does.                                                                   *)
(***************************************************************************)

(* What a script has still to do, at most: each loop visits a slot file    *)
(* once, and a loop that comes later is a round or more shorter.           *)
Round == 2 * Cardinality(Slots) + 2

StepsLeft(p) ==
  CASE pc[p] = "lock"     -> 4 * Round
    [] pc[p] = "select"   -> 3 * Round + Cardinality(sh[p].left) + Cardinality(Slots \ sh[p].claim)
    [] pc[p] = "commit"   -> 2 * Round + Cardinality(Unwritten(p))
    [] pc[p] = "rollback" -> Round + Cardinality(sh[p].written)
    [] pc[p] = "emit"     -> Round + Cardinality(sh[p].left)
    [] pc[p] = "grep"     -> Round
    [] pc[p] = "check"    -> 2 * Cardinality(sh[p].left) + 1
    [] pc[p] = "truncate" -> 2 * Cardinality(sh[p].left)
    [] OTHER              -> 0

NearerItsEnd(p) ==
  pc[p] \in Running => StepsLeft(p)' < StepsLeft(p) \/ (pc'[p] = pc[p] /\ sh'[p] = sh[p])

HolderRuns == lock # Nobody => pc[lock] \in Running \ {"lock"}

(* The file a release is about to truncate is one it has still to visit. *)
Targeted(p) == pc[p] = "truncate" => sh[p].target # {} /\ sh[p].target \subseteq sh[p].left

LockGoesRound == HolderRuns /\ \A p \in Procs : Targeted(p)

(* A loop that visits one file of a set has one less to visit. *)
LEMMA OneLess ==
  ASSUME NEW S \in SUBSET Slots
  PROVE  /\ Cardinality(S) \in Nat /\ Cardinality(S) <= Cardinality(Slots)
         /\ Cardinality(Slots) \in Nat
         /\ \A s \in S : Cardinality(S \ {s}) = Cardinality(S) - 1
         /\ S # {} => Cardinality(S) > 0
<1>1. IsFiniteSet(S) /\ Cardinality(S) <= Cardinality(Slots)
  BY SlotsAssumption, FS_Subset
<1>2. Cardinality(S) \in Nat /\ Cardinality(Slots) \in Nat
  BY <1>1, SlotsAssumption, FS_CardinalityType
<1>3. ASSUME NEW s \in S PROVE Cardinality(S \ {s}) = Cardinality(S) - 1
  BY <1>1, <1>3, FS_RemoveElement
<1>4. S # {} => Cardinality(S) # 0
  BY <1>1, FS_EmptySet
<1> QED BY <1>1, <1>2, <1>3, <1>4

LEMMA Shrinks ==
  ASSUME NEW S \in SUBSET Slots, NEW T \in SUBSET S
  PROVE  Cardinality(T) <= Cardinality(S)
<1>1. IsFiniteSet(S)
  BY SlotsAssumption, FS_Subset
<1> QED BY <1>1, FS_Subset

(* A script at work has steps left, and one that waits for the lock has most. *)
LEMMA Remaining ==
  ASSUME TypeOK, NEW p \in Procs, Targeted(p)
  PROVE  /\ Round \in Nat /\ StepsLeft(p) \in Nat
         /\ pc[p] \in Running => StepsLeft(p) > 0
         /\ pc[p] \notin Running => StepsLeft(p) = 0
<1>1. /\ sh[p].left \in SUBSET Slots /\ Slots \ sh[p].claim \in SUBSET Slots
      /\ Unwritten(p) \in SUBSET Slots /\ sh[p].written \in SUBSET Slots
  BY DEF TypeOK, Shell, Unwritten
<1>2. /\ Cardinality(sh[p].left) \in Nat /\ Cardinality(Slots \ sh[p].claim) \in Nat
      /\ Cardinality(Unwritten(p)) \in Nat /\ Cardinality(sh[p].written) \in Nat
      /\ Cardinality(Slots) \in Nat
      /\ sh[p].left # {} => Cardinality(sh[p].left) > 0
  BY <1>1, OneLess
<1>3. pc[p] = "truncate" => sh[p].left # {}
  BY DEF Targeted
<1>4. Round \in Nat /\ Round > 0
  BY <1>2 DEF Round
<1> QED
  BY <1>2, <1>3, <1>4 DEF StepsLeft, Running

(***************************************************************************)
(* A script that takes the lock goes on with it, and what it targets it    *)
(* has still to visit.                                                     *)
(***************************************************************************)
LEMMA ScriptRounds ==
  ASSUME TypeOK, LockGoesRound, NEW p \in Procs, ScriptStep(p) \/ Crash(p)
  PROVE  LockGoesRound'
<1>0. /\ \A q \in Procs \ {p} : pc'[q] = pc[q] /\ sh'[q] = sh[q]
      /\ sh[p] \in Shell /\ pc[p] \in Running /\ Nobody \notin Procs
  BY ScriptFrame, NamesAssumption DEF Framed, TypeOK
<1>1. ASSUME lock' \in {lock, p, Nobody},
             lock' = p => pc'[p] \in Running \ {"lock"}, Targeted(p)'
      PROVE  LockGoesRound'
  <2>1. HolderRuns'
    BY <1>0, <1>1 DEF LockGoesRound, HolderRuns, TypeOK
  <2>2. ASSUME NEW q \in Procs PROVE Targeted(q)'
    BY <1>0, <1>1 DEF LockGoesRound, Targeted
  <2> QED BY <2>1, <2>2 DEF LockGoesRound
<1>x. ASSUME NEW outcome \in Ended, Exit(p, outcome)
      PROVE  LockGoesRound'
  <2>1. pc'[p] # "truncate" /\ lock' \in {lock, Nobody} /\ lock' # p
    BY <1>0, <1>x DEF Exit, goto, TypeOK, Ended
  <2> QED BY <1>1, <2>1 DEF Targeted
<1>e. "failed" \in Ended /\ "ok" \in Ended /\ "killed" \in Ended
  BY DEF Ended
<1>g. ASSUME pc[p] # "lock", UNCHANGED lock, pc'[p] \in Running \ {"lock", "truncate"}
      PROVE  LockGoesRound'
  BY <1>1, <1>g DEF Targeted
<1>2. CASE acquire_lock(p)
  <2>1. CASE Exit(p, "failed")
    BY <1>e, <1>x, <2>1
  <2>2. CASE ~Exit(p, "failed")
    <3>1. lock' \in {lock, p} /\ pc'[p] \in {"select", "grep"}
      BY <1>2, <2>2 DEF acquire_lock, goto, TypeOK
    <3> QED BY <1>1, <3>1 DEF Targeted, Running
  <2> QED BY <2>1, <2>2
<1>3. CASE SelectCpus(p) \/ SelectGbs(p) \/ SelectDev(p)
  <2>1. CASE Exit(p, "failed")
    BY <1>e, <1>x, <2>1
  <2>2. CASE ~Exit(p, "failed")
    BY <1>3, <1>g, <2>2 DEF SelectCpus, SelectGbs, SelectDev, select_free, Running
  <2> QED BY <2>1, <2>2
<1>4. CASE BeginCommit(p) \/ CommitFail(p) \/ CommitDone(p)
  BY <1>g, <1>4 DEF BeginCommit, CommitFail, CommitDone, goto, TypeOK, Running
<1>5. CASE CommitWrite(p) \/ RollbackClear(p) \/ emit_owned(p)
  BY <1>g, <1>5 DEF CommitWrite, RollbackClear, emit_owned, Running
<1>6. CASE RollbackDone(p) \/ EmitDone(p) \/ ReleaseDone(p) \/ Crash(p)
  BY <1>e, <1>x, <1>6 DEF RollbackDone, EmitDone, ReleaseDone, Crash
<1>7. CASE ReleaseGrep(p) \/ ReleaseTruncate(p)
  BY <1>g, <1>7 DEF ReleaseGrep, ReleaseTruncate, goto, TypeOK, Running
<1>8. CASE ReleaseCheck(p)
  <2>1. PICK s \in sh[p].left :
          \/ assign(p, [sh[p] EXCEPT !.target = {s}]) /\ goto(p, "truncate")
          \/ UNCHANGED pc
    BY <1>8 DEF ReleaseCheck
  <2>2. UNCHANGED lock /\ pc[p] = "check"
    BY <1>8 DEF ReleaseCheck
  <2>3. CASE UNCHANGED pc
    BY <1>g, <2>2, <2>3 DEF Running
  <2>4. CASE ~UNCHANGED pc
    <3>1. sh'[p].target = {s} /\ sh'[p].left = sh[p].left /\ pc'[p] = "truncate"
      BY <1>0, <2>1, <2>4 DEF assign, goto, TypeOK, Shell
    <3> QED BY <1>1, <2>2, <3>1 DEF Targeted, Running
  <2> QED BY <2>3, <2>4
<1> QED
  BY <1>2, <1>3, <1>4, <1>5, <1>6, <1>7, <1>8 DEF ScriptStep

LEMMA HandlerRounds ==
  ASSUME TypeOK, LockGoesRound, NEW i \in Ids, HandlerStep(i)
  PROVE  LockGoesRound' /\ \A p \in Procs : NearerItsEnd(p)
<1>1. UNCHANGED lock
  BY HandlerFrame
<1>2. ASSUME NEW p \in Procs
      PROVE  \/ pc'[p] = pc[p] /\ sh'[p] = sh[p]
             \/ pc[p] \notin Running /\ pc'[p] # "truncate"
  <2>1. Starts(i) \/ Continues(i) \/ Ends(i) \/ Departs(i)
    BY HandlerFrame
  <2>2. "idle" \notin Running /\ \A l \in Ended : l \notin Running
    BY DEF Running, Ended
  <2> QED
    BY <2>1, <2>2 DEF Starts, Continues, Ends, Departs, Placed
<1>3. HolderRuns'
  BY <1>1, <1>2 DEF LockGoesRound, HolderRuns, TypeOK
<1>4. ASSUME NEW p \in Procs PROVE Targeted(p)'
  BY <1>2 DEF LockGoesRound, Targeted
<1> QED BY <1>2, <1>3, <1>4 DEF LockGoesRound, NearerItsEnd

(***************************************************************************)
(* Whoever holds the lock is a script at work, past the wait for it: no    *)
(* two scripts wait for each other, none waits for one that has ended, and *)
(* a killed one takes its lock along.                                      *)
(***************************************************************************)
THEOREM HolderAtWork == Spec => []LockGoesRound
<1>1. Init => LockGoesRound
  BY DEF Init, LockGoesRound, HolderRuns, Targeted
<1>2. TypeOK /\ LockGoesRound /\ [Next]_vars => LockGoesRound'
  <2>1. TypeOK /\ LockGoesRound /\ Next => LockGoesRound'
    BY NextSplit, ScriptRounds, HandlerRounds
  <2>2. LockGoesRound /\ UNCHANGED vars => LockGoesRound'
    BY DEF LockGoesRound, HolderRuns, Targeted, vars
  <2> QED BY <2>1, <2>2
<1> QED BY <1>1, <1>2, Typing, PTL DEF Spec

(***************************************************************************)
(* Every step of a script, and its death, shortens what it has to do.      *)
(***************************************************************************)
LEMMA ScriptNearer ==
  ASSUME TypeOK, LockGoesRound, NEW p \in Procs, ScriptStep(p) \/ Crash(p)
  PROVE  StepsLeft(p)' < StepsLeft(p)
<1> DEFINE left == sh[p].left
           claim == sh[p].claim
           written == sh[p].written
           n == Cardinality(Slots)
<1>0. pc[p] \in Running /\ sh[p] \in Shell /\ Targeted(p) /\ n \in Nat /\ Round = 2 * n + 2
  BY ScriptFrame, OneLess DEF TypeOK, LockGoesRound, Round
<1>s. /\ left \in SUBSET Slots /\ claim \in SUBSET Slots /\ written \in SUBSET Slots
      /\ Slots \ claim \in SUBSET Slots /\ claim \ written \in SUBSET Slots
  BY <1>0 DEF Shell
<1>n. /\ Cardinality(left) \in Nat /\ Cardinality(left) <= n
      /\ Cardinality(Slots \ claim) \in Nat /\ Cardinality(Slots \ claim) <= n
      /\ Cardinality(claim \ written) \in Nat
      /\ Cardinality(written) \in Nat /\ Cardinality(written) <= n
  BY <1>s, OneLess
<1>k. UNCHANGED pc => pc'[p] = pc[p]
  OBVIOUS
<1>g. ASSUME NEW l, goto(p, l) PROVE pc'[p] = l
  BY <1>g DEF goto, TypeOK
<1>a. ASSUME NEW r, assign(p, r) PROVE sh'[p] = r
  BY <1>a DEF assign, TypeOK
<1>x. ASSUME NEW outcome \in Ended, Exit(p, outcome)
      PROVE  StepsLeft(p)' < StepsLeft(p)
  <2>1. pc'[p] \in {"idle"} \cup Ended
    BY <1>x DEF Exit, goto, TypeOK
  <2>2. StepsLeft(p)' = 0
    BY <2>1 DEF StepsLeft, Ended
  <2>3. StepsLeft(p) \in Nat /\ StepsLeft(p) > 0
    BY <1>0, Remaining
  <2> QED BY <2>2, <2>3
<1>e. "failed" \in Ended /\ "ok" \in Ended /\ "killed" \in Ended
  BY DEF Ended
<1>1. CASE acquire_lock(p)
  <2>1. CASE Exit(p, "failed")
    BY <1>e, <1>x, <2>1
  <2>2. CASE ~Exit(p, "failed")
    <3>1. pc[p] = "lock" /\ pc'[p] \in {"select", "grep"} /\ sh' = sh
      BY <1>1, <2>2 DEF acquire_lock, goto, TypeOK
    <3>2. StepsLeft(p) = 4 * Round
      BY <3>1 DEF StepsLeft
    <3>3. StepsLeft(p)' = IF pc'[p] = "grep" THEN Round
                          ELSE 3 * Round + Cardinality(left) + Cardinality(Slots \ claim)
      BY <3>1 DEF StepsLeft, Round
    <3> HIDE DEF left, claim, n
    <3> QED BY <1>0, <1>n, <3>2, <3>3
  <2> QED BY <2>1, <2>2
<1>2. ASSUME pc[p] = "select", pc'[p] = "select", sh'[p].left \in SUBSET left,
             NEW s \in Slots, sh'[p].claim \in {claim, claim \cup {s}},
             \/ s \in left /\ sh'[p].left = left \ {s}
             \/ s \notin claim /\ sh'[p].claim = claim \cup {s}
      PROVE  StepsLeft(p)' < StepsLeft(p)
  <2> DEFINE left1 == sh'[p].left
             rest1 == Slots \ sh'[p].claim
  <2>1. left1 \in SUBSET Slots /\ rest1 \in SUBSET (Slots \ claim) /\ rest1 \in SUBSET Slots
    BY <1>2, <1>s
  <2>2. /\ Cardinality(left1) \in Nat /\ Cardinality(rest1) \in Nat
        /\ Cardinality(left1) <= Cardinality(left)
        /\ Cardinality(rest1) <= Cardinality(Slots \ claim)
    BY <1>2, <1>s, <2>1, OneLess, Shrinks
  <2>3. ASSUME s \in left, left1 = left \ {s}
        PROVE  Cardinality(left1) < Cardinality(left)
    BY <1>n, <1>s, <2>3, OneLess
  <2>4. ASSUME s \notin claim, sh'[p].claim = claim \cup {s}
        PROVE  Cardinality(rest1) < Cardinality(Slots \ claim)
    <3>1. rest1 = (Slots \ claim) \ {s} /\ s \in Slots \ claim
      BY <2>4
    <3>2. Cardinality((Slots \ claim) \ {s}) = Cardinality(Slots \ claim) - 1
      BY <1>s, <3>1, OneLess
    <3> HIDE DEF claim, rest1
    <3> QED BY <1>n, <3>1, <3>2
  <2>5. /\ StepsLeft(p) = 3 * Round + Cardinality(left) + Cardinality(Slots \ claim)
        /\ StepsLeft(p)' = 3 * Round + Cardinality(left1) + Cardinality(rest1)
    BY <1>2 DEF StepsLeft, Round
  <2>6. Cardinality(left1) < Cardinality(left) \/ Cardinality(rest1) < Cardinality(Slots \ claim)
    BY <1>2, <2>3, <2>4
  <2> HIDE DEF left, claim, left1, rest1, n
  <2> QED BY <1>0, <1>n, <2>2, <2>5, <2>6
<1>3. ASSUME NEW S, NEW m, select_free(p, S, m), pc[p] = "select"
      PROVE  StepsLeft(p)' < StepsLeft(p)
  <2>1. CASE Exit(p, "failed")
    BY <1>e, <1>x, <2>1
  <2>2. CASE ~Exit(p, "failed")
    <3>1. PICK s \in left \cap S :
            /\ assign(p, [sh[p] EXCEPT !.left = @ \ {s},
                                       !.claim = IF marker[s] = Free THEN @ \cup {s} ELSE @])
            /\ UNCHANGED <<pc, lock>>
      BY <1>3, <2>2 DEF select_free
    <3>2. /\ sh'[p].left = left \ {s}
          /\ sh'[p].claim \in {claim, claim \cup {s}}
      BY <1>0, <1>a, <3>1 DEF Shell
    <3>3. s \in Slots /\ s \in left /\ pc'[p] = "select" /\ sh'[p].left \in SUBSET left
      BY <1>3, <1>s, <3>1, <3>2
    <3> HIDE DEF left, claim
    <3> QED BY <1>2, <1>3, <3>2, <3>3
  <2> QED BY <2>1, <2>2
<1>4. CASE SelectCpus(p) \/ SelectGbs(p)
  BY <1>3, <1>4 DEF SelectCpus, SelectGbs
<1>5. CASE SelectDev(p)
  <2>1. CASE Exit(p, "failed")
    BY <1>e, <1>x, <2>1
  <2>2. CASE ~Exit(p, "failed")
    <3>1. PICK d \in sh[p].want.devs \ sh[p].claim :
            d \in Devs /\ assign(p, [sh[p] EXCEPT !.claim = @ \cup {d}]) /\ UNCHANGED <<pc, lock>>
      BY <1>5, <2>2 DEF SelectDev
    <3>2. sh'[p].left = left /\ sh'[p].claim = claim \cup {d}
      BY <1>0, <1>a, <3>1 DEF Shell
    <3>3. d \in Slots /\ d \notin claim /\ pc[p] = "select" /\ pc'[p] = "select"
      BY <1>5, <3>1 DEF SelectDev, Slots
    <3> HIDE DEF left, claim
    <3> QED BY <1>2, <3>2, <3>3
  <2> QED BY <2>1, <2>2
<1>6. CASE BeginCommit(p)
  <2>1. pc[p] = "select" /\ pc'[p] = "commit" /\ sh' = sh
    BY <1>6, <1>g DEF BeginCommit
  <2>2. /\ StepsLeft(p) = 3 * Round + Cardinality(left) + Cardinality(Slots \ claim)
        /\ StepsLeft(p)' = 2 * Round + Cardinality(claim \ written)
    BY <2>1 DEF StepsLeft, Round, Unwritten
  <2>3. Cardinality(claim \ written) <= n
    BY <1>s, OneLess
  <2> HIDE DEF left, claim, written, n
  <2> QED BY <1>0, <1>n, <2>2, <2>3
<1>7. CASE CommitWrite(p)
  <2>1. PICK s \in claim \ written : assign(p, [sh[p] EXCEPT !.written = @ \cup {s}])
    BY <1>7 DEF CommitWrite, Unwritten
  <2>2. sh'[p].claim = claim /\ sh'[p].written = written \cup {s}
    BY <1>0, <1>a, <2>1 DEF Shell
  <2>3. pc[p] = "commit" /\ pc'[p] = "commit"
    BY <1>7 DEF CommitWrite
  <2>4. claim \ (written \cup {s}) = (claim \ written) \ {s}
    OBVIOUS
  <2>5. /\ StepsLeft(p) = 2 * Round + Cardinality(claim \ written)
        /\ StepsLeft(p)' = 2 * Round + Cardinality((claim \ written) \ {s})
    BY <2>2, <2>3, <2>4 DEF StepsLeft, Round, Unwritten
  <2>6. Cardinality((claim \ written) \ {s}) = Cardinality(claim \ written) - 1
    BY <1>s, <2>1, OneLess
  <2> HIDE DEF claim, written, n
  <2> QED BY <1>0, <1>n, <2>5, <2>6
<1>8. CASE CommitFail(p)
  <2>1. pc[p] = "commit" /\ pc'[p] = "rollback" /\ sh' = sh
    BY <1>8, <1>g DEF CommitFail
  <2>2. /\ StepsLeft(p) = 2 * Round + Cardinality(claim \ written)
        /\ StepsLeft(p)' = Round + Cardinality(written)
    BY <2>1 DEF StepsLeft, Round, Unwritten
  <2> HIDE DEF claim, written, n
  <2> QED BY <1>0, <1>n, <2>2
<1>9. CASE CommitDone(p)
  <2>1. pc[p] = "commit" /\ pc'[p] = "emit" /\ sh'[p].left = Slots
    BY <1>0, <1>9, <1>a, <1>g DEF CommitDone, Shell
  <2>2. /\ StepsLeft(p) = 2 * Round + Cardinality(claim \ written)
        /\ StepsLeft(p)' = Round + n
    BY <2>1 DEF StepsLeft, Round, Unwritten
  <2> HIDE DEF claim, written, n
  <2> QED BY <1>0, <1>n, <2>2
<1>10. CASE RollbackClear(p)
  <2>1. PICK s \in written : assign(p, [sh[p] EXCEPT !.written = @ \ {s}])
    BY <1>10 DEF RollbackClear
  <2>2. pc[p] = "rollback" /\ pc'[p] = "rollback" /\ sh'[p].written = written \ {s}
    BY <1>0, <1>10, <1>a, <2>1 DEF RollbackClear, Shell
  <2>3. StepsLeft(p) = Round + Cardinality(written) /\ StepsLeft(p)' = Round + Cardinality(written \ {s})
    BY <2>2 DEF StepsLeft, Round
  <2>4. Cardinality(written \ {s}) = Cardinality(written) - 1
    BY <1>s, <2>1, OneLess
  <2> HIDE DEF written, n
  <2> QED BY <1>0, <1>n, <2>3, <2>4
<1>11. CASE emit_owned(p)
  <2>1. PICK s \in left :
          assign(p, [sh[p] EXCEPT !.left = @ \ {s},
                              !.found = IF marker[s] = sh[p].id THEN @ \cup {s} ELSE @])
    BY <1>11 DEF emit_owned
  <2>2. pc[p] = "emit" /\ pc'[p] = "emit" /\ sh'[p].left = left \ {s}
    BY <1>0, <1>11, <1>a, <2>1 DEF emit_owned, Shell
  <2>3. StepsLeft(p) = Round + Cardinality(left) /\ StepsLeft(p)' = Round + Cardinality(left \ {s})
    BY <2>2 DEF StepsLeft, Round
  <2>4. Cardinality(left \ {s}) = Cardinality(left) - 1
    BY <1>s, <2>1, OneLess
  <2> HIDE DEF left, n
  <2> QED BY <1>0, <1>n, <2>3, <2>4
<1>12. CASE RollbackDone(p) \/ EmitDone(p) \/ ReleaseDone(p) \/ Crash(p)
  BY <1>e, <1>x, <1>12 DEF RollbackDone, EmitDone, ReleaseDone, Crash
<1>13. CASE ReleaseGrep(p)
  <2>1. pc[p] = "grep" /\ pc'[p] = "check" /\ sh'[p].left = Owned(sh[p].id)
    BY <1>0, <1>13, <1>a, <1>g DEF ReleaseGrep, Shell
  <2>2. StepsLeft(p) = Round /\ StepsLeft(p)' = 2 * Cardinality(sh'[p].left) + 1
    BY <2>1 DEF StepsLeft
  <2>3. sh'[p].left \in SUBSET Slots
    BY <2>1 DEF Owned
  <2>4. Cardinality(sh'[p].left) \in Nat /\ Cardinality(sh'[p].left) <= n
    BY <2>3, OneLess
  <2> HIDE DEF n
  <2> QED BY <1>0, <2>2, <2>4
<1>14. CASE ReleaseCheck(p)
  <2>1. PICK s \in left :
          \/ assign(p, [sh[p] EXCEPT !.target = {s}]) /\ goto(p, "truncate")
          \/ assign(p, [sh[p] EXCEPT !.left = @ \ {s}]) /\ UNCHANGED pc
    BY <1>14 DEF ReleaseCheck
  <2>2. /\ pc[p] = "check"
        /\ \/ pc'[p] = "truncate" /\ sh'[p].left = left
           \/ pc'[p] = "check" /\ sh'[p].left = left \ {s}
    BY <1>0, <1>14, <1>a, <1>g, <2>1 DEF ReleaseCheck, Shell
  <2>3. /\ StepsLeft(p) = 2 * Cardinality(left) + 1
        /\ \/ StepsLeft(p)' = 2 * Cardinality(left)
           \/ StepsLeft(p)' = 2 * Cardinality(left \ {s}) + 1
    BY <2>2 DEF StepsLeft
  <2>4. Cardinality(left \ {s}) = Cardinality(left) - 1
    BY <1>s, <2>1, OneLess
  <2> HIDE DEF left, n
  <2> QED BY <1>n, <2>3, <2>4
<1>15. CASE ReleaseTruncate(p)
  <2>1. PICK s \in sh[p].target : assign(p, [sh[p] EXCEPT !.left = @ \ {s}, !.target = {}])
    BY <1>15 DEF ReleaseTruncate
  <2>2. pc[p] = "truncate" /\ pc'[p] = "check" /\ sh'[p].left = left \ {s} /\ s \in left
    BY <1>0, <1>15, <1>a, <1>g, <2>1 DEF ReleaseTruncate, Targeted, Shell
  <2>3. StepsLeft(p) = 2 * Cardinality(left) /\ StepsLeft(p)' = 2 * Cardinality(left \ {s}) + 1
    BY <2>2 DEF StepsLeft
  <2>4. Cardinality(left \ {s}) = Cardinality(left) - 1
    BY <1>s, <2>2, OneLess
  <2> HIDE DEF left, n
  <2> QED BY <1>n, <2>3, <2>4
<1> QED
  BY <1>1, <1>4, <1>5, <1>6, <1>7, <1>8, <1>9, <1>10, <1>11, <1>12, <1>13, <1>14, <1>15
  DEF ScriptStep

(***************************************************************************)
(* Nothing another script or a handler does gives a script at work more to *)
(* do: whatever moves it moves it towards its end.                         *)
(***************************************************************************)
THEOREM ScriptsComeToAnEnd == Spec => [][\A p \in Procs : NearerItsEnd(p)]_vars
<1>1. ASSUME TypeOK, LockGoesRound, Next
      PROVE  \A p \in Procs : NearerItsEnd(p)
  <2>1. ASSUME NEW q \in Procs, ScriptStep(q) \/ Crash(q), NEW p \in Procs
        PROVE  NearerItsEnd(p)
    <3>1. CASE p = q
      BY <1>1, <2>1, <3>1, ScriptNearer DEF NearerItsEnd
    <3>2. CASE p # q
      BY <1>1, <2>1, <3>2, ScriptFrame DEF NearerItsEnd, Framed
    <3> QED BY <3>1, <3>2
  <2>2. ASSUME NEW i \in Ids, HandlerStep(i)
        PROVE  \A p \in Procs : NearerItsEnd(p)
    BY <1>1, <2>2, HandlerRounds
  <2> QED BY <1>1, <2>1, <2>2, NextSplit
<1>2. TypeOK /\ LockGoesRound /\ [Next]_vars => [\A p \in Procs : NearerItsEnd(p)]_vars
  BY <1>1
<1> QED BY <1>2, Typing, HolderAtWork, PTL DEF Spec
=============================================================================
