--------------------------- MODULE HostReservation ---------------------------
(***************************************************************************)
(* zedamigo_host_reservation: claims on the slot files of a host.          *)
(*                                                                         *)
(* An operator pre-creates empty slot files (CPU cores, GBs of RAM,        *)
(* devices).  host_reservation.bash, started by the resource's Create,     *)
(* Read and Delete handlers, claims slots for a reservation id by writing  *)
(* a marker into them, frees the slots of an id by truncating them, and    *)
(* lists them.  Scripts of several Terraform runs, on several controllers, *)
(* work on one host at once; the only thing they share is the slot files   *)
(* and an flock.                                                           *)
(*                                                                         *)
(* A script is modelled one file access at a time: what another script     *)
(* does between a read of a slot and the write that relies on it is the    *)
(* point of the module.                                                    *)
(***************************************************************************)
EXTENDS Integers, FiniteSets

CONSTANTS
  Ids,              (* Reservation ids; newResourceID never repeats one.     *)
  Procs,            (* Places for running host_reservation.bash processes.   *)
  Cpus, Gbs, Devs,  (* The slot files: cpus/unit/N, ram/gb/N, devs/<path>.   *)
  Requests,         (* What a configuration may ask for.                     *)
  Free,             (* An empty slot file.                                   *)
  Nobody,           (* No process, no reservation.                           *)
  UnlockedRelease,  (* May a release go on without the lock?  It does when   *)
                    (* flock is missing, .lock cannot be opened or the lock  *)
                    (* is not taken within LOCK_WAIT seconds.                *)
  LostCalls,        (* May the caller vanish, or its connection drop, while  *)
                    (* the script runs on?                                   *)
  WriteFaults       (* May truncating a slot file fail?                      *)

Slots == Cpus \cup Gbs \cup Devs

ASSUME SlotsAssumption ==
  /\ Slots \subseteq Nat
  /\ IsFiniteSet(Slots)
  /\ Cpus \cap Gbs = {} /\ Cpus \cap Devs = {} /\ Gbs \cap Devs = {}

ASSUME RequestsAssumption ==
  \A r \in Requests :
    r.cpus \in Nat /\ r.gbs \in Nat /\ r.devs \subseteq Nat \ (Cpus \cup Gbs)

ASSUME NamesAssumption == Free \notin Ids /\ Nobody \notin Ids \cup Procs

ASSUME SwitchesAssumption ==
  UnlockedRelease \in BOOLEAN /\ LostCalls \in BOOLEAN /\ WriteFaults \in BOOLEAN

VARIABLES
  marker,   (* Contents of each slot file: Free or the id in its first field. *)
  lock,     (* The process whose descriptor 9 holds the flock.                *)
  pc, sh,   (* Where each script is, and its shell variables.                 *)
  tf,       (* Where Terraform is with each reservation.                      *)
  st,       (* The slots Terraform's state lists for it.                      *)
  call      (* The script a handler is waiting for.                           *)

vars == <<marker, lock, pc, sh, tf, st, call>>

(***************************************************************************)
(* left: files the current loop has still to visit; claim: the claim array *)
(* of a reserve; written: its done_files; target: the file whose marker a  *)
(* release has just compared; found: the slots emitted so far.             *)
(***************************************************************************)
Modes == {"reserve", "release", "scan"}

Shell == [mode : Modes, id : Ids \cup {Nobody}, want : Requests \cup {Nobody},
          left : SUBSET Slots, claim : SUBSET Slots, written : SUBSET Slots,
          target : SUBSET Slots, found : SUBSET Slots]

Blank == [mode |-> "scan", id |-> Nobody, want |-> Nobody, left |-> {},
          claim |-> {}, written |-> {}, target |-> {}, found |-> {}]

Running == {"lock", "select", "commit", "rollback", "emit", "grep", "check", "truncate"}
Ended   == {"ok", "failed", "killed"}

(***************************************************************************)
(* "stuck" is a reservation still in the state after a failed destroy;     *)
(* "importing" and "rereading" are reads of one whose markers are not      *)
(* known to be there.                                                      *)
(***************************************************************************)
InCall == {"creating", "undoing", "reading", "rereading", "importing", "deleting"}
AtRest == {"new", "live", "stuck", "failed", "gone"}

Owned(i) == {s \in Slots : marker[s] = i}

Init ==
  /\ marker = [s \in Slots |-> Free]
  /\ lock = Nobody
  /\ pc = [p \in Procs |-> "idle"]
  /\ sh = [p \in Procs |-> Blank]
  /\ tf = [i \in Ids |-> "new"]
  /\ st = [i \in Ids |-> {}]
  /\ call = [i \in Ids |-> Nobody]

-----------------------------------------------------------------------------
(* The script *)

goto(p, label) == pc' = [pc EXCEPT ![p] = label]
assign(p, r)   == sh' = [sh EXCEPT ![p] = r]

(* Mutant: the lock outlives the process that took it. *)
ExitKeepsLock(p, outcome) ==
  LET heard == call[sh[p].id] = p
  IN  /\ goto(p, IF heard THEN outcome ELSE "idle")
      /\ IF heard THEN UNCHANGED sh ELSE assign(p, Blank)
      /\ UNCHANGED lock

(* Exit of the process: its descriptor is closed and with it the lock goes. *)
(* Nobody is left to collect the result of a script whose caller vanished.  *)
Exit(p, outcome) ==
  LET heard == call[sh[p].id] = p
  IN  /\ goto(p, IF heard THEN outcome ELSE "idle")
      /\ IF heard THEN UNCHANGED sh ELSE assign(p, Blank)
      /\ lock' = IF lock = p THEN Nobody ELSE lock

(* Mutants: a reserve too goes on without the lock; nobody gives up on it. *)
acquire_lockOptional(p) ==
  /\ pc[p] = "lock"
  /\ lock' = IF lock = Nobody THEN p ELSE lock
  /\ goto(p, IF sh[p].mode = "reserve" THEN "select" ELSE "grep")
  /\ UNCHANGED <<marker, sh, tf, st, call>>

acquire_lockNoTimeout(p) ==
  /\ pc[p] = "lock"
  /\ lock = Nobody
  /\ lock' = p
  /\ goto(p, IF sh[p].mode = "reserve" THEN "select" ELSE "grep")
  /\ UNCHANGED <<marker, sh, tf, st, call>>

(* flock -w: taken, or given up.  A reserve that gives up exits 6, a release *)
(* goes on without the lock.                                                 *)
acquire_lock(p) ==
  /\ pc[p] = "lock"
  /\ \/ /\ lock = Nobody
        /\ lock' = p
        /\ goto(p, IF sh[p].mode = "reserve" THEN "select" ELSE "grep")
        /\ UNCHANGED sh
     \/ /\ sh[p].mode = "reserve"
        /\ Exit(p, "failed")
     \/ /\ sh[p].mode = "release" /\ UnlockedRelease
        /\ goto(p, "grep")
        /\ UNCHANGED <<lock, sh>>
  /\ UNCHANGED <<marker, tf, st, call>>

(* Mutant: one slot too many. *)
LacksOne(p, S, n) == Cardinality(sh[p].claim \cap S) <= n

Lacks(p, S, n) == Cardinality(sh[p].claim \cap S) < n

IsLowest(s, S) == s \in S /\ \A t \in S : s <= t

(* Look at the lowest-numbered file of S not looked at yet; an empty one     *)
(* joins the claim.  When the files run out first, exit 4 or 5.              *)
select_free(p, S, n) ==
  /\ Lacks(p, S, n)
  /\ \/ \E s \in sh[p].left \cap S :
          /\ IsLowest(s, sh[p].left \cap S)
          /\ assign(p, [sh[p] EXCEPT !.left = @ \ {s},
                                  !.claim = IF marker[s] = Free THEN @ \cup {s} ELSE @])
          /\ UNCHANGED <<pc, lock>>
     \/ /\ sh[p].left \cap S = {}
        /\ Exit(p, "failed")

SelectCpus(p) ==
  /\ pc[p] = "select"
  /\ select_free(p, Cpus, sh[p].want.cpus)
  /\ UNCHANGED <<marker, tf, st, call>>

SelectGbs(p) ==
  /\ pc[p] = "select"
  /\ ~Lacks(p, Cpus, sh[p].want.cpus)
  /\ select_free(p, Gbs, sh[p].want.gbs)
  /\ UNCHANGED <<marker, tf, st, call>>

NumbersChosen(p) ==
  ~Lacks(p, Cpus, sh[p].want.cpus) /\ ~Lacks(p, Gbs, sh[p].want.gbs)

(* Mutant: whether another reservation holds the device is not checked. *)
SelectDevUnchecked(p) ==
  /\ pc[p] = "select"
  /\ NumbersChosen(p)
  /\ \E d \in (sh[p].want.devs \cap Devs) \ sh[p].claim :
       assign(p, [sh[p] EXCEPT !.claim = @ \cup {d}])
  /\ UNCHANGED <<marker, lock, pc, tf, st, call>>

(* A requested device without a capacity file (exit 7) or with a marker in   *)
(* it (exit 8) ends the script.                                              *)
SelectDev(p) ==
  /\ pc[p] = "select"
  /\ NumbersChosen(p)
  /\ \E d \in sh[p].want.devs \ sh[p].claim :
       \/ /\ d \in Devs /\ marker[d] = Free
          /\ assign(p, [sh[p] EXCEPT !.claim = @ \cup {d}])
          /\ UNCHANGED <<pc, lock>>
       \/ /\ d \in Devs => marker[d] # Free
          /\ Exit(p, "failed")
  /\ UNCHANGED <<marker, tf, st, call>>

BeginCommit(p) ==
  /\ pc[p] = "select"
  /\ NumbersChosen(p)
  /\ sh[p].want.devs \subseteq sh[p].claim
  /\ goto(p, "commit")
  /\ UNCHANGED <<marker, lock, sh, tf, st, call>>

Unwritten(p) == sh[p].claim \ sh[p].written

CommitWrite(p) ==
  /\ pc[p] = "commit"
  /\ \E s \in Unwritten(p) :
       /\ marker' = [marker EXCEPT ![s] = sh[p].id]
       /\ assign(p, [sh[p] EXCEPT !.written = @ \cup {s}])
  /\ UNCHANGED <<lock, pc, tf, st, call>>

(* Mutant: exit 9 without truncating what was written. *)
CommitFailNoRollback(p) ==
  /\ pc[p] = "commit"
  /\ Unwritten(p) # {}
  /\ Exit(p, "failed")
  /\ UNCHANGED <<marker, tf, st, call>>

(* The write of a marker fails: the files written so far are truncated,      *)
(* then exit 9.                                                              *)
CommitFail(p) ==
  /\ pc[p] = "commit"
  /\ Unwritten(p) # {}
  /\ goto(p, "rollback")
  /\ UNCHANGED <<marker, lock, sh, tf, st, call>>

RollbackClear(p) ==
  /\ pc[p] = "rollback"
  /\ \E s \in sh[p].written :
       /\ \/ marker' = [marker EXCEPT ![s] = Free]
          \/ WriteFaults /\ UNCHANGED marker
       /\ assign(p, [sh[p] EXCEPT !.written = @ \ {s}])
  /\ UNCHANGED <<lock, pc, tf, st, call>>

RollbackDone(p) ==
  /\ pc[p] = "rollback"
  /\ sh[p].written = {}
  /\ Exit(p, "failed")
  /\ UNCHANGED <<marker, tf, st, call>>

CommitDone(p) ==
  /\ pc[p] = "commit"
  /\ Unwritten(p) = {}
  /\ goto(p, "emit")
  /\ assign(p, [sh[p] EXCEPT !.left = Slots])
  /\ UNCHANGED <<marker, lock, tf, st, call>>

(* Mutant: the slots of every reservation are listed. *)
emit_owned_any(p) ==
  /\ pc[p] = "emit"
  /\ \E s \in sh[p].left :
       /\ IsLowest(s, sh[p].left)
       /\ assign(p, [sh[p] EXCEPT !.left = @ \ {s},
                               !.found = IF marker[s] # Free THEN @ \cup {s} ELSE @])
  /\ UNCHANGED <<marker, lock, pc, tf, st, call>>

(* The scan behind the JSON on stdout: every file is opened in turn, with no *)
(* lock when the mode is scan.                                               *)
emit_owned(p) ==
  /\ pc[p] = "emit"
  /\ \E s \in sh[p].left :
       /\ IsLowest(s, sh[p].left)
       /\ assign(p, [sh[p] EXCEPT !.left = @ \ {s},
                               !.found = IF marker[s] = sh[p].id THEN @ \cup {s} ELSE @])
  /\ UNCHANGED <<marker, lock, pc, tf, st, call>>

EmitDone(p) ==
  /\ pc[p] = "emit"
  /\ sh[p].left = {}
  /\ Exit(p, "ok")
  /\ UNCHANGED <<marker, tf, st, call>>

(* grep -rlF: the files that mention the id. *)
ReleaseGrep(p) ==
  /\ pc[p] = "grep"
  /\ goto(p, "check")
  /\ assign(p, [sh[p] EXCEPT !.left = Owned(sh[p].id)])
  /\ UNCHANGED <<marker, lock, tf, st, call>>

(* marker_id "$f" = "$id" ... *)
ReleaseCheck(p) ==
  /\ pc[p] = "check"
  /\ \E s \in sh[p].left :
       IF marker[s] = sh[p].id
         THEN /\ assign(p, [sh[p] EXCEPT !.target = {s}])
              /\ goto(p, "truncate")
         ELSE /\ assign(p, [sh[p] EXCEPT !.left = @ \ {s}])
              /\ UNCHANGED pc
  /\ UNCHANGED <<marker, lock, tf, st, call>>

(* ... and only then : >"$f", whatever the file holds by now. *)
ReleaseTruncate(p) ==
  /\ pc[p] = "truncate"
  /\ \E s \in sh[p].target :
       /\ \/ marker' = [marker EXCEPT ![s] = Free]
          \/ WriteFaults /\ UNCHANGED marker
       /\ assign(p, [sh[p] EXCEPT !.left = @ \ {s}, !.target = {}])
  /\ goto(p, "check")
  /\ UNCHANGED <<lock, tf, st, call>>

(* Mutant: the loop over the files ends with the first one. *)
ReleaseDoneEarly(p) ==
  /\ pc[p] = "check"
  /\ Exit(p, "ok")
  /\ UNCHANGED <<marker, tf, st, call>>

ReleaseDone(p) ==
  /\ pc[p] = "check"
  /\ sh[p].left = {}
  /\ Exit(p, "ok")
  /\ UNCHANGED <<marker, tf, st, call>>

(* The process is killed, or the host goes down under it. *)
Crash(p) ==
  /\ pc[p] \in Running
  /\ Exit(p, "killed")
  /\ UNCHANGED <<marker, tf, st, call>>

ScriptStep(p) ==
  \/ acquire_lock(p)
  \/ SelectCpus(p) \/ SelectGbs(p) \/ SelectDev(p)
  \/ BeginCommit(p) \/ CommitWrite(p) \/ CommitFail(p) \/ CommitDone(p)
  \/ RollbackClear(p) \/ RollbackDone(p)
  \/ emit_owned(p) \/ EmitDone(p)
  \/ ReleaseGrep(p) \/ ReleaseCheck(p) \/ ReleaseTruncate(p) \/ ReleaseDone(p)

-----------------------------------------------------------------------------
(* The resource's handlers *)

(* Mutant: the id is left out of the script's environment. *)
runScriptNoId(i, p, mode, want) ==
  /\ pc[p] = "idle"
  /\ goto(p, IF mode = "scan" THEN "emit" ELSE "lock")
  /\ assign(p, [Blank EXCEPT !.mode = mode, !.want = want, !.left = Slots])
  /\ call' = [call EXCEPT ![i] = p]

runScript(i, p, mode, want) ==
  /\ pc[p] = "idle"
  /\ goto(p, IF mode = "scan" THEN "emit" ELSE "lock")
  /\ assign(p, [Blank EXCEPT !.mode = mode, !.id = i, !.want = want, !.left = Slots])
  /\ call' = [call EXCEPT ![i] = p]

Enter(i, from, to) ==
  /\ tf[i] = from
  /\ tf' = [tf EXCEPT ![i] = to]

(* The result of the awaited script is taken and its process place freed. *)
Collect(i) ==
  LET p == call[i]
  IN  /\ p # Nobody
      /\ pc[p] \in Ended
      /\ goto(p, "idle")
      /\ assign(p, Blank)
      /\ call' = [call EXCEPT ![i] = Nobody]

Outcome(i) == pc[call[i]]
Found(i)   == sh[call[i]].found

(* A Create that fails before it runs the script writes no marker. *)
Create(i) ==
  \/ /\ Enter(i, "new", "creating")
     /\ \E p \in Procs, r \in Requests : runScript(i, p, "reserve", r)
     /\ UNCHANGED <<marker, lock, st>>
  \/ /\ Enter(i, "new", "failed")
     /\ UNCHANGED <<marker, lock, pc, sh, st, call>>

CreateSucceeds(i) ==
  /\ Enter(i, "creating", "live")
  /\ Collect(i)
  /\ Outcome(i) = "ok"
  /\ st' = [st EXCEPT ![i] = Found(i)]
  /\ UNCHANGED <<marker, lock>>

(* Output that does not parse: release what the script may have written. *)
CreateUndoes(i) ==
  /\ Enter(i, "creating", "undoing")
  /\ LET p == call[i]
     IN  /\ p # Nobody /\ pc[p] = "ok"
         /\ goto(p, "lock")
         /\ assign(p, [Blank EXCEPT !.mode = "release", !.id = i, !.left = Slots])
  /\ UNCHANGED <<marker, lock, st, call>>

CreateUndone(i) ==
  /\ Enter(i, "undoing", "failed")
  /\ Collect(i)
  /\ UNCHANGED <<marker, lock, st>>

(* Mutant: the error of the script is dropped. *)
CreateFailsUnnoticed(i) ==
  /\ Enter(i, "creating", "live")
  /\ Collect(i)
  /\ st' = [st EXCEPT ![i] = sh[call[i]].claim]
  /\ UNCHANGED <<marker, lock>>

CreateFails(i) ==
  /\ Enter(i, "creating", "failed")
  /\ Collect(i)
  /\ Outcome(i) # "ok"
  /\ UNCHANGED <<marker, lock, st>>

(* Read also runs right after an import of an id nobody has in the state. *)
Read(i) ==
  /\ \/ Enter(i, "live", "reading")
     \/ Enter(i, "stuck", "rereading")
     \/ Enter(i, "failed", "importing")
     \/ Enter(i, "gone", "importing")
  /\ \E p \in Procs : runScript(i, p, "scan", Nobody)
  /\ UNCHANGED <<marker, lock, st>>

ReadsOf == {"reading", "rereading", "importing"}

(* The state is left alone when a read fails. *)
BeforeRead(status) ==
  CASE status = "reading"   -> "live"
    [] status = "rereading" -> "stuck"
    [] OTHER                -> "gone"

ReadSucceeds(i) ==
  /\ tf[i] \in ReadsOf
  /\ Collect(i)
  /\ Outcome(i) = "ok"
  /\ IF Found(i) = {} THEN tf' = [tf EXCEPT ![i] = "gone"]      (* RemoveResource *)
                      ELSE tf' = [tf EXCEPT ![i] = "live"]
  /\ st' = [st EXCEPT ![i] = Found(i)]
  /\ UNCHANGED <<marker, lock>>

ReadFails(i) ==
  /\ tf[i] \in ReadsOf
  /\ Collect(i)
  /\ tf' = [tf EXCEPT ![i] = BeforeRead(@)]
  /\ UNCHANGED <<marker, lock, st>>

Delete(i) ==
  /\ Enter(i, "live", "deleting") \/ Enter(i, "stuck", "deleting")
  /\ \E p \in Procs : runScript(i, p, "release", Nobody)
  /\ UNCHANGED <<marker, lock, st>>

(* A release that failed is only a warning; the resource stays in the state  *)
(* when its directory cannot be removed.                                     *)
DeleteReturns(i) ==
  /\ Enter(i, "deleting", "gone") \/ Enter(i, "deleting", "stuck")
  /\ Collect(i)
  /\ st' = [st EXCEPT ![i] = IF tf'[i] = "gone" THEN {} ELSE @]
  /\ UNCHANGED <<marker, lock>>

(* The connection drops or the provider dies during the call. *)
LoseCall(i) ==
  /\ LostCalls
  /\ call[i] # Nobody /\ pc[call[i]] \in Running
  /\ call' = [call EXCEPT ![i] = Nobody]
  /\ tf' = [tf EXCEPT ![i] = CASE @ \in {"creating", "undoing"} -> "failed"
                               [] @ \in ReadsOf -> BeforeRead(@)
                               [] OTHER -> "stuck"]
  /\ UNCHANGED <<marker, lock, pc, sh, st>>

Return(i) ==
  \/ CreateSucceeds(i) \/ CreateUndoes(i) \/ CreateUndone(i) \/ CreateFails(i)
  \/ ReadSucceeds(i) \/ ReadFails(i) \/ DeleteReturns(i)

Next ==
  \/ \E p \in Procs : ScriptStep(p) \/ Crash(p)
  \/ \E i \in Ids : Create(i) \/ Read(i) \/ Delete(i) \/ Return(i) \/ LoseCall(i)

Spec == Init /\ [][Next]_vars

(***************************************************************************)
(* A script that is not killed runs to its end (each of its steps is a     *)
(* shell command, the wait for the lock is bounded by -w), and a handler   *)
(* goes on once the script it waits for has ended.  Nothing makes anyone   *)
(* start a create, a read or a destroy.                                    *)
(***************************************************************************)
Fairness ==
  /\ \A p \in Procs : WF_vars(ScriptStep(p))
  /\ \A i \in Ids : WF_vars(Return(i))

FairSpec == Spec /\ Fairness

-----------------------------------------------------------------------------
(* Properties *)

TypeOK ==
  /\ marker \in [Slots -> Ids \cup {Free}]
  /\ lock \in Procs \cup {Nobody}
  /\ pc \in [Procs -> {"idle"} \cup Running \cup Ended]
  /\ sh \in [Procs -> Shell]
  /\ \A p \in Procs : pc[p] # "idle" => sh[p].id \in Ids
  /\ tf \in [Ids -> InCall \cup AtRest]
  /\ st \in [Ids -> SUBSET Slots]
  /\ call \in [Ids -> Procs \cup {Nobody}]

(***************************************************************************)
(* What a reserve selected as free is still free when it comes to writing  *)
(* it: do_reserve decides on all slots before it writes the first.         *)
(***************************************************************************)
ClaimsStayFree ==
  \A p \in Procs : pc[p] \in {"select", "commit"} =>
    \A s \in Unwritten(p) : marker[s] = Free

(***************************************************************************)
(* A slot file is written only when it is empty, and truncated only by a   *)
(* script of the reservation it is marked with: nobody loses a slot to     *)
(* another reservation's reserve, rollback or release.                     *)
(***************************************************************************)
SlotTaken(s) == marker[s] = Free /\ marker'[s] # Free

SlotFreedByOwner(s) ==
  /\ marker[s] # Free /\ marker'[s] = Free
  /\ \E p \in Procs : /\ pc[p] \in {"rollback", "truncate"}
                      /\ sh[p].id = marker[s] /\ sh'[p] # sh[p]

OnlyOwnMarkers ==
  [][\A s \in Slots : marker'[s] # marker[s] => SlotTaken(s) \/ SlotFreedByOwner(s)]_vars

(***************************************************************************)
(* The slots Terraform's state lists for a reservation that nobody is      *)
(* destroying are exactly the slots marked with its id: none was lost to   *)
(* another reservation, and none is held that the state does not show.     *)
(***************************************************************************)
Tracked(i) == tf[i] \in {"live", "reading"}

StateExact == \A i \in Ids : Tracked(i) => st[i] = Owned(i)

(***************************************************************************)
(* What Terraform's users rely on: CapacityLedger, an exclusive allocation *)
(* in which a claim and its release are single steps.                      *)
(***************************************************************************)
Ledger == INSTANCE CapacityLedger
            WITH held <- [i \in Ids |-> IF Tracked(i) THEN st[i] ELSE {}]

ExclusiveAllocation == Ledger!Spec

(***************************************************************************)
(* A reserve that exits 0 printed exactly what it claimed, and that is     *)
(* what was asked for.                                                     *)
(***************************************************************************)
ReserveExact ==
  \A p \in Procs : pc[p] = "ok" /\ sh[p].mode = "reserve" =>
    /\ sh[p].found = sh[p].claim
    /\ Cardinality(sh[p].found \cap Cpus) = sh[p].want.cpus
    /\ Cardinality(sh[p].found \cap Gbs) = sh[p].want.gbs
    /\ sh[p].found \cap Devs = sh[p].want.devs

(***************************************************************************)
(* All or nothing: a reserve that exits with an error, and a release that  *)
(* exits 0, leave no marker of their reservation.                          *)
(***************************************************************************)
NothingLeft ==
  ~WriteFaults =>
    \A p \in Procs :
      \/ pc[p] = "failed" /\ sh[p].mode = "reserve"
      \/ pc[p] = "ok" /\ sh[p].mode = "release"
      => Owned(sh[p].id) = {}

(***************************************************************************)
(* The comment in Create: after an error of the script no host markers     *)
(* remain.  It does not hold when the error is the loss of the script.     *)
(***************************************************************************)
NoMarkersAfterFailedCreate ==
  \A i \in Ids : tf[i] = "failed" /\ (\A p \in Procs : sh[p].id # i) => Owned(i) = {}

(***************************************************************************)
(* Every call of a handler comes to an end, whoever else wants the lock.   *)
(***************************************************************************)
CallsReturn == \A i \in Ids : tf[i] \in InCall ~> tf[i] \in AtRest

(***************************************************************************)
(* Nobody keeps the lock: the wait of the others is bounded.               *)
(***************************************************************************)
LockIsReleased == \A p \in Procs : lock = p ~> lock # p
=============================================================================
