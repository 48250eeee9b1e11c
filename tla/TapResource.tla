---------------------------- MODULE TapResource ----------------------------
(***************************************************************************)
(* A TAP interface, its resource and its mover.  A TAP that belongs in a   *)
(* network namespace is made in the default one, where QEMU opens it; the  *)
(* mover, a process of the provider's binary, waits for the link event of  *)
(* that, moves the TAP, configures it there and writes a status file.      *)
(* Terraform's operations read that file to know where to look.  Handlers  *)
(* and mover are lists of steps still to do, one command or file each.     *)
(***************************************************************************)
EXTENDS Naturals, Sequences

CONSTANTS
    TapAsked,       \* the configurations: which settings each gives
    TapFaults       \* what may fail although it could be done: commands, "stop" the
                    \* stopping of the mover, "look" the reading of its status

TapSettings == {"mtu", "master", "state", "addr"}

ASSUME TapAssumption == /\ TapAsked \subseteq SUBSET TapSettings
                        /\ TapFaults \subseteq {"add", "back", "delete", "nomaster", "mover", "status", "stop", "look"}
                                             \cup TapSettings

VARIABLES
    inNs,       \* the configuration has a netns
    asked,      \* the settings it gives
    tap,        \* the link: its namespace, or "none", and its settings in effect
    netnsUp,    \* the namespace exists
    tapDir,     \* the files of the resource: directory, mover_pid, mover_status
    mover,      \* what the mover has still to do; whether a Delete has come to
                \* stop it, and an ip command of its outlived it
    tapSaved,   \* Terraform's state of the resource
    tapOp       \* the operation: its steps to do, the status it read, and whether
                \* it went on after an error of stopping the mover or moving back

tapVars == <<inNs, asked, tap, netnsUp, tapDir, mover, tapSaved, tapOp>>

TapGone    == [at |-> "none", set |-> {}]
NoFiles    == [dir |-> FALSE, pid |-> FALSE, status |-> "none"]
Unsaved    == [known |-> FALSE, tainted |-> FALSE, mover |-> "", set |-> {}]
TapIdle(n) == [name |-> n, todo |-> <<>>, status |-> "", ignored |-> FALSE]

TapInit ==
    /\ inNs \in BOOLEAN
    /\ asked \in TapAsked
    /\ tap = TapGone
    /\ netnsUp = TRUE
    /\ tapDir = NoFiles
    /\ mover = [todo |-> <<>>, stopped |-> FALSE, orphan |-> FALSE]
    /\ tapSaved = Unsaved
    /\ tapOp = TapIdle("new")

IfAsked(s)     == IF s \in asked THEN <<s>> ELSE <<>>
TapDo(s)       == tapOp.todo # <<>> /\ Head(tapOp.todo) = s
TapGoOn        == tapOp' = [tapOp EXCEPT !.todo = Tail(@)]
TapGoOnAnyway  == tapOp' = [tapOp EXCEPT !.todo = Tail(@), !.ignored = TRUE]
TapEnd(name)   == tapOp' = TapIdle(name)
TapReady       == tapOp.todo = <<>>
MoverDo(s)     == mover.todo # <<>> /\ Head(mover.todo) = s

-----------------------------------------------------------------------------
(* Create.  In the default namespace it configures the TAP itself and      *)
(* reads it back; for a namespace it leaves all but the MTU to the mover.  *)
TapCreate ==
    /\ tapOp = TapIdle("new")
    /\ tapDir' = [tapDir EXCEPT !.dir = TRUE]
    /\ tapOp' = [TapIdle("create") EXCEPT
                   !.todo = <<"add">> \o IfAsked("mtu") \o
                            (IF inNs THEN <<"mover">>
                             ELSE IfAsked("master") \o IfAsked("state") \o IfAsked("addr")
                                    \o <<"show", "addrs">>)]
    /\ UNCHANGED <<inNs, asked, tap, netnsUp, mover, tapSaved>>

(* Any error ends the operation: what was made so far stays, unknown to    *)
(* Terraform if the operation is Create.                                   *)
TapFail ==
    /\ tapOp.todo # <<>> /\ Head(tapOp.todo) \in TapFaults
    /\ TapEnd("failed")
    /\ UNCHANGED <<inNs, asked, tap, netnsUp, tapDir, mover, tapSaved>>

TapAdd ==
    /\ TapDo("add")
    /\ tap' = [at |-> "default", set |-> {}]
    /\ TapGoOn
    /\ UNCHANGED <<inNs, asked, netnsUp, tapDir, mover, tapSaved>>

TapSet(s) ==
    /\ TapDo(s) /\ tapOp.name = "create"
    /\ IF tap.at = "default"
       THEN tap' = [tap EXCEPT !.set = @ \cup {s}] /\ TapGoOn
       ELSE TapEnd("failed") /\ UNCHANGED tap
    /\ UNCHANGED <<inNs, asked, netnsUp, tapDir, mover, tapSaved>>

MoverSettings == IfAsked("master") \o IfAsked("addr") \o IfAsked("state")

(* Mutant: the status is written before the TAP is moved and configured. *)
MoverSteps_status_first ==
    <<"pid", "config", "subscribe", "event", "status", "move">> \o MoverSettings

MoverSteps == <<"pid", "config", "subscribe", "event", "move">> \o MoverSettings \o <<"status">>

(* The resource is saved without being read back.  mtu and state, computed *)
(* when they are not given, are then unknown after the apply: Terraform    *)
(* reports that as an error and marks the resource to be replaced.         *)
StartTAPMover ==
    /\ TapDo("mover")
    /\ mover' = [mover EXCEPT !.todo = MoverSteps]
    /\ \/ /\ TapEnd("create")
          /\ tapSaved' = [known |-> TRUE, tainted |-> ~({"mtu", "state"} \subseteq asked),
                          mover |-> "pending", set |-> asked]
       \/ "mover" \in TapFaults /\ TapEnd("failed") /\ UNCHANGED tapSaved
    /\ UNCHANGED <<inNs, asked, tap, netnsUp, tapDir>>

-----------------------------------------------------------------------------
(* Read.  Where to look is settled by the status file, before looking.     *)
TapRead ==
    /\ TapReady /\ tapSaved.known
    /\ tapOp' = [TapIdle("read") EXCEPT
                   !.todo = (IF inNs THEN <<"status">> ELSE <<>>) \o <<"show", "addrs">>]
    /\ UNCHANGED <<inNs, asked, tap, netnsUp, tapDir, mover, tapSaved>>

MoverStatus ==
    CASE tapDir.status \in {"moved", "error"} -> tapDir.status
      [] tapDir.status = "empty" -> "pending"
      [] OTHER -> IF tapDir.pid THEN "pending" ELSE ""

(* A status that cannot be read counts as none, a PID file likewise.       *)
MoverUnread == IF "look" \notin TapFaults THEN {} ELSE IF tapDir.pid THEN {"pending", ""} ELSE {""}

ReadMoverStatus ==
    /\ TapDo("status")
    /\ \E status \in {MoverStatus} \cup MoverUnread :
         tapOp' = [tapOp EXCEPT !.todo = Tail(@), !.status = status]
    /\ UNCHANGED <<inNs, asked, tap, netnsUp, tapDir, mover, tapSaved>>

LookIn == IF tapOp.status = "moved" THEN "netns" ELSE "default"

(* A TAP that is not found is dropped from the state by Read.  When the    *)
(* namespace is missing the message of ip is not one of those that count.  *)
TapNotThere ==
    /\ IF tapOp.name = "read" /\ (LookIn = "netns" => netnsUp)
       THEN TapEnd("read") /\ tapSaved' = Unsaved
       ELSE TapEnd("failed") /\ UNCHANGED tapSaved

ShowLink ==
    /\ TapDo("show")
    /\ IF tap.at = LookIn THEN TapGoOn /\ UNCHANGED tapSaved ELSE TapNotThere
    /\ UNCHANGED <<inNs, asked, tap, netnsUp, tapDir, mover>>

(* What is not applied yet is not reported as drift.                       *)
(* Mutant: what is not applied yet is reported like what is.             *)
Reported_as_is == tap.set

Reported ==
    IF inNs /\ tapOp.status # "moved"
    THEN (tapSaved.set \ {"mtu"}) \cup (tap.set \cap {"mtu"})
    ELSE tap.set

ShowAddresses ==
    /\ TapDo("addrs")
    /\ IF tap.at = LookIn
       THEN /\ tapSaved' = [known |-> TRUE, tainted |-> tapSaved.tainted,
                            mover |-> tapOp.status, set |-> Reported]
            /\ TapEnd(tapOp.name)
       ELSE TapNotThere
    /\ UNCHANGED <<inNs, asked, tap, netnsUp, tapDir, mover>>

(* Update refuses: a change that does not replace the TAP is an error.     *)

-----------------------------------------------------------------------------
(* Delete.  Errors of stopping the mover and of moving the TAP back are    *)
(* ignored, a TAP that is not found counts as deleted.                     *)
(* Mutant: Delete looks for the TAP in the default namespace only.       *)
TapDelete_without_back ==
    /\ TapReady /\ tapSaved.known
    /\ tapOp' = [TapIdle("delete") EXCEPT
                   !.todo = (IF inNs THEN <<"stop">> ELSE <<>>) \o
                            (IF "master" \in tapSaved.set THEN <<"nomaster">> ELSE <<>>) \o
                            <<"delete", "remove">>]
    /\ UNCHANGED <<inNs, asked, tap, netnsUp, tapDir, mover, tapSaved>>

TapDelete ==
    /\ TapReady /\ tapSaved.known
    /\ tapOp' = [TapIdle("delete") EXCEPT
                   !.todo = (IF inNs THEN <<"stop", "back">> ELSE <<>>) \o
                            (IF "master" \in tapSaved.set THEN <<"nomaster">> ELSE <<>>) \o
                            <<"delete", "remove">>]
    /\ UNCHANGED <<inNs, asked, tap, netnsUp, tapDir, mover, tapSaved>>

(* SIGKILL to the PID in the file, which RunDetached's wait gave the mover  *)
(* time to write.  An ip command the mover is waiting for is a process of  *)
(* its own and is carried out.  Delete goes on when the file cannot be read *)
(* or the signal not be sent, and so does the mover.                       *)
IpCommands == {"move", "master", "addr", "state"}

StopTAPMover ==
    /\ TapDo("stop") /\ ~MoverDo("pid")
    /\ \/ /\ tapDir.pid /\ \E ip \in IpCommands : MoverDo(ip)
          /\ mover' = [todo |-> <<Head(mover.todo)>>, stopped |-> TRUE, orphan |-> TRUE]
          /\ TapGoOn
       \/ /\ mover' = [mover EXCEPT !.stopped = TRUE, !.todo = IF tapDir.pid THEN <<>> ELSE @]
          /\ TapGoOn
       \/ /\ "stop" \in TapFaults
          /\ mover' = [mover EXCEPT !.stopped = TRUE]
          /\ TapGoOnAnyway
    /\ UNCHANGED <<inNs, asked, tap, netnsUp, tapDir, tapSaved>>

(* The kernel takes addresses and master off a link that changes namespace.*)
Carried == tap.set \cap {"mtu"}

MoveBack ==
    /\ TapDo("back")
    /\ \/ /\ tap' = IF tap.at = "netns" THEN [at |-> "default", set |-> Carried] ELSE tap
          /\ TapGoOn
       \/ "back" \in TapFaults /\ UNCHANGED tap /\ TapGoOnAnyway
    /\ UNCHANGED <<inNs, asked, netnsUp, tapDir, mover, tapSaved>>

NoMaster ==
    /\ TapDo("nomaster")
    /\ tap' = IF tap.at = "default" THEN [tap EXCEPT !.set = @ \ {"master"}] ELSE tap
    /\ TapGoOn
    /\ UNCHANGED <<inNs, asked, netnsUp, tapDir, mover, tapSaved>>

DeleteTAP ==
    /\ TapDo("delete")
    /\ tap' = IF tap.at = "default" THEN TapGone ELSE tap
    /\ TapGoOn
    /\ UNCHANGED <<inNs, asked, netnsUp, tapDir, mover, tapSaved>>

RemoveTapDir ==
    /\ TapDo("remove")
    /\ tapDir' = NoFiles
    /\ tapSaved' = Unsaved
    /\ tapOp' = [TapIdle("deleted") EXCEPT !.ignored = tapOp.ignored]
    /\ UNCHANGED <<inNs, asked, tap, netnsUp, mover>>

-----------------------------------------------------------------------------
(* The mover.                                                              *)
MoverGoesOn == mover' = [mover EXCEPT !.todo = Tail(@)]
MoverErrs   == mover' = [mover EXCEPT !.todo = IF mover.orphan THEN <<>> ELSE <<"error">>]
MoverEnds   == mover' = [mover EXCEPT !.todo = <<>>]

(* It ends when it cannot write its PID or read its configuration, and     *)
(* with an error in the status file when it cannot subscribe.              *)
MoverBegins ==
    /\ \/ /\ MoverDo("pid")
          /\ tapDir' = [tapDir EXCEPT !.pid = tapDir.dir]
          /\ IF tapDir.dir THEN MoverGoesOn ELSE MoverEnds
       \/ /\ MoverDo("config")
          /\ IF tapDir.dir THEN MoverGoesOn ELSE MoverEnds
          /\ UNCHANGED tapDir
       \/ /\ MoverDo("subscribe")
          /\ MoverGoesOn \/ MoverErrs
          /\ UNCHANGED tapDir
    /\ UNCHANGED <<inNs, asked, tap, netnsUp, tapSaved, tapOp>>

(* An event of the TAP; those before the subscription are not seen.        *)
LinkEvent ==
    /\ MoverDo("event")
    /\ MoverGoesOn
    /\ UNCHANGED <<inNs, asked, tap, netnsUp, tapDir, tapSaved, tapOp>>

(* Mutant: the wait for the link event has no timeout.                   *)
WaitTimesOut_never == FALSE /\ UNCHANGED tapVars

WaitTimesOut ==
    /\ MoverDo("event")
    /\ MoverErrs
    /\ UNCHANGED <<inNs, asked, tap, netnsUp, tapDir, tapSaved, tapOp>>

MoveTAP ==
    /\ MoverDo("move")
    /\ \/ /\ tap.at = "default" /\ netnsUp
          /\ tap' = [at |-> "netns", set |-> Carried]
          /\ MoverGoesOn
       \/ /\ tap.at # "default" \/ ~netnsUp
          /\ MoverErrs
          /\ UNCHANGED tap
    /\ UNCHANGED <<inNs, asked, netnsUp, tapDir, tapSaved, tapOp>>

ConfigureTAP(s) ==
    /\ MoverDo(s)
    /\ \/ /\ tap.at = "netns"
          /\ tap' = [tap EXCEPT !.set = @ \cup {s}]
          /\ MoverGoesOn
       \/ /\ tap.at # "netns" \/ s \in TapFaults
          /\ MoverErrs
          /\ UNCHANGED tap
    /\ UNCHANGED <<inNs, asked, netnsUp, tapDir, tapSaved, tapOp>>

(* The file is truncated and then written; either may fail.                *)
TruncateStatus ==
    /\ mover.todo # <<>> /\ Head(mover.todo) \in {"status", "error"}
    /\ \/ /\ tapDir.dir
          /\ tapDir' = [tapDir EXCEPT !.status = "empty"]
          /\ mover' = [mover EXCEPT !.todo =
                         <<IF MoverDo("status") THEN "moved" ELSE "failed">> \o Tail(@)]
       \/ /\ ~tapDir.dir \/ "status" \in TapFaults
          /\ MoverGoesOn
          /\ UNCHANGED tapDir
    /\ UNCHANGED <<inNs, asked, tap, netnsUp, tapSaved, tapOp>>

WriteStatus ==
    /\ mover.todo # <<>> /\ Head(mover.todo) \in {"moved", "failed"}
    /\ tapDir' = IF tapDir.dir
                 THEN [tapDir EXCEPT !.status = IF MoverDo("moved") THEN "moved" ELSE "error"]
                 ELSE tapDir
    /\ MoverGoesOn
    /\ UNCHANGED <<inNs, asked, tap, netnsUp, tapSaved, tapOp>>

MoverStep ==
    \/ MoverBegins \/ WaitTimesOut \/ MoveTAP
    \/ \E s \in {"master", "addr", "state"} : ConfigureTAP(s)
    \/ TruncateStatus \/ WriteStatus

-----------------------------------------------------------------------------
(* Somebody removes the TAP, or the namespace with the TAP in it.          *)
LoseTAP ==
    /\ tap.at # "none"
    /\ tap' = TapGone
    /\ UNCHANGED <<inNs, asked, netnsUp, tapDir, mover, tapSaved, tapOp>>

LoseNetNS ==
    /\ inNs /\ netnsUp
    /\ netnsUp' = FALSE
    /\ tap' = IF tap.at = "netns" THEN TapGone ELSE tap
    /\ UNCHANGED <<inNs, asked, tapDir, mover, tapSaved, tapOp>>

TapOperation ==
    \/ TapCreate \/ TapRead \/ TapDelete \/ TapFail
    \/ TapAdd \/ (\E s \in TapSettings : TapSet(s)) \/ StartTAPMover
    \/ ReadMoverStatus \/ ShowLink \/ ShowAddresses
    \/ StopTAPMover \/ MoveBack \/ NoMaster \/ DeleteTAP \/ RemoveTapDir

TapNext == TapOperation \/ MoverStep \/ LinkEvent \/ LoseTAP \/ LoseNetNS

(* The mover runs, and its wait has a timeout.                             *)
TapFairness == WF_tapVars(MoverStep)

TapSpec == TapInit /\ [][TapNext]_tapVars /\ TapFairness

-----------------------------------------------------------------------------
TapSteps == {"add", "mover", "show", "addrs", "status", "stop", "back", "nomaster", "delete", "remove"}
               \cup TapSettings
MoverTodo == {"pid", "config", "subscribe", "event", "move", "status", "error", "moved", "failed"}
               \cup TapSettings
Statuses == {"", "pending", "moved", "error"}

(* The variables keep their types.                                         *)
TapTypeOK ==
    /\ inNs \in BOOLEAN
    /\ asked \in SUBSET TapSettings
    /\ tap \in [at : {"none", "default", "netns"}, set : SUBSET TapSettings]
    /\ netnsUp \in BOOLEAN
    /\ tapDir \in [dir : BOOLEAN, pid : BOOLEAN, status : {"none", "empty", "moved", "error"}]
    /\ mover \in [todo : Seq(MoverTodo), stopped : BOOLEAN, orphan : BOOLEAN]
    /\ tapSaved \in [known : BOOLEAN, tainted : BOOLEAN, mover : Statuses, set : SUBSET TapSettings]
    /\ tapOp \in [name : {"new", "create", "read", "delete", "failed", "deleted"},
                  todo : Seq(TapSteps), status : Statuses, ignored : BOOLEAN]

(* What the status file says "moved" of is true, unless a Delete has begun *)
(* to take it back: the TAP is in its namespace and has every setting of   *)
(* the configuration there (moveTAP configures it after the move, for the  *)
(* kernel flushes it).  All of Read rests on this.                         *)
TapMovedIsDone ==
    tapDir.status = "moved" /\ ~mover.stopped /\ tap.at # "none"
        => tap.at = "netns" /\ asked \subseteq tap.set

(* Read reports no drift that is only a mover not being done: until the    *)
(* status is "moved", the state keeps what was asked for.                  *)
TapNoEarlyDrift ==
    inNs /\ tapSaved.known /\ tapSaved.mover # "moved"
        => tapSaved.set = asked \cup (tapSaved.set \cap {"mtu"})

(* A Delete that succeeds leaves no TAP, in neither namespace and wherever *)
(* the mover was, but for two cases: Delete went on after an error, of     *)
(* stopping the mover or of moving the TAP back; or the mover was killed   *)
(* while its ip was already on the way, and that moves the TAP after       *)
(* Delete looked for it.                                                   *)
TapDeleteLeavesNone ==
    tapOp.name = "deleted" => tap.at = "none" \/ mover.orphan \/ tapOp.ignored

(* A mover that was started comes to an end, link event or not.            *)
TapMoverEnds == mover.todo # <<>> ~> mover.todo = <<>>
=============================================================================
