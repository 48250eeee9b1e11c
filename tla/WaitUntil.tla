----------------------------- MODULE WaitUntil -----------------------------
(***************************************************************************)
(* zedamigo_wait_until: runs a script on the target until it exits 0, with *)
(* a budget for each attempt and one for the whole wait.  An attempt that  *)
(* is abandoned runs on and writes to its log directory; directories of    *)
(* attempts that are over are pruned.  Time is counted in units and the    *)
(* timers fire on time.                                                    *)
(***************************************************************************)
EXTENDS Integers, Sequences, FiniteSets, SequencesExt

CONSTANTS
    WaitTimeout, WaitInterval,   \* timeout and interval
    AttemptTimeout,              \* attempt_timeout; 0 when it is not set
    RetainLogs                   \* waitUntilRetainLogs

ASSUME WaitAssumption == /\ WaitTimeout \in Nat \ {0} /\ WaitInterval \in Nat \ {0}
                         /\ AttemptTimeout \in Nat /\ RetainLogs \in Nat

VARIABLES
    waitAt,        \* where waitForScript is; "none" before Create, "over" after it
    waitClock,     \* time since start
    waitTimer,     \* when the timer of the attempt, or of the sleep, fires
    attempt,       \* number of the last attempt
    running,       \* attempts whose process runs on the target
    abandoned,     \* attempts that were given up
    completed,     \* the log directories that may be pruned, by attempt
    pruned,        \* the log directories that were
    waitSaved,     \* the resource in Terraform's state
    waitSummary    \* what the summary file next to the script says

waitVars == <<waitAt, waitClock, waitTimer, attempt, running, abandoned, completed, pruned, waitSaved, waitSummary>>

WaitInit ==
    /\ waitAt = "none" /\ waitClock = 0 /\ waitTimer = 0
    /\ attempt = 0 /\ running = {} /\ abandoned = {}
    /\ completed = <<>> /\ pruned = {}
    /\ waitSaved = "absent" /\ waitSummary = "none"

Remaining == WaitTimeout - waitClock
AtMost(n, bound) == IF n < bound THEN n ELSE bound

(* That the summary cannot be written is not an error.                     *)
writeSummary(outcome) == waitSummary' \in {outcome, "none"}

(* The end of waitForScript and of Create: nothing is saved after an error.*)
WaitReturns(outcome) ==
    /\ waitAt' = "over"
    /\ writeSummary(outcome)
    /\ waitSaved' = IF outcome = "succeeded" THEN "saved" ELSE "failed"

(* A result, and what classifyProbe takes it for.  Only the exit status    *)
(* tells an answer from a script that could not be run; one that was       *)
(* killed by a signal has status 0 and an error, if it ran behind ssh.     *)
ProbeResults == [error : BOOLEAN, exit : {0, 1}] \ {[error |-> FALSE, exit |-> 1]}

classifyProbe(res) ==
    CASE ~res.error -> "ready"
      [] res.error /\ res.exit # 0 -> "not-ready"
      [] OTHER -> "exec-error"

-----------------------------------------------------------------------------
(* Create: the configuration, the directory and the script on the target.  *)
(* Any of it may fail: an interpreter that is not there, a duration of an  *)
(* edited state.                                                           *)
WaitCreate ==
    /\ waitAt = "none"
    /\ \/ waitAt' = "next" /\ UNCHANGED waitSaved
       \/ waitAt' = "over" /\ waitSaved' = "failed"
    /\ UNCHANGED <<waitClock, waitTimer, attempt, running, abandoned, completed, pruned, waitSummary>>

RunProbe ==
    /\ waitAt = "next" /\ Remaining > 0
    /\ waitAt' = "probing"
    /\ attempt' = attempt + 1
    /\ running' = running \cup {attempt'}
    /\ waitTimer' = waitClock + (IF AttemptTimeout > 0 THEN AtMost(AttemptTimeout, Remaining) ELSE Remaining)
    /\ UNCHANGED <<waitClock, abandoned, completed, pruned, waitSaved, waitSummary>>

(* Mutants: the oldest goes first; the interval is slept to its end.       *)
pruneAttemptLogs_oldest(dirs) ==
    IF RetainLogs = 0 \/ Len(dirs) <= RetainLogs + 1
    THEN completed' = dirs /\ UNCHANGED pruned
    ELSE completed' = Tail(dirs) /\ pruned' = pruned \cup {dirs[1]}

SleepFor_interval == WaitInterval

(* The first directory is spared.  One that could not be removed is not    *)
(* tried again.                                                            *)
pruneAttemptLogs(dirs) ==
    IF RetainLogs = 0 \/ Len(dirs) <= RetainLogs + 1
    THEN completed' = dirs /\ UNCHANGED pruned
    ELSE completed' = RemoveAt(dirs, 2) /\ pruned' = pruned \cup {dirs[2]}

(* "Never overshoot the deadline just to complete a full interval."        *)
SleepFor == AtMost(WaitInterval, Remaining)

SleepOrGiveUp ==
    IF Remaining <= 0
    THEN WaitReturns("timed out") /\ UNCHANGED waitTimer
    ELSE /\ waitAt' = "sleeping"
         /\ waitTimer' = waitClock + SleepFor
         /\ UNCHANGED <<waitSaved, waitSummary>>

(* The attempt ended, with such a result.                                  *)
Answers(kind) ==
    /\ waitAt = "probing"
    /\ \E res \in ProbeResults : classifyProbe(res) = kind
    /\ running' = running \ {attempt}

Ready ==
    /\ Answers("ready")
    /\ WaitReturns("succeeded")
    /\ UNCHANGED <<waitClock, waitTimer, attempt, abandoned, completed, pruned>>

NotReady ==
    /\ Answers("not-ready") \/ (Answers("exec-error") /\ attempt # 1)
    /\ pruneAttemptLogs(Append(completed, attempt))
    /\ SleepOrGiveUp
    /\ UNCHANGED <<waitClock, attempt, abandoned>>

(* What cannot be run at the first attempt will not be at the next.        *)
CannotRun ==
    /\ Answers("exec-error") /\ attempt = 1
    /\ WaitReturns("could not run")
    /\ UNCHANGED <<waitClock, waitTimer, attempt, abandoned, completed, pruned>>

(* The budget is spent; the process is left to itself.                     *)
Hung ==
    /\ waitAt = "probing" /\ waitClock = waitTimer
    /\ abandoned' = abandoned \cup {attempt}
    /\ SleepOrGiveUp
    /\ UNCHANGED <<waitClock, attempt, running, completed, pruned>>

(* The apply is aborted: the attempt under way is abandoned too.           *)
Cancelled ==
    /\ waitAt \in {"probing", "sleeping"}
    /\ abandoned' = abandoned \cup (IF waitAt = "probing" THEN {attempt} ELSE {})
    /\ WaitReturns("aborted")
    /\ UNCHANGED <<waitClock, waitTimer, attempt, running, completed, pruned>>

WakeUp ==
    /\ waitAt = "sleeping" /\ waitClock = waitTimer
    /\ waitAt' = "next"
    /\ UNCHANGED <<waitClock, waitTimer, attempt, running, abandoned, completed, pruned, waitSaved, waitSummary>>

NoTimeLeft ==
    /\ waitAt = "next" /\ Remaining <= 0
    /\ WaitReturns("timed out")
    /\ UNCHANGED <<waitClock, waitTimer, attempt, running, abandoned, completed, pruned>>

WaitTick ==
    /\ waitAt \in {"probing", "sleeping"} /\ waitClock < waitTimer
    /\ waitClock' = waitClock + 1
    /\ UNCHANGED <<waitAt, waitTimer, attempt, running, abandoned, completed, pruned, waitSaved, waitSummary>>

AbandonedEnds ==
    /\ \E n \in running \cap abandoned : running' = running \ {n}
    /\ UNCHANGED <<waitAt, waitClock, waitTimer, attempt, abandoned, completed, pruned, waitSaved, waitSummary>>

(* Read and Update run nothing; Delete removes the directory.              *)
WaitDelete ==
    /\ waitSaved = "saved"
    /\ waitSaved' = "deleted" /\ waitSummary' = "none"
    /\ UNCHANGED <<waitAt, waitClock, waitTimer, attempt, running, abandoned, completed, pruned>>

Waiting == \/ RunProbe \/ Ready \/ NotReady \/ CannotRun \/ Hung \/ WakeUp \/ NoTimeLeft \/ WaitTick
WaitNext == WaitCreate \/ Waiting \/ Cancelled \/ AbandonedEnds \/ WaitDelete

WaitSpec == WaitInit /\ [][WaitNext]_waitVars

-----------------------------------------------------------------------------
(* The variables keep their types.                                         *)
WaitTypeOK ==
    /\ waitAt \in {"none", "next", "probing", "sleeping", "over"}
    /\ waitClock \in Nat /\ waitTimer \in Nat /\ attempt \in Nat
    /\ running \subseteq 1..attempt /\ abandoned \subseteq 1..attempt /\ pruned \subseteq 1..attempt
    /\ completed \in Seq(1..attempt)
    /\ waitSaved \in {"absent", "saved", "failed", "deleted"}
    /\ waitSummary \in {"none", "succeeded", "timed out", "aborted", "could not run"}

Finished == (1..attempt) \ (abandoned \cup IF waitAt = "probing" THEN {attempt} ELSE {})

(***************************************************************************)
(* pruneAttemptLogs: "at most keep of them survive, always sparing the     *)
(* first attempt", and "an abandoned attempt may still be writing into its *)
(* own": what is pruned is over, is not the first attempt and is followed  *)
(* by RetainLogs others that finished; and the rest does not pile up.      *)
(***************************************************************************)
WaitLogsPruned ==
    /\ \A n \in pruned : /\ n \notin running \cup {1}
                         /\ Cardinality({f \in Finished : f > n}) >= RetainLogs
    /\ waitAt = "sleeping" /\ RetainLogs > 0 => Cardinality(Finished \ pruned) <= RetainLogs + 1

(***************************************************************************)
(* Whatever the attempts take and the intervals come to, the wait is not   *)
(* longer than its timeout, and no attempt is begun at its end.            *)
(***************************************************************************)
WaitWithinTimeout ==
    /\ waitClock <= WaitTimeout
    /\ waitAt = "probing" => waitTimer <= WaitTimeout
=============================================================================
