--------------------------- MODULE Records_proofs ---------------------------
(***************************************************************************)
(* What is written down of a system that runs, and how far it can be       *)
(* relied on: the lines of a console, the logs of the attempts of a wait,  *)
(* and the attributes of a resource in Terraform's state.  For any number  *)
(* of connections and lines, any timeout, interval and budget, and any     *)
(* values of the attributes.                                               *)
(***************************************************************************)
EXTENDS Tailer, WaitUntil, ResourcePlan, FiniteSetTheorems, SequenceTheorems, TLAPS

-----------------------------------------------------------------------------
(* The console: how much of the file is not synced.                        *)

(* A connection that writes holds the mutex. *)
MutexHeld == \A k \in Conns : conns[k] \in {"locked", "written"} <=> tailMutex = k

(* The gauge counts the lines since the last sync, but for the one that is *)
(* being written, and the failures that did not set it again.              *)
GaugeCounts ==
    /\ unsynced + gauge <= SyncEvery + missed + 1
    /\ (\A k \in Conns : conns[k] # "written") => unsynced + gauge <= SyncEvery + missed

TailInv == TailTypeOK /\ MutexHeld /\ GaugeCounts /\ TailLinesKept

-----------------------------------------------------------------------------
LEMMA TailTypesKept ==
    ASSUME TailTypeOK, [TailNext]_tailVars
    PROVE  TailTypeOK'
<1> USE TailAssumption DEF TailTypeOK
<1>1. ASSUME NEW k \in Conns, Accept(k) \/ HangUp(k) \/ LockTailer(k) \/ Refuse(k) PROVE TailTypeOK'
  BY <1>1 DEF Accept, HangUp, LockTailer, Refuse, UnlockTailer
<1>2. ASSUME NEW k \in Conns, ScanLine(k) PROVE TailTypeOK'
  BY <1>2 DEF ScanLine
<1>3. ASSUME NEW k \in Conns, WriteOut(k) PROVE TailTypeOK'
  BY <1>3 DEF WriteOut
<1>4. ASSUME NEW k \in Conns, CountDown(k) PROVE TailTypeOK'
  BY <1>4 DEF CountDown, UnlockTailer
<1>5. ASSUME NEW k \in Conns, SyncFile(k) PROVE TailTypeOK'
  BY <1>5 DEF SyncFile, UnlockTailer
<1>6. CASE Shutdown \/ Exit0
  BY <1>6 DEF Shutdown, Exit0
<1>7. CASE CloseTailer
  <2>1. tailClosed' \in BOOLEAN
    BY <1>7, Zenon DEF CloseTailer
  <2>2. unsynced' \in {0, unsynced} /\ tailFile' \in {"synced", "unsynced"} /\ tailMain' = "cleanup"
    BY <1>7 DEF CloseTailer
  <2>3. UNCHANGED <<conns, lines, tailMutex, gauge, missed>>
    BY <1>7 DEF CloseTailer
  <2> QED BY <2>1, <2>2, <2>3
<1>8. CASE UNCHANGED tailVars BY <1>8 DEF tailVars
<1> QED BY <1>1, <1>2, <1>3, <1>4, <1>5, <1>6, <1>7, <1>8 DEF TailNext

LEMMA MutexKept ==
    ASSUME TailTypeOK, MutexHeld, [TailNext]_tailVars
    PROVE  MutexHeld'
<1> USE TailAssumption DEF TailTypeOK, MutexHeld
<1>1. ASSUME NEW k \in Conns, Accept(k) \/ ScanLine(k) \/ HangUp(k) PROVE MutexHeld'
  BY <1>1 DEF Accept, ScanLine, HangUp
<1>2. ASSUME NEW k \in Conns, LockTailer(k) PROVE MutexHeld'
  BY <1>2 DEF LockTailer
<1>3. ASSUME NEW k \in Conns, Refuse(k) \/ CountDown(k) \/ SyncFile(k) PROVE MutexHeld'
  BY <1>3 DEF Refuse, CountDown, SyncFile, UnlockTailer
<1>4. ASSUME NEW k \in Conns, WriteOut(k) PROVE MutexHeld'
  BY <1>4 DEF WriteOut
<1>5. CASE Shutdown \/ CloseTailer \/ Exit0
  BY <1>5 DEF Shutdown, CloseTailer, Exit0
<1>6. CASE UNCHANGED tailVars BY <1>6 DEF tailVars
<1> QED BY <1>1, <1>2, <1>3, <1>4, <1>5, <1>6 DEF TailNext

(* Who holds the mutex is the only one that writes. *)
LEMMA OneWriter ==
    ASSUME TailTypeOK, MutexHeld, NEW k \in Conns, conns[k] \in {"locked", "written"}
    PROVE  \A j \in Conns \ {k} : conns[j] \notin {"locked", "written"}
  BY DEF MutexHeld

LEMMA CountKept ==
    ASSUME TailInv, [TailNext]_tailVars
    PROVE  GaugeCounts' /\ TailLinesKept'
<1> USE TailAssumption DEF TailInv, TailTypeOK, TailLinesKept
<1>1. ASSUME NEW k \in Conns, Accept(k) \/ ScanLine(k) \/ HangUp(k) \/ LockTailer(k) PROVE GaugeCounts' /\ TailLinesKept'
  <2>1. \A j \in Conns : conns'[j] = "written" <=> conns[j] = "written"
    BY <1>1 DEF Accept, ScanLine, HangUp, LockTailer
  <2> QED BY <1>1, <2>1 DEF Accept, ScanLine, HangUp, LockTailer, GaugeCounts
<1>2. ASSUME NEW k \in Conns, Refuse(k) PROVE GaugeCounts' /\ TailLinesKept'
  <2>1. \A j \in Conns : conns[j] # "written" /\ conns'[j] # "written"
    BY <1>2, OneWriter DEF Refuse, UnlockTailer
  <2>2. unsynced + gauge <= SyncEvery + missed
    BY <2>1 DEF GaugeCounts
  <2> QED BY <1>2, <2>1, <2>2 DEF Refuse, GaugeCounts
<1>3. ASSUME NEW k \in Conns, WriteOut(k) PROVE GaugeCounts' /\ TailLinesKept'
  <2>1. \A j \in Conns : conns[j] # "written"
    BY <1>3, OneWriter DEF WriteOut
  <2>2. unsynced + gauge <= SyncEvery + missed
    BY <2>1 DEF GaugeCounts
  <2>3. conns'[k] = "written" /\ unsynced' = unsynced + 1 /\ gauge' = gauge /\ missed' = missed
    BY <1>3 DEF WriteOut
  <2>4. tailMutex' = k /\ tailFile' = "open"
    BY <1>3 DEF WriteOut, MutexHeld
  <2> QED BY <2>2, <2>3, <2>4 DEF GaugeCounts
<1>4. ASSUME NEW k \in Conns, CountDown(k) \/ SyncFile(k) PROVE GaugeCounts' /\ TailLinesKept'
  <2>1. unsynced + gauge <= SyncEvery + missed + 1
    BY DEF GaugeCounts
  <2>2. \A j \in Conns : conns'[j] # "written"
    BY <1>4, OneWriter DEF CountDown, SyncFile, UnlockTailer
  <2>3. /\ unsynced' + gauge' <= SyncEvery + missed'
        /\ gauge' \in Nat /\ missed' \in Nat /\ unsynced' \in Nat
    BY <1>4, <2>1 DEF CountDown, SyncFile
  <2>4. tailFile' = tailFile /\ (unsynced' = unsynced \/ unsynced' = 0)
    BY <1>4 DEF CountDown, SyncFile
  <2>5. TailLinesKept'
    <3>1. \A a, b, c, d \in Nat : a + b <= c + d => a <= c + d
      OBVIOUS
    <3>2. unsynced' <= SyncEvery + missed'
      BY <2>3, <3>1
    <3>3. tailFile' = "synced" => unsynced' = 0
      BY <2>4
    <3> QED BY <3>2, <3>3
  <2>6. GaugeCounts'
    BY <2>2, <2>3 DEF GaugeCounts
  <2> QED BY <2>5, <2>6
<1>5. CASE Shutdown \/ CloseTailer \/ Exit0
  BY <1>5 DEF Shutdown, CloseTailer, Exit0, GaugeCounts
<1>6. CASE UNCHANGED tailVars BY <1>6 DEF tailVars, GaugeCounts
<1> QED BY <1>1, <1>2, <1>3, <1>4, <1>5, <1>6 DEF TailNext

LEMMA TailAlways == TailSpec => []TailInv
<1>1. ASSUME TailInit PROVE TailInv
  <2>1. TailTypeOK
    <3>1. tailClosed \in BOOLEAN
      BY <1>1, Zenon DEF TailInit
    <3>2. gauge \in 0..SyncEvery /\ unsynced \in Nat /\ missed \in Nat
      BY <1>1, TailAssumption DEF TailInit
    <3>3. lines \in [Conns -> 0..MaxLines]
      BY <1>1, TailAssumption DEF TailInit
    <3> QED BY <1>1, <3>1, <3>2, <3>3 DEF TailInit, TailTypeOK
  <2>2. MutexHeld
    BY <1>1, TailAssumption DEF TailInit, MutexHeld
  <2>3. TailLinesKept
    BY <1>1, TailAssumption DEF TailInit, TailLinesKept
  <2>4. GaugeCounts
    <3>1. gauge = SyncEvery /\ unsynced = 0 /\ missed = 0 /\ SyncEvery \in Nat
      BY <1>1, TailAssumption DEF TailInit
    <3> QED BY <3>1 DEF GaugeCounts
  <2> QED BY <2>1, <2>2, <2>3, <2>4 DEF TailInv
<1>2. TailInv /\ [TailNext]_tailVars => TailInv'
  BY TailTypesKept, MutexKept, CountKept DEF TailInv
<1> QED BY <1>1, <1>2, PTL DEF TailSpec

(* For any number of connections, lines and failed syncs, between two lines *)
(* no more than SyncEvery are not synced, and one more for each failure;   *)
(* a file that was synced when it was closed holds every line (WriteLine    *)
(* and Close of the tailer).                                               *)
THEOREM LinesKept == TailSpec => []TailLinesKept
  BY TailAlways, PTL DEF TailInv

-----------------------------------------------------------------------------
(* The wait: when it is over.                                              *)

(* A timer that runs fires neither before now nor after the timeout.       *)
TimesInv ==
    /\ waitClock \in 0..WaitTimeout /\ waitTimer \in Nat
    /\ waitAt \in {"probing", "sleeping"} => waitClock <= waitTimer /\ waitTimer <= WaitTimeout

LEMMA TimesKept ==
    ASSUME TimesInv, [WaitNext]_waitVars
    PROVE  TimesInv'
<1> USE WaitAssumption DEF TimesInv
<1>1. CASE WaitCreate BY <1>1 DEF WaitCreate
<1>2. CASE RunProbe
  <2>1. WaitTimeout - waitClock \in Nat \ {0}
    BY <1>2 DEF RunProbe, Remaining
  <2>2. \/ waitTimer' = WaitTimeout
        \/ waitTimer' = waitClock + AttemptTimeout /\ AttemptTimeout < Remaining
    BY <1>2, <2>1 DEF RunProbe, AtMost, Remaining
  <2> QED BY <1>2, <2>1, <2>2 DEF RunProbe, Remaining
<1>3. CASE Ready BY <1>3 DEF Ready, WaitReturns
<1>4. SleepOrGiveUp /\ waitClock' = waitClock => TimesInv'
  <2>1. ASSUME SleepOrGiveUp, waitClock' = waitClock PROVE TimesInv'
    <3>1. CASE Remaining <= 0
      BY <2>1, <3>1 DEF SleepOrGiveUp, WaitReturns
    <3>2. CASE ~(Remaining <= 0)
      <4>1. waitAt' = "sleeping" /\ waitTimer' = waitClock + SleepFor
        BY <2>1, <3>2 DEF SleepOrGiveUp
      <4>2. SleepFor \in Nat /\ SleepFor <= WaitTimeout - waitClock
        BY <3>2 DEF SleepFor, AtMost, Remaining
      <4> QED BY <2>1, <4>1, <4>2
    <3> QED BY <3>1, <3>2
  <2> QED BY <2>1
<1>5. CASE NotReady
  BY <1>4, <1>5 DEF NotReady, WaitReturns
<1>6. CASE Hung BY <1>4, <1>6 DEF Hung
<1>14. CASE CannotRun BY <1>14 DEF CannotRun, WaitReturns
<1>7. CASE Cancelled BY <1>7 DEF Cancelled, WaitReturns
<1>8. CASE WakeUp BY <1>8 DEF WakeUp
<1>9. CASE NoTimeLeft BY <1>9 DEF NoTimeLeft, WaitReturns
<1>10. CASE WaitTick BY <1>10 DEF WaitTick
<1>11. CASE AbandonedEnds BY <1>11 DEF AbandonedEnds
<1>12. CASE WaitDelete BY <1>12 DEF WaitDelete
<1>13. CASE UNCHANGED waitVars BY <1>13 DEF waitVars
<1> QED BY <1>1, <1>2, <1>3, <1>5, <1>6, <1>7, <1>8, <1>9, <1>10, <1>11, <1>12, <1>13, <1>14 DEF WaitNext, Waiting

(* Whatever the timeout, the interval and the budget of an attempt, and     *)
(* however long the attempts run, the wait is over at its timeout           *)
(* (waitForScript).                                                         *)
THEOREM WithinTimeout == WaitSpec => []WaitWithinTimeout
<1>1. WaitInit => TimesInv
  BY WaitAssumption DEF WaitInit, TimesInv
<1>2. TimesInv /\ [WaitNext]_waitVars => TimesInv'
  BY TimesKept
<1>3. TimesInv => WaitWithinTimeout
  BY WaitAssumption DEF TimesInv, WaitWithinTimeout
<1> QED BY <1>1, <1>2, <1>3, PTL DEF WaitSpec

-----------------------------------------------------------------------------
(* The log directories of a wait: those that may be pruned are in the order *)
(* of the attempts, and an attempt that is over has one unless it is pruned;*)
(* no process that runs writes to either.                                  *)
LogDirs(dirs) == {dirs[k] : k \in 1..Len(dirs)}

OldestFirst(dirs) == \A j, k \in 1..Len(dirs) : j < k => dirs[j] < dirs[k]

LogsInOrder ==
    /\ OldestFirst(completed)
    /\ waitAt = "probing" => \A k \in 1..Len(completed) : completed[k] < attempt

LogsOfFinished ==
    /\ LogDirs(completed) \cup pruned \subseteq Finished \ running
    /\ waitAt # "over" => Finished \subseteq LogDirs(completed) \cup pruned

(* The attempt under way was not given up. *)
LastAttempt == waitAt = "probing" => attempt \in Nat \ {0} /\ attempt \notin abandoned

LogsBounded == RetainLogs > 0 => Len(completed) <= RetainLogs + 1

LogsSpared ==
    /\ 1 \notin pruned
    /\ \A n \in pruned : Cardinality({f \in Finished : f > n}) >= RetainLogs

LogsInv == WaitTypeOK /\ LogsInOrder /\ LogsOfFinished /\ LastAttempt /\ LogsBounded /\ LogsSpared

(* What is left when the second is taken out. *)
LEMMA RemoveSecond ==
    ASSUME NEW S, NEW dirs \in Seq(S), Len(dirs) >= 2
    PROVE  /\ RemoveAt(dirs, 2) \in Seq(S)
           /\ Len(RemoveAt(dirs, 2)) = Len(dirs) - 1
           /\ RemoveAt(dirs, 2)[1] = dirs[1]
           /\ \A k \in 2..Len(dirs) - 1 : RemoveAt(dirs, 2)[k] = dirs[k + 1]
<1> DEFINE a == SubSeq(dirs, 1, 1)
           b == SubSeq(dirs, 3, Len(dirs))
<1>0. Len(dirs) \in Nat /\ \A k \in 1..Len(dirs) : dirs[k] \in S
  OBVIOUS
<1>1. a \in Seq(S) /\ Len(a) = 1 /\ a[1] = dirs[1]
  BY <1>0
<1>2. /\ b \in Seq(S) /\ Len(b) = Len(dirs) - 2
      /\ \A k \in 1..Len(dirs) - 2 : b[k] = dirs[k + 2]
  <2>1. /\ b \in Seq(S)
        /\ Len(b) = IF 3 <= Len(dirs) THEN Len(dirs) - 3 + 1 ELSE 0
        /\ \A k \in 1..Len(dirs) - 3 + 1 : b[k] = dirs[3 + k - 1]
    BY <1>0, SubSeqProperties
  <2> HIDE DEF b
  <2>2. Len(b) = Len(dirs) - 2 /\ Len(dirs) - 3 + 1 = Len(dirs) - 2
    <3>1. Len(dirs) \in Nat /\ Len(dirs) >= 2
      BY <1>0
    <3>2. CASE 3 <= Len(dirs)
      BY <2>1, <3>1, <3>2
    <3>3. CASE Len(dirs) = 2
      BY <2>1, <3>1, <3>3
    <3>4. \A n \in Nat : n >= 2 => 3 <= n \/ n = 2
      OBVIOUS
    <3> QED BY <3>1, <3>2, <3>3, <3>4
  <2>3. ASSUME NEW k \in 1..Len(dirs) - 2 PROVE b[k] = dirs[k + 2]
    <3>1. k \in 1..Len(dirs) - 3 + 1 /\ 3 + k - 1 = k + 2
      BY <1>0
    <3>2. b[k] = dirs[3 + k - 1]
      BY <2>1, <3>1
    <3> QED BY <3>1, <3>2
  <2> QED BY <2>1, <2>2, <2>3
<1>3. RemoveAt(dirs, 2) = a \o b
  BY DEF RemoveAt
<1> HIDE DEF a, b
<1>4. /\ a \o b \in Seq(S) /\ Len(a \o b) = Len(a) + Len(b)
      /\ \A k \in 1..Len(a) + Len(b) : (a \o b)[k] = IF k <= Len(a) THEN a[k] ELSE b[k - Len(a)]
  BY <1>1, <1>2, ConcatProperties
<1> DEFINE c == a \o b
<1> HIDE DEF c
<1>5. c \in Seq(S) /\ Len(c) = Len(dirs) - 1
  BY <1>0, <1>1, <1>2, <1>4 DEF c
<1>6. c[1] = dirs[1]
  BY <1>0, <1>1, <1>2, <1>4 DEF c
<1>7. ASSUME NEW k \in 2..Len(dirs) - 1 PROVE c[k] = dirs[k + 1]
  <2>1. k \in 1..Len(a) + Len(b) /\ ~(k <= Len(a)) /\ k - Len(a) = k - 1 /\ k - 1 \in 1..Len(dirs) - 2
    BY <1>0, <1>1, <1>2
  <2>2. c[k] = b[k - 1]
    BY <1>4, <2>1 DEF c
  <2>3. b[k - 1] = dirs[(k - 1) + 2]
    BY <1>2, <2>1
  <2> QED BY <1>0, <2>2, <2>3
<1> QED BY <1>3, <1>5, <1>6, <1>7 DEF c

LEMMA SeqOfMore ==
    ASSUME NEW m \in Nat, NEW n \in Nat, m <= n, NEW s \in Seq(1..m)
    PROVE  s \in Seq(1..n)
<1>1. Len(s) \in Nat /\ s \in [1..Len(s) -> 1..m]
  OBVIOUS
<1>2. 1..m \subseteq 1..n
  OBVIOUS
<1> QED BY <1>1, <1>2

(* The types of everything but the list. *)
WaitTypes ==
    /\ waitAt \in {"none", "next", "probing", "sleeping", "over"}
    /\ waitClock \in Nat /\ waitTimer \in Nat /\ attempt \in Nat
    /\ running \subseteq 1..attempt /\ abandoned \subseteq 1..attempt /\ pruned \subseteq 1..attempt
    /\ waitSaved \in {"absent", "saved", "failed", "deleted"}
    /\ waitSummary \in {"none", "succeeded", "timed out", "aborted", "could not run"}

LEMMA WaitTypesKept ==
    ASSUME WaitTypes, LastAttempt, [WaitNext]_waitVars, NotReady => pruned' \subseteq 1..attempt
    PROVE  WaitTypes'
<1>0. /\ WaitTimeout \in Nat /\ WaitInterval \in Nat /\ AttemptTimeout \in Nat
      /\ waitClock \in Nat /\ waitTimer \in Nat
  BY WaitAssumption DEF WaitTypes
<1>1. CASE WaitCreate BY <1>1 DEF WaitTypes, WaitCreate
<1>2. CASE RunProbe
  <2>1. waitClock' = waitClock /\ waitTimer' \in Nat
    <3>1. Remaining > 0 /\ waitClock' = waitClock
          /\ waitTimer' = waitClock + (IF AttemptTimeout > 0 THEN AtMost(AttemptTimeout, Remaining) ELSE Remaining)
      BY <1>2 DEF RunProbe
    <3>2. Remaining \in Nat
      BY <1>0, <3>1 DEF Remaining
    <3>3. AtMost(AttemptTimeout, Remaining) \in Nat
      BY <1>0, <3>2 DEF AtMost
    <3> QED BY <1>0, <3>1, <3>2, <3>3
  <2>2. /\ attempt' = attempt + 1 /\ running' = running \cup {attempt + 1}
        /\ UNCHANGED <<abandoned, pruned>>
        /\ waitAt' = "probing" /\ waitSaved' = waitSaved /\ waitSummary' = waitSummary
    BY <1>2 DEF RunProbe
  <2>3. 1..attempt \subseteq 1..attempt' /\ attempt + 1 \in 1..attempt' /\ attempt <= attempt' /\ attempt' \in Nat
    <3>1. attempt \in Nat /\ attempt' = attempt + 1
      BY <2>2 DEF WaitTypes
    <3>2. \A k \in 1..attempt : k \in 1..attempt'
      BY <3>1
    <3> QED BY <3>1, <3>2
  <2> QED BY <1>0, <2>1, <2>2, <2>3 DEF WaitTypes
<1>3. ASSUME NEW outcome \in {"succeeded", "timed out", "aborted", "could not run"}, WaitReturns(outcome)
      PROVE  /\ waitAt' = "over" /\ waitSaved' \in {"absent", "saved", "failed", "deleted"}
             /\ waitSummary' \in {"none", "succeeded", "timed out", "aborted", "could not run"}
  BY <1>3 DEF WaitTypes, WaitReturns, writeSummary
<1>4. CASE Ready BY <1>3, <1>4 DEF WaitTypes, Ready, Answers
<1>5. CASE CannotRun BY <1>3, <1>5 DEF WaitTypes, CannotRun, Answers
<1>6. CASE Cancelled
  <2>1. abandoned' \subseteq abandoned \cup {attempt} /\ (waitAt = "probing" \/ abandoned' = abandoned)
    BY <1>6 DEF Cancelled
  <2>2. abandoned' \subseteq 1..attempt
    <3>1. waitAt = "probing" => attempt \in 1..attempt
      BY DEF LastAttempt
    <3> QED BY <2>1, <3>1 DEF WaitTypes
  <2>3. UNCHANGED <<waitClock, waitTimer, attempt, running, pruned>> /\ WaitReturns("aborted")
    BY <1>6 DEF Cancelled
  <2> QED BY <1>3, <2>2, <2>3 DEF WaitTypes
<1>7. CASE NoTimeLeft BY <1>3, <1>7 DEF WaitTypes, NoTimeLeft
<1>8. ASSUME SleepOrGiveUp
      PROVE  /\ waitAt' \in {"over", "sleeping"} /\ waitTimer' \in Nat
             /\ waitSaved' \in {"absent", "saved", "failed", "deleted"}
             /\ waitSummary' \in {"none", "succeeded", "timed out", "aborted", "could not run"}
  <2>1. CASE Remaining <= 0
    <3>1. waitTimer' = waitTimer /\ WaitReturns("timed out")
      BY <1>8, <2>1 DEF SleepOrGiveUp
    <3> QED BY <1>0, <1>3, <3>1
  <2>2. CASE ~(Remaining <= 0)
    <3>1. Remaining \in Nat
      BY <1>0, <2>2 DEF Remaining
    <3>2. SleepFor \in Nat
      BY <1>0, <3>1 DEF SleepFor, AtMost
    <3>3. waitAt' = "sleeping" /\ waitTimer' = waitClock + SleepFor /\ UNCHANGED <<waitSaved, waitSummary>>
      BY <1>8, <2>2 DEF SleepOrGiveUp
    <3>4. waitTimer' \in Nat
      BY <1>0, <3>2, <3>3
    <3> QED BY <3>3, <3>4 DEF WaitTypes
  <2> QED BY <2>1, <2>2
<1>9. CASE Hung
  <2>1. abandoned' = abandoned \cup {attempt} /\ attempt \in 1..attempt
        /\ SleepOrGiveUp /\ UNCHANGED <<waitClock, attempt, running, pruned>>
    BY <1>9 DEF Hung, LastAttempt
  <2> QED BY <1>0, <1>8, <2>1 DEF WaitTypes
<1>10. CASE NotReady
  <2>1. /\ waitClock' = waitClock /\ attempt' = attempt /\ abandoned' = abandoned
        /\ running' \subseteq 1..attempt /\ SleepOrGiveUp /\ pruned' \subseteq 1..attempt
    BY <1>10 DEF WaitTypes, NotReady, Answers
  <2> QED BY <1>0, <1>8, <2>1 DEF WaitTypes
<1>11. CASE WakeUp BY <1>11 DEF WaitTypes, WakeUp
<1>12. CASE WaitTick
  <2>1. waitClock' = waitClock + 1
        /\ UNCHANGED <<waitAt, waitTimer, attempt, running, abandoned, pruned, waitSaved, waitSummary>>
    BY <1>12 DEF WaitTick
  <2>2. waitClock' \in Nat
    BY <1>0, <2>1
  <2> QED BY <2>1, <2>2 DEF WaitTypes
<1>13. CASE AbandonedEnds
  <2>1. running' \subseteq running
        /\ UNCHANGED <<waitAt, waitClock, waitTimer, attempt, abandoned, pruned, waitSaved, waitSummary>>
    BY <1>13 DEF AbandonedEnds
  <2> QED BY <1>0, <2>1 DEF WaitTypes
<1>14. CASE WaitDelete BY <1>14 DEF WaitTypes, WaitDelete
<1>15. CASE UNCHANGED waitVars BY <1>15 DEF WaitTypes, waitVars
<1> QED BY <1>1, <1>2, <1>4, <1>5, <1>6, <1>7, <1>9, <1>10, <1>11, <1>12, <1>13, <1>14, <1>15 DEF WaitNext, Waiting

(* More attempts that are over do not make fewer that are over later. *)
LEMMA FinishedGrows ==
    ASSUME LogsInv, Finished \subseteq Finished', attempt' \in Nat,
           NEW n \in pruned
    PROVE  Cardinality({f \in Finished : f > n}') >= RetainLogs
<1> DEFINE Before == {f \in Finished : f > n}
           After  == {f \in Finished' : f > n}
<1>1. IsFiniteSet(After)
  <2>1. IsFiniteSet(1..attempt') /\ After \subseteq 1..attempt'
    BY FS_Interval DEF Finished
  <2> QED BY <2>1, FS_Subset
<1>2. Cardinality(Before) <= Cardinality(After)
  <2>1. Before \subseteq After
    OBVIOUS
  <2> QED BY <1>1, <2>1, FS_Subset
<1>3. IsFiniteSet(Before) /\ Cardinality(Before) \in Nat /\ Cardinality(After) \in Nat
  <2>1. Before \subseteq After
    OBVIOUS
  <2> QED BY <1>1, <2>1, FS_Subset, FS_CardinalityType
<1>4. Cardinality(Before) >= RetainLogs
  BY DEF LogsInv, LogsSpared
<1>5. Cardinality(After) >= RetainLogs
  <2> HIDE DEF Before, After
  <2> QED BY <1>2, <1>3, <1>4, WaitAssumption
<1>6. {f \in Finished : f > n}' = {f \in Finished' : f > n'}
  OBVIOUS
<1> QED BY <1>5

(* pruneAttemptLogs, given the directories of attempts that are over, in    *)
(* order: they stay so, none is lost of sight, and the one it takes is not  *)
(* the first and has RetainLogs after it.                                   *)
LEMMA PruneKeeps ==
    ASSUME NEW n \in Nat, NEW dirs \in Seq(1..n), OldestFirst(dirs), pruneAttemptLogs(dirs),
           RetainLogs > 0 => Len(dirs) <= RetainLogs + 2
    PROVE  /\ completed' \in Seq(1..n) /\ OldestFirst(completed')
           /\ RetainLogs > 0 => Len(completed') <= RetainLogs + 1
           /\ LogDirs(completed') \cup pruned' = LogDirs(dirs) \cup pruned
           /\ \A m \in pruned' \ pruned :
                m \in 2..n /\ Cardinality({f \in LogDirs(dirs) : f > m}) >= RetainLogs
<1> USE WaitAssumption
<1>0. Len(dirs) \in Nat /\ \A k \in 1..Len(dirs) : dirs[k] \in 1..n
  OBVIOUS
<1>1. CASE RetainLogs = 0 \/ Len(dirs) <= RetainLogs + 1
  BY <1>1 DEF pruneAttemptLogs
<1>2. CASE ~(RetainLogs = 0 \/ Len(dirs) <= RetainLogs + 1)
  <2> DEFINE later == {f \in LogDirs(dirs) : f > dirs[2]}
  <2>1. /\ completed' = RemoveAt(dirs, 2) /\ pruned' = pruned \cup {dirs[2]}
        /\ RetainLogs \in Nat \ {0} /\ Len(dirs) = RetainLogs + 2
    BY <1>0, <1>2 DEF pruneAttemptLogs
  <2>2. /\ completed' \in Seq(1..n)
        /\ Len(completed') = Len(dirs) - 1
        /\ completed'[1] = dirs[1]
        /\ \A k \in 2..Len(dirs) - 1 : completed'[k] = dirs[k + 1]
    <3>1. Len(dirs) >= 2
      BY <2>1
    <3> QED BY <2>1, <3>1, RemoveSecond
  <2>3. OldestFirst(completed')
    <3>1. ASSUME NEW j \in 1..Len(completed'), NEW k \in 1..Len(completed'), j < k
          PROVE  completed'[j] < completed'[k]
      <4>1. k \in 2..Len(dirs) - 1 /\ completed'[k] = dirs[k + 1] /\ k + 1 \in 1..Len(dirs)
        BY <1>0, <2>2, <3>1
      <4>2. CASE j = 1
        <5>1. completed'[j] = dirs[1] /\ 1 \in 1..Len(dirs) /\ 1 < k + 1
          BY <1>0, <2>2, <4>1, <4>2
        <5> QED BY <4>1, <5>1 DEF OldestFirst
      <4>3. CASE j # 1
        <5>1. j \in 2..Len(dirs) - 1 /\ completed'[j] = dirs[j + 1] /\ j + 1 \in 1..Len(dirs) /\ j + 1 < k + 1
          BY <1>0, <2>2, <3>1, <4>3
        <5> QED BY <4>1, <5>1 DEF OldestFirst
      <4> QED BY <4>2, <4>3
    <3> QED BY <3>1 DEF OldestFirst
  <2>4. LogDirs(completed') \cup pruned' = LogDirs(dirs) \cup pruned
    <3>1. LogDirs(completed') \subseteq LogDirs(dirs) /\ dirs[2] \in LogDirs(dirs)
      <4>1. dirs[2] \in LogDirs(dirs)
        BY <1>0, <2>1 DEF LogDirs
      <4>2. ASSUME NEW k \in 1..Len(completed') PROVE completed'[k] \in LogDirs(dirs)
        <5>1. CASE k = 1
          BY <1>0, <2>1, <2>2, <5>1 DEF LogDirs
        <5>2. CASE k # 1
          <6>1. k \in 2..Len(dirs) - 1 /\ completed'[k] = dirs[k + 1] /\ k + 1 \in 1..Len(dirs)
            BY <1>0, <2>2, <5>2
          <6> QED BY <6>1 DEF LogDirs
        <5> QED BY <5>1, <5>2
      <4> QED BY <4>1, <4>2 DEF LogDirs
    <3>2. ASSUME NEW k \in 1..Len(dirs), k # 2 PROVE dirs[k] \in LogDirs(completed')
      <4>1. CASE k = 1
        <5>1. completed'[1] = dirs[k] /\ 1 \in 1..Len(completed')
          BY <1>0, <2>1, <2>2, <4>1
        <5> QED BY <5>1 DEF LogDirs
      <4>2. CASE k > 2
        <5>1. k - 1 \in 1..Len(completed') /\ completed'[k - 1] = dirs[k]
          <6>1. k - 1 \in 2..Len(dirs) - 1 /\ (k - 1) + 1 = k
            BY <1>0, <4>2
          <6> QED BY <1>0, <2>2, <6>1
        <5> QED BY <5>1 DEF LogDirs
      <4> QED BY <3>2, <4>1, <4>2
    <3>3. LogDirs(dirs) \subseteq LogDirs(completed') \cup {dirs[2]}
      BY <3>2 DEF LogDirs
    <3> QED BY <2>1, <3>1, <3>3
  <2>5. dirs[2] \in 2..n
    BY <1>0, <2>1 DEF OldestFirst
  <2>6. Cardinality(later) >= RetainLogs
    <3> DEFINE g == [k \in 1..RetainLogs |-> dirs[k + 2]]
    <3>1. later \subseteq 1..n /\ IsFiniteSet(later)
      <4>1. later \subseteq 1..n
        BY <1>0 DEF LogDirs
      <4> QED BY <4>1, FS_Interval, FS_Subset
    <3>2. \A k \in 1..RetainLogs : g[k] \in later
      BY <1>0, <2>1 DEF OldestFirst, LogDirs
    <3>3. \A j, k \in 1..RetainLogs : g[j] = g[k] => j = k
      <4>1. \A j, k \in 1..RetainLogs : j < k => g[j] < g[k]
        BY <1>0, <2>1 DEF OldestFirst
      <4>2. \A k \in 1..RetainLogs : g[k] \in 1..n
        BY <1>0, <2>1
      <4> HIDE DEF g
      <4> QED BY <4>1, <4>2
    <3>4. g \in Injection(1..RetainLogs, later)
      BY <3>2, <3>3 DEF Injection, IsInjective
    <3>5. Cardinality(1..RetainLogs) = RetainLogs
      BY FS_Interval
    <3>6. Cardinality(1..RetainLogs) <= Cardinality(later) /\ Cardinality(later) \in Nat
      BY <3>1, <3>4, FS_Injection, FS_CardinalityType
    <3> HIDE DEF later
    <3> QED BY <3>5, <3>6
  <2>7. \A m \in pruned' \ pruned : m = dirs[2]
    BY <2>1
  <2>8. RetainLogs > 0 => Len(completed') <= RetainLogs + 1
    BY <2>1, <2>2
  <2>9. ASSUME NEW m \in pruned' \ pruned
        PROVE  m \in 2..n /\ Cardinality({f \in LogDirs(dirs) : f > m}) >= RetainLogs
    BY <2>5, <2>6, <2>7
  <2> HIDE DEF later
  <2> QED BY <2>2, <2>3, <2>4, <2>8, <2>9
<1> QED BY <1>1, <1>2

(* What an attempt that is over leaves to the next. *)
LEMMA NotReadyKeeps ==
    ASSUME LogsInv, NotReady
    PROVE  LogsInv'
<1> DEFINE dirs == Append(completed, attempt)
<1> USE WaitAssumption
<1>1. /\ attempt \in Nat \ {0} /\ attempt' = attempt /\ abandoned' = abandoned
      /\ waitAt = "probing" /\ waitAt' \in {"over", "sleeping"}
      /\ completed \in Seq(1..attempt) /\ running' = running \ {attempt} /\ pruneAttemptLogs(dirs)
  <2>1. waitAt' \in {"over", "sleeping"}
    BY DEF NotReady, SleepOrGiveUp, WaitReturns
  <2>2. waitAt = "probing" /\ running' = running \ {attempt}
    BY DEF NotReady, Answers
  <2>3. /\ attempt' = attempt /\ abandoned' = abandoned /\ pruneAttemptLogs(dirs)
    BY DEF NotReady
  <2>4. attempt \in Nat \ {0} /\ completed \in Seq(1..attempt)
    BY <2>2 DEF LogsInv, WaitTypeOK, LastAttempt
  <2> HIDE DEF dirs
  <2> QED BY <2>1, <2>2, <2>3, <2>4
<1>2. /\ dirs \in Seq(1..attempt) /\ Len(dirs) = Len(completed) + 1
      /\ \A k \in 1..Len(completed) : dirs[k] = completed[k]
      /\ dirs[Len(completed) + 1] = attempt
  BY <1>1
<1> HIDE DEF dirs
<1>3. OldestFirst(dirs) /\ LogDirs(dirs) = LogDirs(completed) \cup {attempt}
  <2>1. Len(completed) \in Nat /\ \A k \in 1..Len(completed) : completed[k] \in 1..attempt
    BY <1>1
  <2>2. OldestFirst(dirs)
    <3>1. ASSUME NEW j \in 1..Len(dirs), NEW k \in 1..Len(dirs), j < k PROVE dirs[j] < dirs[k]
      <4>1. j \in 1..Len(completed) /\ dirs[j] = completed[j]
        BY <1>2, <2>1, <3>1
      <4>2. CASE k \in 1..Len(completed)
        BY <1>2, <3>1, <4>1, <4>2 DEF LogsInv, LogsInOrder, OldestFirst
      <4>3. CASE k = Len(completed) + 1
        BY <1>1, <1>2, <3>1, <4>1, <4>3 DEF LogsInv, LogsInOrder
      <4> QED BY <1>2, <2>1, <4>2, <4>3
    <3> QED BY <3>1 DEF OldestFirst
  <2>3. LogDirs(dirs) = LogDirs(completed) \cup {attempt}
    BY <1>2, <2>1 DEF LogDirs
  <2> QED BY <2>2, <2>3
<1>4. RetainLogs > 0 => Len(dirs) <= RetainLogs + 2
  BY <1>1, <1>2 DEF LogsInv, LogsBounded
<1>5. /\ completed' \in Seq(1..attempt) /\ OldestFirst(completed')
      /\ RetainLogs > 0 => Len(completed') <= RetainLogs + 1
      /\ LogDirs(completed') \cup pruned' = LogDirs(completed) \cup {attempt} \cup pruned
      /\ \A m \in pruned' \ pruned :
           m \in 2..attempt /\ Cardinality({f \in LogDirs(dirs) : f > m}) >= RetainLogs
  BY <1>1, <1>2, <1>3, <1>4, PruneKeeps
<1>6. Finished' = Finished \cup {attempt} /\ Finished = LogDirs(completed) \cup pruned
  <2>1. attempt \notin abandoned
    BY <1>1 DEF LogsInv, LastAttempt
  <2>2. Finished' = (1..attempt) \ abandoned
    BY <1>1 DEF Finished
  <2>3. Finished = (1..attempt) \ (abandoned \cup {attempt})
    BY <1>1 DEF Finished
  <2>4. attempt \in 1..attempt
    BY <1>1
  <2>5. Finished = LogDirs(completed) \cup pruned
    BY <1>1 DEF LogsInv, LogsOfFinished
  <2> QED BY <2>1, <2>2, <2>3, <2>4, <2>5
<1>7. LogsInOrder' /\ LogsBounded' /\ LastAttempt'
  BY <1>1, <1>5 DEF LogsInOrder, LogsBounded, LastAttempt
<1>8. LogsOfFinished'
  <2>1. LogDirs(completed)' = LogDirs(completed')
    BY DEF LogDirs
  <2>2. (LogDirs(completed) \cup pruned) \cap running = {}
    BY DEF LogsInv, LogsOfFinished
  <2> QED BY <1>1, <1>5, <1>6, <2>1, <2>2 DEF LogsOfFinished
<1>9. LogsSpared'
  <2>1. 1 \notin pruned'
    <3>1. ASSUME 1 \in pruned' \ pruned PROVE FALSE
      <4>1. 1 \in 2..attempt
        BY <1>5, <3>1
      <4> QED BY <1>1, <4>1
    <3> QED BY <3>1 DEF LogsInv, LogsSpared
  <2>2. ASSUME NEW m \in pruned' PROVE Cardinality({f \in Finished' : f > m}) >= RetainLogs
    <3>1. CASE m \in pruned
      <4>1. Cardinality({f \in Finished : f > m}') >= RetainLogs
        BY <1>1, <1>6, <3>1, FinishedGrows
      <4> QED BY <4>1
    <3>2. CASE m \notin pruned
      <4> DEFINE s == {f \in LogDirs(dirs) : f > m}
                 t == {f \in Finished' : f > m}
      <4>1. s \subseteq t /\ t \subseteq 1..attempt
        BY <1>1, <1>3, <1>6 DEF Finished
      <4>2. IsFiniteSet(t) /\ IsFiniteSet(s) /\ Cardinality(s) <= Cardinality(t)
        <5>1. IsFiniteSet(1..attempt)
          BY <1>1, FS_Interval
        <5> HIDE DEF s, t
        <5>2. IsFiniteSet(t)
          BY <4>1, <5>1, FS_Subset
        <5> QED BY <4>1, <5>2, FS_Subset
      <4>3. Cardinality(s) >= RetainLogs
        BY <1>5, <3>2
      <4>4. Cardinality(s) \in Nat /\ Cardinality(t) \in Nat
        BY <4>2, FS_CardinalityType
      <4>5. Cardinality(t) >= RetainLogs
        <5> HIDE DEF s, t
        <5> QED BY <4>2, <4>3, <4>4
      <4> QED BY <4>5
    <3> QED BY <3>1, <3>2
  <2> QED BY <2>1, <2>2 DEF LogsSpared
<1>10. WaitTypeOK'
  <2>1. pruned' \subseteq 1..attempt
    <3>1. \A m \in pruned' \ pruned : m \in 2..attempt
      BY <1>5
    <3>2. pruned \subseteq 1..attempt
      BY DEF LogsInv, WaitTypeOK
    <3>3. 2..attempt \subseteq 1..attempt
      BY <1>1
    <3> QED BY <3>1, <3>2, <3>3
  <2>2. WaitTypes'
    BY <2>1, WaitTypesKept DEF LogsInv, WaitTypeOK, WaitTypes, WaitNext, Waiting
  <2> QED BY <1>1, <1>5, <2>2 DEF WaitTypeOK, WaitTypes
<1> QED BY <1>7, <1>8, <1>9, <1>10 DEF LogsInv

(* The steps that are not the end of an attempt that answered. *)
LEMMA LogsKept ==
    ASSUME LogsInv, [WaitNext]_waitVars
    PROVE  LogsInv'
<1> USE WaitAssumption
<1>2. CASE NotReady
  BY <1>2, NotReadyKeeps
<1>3. SUFFICES ASSUME ~NotReady PROVE LogsInv'
  BY <1>2
<1>4. UNCHANGED <<completed, pruned>>
  BY <1>3 DEF WaitNext, Waiting, WaitCreate, RunProbe, Ready, CannotRun, Hung, WakeUp, NoTimeLeft, WaitTick,
              Cancelled, AbandonedEnds, WaitDelete, waitVars
<1>1. WaitTypeOK'
  <2>1. WaitTypes' /\ attempt <= attempt' /\ attempt \in Nat
    <3>1. WaitTypes /\ LastAttempt
      BY DEF LogsInv, WaitTypeOK, WaitTypes
    <3>2. attempt \in Nat
      BY <3>1 DEF WaitTypes
    <3>3. attempt' = attempt \/ attempt' = attempt + 1
      BY DEF WaitNext, Waiting, WaitCreate, RunProbe, Ready, NotReady, CannotRun, Hung, WakeUp, NoTimeLeft, WaitTick,
             Cancelled, AbandonedEnds, WaitDelete, waitVars
    <3> QED BY <1>3, <3>1, <3>2, <3>3, WaitTypesKept
  <2>2. completed \in Seq(1..attempt) /\ attempt' \in Nat
    BY <2>1 DEF LogsInv, WaitTypeOK, WaitTypes
  <2>3. completed \in Seq(1..attempt')
    BY <2>1, <2>2, SeqOfMore
  <2> QED BY <1>4, <2>1, <2>3 DEF WaitTypeOK, WaitTypes
<1>5. /\ Finished \subseteq Finished' /\ LastAttempt'
      /\ (LogDirs(completed) \cup pruned) \cap running' = {}
      /\ waitAt' # "over" => Finished' = Finished /\ waitAt # "over"
      /\ waitAt' = "probing" => \A k \in 1..Len(completed) : completed[k] < attempt'
  <2> DEFINE Facts == /\ Finished \subseteq Finished' /\ LastAttempt'
                      /\ (LogDirs(completed) \cup pruned) \cap running' = {}
                      /\ waitAt' # "over" => Finished' = Finished /\ waitAt # "over"
                      /\ waitAt' = "probing" => \A k \in 1..Len(completed) : completed[k] < attempt'
  <2> USE DEF LastAttempt, Finished
  <2>1. /\ attempt \in Nat /\ running \subseteq 1..attempt /\ abandoned \subseteq 1..attempt
        /\ Len(completed) \in Nat /\ \A k \in 1..Len(completed) : completed[k] \in 1..attempt
        /\ LastAttempt /\ (LogDirs(completed) \cup pruned) \cap running = {}
        /\ pruned \subseteq 1..attempt
        /\ waitAt = "probing" => \A k \in 1..Len(completed) : completed[k] < attempt
    <3>1. LastAttempt /\ (LogDirs(completed) \cup pruned) \cap running = {}
      BY DEF LogsInv, LogsOfFinished
    <3>2. attempt \in Nat /\ running \subseteq 1..attempt /\ abandoned \subseteq 1..attempt
          /\ completed \in Seq(1..attempt) /\ pruned \subseteq 1..attempt
      BY DEF LogsInv, WaitTypeOK
    <3>3. waitAt = "probing" => \A k \in 1..Len(completed) : completed[k] < attempt
      BY DEF LogsInv, LogsInOrder
    <3>4. Len(completed) \in Nat /\ \A k \in 1..Len(completed) : completed[k] \in 1..attempt
      BY <3>2
    <3> QED BY <3>1, <3>2, <3>3, <3>4
  <2>2. CASE WaitCreate BY <2>1, <2>2 DEF WaitCreate
  <2>3. CASE RunProbe
    <3>1. /\ waitAt = "next" /\ waitAt' = "probing" /\ attempt' = attempt + 1
          /\ running' = running \cup {attempt + 1} /\ abandoned' = abandoned
      BY <2>3 DEF RunProbe
    <3>2. Finished' = Finished
      BY <2>1, <3>1
    <3>3. LastAttempt'
      BY <2>1, <3>1
    <3>4. attempt + 1 \notin LogDirs(completed) \cup pruned
      BY <2>1 DEF LogDirs
    <3>5. \A k \in 1..Len(completed) : completed[k] < attempt'
      BY <2>1, <3>1
    <3> QED BY <2>1, <3>1, <3>2, <3>3, <3>4, <3>5
  <2>4. ASSUME Answers("ready") \/ Answers("exec-error"), waitAt' = "over", UNCHANGED <<attempt, abandoned>>
        PROVE  Facts
    BY <2>1, <2>4 DEF Answers
  <2>5. CASE Ready \/ CannotRun BY <2>4, <2>5 DEF Ready, CannotRun, WaitReturns
  <2>6. CASE Hung
    <3>1. waitAt' \in {"over", "sleeping"} /\ UNCHANGED <<attempt, running>> /\ waitAt = "probing"
          /\ abandoned' = abandoned \cup {attempt}
      BY <2>6 DEF Hung, SleepOrGiveUp, WaitReturns
    <3> QED BY <2>1, <3>1
  <2>7. CASE Cancelled BY <2>1, <2>7 DEF Cancelled, WaitReturns
  <2>8. CASE WakeUp BY <2>1, <2>8 DEF WakeUp
  <2>9. CASE NoTimeLeft BY <2>1, <2>9 DEF NoTimeLeft, WaitReturns
  <2>10. CASE WaitTick BY <2>1, <2>10 DEF WaitTick
  <2>11. CASE AbandonedEnds BY <2>1, <2>11 DEF AbandonedEnds
  <2>12. CASE WaitDelete BY <2>1, <2>12 DEF WaitDelete
  <2>13. CASE UNCHANGED waitVars BY <2>1, <2>13 DEF waitVars
  <2> QED BY <1>3, <2>2, <2>3, <2>5, <2>6, <2>7, <2>8, <2>9, <2>10, <2>11, <2>12, <2>13 DEF WaitNext, Waiting
<1>6. LogsInOrder' /\ LogsBounded'
  BY <1>4, <1>5 DEF LogsInv, LogsInOrder, LogsBounded, OldestFirst
<1>7. LogsOfFinished'
  <2>1. LogDirs(completed)' = LogDirs(completed) /\ pruned' = pruned
    BY <1>4 DEF LogDirs
  <2> QED BY <1>5, <2>1 DEF LogsInv, LogsOfFinished
<1>8. LogsSpared'
  <2>1. 1 \notin pruned' /\ attempt' \in Nat
    BY <1>1, <1>4 DEF LogsInv, LogsSpared, WaitTypeOK
  <2>2. ASSUME NEW m \in pruned PROVE Cardinality({f \in Finished' : f > m}) >= RetainLogs
    <3>1. Cardinality({f \in Finished : f > m}') >= RetainLogs
      BY <1>5, <2>1, FinishedGrows
    <3> QED BY <3>1
  <2> QED BY <1>4, <2>1, <2>2 DEF LogsSpared
<1> QED BY <1>1, <1>5, <1>6, <1>7, <1>8 DEF LogsInv

LEMMA WaitAlways == WaitSpec => []LogsInv
<1>1. ASSUME WaitInit PROVE LogsInv
  <2>1. completed = <<>> /\ attempt = 0 /\ pruned = {} /\ running = {} /\ abandoned = {} /\ waitAt = "none"
    BY <1>1 DEF WaitInit
  <2>2. WaitTypeOK
    BY <1>1 DEF WaitInit, WaitTypeOK
  <2>3. Finished = {} /\ LogDirs(completed) = {}
    BY <2>1 DEF Finished, LogDirs
  <2>4. LogsInOrder /\ LogsOfFinished /\ LastAttempt /\ LogsBounded /\ LogsSpared
    BY <2>1, <2>3, WaitAssumption DEF LogsInOrder, OldestFirst, LogsOfFinished, LastAttempt, LogsBounded, LogsSpared
  <2> QED BY <2>2, <2>4 DEF LogsInv
<1>2. LogsInv /\ [WaitNext]_waitVars => LogsInv'
  BY LogsKept
<1> QED BY <1>1, <1>2, PTL DEF WaitSpec

(* However many attempts there are and however they end: only the log of an *)
(* attempt that is over is removed, never the first one's and never one of  *)
(* the last RetainLogs, and what is left does not pile up                   *)
(* (pruneAttemptLogs and waitForScript).                                    *)
THEOREM LogsPruned == WaitSpec => []WaitLogsPruned
<1>1. ASSUME LogsInv PROVE WaitLogsPruned
  <2>1. \A n \in pruned : n \notin running \cup {1} /\ Cardinality({f \in Finished : f > n}) >= RetainLogs
    BY <1>1 DEF LogsInv, LogsOfFinished, LogsSpared
  <2>2. ASSUME waitAt = "sleeping", RetainLogs > 0 PROVE Cardinality(Finished \ pruned) <= RetainLogs + 1
    <3> DEFINE n == Len(completed)
               L == LogDirs(completed)
               R == Finished \ pruned
    <3>1. n \in Nat /\ n <= RetainLogs + 1 /\ R \subseteq L /\ completed \in [1..n -> L]
      <4>1. completed \in Seq(1..attempt) /\ n <= RetainLogs + 1
        BY <1>1, <2>2 DEF LogsInv, LogsBounded, WaitTypeOK
      <4>2. R \subseteq L
        BY <1>1, <2>2 DEF LogsInv, LogsOfFinished
      <4>3. n \in Nat /\ completed \in [1..n -> L]
        BY <4>1 DEF LogDirs
      <4> QED BY <4>1, <4>2, <4>3
    <3>2. completed \in Surjection(1..n, L)
      BY <3>1 DEF Surjection, LogDirs
    <3>3. IsFiniteSet(1..n) /\ Cardinality(1..n) = n
      BY <3>1, FS_Interval
    <3> HIDE DEF n, L, R
    <3>4. IsFiniteSet(L) /\ Cardinality(L) <= Cardinality(1..n)
      BY <3>2, <3>3, FS_Surjection
    <3>5. IsFiniteSet(R) /\ Cardinality(R) <= Cardinality(L)
      BY <3>1, <3>4, FS_Subset
    <3>6. Cardinality(R) \in Nat /\ Cardinality(L) \in Nat
      BY <3>4, <3>5, FS_CardinalityType
    <3>7. Cardinality(R) <= RetainLogs + 1
      BY <3>1, <3>3, <3>4, <3>5, <3>6, WaitAssumption
    <3> QED BY <3>7 DEF R
  <2> QED BY <2>1, <2>2 DEF WaitLogsPruned
<1> QED BY <1>1, WaitAlways, PTL

-----------------------------------------------------------------------------
(* What schema, Create and Update of a kind have to agree on.  LeftOpen are *)
(* the attributes that a plan with a change may leave to the provider.     *)
AllKinds == DOMAIN SchemaOf
LeftOpen(k) == Computable(k) \ (SchemaOf[k].default \cup SchemaOf[k].keep)

CreateKnows(k, conf) ==
    /\ k = "tap" => "netns" \in Configurable(k)
    /\ (k # "tap" \/ conf["netns"] = "null") => Computable(k) \ SchemaOf[k].default \subseteq Made(k, conf)

UpdateKnows(k) ==
    LET u == UpdateOf(k) IN
    /\ k \notin ForgetsPaths => LeftOpen(k) \subseteq u.kept \cup u.filled \cup u.read \cup u.refused
    /\ LeftOpen(k) \cap u.acts \subseteq u.kept \cup u.filled \cup u.read
    /\ k \in ExitsUnconfigured => "state" \in u.acts
    /\ "pid_file" \notin u.read

UpdateCarries(k) ==
    LET u == UpdateOf(k) IN
    /\ k # "radv" => Configurable(k) \subseteq u.acts \cup u.kept \cup u.refused \cup SchemaOf[k].replace
    /\ k \in ExitsUnconfigured \ {"radv"} => Configurable(k) \ {"state"} \subseteq u.refused \cup SchemaOf[k].replace
    /\ k = "local_datastore" => u = UpdateOfDatastore /\ Configurable(k) \subseteq u.acts /\ "pid_file" \in AttributesOf(k)
    /\ "pid_file" \notin Configurable(k)
    /\ k = "local_datastore" => "pid_file" \notin u.acts

SchemaAgrees(k, conf) == CreateKnows(k, conf) /\ UpdateKnows(k) /\ UpdateCarries(k) /\ "id" \in AttributesOf(k)

LEMMA EachSchema ==
    /\ AllKinds = {"disk_image", "cloud_init_iso", "eve_installer", "installed_edge_node", "edge_node", "host_reservation", "tap", "bridge", "vlan", "netns", "lag", "dhcp_server", "dhcp6_server", "radv", "internet_monitor", "monitor_system_usage", "local_datastore", "swtpm", "wait_until"}
    /\ SchemaOf["disk_image"] = DiskImageSchema
    /\ SchemaOf["cloud_init_iso"] = CloudInitISOSchema
    /\ SchemaOf["eve_installer"] = EveInstallerSchema
    /\ SchemaOf["installed_edge_node"] = InstalledNodeSchema
    /\ SchemaOf["edge_node"] = EdgeNodeSchema
    /\ SchemaOf["host_reservation"] = HostReservationSchema
    /\ SchemaOf["tap"] = TAPSchema
    /\ SchemaOf["bridge"] = BridgeSchema
    /\ SchemaOf["vlan"] = VLANSchema
    /\ SchemaOf["netns"] = NetNSSchema
    /\ SchemaOf["lag"] = LAGSchema
    /\ SchemaOf["dhcp_server"] = DHCPServerSchema
    /\ SchemaOf["dhcp6_server"] = DHCP6ServerSchema
    /\ SchemaOf["radv"] = RADVSchema
    /\ SchemaOf["internet_monitor"] = InternetMonitorSchema
    /\ SchemaOf["monitor_system_usage"] = MonitorSystemUsageSchema
    /\ SchemaOf["local_datastore"] = LocalDatastoreSchema
    /\ SchemaOf["swtpm"] = SwTPMSchema
    /\ SchemaOf["wait_until"] = WaitUntilSchema
BY DEF SchemaOf, AllKinds

LEMMA EachAgrees ==
    ASSUME NEW k \in AllKinds, NEW conf
    PROVE  SchemaAgrees(k, conf)
<1> USE EachSchema DEF SchemaAgrees, CreateKnows, UpdateKnows, UpdateCarries, LeftOpen, AttributesOf, Configurable, Computable, Made, UpdateOf, UpdateUnsupported, ForgetsPaths, ExitsUnconfigured
<1>1. CASE k = "disk_image" BY <1>1 DEF DiskImageSchema
<1>2. CASE k = "cloud_init_iso" BY <1>2 DEF CloudInitISOSchema
<1>3. CASE k = "eve_installer" BY <1>3 DEF EveInstallerSchema
<1>4. CASE k = "installed_edge_node" BY <1>4 DEF InstalledNodeSchema
<1>5. CASE k = "edge_node" BY <1>5 DEF EdgeNodeSchema
<1>6. CASE k = "host_reservation" BY <1>6 DEF HostReservationSchema
<1>7. CASE k = "tap" BY <1>7 DEF TAPSchema, MadeByTAP
<1>8. CASE k = "bridge" BY <1>8 DEF BridgeSchema
<1>9. CASE k = "vlan" BY <1>9 DEF VLANSchema
<1>10. CASE k = "netns" BY <1>10 DEF NetNSSchema
<1>11. CASE k = "lag" BY <1>11 DEF LAGSchema, UpdateOfLAG
<1>12. CASE k = "dhcp_server" BY <1>12 DEF DHCPServerSchema, UpdateOfDHCP, MadeByDHCP
<1>13. CASE k = "dhcp6_server" BY <1>13 DEF DHCP6ServerSchema, UpdateOfDHCP6, MadeByDHCP6
<1>14. CASE k = "radv" BY <1>14 DEF RADVSchema, UpdateOfRADV, MadeByRADV
<1>15. CASE k = "internet_monitor" BY <1>15 DEF InternetMonitorSchema, UpdateOfMonitor, MadeByMonitor
<1>16. CASE k = "monitor_system_usage" BY <1>16 DEF MonitorSystemUsageSchema, UpdateOfSystemUsage, MadeBySystemUsage
<1>17. CASE k = "local_datastore" BY <1>17 DEF LocalDatastoreSchema, UpdateOfDatastore, MadeByDatastore
<1>18. CASE k = "swtpm" BY <1>18 DEF SwTPMSchema, UpdateOfSwTPM
<1>19. CASE k = "wait_until" BY <1>19 DEF WaitUntilSchema, UpdateOfWaitUntil
<1> QED BY <1>1, <1>2, <1>3, <1>4, <1>5, <1>6, <1>7, <1>8, <1>9, <1>10, <1>11, <1>12, <1>13, <1>14, <1>15, <1>16, <1>17, <1>18, <1>19

(* Only a PID file is stale.                                               *)
StaleFiles == Exists => \A a \in AttributesOf(plKind) : plReal[a] = "stale" => a = "pid_file"
PlanInv == PlanTypeOK /\ StaleFiles /\ PlanApplied

(* What is unknown in a plan was left to the provider. *)
LEMMA UnknownIsOpen ==
    ASSUME PlanTypeOK, Exists, NEW a \in AttributesOf(plKind)
    PROVE  /\ Planned[a] = "unknown" => a \in LeftOpen(plKind)
           /\ Planned[a] \in PlanValues \cup {"null", "default", "made", "unknown"}
<1>1. ConfigGives(a) => plConf[a] \in PlanValues
  BY DEF ConfigGives, PlanTypeOK
<1>2. plSaved[a] \in PlanValues \cup {"null", "default", "made"}
  BY DEF PlanTypeOK
<1>3. Proposed(a, plSaved[a]) \in PlanValues \cup {"null", "default", "made"}
  BY <1>1, <1>2 DEF Proposed
<1>4. "unknown" \notin PlanValues \cup {"null", "default", "made"}
  BY PlanAssumption
<1>5. Planned[a] = IF ConfigGives(a) \/ HasDefault(a) \/ a \notin Computable(plKind) \/ a \in SchemaOf[plKind].keep
                   THEN Proposed(a, plSaved[a]) ELSE "unknown"
  BY DEF Planned
<1> QED BY <1>3, <1>4, <1>5 DEF LeftOpen, HasDefault

LEMMA CreateApplies ==
    ASSUME PlanInv, NEW op \in {"create", "replace"}, CreateAs(op)
    PROVE  PlanInv'
<1> DEFINE Value == PlanValues \cup {"null", "default", "made"}
<1>1. plKind \in AllKinds /\ plConf \in [Configurable(plKind) -> PlanValues \cup {"null"}] /\ "unknown" \notin PlanValues
  BY PlanAssumption, PlanKindsAssumption DEF PlanInv, PlanTypeOK, AllKinds
<1>2. SchemaAgrees(plKind, plConf)
  BY <1>1, EachAgrees
<1>3. ASSUME NEW a \in AttributesOf(plKind)
      PROVE  /\ New[a] \in Value \cup {"unknown"}
             /\ New[a] = "unknown" => a \in Computable(plKind) \ SchemaOf[plKind].default /\ a \notin Made(plKind, plConf)
             /\ ConfigGives(a) => New[a] = plConf[a]
  <2>1. ConfigGives(a) => plConf[a] \in PlanValues
    BY <1>1 DEF ConfigGives
  <2>2. /\ Proposed(a, "null") \in Value
        /\ ConfigGives(a) => Proposed(a, "null") = plConf[a]
    BY <2>1 DEF Proposed
  <2>3. PlannedNew[a] = IF ConfigGives(a) \/ HasDefault(a) \/ a \notin Computable(plKind)
                        THEN Proposed(a, "null") ELSE "unknown"
    BY DEF PlannedNew
  <2>4. New[a] = IF PlannedNew[a] = "unknown" /\ a \in Made(plKind, plConf) THEN "made" ELSE PlannedNew[a]
    BY DEF New
  <2>5. "unknown" \notin Value
    BY <1>1
  <2> HIDE DEF Value
  <2>6. "made" \in Value
    BY DEF Value
  <2> QED BY <2>1, <2>2, <2>3, <2>4, <2>5, <2>6 DEF HasDefault
<1>4. /\ plSaved' = Known(New) /\ plReal' = FirstReal
      /\ plLast' = [op |-> op, edited |-> {}, result |-> Outcome(New)]
      /\ UNCHANGED <<plKind, plConf, plEdits>>
  BY DEF CreateAs
<1>5. Known(New) \in [AttributesOf(plKind) -> Value]
  BY <1>3 DEF Known, New
<1>6. Exists' /\ AttributesOf(plKind)' = AttributesOf(plKind) /\ Configurable(plKind)' = Configurable(plKind)
  <2>1. "id" \in DOMAIN Known(New)
    BY <1>2, <1>5 DEF SchemaAgrees
  <2> QED BY <1>4, <2>1 DEF Exists, AttributesOf, Configurable, Computable
<1>7. PlanTypeOK' /\ StaleFiles'
  <2>1. FirstReal \in [AttributesOf(plKind) -> Value] /\ "stale" \notin Value
    BY <1>5, PlanAssumption DEF FirstReal
  <2> QED BY <1>4, <1>5, <1>6, <2>1 DEF PlanInv, PlanTypeOK, StaleFiles, Outcome
<1>8. PlanCarriedOut'
  <2>1. \A a \in Configurable(plKind) : a \in AttributesOf(plKind) /\ a # "pid_file"
    BY <1>2 DEF SchemaAgrees, UpdateCarries, AttributesOf
  <2> QED BY <1>4, <1>6, <2>1 DEF PlanCarriedOut, FirstReal
<1>9. PlanKnown'
  <2>1. SUFFICES ASSUME Outcome(New) = "unknown" PROVE plKind = "tap" /\ Known(New)["netns"] # "null"
    BY <1>4 DEF PlanKnown
  <2>2. PICK a \in AttributesOf(plKind) : New[a] = "unknown"
    BY <2>1 DEF Outcome, New
  <2>3. plKind = "tap" /\ plConf["netns"] # "null" /\ "netns" \in Configurable(plKind)
    BY <1>2, <1>3, <2>2 DEF SchemaAgrees, CreateKnows
  <2>4. New["netns"] = plConf["netns"] /\ New["netns"] # "unknown" /\ "netns" \in AttributesOf(plKind)
    BY <1>1, <1>3, <2>3 DEF ConfigGives, AttributesOf
  <2>5. Known(New)["netns"] = New["netns"]
    BY <2>4 DEF Known, New
  <2> QED BY <2>3, <2>4, <2>5
<1> QED BY <1>7, <1>8, <1>9 DEF PlanInv, PlanApplied

LEMMA UpdateApplies ==
    ASSUME PlanInv, UpdateAccepted
    PROVE  PlanInv'
<1> DEFINE Value == PlanValues \cup {"null", "default", "made"}
           u == UpdateOf(plKind)
<1>1. /\ plKind \in AllKinds /\ "unknown" \notin Value /\ PlanTypeOK /\ Exists
      /\ plSaved \in [AttributesOf(plKind) -> Value] /\ plReal \in [AttributesOf(plKind) -> Value \cup {"stale"}]
      /\ StaleFiles /\ "stale" \notin Value
  BY PlanAssumption, PlanKindsAssumption DEF PlanInv, PlanTypeOK, AllKinds, UpdateAccepted, Updates
<1>2. SchemaAgrees(plKind, plConf)
  BY <1>1, EachAgrees
<1>3. /\ \A a \in SchemaOf[plKind].replace \cup u.refused : Planned[a] = plSaved[a]
      /\ plSaved' = Known(Updated)
      /\ plLast' = [op |-> "update", edited |-> Edited, result |-> Outcome(Updated)]
      /\ UNCHANGED <<plKind, plConf, plEdits>>
  BY DEF UpdateAccepted, Updates, Replaced, Refuses
<1>r. PICK reached \in Reaches :
        plReal' = [a \in AttributesOf(plKind) |->
                     IF a \in reached THEN Updated[a]
                     ELSE IF a = "pid_file" /\ GoesStale THEN "stale" ELSE plReal[a]]
  BY DEF UpdateAccepted
<1>k. /\ plKind \in ExitsUnconfigured => reached = IF WantsStopped THEN {"state"} ELSE {}
      /\ plKind = "local_datastore" => reached \in DatastoreReaches
      /\ plKind \notin ExitsUnconfigured \cup {"local_datastore"} => reached = u.acts
  BY DEF Reaches, ExitsUnconfigured
<1>a. reached \subseteq u.acts
  BY <1>2, <1>k DEF SchemaAgrees, UpdateKnows, UpdateCarries, DatastoreReaches
<1>4. ASSUME NEW a \in AttributesOf(plKind)
      PROVE  /\ Planned[a] \in Value \cup {"unknown"}
             /\ Planned[a] = "unknown" => a \in LeftOpen(plKind)
             /\ Updated[a] = IF a \in u.kept THEN plSaved[a]
                             ELSE IF Planned[a] # "unknown" THEN Planned[a]
                             ELSE IF a \in u.filled THEN "made"
                             ELSE IF a \in u.read THEN plReal[a] ELSE "unknown"
             /\ plSaved[a] \in Value /\ "made" \in Value
             /\ plReal[a] \in Value \cup {"stale"} /\ (a # "pid_file" => plReal[a] \in Value)
             /\ a \in u.read => a # "pid_file"
  <2>1. a # "pid_file" => plReal[a] # "stale"
    BY <1>1 DEF StaleFiles
  <2>2. a \in u.read => a # "pid_file"
    BY <1>2 DEF SchemaAgrees, UpdateKnows
  <2>3. Updated[a] = IF a \in u.kept THEN plSaved[a]
                     ELSE IF Planned[a] # "unknown" THEN Planned[a]
                     ELSE IF a \in u.filled THEN "made"
                     ELSE IF a \in u.read THEN plReal[a] ELSE "unknown"
    BY DEF Updated
  <2> QED BY <1>1, <2>1, <2>2, <2>3, UnknownIsOpen
<1> HIDE DEF Value
<1>5. ASSUME NEW a \in AttributesOf(plKind)
      PROVE  /\ Updated[a] \in Value \cup {"unknown"}
             /\ Updated[a] = "unknown" => a \in LeftOpen(plKind) \ (u.kept \cup u.filled \cup u.read \cup u.refused)
  <2>1. a \in u.refused => Planned[a] # "unknown"
    BY <1>1, <1>3, <1>4
  <2> QED BY <1>1, <1>4, <2>1
<1>6. Known(Updated) \in [AttributesOf(plKind) -> Value] /\ DOMAIN Updated = AttributesOf(plKind)
      /\ \A a \in AttributesOf(plKind) : Updated[a] # "unknown" => Known(Updated)[a] = Updated[a]
  <2>1. DOMAIN Updated = AttributesOf(plKind)
    BY DEF Updated
  <2>2. "null" \in Value
    BY DEF Value
  <2> QED BY <1>5, <2>1, <2>2 DEF Known
<1>7. \A a \in AttributesOf(plKind) \cap u.acts : Updated[a] # "unknown"
  BY <1>2, <1>5 DEF SchemaAgrees, UpdateKnows
<1>8. /\ plReal' \in [AttributesOf(plKind) -> Value \cup {"stale"}]
      /\ \A a \in AttributesOf(plKind) : plReal'[a] = "stale" => a = "pid_file"
  <2>1. ASSUME NEW a \in AttributesOf(plKind)
        PROVE  plReal'[a] \in Value \cup {"stale"} /\ (plReal'[a] = "stale" => a = "pid_file")
    <3>1. plReal'[a] = IF a \in reached THEN Updated[a]
                       ELSE IF a = "pid_file" /\ GoesStale THEN "stale" ELSE plReal[a]
      BY <1>r
    <3>2. a \in reached => Updated[a] \in Value
      BY <1>5, <1>7, <1>a
    <3> QED BY <1>1, <1>4, <3>1, <3>2
  <2> QED BY <1>r, <2>1
<1>9. Exists' /\ AttributesOf(plKind)' = AttributesOf(plKind) /\ Configurable(plKind)' = Configurable(plKind)
  <2>1. "id" \in DOMAIN Known(Updated)
    BY <1>2, <1>6 DEF SchemaAgrees
  <2> QED BY <1>3, <2>1 DEF Exists, AttributesOf, Configurable, Computable
<1>10. PlanTypeOK' /\ StaleFiles'
  <2>1. plLast'.edited \subseteq Configurable(plKind)
    BY <1>3 DEF Edited
  <2> QED BY <1>1, <1>3, <1>6, <1>8, <1>9, <2>1 DEF PlanTypeOK, StaleFiles, Outcome, Value
<1>11. PlanCarriedOut'
  <2>1. SUFFICES ASSUME NEW a \in Configurable(plKind), ~MayBeVain(a)' PROVE plSaved'[a] = plReal'[a]
    BY <1>3, <1>9 DEF PlanCarriedOut
  <2>2. a \in AttributesOf(plKind) /\ a # "pid_file" /\ (plSaved[a] = plReal[a] \/ MayBeVain(a))
    BY <1>1, <1>2, <2>1 DEF AttributesOf, PlanInv, PlanApplied, PlanCarriedOut, SchemaAgrees, UpdateCarries
  <2>3. CASE a \in reached
    BY <1>3, <1>6, <1>7, <1>r, <1>a, <2>2, <2>3
  <2>4. CASE a \notin reached
    <3>1. plReal'[a] = plReal[a]
      BY <1>r, <2>2, <2>4
    <3>2. plKind # "local_datastore"
      <4>1. SUFFICES ASSUME plKind = "local_datastore" PROVE FALSE
        OBVIOUS
      <4>2. plReal'["pid_file"] = "made" /\ "pid_file" \in AttributesOf(plKind) /\ "pid_file" \notin u.acts
        BY <1>2, <1>3, <2>1, <4>1 DEF MayBeVain, SchemaAgrees, UpdateCarries
      <4>3. plReal["pid_file"] = "made"
        BY <1>r, <1>a, <4>2
      <4>4. reached = u.acts /\ a \in u.acts
        BY <1>2, <1>k, <2>1, <4>1, <4>3 DEF DatastoreReaches, ServerFound, SchemaAgrees, UpdateCarries
      <4> QED BY <2>4, <4>4
    <3>3. ~MayBeVain(a) /\ a \in u.kept \cup u.refused \cup SchemaOf[plKind].replace
      <4>1. CASE plKind \in ExitsUnconfigured
        <5>1. a = "state" => plSaved'[a] = PlanStopped
          BY <1>3, <2>1, <4>1 DEF MayBeVain
        <5>2. a # "state"
          <6>1. SUFFICES ASSUME a = "state" PROVE FALSE
            OBVIOUS
          <6>2. Known(Updated)[a] = PlanStopped
            BY <1>3, <5>1, <6>1
          <6>3. Updated[a] = PlanStopped
            BY <2>2, <6>2, PlanAssumption DEF Known, Updated
          <6> QED BY <1>k, <2>4, <4>1, <6>1, <6>3 DEF WantsStopped
        <5>3. plKind # "radv"
          BY <1>3, <2>1, <5>2 DEF MayBeVain
        <5> QED BY <1>2, <2>1, <3>2, <4>1, <5>2, <5>3 DEF MayBeVain, SchemaAgrees, UpdateCarries
      <4>2. CASE plKind \notin ExitsUnconfigured
        <5>1. reached = u.acts /\ plKind # "radv"
          BY <1>k, <3>2, <4>2 DEF ExitsUnconfigured
        <5> QED BY <1>2, <2>1, <2>4, <3>2, <4>2, <5>1 DEF MayBeVain, SchemaAgrees, UpdateCarries
      <4> QED BY <4>1, <4>2
    <3>4. Updated[a] = plSaved[a]
      BY <1>1, <1>3, <1>4, <2>2, <3>3
    <3> QED BY <1>1, <1>3, <1>4, <1>6, <2>2, <3>1, <3>3, <3>4
  <2> QED BY <2>3, <2>4
<1>12. PlanKnown'
  <2>1. ASSUME Outcome(Updated) = "unknown" PROVE plKind \in ForgetsPaths
    <3>1. PICK a \in AttributesOf(plKind) : Updated[a] = "unknown"
      BY <1>6, <2>1 DEF Outcome
    <3> QED BY <1>2, <1>5, <3>1 DEF SchemaAgrees, UpdateKnows
  <2> QED BY <1>3, <2>1 DEF PlanKnown
<1> QED BY <1>10, <1>11, <1>12 DEF PlanInv, PlanApplied

LEMMA PlanAlways == PlanSpec => []PlanInv
<1>1. ASSUME PlanInit PROVE PlanInv
  <2>1. plConf \in [Configurable(plKind) -> PlanValues \cup {"null"}]
    BY <1>1, PlanAssumption DEF PlanInit
  <2>2. ~Exists /\ plLast = NotApplied /\ plKind \in PlanKinds /\ plEdits \in 0..MaxEdits
    BY <1>1, PlanAssumption DEF PlanInit, Exists
  <2> QED BY <2>1, <2>2 DEF PlanInv, PlanTypeOK, StaleFiles, PlanApplied, PlanKnown, PlanCarriedOut, NotApplied
<1>2. ASSUME PlanInv, [PlanNext]_planVars PROVE PlanInv'
  <2>1. CASE EditConfig
    <3>1. PICK a \in Configurable(plKind) :
            \E v \in (PlanValues \cup IF a \in SchemaOf[plKind].required THEN {} ELSE {"null"}) \ {plConf[a]} :
               plConf' = [plConf EXCEPT ![a] = v]
      BY <2>1 DEF EditConfig
    <3>2. plConf' \in [Configurable(plKind) -> PlanValues \cup {"null"}]
      BY <1>2, <3>1 DEF PlanInv, PlanTypeOK
    <3>3. plEdits' \in 0..MaxEdits /\ UNCHANGED <<plKind, plSaved, plReal, plLast>>
      BY <1>2, <2>1, PlanAssumption DEF EditConfig, PlanInv, PlanTypeOK
    <3> QED BY <1>2, <3>2, <3>3 DEF PlanInv, PlanTypeOK, StaleFiles, PlanApplied, PlanKnown, PlanCarriedOut, MayBeVain, Exists,
                                    AttributesOf, Configurable, Computable
  <2>2. CASE ApplyCreate \/ ApplyReplace
    BY <1>2, <2>2, CreateApplies DEF ApplyCreate, ApplyReplace
  <2>3. CASE UpdateRefused \/ UpdateFails
    <3>1. /\ plLast'.op = "update" /\ plLast'.edited = Edited /\ plLast'.result \in {"refused", "failed"} /\ Exists
          /\ UNCHANGED <<plKind, plConf, plSaved, plReal, plEdits>> /\ Edited \subseteq Configurable(plKind)
      BY <2>3 DEF UpdateRefused, UpdateFails, Updates, Edited
    <3>2. PlanCarriedOut'
      BY <1>2, <3>1 DEF PlanInv, PlanApplied, PlanCarriedOut, MayBeVain, Exists, Configurable
    <3>3. PlanKnown'
      BY <3>1 DEF PlanKnown
    <3>4. PlanTypeOK' /\ StaleFiles'
      BY <1>2, <3>1 DEF PlanInv, PlanTypeOK, StaleFiles, Exists, AttributesOf, Configurable, Computable
    <3> QED BY <3>2, <3>3, <3>4 DEF PlanInv, PlanApplied
  <2>4. CASE UpdateAccepted
    BY <1>2, <2>4, UpdateApplies
  <2>5. CASE UNCHANGED planVars
    BY <1>2, <2>5 DEF planVars, PlanInv, PlanTypeOK, StaleFiles, PlanApplied, PlanKnown, PlanCarriedOut, MayBeVain, Exists,
                      AttributesOf, Configurable, Computable
  <2> QED BY <1>2, <2>1, <2>2, <2>3, <2>4, <2>5 DEF PlanNext
<1> QED BY <1>1, <1>2, PTL DEF PlanSpec

(* For every kind of resource, any values and any number of changes of the  *)
(* configuration: Create and Update know every attribute in the end, and    *)
(* what is saved is what the system was given (Create and Update of each    *)
(* resource, against its Schema), but for what PlanKnown and MayBeVain      *)
(* name; a DHCP server or RADV saved as stopped is stopped, and a datastore *)
(* whose PID file still names it has the settings that were saved.         *)
THEOREM Applied == PlanSpec => []PlanApplied
  BY PlanAlways, PTL DEF PlanInv
=============================================================================
