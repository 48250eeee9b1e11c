------------------------------- MODULE Tailer -------------------------------
(***************************************************************************)
(* The serial console tailer, as a server: a goroutine per connection      *)
(* writes the lines of its client to one file, which is synced now and     *)
(* then; a signal ends the accept loop, the file is closed and the process *)
(* exits, whatever the connections are doing.                              *)
(***************************************************************************)
EXTENDS Naturals

CONSTANTS
    Conns,       \* connections
    MaxLines,    \* bounds the lines of each
    SyncEvery,   \* syncEvery
    NoConn

ASSUME TailAssumption == MaxLines \in Nat /\ SyncEvery \in Nat /\ NoConn \notin Conns

VARIABLES
    conns,     \* per connection: "new", or where its goroutine is; "gone"
    lines,     \* per connection: lines read from it
    tailMutex, \* t.mutex: a connection, "Close" or NoConn
    gauge,     \* t.gauge
    unsynced,  \* lines in the file since it was last synced
    missed,    \* how often a sync has failed since then
    tailFile,  \* "open", or how it was closed: "synced" or "unsynced"
    tailClosed,\* t.closed
    tailMain   \* where socketTailerMain is

tailVars == <<conns, lines, tailMutex, gauge, unsynced, missed, tailFile, tailClosed, tailMain>>

TailInit ==
    /\ conns = [k \in Conns |-> "new"]
    /\ lines = [k \in Conns |-> 0]
    /\ tailMutex = NoConn
    /\ gauge = SyncEvery /\ unsynced = 0 /\ missed = 0
    /\ tailFile = "open" /\ tailClosed = FALSE
    /\ tailMain = "serving"

TailRuns == tailMain # "exited"

(* The listener is closed when the signal comes.                           *)
Accept(k) ==
    /\ tailMain = "serving" /\ conns[k] = "new"
    /\ conns' = [conns EXCEPT ![k] = "scan"]
    /\ UNCHANGED <<lines, tailMutex, gauge, unsynced, missed, tailFile, tailClosed, tailMain>>

ScanLine(k) ==
    /\ TailRuns /\ conns[k] = "scan" /\ lines[k] < MaxLines
    /\ lines' = [lines EXCEPT ![k] = @ + 1]
    /\ conns' = [conns EXCEPT ![k] = "line"]
    /\ UNCHANGED <<tailMutex, gauge, unsynced, missed, tailFile, tailClosed, tailMain>>

HangUp(k) ==
    /\ TailRuns /\ conns[k] = "scan"
    /\ conns' = [conns EXCEPT ![k] = "gone"]
    /\ UNCHANGED <<lines, tailMutex, gauge, unsynced, missed, tailFile, tailClosed, tailMain>>

-----------------------------------------------------------------------------
(* WriteLine, under the mutex.                                             *)
LockTailer(k) ==
    /\ TailRuns /\ conns[k] = "line" /\ tailMutex = NoConn
    /\ tailMutex' = k
    /\ conns' = [conns EXCEPT ![k] = "locked"]
    /\ UNCHANGED <<lines, gauge, unsynced, missed, tailFile, tailClosed, tailMain>>

UnlockTailer(k) ==
    /\ tailMutex' = NoConn
    /\ conns' = [conns EXCEPT ![k] = "scan"]

(* The tailer is closed, or the write fails: the line is dropped.          *)
Refuse(k) ==
    /\ TailRuns /\ conns[k] = "locked"
    /\ UnlockTailer(k)
    /\ UNCHANGED <<lines, gauge, unsynced, missed, tailFile, tailClosed, tailMain>>

WriteOut(k) ==
    /\ TailRuns /\ conns[k] = "locked" /\ ~tailClosed /\ tailFile = "open"
    /\ unsynced' = unsynced + 1
    /\ conns' = [conns EXCEPT ![k] = "written"]
    /\ UNCHANGED <<lines, tailMutex, gauge, missed, tailFile, tailClosed, tailMain>>

(* Mutant: the gauge is counted down past zero.                            *)
CountDown_on(k) ==
    /\ TailRuns /\ conns[k] = "written"
    /\ gauge' = gauge - 1
    /\ UnlockTailer(k)
    /\ UNCHANGED <<lines, unsynced, missed, tailFile, tailClosed, tailMain>>

CountDown(k) ==
    /\ TailRuns /\ conns[k] = "written" /\ gauge > 0
    /\ gauge' = gauge - 1
    /\ UnlockTailer(k)
    /\ UNCHANGED <<lines, unsynced, missed, tailFile, tailClosed, tailMain>>

(* Mutant: the gauge is set whether or not the sync succeeds.              *)
SyncFile_anyway(k) ==
    /\ TailRuns /\ conns[k] = "written" /\ gauge = 0
    /\ \/ unsynced' = 0 /\ missed' = 0
       \/ missed' = missed + 1 /\ UNCHANGED unsynced
    /\ gauge' = SyncEvery
    /\ UnlockTailer(k)
    /\ UNCHANGED <<lines, tailFile, tailClosed, tailMain>>

(* After a failure the next line tries again.                              *)
SyncFile(k) ==
    /\ TailRuns /\ conns[k] = "written" /\ gauge = 0
    /\ \/ unsynced' = 0 /\ missed' = 0 /\ gauge' = SyncEvery
       \/ missed' = missed + 1 /\ UNCHANGED <<unsynced, gauge>>
    /\ UnlockTailer(k)
    /\ UNCHANGED <<lines, tailFile, tailClosed, tailMain>>

-----------------------------------------------------------------------------
Shutdown ==
    /\ tailMain = "serving"
    /\ tailMain' = "closing"
    /\ UNCHANGED <<conns, lines, tailMutex, gauge, unsynced, missed, tailFile, tailClosed>>

(* Close: waits for a line that is being written, syncs and closes.        *)
CloseTailer ==
    /\ tailMain = "closing" /\ tailMutex = NoConn
    /\ tailMain' = "cleanup"
    /\ \/ unsynced' = 0 /\ tailFile' = "synced" /\ tailClosed' = TRUE
       \/ UNCHANGED unsynced /\ tailFile' = "unsynced" /\ tailClosed' \in BOOLEAN
    /\ UNCHANGED <<conns, lines, tailMutex, gauge, missed>>

(* The file is closed once more, and the goroutines end with the process.  *)
Exit0 ==
    /\ tailMain = "cleanup"
    /\ tailMain' = "exited"
    /\ UNCHANGED <<conns, lines, tailMutex, gauge, unsynced, missed, tailFile, tailClosed>>

TailNext ==
    \/ \E k \in Conns : \/ Accept(k) \/ ScanLine(k) \/ HangUp(k)
                        \/ LockTailer(k) \/ Refuse(k) \/ WriteOut(k) \/ CountDown(k) \/ SyncFile(k)
    \/ Shutdown \/ CloseTailer \/ Exit0

TailSpec == TailInit /\ [][TailNext]_tailVars

-----------------------------------------------------------------------------
(* The variables keep their types.                                         *)
TailTypeOK ==
    /\ conns \in [Conns -> {"new", "scan", "line", "locked", "written", "gone"}]
    /\ lines \in [Conns -> 0..MaxLines]
    /\ tailMutex \in Conns \cup {NoConn}
    /\ gauge \in 0..SyncEvery /\ unsynced \in Nat /\ missed \in Nat
    /\ tailFile \in {"open", "synced", "unsynced"}
    /\ tailClosed \in BOOLEAN
    /\ tailMain \in {"serving", "closing", "cleanup", "exited"}

(***************************************************************************)
(* Between two lines, whichever connections they come from, no more than   *)
(* SyncEvery are not synced, one more for each sync that failed; and none  *)
(* of them is lost if the file was synced when it was closed, though the   *)
(* connections go on.                                                      *)
(***************************************************************************)
TailLinesKept ==
    /\ tailMutex = NoConn => unsynced <= SyncEvery + missed
    /\ tailFile = "synced" => unsynced = 0
=============================================================================
