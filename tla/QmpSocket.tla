----------------------------- MODULE QmpSocket -----------------------------
(***************************************************************************)
(* A QMP socket monitor: callers of Run, one goroutine that listens on the *)
(* connection, a consumer of its events and Disconnect.  The channels are  *)
(* unbuffered: a hand-over is one step of both sides.  A line of QEMU's is *)
(* the reply to a command or an event; the other side may also close or    *)
(* break the connection.                                                   *)
(***************************************************************************)
EXTENDS Naturals, Sequences

CONSTANTS
    Callers,        \* goroutines that call Run, once each
    MaxEvents,      \* bounds the events QEMU sends
    ConsumerStays,  \* who called Events receives until the channel is closed
    Nobody          \* no caller

ASSUME QmpAssumption == /\ MaxEvents \in Nat
                        /\ ConsumerStays \in BOOLEAN
                        /\ Nobody \notin Callers

VARIABLES
    qmpConn,    \* "dialed", "open", or how it ended: "closed", "eof", "reset"
    asking,     \* commands QEMU has yet to answer
    wire,       \* lines the listener has yet to read: a caller, or Nobody for an event
    sentEvents, \* how many events QEMU sent
    listener,   \* where the goroutine is, and the line it hands over
    listeners,  \* mon.listeners
    consumer,   \* who reads the events: "none", "reading" or "gone"
    runLock,    \* mon.mu: who holds it
    runs,       \* per caller: where its Run is, whose reply it was handed,
                \* and whose line the bytes it was handed hold by now
    disconnect  \* where Disconnect is

qmpVars == <<qmpConn, asking, wire, sentEvents, listener, listeners, consumer, runLock, runs, disconnect>>

QmpInit ==
    /\ qmpConn = "dialed"
    /\ asking = <<>>
    /\ wire = <<>>
    /\ sentEvents = 0
    /\ listener = [pc |-> "none", line |-> Nobody]
    /\ listeners = 0
    /\ consumer = "none"
    /\ runLock = Nobody
    /\ runs = [c \in Callers |-> [pc |-> "new", got |-> Nobody, buf |-> Nobody]]
    /\ disconnect = "none"

Ended == qmpConn \in {"closed", "eof", "reset"}

(* The banner and the handshake are over, and the listener is started.     *)
Connect ==
    /\ qmpConn = "dialed" /\ disconnect = "none"
    /\ qmpConn' = "open"
    /\ listener' = [listener EXCEPT !.pc = "scan"]
    /\ UNCHANGED <<asking, wire, sentEvents, listeners, consumer, runLock, runs, disconnect>>

(* "Events should only be called once per Socket."                         *)
Events ==
    /\ qmpConn # "dialed" /\ consumer = "none"
    /\ listeners' = listeners + 1
    /\ consumer' = "reading"
    /\ UNCHANGED <<qmpConn, asking, wire, sentEvents, listener, runLock, runs, disconnect>>

StopReading ==
    /\ consumer = "reading"
    /\ ConsumerStays => listener.pc = "done"
    /\ consumer' = "gone"
    /\ UNCHANGED <<qmpConn, asking, wire, sentEvents, listener, listeners, runLock, runs, disconnect>>

-----------------------------------------------------------------------------
(* QEMU.                                                                   *)
Answer ==
    /\ asking # <<>> /\ qmpConn = "open"
    /\ wire' = Append(wire, Head(asking))
    /\ asking' = Tail(asking)
    /\ UNCHANGED <<qmpConn, sentEvents, listener, listeners, consumer, runLock, runs, disconnect>>

SendEvent ==
    /\ qmpConn = "open" /\ sentEvents < MaxEvents
    /\ wire' = Append(wire, Nobody)
    /\ sentEvents' = sentEvents + 1
    /\ UNCHANGED <<qmpConn, asking, listener, listeners, consumer, runLock, runs, disconnect>>

Break ==
    /\ qmpConn = "open"
    /\ qmpConn' \in {"eof", "reset"}
    /\ UNCHANGED <<asking, wire, sentEvents, listener, listeners, consumer, runLock, runs, disconnect>>

-----------------------------------------------------------------------------
(* listen.  An event nobody listens to is not sent on.  A scanner's Bytes  *)
(* are good until the next Scan, which may read over them: as the buffer   *)
(* has it, the line lands on what was handed to any Run before, or not.    *)
Handed == {c \in Callers : runs[c].got # Nobody}

Scan ==
    /\ listener.pc = "scan" /\ wire # <<>>
    /\ wire' = Tail(wire)
    /\ \E over \in SUBSET Handed :
         runs' = [c \in Callers |-> IF c \in over THEN [runs[c] EXCEPT !.buf = Head(wire)] ELSE runs[c]]
    /\ listener' = [pc |-> IF Head(wire) # Nobody THEN "reply"
                           ELSE IF listeners = 0 THEN "scan" ELSE "event",
                    line |-> Head(wire)]
    /\ UNCHANGED <<qmpConn, asking, sentEvents, listeners, consumer, runLock, disconnect>>

(* Mutant: a listener that ends on an error leaves the stream open.        *)
ScanEnds_unclosed ==
    /\ listener.pc = "scan" /\ Ended
    /\ listener' = [pc |-> IF qmpConn = "eof" THEN "done" ELSE "none", line |-> Nobody]
    /\ UNCHANGED <<qmpConn, asking, wire, sentEvents, listeners, consumer, runLock, runs, disconnect>>

(* A connection closed here, or reset, is an error of the scanner, which   *)
(* goes to the stream; what it had not read yet may be lost.               *)
ScanEnds ==
    /\ listener.pc = "scan" /\ Ended
    /\ listener' = [pc |-> IF qmpConn = "eof" THEN "done" ELSE "error", line |-> Nobody]
    /\ UNCHANGED <<qmpConn, asking, wire, sentEvents, listeners, consumer, runLock, runs, disconnect>>

AfterSend == IF listener.pc = "error" THEN "done" ELSE "scan"

(* A reply, or the error, to the caller that waits for one: no copy of the *)
(* line, but the scanner's own bytes ...                                   *)
HandToRun(c) ==
    /\ listener.pc \in {"reply", "error"} /\ runs[c].pc = "receive"
    /\ runs' = [runs EXCEPT ![c] = [pc |-> "unlock", got |-> listener.line, buf |-> listener.line]]
    /\ listener' = [listener EXCEPT !.pc = AfterSend]
    /\ UNCHANGED <<qmpConn, asking, wire, sentEvents, listeners, consumer, runLock, disconnect>>

(* ... or to Disconnect, which drops it.                                   *)
HandToDisconnect ==
    /\ listener.pc \in {"reply", "error"} /\ disconnect = "drain"
    /\ listener' = [listener EXCEPT !.pc = AfterSend]
    /\ UNCHANGED <<qmpConn, asking, wire, sentEvents, listeners, consumer, runLock, runs, disconnect>>

HandEvent ==
    /\ listener.pc = "event" /\ consumer = "reading"
    /\ listener' = [listener EXCEPT !.pc = "scan"]
    /\ UNCHANGED <<qmpConn, asking, wire, sentEvents, listeners, consumer, runLock, runs, disconnect>>

-----------------------------------------------------------------------------
(* Run: one command at a time.                                             *)
(* Mutant: commands are not serialised.                                    *)
Lock_shared(c) ==
    /\ runs[c].pc = "new" /\ qmpConn # "dialed"
    /\ runs' = [runs EXCEPT ![c].pc = "write"]
    /\ UNCHANGED <<qmpConn, asking, wire, sentEvents, listener, listeners, consumer, runLock, disconnect>>

Lock(c) ==
    /\ runs[c].pc = "new" /\ qmpConn # "dialed"
    /\ runLock = Nobody
    /\ runLock' = c
    /\ runs' = [runs EXCEPT ![c].pc = "write"]
    /\ UNCHANGED <<qmpConn, asking, wire, sentEvents, listener, listeners, consumer, disconnect>>

(* What is written to a connection the other side has closed may be lost.  *)
Write(c) ==
    /\ runs[c].pc = "write"
    /\ \/ qmpConn = "open" /\ asking' = Append(asking, c) /\ runs' = [runs EXCEPT ![c].pc = "receive"]
       \/ qmpConn \in {"eof", "reset"} /\ runs' = [runs EXCEPT ![c].pc = "receive"] /\ UNCHANGED asking
       \/ Ended /\ runs' = [runs EXCEPT ![c].pc = "unlock"] /\ UNCHANGED asking
    /\ UNCHANGED <<qmpConn, wire, sentEvents, listener, listeners, consumer, runLock, disconnect>>

(* Nothing comes from a stream that is closed: an error of the decoder.    *)
StreamClosed(c) ==
    /\ runs[c].pc = "receive" /\ listener.pc = "done"
    /\ runs' = [runs EXCEPT ![c].pc = "unlock"]
    /\ UNCHANGED <<qmpConn, asking, wire, sentEvents, listener, listeners, consumer, runLock, disconnect>>

Unlock(c) ==
    /\ runs[c].pc = "unlock"
    /\ runs' = [runs EXCEPT ![c].pc = "returned"]
    /\ runLock' = IF runLock = c THEN Nobody ELSE runLock
    /\ UNCHANGED <<qmpConn, asking, wire, sentEvents, listener, listeners, consumer, disconnect>>

-----------------------------------------------------------------------------
(* Disconnect, at any time.                                                *)
ClearListeners ==
    /\ disconnect = "none"
    /\ listeners' = 0
    /\ disconnect' = "close"
    /\ UNCHANGED <<qmpConn, asking, wire, sentEvents, listener, consumer, runLock, runs>>

CloseConn ==
    /\ disconnect = "close"
    /\ qmpConn' = "closed"
    /\ disconnect' = IF listener.pc = "none" THEN "returned" ELSE "drain"
    /\ UNCHANGED <<asking, wire, sentEvents, listener, listeners, consumer, runLock, runs>>

Drained ==
    /\ disconnect = "drain" /\ listener.pc = "done"
    /\ disconnect' = "returned"
    /\ UNCHANGED <<qmpConn, asking, wire, sentEvents, listener, listeners, consumer, runLock, runs>>

Listening == Scan \/ ScanEnds \/ (\E c \in Callers : HandToRun(c)) \/ HandToDisconnect \/ HandEvent
Running(c) == Write(c) \/ StreamClosed(c) \/ Unlock(c)
Disconnecting == CloseConn \/ Drained

QmpNext ==
    \/ Connect \/ Events \/ StopReading
    \/ Answer \/ SendEvent \/ Break
    \/ Listening
    \/ \E c \in Callers : Lock(c) \/ Running(c)
    \/ ClearListeners \/ Disconnecting

(* The goroutines run, a mutex is handed on, and QEMU answers.             *)
QmpFairness ==
    /\ WF_qmpVars(Listening) /\ WF_qmpVars(Answer) /\ WF_qmpVars(Disconnecting)
    /\ \A c \in Callers : WF_qmpVars(Running(c))

QmpSpec == QmpInit /\ [][QmpNext]_qmpVars /\ QmpFairness

-----------------------------------------------------------------------------
(* The variables keep their types.                                         *)
QmpTypeOK ==
    /\ qmpConn \in {"dialed", "open", "closed", "eof", "reset"}
    /\ asking \in Seq(Callers)
    /\ wire \in Seq(Callers \cup {Nobody})
    /\ sentEvents \in 0..MaxEvents
    /\ listener \in [pc : {"none", "scan", "reply", "event", "error", "done"}, line : Callers \cup {Nobody}]
    /\ listeners \in Nat
    /\ consumer \in {"none", "reading", "gone"}
    /\ runLock \in Callers \cup {Nobody}
    /\ runs \in [Callers -> [pc : {"new", "write", "receive", "unlock", "returned"},
                           got : Callers \cup {Nobody}, buf : Callers \cup {Nobody}]]
    /\ disconnect \in {"none", "close", "drain", "returned"}

(* The line a Run is handed is the reply to its own command, whatever      *)
(* events, errors and Disconnect come in between, and until the Run        *)
(* returns no reply to another command lands on it (an event may).         *)
QmpOwnReply ==
    \A c \in Callers :
        /\ runs[c].got \in {c, Nobody}
        /\ runs[c].pc # "returned" => runs[c].buf \in {c, Nobody}

(* Every Run returns, and so does Disconnect, as long as whoever asked for *)
(* events receives them.                                                   *)
QmpReturns ==
    /\ \A c \in Callers : runs[c].pc = "write" ~> runs[c].pc = "returned"
    /\ disconnect = "close" ~> disconnect = "returned"
=============================================================================
