------------------------- MODULE Connections_proofs -------------------------
(***************************************************************************)
(* The connections the provider holds, for any number of callers.  SSH:    *)
(* what a failed dial, a late socket or Close leaves open, and how often   *)
(* an agent is asked for.  The socket of QEMU's monitor: a Run that gets a *)
(* reply gets the one to its own command.                                  *)
(***************************************************************************)
EXTENDS SshExecutor, QmpSocket, SequenceTheorems, TLAPS

-----------------------------------------------------------------------------
(* The SSH executor.                                                       *)

(* The mutex is held by the caller that dials, and it dials the newest     *)
(* connection while none is cached.                                        *)
DialHolds == {"dialing", "forward", "sftp"}

MutexInv ==
    /\ \A c \in SshCallers : sshAt[c].pc \in DialHolds <=> sshLock = c
    /\ sshLock # NoCaller =>
         sshConn = 0 /\ sshDials # 0 /\ sshAt[sshLock].conn = sshDials
    /\ sshConn <= sshDials

(* The agent is asked for after the last hop and before sftp.              *)
ForwardInv ==
    /\ \A k \in Dials : sshAsked[k] <= 1
    /\ \A k \in Dials : k > sshDials => sshAsked[k] = 0
    /\ \A c \in SshCallers :
         /\ sshAt[c].pc \in {"dialing", "forward"} => sshAsked[sshAt[c].conn] = 0
         /\ sshAt[c].pc = "sftp" /\ ForwardAgent => sshAsked[sshAt[c].conn] = 1

SshInv == SshTypeOK /\ MutexInv /\ ForwardInv /\ SshNothingLeaks /\ SshForwardsOnce

LEMMA SshBounds == MaxDials \in Nat /\ Hops \in Nat \ {0} /\ NoCaller \notin SshCallers
  BY SshAssumption

LEMMA SshStarts == SshInit => SshInv
<1> SUFFICES ASSUME SshInit PROVE SshInv
  OBVIOUS
<1>1. SshTypeOK
  <2>1. sshAt \in [SshCallers -> [pc : {"idle", "dialing", "forward", "sftp", "using", "awaiting"}, conn : 0..MaxDials]]
    BY SshBounds DEF SshInit
  <2>2. sshDial \in [SshCallers -> [step : {"none", "asked", "answered", "mine", "abandoned", "late"}, on : 0..MaxDials]]
    BY SshBounds DEF SshInit
  <2>3. sshAsked \in [Dials -> Nat]
    BY DEF SshInit
  <2> QED BY SshBounds, <2>1, <2>2, <2>3 DEF SshInit, SshTypeOK
<1>2. MutexInv /\ ForwardInv
  BY SshBounds DEF SshInit, MutexInv, ForwardInv, DialHolds
<1>3. SshNothingLeaks /\ SshForwardsOnce
  BY SshBounds DEF SshInit, SshNothingLeaks, SshForwardsOnce
<1> QED BY <1>1, <1>2, <1>3 DEF SshInv

(* A caller that dials holds the mutex and dials the newest connection.    *)
LEMMA Dialer ==
  ASSUME SshTypeOK, MutexInv, NEW c \in SshCallers, sshAt[c].pc \in DialHolds
  PROVE  /\ sshLock = c /\ sshConn = 0
         /\ sshAt[c].conn = sshDials /\ sshAt[c].conn \in Dials
<1>1. sshLock = c
  BY DEF MutexInv
<1>2. sshLock # NoCaller
  BY <1>1, SshBounds
<1> QED BY <1>1, <1>2, SshBounds DEF MutexInv, SshTypeOK, Dials

LEMMA SshTypesKept == SshTypeOK /\ MutexInv /\ [SshNext]_sshVars => SshTypeOK'
<1> SUFFICES ASSUME SshTypeOK, MutexInv, [SshNext]_sshVars PROVE SshTypeOK'
  OBVIOUS
<1> USE SshBounds DEF SshTypeOK, Dials
<1>1. ASSUME NEW c \in SshCallers, HandOut(c) PROVE SshTypeOK'
  BY <1>1 DEF HandOut
<1>2. ASSUME NEW c \in SshCallers, StartDial(c) PROVE SshTypeOK'
  BY <1>2 DEF StartDial
<1>3. ASSUME NEW c \in SshCallers, NextHop(c) PROVE SshTypeOK'
  <2>1. sshAt[c].conn \in Dials
    BY <1>3, Dialer DEF NextHop, DialHolds
  <2>2. PICK n \in 1..Hops : sshOpen' = sshOpen \cup {Hop(sshAt[c].conn, n)}
    BY <1>3 DEF NextHop
  <2>3. Hop(sshAt[c].conn, n) \in Clients
    BY <2>1 DEF Hop, Clients
  <2> QED BY <1>3, <2>2, <2>3 DEF NextHop
<1>4. ASSUME NEW c \in SshCallers, requestAgentForwarding(c) PROVE SshTypeOK'
  <2>1. sshAt[c].conn \in Dials
    BY <1>4, Dialer DEF requestAgentForwarding, DialHolds
  <2>2. sshAsked' \in [Dials -> Nat]
    BY <1>4, <2>1 DEF requestAgentForwarding
  <2> QED BY <1>4, <2>2 DEF requestAgentForwarding
<1>5. ASSUME NEW c \in SshCallers, Connected(c) PROVE SshTypeOK'
  <2>1. sshAt[c].conn \in Dials
    BY <1>5, Dialer DEF Connected, DialHolds
  <2> QED BY <1>5, <2>1 DEF Connected
<1>6. ASSUME NEW c \in SshCallers, DialFails(c) PROVE SshTypeOK'
  BY <1>6 DEF DialFails
<1>7. ASSUME NEW c \in SshCallers, Command(c) PROVE SshTypeOK'
  BY <1>7 DEF Command
<1>8. ASSUME NEW c \in SshCallers, DialSocket(c) PROVE SshTypeOK'
  BY <1>8 DEF DialSocket
<1>9. ASSUME NEW c \in SshCallers, SocketAnswers(c) PROVE SshTypeOK'
  BY <1>9 DEF SocketAnswers
<1>10. ASSUME NEW c \in SshCallers, TakeSocket(c) PROVE SshTypeOK'
  <2>1. sshAt' \in [SshCallers -> [pc : {"idle", "dialing", "forward", "sftp", "using", "awaiting"}, conn : 0..MaxDials]]
    BY <1>10 DEF TakeSocket
  <2>2. sshDial' \in [SshCallers -> [step : {"none", "asked", "answered", "mine", "abandoned", "late"}, on : 0..MaxDials]]
    <3>1. PICK st \in {"none", "mine", "abandoned", "late"} : sshDial' = [sshDial EXCEPT ![c].step = st]
      BY <1>10 DEF TakeSocket
    <3> QED BY <3>1
  <2> QED BY <1>10, <2>1, <2>2 DEF TakeSocket
<1>11. ASSUME NEW c \in SshCallers, TimeOut(c) PROVE SshTypeOK'
  <2>1. sshAt' \in [SshCallers -> [pc : {"idle", "dialing", "forward", "sftp", "using", "awaiting"}, conn : 0..MaxDials]]
    BY <1>11 DEF TimeOut
  <2>2. sshDial' \in [SshCallers -> [step : {"none", "asked", "answered", "mine", "abandoned", "late"}, on : 0..MaxDials]]
    <3>1. PICK st \in {"none", "mine", "abandoned", "late"} : sshDial' = [sshDial EXCEPT ![c].step = st]
      BY <1>11 DEF TimeOut
    <3> QED BY <3>1
  <2> QED BY <1>11, <2>1, <2>2 DEF TimeOut
<1>12. ASSUME NEW c \in SshCallers, CloseSocket(c) PROVE SshTypeOK'
  BY <1>12 DEF CloseSocket
<1>13. CASE CloseSsh
  BY <1>13 DEF CloseSsh
<1>14. ASSUME NEW k \in Dials, KeepaliveEnds(k) PROVE SshTypeOK'
  BY <1>14 DEF KeepaliveEnds
<1>15. ASSUME NEW k \in Dials, LoseLink(k) PROVE SshTypeOK'
  BY <1>15 DEF LoseLink
<1>16. CASE UNCHANGED sshVars
  BY <1>16 DEF sshVars
<1> QED BY <1>1, <1>2, <1>3, <1>4, <1>5, <1>6, <1>7, <1>8, <1>9, <1>10, <1>11, <1>12, <1>13, <1>14, <1>15, <1>16 DEF SshNext

LEMMA SshMutexKept == SshTypeOK /\ MutexInv /\ [SshNext]_sshVars => MutexInv'
<1> SUFFICES ASSUME SshTypeOK, MutexInv, [SshNext]_sshVars PROVE MutexInv'
  OBVIOUS
<1> USE SshBounds DEF SshTypeOK, MutexInv, DialHolds, Dials
<1>1. ASSUME NEW c \in SshCallers, HandOut(c) PROVE MutexInv'
  BY <1>1 DEF HandOut
<1>2. ASSUME NEW c \in SshCallers, StartDial(c) PROVE MutexInv'
  BY <1>2 DEF StartDial
<1>3. ASSUME NEW c \in SshCallers, NextHop(c) PROVE MutexInv'
  BY <1>3 DEF NextHop
<1>4. ASSUME NEW c \in SshCallers, requestAgentForwarding(c) PROVE MutexInv'
  BY <1>4 DEF requestAgentForwarding
<1>5. ASSUME NEW c \in SshCallers, Connected(c) PROVE MutexInv'
  BY <1>5 DEF Connected
<1>6. ASSUME NEW c \in SshCallers, DialFails(c) PROVE MutexInv'
  BY <1>6 DEF DialFails
<1>7. ASSUME NEW c \in SshCallers, Command(c) PROVE MutexInv'
  BY <1>7 DEF Command
<1>8. ASSUME NEW c \in SshCallers, DialSocket(c) PROVE MutexInv'
  BY <1>8 DEF DialSocket
<1>9. ASSUME NEW c \in SshCallers, SocketAnswers(c) PROVE MutexInv'
  BY <1>9 DEF SocketAnswers
<1>10. ASSUME NEW c \in SshCallers, TakeSocket(c) PROVE MutexInv'
  BY <1>10 DEF TakeSocket
<1>11. ASSUME NEW c \in SshCallers, TimeOut(c) PROVE MutexInv'
  BY <1>11 DEF TimeOut
<1>12. ASSUME NEW c \in SshCallers, CloseSocket(c) PROVE MutexInv'
  BY <1>12 DEF CloseSocket
<1>13. CASE CloseSsh
  BY <1>13 DEF CloseSsh
<1>14. ASSUME NEW k \in Dials, KeepaliveEnds(k) PROVE MutexInv'
  BY <1>14 DEF KeepaliveEnds
<1>15. ASSUME NEW k \in Dials, LoseLink(k) PROVE MutexInv'
  BY <1>15 DEF LoseLink
<1>16. CASE UNCHANGED sshVars
  BY <1>16 DEF sshVars
<1> QED BY <1>1, <1>2, <1>3, <1>4, <1>5, <1>6, <1>7, <1>8, <1>9, <1>10, <1>11, <1>12, <1>13, <1>14, <1>15, <1>16 DEF SshNext

(* Only the caller that holds the mutex asks, and only for its own         *)
(* connection, which no other caller has.                                  *)
LEMMA SshForwardKept == SshInv /\ [SshNext]_sshVars => (ForwardInv /\ SshForwardsOnce)'
<1> SUFFICES ASSUME SshInv, [SshNext]_sshVars PROVE (ForwardInv /\ SshForwardsOnce)'
  OBVIOUS
<1> USE SshBounds DEF SshInv, SshTypeOK, MutexInv, ForwardInv, SshForwardsOnce, DialHolds, Dials
<1>1. ASSUME NEW c \in SshCallers, HandOut(c) PROVE (ForwardInv /\ SshForwardsOnce)'
  <2>1. /\ \A d \in SshCallers : sshAt'[d].pc \in {"dialing", "forward", "sftp"} =>
               sshAt'[d] = sshAt[d]
        /\ UNCHANGED <<sshAsked, sshDials, sshConn>>
    BY <1>1 DEF HandOut
  <2> QED BY <2>1
<1>2. ASSUME NEW c \in SshCallers, StartDial(c) PROVE (ForwardInv /\ SshForwardsOnce)'
  BY <1>2 DEF StartDial
<1>3. ASSUME NEW c \in SshCallers, NextHop(c) PROVE (ForwardInv /\ SshForwardsOnce)'
  BY <1>3 DEF NextHop
<1>4. ASSUME NEW c \in SshCallers, requestAgentForwarding(c) PROVE (ForwardInv /\ SshForwardsOnce)'
  BY <1>4 DEF requestAgentForwarding
<1>5. ASSUME NEW c \in SshCallers, Connected(c) PROVE (ForwardInv /\ SshForwardsOnce)'
  BY <1>5 DEF Connected
<1>6. ASSUME NEW c \in SshCallers, DialFails(c) PROVE (ForwardInv /\ SshForwardsOnce)'
  <2>1. /\ \A d \in SshCallers : sshAt'[d].pc \in {"dialing", "forward", "sftp"} =>
               sshAt'[d] = sshAt[d]
        /\ UNCHANGED <<sshAsked, sshDials, sshConn>>
    BY <1>6 DEF DialFails
  <2> QED BY <2>1
<1>7. ASSUME NEW c \in SshCallers, Command(c) PROVE (ForwardInv /\ SshForwardsOnce)'
  <2>1. /\ \A d \in SshCallers : sshAt'[d].pc \in {"dialing", "forward", "sftp"} =>
               sshAt'[d] = sshAt[d]
        /\ UNCHANGED <<sshAsked, sshDials, sshConn>>
    BY <1>7 DEF Command
  <2> QED BY <2>1
<1>8. ASSUME NEW c \in SshCallers, DialSocket(c) PROVE (ForwardInv /\ SshForwardsOnce)'
  <2>1. /\ \A d \in SshCallers : sshAt'[d].pc \in {"dialing", "forward", "sftp"} =>
               sshAt'[d] = sshAt[d]
        /\ UNCHANGED <<sshAsked, sshDials, sshConn>>
    BY <1>8 DEF DialSocket
  <2> QED BY <2>1
<1>9. ASSUME NEW c \in SshCallers, SocketAnswers(c) PROVE (ForwardInv /\ SshForwardsOnce)'
  BY <1>9 DEF SocketAnswers
<1>10. ASSUME NEW c \in SshCallers, TakeSocket(c) PROVE (ForwardInv /\ SshForwardsOnce)'
  <2>1. /\ \A d \in SshCallers : sshAt'[d].pc \in {"dialing", "forward", "sftp"} =>
               sshAt'[d] = sshAt[d]
        /\ UNCHANGED <<sshAsked, sshDials, sshConn>>
    BY <1>10 DEF TakeSocket
  <2> QED BY <2>1
<1>11. ASSUME NEW c \in SshCallers, TimeOut(c) PROVE (ForwardInv /\ SshForwardsOnce)'
  <2>1. /\ \A d \in SshCallers : sshAt'[d].pc \in {"dialing", "forward", "sftp"} =>
               sshAt'[d] = sshAt[d]
        /\ UNCHANGED <<sshAsked, sshDials, sshConn>>
    BY <1>11 DEF TimeOut
  <2> QED BY <2>1
<1>12. ASSUME NEW c \in SshCallers, CloseSocket(c) PROVE (ForwardInv /\ SshForwardsOnce)'
  BY <1>12 DEF CloseSocket
<1>13. CASE CloseSsh
  BY <1>13 DEF CloseSsh
<1>14. ASSUME NEW k \in Dials, KeepaliveEnds(k) PROVE (ForwardInv /\ SshForwardsOnce)'
  BY <1>14 DEF KeepaliveEnds
<1>15. ASSUME NEW k \in Dials, LoseLink(k) PROVE (ForwardInv /\ SshForwardsOnce)'
  BY <1>15 DEF LoseLink
<1>16. CASE UNCHANGED sshVars
  BY <1>16 DEF sshVars
<1> QED BY <1>1, <1>2, <1>3, <1>4, <1>5, <1>6, <1>7, <1>8, <1>9, <1>10, <1>11, <1>12, <1>13, <1>14, <1>15, <1>16 DEF SshNext

(* What is open belongs to the cached connection or to the dial under way; *)
(* a dial that fails and Close close all that belongs to theirs.           *)
LEMMA SshClosedKept == SshInv /\ [SshNext]_sshVars => SshNothingLeaks'
<1> SUFFICES ASSUME SshInv, [SshNext]_sshVars PROVE SshNothingLeaks'
  OBVIOUS
<1> USE SshBounds DEF SshInv, SshTypeOK, MutexInv, SshNothingLeaks, DialHolds, Dials
<1>1. ASSUME NEW c \in SshCallers, HandOut(c) PROVE SshNothingLeaks'
  BY <1>1 DEF HandOut
<1>2. ASSUME NEW c \in SshCallers, StartDial(c) PROVE SshNothingLeaks'
  BY <1>2 DEF StartDial
<1>3. ASSUME NEW c \in SshCallers, NextHop(c) PROVE SshNothingLeaks'
  <2>1. sshLock = c /\ sshLock' = c /\ sshAt'[c].conn = sshAt[c].conn /\ sshConn' = sshConn
        /\ sshDial' = sshDial /\ sshSockets' = sshSockets
    BY <1>3 DEF NextHop
  <2>2. \A o \in sshOpen' : o \in sshOpen \/ o[1] = sshAt[c].conn
    BY <1>3 DEF NextHop, Hop
  <2> QED BY <2>1, <2>2
<1>4. ASSUME NEW c \in SshCallers, requestAgentForwarding(c) PROVE SshNothingLeaks'
  BY <1>4 DEF requestAgentForwarding
<1>5. ASSUME NEW c \in SshCallers, Connected(c) PROVE SshNothingLeaks'
  <2>1. sshLock = c /\ sshConn = 0 /\ sshConn' = sshAt[c].conn
    BY <1>5, Dialer DEF Connected
  <2>2. \A o \in sshOpen : o[1] = sshAt[c].conn
    <3>1. \A o \in sshOpen : o[1] \in Dials
      BY DEF Clients
    <3> QED BY <2>1, <3>1
  <2>3. UNCHANGED <<sshOpen, sshSockets, sshDial>>
    BY <1>5 DEF Connected
  <2> QED BY <2>1, <2>2, <2>3
<1>6. ASSUME NEW c \in SshCallers, DialFails(c) PROVE SshNothingLeaks'
  BY <1>6 DEF DialFails, ClientsOf
<1>7. ASSUME NEW c \in SshCallers, Command(c) PROVE SshNothingLeaks'
  BY <1>7 DEF Command
<1>8. ASSUME NEW c \in SshCallers, DialSocket(c) PROVE SshNothingLeaks'
  BY <1>8 DEF DialSocket
<1>9. ASSUME NEW c \in SshCallers, SocketAnswers(c) PROVE SshNothingLeaks'
  BY <1>9 DEF SocketAnswers
<1>10. ASSUME NEW c \in SshCallers, TakeSocket(c) PROVE SshNothingLeaks'
  BY <1>10 DEF TakeSocket
<1>11. ASSUME NEW c \in SshCallers, TimeOut(c) PROVE SshNothingLeaks'
  BY <1>11 DEF TimeOut
<1>12. ASSUME NEW c \in SshCallers, CloseSocket(c) PROVE SshNothingLeaks'
  BY <1>12 DEF CloseSocket
<1>13. CASE CloseSsh
  BY <1>13 DEF CloseSsh, ClientsOf
<1>14. ASSUME NEW k \in Dials, KeepaliveEnds(k) PROVE SshNothingLeaks'
  BY <1>14 DEF KeepaliveEnds
<1>15. ASSUME NEW k \in Dials, LoseLink(k) PROVE SshNothingLeaks'
  BY <1>15 DEF LoseLink
<1>16. CASE UNCHANGED sshVars
  BY <1>16 DEF sshVars
<1> QED BY <1>1, <1>2, <1>3, <1>4, <1>5, <1>6, <1>7, <1>8, <1>9, <1>10, <1>11, <1>12, <1>13, <1>14, <1>15, <1>16 DEF SshNext

LEMMA SshInvariant == SshSpec => []SshInv
<1>1. SshInv /\ [SshNext]_sshVars => SshInv'
  BY SshTypesKept, SshMutexKept, SshForwardKept, SshClosedKept DEF SshInv
<1> QED BY SshStarts, <1>1, PTL DEF SshSpec

(* Whatever fails and whoever closes or gives up: a client that is open    *)
(* belongs to the cached connection or to the dial that holds the mutex,   *)
(* an open socket to someone who closes it.                                *)
THEOREM NothingStaysOpen == SshSpec => []SshNothingLeaks
<1>1. SshInv => SshNothingLeaks
  BY DEF SshInv
<1> QED BY SshInvariant, <1>1, PTL

(* A connection that is handed out has asked for the agent once, if at all,*)
(* however many callers wanted it at the same time.                        *)
THEOREM AskedOnce == SshSpec => []SshForwardsOnce
<1>1. SshInv => SshForwardsOnce
  BY DEF SshInv
<1> QED BY SshInvariant, <1>1, PTL

-----------------------------------------------------------------------------
(* The socket of QEMU's monitor.                                           *)

(* The mutex is held from the writing of a command to the return of its Run, *)
(* and nobody has been handed anything before.                              *)
HoldsLock ==
    \A c \in Callers :
        /\ runs[c].pc \in {"write", "receive", "unlock"} => runLock = c
        /\ runs[c].pc = "new" => runs[c].got = Nobody

(* While the connection is open its listener runs, and it has run since. *)
Listens == /\ qmpConn = "open" => listener.pc \in {"scan", "reply", "event"}
           /\ qmpConn = "dialed" => listener.pc = "none"
           /\ listener.pc = "none" => asking = <<>> /\ wire = <<>>
           /\ listener.pc = "error" => listener.line = Nobody

Alive      == listener.pc \notin {"error", "done"}
Waits(c)   == c \in Callers /\ runLock = c /\ runs[c].pc = "receive"
NoReplyOn  == \A i \in 1..Len(wire) : wire[i] = Nobody

(* As long as replies are handed over, the only one on its way, if there is *)
(* one, is to the Run that waits: whether QEMU has yet to give it, or the   *)
(* listener to read it, or to hand it over.                                *)
OneReply ==
    Alive =>
      /\ asking # <<>> => /\ Len(asking) = 1 /\ Waits(asking[1])
                          /\ NoReplyOn /\ listener.pc # "reply"
      /\ \A i \in 1..Len(wire) : wire[i] # Nobody =>
            /\ Waits(wire[i]) /\ asking = <<>> /\ listener.pc # "reply"
            /\ \A j \in 1..Len(wire) : j # i => wire[j] = Nobody
      /\ listener.pc = "reply" => Waits(listener.line) /\ asking = <<>> /\ NoReplyOn

QmpInv == QmpTypeOK /\ HoldsLock /\ Listens /\ OneReply /\ QmpOwnReply

-----------------------------------------------------------------------------
(* What Append and Tail do to the lines on the wire and to the commands     *)
(* that wait for an answer.                                                *)
LEMMA AppendAt ==
    ASSUME NEW S, NEW s \in Seq(S), NEW x \in S
    PROVE  /\ Append(s, x) \in Seq(S) /\ Len(Append(s, x)) = Len(s) + 1
           /\ Append(s, x) # <<>>
           /\ \A i \in 1..Len(s) : Append(s, x)[i] = s[i]
           /\ Append(s, x)[Len(s) + 1] = x
  OBVIOUS

LEMMA TailAt ==
    ASSUME NEW S, NEW s \in Seq(S), s # <<>>
    PROVE  /\ Tail(s) \in Seq(S) /\ Len(s) \in Nat \ {0} /\ Len(Tail(s)) = Len(s) - 1
           /\ \A i \in 1..Len(Tail(s)) : i + 1 \in 1..Len(s) /\ Tail(s)[i] = s[i + 1]
           /\ 1 \in 1..Len(s) /\ Head(s) = s[1] /\ Head(s) \in S
           /\ Len(s) = 1 => Tail(s) = <<>>
<1>1. Len(s) \in Nat \ {0} /\ Tail(s) \in Seq(S) /\ Len(Tail(s)) = Len(s) - 1
  OBVIOUS
<1>2. ASSUME NEW i \in 1..Len(Tail(s)) PROVE i + 1 \in 1..Len(s) /\ Tail(s)[i] = s[i + 1]
  <2>1. i \in 1..(Len(s) - 1)
    BY <1>1
  <2>2. i + 1 \in 1..Len(s)
    BY <1>1, <2>1
  <2>3. Tail(s)[i] = s[i + 1]
    BY <2>1
  <2> QED BY <2>2, <2>3
<1>3. 1 \in 1..Len(s) /\ Head(s) = s[1] /\ s[1] \in S
  BY <1>1
<1>4. Len(s) = 1 => Tail(s) = <<>>
  <2>1. Tail(s) # <<>> => Len(Tail(s)) \in Nat \ {0}
    BY <1>1, EmptySeq, Zenon
  <2> QED BY <1>1, <2>1
<1> QED BY <1>1, <1>2, <1>3, <1>4

(* The variables keep their types, whatever a step does. *)
LEMMA QmpTypesKept ==
    ASSUME QmpTypeOK, [QmpNext]_qmpVars
    PROVE  QmpTypeOK'
<1> USE QmpAssumption DEF QmpTypeOK
<1>1. CASE Connect BY <1>1 DEF Connect
<1>2. CASE Events BY <1>2 DEF Events
<1>3. CASE StopReading BY <1>3 DEF StopReading
<1>4. CASE Answer
  <2>1. asking' \in Seq(Callers) /\ Head(asking) \in Callers
    BY <1>4, TailAt DEF Answer
  <2>2. wire' \in Seq(Callers \cup {Nobody})
    BY <1>4, <2>1, AppendAt DEF Answer
  <2> QED BY <1>4, <2>1, <2>2 DEF Answer
<1>5. CASE SendEvent
  <2>1. wire' \in Seq(Callers \cup {Nobody})
    BY <1>5, AppendAt DEF SendEvent
  <2> QED BY <1>5, <2>1 DEF SendEvent
<1>6. CASE Break BY <1>6 DEF Break
<1>7. CASE Scan
  <2>1. wire' \in Seq(Callers \cup {Nobody}) /\ Head(wire) \in Callers \cup {Nobody}
    BY <1>7, TailAt DEF Scan
  <2>2. \A c \in Callers : [runs[c] EXCEPT !.buf = Head(wire)] \in
          [pc : {"new", "write", "receive", "unlock", "returned"},
           got : Callers \cup {Nobody}, buf : Callers \cup {Nobody}]
    BY <2>1
  <2>3. runs' \in [Callers -> [pc : {"new", "write", "receive", "unlock", "returned"},
                              got : Callers \cup {Nobody}, buf : Callers \cup {Nobody}]]
    BY <1>7, <2>2 DEF Scan
  <2> QED BY <1>7, <2>1, <2>3 DEF Scan
<1>8. CASE ScanEnds BY <1>8 DEF ScanEnds
<1>9. ASSUME NEW c \in Callers, HandToRun(c) PROVE QmpTypeOK'
  <2>1. runs' \in [Callers -> [pc : {"new", "write", "receive", "unlock", "returned"},
                              got : Callers \cup {Nobody}, buf : Callers \cup {Nobody}]]
    BY <1>9 DEF HandToRun
  <2> QED BY <1>9, <2>1 DEF HandToRun, AfterSend
<1>10. CASE HandToDisconnect BY <1>10 DEF HandToDisconnect, AfterSend
<1>11. CASE HandEvent BY <1>11 DEF HandEvent
<1>12. ASSUME NEW c \in Callers, Lock(c) PROVE QmpTypeOK'
  BY <1>12 DEF Lock
<1>13. ASSUME NEW c \in Callers, Write(c) PROVE QmpTypeOK'
  <2>1. Append(asking, c) \in Seq(Callers)
    BY AppendAt
  <2>2. asking' \in Seq(Callers)
    BY <1>13, <2>1 DEF Write
  <2>3. runs' \in [Callers -> [pc : {"new", "write", "receive", "unlock", "returned"},
                              got : Callers \cup {Nobody}, buf : Callers \cup {Nobody}]]
    <3>1. \E p \in {"receive", "unlock"} : runs' = [runs EXCEPT ![c].pc = p]
      BY <1>13 DEF Write
    <3>2. PICK p \in {"receive", "unlock"} : runs' = [runs EXCEPT ![c].pc = p]
      BY <3>1
    <3>3. [runs[c] EXCEPT !.pc = p] \in [pc : {"new", "write", "receive", "unlock", "returned"},
                                        got : Callers \cup {Nobody}, buf : Callers \cup {Nobody}]
      OBVIOUS
    <3>4. runs' = [d \in Callers |-> IF d = c THEN [runs[c] EXCEPT !.pc = p] ELSE runs[d]]
      BY <3>2
    <3> QED BY <3>3, <3>4
  <2> QED BY <1>13, <2>2, <2>3 DEF Write
<1>14. ASSUME NEW c \in Callers, StreamClosed(c) PROVE QmpTypeOK'
  BY <1>14 DEF StreamClosed
<1>15. ASSUME NEW c \in Callers, Unlock(c) PROVE QmpTypeOK'
  BY <1>15 DEF Unlock
<1>16. CASE ClearListeners BY <1>16 DEF ClearListeners
<1>17. CASE CloseConn BY <1>17 DEF CloseConn
<1>18. CASE Drained BY <1>18 DEF Drained
<1>19. CASE UNCHANGED qmpVars BY <1>19 DEF qmpVars
<1> QED BY <1>1, <1>2, <1>3, <1>4, <1>5, <1>6, <1>7, <1>8, <1>9, <1>10, <1>11, <1>12, <1>13, <1>14,
           <1>15, <1>16, <1>17, <1>18, <1>19 DEF QmpNext, Listening, Running, Disconnecting

(* What a Scan reads may land on any bytes that were handed over, and       *)
(* changes nothing else of a Run.                                          *)
LEMMA Lands ==
    ASSUME QmpTypeOK, Scan, NEW c \in Callers
    PROVE  /\ runs'[c].pc = runs[c].pc /\ runs'[c].got = runs[c].got
           /\ runs'[c].buf # runs[c].buf => runs[c].got # Nobody /\ runs'[c].buf = Head(wire)
<1>1. PICK over \in SUBSET Handed :
        runs' = [d \in Callers |-> IF d \in over THEN [runs[d] EXCEPT !.buf = Head(wire)] ELSE runs[d]]
  BY DEF Scan
<1>2. runs[c] \in [pc : {"new", "write", "receive", "unlock", "returned"},
                  got : Callers \cup {Nobody}, buf : Callers \cup {Nobody}]
  BY DEF QmpTypeOK
<1>3. runs'[c] = IF c \in over THEN [runs[c] EXCEPT !.buf = Head(wire)] ELSE runs[c]
  BY <1>1
<1>4. c \in over => runs[c].got # Nobody
  BY DEF Handed
<1> QED BY <1>2, <1>3, <1>4

(* A Run keeps the mutex, and the listener the connection. *)
LEMMA QmpOrderKept ==
    ASSUME QmpTypeOK, HoldsLock, Listens, [QmpNext]_qmpVars
    PROVE  HoldsLock' /\ Listens'
<1> USE QmpAssumption DEF QmpTypeOK, HoldsLock, Listens
<1>1. CASE Connect BY <1>1 DEF Connect
<1>2. CASE Events BY <1>2 DEF Events
<1>3. CASE StopReading BY <1>3 DEF StopReading
<1>4. CASE Answer BY <1>4 DEF Answer
<1>5. CASE SendEvent BY <1>5 DEF SendEvent
<1>6. CASE Break BY <1>6 DEF Break
<1>7. CASE Scan BY <1>7 DEF Scan
<1>8. CASE ScanEnds BY <1>8 DEF ScanEnds, Ended
<1>9. ASSUME NEW c \in Callers, HandToRun(c) PROVE HoldsLock' /\ Listens'
  <2>1. HoldsLock' BY <1>9 DEF HandToRun
  <2>2. Listens' BY <1>9 DEF HandToRun, AfterSend
  <2> QED BY <2>1, <2>2
<1>10. CASE HandToDisconnect BY <1>10 DEF HandToDisconnect, AfterSend
<1>11. CASE HandEvent BY <1>11 DEF HandEvent
<1>12. ASSUME NEW c \in Callers, Lock(c) PROVE HoldsLock' /\ Listens'
  BY <1>12 DEF Lock
<1>13. ASSUME NEW c \in Callers, Write(c) PROVE HoldsLock' /\ Listens'
  <2>1. HoldsLock' BY <1>13 DEF Write
  <2>2. Listens' BY <1>13 DEF Write, Ended
  <2> QED BY <2>1, <2>2
<1>14. ASSUME NEW c \in Callers, StreamClosed(c) PROVE HoldsLock' /\ Listens'
  BY <1>14 DEF StreamClosed
<1>15. ASSUME NEW c \in Callers, Unlock(c) PROVE HoldsLock' /\ Listens'
  BY <1>15 DEF Unlock
<1>16. CASE ClearListeners BY <1>16 DEF ClearListeners
<1>17. CASE CloseConn BY <1>17 DEF CloseConn
<1>18. CASE Drained BY <1>18 DEF Drained
<1>19. CASE UNCHANGED qmpVars BY <1>19 DEF qmpVars
<1> QED BY <1>1, <1>2, <1>3, <1>4, <1>5, <1>6, <1>7, <1>8, <1>9, <1>10, <1>11, <1>12, <1>13, <1>14,
           <1>15, <1>16, <1>17, <1>18, <1>19 DEF QmpNext, Listening, Running, Disconnecting

(* A Run that does not wait, and does not begin to, leaves the others waiting. *)
LEMMA OneReplyKept ==
    ASSUME QmpInv, [QmpNext]_qmpVars
    PROVE  OneReply'
<1> USE QmpAssumption DEF QmpInv, QmpTypeOK, OneReply, Alive, NoReplyOn
<1>1. CASE Connect BY <1>1 DEF Connect, Listens, Waits
<1>2. CASE Events BY <1>2 DEF Events, Waits
<1>3. CASE StopReading BY <1>3 DEF StopReading, Waits
<1>4. CASE Answer
  <2>1. Alive /\ Alive'
    BY <1>4 DEF Answer, Listens
  <2>2. Len(asking) = 1 /\ Waits(asking[1]) /\ NoReplyOn /\ listener.pc # "reply"
    BY <1>4, <2>1 DEF Answer
  <2>3. asking' = <<>> /\ Head(asking) = asking[1] /\ Head(asking) \in Callers
    BY <1>4, <2>2, TailAt DEF Answer
  <2>4. /\ Len(wire') = Len(wire) + 1 /\ wire'[Len(wire) + 1] = asking[1]
        /\ \A i \in 1..Len(wire) : wire'[i] = Nobody
    BY <1>4, <2>2, <2>3, AppendAt DEF Answer
  <2>5. Len(wire) \in Nat OBVIOUS
  <2>6. \A i \in 1..Len(wire') : wire'[i] # Nobody => i = Len(wire) + 1
    BY <2>4, <2>5
  <2>7. \A i \in 1..Len(wire') : wire'[i] # Nobody => wire'[i] = asking[1]
    BY <2>4, <2>6
  <2>8. runLock' = runLock /\ runs' = runs /\ listener' = listener
    BY <1>4 DEF Answer
  <2> QED BY <2>1, <2>2, <2>3, <2>6, <2>7, <2>8 DEF Waits
<1>5. CASE SendEvent
  <2>1. Alive /\ Alive'
    BY <1>5 DEF SendEvent, Listens
  <2>2. /\ Len(wire') = Len(wire) + 1 /\ wire'[Len(wire) + 1] = Nobody
        /\ \A i \in 1..Len(wire) : wire'[i] = wire[i]
    BY <1>5, AppendAt DEF SendEvent
  <2>3. Len(wire) \in Nat OBVIOUS
  <2>4. \A i \in 1..Len(wire') : wire'[i] # Nobody => i \in 1..Len(wire) /\ wire'[i] = wire[i]
    BY <2>2, <2>3
  <2>5. runLock' = runLock /\ runs' = runs /\ listener' = listener /\ asking' = asking
    BY <1>5 DEF SendEvent
  <2> QED BY <2>1, <2>4, <2>5 DEF Waits
<1>6. CASE Break BY <1>6 DEF Break, Waits
<1>7. CASE Scan
  <2>1. /\ Len(wire) \in Nat \ {0} /\ Len(wire') = Len(wire) - 1
        /\ \A i \in 1..Len(wire') : i + 1 \in 1..Len(wire) /\ wire'[i] = wire[i + 1]
        /\ 1 \in 1..Len(wire) /\ Head(wire) = wire[1]
    BY <1>7, TailAt DEF Scan
  <2>2. Alive /\ asking' = asking /\ runLock' = runLock /\ \A c \in Callers : runs'[c].pc = runs[c].pc
    BY <1>7, Lands DEF Scan
  <2>3. CASE Head(wire) = Nobody
    <3>1. listener'.pc # "reply" /\ listener.pc # "reply"
      BY <1>7, <2>3 DEF Scan
    <3>2. \A i \in 1..Len(wire') : wire'[i] # Nobody =>
            /\ Waits(wire'[i]) /\ asking = <<>>
            /\ \A j \in 1..Len(wire') : j # i => wire'[j] = Nobody
      <4> SUFFICES ASSUME NEW i \in 1..Len(wire'), wire'[i] # Nobody
                   PROVE  /\ Waits(wire'[i]) /\ asking = <<>>
                          /\ \A j \in 1..Len(wire') : j # i => wire'[j] = Nobody
        OBVIOUS
      <4> DEFINE k == i + 1
      <4>1. k \in 1..Len(wire) /\ wire'[i] = wire[k]
        BY <2>1
      <4>2. Waits(wire[k]) /\ asking = <<>> /\ \A j \in 1..Len(wire) : j # k => wire[j] = Nobody
        BY <2>2, <4>1
      <4>3. ASSUME NEW j \in 1..Len(wire'), j # i PROVE wire'[j] = Nobody
        <5>1. j + 1 \in 1..Len(wire) /\ j + 1 # k /\ wire'[j] = wire[j + 1]
          BY <2>1, <4>3
        <5> QED BY <4>2, <5>1
      <4> QED BY <4>1, <4>2, <4>3
    <3>3. asking # <<>> => \A i \in 1..Len(wire') : wire'[i] = Nobody
      BY <2>1, <2>2
    <3> QED BY <2>2, <3>1, <3>2, <3>3 DEF Waits
  <2>4. CASE Head(wire) # Nobody
    <3>1. listener' = [pc |-> "reply", line |-> wire[1]]
      BY <1>7, <2>1, <2>4 DEF Scan
    <3>2. Waits(wire[1]) /\ asking = <<>> /\ \A j \in 1..Len(wire) : j # 1 => wire[j] = Nobody
      BY <2>1, <2>2, <2>4
    <3>3. \A i \in 1..Len(wire') : i + 1 # 1
      OBVIOUS
    <3>4. \A i \in 1..Len(wire') : wire'[i] = Nobody
      BY <2>1, <3>2, <3>3
    <3> QED BY <2>2, <3>1, <3>2, <3>4 DEF Waits
  <2> QED BY <2>3, <2>4
<1>8. CASE ScanEnds BY <1>8 DEF ScanEnds
<1>9. ASSUME NEW c \in Callers, HandToRun(c) PROVE OneReply'
  <2>1. CASE listener.pc = "error"
    BY <1>9, <2>1 DEF HandToRun, AfterSend
  <2>2. CASE listener.pc = "reply"
    <3>1. asking' = <<>> /\ wire' = wire /\ NoReplyOn /\ listener'.pc = "scan"
      BY <1>9, <2>2 DEF HandToRun, AfterSend
    <3> QED BY <3>1
  <2> QED BY <1>9, <2>1, <2>2 DEF HandToRun
<1>10. CASE HandToDisconnect
  <2>1. CASE listener.pc = "error"
    BY <1>10, <2>1 DEF HandToDisconnect, AfterSend
  <2>2. CASE listener.pc = "reply"
    <3>1. asking' = <<>> /\ wire' = wire /\ NoReplyOn /\ listener'.pc = "scan"
      BY <1>10, <2>2 DEF HandToDisconnect, AfterSend
    <3> QED BY <3>1
  <2> QED BY <1>10, <2>1, <2>2 DEF HandToDisconnect
<1>11. CASE HandEvent BY <1>11 DEF HandEvent, Waits
<1>12. ASSUME NEW c \in Callers, Lock(c) PROVE OneReply'
  <2>1. \A d : ~Waits(d)
    BY <1>12 DEF Lock, Waits, HoldsLock
  <2>2. Alive => asking = <<>> /\ NoReplyOn /\ listener.pc # "reply"
    BY <2>1
  <2>3. asking' = asking /\ wire' = wire /\ listener' = listener
    BY <1>12 DEF Lock
  <2> QED BY <2>2, <2>3
<1>13. ASSUME NEW c \in Callers, Write(c) PROVE OneReply'
  <2>1. \A d : ~Waits(d)
    BY <1>13 DEF Write, Waits, HoldsLock
  <2>2. Alive => asking = <<>> /\ NoReplyOn /\ listener.pc # "reply"
    BY <2>1
  <2>3. wire' = wire /\ listener' = listener /\ runLock' = runLock
    BY <1>13 DEF Write
  <2>4. CASE UNCHANGED asking
    BY <2>2, <2>3, <2>4
  <2>5. CASE asking' = Append(asking, c) /\ runs' = [runs EXCEPT ![c].pc = "receive"] /\ Alive
    <3>1. Len(asking') = 1 /\ asking'[1] = c
      BY <2>2, <2>5, AppendAt
    <3>2. Waits(c)'
      BY <1>13, <2>3, <2>5 DEF Waits, Write, HoldsLock
    <3> QED BY <2>2, <2>3, <2>5, <3>1, <3>2
  <2>6. qmpConn = "open" => Alive
    BY DEF Listens
  <2> QED BY <1>13, <2>4, <2>5, <2>6 DEF Write
<1>14. ASSUME NEW c \in Callers, StreamClosed(c) PROVE OneReply'
  BY <1>14 DEF StreamClosed
<1>15. ASSUME NEW c \in Callers, Unlock(c) PROVE OneReply'
  <2>1. \A d : ~Waits(d)
    BY <1>15 DEF Unlock, Waits, HoldsLock
  <2>2. Alive => asking = <<>> /\ NoReplyOn /\ listener.pc # "reply"
    BY <2>1
  <2>3. asking' = asking /\ wire' = wire /\ listener' = listener
    BY <1>15 DEF Unlock
  <2> QED BY <2>2, <2>3
<1>16. CASE ClearListeners BY <1>16 DEF ClearListeners, Waits
<1>17. CASE CloseConn BY <1>17 DEF CloseConn, Waits
<1>18. CASE Drained BY <1>18 DEF Drained, Waits
<1>19. CASE UNCHANGED qmpVars BY <1>19 DEF qmpVars, Waits
<1> QED BY <1>1, <1>2, <1>3, <1>4, <1>5, <1>6, <1>7, <1>8, <1>9, <1>10, <1>11, <1>12, <1>13, <1>14,
           <1>15, <1>16, <1>17, <1>18, <1>19 DEF QmpNext, Listening, Running, Disconnecting

(* Only a hand-over gives a Run something, what the listener hands over is  *)
(* for the one Run that waits, or an error, and the reply the listener      *)
(* reads next is for the one Run inside the mutex.                         *)
LEMMA OwnReplyKept ==
    ASSUME QmpInv, [QmpNext]_qmpVars
    PROVE  QmpOwnReply'
<1> USE QmpAssumption DEF QmpInv, QmpTypeOK, QmpOwnReply
<1>1. ASSUME NEW c \in Callers, HandToRun(c) PROVE QmpOwnReply'
  <2>1. listener.line \in {c, Nobody}
    BY <1>1 DEF HandToRun, OneReply, Alive, Waits, HoldsLock, Listens
  <2> QED BY <1>1, <2>1 DEF HandToRun
<1>2. ASSUME NEW c \in Callers, Lock(c) \/ Write(c) \/ StreamClosed(c) \/ Unlock(c) PROVE QmpOwnReply'
  <2>1. \E p \in {"write", "receive", "unlock", "returned"} : runs' = [runs EXCEPT ![c].pc = p]
    BY <1>2 DEF Lock, Write, StreamClosed, Unlock
  <2>2. runs[c].pc # "returned" /\ \A d \in Callers : runs'[d].got = runs[d].got /\ runs'[d].buf = runs[d].buf
                                /\ (runs'[d].pc # "returned" => runs[d].pc # "returned")
    BY <1>2, <2>1 DEF Lock, Write, StreamClosed, Unlock
  <2> QED BY <2>2
<1>3. ASSUME UNCHANGED runs PROVE QmpOwnReply'
  BY <1>3
<1>4. CASE Scan
  <2> SUFFICES ASSUME NEW c \in Callers, runs[c].pc # "returned", runs[c].got # Nobody, Head(wire) # Nobody
               PROVE  c = Head(wire)
    BY <1>4, Lands
  <2>1. listener.pc = "scan" /\ wire # <<>>
    BY <1>4 DEF Scan
  <2>2. 1 \in 1..Len(wire) /\ Head(wire) = wire[1]
    BY <2>1, TailAt
  <2>3. runLock = Head(wire)
    BY <2>1, <2>2 DEF OneReply, Alive, Waits
  <2>4. runs[c].pc \in {"write", "receive", "unlock"}
    BY DEF HoldsLock
  <2> QED BY <2>3, <2>4 DEF HoldsLock
<1>5. (\/ Connect \/ Events \/ StopReading \/ Answer \/ SendEvent \/ Break \/ ScanEnds
       \/ HandToDisconnect \/ HandEvent \/ ClearListeners \/ Disconnecting \/ UNCHANGED qmpVars)
         => UNCHANGED runs
  BY DEF Connect, Events, StopReading, Answer, SendEvent, Break, ScanEnds, HandToDisconnect, HandEvent,
         ClearListeners, Disconnecting, CloseConn, Drained, qmpVars
<1> QED BY <1>1, <1>2, <1>3, <1>4, <1>5 DEF QmpNext, Listening, Running

LEMMA QmpInvariant == QmpSpec => []QmpInv
<1>1. QmpInit => QmpInv
  BY QmpAssumption DEF QmpInit, QmpInv, QmpTypeOK, HoldsLock, Listens, OneReply, QmpOwnReply
<1>2. QmpInv /\ [QmpNext]_qmpVars => QmpInv'
  BY QmpTypesKept, QmpOrderKept, OneReplyKept, OwnReplyKept DEF QmpInv
<1> QED BY <1>1, <1>2, PTL DEF QmpSpec

(* The line a Run is handed is the reply to its own command, and no reply   *)
(* to another command lands on its bytes before it returns: for any number *)
(* of goroutines that call Run, whatever events, errors and Disconnect come *)
(* in between (Run and listen).  After it returned, another's reply may.   *)
THEOREM OwnReply == QmpSpec => []QmpOwnReply
  BY QmpInvariant, PTL DEF QmpInv
-----------------------------------------------------------------------------
(* Who can go on.  A caller inside Run, or in Disconnect, waits for nothing *)
(* but these: the goroutine that listens, QEMU, or one of the two itself.   *)
QmpBusy == \/ \E c \in Callers : runs[c].pc \in {"write", "receive", "unlock"}
           \/ disconnect \in {"close", "drain"}

ListenerGoesOn ==
    \/ listener.pc = "scan" /\ (wire # <<>> \/ Ended)
    \/ listener.pc \in {"reply", "error"} /\ (disconnect = "drain" \/ \E c \in Callers : runs[c].pc = "receive")
    \/ listener.pc = "event" /\ consumer = "reading"
QemuGoesOn       == asking # <<>> /\ qmpConn = "open"
RunGoesOn(c)     == \/ runs[c].pc = "write" /\ qmpConn # "dialed"
                    \/ runs[c].pc = "receive" /\ listener.pc = "done"
                    \/ runs[c].pc = "unlock"
DisconnectGoesOn == disconnect = "close" \/ (disconnect = "drain" /\ listener.pc = "done")

SomeoneGoesOn == ListenerGoesOn \/ QemuGoesOn \/ DisconnectGoesOn \/ \E c \in Callers : RunGoesOn(c)

(* An event the listener holds when whoever asked for events has left is    *)
(* the one thing that stops them all.                                      *)
OnlyEventStops ==
    QmpBusy /\ ~SomeoneGoesOn => listener.pc = "event" /\ consumer = "gone" /\ ~ConsumerStays

OnItsWay == asking # <<>> \/ listener.pc = "reply" \/ \E i \in 1..Len(wire) : wire[i] # Nobody

(* A Run waits on a connection that was opened, and while it is open the    *)
(* reply to it is on its way.                                              *)
ReplyComes ==
    \A c \in Callers : runs[c].pc = "receive" =>
      /\ listener.pc # "none"
      /\ qmpConn = "open" => OnItsWay

(* Disconnect closes before it drains, and drains what was started.         *)
DrainsClosed ==
    /\ disconnect \in {"drain", "returned"} => qmpConn = "closed"
    /\ disconnect = "drain" => listener.pc # "none"
    /\ listener.pc = "none" => qmpConn \in {"dialed", "closed"}
    /\ \A c \in Callers : runs[c].pc # "new" => qmpConn # "dialed"

(* An event is held only after somebody asked for events.                  *)
SomebodyAsked ==
    /\ listeners # 0 => consumer # "none"
    /\ listener.pc = "event" => consumer # "none"
    /\ ConsumerStays /\ consumer = "gone" => listener.pc = "done"

QmpWaitInv == ReplyComes /\ DrainsClosed /\ SomebodyAsked

LEMMA WaitsStart == QmpInit => QmpWaitInv
  BY QmpAssumption DEF QmpInit, QmpWaitInv, ReplyComes, DrainsClosed, SomebodyAsked

LEMMA DrainsKept ==
    ASSUME QmpInv, DrainsClosed, [QmpNext]_qmpVars
    PROVE  DrainsClosed'
<1> USE QmpAssumption DEF QmpInv, QmpTypeOK, DrainsClosed
<1>1. CASE Connect BY <1>1 DEF Connect
<1>2. CASE Events \/ StopReading \/ Answer \/ SendEvent
  BY <1>2 DEF Events, StopReading, Answer, SendEvent
<1>3. CASE Break BY <1>3 DEF Break, Listens
<1>4. CASE Scan \/ ScanEnds \/ HandToDisconnect \/ HandEvent
  <2>1. CASE Scan
    BY <1>4, <2>1, Lands DEF Scan
  <2>2. CASE ScanEnds \/ HandToDisconnect \/ HandEvent
    BY <2>2 DEF ScanEnds, HandToDisconnect, HandEvent, AfterSend
  <2> QED BY <1>4, <2>1, <2>2
<1>5. ASSUME NEW c \in Callers, HandToRun(c) PROVE DrainsClosed'
  BY <1>5 DEF HandToRun, AfterSend
<1>6. ASSUME NEW c \in Callers, Lock(c) PROVE DrainsClosed'
  BY <1>6 DEF Lock
<1>7. ASSUME NEW c \in Callers, Write(c) \/ StreamClosed(c) \/ Unlock(c) PROVE DrainsClosed'
  BY <1>7 DEF Write, StreamClosed, Unlock, Ended
<1>8. CASE ClearListeners BY <1>8 DEF ClearListeners
<1>9. CASE CloseConn BY <1>9 DEF CloseConn
<1>10. CASE Drained BY <1>10 DEF Drained
<1>11. CASE UNCHANGED qmpVars BY <1>11 DEF qmpVars
<1> QED BY <1>1, <1>2, <1>3, <1>4, <1>5, <1>6, <1>7, <1>8, <1>9, <1>10, <1>11
        DEF QmpNext, Listening, Running, Disconnecting

LEMMA AskedKept ==
    ASSUME QmpInv, SomebodyAsked, [QmpNext]_qmpVars
    PROVE  SomebodyAsked'
<1> USE QmpAssumption DEF QmpInv, QmpTypeOK, SomebodyAsked
<1>1. CASE Connect BY <1>1 DEF Connect, Listens
<1>2. CASE Events BY <1>2 DEF Events
<1>3. CASE StopReading BY <1>3 DEF StopReading
<1>4. CASE Answer \/ SendEvent \/ Break \/ ClearListeners \/ CloseConn \/ Drained
  BY <1>4 DEF Answer, SendEvent, Break, ClearListeners, CloseConn, Drained
<1>5. CASE Scan BY <1>5 DEF Scan
<1>6. CASE ScanEnds BY <1>6 DEF ScanEnds
<1>7. CASE HandToDisconnect BY <1>7 DEF HandToDisconnect, AfterSend
<1>8. CASE HandEvent BY <1>8 DEF HandEvent
<1>9. ASSUME NEW c \in Callers, HandToRun(c) PROVE SomebodyAsked'
  BY <1>9 DEF HandToRun, AfterSend
<1>10. ASSUME NEW c \in Callers, Lock(c) \/ Write(c) \/ StreamClosed(c) \/ Unlock(c) PROVE SomebodyAsked'
  BY <1>10 DEF Lock, Write, StreamClosed, Unlock
<1>11. CASE UNCHANGED qmpVars BY <1>11 DEF qmpVars
<1> QED BY <1>1, <1>2, <1>3, <1>4, <1>5, <1>6, <1>7, <1>8, <1>9, <1>10, <1>11
        DEF QmpNext, Listening, Running, Disconnecting

(* Of the Runs the one that holds the mutex waits, if any does: what is     *)
(* handed to a Run is what that one waits for.                             *)
LEMMA ReplyComesKept ==
    ASSUME QmpInv, QmpWaitInv, [QmpNext]_qmpVars
    PROVE  ReplyComes'
<1> USE QmpAssumption DEF QmpInv, QmpTypeOK, ReplyComes
<1>1. ASSUME UNCHANGED <<asking, wire>>, listener'.pc = listener.pc \/ (listener.pc # "reply" /\ listener'.pc # "none"),
             qmpConn' = "open" => qmpConn = "open", \A d \in Callers : runs'[d].pc = "receive" => runs[d].pc = "receive"
      PROVE  ReplyComes'
  <2>1. OnItsWay => OnItsWay'
    BY <1>1 DEF OnItsWay
  <2> QED BY <1>1, <2>1 DEF QmpWaitInv
<1>2. CASE Connect
  <2>1. \A c \in Callers : runs'[c].pc = "new"
    BY <1>2 DEF Connect, QmpWaitInv, DrainsClosed
  <2> QED BY <2>1
<1>3. CASE Events \/ StopReading \/ ClearListeners \/ Drained \/ Break \/ CloseConn
  BY <1>1, <1>3 DEF Events, StopReading, ClearListeners, Drained, Break, CloseConn
<1>4. CASE Answer
  <2>1. Len(wire') = Len(wire) + 1 /\ wire'[Len(wire) + 1] = Head(asking) /\ Head(asking) \in Callers /\ Len(wire) \in Nat
    BY <1>4, TailAt, AppendAt DEF Answer
  <2>2. Len(wire) + 1 \in 1..Len(wire') /\ wire'[Len(wire) + 1] # Nobody
    BY <2>1
  <2>3. OnItsWay'
    BY <2>2 DEF OnItsWay
  <2> QED BY <1>4, <2>3 DEF Answer, QmpWaitInv
<1>5. CASE SendEvent
  <2>1. Len(wire') = Len(wire) + 1 /\ Len(wire) \in Nat /\ \A i \in 1..Len(wire) : wire'[i] = wire[i]
    BY <1>5, AppendAt DEF SendEvent
  <2>2. \A i \in 1..Len(wire) : i \in 1..Len(wire')
    BY <2>1
  <2>3. OnItsWay => OnItsWay'
    BY <1>5, <2>1, <2>2 DEF OnItsWay, SendEvent
  <2> QED BY <1>5, <2>3 DEF SendEvent, QmpWaitInv
<1>6. CASE Scan
  <2>1. /\ Len(wire) \in Nat \ {0} /\ Len(wire') = Len(wire) - 1
        /\ \A i \in 1..Len(wire') : wire'[i] = wire[i + 1]
        /\ Head(wire) = wire[1]
    BY <1>6, TailAt DEF Scan
  <2>2. listener'.pc # "none" /\ (Head(wire) # Nobody => listener'.pc = "reply")
    BY <1>6 DEF Scan
  <2>3. ASSUME NEW i \in 1..Len(wire), wire[i] # Nobody, Head(wire) = Nobody
        PROVE  \E j \in 1..Len(wire') : wire'[j] # Nobody
    <3>1. i # 1
      BY <2>1, <2>3
    <3>2. i - 1 \in 1..Len(wire') /\ (i - 1) + 1 = i
      BY <2>1, <3>1
    <3>3. wire'[i - 1] = wire[i]
      BY <2>1, <3>2
    <3> QED BY <2>3, <3>2, <3>3
  <2>4. OnItsWay => OnItsWay'
    <3>1. asking' = asking /\ listener.pc # "reply"
      BY <1>6 DEF Scan
    <3> QED BY <2>2, <2>3, <3>1 DEF OnItsWay
  <2> QED BY <1>6, <2>2, <2>4 DEF Scan, QmpWaitInv
<1>7. CASE ScanEnds BY <1>1, <1>7 DEF ScanEnds, Ended
<1>8. ASSUME NEW c \in Callers, HandToRun(c) PROVE ReplyComes'
  <2>1. \A d \in Callers : runs'[d].pc # "receive"
    BY <1>8 DEF HandToRun, HoldsLock
  <2> QED BY <2>1
<1>9. CASE HandToDisconnect
  BY <1>9 DEF HandToDisconnect, AfterSend, QmpWaitInv, DrainsClosed
<1>10. CASE HandEvent BY <1>1, <1>10 DEF HandEvent
<1>11. ASSUME NEW c \in Callers, Lock(c) \/ StreamClosed(c) \/ Unlock(c) PROVE ReplyComes'
  BY <1>1, <1>11 DEF Lock, StreamClosed, Unlock
<1>12. ASSUME NEW c \in Callers, Write(c) PROVE ReplyComes'
  <2>1. \A d \in Callers : d # c => runs'[d].pc # "receive"
    BY <1>12 DEF Write, HoldsLock
  <2>2. runs'[c].pc = "receive" => listener'.pc # "none"
    BY <1>12 DEF Write, QmpWaitInv, DrainsClosed
  <2>3. runs'[c].pc = "receive" /\ qmpConn' = "open" => asking' # <<>>
    BY <1>12, AppendAt DEF Write, Ended
  <2> QED BY <2>1, <2>2, <2>3 DEF OnItsWay
<1>13. CASE UNCHANGED qmpVars BY <1>1, <1>13 DEF qmpVars
<1> QED BY <1>2, <1>3, <1>4, <1>5, <1>6, <1>7, <1>8, <1>9, <1>10, <1>11, <1>12, <1>13
        DEF QmpNext, Listening, Running, Disconnecting

LEMMA QmpWaits == QmpSpec => [](QmpInv /\ QmpWaitInv)
<1>1. QmpInit => QmpWaitInv
  BY WaitsStart
<1>2. QmpInv /\ QmpWaitInv /\ [QmpNext]_qmpVars => QmpWaitInv'
  BY DrainsKept, AskedKept, ReplyComesKept DEF QmpWaitInv
<1> QED BY <1>1, <1>2, QmpInvariant, PTL DEF QmpSpec

(* Nobody waits for ever on everybody else, for any number of goroutines    *)
(* that call Run, with Disconnect at any moment: as long as a Run or        *)
(* Disconnect has not returned, the listener, QEMU or one of them can go    *)
(* on, unless the listener holds an event (listen's send to the events      *)
(* channel) and whoever called Events has left.                            *)
THEOREM NoStandstill == QmpSpec => []OnlyEventStops
<1>1. ASSUME QmpInv, QmpWaitInv, QmpBusy, ~SomeoneGoesOn
      PROVE  listener.pc = "event" /\ consumer = "gone" /\ ~ConsumerStays
  <2> USE <1>1, QmpAssumption DEF QmpInv, QmpTypeOK, QmpWaitInv, SomeoneGoesOn
  <2>1. \A c \in Callers : runs[c].pc \notin {"write", "unlock"}
    BY DEF DrainsClosed, RunGoesOn
  <2>2. (\E c \in Callers : runs[c].pc = "receive") \/ disconnect = "drain"
    BY <2>1 DEF QmpBusy, DisconnectGoesOn
  <2>3. listener.pc \notin {"none", "reply", "error", "done"}
    <3>1. listener.pc # "none"
      BY <2>2 DEF ReplyComes, DrainsClosed
    <3>2. listener.pc \notin {"reply", "error"}
      BY <2>2 DEF ListenerGoesOn
    <3>3. listener.pc # "done"
      BY <2>2 DEF RunGoesOn, DisconnectGoesOn
    <3> QED BY <3>1, <3>2, <3>3
  <2>4. listener.pc # "scan"
    <3> SUFFICES ASSUME listener.pc = "scan" PROVE FALSE
      OBVIOUS
    <3>1. wire = <<>> /\ ~Ended
      BY DEF ListenerGoesOn
    <3>2. qmpConn = "open"
      BY <3>1 DEF Ended, Listens
    <3>3. PICK c \in Callers : runs[c].pc = "receive"
      BY <2>2, <3>2 DEF DrainsClosed
    <3>4. asking # <<>> \/ \E i \in 1..Len(wire) : wire[i] # Nobody
      BY <3>2, <3>3 DEF ReplyComes, OnItsWay
    <3>5. asking # <<>>
      BY <3>1, <3>4
    <3> QED BY <3>2, <3>5 DEF QemuGoesOn
  <2>5. listener.pc = "event"
    BY <2>3, <2>4
  <2> QED BY <2>5 DEF ListenerGoesOn, SomebodyAsked
<1>2. QmpInv /\ QmpWaitInv => OnlyEventStops
  BY <1>1 DEF OnlyEventStops
<1> QED BY <1>2, QmpWaits, PTL
=============================================================================
