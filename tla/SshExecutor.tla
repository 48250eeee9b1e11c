---------------------------- MODULE SshExecutor ----------------------------
(***************************************************************************)
(* The connection of an SSHExecutor: made by the first call that needs it, *)
(* hop by hop through the jump hosts and under a mutex, shared by all the  *)
(* calls that follow, kept alive in the background and closed, perhaps     *)
(* more than once and with calls still under way.                          *)
(***************************************************************************)
EXTENDS Naturals

CONSTANTS
    SshCallers,   \* goroutines that call the executor
    Hops,         \* the target is hop number Hops; the ones before it are jump hosts
    MaxDials,     \* bounds the connections
    ForwardAgent, \* an agent socket is configured
    NoCaller

ASSUME SshAssumption == /\ Hops \in Nat \ {0} /\ MaxDials \in Nat
                        /\ ForwardAgent \in BOOLEAN
                        /\ NoCaller \notin SshCallers

Dials   == 1..MaxDials
Clients == Dials \X (1..Hops)   \* an ssh.Client for each hop of each connection

VARIABLES
    sshLock,   \* mu
    sshConn,   \* the connection in client, jumpClients and sftp; 0 is nil
    sshDials,  \* how many connections were begun
    sshOpen,   \* the clients that are not closed
    sshLost,   \* connections the network has broken
    sshAsked,  \* per connection: requests for agent forwarding
    sshDone,   \* the channel done, "open" until it is closed
    sshKept,   \* connections whose keepalive goroutine runs
    sshAt,     \* per caller: where it is, and the connection it was handed
    sshDial,   \* per caller: its Dial of a socket on the target, and over which connection
    sshSockets \* the callers whose Dial has opened its socket

sshVars == <<sshLock, sshConn, sshDials, sshOpen, sshLost, sshAsked, sshDone, sshKept, sshAt, sshDial, sshSockets>>

SshInit ==
    /\ sshLock = NoCaller /\ sshConn = 0 /\ sshDials = 0
    /\ sshOpen = {} /\ sshLost = {}
    /\ sshAsked = [k \in Dials |-> 0]
    /\ sshDone = "open" /\ sshKept = {}
    /\ sshAt = [c \in SshCallers |-> [pc |-> "idle", conn |-> 0]]
    /\ sshDial = [c \in SshCallers |-> [step |-> "none", on |-> 0]]
    /\ sshSockets = {}

Hop(k, n)   == <<k, n>>
ClientsOf(k) == {o \in Clients : o[1] = k}
Usable(k)   == k # 0 /\ ClientsOf(k) \subseteq sshOpen /\ k \notin sshLost

-----------------------------------------------------------------------------
(* conn: what is cached is handed out, whatever has become of it.          *)
HandOut(c) ==
    /\ sshAt[c].pc = "idle" /\ sshLock = NoCaller
    /\ sshConn # 0
    /\ sshAt' = [sshAt EXCEPT ![c] = [pc |-> "using", conn |-> sshConn]]
    /\ UNCHANGED <<sshLock, sshConn, sshDials, sshOpen, sshLost, sshAsked, sshDone, sshKept, sshDial, sshSockets>>

StartDial(c) ==
    /\ sshAt[c].pc = "idle" /\ sshLock = NoCaller
    /\ sshConn = 0 /\ sshDials < MaxDials
    /\ sshLock' = c
    /\ sshDials' = sshDials + 1
    /\ sshAt' = [sshAt EXCEPT ![c] = [pc |-> "dialing", conn |-> sshDials + 1]]
    /\ UNCHANGED <<sshConn, sshOpen, sshLost, sshAsked, sshDone, sshKept, sshDial, sshSockets>>

(* dial: each hop through the one before it, the target last.              *)
NextHop(c) ==
    LET k == sshAt[c].conn IN
    \E n \in 1..Hops :
      /\ sshAt[c].pc = "dialing" /\ k \notin sshLost
      /\ \A i \in 1..Hops : Hop(k, i) \in sshOpen <=> i < n
      /\ sshOpen' = sshOpen \cup {Hop(k, n)}
      /\ sshAt' = [sshAt EXCEPT ![c].pc = IF n < Hops THEN @ ELSE IF ForwardAgent THEN "forward" ELSE "sftp"]
      /\ UNCHANGED <<sshLock, sshConn, sshDials, sshLost, sshAsked, sshDone, sshKept, sshDial, sshSockets>>

(* Mutant: the jump hosts stay connected when the target is not reached.   *)
DialFails_target_only(c) ==
    /\ sshAt[c].pc \in {"dialing", "forward", "sftp"}
    /\ sshOpen' = sshOpen \ {Hop(sshAt[c].conn, Hops)}
    /\ sshAt' = [sshAt EXCEPT ![c] = [pc |-> "idle", conn |-> 0]]
    /\ sshLock' = NoCaller
    /\ UNCHANGED <<sshConn, sshDials, sshLost, sshAsked, sshDone, sshKept, sshDial, sshSockets>>

(* A hop, the forwarding or sftp fails: all that was opened is closed.     *)
DialFails(c) ==
    /\ sshAt[c].pc \in {"dialing", "forward", "sftp"}
    /\ sshOpen' = sshOpen \ ClientsOf(sshAt[c].conn)
    /\ sshAt' = [sshAt EXCEPT ![c] = [pc |-> "idle", conn |-> 0]]
    /\ sshLock' = NoCaller
    /\ UNCHANGED <<sshConn, sshDials, sshLost, sshAsked, sshDone, sshKept, sshDial, sshSockets>>

requestAgentForwarding(c) ==
    /\ sshAt[c].pc = "forward" /\ sshAt[c].conn \notin sshLost
    /\ sshAsked' = [sshAsked EXCEPT ![sshAt[c].conn] = @ + 1]
    /\ sshAt' = [sshAt EXCEPT ![c].pc = "sftp"]
    /\ UNCHANGED <<sshLock, sshConn, sshDials, sshOpen, sshLost, sshDone, sshKept, sshDial, sshSockets>>

Connected(c) ==
    /\ sshAt[c].pc = "sftp" /\ sshAt[c].conn \notin sshLost
    /\ sshConn' = sshAt[c].conn
    /\ sshKept' = sshKept \cup {sshAt[c].conn}
    /\ sshAt' = [sshAt EXCEPT ![c].pc = "using"]
    /\ sshLock' = NoCaller
    /\ UNCHANGED <<sshDials, sshOpen, sshLost, sshAsked, sshDone, sshDial, sshSockets>>

(* Mutant: the forwarding is asked for with every session.                 *)
Command_forwards(c) ==
    /\ sshAt[c].pc = "using"
    /\ sshAt' = [sshAt EXCEPT ![c] = [pc |-> "idle", conn |-> 0]]
    /\ sshAsked' = [sshAsked EXCEPT ![sshAt[c].conn] = IF Usable(sshAt[c].conn) THEN 2 ELSE @]
    /\ UNCHANGED <<sshLock, sshConn, sshDials, sshOpen, sshLost, sshDone, sshKept, sshDial, sshSockets>>

(* A session or a file operation, which may fail, and the call returns.    *)
Command(c) ==
    /\ sshAt[c].pc = "using"
    /\ sshAt' = [sshAt EXCEPT ![c] = [pc |-> "idle", conn |-> 0]]
    /\ UNCHANGED <<sshLock, sshConn, sshDials, sshOpen, sshLost, sshAsked, sshDone, sshKept, sshDial, sshSockets>>

-----------------------------------------------------------------------------
(* Dial: a goroutine asks for the socket, the caller waits for a while.    *)
DialSocket(c) ==
    /\ sshAt[c].pc = "using" /\ sshDial[c].step = "none"
    /\ sshDial' = [sshDial EXCEPT ![c] = [step |-> "asked", on |-> sshAt[c].conn]]
    /\ sshAt' = [sshAt EXCEPT ![c].pc = "awaiting"]
    /\ UNCHANGED <<sshLock, sshConn, sshDials, sshOpen, sshLost, sshAsked, sshDone, sshKept, sshSockets>>

(* The goroutine has its result, which the channel holds.                  *)
SocketAnswers(c) ==
    /\ sshDial[c].step \in {"asked", "abandoned"}
    /\ sshDial' = [sshDial EXCEPT ![c].step = IF @ = "asked" THEN "answered" ELSE "late"]
    /\ \/ Usable(sshDial[c].on) /\ sshSockets' = sshSockets \cup {c}
       \/ UNCHANGED sshSockets
    /\ UNCHANGED <<sshLock, sshConn, sshDials, sshOpen, sshLost, sshAsked, sshDone, sshKept, sshAt>>

TakeSocket(c) ==
    /\ sshAt[c].pc = "awaiting" /\ sshDial[c].step = "answered"
    /\ sshDial' = [sshDial EXCEPT ![c].step = IF c \in sshSockets THEN "mine" ELSE "none"]
    /\ sshAt' = [sshAt EXCEPT ![c] = [pc |-> "idle", conn |-> 0]]
    /\ UNCHANGED <<sshLock, sshConn, sshDials, sshOpen, sshLost, sshAsked, sshDone, sshKept, sshSockets>>

(* The timer, or the context: select may take them although the answer is  *)
(* there.                                                                  *)
TimeOut(c) ==
    /\ sshAt[c].pc = "awaiting"
    /\ sshDial' = [sshDial EXCEPT ![c].step = IF @ = "asked" THEN "abandoned" ELSE "late"]
    /\ sshAt' = [sshAt EXCEPT ![c] = [pc |-> "idle", conn |-> 0]]
    /\ UNCHANGED <<sshLock, sshConn, sshDials, sshOpen, sshLost, sshAsked, sshDone, sshKept, sshSockets>>

(* A socket that came too late, and one the caller is done with, is closed.*)
CloseSocket(c) ==
    /\ sshDial[c].step \in {"late", "mine"}
    /\ sshDial' = [sshDial EXCEPT ![c] = [step |-> "none", on |-> 0]]
    /\ sshSockets' = sshSockets \ {c}
    /\ UNCHANGED <<sshLock, sshConn, sshDials, sshOpen, sshLost, sshAsked, sshDone, sshKept, sshAt>>

-----------------------------------------------------------------------------
(* Close waits for the mutex, not for the calls that use the connection.   *)
CloseSsh ==
    /\ sshLock = NoCaller
    /\ sshDone' = "closed"
    /\ sshConn' = 0
    /\ sshOpen' = sshOpen \ ClientsOf(sshConn)
    /\ UNCHANGED <<sshLock, sshDials, sshLost, sshAsked, sshKept, sshAt, sshDial, sshSockets>>

(* At a tick of its timer, or as soon as done is closed.                   *)
KeepaliveEnds(k) ==
    /\ k \in sshKept /\ (sshDone = "closed" \/ ~Usable(k))
    /\ sshKept' = sshKept \ {k}
    /\ UNCHANGED <<sshLock, sshConn, sshDials, sshOpen, sshLost, sshAsked, sshDone, sshAt, sshDial, sshSockets>>

LoseLink(k) ==
    /\ k <= sshDials /\ k \notin sshLost /\ ClientsOf(k) \cap sshOpen # {}
    /\ sshLost' = sshLost \cup {k}
    /\ UNCHANGED <<sshLock, sshConn, sshDials, sshOpen, sshAsked, sshDone, sshKept, sshAt, sshDial, sshSockets>>

SshNext ==
    \/ \E c \in SshCallers :
         \/ HandOut(c) \/ StartDial(c) \/ NextHop(c) \/ requestAgentForwarding(c) \/ Connected(c)
         \/ DialFails(c) \/ Command(c)
         \/ DialSocket(c) \/ SocketAnswers(c) \/ TakeSocket(c) \/ TimeOut(c) \/ CloseSocket(c)
    \/ CloseSsh
    \/ \E k \in Dials : KeepaliveEnds(k) \/ LoseLink(k)

SshSpec == SshInit /\ [][SshNext]_sshVars

-----------------------------------------------------------------------------
(* The variables keep their types.                                         *)
SshTypeOK ==
    /\ sshLock \in SshCallers \cup {NoCaller}
    /\ sshConn \in 0..MaxDials /\ sshDials \in 0..MaxDials
    /\ sshOpen \subseteq Clients /\ sshLost \subseteq Dials /\ sshKept \subseteq Dials
    /\ sshAsked \in [Dials -> Nat]
    /\ sshDone \in {"open", "closed"}
    /\ sshAt \in [SshCallers -> [pc : {"idle", "dialing", "forward", "sftp", "using", "awaiting"}, conn : 0..MaxDials]]
    /\ sshDial \in [SshCallers -> [step : {"none", "asked", "answered", "mine", "abandoned", "late"},
                                on : 0..MaxDials]]
    /\ sshSockets \subseteq SshCallers

(***************************************************************************)
(* Wherever a dial fails, whatever is closed or abandoned and by whom: an  *)
(* open client is part of the cached connection or of the dial that holds  *)
(* the mutex, and an open socket has someone who will close it.            *)
(***************************************************************************)
SshNothingLeaks ==
    /\ \A o \in sshOpen : \/ o[1] = sshConn
                          \/ sshLock # NoCaller /\ sshAt[sshLock].conn = o[1]
    /\ \A c \in sshSockets : sshDial[c].step # "none"

(***************************************************************************)
(* requestAgentForwarding "must be called exactly once per connection",    *)
(* however many sessions share it: sshd refuses a second request.          *)
(***************************************************************************)
SshForwardsOnce ==
    /\ \A k \in Dials : sshAsked[k] <= 1
    /\ sshConn # 0 /\ ForwardAgent => sshAsked[sshConn] = 1
=============================================================================
