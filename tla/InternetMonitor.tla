--------------------------- MODULE InternetMonitor ---------------------------
(***************************************************************************)
(* The internet monitor: in every cycle each destination is probed twice,  *)
(* with the system's resolver and with DNS over HTTPS; a round resolves    *)
(* the name, pings all of its addresses at once and requests the page from *)
(* each.  A sample per step goes to a buffered file, flushed every few     *)
(* cycles and when a signal ends the program.                              *)
(***************************************************************************)
EXTENDS Naturals, Integers, Sequences, SequencesExt

CONSTANTS
    InetDests,        \* the destinations: a sequence over {"host", "bad"}
    InetFlushConfigs, \* what flush_every_n may be
    InetV4, InetV6,   \* addresses a name may have
    InetNobody,       \* no goroutine
    MaxCycles         \* bounds the cycles

ASSUME InetAssumption ==
    /\ InetDests \in Seq({"host", "bad"}) /\ InetDests # <<>>
    /\ InetFlushConfigs \subseteq Int
    /\ InetV4 # InetV6 /\ InetNobody \notin {InetV4, InetV6}
    /\ MaxCycles \in Nat \ {0}

VARIABLES
    inEvery,   \* cfg.FlushEveryN
    inMain,    \* "waiting" for the ticker, "probing", "closed" or "killed"
    inSeq,     \* seq: the cycle that runs, or the next one
    inTodo,    \* the steps the cycle has left
    inAddrs,   \* ips of the round
    inPings,   \* per address, where the goroutine that pings it is
    inMutex,   \* mu of runICMPRound
    inBlocks,  \* blocks
    inSeen,    \* per goroutine, the slice it appends to
    inSamples, \* every sample given to the writer
    inFlushed, \* how many of them are in the file
    inCtx      \* "live" or "cancelled"

inVars == <<inEvery, inMain, inSeq, inTodo, inAddrs, inPings, inMutex, inBlocks, inSeen,
            inSamples, inFlushed, inCtx>>

InetIPs    == {InetV4, InetV6}
InetFailed == {"failed"}

-----------------------------------------------------------------------------
(* A destination whose URL cannot be parsed, or has no host, is written off *)
(* with an error per mode.                                                 *)
InetRounds(mode) == <<[cmd |-> "dns", mode |-> mode], [cmd |-> "icmp", mode |-> mode],
                      [cmd |-> "https", mode |-> mode]>>

probeDestination(kind) ==
    IF kind = "bad" THEN <<[cmd |-> "bad", mode |-> "system"], [cmd |-> "bad", mode |-> "doh"]>>
    ELSE InetRounds("system") \o InetRounds("doh")

runCycle == FlattenSeq([n \in 1..Len(InetDests) |-> probeDestination(InetDests[n])])

(* What a query may come back with.  A system lookup asks for both families *)
(* at once, DNS over HTTPS for one after the other.                        *)
resolveSystem == {<<r>> : r \in {InetFailed, {InetV4}, InetIPs}}
doHQuery(ip)  == {InetFailed, {}, {ip}}
resolveDoH    == doHQuery(InetV4) \X doHQuery(InetV6)

Answered(rs) == {k \in DOMAIN rs : rs[k] # InetFailed}
uniqueSortedIPs(rs) == UNION {rs[k] : k \in Answered(rs)}

(* Of two queries one may fail, if the other found something. *)
ResolveFails(rs) == Answered(rs) # DOMAIN rs /\ uniqueSortedIPs(rs) = {}

(* Mutant: of two queries one may fail. *)
ResolveFails_both(rs) == Answered(rs) = {}

-----------------------------------------------------------------------------
(* Left at zero, or below, flush_every_n is one.                           *)
InetInit ==
    /\ \E n \in InetFlushConfigs : inEvery = IF n <= 0 THEN 1 ELSE n
    /\ inMain = "probing" /\ inSeq = 0 /\ inTodo = runCycle
    /\ inAddrs = {}
    /\ inPings = [ip \in InetIPs |-> "none"] /\ inSeen = [ip \in InetIPs |-> {}]
    /\ inMutex = InetNobody /\ inBlocks = {}
    /\ inSamples = <<>> /\ inFlushed = 0
    /\ inCtx = "live"

inPingVars == <<inPings, inMutex, inBlocks, inSeen>>

(* The contexts of the probes end with it: what is left of the cycle fails *)
(* fast, and is recorded all the same.                                     *)
InetSignal ==
    /\ inMain \in {"waiting", "probing"} /\ inCtx = "live"
    /\ inCtx' = "cancelled"
    /\ UNCHANGED <<inEvery, inMain, inSeq, inTodo, inAddrs, inPingVars, inSamples, inFlushed>>

(* SIGKILL, or the host goes down. *)
InetKilled ==
    /\ inMain \in {"waiting", "probing"}
    /\ inMain' = "killed"
    /\ UNCHANGED <<inEvery, inSeq, inTodo, inAddrs, inPingVars, inSamples, inFlushed, inCtx>>

InetStep(cmd) == inMain = "probing" /\ inTodo # <<>> /\ Head(inTodo).cmd = cmd

(* The writer keeps a sample until it is flushed.  `asked` is not part of   *)
(* it: it is what the queries came back with.                              *)
writeSample(out, err, asked) ==
    /\ inSamples' = Append(inSamples, [seq |-> inSeq, cmd |-> Head(inTodo).cmd, mode |-> Head(inTodo).mode,
                                       out |-> out, err |-> err, asked |-> asked])
    /\ inTodo' = Tail(inTodo)
    /\ UNCHANGED <<inEvery, inMain, inSeq, inFlushed, inCtx>>

BadDestination ==
    /\ InetStep("bad")
    /\ writeSample({}, TRUE, <<>>)
    /\ UNCHANGED <<inAddrs, inPingVars>>

Resolve ==
    /\ InetStep("dns")
    /\ \E rs \in IF inCtx = "cancelled"
                 THEN {IF Head(inTodo).mode = "system" THEN <<InetFailed>> ELSE <<InetFailed, InetFailed>>}
                 ELSE IF Head(inTodo).mode = "system" THEN resolveSystem ELSE resolveDoH :
          /\ inAddrs' = uniqueSortedIPs(rs)
          /\ writeSample(uniqueSortedIPs(rs), ResolveFails(rs), rs)
    /\ UNCHANGED inPingVars

-----------------------------------------------------------------------------
(* runICMPRound: a goroutine per address.                                  *)
StartPings ==
    /\ InetStep("icmp") /\ inAddrs # {}
    /\ \A ip \in InetIPs : inPings[ip] = "none"
    /\ inPings' = [ip \in InetIPs |-> IF ip \in inAddrs THEN "pinging" ELSE "none"]
    /\ UNCHANGED <<inEvery, inMain, inSeq, inTodo, inAddrs, inMutex, inBlocks, inSeen, inSamples,
                   inFlushed, inCtx>>

(* Answered, timed out or stopped with the context, a ping has a block.     *)
pingOne(ip) ==
    /\ inMain = "probing" /\ inPings[ip] = "pinging"
    /\ inPings' = [inPings EXCEPT ![ip] = "pinged"]
    /\ UNCHANGED <<inEvery, inMain, inSeq, inTodo, inAddrs, inMutex, inBlocks, inSeen, inSamples,
                   inFlushed, inCtx>>

(* Mutant: the slice is appended to without the mutex. *)
LockBlocks_none(ip) ==
    /\ inMain = "probing" /\ inPings[ip] = "pinged"
    /\ inMutex' = ip
    /\ inSeen' = [inSeen EXCEPT ![ip] = inBlocks]
    /\ inPings' = [inPings EXCEPT ![ip] = "append"]
    /\ UNCHANGED <<inEvery, inMain, inSeq, inTodo, inAddrs, inBlocks, inSamples, inFlushed, inCtx>>

LockBlocks(ip) ==
    /\ inMain = "probing" /\ inPings[ip] = "pinged"
    /\ inMutex = InetNobody
    /\ inMutex' = ip
    /\ inSeen' = [inSeen EXCEPT ![ip] = inBlocks]
    /\ inPings' = [inPings EXCEPT ![ip] = "append"]
    /\ UNCHANGED <<inEvery, inMain, inSeq, inTodo, inAddrs, inBlocks, inSamples, inFlushed, inCtx>>

AppendBlock(ip) ==
    /\ inMain = "probing" /\ inPings[ip] = "append"
    /\ inBlocks' = inSeen[ip] \cup {ip}
    /\ inMutex' = InetNobody
    /\ inPings' = [inPings EXCEPT ![ip] = "done"]
    /\ UNCHANGED <<inEvery, inMain, inSeq, inTodo, inAddrs, inSeen, inSamples, inFlushed, inCtx>>

(* All have been waited for, or there is no target.                        *)
PingsDone ==
    /\ InetStep("icmp")
    /\ \A ip \in inAddrs : inPings[ip] = "done"
    /\ writeSample(inBlocks, FALSE, <<>>)
    /\ inPings' = [ip \in InetIPs |-> "none"]
    /\ inBlocks' = {} /\ inSeen' = [ip \in InetIPs |-> {}]
    /\ UNCHANGED <<inAddrs, inMutex>>

(* runHTTPSRound: the URL, then every address; a failure is a line.         *)
Request ==
    /\ InetStep("https")
    /\ writeSample(inAddrs, FALSE, <<>>)
    /\ UNCHANGED <<inAddrs, inPingVars>>

-----------------------------------------------------------------------------
(* The main loop.                                                          *)
Flushes == (inSeq + 1) % inEvery = 0

EndCycle ==
    /\ inMain = "probing" /\ inTodo = <<>>
    /\ inMain' = "waiting"
    /\ inSeq' = inSeq + 1
    /\ inFlushed' = IF Flushes THEN Len(inSamples) ELSE inFlushed
    /\ UNCHANGED <<inEvery, inTodo, inAddrs, inPingVars, inSamples, inCtx>>

(* A signal and a tick that are both there: either is taken.               *)
BeginCycle ==
    /\ inMain = "waiting" /\ inSeq < MaxCycles
    /\ inMain' = "probing"
    /\ inTodo' = runCycle
    /\ UNCHANGED <<inEvery, inSeq, inAddrs, inPingVars, inSamples, inFlushed, inCtx>>

InetClose ==
    /\ inMain = "waiting" /\ inCtx = "cancelled"
    /\ inMain' = "closed"
    /\ inFlushed' = Len(inSamples)
    /\ UNCHANGED <<inEvery, inSeq, inTodo, inAddrs, inPingVars, inSamples, inCtx>>

InetNext ==
    \/ InetSignal \/ InetKilled
    \/ BadDestination \/ Resolve \/ StartPings \/ PingsDone \/ Request
    \/ \E ip \in InetIPs : pingOne(ip) \/ LockBlocks(ip) \/ AppendBlock(ip)
    \/ EndCycle \/ BeginCycle \/ InetClose

InetSpec == InetInit /\ [][InetNext]_inVars

-----------------------------------------------------------------------------
(* The variables keep their types.                                         *)
InetTypeOK ==
    /\ inEvery \in Nat \ {0}
    /\ inMain \in {"waiting", "probing", "closed", "killed"}
    /\ inSeq \in 0..MaxCycles
    /\ inAddrs \subseteq InetIPs /\ inBlocks \subseteq InetIPs
    /\ inPings \in [InetIPs -> {"none", "pinging", "pinged", "append", "done"}]
    /\ inMutex \in InetIPs \cup {InetNobody}
    /\ inSeen \in [InetIPs -> SUBSET InetIPs]
    /\ inFlushed \in 0..Len(inSamples)
    /\ inCtx \in {"live", "cancelled"}

(* What the monitor records can be relied on: the samples are those of whole *)
(* cycles in order, none left out; a ping sample tells of every address the *)
(* name was resolved to, whatever order the pings ended in; a name without  *)
(* addresses is an error unless every query was answered; a program that    *)
(* was told to end leaves all of it in the file, and one that was killed    *)
(* loses no more than the cycles since the last flush was due.              *)
InetRecordsWhole ==
    LET perCycle == Len(runCycle)
        Step(k)  == runCycle[((k - 1) % perCycle) + 1]
    IN  /\ \A k \in DOMAIN inSamples :
              LET s == inSamples[k]
              IN  /\ s.seq = (k - 1) \div perCycle
                  /\ s.cmd = Step(k).cmd /\ s.mode = Step(k).mode
                  /\ s.cmd = "icmp" => s.out = inSamples[k - 1].out
                  /\ (s.cmd = "dns" /\ s.out = {} /\ ~s.err) => Answered(s.asked) = DOMAIN s.asked
        /\ inMain = "closed" => inFlushed = Len(inSamples) /\ Len(inSamples) % perCycle = 0
        /\ Len(inSamples) - inFlushed <= inEvery * perCycle
=============================================================================
