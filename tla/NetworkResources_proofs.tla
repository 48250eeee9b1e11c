---------------------- MODULE NetworkResources_proofs ----------------------
(***************************************************************************)
(* A TAP and its mover, for any configuration; the types of a bridge, a    *)
(* VLAN and a namespace, and when one is destroyed and created again.      *)
(***************************************************************************)
EXTENDS TapResource, LinkResource, Lists_proofs

-----------------------------------------------------------------------------
(* TAP and mover.                                                          *)

CmdsOf(q) == {q[i] : i \in 1..Len(q)}

(* The order of the mover's steps; the last is one of four.                *)
Rank(s) == CASE s = "pid"       -> 0
             [] s = "config"    -> 1
             [] s = "subscribe" -> 2
             [] s = "event"     -> 3
             [] s = "move"      -> 4
             [] s = "master"    -> 5
             [] s = "addr"      -> 6
             [] s = "state"     -> 7
             [] OTHER           -> 8

InOrder(q) == \A i, j \in 1..Len(q) : i < j => Rank(q[i]) < Rank(q[j])

(* Create is under way, or to come. *)
Creating == tapOp.name = "new" \/ (tapOp.name = "create" /\ tapOp.todo # <<>>)

DeleteEnd == {<<"nomaster", "delete", "remove">>, <<"delete", "remove">>, <<"remove">>}

(* What the operations have left to do.                                    *)
TapTodo ==
    /\ tapOp.name \in {"new", "failed", "deleted"} => tapOp.todo = <<>>
    /\ tapOp.name = "create" /\ tapOp.todo # <<>> /\ inNs =>
         \/ "mtu" \in asked /\ tapOp.todo \in {<<"add", "mtu", "mover">>, <<"mtu", "mover">>}
         \/ "mtu" \notin asked /\ tapOp.todo = <<"add", "mover">>
         \/ tapOp.todo = <<"mover">> /\ ("mtu" \in asked /\ tap.at # "none" => "mtu" \in tap.set)
    /\ tapOp.name = "create" /\ ~inNs => CmdsOf(tapOp.todo) \subseteq {"add", "show", "addrs"} \cup TapSettings
    /\ tapOp.name = "read" /\ tapOp.todo # <<>> =>
         tapOp.todo \in {<<"status", "show", "addrs">>, <<"show", "addrs">>, <<"addrs">>}
    /\ tapOp.name = "delete" /\ tapOp.todo # <<>> =>
         tapOp.todo \in DeleteEnd \cup {<<"stop", "back", "nomaster", "delete", "remove">>,
                                        <<"stop", "back", "delete", "remove">>,
                                        <<"back", "nomaster", "delete", "remove">>,
                                        <<"back", "delete", "remove">>}
    /\ tapOp.name = "delete" /\ tapOp.todo # <<>> /\ ~inNs => tapOp.todo \in DeleteEnd
    /\ tapOp.name \in {"read", "delete"} /\ tapOp.todo # <<>> => tapSaved.known

(* Before the end of Create there is nothing of the mover, and only a TAP   *)
(* for a namespace ever has one.                                           *)
MoverAfterCreate ==
    /\ Creating => /\ mover = [todo |-> <<>>, stopped |-> FALSE, orphan |-> FALSE]
                   /\ tapDir.status = "none" /\ ~tapDir.pid /\ ~tapSaved.known /\ tap.at # "netns"
    /\ tapOp.name = "create" /\ tapOp.todo # <<>> => tapDir.dir
    /\ ~inNs => mover.todo = <<>> /\ tap.at # "netns" /\ tapDir.status # "moved"

(* How far the mover is: its steps are in order, the settings it has still  *)
(* to make are asked for and ahead of it, and it is over once it said so.  *)
(* A mover that nobody tried to stop finds the TAP where it put it; of one *)
(* that was killed at most its ip command is left.                         *)
MoverOrder ==
    /\ InOrder(mover.todo)
    /\ CmdsOf(mover.todo) \cap TapSettings \subseteq asked
    /\ mover.todo # <<>> /\ Head(mover.todo) # "pid" /\ tapDir.dir => tapDir.pid
    /\ tapDir.status = "moved" => mover.todo = <<>>
    /\ mover.orphan => mover.stopped /\ (mover.todo = <<>> \/ \E ip \in IpCommands : mover.todo = <<ip>>)
    /\ ~mover.orphan /\ mover.todo # <<>> /\ Head(mover.todo) \in {"pid", "config", "subscribe", "event"}
         => "move" \in CmdsOf(mover.todo)
    /\ ~mover.orphan /\ "move" \in CmdsOf(mover.todo) => asked \ {"mtu"} \subseteq CmdsOf(mover.todo)
    /\ mover.todo # <<>> /\ Head(mover.todo) \in {"master", "addr", "state", "status", "moved"}
         => /\ ~mover.stopped => tap.at # "default"
            /\ ~mover.orphan /\ tap.at = "netns" => asked \subseteq tap.set \cup CmdsOf(mover.todo)

(* The MTU is set before the mover is started, and stays; nothing is set    *)
(* that was not asked for.                                                 *)
MtuFirst ==
    inNs => /\ tap.set \subseteq asked
            /\ "mtu" \in asked /\ tap.at # "none" /\ (tapSaved.known \/ mover.todo # <<>>)
                 => "mtu" \in tap.set

(* The state keeps what was asked for, and a TAP that was moved has it.     *)
AskedStays ==
    /\ tapSaved.known => tapDir.dir
    /\ inNs /\ tapSaved.known => tapSaved.set \ {"mtu"} = asked \ {"mtu"}
    /\ tapOp.status = "moved" => tapDir.status = "moved"
    /\ inNs /\ tapDir.status = "moved" /\ tap.at = "netns" => asked \subseteq tap.set

(* Delete stops the mover first, then takes the TAP back, then deletes it. *)
DeleteInOrder ==
    /\ inNs /\ tapOp.name = "delete" /\ tapOp.todo # <<>> /\ Head(tapOp.todo) # "stop"
         => mover.stopped /\ (mover.orphan \/ tapOp.ignored \/ mover.todo = <<>>)
    /\ tapOp.name = "delete" /\ tapOp.todo \in DeleteEnd
         => mover.orphan \/ tapOp.ignored \/ tap.at # "netns"
    /\ tapOp.name = "delete" /\ tapOp.todo = <<"remove">>
         => mover.orphan \/ tapOp.ignored \/ tap.at = "none"
    /\ tapOp.name = "deleted"
         => ~tapSaved.known /\ (mover.orphan \/ tapOp.ignored \/ mover.todo = <<>>)

TapLaws == /\ TapTodo /\ MoverAfterCreate /\ MoverOrder /\ MtuFirst /\ AskedStays /\ DeleteInOrder
           /\ TapMovedIsDone /\ TapNoEarlyDrift /\ TapDeleteLeavesNone

TapInv == TapTypeOK /\ TapLaws

-----------------------------------------------------------------------------
LEMMA ElemsOfTail ==
    ASSUME NEW S, NEW q \in Seq(S), q # <<>>
    PROVE  /\ Tail(q) \in Seq(S) /\ Head(q) \in S
           /\ Head(q) \in CmdsOf(q) /\ CmdsOf(q) = {Head(q)} \cup CmdsOf(Tail(q))
<1>1. Len(q) \in Nat \ {0} /\ Tail(q) \in Seq(S) /\ Len(Tail(q)) = Len(q) - 1 /\ Head(q) = q[1]
  OBVIOUS
<1>2. \A i \in 1..Len(Tail(q)) : Tail(q)[i] = q[i + 1]
  OBVIOUS
<1>3. q[1] \in S
  BY <1>1
<1>4. ASSUME NEW x \in CmdsOf(q) PROVE x \in {Head(q)} \cup CmdsOf(Tail(q))
  <2>1. PICK i \in 1..Len(q) : x = q[i]
    BY <1>4 DEF CmdsOf
  <2>2. CASE i = 1 BY <1>1, <2>1, <2>2
  <2>3. CASE i # 1
    <3>1. i - 1 \in 1..Len(Tail(q)) /\ Tail(q)[i - 1] = q[i]
      BY <1>1, <1>2, <2>3
    <3> QED BY <2>1, <3>1 DEF CmdsOf
  <2> QED BY <2>2, <2>3
<1>5. ASSUME NEW x \in CmdsOf(Tail(q)) PROVE x \in CmdsOf(q)
  <2>1. PICK i \in 1..Len(Tail(q)) : x = Tail(q)[i]
    BY <1>5 DEF CmdsOf
  <2>2. i + 1 \in 1..Len(q) /\ x = q[i + 1]
    BY <1>1, <1>2, <2>1
  <2> QED BY <2>2 DEF CmdsOf
<1>6. Head(q) \in CmdsOf(q)
  BY <1>1 DEF CmdsOf
<1> QED BY <1>1, <1>3, <1>4, <1>5, <1>6

LEMMA TailInOrder ==
    ASSUME NEW S, NEW q \in Seq(S), q # <<>>, InOrder(q)
    PROVE  InOrder(Tail(q)) /\ \A x \in CmdsOf(Tail(q)) : Rank(Head(q)) < Rank(x)
<1>1. Len(q) \in Nat \ {0} /\ Len(Tail(q)) = Len(q) - 1 /\ Head(q) = q[1]
  OBVIOUS
<1>2. \A i \in 1..Len(Tail(q)) : Tail(q)[i] = q[i + 1] /\ i + 1 \in 1..Len(q) /\ 1 < i + 1
  BY <1>1
<1>3. ASSUME NEW i \in 1..Len(Tail(q)), NEW j \in 1..Len(Tail(q)), i < j
      PROVE  Rank(Tail(q)[i]) < Rank(Tail(q)[j])
  BY <1>2, <1>3 DEF InOrder
<1>4. ASSUME NEW x \in CmdsOf(Tail(q)) PROVE Rank(Head(q)) < Rank(x)
  <2>1. PICK i \in 1..Len(Tail(q)) : x = Tail(q)[i]
    BY <1>4 DEF CmdsOf
  <2>2. 1 \in 1..Len(q) /\ i + 1 \in 1..Len(q) /\ 1 < i + 1 /\ x = q[i + 1]
    BY <1>1, <1>2, <2>1
  <2> QED BY <1>1, <2>2 DEF InOrder
<1> QED BY <1>3, <1>4 DEF InOrder

(* A list of steps that starts after another one ended. *)
LEMMA JoinedInOrder ==
    ASSUME NEW S, NEW p \in Seq(S), NEW q \in Seq(S), InOrder(p), InOrder(q),
           \A x \in CmdsOf(p), y \in CmdsOf(q) : Rank(x) < Rank(y)
    PROVE  p \o q \in Seq(S) /\ CmdsOf(p \o q) = CmdsOf(p) \cup CmdsOf(q) /\ InOrder(p \o q)
<1> DEFINE r == p \o q
<1>1. r \in Seq(S) /\ Len(r) = Len(p) + Len(q) /\ Len(p) \in Nat /\ Len(q) \in Nat
  OBVIOUS
<1>2. \A i \in 1..Len(p) : r[i] = p[i] /\ p[i] \in CmdsOf(p)
  BY DEF CmdsOf
<1>3. \A i \in 1..Len(r) : i > Len(p) => i - Len(p) \in 1..Len(q) /\ r[i] = q[i - Len(p)] /\ r[i] \in CmdsOf(q)
  BY <1>1 DEF CmdsOf
<1>4. ASSUME NEW i \in 1..Len(r), NEW j \in 1..Len(r), i < j PROVE Rank(r[i]) < Rank(r[j])
  <2>1. CASE j <= Len(p)
    <3>1. i \in 1..Len(p) /\ j \in 1..Len(p)
      BY <1>1, <1>4, <2>1
    <3> QED BY <1>2, <1>4, <3>1 DEF InOrder
  <2>2. CASE i > Len(p)
    <3>1. /\ i - Len(p) \in 1..Len(q) /\ j - Len(p) \in 1..Len(q) /\ i - Len(p) < j - Len(p)
          /\ r[i] = q[i - Len(p)] /\ r[j] = q[j - Len(p)]
      BY <1>1, <1>3, <1>4, <2>2
    <3> QED BY <3>1 DEF InOrder
  <2>3. CASE i <= Len(p) /\ j > Len(p)
    <3>1. r[i] \in CmdsOf(p) /\ r[j] \in CmdsOf(q)
      BY <1>1, <1>2, <1>3, <2>3
    <3> QED BY <3>1
  <2> QED BY <1>1, <2>1, <2>2, <2>3
<1>5. CmdsOf(r) \subseteq CmdsOf(p) \cup CmdsOf(q)
  <2>1. ASSUME NEW i \in 1..Len(r) PROVE r[i] \in CmdsOf(p) \cup CmdsOf(q)
    <3>1. i \in 1..Len(p) \/ i > Len(p)
      BY <1>1
    <3> QED BY <1>2, <1>3, <3>1
  <2> QED BY <2>1 DEF CmdsOf
<1>6. CmdsOf(p) \subseteq CmdsOf(r)
  <2>1. \A i \in 1..Len(p) : i \in 1..Len(r)
    BY <1>1
  <2> QED BY <1>2, <2>1 DEF CmdsOf
<1>7. CmdsOf(q) \subseteq CmdsOf(r)
  <2>1. \A i \in 1..Len(q) : i + Len(p) \in 1..Len(r) /\ q[i] = r[i + Len(p)]
    BY <1>1
  <2> QED BY <2>1 DEF CmdsOf
<1> HIDE DEF r
<1>8. InOrder(r)
  BY <1>4 DEF InOrder
<1> QED BY <1>1, <1>5, <1>6, <1>7, <1>8 DEF r

LEMMA OneStepList ==
    ASSUME NEW S, NEW x \in S
    PROVE  <<x>> \in Seq(S) /\ CmdsOf(<<x>>) = {x} /\ InOrder(<<x>>) /\ <<x>> # <<>> /\ Head(<<x>>) = x /\ Tail(<<x>>) = <<>>
BY DEF CmdsOf, InOrder

LEMMA NoStepList == CmdsOf(<<>>) = {} /\ InOrder(<<>>)
BY DEF CmdsOf, InOrder

(* What the mover is started with.                                         *)
LEMMA MoverStepsFacts ==
    ASSUME asked \in SUBSET TapSettings
    PROVE  /\ MoverSteps \in Seq(MoverTodo) /\ InOrder(MoverSteps)
           /\ CmdsOf(MoverSteps) = {"pid", "config", "subscribe", "event", "move", "status"} \cup (asked \ {"mtu"})
           /\ MoverSteps # <<>> /\ Head(MoverSteps) = "pid"
<1> DEFINE First == <<"pid", "config", "subscribe", "event", "move">>
           m == IfAsked("master")  a == IfAsked("addr")  s == IfAsked("state")
<1>1. First \in Seq(MoverTodo) /\ CmdsOf(First) = {"pid", "config", "subscribe", "event", "move"}
  BY DEF MoverTodo, CmdsOf
<1>2. InOrder(First)
  BY DEF InOrder, Rank
<1>3. ASSUME NEW x \in {"master", "addr", "state"}
      PROVE  IfAsked(x) \in Seq(MoverTodo) /\ CmdsOf(IfAsked(x)) = {x} \cap asked /\ InOrder(IfAsked(x))
  <2>1. x \in MoverTodo
    BY DEF MoverTodo, TapSettings
  <2>2. <<x>> \in Seq(MoverTodo) /\ CmdsOf(<<x>>) = {x} /\ InOrder(<<x>>)
    BY <2>1, OneStepList
  <2>3. CASE x \in asked
    <3>1. IfAsked(x) = <<x>>
      BY <2>3 DEF IfAsked
    <3> QED BY <2>2, <2>3, <3>1
  <2>4. CASE x \notin asked
    <3>1. IfAsked(x) = <<>>
      BY <2>4 DEF IfAsked
    <3> QED BY <2>4, <3>1, NoStepList
  <2> QED BY <2>3, <2>4
<1>4. \A x, y \in MoverTodo : Rank(x) \in 0..8
  BY DEF Rank
<1>5. m \o a \in Seq(MoverTodo) /\ CmdsOf(m \o a) = {"master", "addr"} \cap asked /\ InOrder(m \o a)
  <2>1. \A x \in CmdsOf(m), y \in CmdsOf(a) : Rank(x) < Rank(y)
    BY <1>3 DEF Rank
  <2> QED BY <1>3, <2>1, JoinedInOrder
<1>6. MoverSettings \in Seq(MoverTodo) /\ CmdsOf(MoverSettings) = {"master", "addr", "state"} \cap asked /\ InOrder(MoverSettings)
  <2>2. MoverSettings = (m \o a) \o s
    BY DEF MoverSettings
  <2>3. s \in Seq(MoverTodo) /\ CmdsOf(s) = {"state"} \cap asked /\ InOrder(s)
    BY <1>3
  <2> DEFINE ma == m \o a
  <2>4. ma \in Seq(MoverTodo) /\ CmdsOf(ma) = {"master", "addr"} \cap asked /\ InOrder(ma)
    BY <1>5
  <2> HIDE DEF ma, s
  <2>5. /\ ma \o s \in Seq(MoverTodo) /\ InOrder(ma \o s)
        /\ CmdsOf(ma \o s) = CmdsOf(ma) \cup CmdsOf(s)
    <3>1. \A x \in CmdsOf(ma), y \in CmdsOf(s) : Rank(x) < Rank(y)
      BY <2>3, <2>4 DEF Rank
    <3> QED BY <2>3, <2>4, <3>1, JoinedInOrder
  <2>6. MoverSettings = ma \o s
    BY <2>2 DEF ma, s
  <2> QED BY <2>3, <2>4, <2>5, <2>6
<1>7. /\ First \o MoverSettings \in Seq(MoverTodo) /\ InOrder(First \o MoverSettings)
      /\ CmdsOf(First \o MoverSettings) = CmdsOf(First) \cup CmdsOf(MoverSettings)
  <2>1. \A x \in CmdsOf(First), y \in CmdsOf(MoverSettings) : Rank(x) < Rank(y)
    BY <1>1, <1>6 DEF Rank
  <2> HIDE DEF First
  <2> QED BY <1>1, <1>2, <1>6, <2>1, JoinedInOrder
<1>8. /\ MoverSteps \in Seq(MoverTodo) /\ InOrder(MoverSteps)
      /\ CmdsOf(MoverSteps) = CmdsOf(First) \cup CmdsOf(MoverSettings) \cup {"status"}
  <2>1. <<"status">> \in Seq(MoverTodo) /\ CmdsOf(<<"status">>) = {"status"} /\ InOrder(<<"status">>)
    BY OneStepList DEF MoverTodo
  <2>2. \A x \in CmdsOf(First \o MoverSettings), y \in CmdsOf(<<"status">>) : Rank(x) < Rank(y)
    BY <1>1, <1>6, <1>7, <2>1 DEF Rank
  <2> DEFINE f == First \o MoverSettings
             l == <<"status">>
  <2>3. f \in Seq(MoverTodo) /\ InOrder(f) /\ l \in Seq(MoverTodo) /\ InOrder(l)
    BY <1>7, <2>1
  <2>4. CmdsOf(l) = {"status"} /\ CmdsOf(f) = CmdsOf(First) \cup CmdsOf(MoverSettings)
    BY <1>7, <2>1
  <2>5. MoverSteps = f \o l
    BY DEF MoverSteps
  <2>6. \A x \in CmdsOf(f), y \in CmdsOf(l) : Rank(x) < Rank(y)
    BY <2>2
  <2> HIDE DEF f, l, First
  <2>7. f \o l \in Seq(MoverTodo) /\ InOrder(f \o l) /\ CmdsOf(f \o l) = CmdsOf(f) \cup CmdsOf(l)
    BY <2>3, <2>6, JoinedInOrder
  <2> QED BY <2>4, <2>5, <2>7
<1>9. MoverSteps # <<>> /\ Head(MoverSteps) = "pid"
  <2>1. Len(First) = 5 /\ First[1] = "pid"
    OBVIOUS
  <2>2. Len(First \o MoverSettings) >= 5 /\ (First \o MoverSettings)[1] = First[1]
    <3> DEFINE n == MoverSettings
    <3>1. n \in Seq(MoverTodo) /\ First \in Seq(MoverTodo)
      BY <1>1, <1>6
    <3> HIDE DEF First, n
    <3>2. Len(First \o n) = Len(First) + Len(n) /\ Len(n) \in Nat
      BY <3>1
    <3>3. (First \o n)[1] = First[1]
      BY <3>1, <2>1
    <3> QED BY <2>1, <3>2, <3>3 DEF n
  <2>3. Len(MoverSteps) >= 6 /\ MoverSteps[1] = "pid"
    BY <1>7, <2>1, <2>2 DEF MoverSteps
  <2> QED BY <1>8, <2>3
<1>10. CmdsOf(First) \cup CmdsOf(MoverSettings) \cup {"status"}
         = {"pid", "config", "subscribe", "event", "move", "status"} \cup (asked \ {"mtu"})
  BY <1>1, <1>6 DEF TapSettings
<1> QED BY <1>8, <1>9, <1>10

LEMMA JoinedAfterOne ==
    ASSUME NEW x \in TapSteps, NEW y \in TapSteps, NEW z \in TapSteps
    PROVE  /\ <<x>> \o <<y>> = <<x, y>> /\ <<x, y>> \o <<z>> = <<x, y, z>>
           /\ <<x>> \o <<>> = <<x>> /\ <<>> \o <<x>> = <<x>>
<1>1. <<x>> \in Seq(TapSteps) /\ <<y>> \in Seq(TapSteps) /\ <<x, y>> \in Seq(TapSteps) /\ <<x, y, z>> \in Seq(TapSteps)
      /\ <<z>> \in Seq(TapSteps)
  OBVIOUS
<1>2. <<x>> \o <<y>> = <<x, y>>
  <2>1. <<x>> \o <<y>> \in Seq(TapSteps) /\ Len(<<x>> \o <<y>>) = 2
    BY <1>1
  <2>2. (<<x>> \o <<y>>)[1] = x /\ (<<x>> \o <<y>>)[2] = y
    BY <1>1
  <2>3. \A i \in 1..2 : (<<x>> \o <<y>>)[i] = <<x, y>>[i]
    BY <2>2
  <2> QED BY <1>1, <2>1, <2>3, SeqEqual
<1>3. <<x, y>> \o <<z>> = <<x, y, z>>
  <2>1. <<x, y>> \o <<z>> \in Seq(TapSteps) /\ Len(<<x, y>> \o <<z>>) = 3
    BY <1>1
  <2>2. (<<x, y>> \o <<z>>)[1] = x /\ (<<x, y>> \o <<z>>)[2] = y /\ (<<x, y>> \o <<z>>)[3] = z
    BY <1>1
  <2>3. \A i \in 1..3 : (<<x, y>> \o <<z>>)[i] = <<x, y, z>>[i]
    BY <2>2
  <2> QED BY <1>1, <2>1, <2>3, SeqEqual
<1> QED BY <1>1, <1>2, <1>3, ConcatEmptySeq

LEMMA JoinedTwos ==
    /\ \A v, w \in TapSteps : <<>> \o <<v, w>> = <<v, w>>
    /\ \A x, v, w \in TapSteps : <<x>> \o <<v, w>> = <<x, v, w>>
    /\ \A x, y, v, w \in TapSteps : <<x, y>> \o <<v, w>> = <<x, y, v, w>>
    /\ \A x, y, z, v, w \in TapSteps : <<x, y, z>> \o <<v, w>> = <<x, y, z, v, w>>
<1>1. ASSUME NEW x \in TapSteps, NEW v \in TapSteps, NEW w \in TapSteps
      PROVE  <<x>> \o <<v, w>> = <<x, v, w>>
  <2>1. <<x>> \in Seq(TapSteps) /\ <<v, w>> \in Seq(TapSteps) /\ <<x, v, w>> \in Seq(TapSteps)
    OBVIOUS
  <2>2. <<x>> \o <<v, w>> \in Seq(TapSteps) /\ Len(<<x>> \o <<v, w>>) = 3
    BY <2>1
  <2>3. (<<x>> \o <<v, w>>)[1] = x /\ (<<x>> \o <<v, w>>)[2] = v /\ (<<x>> \o <<v, w>>)[3] = w
    BY <2>1
  <2>4. \A i \in 1..3 : (<<x>> \o <<v, w>>)[i] = <<x, v, w>>[i]
    BY <2>3
  <2> QED BY <2>1, <2>2, <2>4, SeqEqual
<1>2. ASSUME NEW x \in TapSteps, NEW y \in TapSteps, NEW v \in TapSteps, NEW w \in TapSteps
      PROVE  <<x, y>> \o <<v, w>> = <<x, y, v, w>>
  <2>1. <<x, y>> \in Seq(TapSteps) /\ <<v, w>> \in Seq(TapSteps) /\ <<x, y, v, w>> \in Seq(TapSteps)
    OBVIOUS
  <2>2. <<x, y>> \o <<v, w>> \in Seq(TapSteps) /\ Len(<<x, y>> \o <<v, w>>) = 4
    BY <2>1
  <2>3. /\ (<<x, y>> \o <<v, w>>)[1] = x /\ (<<x, y>> \o <<v, w>>)[2] = y /\ (<<x, y>> \o <<v, w>>)[3] = v
        /\ (<<x, y>> \o <<v, w>>)[4] = w
    BY <2>1
  <2>4. \A i \in 1..4 : (<<x, y>> \o <<v, w>>)[i] = <<x, y, v, w>>[i]
    BY <2>3
  <2> QED BY <2>1, <2>2, <2>4, SeqEqual
<1>3. ASSUME NEW x \in TapSteps, NEW y \in TapSteps, NEW z \in TapSteps, NEW v \in TapSteps, NEW w \in TapSteps
      PROVE  <<x, y, z>> \o <<v, w>> = <<x, y, z, v, w>>
  <2>1. <<x, y, z>> \in Seq(TapSteps) /\ <<v, w>> \in Seq(TapSteps) /\ <<x, y, z, v, w>> \in Seq(TapSteps)
    OBVIOUS
  <2>2. <<x, y, z>> \o <<v, w>> \in Seq(TapSteps) /\ Len(<<x, y, z>> \o <<v, w>>) = 5
    BY <2>1
  <2>3. /\ (<<x, y, z>> \o <<v, w>>)[1] = x /\ (<<x, y, z>> \o <<v, w>>)[2] = y /\ (<<x, y, z>> \o <<v, w>>)[3] = z
        /\ (<<x, y, z>> \o <<v, w>>)[4] = v /\ (<<x, y, z>> \o <<v, w>>)[5] = w
    BY <2>1
  <2>4. \A i \in 1..5 : (<<x, y, z>> \o <<v, w>>)[i] = <<x, y, z, v, w>>[i]
    BY <2>3
  <2> QED BY <2>1, <2>2, <2>4, SeqEqual
<1>4. ASSUME NEW v \in TapSteps, NEW w \in TapSteps PROVE <<>> \o <<v, w>> = <<v, w>>
  <2>1. <<v, w>> \in Seq(TapSteps)
    OBVIOUS
  <2> QED BY <2>1, ConcatEmptySeq
<1> QED BY <1>1, <1>2, <1>3, <1>4

(* The steps of Read and Delete, written out. *)
LEMMA ListsWritten ==
    /\ <<"status">> \o <<"show", "addrs">> = <<"status", "show", "addrs">>
    /\ <<>> \o <<"show", "addrs">> = <<"show", "addrs">>
    /\ <<"stop", "back">> \o <<"nomaster">> \o <<"delete", "remove">> = <<"stop", "back", "nomaster", "delete", "remove">>
    /\ <<"stop", "back">> \o <<>> \o <<"delete", "remove">> = <<"stop", "back", "delete", "remove">>
    /\ <<>> \o <<"nomaster">> \o <<"delete", "remove">> = <<"nomaster", "delete", "remove">>
    /\ <<>> \o <<>> \o <<"delete", "remove">> = <<"delete", "remove">>
<1> DEFINE st == "status"  sh == "show"  ad == "addrs"  so == "stop"  ba == "back"
           no == "nomaster"  de == "delete"  re == "remove"
<1>1. /\ st \in TapSteps /\ sh \in TapSteps /\ ad \in TapSteps /\ so \in TapSteps /\ ba \in TapSteps
      /\ no \in TapSteps /\ de \in TapSteps /\ re \in TapSteps
  BY DEF TapSteps
<1> HIDE DEF st, sh, ad, so, ba, no, de, re
<1>2. <<st>> \o <<sh, ad>> = <<st, sh, ad>> /\ <<>> \o <<sh, ad>> = <<sh, ad>>
  BY <1>1, JoinedTwos
<1>3. <<so, ba>> \o <<no>> = <<so, ba, no>> /\ <<>> \o <<no>> = <<no>>
  BY <1>1, JoinedAfterOne
<1>4. <<so, ba>> \in Seq(TapSteps) /\ <<>> \in Seq(TapSteps)
  BY <1>1
<1>5. <<so, ba>> \o <<>> = <<so, ba>> /\ <<>> \o <<>> = <<>>
  BY <1>4, ConcatEmptySeq
<1>6. <<so, ba, no>> \o <<de, re>> = <<so, ba, no, de, re>>
  BY <1>1, JoinedTwos
<1>7. <<so, ba>> \o <<de, re>> = <<so, ba, de, re>> /\ <<no>> \o <<de, re>> = <<no, de, re>>
  BY <1>1, JoinedTwos
<1>8. <<>> \o <<de, re>> = <<de, re>>
  BY <1>1, JoinedTwos
<1> QED BY <1>2, <1>3, <1>5, <1>6, <1>7, <1>8 DEF st, sh, ad, so, ba, no, de, re

(* The steps of Create for a namespace, written out. *)
LEMMA CreateSteps ==
    /\ IfAsked("mtu") \o <<"mover">> = IF "mtu" \in asked THEN <<"mtu", "mover">> ELSE <<"mover">>
    /\ <<"add">> \o IfAsked("mtu") \o <<"mover">> = IF "mtu" \in asked THEN <<"add", "mtu", "mover">> ELSE <<"add", "mover">>
<1>1. "add" \in TapSteps /\ "mtu" \in TapSteps /\ "mover" \in TapSteps
  BY DEF TapSteps, TapSettings
<1>2. CASE "mtu" \in asked
  BY <1>1, <1>2, JoinedAfterOne DEF IfAsked
<1>3. CASE "mtu" \notin asked
  BY <1>1, <1>3, JoinedAfterOne DEF IfAsked
<1> QED BY <1>2, <1>3

-----------------------------------------------------------------------------
LEMMA TapStarts == TapInit => TapInv
<1> SUFFICES ASSUME TapInit PROVE TapInv
  OBVIOUS
<1>1. /\ asked \in SUBSET TapSettings /\ inNs \in BOOLEAN /\ netnsUp = TRUE
      /\ tap = [at |-> "none", set |-> {}]
      /\ tapDir = [dir |-> FALSE, pid |-> FALSE, status |-> "none"]
      /\ mover = [todo |-> <<>>, stopped |-> FALSE, orphan |-> FALSE]
      /\ tapSaved = [known |-> FALSE, tainted |-> FALSE, mover |-> "", set |-> {}]
      /\ tapOp = [name |-> "new", todo |-> <<>>, status |-> "", ignored |-> FALSE]
  BY TapAssumption DEF TapInit, TapGone, NoFiles, Unsaved, TapIdle
<1>2. TapTypeOK
  <2>1. <<>> \in Seq(MoverTodo) /\ <<>> \in Seq(TapSteps)
    OBVIOUS
  <2> QED BY <1>1, <2>1 DEF TapTypeOK, Statuses
<1>3. TapTodo /\ MoverAfterCreate /\ MtuFirst /\ AskedStays
  BY <1>1, NoStepList DEF TapTodo, MoverAfterCreate, MtuFirst, AskedStays, Creating
<1>4. MoverOrder
  BY <1>1, NoStepList DEF MoverOrder
<1>5. DeleteInOrder /\ TapMovedIsDone /\ TapNoEarlyDrift /\ TapDeleteLeavesNone
  BY <1>1 DEF DeleteInOrder, TapMovedIsDone, TapNoEarlyDrift, TapDeleteLeavesNone
<1> QED BY <1>2, <1>3, <1>4, <1>5 DEF TapInv, TapLaws

TapLinkType == [at : {"none", "default", "netns"}, set : SUBSET TapSettings]
FilesType  == [dir : BOOLEAN, pid : BOOLEAN, status : {"none", "empty", "moved", "error"}]
MoverType  == [todo : Seq(MoverTodo), stopped : BOOLEAN, orphan : BOOLEAN]
SavedType  == [known : BOOLEAN, tainted : BOOLEAN, mover : Statuses, set : SUBSET TapSettings]
OpNames    == {"new", "create", "read", "delete", "failed", "deleted"}
OpType     == [name : OpNames, todo : Seq(TapSteps), status : Statuses, ignored : BOOLEAN]

(* What the actions make of the operation and of the mover. *)
LEMMA TapHelpers ==
    ASSUME tapOp \in OpType, mover \in MoverType
    PROVE  /\ tapOp.todo # <<>> /\ TapGoOn =>
                 /\ tapOp' = [name |-> tapOp.name, todo |-> Tail(tapOp.todo), status |-> tapOp.status, ignored |-> tapOp.ignored]
                 /\ tapOp' \in OpType
           /\ tapOp.todo # <<>> /\ TapGoOnAnyway =>
                 /\ tapOp' = [name |-> tapOp.name, todo |-> Tail(tapOp.todo), status |-> tapOp.status, ignored |-> TRUE]
                 /\ tapOp' \in OpType
           /\ \A n \in OpNames : TapIdle(n) \in OpType
           /\ mover.todo # <<>> /\ MoverGoesOn =>
                 /\ mover' = [todo |-> Tail(mover.todo), stopped |-> mover.stopped, orphan |-> mover.orphan]
                 /\ mover' \in MoverType
           /\ MoverErrs =>
                 /\ mover' = [todo |-> IF mover.orphan THEN <<>> ELSE <<"error">>, stopped |-> mover.stopped, orphan |-> mover.orphan]
                 /\ mover' \in MoverType
           /\ MoverEnds =>
                 /\ mover' = [todo |-> <<>>, stopped |-> mover.stopped, orphan |-> mover.orphan]
                 /\ mover' \in MoverType
<1>1. /\ tapOp = [name |-> tapOp.name, todo |-> tapOp.todo, status |-> tapOp.status, ignored |-> tapOp.ignored]
      /\ tapOp.name \in OpNames /\ tapOp.todo \in Seq(TapSteps) /\ tapOp.status \in Statuses /\ tapOp.ignored \in BOOLEAN
  BY DEF OpType
<1>2. /\ mover = [todo |-> mover.todo, stopped |-> mover.stopped, orphan |-> mover.orphan]
      /\ mover.todo \in Seq(MoverTodo) /\ mover.stopped \in BOOLEAN /\ mover.orphan \in BOOLEAN
  BY DEF MoverType
<1>3. ASSUME tapOp.todo # <<>>, TapGoOn
      PROVE  /\ tapOp' = [name |-> tapOp.name, todo |-> Tail(tapOp.todo), status |-> tapOp.status, ignored |-> tapOp.ignored]
             /\ tapOp' \in OpType
  <2>1. tapOp' = [name |-> tapOp.name, todo |-> Tail(tapOp.todo), status |-> tapOp.status, ignored |-> tapOp.ignored]
    BY <1>1, <1>3 DEF TapGoOn
  <2>2. Tail(tapOp.todo) \in Seq(TapSteps)
    BY <1>1, <1>3, ElemsOfTail
  <2> QED BY <1>1, <2>1, <2>2 DEF OpType
<1>9. ASSUME tapOp.todo # <<>>, TapGoOnAnyway
      PROVE  /\ tapOp' = [name |-> tapOp.name, todo |-> Tail(tapOp.todo), status |-> tapOp.status, ignored |-> TRUE]
             /\ tapOp' \in OpType
  <2>1. tapOp' = [name |-> tapOp.name, todo |-> Tail(tapOp.todo), status |-> tapOp.status, ignored |-> TRUE]
    BY <1>1, <1>9 DEF TapGoOnAnyway
  <2>2. Tail(tapOp.todo) \in Seq(TapSteps)
    BY <1>1, <1>9, ElemsOfTail
  <2> QED BY <1>1, <2>1, <2>2 DEF OpType
<1>4. ASSUME NEW n \in OpNames PROVE TapIdle(n) \in OpType
  <2>1. <<>> \in Seq(TapSteps)
    OBVIOUS
  <2> QED BY <2>1 DEF TapIdle, OpType, Statuses
<1>5. ASSUME mover.todo # <<>>, MoverGoesOn
      PROVE  /\ mover' = [todo |-> Tail(mover.todo), stopped |-> mover.stopped, orphan |-> mover.orphan]
             /\ mover' \in MoverType
  <2>1. mover' = [todo |-> Tail(mover.todo), stopped |-> mover.stopped, orphan |-> mover.orphan]
    BY <1>2, <1>5 DEF MoverGoesOn
  <2>2. Tail(mover.todo) \in Seq(MoverTodo)
    BY <1>2, <1>5, ElemsOfTail
  <2> QED BY <1>2, <2>1, <2>2 DEF MoverType
<1>6. <<>> \in Seq(MoverTodo) /\ <<"error">> \in Seq(MoverTodo)
  BY DEF MoverTodo
<1>7. ASSUME MoverErrs
      PROVE  /\ mover' = [todo |-> IF mover.orphan THEN <<>> ELSE <<"error">>, stopped |-> mover.stopped, orphan |-> mover.orphan]
             /\ mover' \in MoverType
  <2>1. mover' = [todo |-> IF mover.orphan THEN <<>> ELSE <<"error">>, stopped |-> mover.stopped, orphan |-> mover.orphan]
    BY <1>2, <1>7 DEF MoverErrs
  <2> QED BY <1>2, <1>6, <2>1 DEF MoverType
<1>8. ASSUME MoverEnds
      PROVE  /\ mover' = [todo |-> <<>>, stopped |-> mover.stopped, orphan |-> mover.orphan]
             /\ mover' \in MoverType
  <2>1. mover' = [todo |-> <<>>, stopped |-> mover.stopped, orphan |-> mover.orphan]
    BY <1>2, <1>8 DEF MoverEnds
  <2> QED BY <1>2, <1>6, <2>1 DEF MoverType
<1> QED BY <1>3, <1>4, <1>5, <1>7, <1>8, <1>9

(* Each step keeps the types.                                              *)
LEMMA TapTypesKept ==
    ASSUME TapTypeOK, [TapNext]_tapVars
    PROVE  TapTypeOK'
<1>0. /\ inNs \in BOOLEAN /\ asked \in SUBSET TapSettings /\ netnsUp \in BOOLEAN
      /\ tap \in TapLinkType /\ tapDir \in FilesType /\ mover \in MoverType /\ tapSaved \in SavedType /\ tapOp \in OpType
  BY DEF TapTypeOK, TapLinkType, FilesType, MoverType, SavedType, OpNames, OpType
<1>1. SUFFICES
        /\ inNs' \in BOOLEAN /\ asked' \in SUBSET TapSettings /\ netnsUp' \in BOOLEAN
        /\ tap' \in TapLinkType /\ tapDir' \in FilesType /\ mover' \in MoverType /\ tapSaved' \in SavedType /\ tapOp' \in OpType
  BY <1>1 DEF TapTypeOK, TapLinkType, FilesType, MoverType, SavedType, OpNames, OpType
<1> USE <1>0
<1>2. \A n \in {"new", "create", "read", "delete", "failed", "deleted"} : TapIdle(n) \in OpType
  BY TapHelpers DEF OpNames
<1>3. (TapGoOn \/ TapGoOnAnyway) /\ tapOp.todo # <<>> => tapOp' \in OpType
  BY TapHelpers
<1>4. (MoverGoesOn /\ mover.todo # <<>>) \/ MoverErrs \/ MoverEnds => mover' \in MoverType
  BY TapHelpers
<1>5. TapGone \in TapLinkType /\ NoFiles \in FilesType /\ Unsaved \in SavedType
  BY DEF TapGone, NoFiles, Unsaved, TapLinkType, FilesType, SavedType, Statuses
<1>6. CASE TapCreate
  <2>1. "add" \in TapSteps /\ "mover" \in TapSteps /\ "show" \in TapSteps /\ "addrs" \in TapSteps
    BY DEF TapSteps
  <2>2. ASSUME NEW x \in TapSettings PROVE IfAsked(x) \in Seq(TapSteps)
    <3>1. <<>> \in Seq(TapSteps)
      OBVIOUS
    <3>2. x \in TapSteps
      BY DEF TapSteps
    <3>3. <<x>> \in Seq(TapSteps)
      BY <3>2
    <3> QED BY <3>1, <3>3 DEF IfAsked
  <2>3. /\ IfAsked("mtu") \in Seq(TapSteps) /\ IfAsked("master") \in Seq(TapSteps)
        /\ IfAsked("state") \in Seq(TapSteps) /\ IfAsked("addr") \in Seq(TapSteps)
    BY <2>2 DEF TapSettings
  <2>4. <<"add">> \in Seq(TapSteps) /\ <<"mover">> \in Seq(TapSteps) /\ <<"show", "addrs">> \in Seq(TapSteps)
    BY <2>1
  <2> DEFINE list == <<"add">> \o IfAsked("mtu") \o
                            (IF inNs THEN <<"mover">>
                             ELSE IfAsked("master") \o IfAsked("state") \o IfAsked("addr")
                                    \o <<"show", "addrs">>)
  <2>5. list \in Seq(TapSteps)
    BY <2>3, <2>4
  <2> HIDE DEF list
  <2>6. tapOp' = [name |-> "create", todo |-> list, status |-> "", ignored |-> FALSE]
    BY <1>6 DEF TapCreate, TapIdle, list
  <2>7. tapOp' \in OpType
    BY <2>5, <2>6 DEF OpType, OpNames, Statuses
  <2>8. tapDir' \in FilesType
    BY <1>6 DEF TapCreate, FilesType
  <2> QED BY <1>6, <2>7, <2>8 DEF TapCreate
<1>7. CASE TapFail
  BY <1>2, <1>7 DEF TapFail, TapEnd
<1>8. CASE TapAdd
  <2>1. tap' \in TapLinkType
    BY <1>8 DEF TapAdd, TapLinkType
  <2> QED BY <1>3, <1>8, <2>1 DEF TapAdd, TapDo
<1>9. CASE \E s \in TapSettings : TapSet(s)
  <2>1. PICK s \in TapSettings : TapSet(s)
    BY <1>9
  <2>2. tap' \in TapLinkType
    BY <2>1 DEF TapSet, TapLinkType
  <2> QED BY <1>2, <1>3, <2>1, <2>2 DEF TapSet, TapDo, TapEnd
<1>10. CASE StartTAPMover
  <2>1. mover' \in MoverType
    BY <1>10, MoverStepsFacts DEF StartTAPMover, MoverType
  <2>2. tapSaved' \in SavedType
    <3>1. CASE UNCHANGED tapSaved BY <3>1
    <3>2. CASE tapSaved' = [known |-> TRUE, tainted |-> ~({"mtu", "state"} \subseteq asked),
                          mover |-> "pending", set |-> asked]
      <4> DEFINE t == ~({"mtu", "state"} \subseteq asked)
      <4>1. t \in BOOLEAN
        OBVIOUS
      <4>2. tapSaved' = [known |-> TRUE, tainted |-> t, mover |-> "pending", set |-> asked]
        BY <3>2
      <4> HIDE DEF t
      <4> QED BY <4>1, <4>2 DEF SavedType, Statuses
    <3> QED BY <1>10, <3>1, <3>2 DEF StartTAPMover
  <2> QED BY <1>2, <1>10, <2>1, <2>2 DEF StartTAPMover, TapEnd
<1>11. CASE TapRead
  <2> DEFINE list == (IF inNs THEN <<"status">> ELSE <<>>) \o <<"show", "addrs">>
  <2>1. list \in Seq(TapSteps)
    <3>1. <<>> \in Seq(TapSteps) /\ <<"status">> \in Seq(TapSteps) /\ <<"show", "addrs">> \in Seq(TapSteps)
      BY DEF TapSteps
    <3> QED BY <3>1
  <2> HIDE DEF list
  <2>2. tapOp' = [name |-> "read", todo |-> list, status |-> "", ignored |-> FALSE]
    BY <1>11 DEF TapRead, TapIdle, list
  <2>3. tapOp' \in OpType
    BY <2>1, <2>2 DEF OpType, OpNames, Statuses
  <2> QED BY <1>11, <2>3 DEF TapRead
<1>12. CASE ReadMoverStatus
  <2>1. \A s \in {MoverStatus} \cup MoverUnread : s \in Statuses
    BY DEF MoverStatus, MoverUnread, Statuses
  <2>2. tapOp.todo # <<>> /\ tapOp.todo \in Seq(TapSteps)
    BY <1>12 DEF ReadMoverStatus, TapDo, OpType
  <2>3. Tail(tapOp.todo) \in Seq(TapSteps)
    BY <2>2, ElemsOfTail
  <2>4. \E s \in {MoverStatus} \cup MoverUnread :
          tapOp' = [name |-> tapOp.name, todo |-> Tail(tapOp.todo), status |-> s, ignored |-> tapOp.ignored]
    BY <1>12 DEF ReadMoverStatus, OpType
  <2>5. tapOp.name \in OpNames /\ tapOp.ignored \in BOOLEAN
    BY DEF OpType
  <2>6. tapOp' \in OpType
    BY <2>1, <2>3, <2>4, <2>5 DEF OpType
  <2> QED BY <1>12, <2>6 DEF ReadMoverStatus
<1>13. CASE ShowLink
  <2>1. tapOp' \in OpType
    BY <1>2, <1>3, <1>13 DEF ShowLink, TapNotThere, TapEnd, TapDo
  <2>2. tapSaved' \in SavedType
    BY <1>5, <1>13 DEF ShowLink, TapNotThere
  <2> QED BY <1>13, <2>1, <2>2 DEF ShowLink
<1>14. CASE ShowAddresses
  <2>1. tapOp.name \in OpNames /\ tapOp.status \in Statuses
    BY DEF OpType
  <2>2. tapOp' \in OpType
    BY <1>2, <1>14, <2>1, TapHelpers DEF ShowAddresses, TapNotThere, TapEnd
  <2>3. Reported \in SUBSET TapSettings
    BY DEF Reported, TapLinkType, SavedType
  <2>4. [known |-> TRUE, tainted |-> tapSaved.tainted, mover |-> tapOp.status, set |-> Reported] \in SavedType
    BY <2>1, <2>3 DEF SavedType
  <2>5. tapSaved' \in SavedType
    BY <1>5, <1>14, <2>4 DEF ShowAddresses, TapNotThere
  <2> QED BY <1>14, <2>2, <2>5 DEF ShowAddresses
<1>15. CASE TapDelete
  <2> DEFINE list == (IF inNs THEN <<"stop", "back">> ELSE <<>>) \o
           (IF "master" \in tapSaved.set THEN <<"nomaster">> ELSE <<>>) \o <<"delete", "remove">>
  <2>1. /\ <<"stop", "back">> \in Seq(TapSteps) /\ <<"nomaster">> \in Seq(TapSteps)
        /\ <<"delete", "remove">> \in Seq(TapSteps) /\ <<>> \in Seq(TapSteps)
    BY DEF TapSteps
  <2>2. list \in Seq(TapSteps)
    BY <2>1
  <2> HIDE DEF list
  <2>3. tapOp' = [name |-> "delete", todo |-> list, status |-> "", ignored |-> FALSE]
    BY <1>15 DEF TapDelete, TapIdle, list
  <2>4. tapOp' \in OpType
    BY <2>2, <2>3 DEF OpType, OpNames, Statuses
  <2> QED BY <1>15, <2>4 DEF TapDelete
<1>16. CASE StopTAPMover
  <2>1. mover.todo \in Seq(MoverTodo)
    BY DEF MoverType
  <2>2. mover.todo # <<>> => <<Head(mover.todo)>> \in Seq(MoverTodo)
    BY <2>1, ElemsOfTail, OneStepList
  <2>3. mover' \in MoverType
    <3>1. CASE /\ \E ip \in IpCommands : MoverDo(ip)
               /\ mover' = [todo |-> <<Head(mover.todo)>>, stopped |-> TRUE, orphan |-> TRUE]
      <4>1. mover.todo # <<>>
        BY <3>1 DEF MoverDo
      <4> QED BY <2>2, <3>1, <4>1 DEF MoverType
    <3>2. CASE mover' = [mover EXCEPT !.stopped = TRUE, !.todo = IF tapDir.pid THEN <<>> ELSE @]
      <4> DEFINE l == IF tapDir.pid THEN <<>> ELSE mover.todo
      <4>1. <<>> \in Seq(MoverTodo)
        OBVIOUS
      <4>2. l \in Seq(MoverTodo)
        BY <2>1, <4>1
      <4>3. mover' = [todo |-> l, stopped |-> TRUE, orphan |-> mover.orphan] /\ mover.orphan \in BOOLEAN
        BY <3>2 DEF MoverType
      <4> HIDE DEF l
      <4> QED BY <4>2, <4>3 DEF MoverType
    <3>3. CASE mover' = [mover EXCEPT !.stopped = TRUE]
      BY <2>1, <3>3 DEF MoverType
    <3> QED BY <1>16, <3>1, <3>2, <3>3 DEF StopTAPMover
  <2> QED BY <1>3, <1>16, <2>3 DEF StopTAPMover, TapDo
<1>17. CASE MoveBack \/ NoMaster \/ DeleteTAP
  <2>1. tap' \in TapLinkType
    BY <1>17 DEF MoveBack, NoMaster, DeleteTAP, Carried, TapGone, TapLinkType
  <2> QED BY <1>3, <1>17, <2>1 DEF MoveBack, NoMaster, DeleteTAP, TapDo
<1>18. CASE RemoveTapDir
  <2>1. tapOp.ignored \in BOOLEAN
    BY DEF OpType
  <2>2. tapOp' = [name |-> "deleted", todo |-> <<>>, status |-> "", ignored |-> tapOp.ignored]
    BY <1>18 DEF RemoveTapDir, TapIdle
  <2>3. <<>> \in Seq(TapSteps)
    OBVIOUS
  <2>4. tapOp' \in OpType
    BY <2>1, <2>2, <2>3 DEF OpType, OpNames, Statuses
  <2> QED BY <1>5, <1>18, <2>4 DEF RemoveTapDir
<1>19. CASE MoverBegins
  <2>1. tapDir' \in FilesType
    BY <1>19 DEF MoverBegins, FilesType
  <2> QED BY <1>4, <1>19, <2>1 DEF MoverBegins, MoverDo
<1>20. CASE LinkEvent \/ WaitTimesOut
  BY <1>4, <1>20 DEF LinkEvent, WaitTimesOut, MoverDo
<1>21. CASE MoveTAP
  <2>1. tap' \in TapLinkType
    BY <1>21 DEF MoveTAP, Carried, TapLinkType
  <2> QED BY <1>4, <1>21, <2>1 DEF MoveTAP, MoverDo
<1>22. CASE \E s \in {"master", "addr", "state"} : ConfigureTAP(s)
  <2>1. PICK s \in {"master", "addr", "state"} : ConfigureTAP(s)
    BY <1>22
  <2>2. tap' \in TapLinkType
    BY <2>1 DEF ConfigureTAP, TapLinkType, TapSettings
  <2> QED BY <1>4, <2>1, <2>2 DEF ConfigureTAP, MoverDo
<1>23. CASE TruncateStatus
  <2>1. tapDir' \in FilesType
    BY <1>23 DEF TruncateStatus, FilesType
  <2>2. mover.todo # <<>> /\ mover.todo \in Seq(MoverTodo)
    BY <1>23 DEF TruncateStatus, MoverType
  <2>3. Tail(mover.todo) \in Seq(MoverTodo)
    BY <2>2, ElemsOfTail
  <2>4. \A x \in {"moved", "failed"} : <<x>> \in Seq(MoverTodo)
    BY DEF MoverTodo
  <2>5. \A x \in {"moved", "failed"} : <<x>> \o Tail(mover.todo) \in Seq(MoverTodo)
    BY <2>3, <2>4
  <2>6. mover' \in MoverType
    <3>1. CASE MoverGoesOn BY <1>4, <2>2, <3>1
    <3>2. CASE mover' = [mover EXCEPT !.todo =
                         <<IF MoverDo("status") THEN "moved" ELSE "failed">> \o Tail(@)]
      BY <2>5, <3>2 DEF MoverType
    <3> QED BY <1>23, <3>1, <3>2 DEF TruncateStatus
  <2> QED BY <1>23, <2>1, <2>6 DEF TruncateStatus
<1>24. CASE WriteStatus
  <2>1. tapDir' \in FilesType
    BY <1>24 DEF WriteStatus, FilesType
  <2> QED BY <1>4, <1>24, <2>1 DEF WriteStatus
<1>25. CASE LoseTAP \/ LoseNetNS \/ UNCHANGED tapVars
  BY <1>5, <1>25 DEF LoseTAP, LoseNetNS, tapVars
<1> QED BY <1>6, <1>7, <1>8, <1>9, <1>10, <1>11, <1>12, <1>13, <1>14, <1>15, <1>16, <1>17, <1>18, <1>19, <1>20,
           <1>21, <1>22, <1>23, <1>24, <1>25 DEF TapNext, TapOperation, MoverStep

-----------------------------------------------------------------------------
LEMMA HeadIsFirst ==
    ASSUME NEW S, NEW q \in Seq(S), q # <<>>, InOrder(q)
    PROVE  /\ \A x \in CmdsOf(q) : x = Head(q) \/ Rank(Head(q)) < Rank(x)
           /\ Rank(Head(q)) = 8 => CmdsOf(Tail(q)) = {} /\ Tail(q) = <<>>
<1>1. CmdsOf(q) = {Head(q)} \cup CmdsOf(Tail(q)) /\ Tail(q) \in Seq(S)
  BY ElemsOfTail
<1>2. \A x \in CmdsOf(Tail(q)) : Rank(Head(q)) < Rank(x)
  BY TailInOrder
<1>3. \A x : Rank(x) \in 0..8
  BY DEF Rank
<1>4. Rank(Head(q)) = 8 => CmdsOf(Tail(q)) = {}
  BY <1>2, <1>3
<1>5. Tail(q) # <<>> => Head(Tail(q)) \in CmdsOf(Tail(q))
  BY <1>1, ElemsOfTail
<1> QED BY <1>1, <1>2, <1>4, <1>5

(* The TAP or its namespace is removed by somebody. *)
LEMMA EnvironmentKeeps ==
    ASSUME TapInv, LoseTAP \/ LoseNetNS
    PROVE  TapLaws'
<1>1. /\ UNCHANGED <<inNs, asked, tapDir, mover, tapSaved, tapOp>>
      /\ tap' = [at |-> "none", set |-> {}] \/ tap' = tap
  BY DEF LoseTAP, LoseNetNS, TapGone
<1>2. tap'.at = "none" \/ tap' = tap
  BY <1>1
<1>3. TapTodo /\ MoverAfterCreate /\ MoverOrder /\ MtuFirst /\ AskedStays /\ DeleteInOrder
      /\ TapMovedIsDone /\ TapNoEarlyDrift /\ TapDeleteLeavesNone
  BY DEF TapInv, TapLaws
<1>4. TapTodo'
  BY <1>1, <1>2, <1>3 DEF TapTodo, CmdsOf
<1>5. MoverAfterCreate' /\ MtuFirst' /\ AskedStays'
  BY <1>1, <1>2, <1>3 DEF MoverAfterCreate, MtuFirst, AskedStays, Creating
<1>6. MoverOrder'
  BY <1>1, <1>2, <1>3 DEF MoverOrder, InOrder, CmdsOf
<1>7. DeleteInOrder'
  BY <1>1, <1>2, <1>3 DEF DeleteInOrder, DeleteEnd
<1>8. TapMovedIsDone' /\ TapNoEarlyDrift' /\ TapDeleteLeavesNone'
  BY <1>1, <1>2, <1>3 DEF TapMovedIsDone, TapNoEarlyDrift, TapDeleteLeavesNone
<1> QED BY <1>4, <1>5, <1>6, <1>7, <1>8 DEF TapLaws

(* The mover goes on: the laws of what it has to do, whatever the rest.    *)
LEMMA MoverGoesAhead ==
    ASSUME mover \in MoverType, asked \in SUBSET TapSettings, asked' = asked,
           mover.todo # <<>>, MoverGoesOn, MoverOrder,
           tapDir'.dir /\ Head(mover.todo) # "pid" => tapDir.dir,
           tapDir'.dir => tapDir'.pid,
           tapDir'.status = "moved" => Head(mover.todo) = "moved",
           Head(mover.todo) = "move" => tap'.at = "netns" /\ ("mtu" \in asked => "mtu" \in tap'.set),
           Head(mover.todo) \in {"master", "addr", "state"} =>
               tap'.at = "netns" /\ tap.at = "netns" /\ tap'.set = tap.set \cup {Head(mover.todo)}
    PROVE  MoverOrder'
<1> DEFINE rest == Tail(mover.todo)
           h == Head(mover.todo)
<1>1. /\ mover'.todo = rest /\ mover'.stopped = mover.stopped /\ mover'.orphan = mover.orphan
      /\ mover.todo \in Seq(MoverTodo) /\ mover.orphan \in BOOLEAN
  BY DEF MoverGoesOn, MoverType
<1>2. /\ rest \in Seq(MoverTodo) /\ h \in MoverTodo
      /\ CmdsOf(mover.todo) = {h} \cup CmdsOf(rest) /\ InOrder(mover.todo)
  BY <1>1, ElemsOfTail DEF MoverOrder
<1>3. InOrder(rest) /\ \A x \in CmdsOf(rest) : Rank(h) < Rank(x)
  BY <1>1, <1>2, TailInOrder
<1>4. rest # <<>> => /\ Head(rest) \in CmdsOf(rest) /\ Head(rest) \in MoverTodo
                     /\ \A x \in CmdsOf(rest) : x = Head(rest) \/ Rank(Head(rest)) < Rank(x)
  BY <1>2, <1>3, ElemsOfTail, HeadIsFirst
<1>5. /\ InOrder(mover.todo) /\ CmdsOf(mover.todo) \cap TapSettings \subseteq asked
      /\ ~mover.orphan /\ h \in {"pid", "config", "subscribe", "event"} => "move" \in CmdsOf(mover.todo)
      /\ ~mover.orphan /\ "move" \in CmdsOf(mover.todo) => asked \ {"mtu"} \subseteq CmdsOf(mover.todo)
      /\ ~mover.orphan /\ tap.at = "netns" /\ h \in {"master", "addr", "state", "status", "moved"}
           => asked \subseteq tap.set \cup CmdsOf(mover.todo)
      /\ tapDir.status = "moved" => mover.todo = <<>>
      /\ mover.orphan => mover.stopped /\ \E ip \in IpCommands : mover.todo = <<ip>>
  BY DEF MoverOrder
<1>6. Rank(h) = 8 => rest = <<>>
  BY <1>1, <1>2, HeadIsFirst
<1>7. h = "moved" => rest = <<>>
  BY <1>6 DEF Rank
<1>8. tapDir'.status = "moved" => rest = <<>>
  BY <1>7
<1>12. mover.orphan => rest = <<>> /\ mover.stopped
  <2> SUFFICES ASSUME mover.orphan PROVE rest = <<>>
    BY <1>5
  <2>1. PICK ip \in IpCommands : mover.todo = <<ip>>
    BY <1>5
  <2> QED BY <2>1, OneStepList
<1>13. CmdsOf(rest) \cap TapSettings \subseteq asked
  BY <1>2, <1>5
<1>9. ASSUME ~mover.orphan, rest # <<>>, Head(rest) \in {"pid", "config", "subscribe", "event"}
      PROVE  "move" \in CmdsOf(rest)
  <2>1. Rank(h) < Rank(Head(rest))
    BY <1>3, <1>4, <1>9
  <2>2. h \in {"pid", "config", "subscribe", "event"}
    BY <1>9, <2>1 DEF Rank
  <2> QED BY <1>2, <1>5, <1>9, <2>2
<1>10. ASSUME ~mover.orphan, "move" \in CmdsOf(rest) PROVE asked \ {"mtu"} \subseteq CmdsOf(rest)
  <2>1. Rank(h) < Rank("move")
    BY <1>3, <1>10
  <2>2. h \notin TapSettings
    BY <2>1 DEF Rank, TapSettings
  <2> QED BY <1>2, <1>5, <1>10, <2>2
<1>11. ASSUME ~mover.orphan, rest # <<>>, Head(rest) \in {"master", "addr", "state", "status", "moved"}
       PROVE  tap'.at = "netns" /\ asked \subseteq tap'.set \cup CmdsOf(rest)
  <2>1. h \notin {"pid", "config", "subscribe", "event"}
    <3>1. SUFFICES ASSUME h \in {"pid", "config", "subscribe", "event"} PROVE FALSE
      OBVIOUS
    <3>2. "move" \in CmdsOf(rest)
      BY <1>2, <1>5, <1>11, <3>1
    <3>3. Head(rest) = "move" \/ Rank(Head(rest)) < Rank("move")
      BY <1>4, <1>11, <3>2
    <3> QED BY <1>11, <3>3 DEF Rank
  <2>2. CASE h = "move"
    <3>1. asked \ {"mtu"} \subseteq CmdsOf(rest)
      BY <1>2, <1>5, <1>11, <2>2 DEF TapSettings
    <3> QED BY <1>11, <2>2, <3>1
  <2>3. CASE h \in {"master", "addr", "state"}
    <3>1. tap'.at = "netns" /\ tap.at = "netns" /\ tap'.set = tap.set \cup {h}
      BY <2>3
    <3>2. asked \subseteq tap.set \cup CmdsOf(mover.todo)
      BY <1>5, <1>11, <2>3, <3>1
    <3> HIDE DEF h, rest
    <3> QED BY <1>2, <3>1, <3>2
  <2>4. CASE Rank(h) = 8
    BY <1>6, <1>11, <2>4
  <2>5. h = "move" \/ h \in {"master", "addr", "state"} \/ Rank(h) = 8
    BY <2>1 DEF Rank
  <2> QED BY <2>2, <2>3, <2>4, <2>5
<1> HIDE DEF rest, h
<1> QED BY <1>1, <1>3, <1>8, <1>9, <1>10, <1>11, <1>12, <1>13 DEF MoverOrder

(* What it has to do after it gave up, or is done.                         *)
LEMMA MoverStops ==
    ASSUME tapDir.status # "moved", tapDir'.status # "moved", tapDir'.dir => tapDir'.pid,
           mover'.todo = <<>> \/ (~mover'.orphan /\ \E x \in {"error", "failed"} : mover'.todo = <<x>>),
           mover'.orphan => mover'.stopped
    PROVE  MoverOrder'
<1>1. CASE mover'.todo = <<>>
  <2>1. InOrder(mover'.todo) /\ CmdsOf(mover'.todo) = {}
    BY <1>1, NoStepList
  <2> QED BY <1>1, <2>1 DEF MoverOrder
<1>2. CASE ~mover'.orphan /\ \E x \in {"error", "failed"} : mover'.todo = <<x>>
  <2>1. PICK x \in {"error", "failed"} : mover'.todo = <<x>>
    BY <1>2
  <2>2. CmdsOf(mover'.todo) = {x} /\ InOrder(mover'.todo) /\ Head(mover'.todo) = x /\ x \notin TapSettings
    BY <2>1, OneStepList DEF TapSettings
  <2> QED BY <1>2, <2>2 DEF MoverOrder
<1> QED BY <1>1, <1>2

LEMMA MoverInOrder ==
    ASSUME TapInv, MoverStep \/ LinkEvent
    PROVE  MoverOrder'
<1>0. /\ tap \in TapLinkType /\ tapDir \in FilesType /\ mover \in MoverType /\ asked \in SUBSET TapSettings
      /\ MoverAfterCreate /\ MoverOrder /\ MtuFirst
  BY DEF TapInv, TapLaws, TapTypeOK, TapLinkType, FilesType, MoverType
<1>1. mover.todo # <<>> /\ asked' = asked
  BY DEF MoverStep, LinkEvent, MoverBegins, WaitTimesOut, MoveTAP, ConfigureTAP, TruncateStatus, WriteStatus, MoverDo
<1>2. /\ inNs /\ tapDir.status # "moved"
      /\ Head(mover.todo) # "pid" /\ tapDir.dir => tapDir.pid
  BY <1>0, <1>1 DEF MoverAfterCreate, MoverOrder
<1>3. MoverErrs \/ MoverEnds =>
        /\ mover'.todo = <<>> \/ (~mover'.orphan /\ \E x \in {"error", "failed"} : mover'.todo = <<x>>)
        /\ mover'.orphan => mover'.stopped
  <2>1. mover.orphan => mover.stopped
    BY <1>0 DEF MoverOrder
  <2> QED BY <1>0, <2>1 DEF MoverErrs, MoverEnds, MoverType
<1>4. CASE MoverBegins
  <2>1. /\ tapDir'.dir = tapDir.dir /\ tapDir'.status = tapDir.status /\ (tapDir.dir => tapDir'.pid)
        /\ Head(mover.todo) \in {"pid", "config", "subscribe"}
        /\ MoverGoesOn \/ MoverErrs \/ MoverEnds
    BY <1>0, <1>2, <1>4 DEF MoverBegins, MoverDo, FilesType
  <2>2. CASE MoverGoesOn
    BY <1>0, <1>1, <1>2, <2>1, <2>2, MoverGoesAhead
  <2>3. CASE MoverErrs \/ MoverEnds
    BY <1>2, <1>3, <2>1, <2>3, MoverStops
  <2> QED BY <2>1, <2>2, <2>3
<1>5. CASE LinkEvent
  BY <1>0, <1>1, <1>2, <1>5, MoverGoesAhead DEF LinkEvent, MoverDo
<1>6. CASE WaitTimesOut
  BY <1>2, <1>3, <1>6, MoverStops DEF WaitTimesOut, MoverDo
<1>7. CASE MoveTAP
  <2>1. Head(mover.todo) = "move" /\ tapDir' = tapDir
    BY <1>7 DEF MoveTAP, MoverDo
  <2>2. CASE MoverErrs
    BY <1>2, <1>3, <2>1, <2>2, MoverStops
  <2>3. CASE ~MoverErrs
    <3>1. tap.at = "default" /\ tap'.at = "netns" /\ tap'.set = tap.set \cap {"mtu"} /\ MoverGoesOn
      BY <1>7, <2>3 DEF MoveTAP, Carried
    <3>2. "mtu" \in asked => "mtu" \in tap'.set
      BY <1>0, <1>1, <1>2, <3>1 DEF MtuFirst
    <3> QED BY <1>0, <1>1, <1>2, <2>1, <3>1, <3>2, MoverGoesAhead
  <2> QED BY <2>2, <2>3
<1>8. CASE \E s \in {"master", "addr", "state"} : ConfigureTAP(s)
  <2>1. PICK s \in {"master", "addr", "state"} : ConfigureTAP(s)
    BY <1>8
  <2>2. Head(mover.todo) = s /\ tapDir' = tapDir
    BY <2>1 DEF ConfigureTAP, MoverDo
  <2>3. CASE MoverErrs
    BY <1>2, <1>3, <2>2, <2>3, MoverStops
  <2>4. CASE ~MoverErrs
    <3>1. tap.at = "netns" /\ tap'.at = "netns" /\ tap'.set = tap.set \cup {s} /\ MoverGoesOn
      BY <1>0, <2>1, <2>4 DEF ConfigureTAP, TapLinkType
    <3> QED BY <1>0, <1>1, <1>2, <2>2, <3>1, MoverGoesAhead
  <2> QED BY <2>3, <2>4
<1>9. CASE TruncateStatus
  <2>1. /\ Head(mover.todo) \in {"status", "error"} /\ tapDir'.dir = tapDir.dir /\ tapDir'.pid = tapDir.pid
        /\ tapDir'.status # "moved" /\ tap' = tap
    BY <1>0, <1>2, <1>9 DEF TruncateStatus, FilesType
  <2>2. mover.todo \in Seq(MoverTodo) /\ InOrder(mover.todo) /\ Rank(Head(mover.todo)) = 8
    BY <1>0, <2>1 DEF MoverType, MoverOrder, Rank
  <2>3. Tail(mover.todo) = <<>> /\ CmdsOf(mover.todo) = {Head(mover.todo)}
    BY <1>1, <2>2, HeadIsFirst, ElemsOfTail
  <2>0. ~mover.orphan
    <3>1. SUFFICES ASSUME mover.orphan PROVE FALSE
      OBVIOUS
    <3>2. PICK ip \in IpCommands : mover.todo = <<ip>>
      BY <1>0, <1>1, <3>1 DEF MoverOrder
    <3>3. Head(mover.todo) = ip
      BY <3>2
    <3> QED BY <2>1, <3>3 DEF IpCommands
  <2>4. CASE MoverGoesOn
    BY <1>0, <1>2, <2>0, <2>1, <2>3, <2>4, MoverStops DEF MoverGoesOn, MoverType
  <2>5. CASE ~MoverGoesOn
    <3>1. /\ mover'.todo = <<IF MoverDo("status") THEN "moved" ELSE "failed">> \o <<>>
          /\ mover'.stopped = mover.stopped /\ ~mover'.orphan
      BY <1>0, <1>9, <2>0, <2>3, <2>5 DEF TruncateStatus, MoverType
    <3>2. \A x \in {"moved", "failed"} : <<x>> \o <<>> = <<x>>
      BY ConcatEmptySeq DEF MoverTodo
    <3>3. CASE Head(mover.todo) = "error"
      <4>1. mover'.todo = <<"failed">>
        BY <3>1, <3>2, <3>3 DEF MoverDo
      <4> QED BY <1>2, <2>1, <3>1, <4>1, MoverStops
    <3>4. CASE Head(mover.todo) = "status"
      <4>1. mover'.todo = <<"moved">>
        BY <1>1, <3>1, <3>2, <3>4 DEF MoverDo
      <4>2. CmdsOf(mover'.todo) = {"moved"} /\ InOrder(mover'.todo) /\ Head(mover'.todo) = "moved"
        BY <4>1, OneStepList
      <4>3. (~mover.stopped => tap.at # "default") /\ (tap.at = "netns" => asked \subseteq tap.set)
            /\ "moved" \notin TapSettings
        <5>1. (~mover.stopped => tap.at # "default") /\ (tap.at = "netns" => asked \subseteq tap.set \cup {"status"})
          BY <1>0, <1>1, <2>0, <2>3, <3>4 DEF MoverOrder
        <5> QED BY <1>0, <5>1 DEF TapSettings
      <4> QED BY <1>1, <1>2, <2>1, <3>1, <3>4, <4>2, <4>3 DEF MoverOrder
    <3> QED BY <2>1, <3>3, <3>4
  <2> QED BY <2>4, <2>5
<1>10. CASE WriteStatus
  <2>1. /\ Head(mover.todo) \in {"moved", "failed"} /\ tapDir'.dir = tapDir.dir /\ tapDir'.pid = tapDir.pid
        /\ tapDir'.status = "moved" => Head(mover.todo) = "moved"
        /\ MoverGoesOn
    BY <1>0, <1>2, <1>10 DEF WriteStatus, FilesType, MoverDo
  <2> QED BY <1>0, <1>1, <1>2, <2>1, MoverGoesAhead
<1> QED BY <1>4, <1>5, <1>6, <1>7, <1>8, <1>9, <1>10 DEF MoverStep

(* A step of the mover, but for what is left to do after it. *)
LEMMA MoverKeeps ==
    ASSUME TapInv, MoverStep \/ LinkEvent, MoverOrder'
    PROVE  TapLaws'
<1>0. /\ tap \in TapLinkType /\ tapDir \in FilesType /\ mover \in MoverType /\ asked \in SUBSET TapSettings
      /\ tapOp \in OpType
      /\ TapTodo /\ MoverAfterCreate /\ MoverOrder /\ MtuFirst /\ AskedStays /\ DeleteInOrder
      /\ TapMovedIsDone /\ TapNoEarlyDrift /\ TapDeleteLeavesNone
  BY DEF TapInv, TapLaws, TapTypeOK, TapLinkType, FilesType, MoverType, OpType, OpNames
<1>1. UNCHANGED <<inNs, asked, tapSaved, tapOp>> /\ mover.todo # <<>> /\ tapDir'.dir = tapDir.dir
  BY <1>0 DEF MoverStep, LinkEvent, MoverBegins, WaitTimesOut, MoveTAP, ConfigureTAP, TruncateStatus, WriteStatus,
         MoverDo, FilesType
<1>2. mover'.stopped = mover.stopped /\ mover'.orphan = mover.orphan
  <2>1. MoverGoesOn \/ MoverErrs \/ MoverEnds
        \/ mover' = [mover EXCEPT !.todo = <<IF MoverDo("status") THEN "moved" ELSE "failed">> \o Tail(@)]
    BY DEF MoverStep, LinkEvent, MoverBegins, WaitTimesOut, MoveTAP, ConfigureTAP, TruncateStatus, WriteStatus
  <2> QED BY <1>0, <2>1 DEF MoverGoesOn, MoverErrs, MoverEnds, MoverType
<1>3. /\ tap'.at = "none" <=> tap.at = "none"
      /\ "mtu" \in tap.set => "mtu" \in tap'.set
  BY <1>0 DEF MoverStep, LinkEvent, MoverBegins, WaitTimesOut, MoveTAP, ConfigureTAP, TruncateStatus, WriteStatus,
         Carried, TapLinkType
<1>4. inNs /\ ~Creating /\ tapDir.status # "moved"
  BY <1>0, <1>1 DEF MoverAfterCreate, MoverOrder
<1>5. TapTodo'
  BY <1>0, <1>1, <1>4 DEF TapTodo, Creating, CmdsOf
<1>6. MoverAfterCreate'
  BY <1>0, <1>1, <1>4 DEF MoverAfterCreate, Creating
<1>7. MtuFirst'
  <2>1. tap'.set \subseteq asked
    <3>1. CASE \E s \in {"master", "addr", "state"} : ConfigureTAP(s)
      <4>1. PICK s \in {"master", "addr", "state"} : ConfigureTAP(s)
        BY <3>1
      <4>2. s \in CmdsOf(mover.todo) /\ s \in TapSettings
        <5>1. mover.todo \in Seq(MoverTodo) /\ Head(mover.todo) = s
          BY <1>0, <4>1 DEF ConfigureTAP, MoverDo, MoverType
        <5> QED BY <1>1, <5>1, ElemsOfTail DEF TapSettings
      <4>3. s \in asked
        BY <1>0, <4>2 DEF MoverOrder
      <4>4. tap'.set \subseteq tap.set \cup {s}
        BY <1>0, <4>1 DEF ConfigureTAP, TapLinkType
      <4> QED BY <1>0, <1>4, <4>3, <4>4 DEF MtuFirst
    <3>2. CASE ~ \E s \in {"master", "addr", "state"} : ConfigureTAP(s)
      <4>1. tap'.set \subseteq tap.set
        BY <1>0, <3>2 DEF MoverStep, LinkEvent, MoverBegins, WaitTimesOut, MoveTAP, TruncateStatus, WriteStatus,
               Carried, TapLinkType
      <4> QED BY <1>0, <1>4, <4>1 DEF MtuFirst
    <3> QED BY <3>1, <3>2
  <2> QED BY <1>0, <1>1, <1>3, <2>1 DEF MtuFirst
<1>13. tapDir'.status = "moved" =>
         /\ tap' = tap /\ Head(mover.todo) = "moved" /\ CmdsOf(mover.todo) = {"moved"} /\ ~mover.orphan
  <2> SUFFICES ASSUME tapDir'.status = "moved"
               PROVE  /\ tap' = tap /\ Head(mover.todo) = "moved" /\ CmdsOf(mover.todo) = {"moved"} /\ ~mover.orphan
    OBVIOUS
  <2>1. WriteStatus /\ MoverDo("moved")
    BY <1>0, <1>4 DEF MoverStep, LinkEvent, MoverBegins, WaitTimesOut, MoveTAP, ConfigureTAP, TruncateStatus,
           WriteStatus, FilesType
  <2>2. tap' = tap /\ Head(mover.todo) = "moved"
    BY <2>1 DEF WriteStatus, MoverDo
  <2>3. CmdsOf(mover.todo) = {"moved"}
    <3>1. mover.todo \in Seq(MoverTodo) /\ InOrder(mover.todo)
      BY <1>0 DEF MoverType, MoverOrder
    <3>2. Rank("moved") = 8
      BY DEF Rank
    <3> QED BY <1>1, <2>2, <3>1, <3>2, HeadIsFirst, ElemsOfTail
  <2>4. ~mover.orphan
    <3>1. SUFFICES ASSUME mover.orphan PROVE FALSE
      OBVIOUS
    <3>2. PICK ip \in IpCommands : mover.todo = <<ip>>
      BY <1>0, <1>1, <3>1 DEF MoverOrder
    <3>3. Head(mover.todo) = ip
      BY <3>2
    <3> QED BY <2>2, <3>3 DEF IpCommands
  <2> QED BY <2>2, <2>3, <2>4
<1>14. tapDir'.status = "moved" /\ tap.at = "netns" => asked \subseteq tap.set
  BY <1>0, <1>1, <1>13 DEF MoverOrder, TapSettings
<1>8. AskedStays'
  BY <1>0, <1>1, <1>4, <1>13, <1>14 DEF AskedStays, TapTodo
<1>9. DeleteInOrder'
  <2>1. inNs /\ tapOp.name = "delete" /\ tapOp.todo \in DeleteEnd => mover.orphan \/ tapOp.ignored
    BY <1>0, <1>1, <1>4 DEF DeleteInOrder, DeleteEnd
  <2>2. <<"remove">> \in DeleteEnd /\ DeleteEnd' = DeleteEnd
    BY DEF DeleteEnd
  <2> QED BY <1>0, <1>1, <1>2, <1>4, <2>1, <2>2 DEF DeleteInOrder
<1>10. TapMovedIsDone'
  <2> SUFFICES ASSUME tapDir'.status = "moved", ~mover'.stopped, tap'.at # "none"
               PROVE  tap'.at = "netns" /\ asked' \subseteq tap'.set
    BY DEF TapMovedIsDone
  <2>1. tap' = tap /\ tap.at = "netns"
    BY <1>0, <1>1, <1>2, <1>13 DEF MoverOrder, TapLinkType
  <2> QED BY <1>1, <1>14, <2>1
<1>11. TapNoEarlyDrift'
  BY <1>0, <1>1 DEF TapNoEarlyDrift
<1>12. TapDeleteLeavesNone'
  BY <1>0, <1>1, <1>2 DEF TapDeleteLeavesNone, DeleteInOrder
<1> QED BY <1>5, <1>6, <1>7, <1>8, <1>9, <1>10, <1>11, <1>12 DEF TapLaws

-----------------------------------------------------------------------------
(* Which operation a step belongs to, and what is left after it.           *)
LEMMA TapLists ==
    /\ \A x, y, z \in TapSteps : Head(<<x, y, z>>) = x /\ Tail(<<x, y, z>>) = <<y, z>>
    /\ \A x, y \in TapSteps : Head(<<x, y>>) = x /\ Tail(<<x, y>>) = <<y>>
    /\ \A x \in TapSteps : Head(<<x>>) = x /\ Tail(<<x>>) = <<>>
    /\ \A u, x, y, z \in TapSteps : Head(<<u, x, y, z>>) = u /\ Tail(<<u, x, y, z>>) = <<x, y, z>>
    /\ \A t, u, x, y, z \in TapSteps : Head(<<t, u, x, y, z>>) = t /\ Tail(<<t, u, x, y, z>>) = <<u, x, y, z>>
OBVIOUS

LEMMA WhoseStep ==
    ASSUME TapTodo, tapOp \in OpType, tapOp.todo # <<>>
    PROVE  /\ Head(tapOp.todo) \in {"add", "mover"} \cup TapSettings => tapOp.name = "create"
           /\ Head(tapOp.todo) = "mover" =>
                inNs /\ ("mtu" \in asked /\ tap.at # "none" => "mtu" \in tap.set)
           /\ Head(tapOp.todo) = "status" => tapOp.name = "read" /\ tapOp.todo = <<"status", "show", "addrs">>
           /\ Head(tapOp.todo) \in {"show", "addrs"} =>
                \/ tapOp.name = "read" /\ tapOp.todo \in {<<"show", "addrs">>, <<"addrs">>}
                \/ tapOp.name = "create" /\ ~inNs
           /\ Head(tapOp.todo) = "stop" =>
                /\ tapOp.name = "delete" /\ inNs
                /\ tapOp.todo \in {<<"stop", "back", "nomaster", "delete", "remove">>, <<"stop", "back", "delete", "remove">>}
           /\ Head(tapOp.todo) = "back" =>
                /\ tapOp.name = "delete" /\ inNs
                /\ tapOp.todo \in {<<"back", "nomaster", "delete", "remove">>, <<"back", "delete", "remove">>}
           /\ Head(tapOp.todo) = "nomaster" => tapOp.name = "delete" /\ tapOp.todo = <<"nomaster", "delete", "remove">>
           /\ Head(tapOp.todo) = "delete" => tapOp.name = "delete" /\ tapOp.todo = <<"delete", "remove">>
           /\ Head(tapOp.todo) = "remove" => tapOp.name = "delete" /\ tapOp.todo = <<"remove">>
<1> DEFINE h == Head(tapOp.todo)
<1>1. tapOp.name \in OpNames /\ tapOp.todo \in Seq(TapSteps)
  BY DEF OpType
<1>2. CASE tapOp.name \in {"new", "failed", "deleted"}
  BY <1>2 DEF TapTodo
<1>3. CASE tapOp.name = "create" /\ inNs
  <2>1. \/ tapOp.todo \in {<<"add", "mtu", "mover">>, <<"mtu", "mover">>, <<"add", "mover">>}
        \/ tapOp.todo = <<"mover">> /\ ("mtu" \in asked /\ tap.at # "none" => "mtu" \in tap.set)
    BY <1>3 DEF TapTodo
  <2>2. CASE tapOp.todo \in {<<"add", "mtu", "mover">>, <<"mtu", "mover">>, <<"add", "mover">>}
    <3>1. h \in {"add", "mtu"}
      BY <2>2
    <3> QED BY <1>3, <3>1 DEF TapSettings
  <2>3. CASE tapOp.todo = <<"mover">> /\ ("mtu" \in asked /\ tap.at # "none" => "mtu" \in tap.set)
    <3>1. h = "mover"
      BY <2>3
    <3> QED BY <1>3, <2>3, <3>1 DEF TapSettings
  <2> QED BY <2>1, <2>2, <2>3
<1>4. CASE tapOp.name = "create" /\ ~inNs
  <2>1. h \in {"add", "show", "addrs"} \cup TapSettings
    BY <1>1, <1>4, ElemsOfTail DEF TapTodo
  <2> HIDE DEF h
  <2>2. h \notin {"mover", "status", "stop", "back", "nomaster", "delete", "remove"}
    BY <2>1 DEF TapSettings
  <2> QED BY <1>4, <2>2 DEF h
<1>5. CASE tapOp.name = "read"
  <2>1. tapOp.todo \in {<<"status", "show", "addrs">>, <<"show", "addrs">>, <<"addrs">>}
    BY <1>5 DEF TapTodo
  <2>2. CASE tapOp.todo = <<"status", "show", "addrs">>
    <3>1. h = "status"
      BY <2>2
    <3> QED BY <1>5, <2>2, <3>1 DEF TapSettings
  <2>3. CASE tapOp.todo \in {<<"show", "addrs">>, <<"addrs">>}
    <3>1. h \in {"show", "addrs"}
      BY <2>3
    <3> QED BY <1>5, <2>3, <3>1 DEF TapSettings
  <2> QED BY <2>1, <2>2, <2>3
<1>6. CASE tapOp.name = "delete"
  <2>1. /\ tapOp.todo \in DeleteEnd \cup {<<"stop", "back", "nomaster", "delete", "remove">>,
                                        <<"stop", "back", "delete", "remove">>,
                                        <<"back", "nomaster", "delete", "remove">>,
                                        <<"back", "delete", "remove">>}
        /\ ~inNs => tapOp.todo \in DeleteEnd
    BY <1>6 DEF TapTodo
  <2>2. CASE tapOp.todo \in DeleteEnd
    <3>1. CASE tapOp.todo = <<"nomaster", "delete", "remove">>
      <4>1. h = "nomaster" BY <3>1
      <4> QED BY <1>6, <3>1, <4>1 DEF TapSettings
    <3>2. CASE tapOp.todo = <<"delete", "remove">>
      <4>1. h = "delete" BY <3>2
      <4> QED BY <1>6, <3>2, <4>1 DEF TapSettings
    <3>3. CASE tapOp.todo = <<"remove">>
      <4>1. h = "remove" BY <3>3
      <4> QED BY <1>6, <3>3, <4>1 DEF TapSettings
    <3> QED BY <2>2, <3>1, <3>2, <3>3 DEF DeleteEnd
  <2>3. CASE inNs /\ tapOp.todo \in {<<"stop", "back", "nomaster", "delete", "remove">>, <<"stop", "back", "delete", "remove">>}
    <3>1. h = "stop" BY <2>3
    <3> QED BY <1>6, <2>3, <3>1 DEF TapSettings
  <2>4. CASE inNs /\ tapOp.todo \in {<<"back", "nomaster", "delete", "remove">>, <<"back", "delete", "remove">>}
    <3>1. h = "back" BY <2>4
    <3> QED BY <1>6, <2>4, <3>1 DEF TapSettings
  <2>5. inNs \/ ~inNs
    OBVIOUS
  <2> QED BY <2>1, <2>2, <2>3, <2>4
<1> QED BY <1>1, <1>2, <1>3, <1>4, <1>5, <1>6 DEF OpNames

LEMMA ElemsIn == ASSUME NEW S, NEW q \in Seq(S) PROVE CmdsOf(q) \subseteq S
BY DEF CmdsOf

(* An operation that ends without effect. *)
LEMMA TapEndKeeps ==
    ASSUME TapInv, NEW n \in {"create", "read", "failed"}, TapEnd(n),
           UNCHANGED <<inNs, asked, tap, tapDir, mover, tapSaved>>
    PROVE  TapLaws'
<1>0. TapTodo /\ MoverAfterCreate /\ MoverOrder /\ MtuFirst /\ AskedStays /\ DeleteInOrder
      /\ TapMovedIsDone /\ TapNoEarlyDrift
  BY DEF TapInv, TapLaws
<1>1. tapOp'.name = n /\ tapOp'.todo = <<>> /\ tapOp'.status = ""
  BY DEF TapEnd, TapIdle
<1>2. TapTodo'
  BY <1>1, NoStepList DEF TapTodo
<1>3. MoverAfterCreate' /\ MtuFirst' /\ AskedStays'
  BY <1>0, <1>1 DEF MoverAfterCreate, MtuFirst, AskedStays, Creating
<1>4. MoverOrder'
  BY <1>0 DEF MoverOrder, InOrder, CmdsOf
<1>5. DeleteInOrder' /\ TapMovedIsDone' /\ TapNoEarlyDrift' /\ TapDeleteLeavesNone'
  BY <1>0, <1>1 DEF DeleteInOrder, TapMovedIsDone, TapNoEarlyDrift, TapDeleteLeavesNone
<1> QED BY <1>2, <1>3, <1>4, <1>5 DEF TapLaws

(* A step of Create before the mover is there. *)
LEMMA CreatingKeeps ==
    ASSUME TapInv, Creating, UNCHANGED <<inNs, asked, mover, tapSaved>>,
           tapOp'.name = "create", tapOp'.todo # <<>>, tapOp'.status \in {"", tapOp.status},
           tapDir'.dir /\ ~tapDir'.pid /\ tapDir'.status = "none", tap'.at # "netns", TapTodo',
           inNs => tap'.set \subseteq asked
    PROVE  TapLaws'
<1>0. MoverAfterCreate /\ AskedStays
  BY DEF TapInv, TapLaws
<1>1. /\ mover = [todo |-> <<>>, stopped |-> FALSE, orphan |-> FALSE] /\ mover.todo = <<>>
      /\ ~tapSaved.known /\ tapOp.status # "moved"
  <2>1. mover = [todo |-> <<>>, stopped |-> FALSE, orphan |-> FALSE] /\ ~tapSaved.known /\ tapDir.status = "none"
    BY <1>0 DEF MoverAfterCreate
  <2>2. mover.todo = <<>>
    BY <2>1
  <2>3. tapOp.status # "moved"
    BY <1>0, <2>1 DEF AskedStays
  <2> QED BY <2>1, <2>2, <2>3
<1>2. Creating'
  BY DEF Creating
<1>3. MoverAfterCreate' /\ MtuFirst' /\ AskedStays'
  BY <1>0, <1>1, <1>2 DEF MoverAfterCreate, MtuFirst, AskedStays
<1>4. MoverOrder'
  BY <1>0, <1>1, NoStepList DEF MoverOrder
<1>5. DeleteInOrder' /\ TapMovedIsDone' /\ TapNoEarlyDrift' /\ TapDeleteLeavesNone'
  BY <1>1 DEF DeleteInOrder, TapMovedIsDone, TapNoEarlyDrift, TapDeleteLeavesNone
<1> QED BY <1>3, <1>4, <1>5 DEF TapLaws

LEMMA CreateKeeps ==
    ASSUME TapInv, TapCreate \/ TapAdd \/ (\E s \in TapSettings : TapSet(s)) \/ StartTAPMover \/ TapFail
    PROVE  TapLaws'
<1>0. /\ tap \in TapLinkType /\ tapDir \in FilesType /\ mover \in MoverType /\ asked \in SUBSET TapSettings
      /\ tapOp \in OpType
      /\ TapTodo /\ MoverAfterCreate /\ MtuFirst /\ AskedStays /\ inNs \in BOOLEAN
  BY DEF TapInv, TapLaws, TapTypeOK, TapLinkType, FilesType, MoverType, OpType, OpNames
<1>1. tapOp.todo \in Seq(TapSteps) /\ tapOp.name \in OpNames
  BY <1>0 DEF OpType
<1> DEFINE E == {"add", "show", "addrs"} \cup TapSettings
<1>2. CASE TapCreate
  <2>1. Creating /\ UNCHANGED <<inNs, asked, mover, tapSaved, tap>>
    BY <1>2 DEF TapCreate, TapIdle, Creating
  <2>2. tapDir'.dir /\ ~tapDir'.pid /\ tapDir'.status = "none" /\ tap'.at # "netns"
    BY <1>0, <1>2, <2>1 DEF TapCreate, MoverAfterCreate, FilesType
  <2> DEFINE here == IfAsked("master") \o IfAsked("state") \o IfAsked("addr") \o <<"show", "addrs">>
             list == <<"add">> \o IfAsked("mtu") \o (IF inNs THEN <<"mover">> ELSE here)
  <2>3. tapOp'.name = "create" /\ tapOp'.status = "" /\ tapOp'.todo = list
    BY <1>2 DEF TapCreate, TapIdle
  <2>4. ASSUME inNs PROVE /\ list = IF "mtu" \in asked THEN <<"add", "mtu", "mover">> ELSE <<"add", "mover">>
                          /\ list # <<>>
    <3>1. list = <<"add">> \o IfAsked("mtu") \o <<"mover">>
      BY <2>4
    <3> HIDE DEF list
    <3>2. list = IF "mtu" \in asked THEN <<"add", "mtu", "mover">> ELSE <<"add", "mover">>
      BY <3>1, CreateSteps
    <3>3. <<"add", "mtu", "mover">> # <<>> /\ <<"add", "mover">> # <<>>
      OBVIOUS
    <3> QED BY <3>2, <3>3
  <2>5. ASSUME ~inNs PROVE list \in Seq(E) /\ list # <<>>
    <3>1. ASSUME NEW x \in TapSettings PROVE IfAsked(x) \in Seq(E)
      <4>1. <<>> \in Seq(E) /\ <<x>> \in Seq(E)
        OBVIOUS
      <4> QED BY <4>1 DEF IfAsked
    <3>2. /\ IfAsked("mtu") \in Seq(E) /\ IfAsked("master") \in Seq(E)
          /\ IfAsked("state") \in Seq(E) /\ IfAsked("addr") \in Seq(E)
      BY <3>1 DEF TapSettings
    <3> DEFINE first == <<"add">>  last == <<"show", "addrs">>
    <3>3. first \in Seq(E) /\ last \in Seq(E) /\ Len(first) = 1
      OBVIOUS
    <3> HIDE DEF E, first, last
    <3> DEFINE mtu == IfAsked("mtu")  m == IfAsked("master") s == IfAsked("state") a == IfAsked("addr")
    <3>4. mtu \in Seq(E) /\ m \in Seq(E) /\ s \in Seq(E) /\ a \in Seq(E)
      BY <3>2
    <3>5. list = first \o mtu \o (m \o s \o a \o last)
      BY <2>5 DEF first, last
    <3> HIDE DEF mtu, m, s, a, list
    <3>6. list \in Seq(E)
      BY <3>3, <3>4, <3>5
    <3>7. Len(list) >= 1
      BY <3>3, <3>4, <3>5
    <3>8. list # <<>>
      BY <3>7
    <3> QED BY <3>6, <3>8
  <2> HIDE DEF list
  <2>6. TapTodo' /\ tapOp'.todo # <<>>
    <3>1. CASE inNs
      BY <2>1, <2>3, <2>4, <3>1 DEF TapTodo
    <3>2. CASE ~inNs
      <4>1. CmdsOf(tapOp'.todo) \subseteq E
        BY <2>3, <2>5, <3>2, ElemsIn
      <4> QED BY <2>1, <2>3, <2>5, <3>2, <4>1 DEF TapTodo
    <3> QED BY <3>1, <3>2
  <2>7. inNs => tap'.set \subseteq asked
    BY <1>0, <2>1 DEF MtuFirst
  <2> QED BY <2>1, <2>2, <2>3, <2>6, <2>7, CreatingKeeps
<1>3. ASSUME tapOp.todo # <<>>, tapOp.name = "create", Head(tapOp.todo) \in {"add"} \cup TapSettings, TapGoOn,
             UNCHANGED <<inNs, asked, mover, tapSaved, tapDir>>, tap'.at = "default",
             Head(tapOp.todo) = "mtu" => "mtu" \in tap'.set, inNs => tap'.set \subseteq asked
      PROVE  TapLaws'
  <2>1. tapOp'.name = "create" /\ tapOp'.todo = Tail(tapOp.todo) /\ tapOp'.status = tapOp.status
    BY <1>0, <1>3, TapHelpers
  <2>2. Creating
    BY <1>3 DEF Creating
  <2>3. tapDir'.dir /\ ~tapDir'.pid /\ tapDir'.status = "none"
    BY <1>0, <1>3, <2>2 DEF MoverAfterCreate
  <2>4. CASE inNs
    <3>1. \/ "mtu" \in asked /\ tapOp.todo \in {<<"add", "mtu", "mover">>, <<"mtu", "mover">>}
          \/ "mtu" \notin asked /\ tapOp.todo = <<"add", "mover">>
          \/ tapOp.todo = <<"mover">>
      BY <1>0, <1>3, <2>4 DEF TapTodo
    <3>2. tapOp.todo # <<"mover">>
      <4>1. Head(<<"mover">>) = "mover"
        OBVIOUS
      <4> QED BY <1>3, <4>1 DEF TapSettings
    <3>3. /\ Tail(<<"add", "mtu", "mover">>) = <<"mtu", "mover">> /\ Tail(<<"mtu", "mover">>) = <<"mover">>
          /\ Tail(<<"add", "mover">>) = <<"mover">> /\ Head(<<"mtu", "mover">>) = "mtu"
          /\ <<"mtu", "mover">> # <<>> /\ <<"mover">> # <<>>
      OBVIOUS
    <3>4. tapOp'.todo # <<>> /\ TapTodo'
      BY <1>3, <2>1, <2>4, <3>1, <3>2, <3>3 DEF TapTodo
    <3> QED BY <1>3, <2>1, <2>2, <2>3, <3>4, CreatingKeeps
  <2>5. CASE ~inNs /\ Tail(tapOp.todo) # <<>>
    <3>1. CmdsOf(tapOp'.todo) \subseteq E
      BY <1>0, <1>1, <1>3, <2>1, <2>5, ElemsOfTail DEF TapTodo
    <3>2. TapTodo'
      BY <1>3, <2>1, <2>5, <3>1 DEF TapTodo
    <3> QED BY <1>3, <2>1, <2>2, <2>3, <2>5, <3>2, CreatingKeeps
  <2>6. CASE ~inNs /\ Tail(tapOp.todo) = <<>>
    <3>1. /\ mover = [todo |-> <<>>, stopped |-> FALSE, orphan |-> FALSE] /\ mover.todo = <<>>
          /\ ~tapSaved.known /\ tapOp.status # "moved" /\ tapDir.status = "none"
      BY <1>0, <2>2 DEF MoverAfterCreate, AskedStays
    <3>2. TapTodo' /\ AskedStays' /\ MtuFirst' /\ MoverAfterCreate'
      BY <1>0, <1>3, <2>1, <2>6, <3>1, NoStepList DEF TapTodo, AskedStays, MtuFirst, MoverAfterCreate, Creating
    <3>3. MoverOrder'
      BY <1>3, <2>3, <3>1, NoStepList DEF MoverOrder
    <3>4. DeleteInOrder' /\ TapMovedIsDone' /\ TapNoEarlyDrift' /\ TapDeleteLeavesNone'
      BY <1>3, <2>1, <3>1 DEF DeleteInOrder, TapMovedIsDone, TapNoEarlyDrift, TapDeleteLeavesNone
    <3> QED BY <3>2, <3>3, <3>4 DEF TapLaws
  <2> QED BY <1>0, <2>4, <2>5, <2>6
<1>4. CASE TapAdd
  <2>1. tapOp.todo # <<>> /\ Head(tapOp.todo) = "add" /\ TapGoOn /\ tap'.at = "default" /\ tap'.set = {}
        /\ UNCHANGED <<inNs, asked, mover, tapSaved, tapDir>>
    BY <1>4 DEF TapAdd, TapDo
  <2>2. tapOp.name = "create"
    BY <1>0, <2>1, WhoseStep
  <2> QED BY <1>3, <2>1, <2>2
<1>5. CASE \E s \in TapSettings : TapSet(s)
  <2>1. PICK s \in TapSettings : TapSet(s)
    BY <1>5
  <2>2. tapOp.todo # <<>> /\ Head(tapOp.todo) = s /\ tapOp.name = "create"
        /\ UNCHANGED <<inNs, asked, mover, tapSaved, tapDir>>
    BY <2>1 DEF TapSet, TapDo
  <2>3. CASE tap.at = "default"
    <3>1. TapGoOn /\ tap'.at = "default" /\ tap'.set = tap.set \cup {s}
      BY <1>0, <2>1, <2>3 DEF TapSet, TapLinkType
    <3>2. inNs => s \in asked
      <4>1. /\ Head(<<"add", "mtu", "mover">>) = "add" /\ Head(<<"mtu", "mover">>) = "mtu"
            /\ Head(<<"add", "mover">>) = "add" /\ Head(<<"mover">>) = "mover"
        OBVIOUS
      <4> QED BY <1>0, <2>2, <4>1 DEF TapTodo, TapSettings
    <3>3. inNs => tap'.set \subseteq asked
      BY <1>0, <3>1, <3>2 DEF MtuFirst
    <3> QED BY <1>3, <2>2, <3>1, <3>3
  <2>4. CASE tap.at # "default"
    <3>1. TapEnd("failed") /\ tap' = tap
      BY <2>1, <2>4 DEF TapSet
    <3> QED BY <2>2, <3>1, TapEndKeeps
  <2> QED BY <2>3, <2>4
<1>6. CASE TapFail
  BY <1>6, TapEndKeeps DEF TapFail
<1>7. CASE StartTAPMover
  <2>1. /\ tapOp.todo # <<>> /\ Head(tapOp.todo) = "mover" /\ UNCHANGED <<inNs, asked, tap, tapDir>>
        /\ mover' = [mover EXCEPT !.todo = MoverSteps]
    BY <1>7 DEF StartTAPMover, TapDo
  <2>2. tapOp.name = "create" /\ inNs /\ ("mtu" \in asked /\ tap.at # "none" => "mtu" \in tap.set)
    BY <1>0, <2>1, WhoseStep
  <2>3. /\ mover = [todo |-> <<>>, stopped |-> FALSE, orphan |-> FALSE]
        /\ tapDir.status = "none" /\ ~tapDir.pid /\ ~tapSaved.known /\ tap.at # "netns" /\ tapDir.dir
    BY <1>0, <2>1, <2>2 DEF MoverAfterCreate, Creating
  <2>4. mover' = [todo |-> MoverSteps, stopped |-> FALSE, orphan |-> FALSE]
    BY <2>1, <2>3
  <2>5. tapOp'.name \in {"create", "failed"} /\ tapOp'.todo = <<>> /\ tapOp'.status = ""
    <3>1. TapEnd("create") \/ TapEnd("failed")
      BY <1>7 DEF StartTAPMover
    <3>2. ASSUME NEW n, TapEnd(n) PROVE tapOp'.name = n /\ tapOp'.todo = <<>> /\ tapOp'.status = ""
      BY <3>2 DEF TapEnd, TapIdle
    <3> QED BY <3>1, <3>2
  <2>6. \/ tapSaved'.known /\ tapSaved'.mover = "pending" /\ tapSaved'.set = asked
        \/ tapSaved' = tapSaved
    BY <1>7 DEF StartTAPMover
  <2>7. TapTodo' /\ MoverAfterCreate' /\ MtuFirst'
    BY <1>0, <2>1, <2>2, <2>3, <2>5, <2>6, NoStepList DEF TapTodo, MoverAfterCreate, MtuFirst, Creating
  <2>10. AskedStays'
    BY <1>0, <2>1, <2>3, <2>5, <2>6 DEF AskedStays
  <2>8. MoverOrder'
    <3>1. mover'.todo = MoverSteps /\ ~mover'.orphan /\ ~mover'.stopped
      BY <2>4
    <3>2. /\ InOrder(mover'.todo) /\ Head(mover'.todo) = "pid" /\ mover'.todo # <<>>
          /\ CmdsOf(mover'.todo) = {"pid", "config", "subscribe", "event", "move", "status"} \cup (asked \ {"mtu"})
      BY <1>0, <3>1, MoverStepsFacts
    <3>3. CmdsOf(mover'.todo) \cap TapSettings \subseteq asked
      BY <3>2 DEF TapSettings
    <3> QED BY <2>1, <2>3, <3>1, <3>2, <3>3 DEF MoverOrder
  <2>9. DeleteInOrder' /\ TapMovedIsDone' /\ TapNoEarlyDrift' /\ TapDeleteLeavesNone'
    BY <2>1, <2>3, <2>5, <2>6 DEF DeleteInOrder, TapMovedIsDone, TapNoEarlyDrift, TapDeleteLeavesNone
  <2> QED BY <2>7, <2>8, <2>9, <2>10 DEF TapLaws
<1> QED BY <1>2, <1>4, <1>5, <1>6, <1>7

(* Read.                                                                   *)
LEMMA ReadKeeps ==
    ASSUME TapInv, TapRead \/ ReadMoverStatus \/ ShowLink \/ ShowAddresses
    PROVE  TapLaws'
<1>0. /\ tap \in TapLinkType /\ tapDir \in FilesType /\ mover \in MoverType /\ asked \in SUBSET TapSettings
      /\ tapOp \in OpType /\ tapSaved \in SavedType
      /\ TapTodo /\ MoverAfterCreate /\ MoverOrder /\ MtuFirst /\ AskedStays /\ DeleteInOrder
      /\ TapMovedIsDone /\ TapNoEarlyDrift /\ TapDeleteLeavesNone /\ inNs \in BOOLEAN
  BY DEF TapInv, TapLaws, TapTypeOK, TapLinkType, FilesType, MoverType, OpType, OpNames, SavedType
<1>1. UNCHANGED <<inNs, asked, tap, tapDir, mover>>
  BY DEF TapRead, ReadMoverStatus, ShowLink, ShowAddresses
<1>2. MoverOrder'
  BY <1>0, <1>1 DEF MoverOrder, InOrder, CmdsOf
<1>3. TapMovedIsDone'
  BY <1>0, <1>1 DEF TapMovedIsDone
<1>4. ASSUME tapSaved' = tapSaved, tapOp'.name = "read", tapOp'.todo # <<>>, TapTodo',
             tapOp'.status = "moved" => tapDir.status = "moved", tapSaved.known
      PROVE  TapLaws'
  <2>1. MoverAfterCreate'
    BY <1>0, <1>1, <1>4 DEF MoverAfterCreate, Creating
  <2>2. MtuFirst' /\ AskedStays'
    BY <1>0, <1>1, <1>4 DEF MtuFirst, AskedStays
  <2>3. DeleteInOrder' /\ TapNoEarlyDrift' /\ TapDeleteLeavesNone'
    BY <1>0, <1>1, <1>4 DEF DeleteInOrder, TapNoEarlyDrift, TapDeleteLeavesNone
  <2> QED BY <1>2, <1>3, <1>4, <2>1, <2>2, <2>3 DEF TapLaws
<1>5. CASE TapRead
  <2>1. tapOp'.name = "read" /\ tapOp'.status = "" /\ tapSaved' = tapSaved /\ tapSaved.known
        /\ tapOp'.todo = (IF inNs THEN <<"status">> ELSE <<>>) \o <<"show", "addrs">>
    BY <1>5 DEF TapRead, TapIdle
  <2>2. /\ <<"status">> \o <<"show", "addrs">> = <<"status", "show", "addrs">>
        /\ <<>> \o <<"show", "addrs">> = <<"show", "addrs">>
    BY ListsWritten
  <2>3. tapOp'.todo = IF inNs THEN <<"status", "show", "addrs">> ELSE <<"show", "addrs">>
    BY <2>1, <2>2
  <2>4. /\ <<"status", "show", "addrs">> # <<>> /\ <<"show", "addrs">> # <<>>
        /\ Head(<<"status", "show", "addrs">>) = "status"
    OBVIOUS
  <2>5. TapTodo'
    BY <1>1, <2>1, <2>3, <2>4 DEF TapTodo
  <2> QED BY <1>4, <2>1, <2>3, <2>4, <2>5
<1>6. CASE ReadMoverStatus
  <2>1. tapOp.todo # <<>> /\ Head(tapOp.todo) = "status" /\ tapSaved' = tapSaved
    BY <1>6 DEF ReadMoverStatus, TapDo
  <2>0. PICK status \in {MoverStatus} \cup MoverUnread :
          tapOp' = [tapOp EXCEPT !.todo = Tail(@), !.status = status]
    BY <1>6 DEF ReadMoverStatus
  <2>2. tapOp.name = "read" /\ tapOp.todo = <<"status", "show", "addrs">>
    BY <1>0, <2>1, WhoseStep
  <2>3. tapOp' = [name |-> tapOp.name, todo |-> Tail(tapOp.todo), status |-> status, ignored |-> tapOp.ignored]
    BY <1>0, <2>0 DEF OpType
  <2>4. Tail(<<"status", "show", "addrs">>) = <<"show", "addrs">> /\ <<"show", "addrs">> # <<>>
    OBVIOUS
  <2>5. tapOp'.name = "read" /\ tapOp'.todo = <<"show", "addrs">> /\ tapOp'.status = status
    BY <2>2, <2>3, <2>4
  <2>6. status = "moved" => tapDir.status = "moved"
    BY <1>0 DEF MoverStatus, MoverUnread, FilesType
  <2>7. tapSaved.known
    BY <1>0, <2>1, <2>2 DEF TapTodo
  <2>8. TapTodo'
    BY <1>1, <2>1, <2>4, <2>5, <2>7 DEF TapTodo
  <2> QED BY <1>4, <2>1, <2>4, <2>5, <2>6, <2>7, <2>8
<1>7. ASSUME ~tapSaved'.known, tapOp'.name = "read", tapOp'.todo = <<>>, tapOp'.status = ""
      PROVE  TapLaws'
  <2>1. TapTodo' /\ MoverAfterCreate' /\ MtuFirst'
    BY <1>0, <1>1, <1>7, NoStepList DEF TapTodo, MoverAfterCreate, MtuFirst, Creating
  <2>2. AskedStays'
    BY <1>0, <1>1, <1>7 DEF AskedStays
  <2>3. DeleteInOrder' /\ TapNoEarlyDrift' /\ TapDeleteLeavesNone'
    BY <1>1, <1>7 DEF DeleteInOrder, TapNoEarlyDrift, TapDeleteLeavesNone
  <2> QED BY <1>2, <1>3, <2>1, <2>2, <2>3 DEF TapLaws
<1>8. ASSUME TapNotThere PROVE TapLaws'
  <2>1. CASE TapEnd("read") /\ tapSaved' = Unsaved
    BY <1>7, <2>1 DEF TapEnd, TapIdle, Unsaved
  <2>2. CASE TapEnd("failed") /\ UNCHANGED tapSaved
    BY <1>1, <2>2, TapEndKeeps
  <2> QED BY <1>8, <2>1, <2>2 DEF TapNotThere
<1>9. ASSUME tapOp.todo # <<>>, Head(tapOp.todo) \in {"show", "addrs"}
      PROVE  \/ /\ tapOp.name = "read" /\ tapOp.todo \in {<<"show", "addrs">>, <<"addrs">>} /\ tapSaved.known
             \/ /\ tapOp.name = "create" /\ ~inNs /\ tapDir.dir /\ tapDir.status = "none"
                /\ ~tapSaved.known /\ ~tapDir.pid /\ mover = [todo |-> <<>>, stopped |-> FALSE, orphan |-> FALSE]
  <2>1. \/ tapOp.name = "read" /\ tapOp.todo \in {<<"show", "addrs">>, <<"addrs">>}
        \/ tapOp.name = "create" /\ ~inNs
    BY <1>0, <1>9, WhoseStep
  <2>2. CASE tapOp.name = "read"
    BY <1>0, <1>9, <2>1, <2>2 DEF TapTodo, AskedStays
  <2>3. CASE tapOp.name = "create"
    BY <1>0, <1>9, <2>1, <2>3 DEF MoverAfterCreate, Creating
  <2> QED BY <2>1, <2>2, <2>3
<1>10. CASE ShowLink
  <2>1. tapOp.todo # <<>> /\ Head(tapOp.todo) = "show" /\ (TapNotThere \/ (tap.at = LookIn /\ TapGoOn /\ tapSaved' = tapSaved))
    BY <1>10 DEF ShowLink, TapDo
  <2>2. CASE tap.at = LookIn /\ TapGoOn /\ tapSaved' = tapSaved
    <3>1. tapOp'.name = tapOp.name /\ tapOp'.todo = Tail(tapOp.todo) /\ tapOp'.status = tapOp.status
      BY <1>0, <2>1, <2>2, TapHelpers
    <3>2. CASE tapOp.name = "read"
      <4>1. tapOp.todo \in {<<"show", "addrs">>, <<"addrs">>} /\ tapSaved.known
        BY <1>9, <2>1, <3>2
      <4>2. Head(<<"addrs">>) = "addrs" /\ Tail(<<"show", "addrs">>) = <<"addrs">> /\ <<"addrs">> # <<>>
        OBVIOUS
      <4>3. tapOp'.todo = <<"addrs">>
        BY <2>1, <3>1, <4>1, <4>2
      <4>4. TapTodo'
        BY <1>1, <2>2, <3>1, <3>2, <4>1, <4>3 DEF TapTodo
      <4>5. tapOp.status = "moved" => tapDir.status = "moved"
        BY <1>0 DEF AskedStays
      <4> QED BY <1>4, <2>2, <3>1, <3>2, <4>1, <4>2, <4>3, <4>4, <4>5
    <3>3. CASE tapOp.name # "read"
      <4>1. /\ tapOp.name = "create" /\ ~inNs /\ tapDir.dir /\ tapDir.status = "none" /\ ~tapSaved.known
            /\ ~tapDir.pid /\ mover = [todo |-> <<>>, stopped |-> FALSE, orphan |-> FALSE]
        BY <1>9, <2>1, <3>3
      <4>2. TapTodo'
        <5>1. tapOp.todo \in Seq(TapSteps)
          BY <1>0 DEF OpType
        <5>2. CmdsOf(tapOp'.todo) \subseteq CmdsOf(tapOp.todo)
          BY <2>1, <3>1, <5>1, ElemsOfTail
        <5>3. CmdsOf(tapOp.todo) \subseteq {"add", "show", "addrs"} \cup TapSettings
          BY <1>0, <4>1 DEF TapTodo
        <5> QED BY <1>1, <2>2, <3>1, <4>1, <5>2, <5>3 DEF TapTodo
      <4>3. MoverAfterCreate' /\ MtuFirst'
        BY <1>0, <1>1, <2>2, <3>1, <4>1 DEF MoverAfterCreate, MtuFirst, Creating
      <4>4. AskedStays'
        BY <1>0, <1>1, <2>2, <3>1, <4>1 DEF AskedStays
      <4>5. DeleteInOrder' /\ TapNoEarlyDrift' /\ TapDeleteLeavesNone'
        BY <1>1, <2>2, <3>1, <4>1 DEF DeleteInOrder, TapNoEarlyDrift, TapDeleteLeavesNone
      <4> QED BY <1>2, <1>3, <4>2, <4>3, <4>4, <4>5 DEF TapLaws
    <3> QED BY <3>2, <3>3
  <2> QED BY <1>8, <2>1, <2>2
<1>11. CASE ShowAddresses
  <2>1. tapOp.todo # <<>> /\ Head(tapOp.todo) = "addrs"
    BY <1>11 DEF ShowAddresses, TapDo
  <2>2. CASE tap.at = LookIn
    <3>1. /\ tapOp'.name = tapOp.name /\ tapOp'.todo = <<>> /\ tapOp'.status = ""
          /\ tapSaved'.known /\ tapSaved'.mover = tapOp.status /\ tapSaved'.set = Reported
      <4>1. TapEnd(tapOp.name)
            /\ tapSaved' = [known |-> TRUE, tainted |-> tapSaved.tainted, mover |-> tapOp.status, set |-> Reported]
        BY <1>11, <2>2 DEF ShowAddresses
      <4>2. ASSUME NEW n, TapEnd(n) PROVE tapOp'.name = n /\ tapOp'.todo = <<>> /\ tapOp'.status = ""
        BY <4>2 DEF TapEnd, TapIdle
      <4> QED BY <4>1, <4>2
    <3>2. tapOp.name \in {"read", "create"} /\ tapDir.dir
      BY <1>0, <1>9, <2>1 DEF AskedStays
    <3>3. TapTodo' /\ MoverAfterCreate'
      BY <1>0, <1>1, <3>1, <3>2, NoStepList DEF TapTodo, MoverAfterCreate, Creating
    <3>4. AskedStays'
      <4>1. CASE ~inNs
        BY <1>0, <1>1, <3>1, <3>2, <4>1 DEF AskedStays
      <4>2. CASE inNs
        <5>1. tapSaved.known
          BY <1>9, <2>1, <4>2
        <5>2. CASE tapOp.status # "moved"
          <6>1. tapSaved'.set = (tapSaved.set \ {"mtu"}) \cup (tap.set \cap {"mtu"})
            BY <3>1, <4>2, <5>2 DEF Reported
          <6> QED BY <1>0, <1>1, <3>1, <3>2, <4>2, <5>1, <6>1 DEF AskedStays
        <5>3. CASE tapOp.status = "moved"
          <6>1. tapSaved'.set = tap.set /\ tap.at = "netns" /\ tapDir.status = "moved"
            BY <1>0, <2>2, <3>1, <5>3 DEF Reported, LookIn, AskedStays
          <6>2. tap.set = asked
            BY <1>0, <4>2, <6>1 DEF AskedStays, MtuFirst
          <6> QED BY <1>0, <1>1, <3>1, <3>2, <6>1, <6>2 DEF AskedStays
        <5> QED BY <5>2, <5>3
      <4> QED BY <4>1, <4>2
    <3>5. MtuFirst' /\ TapNoEarlyDrift'
      <4>1. CASE ~inNs
        BY <1>1, <4>1 DEF MtuFirst, TapNoEarlyDrift
      <4>2. CASE inNs
        <5>1. tapOp.name = "read" /\ tapSaved.known
          BY <1>9, <2>1, <4>2
        <5>2. MtuFirst'
          BY <1>0, <1>1, <5>1 DEF MtuFirst
        <5>3. ASSUME tapOp.status # "moved" PROVE tapSaved'.set = asked \cup (tapSaved'.set \cap {"mtu"})
          <6>1. tapSaved'.set = (tapSaved.set \ {"mtu"}) \cup (tap.set \cap {"mtu"})
            BY <3>1, <4>2, <5>3 DEF Reported
          <6>2. tapSaved.set \ {"mtu"} = asked \ {"mtu"} /\ tap.set \subseteq asked
            BY <1>0, <4>2, <5>1 DEF AskedStays, MtuFirst
          <6>3. tap.at = "default"
            BY <2>2, <5>3 DEF LookIn
          <6>4. "mtu" \in asked => "mtu" \in tap.set
            BY <1>0, <4>2, <5>1, <6>3 DEF MtuFirst
          <6> QED BY <6>1, <6>2, <6>4
        <5>4. TapNoEarlyDrift'
          BY <1>1, <3>1, <5>3 DEF TapNoEarlyDrift
        <5> QED BY <5>2, <5>4
      <4> QED BY <4>1, <4>2
    <3>6. DeleteInOrder' /\ TapDeleteLeavesNone'
      BY <3>1, <3>2 DEF DeleteInOrder, TapDeleteLeavesNone
    <3> QED BY <1>2, <1>3, <3>3, <3>4, <3>5, <3>6 DEF TapLaws
  <2>3. CASE tap.at # LookIn
    BY <1>8, <1>11, <2>3 DEF ShowAddresses
  <2> QED BY <2>2, <2>3
<1> QED BY <1>5, <1>6, <1>10, <1>11

(* Delete.                                                                 *)
LEMMA DeleteKeeps ==
    ASSUME TapInv, TapDelete \/ StopTAPMover \/ MoveBack \/ NoMaster \/ DeleteTAP \/ RemoveTapDir
    PROVE  TapLaws'
<1>0. /\ tap \in TapLinkType /\ tapDir \in FilesType /\ mover \in MoverType /\ asked \in SUBSET TapSettings
      /\ tapOp \in OpType /\ tapSaved \in SavedType
      /\ TapTodo /\ MoverAfterCreate /\ MoverOrder /\ MtuFirst /\ AskedStays /\ DeleteInOrder
      /\ TapMovedIsDone /\ TapNoEarlyDrift /\ TapDeleteLeavesNone /\ inNs \in BOOLEAN
  BY DEF TapInv, TapLaws, TapTypeOK, TapLinkType, FilesType, MoverType, OpType, OpNames, SavedType
<1>1. /\ DeleteEnd' = DeleteEnd /\ UNCHANGED <<inNs, asked>>
      /\ <<"nomaster", "delete", "remove">> \in DeleteEnd /\ <<"delete", "remove">> \in DeleteEnd /\ <<"remove">> \in DeleteEnd
  BY DEF DeleteEnd, TapDelete, StopTAPMover, MoveBack, NoMaster, DeleteTAP, RemoveTapDir
<1> DEFINE sb1 == <<"stop", "back", "nomaster", "delete", "remove">>
           sb2 == <<"stop", "back", "delete", "remove">>
           b1  == <<"back", "nomaster", "delete", "remove">>
           b2  == <<"back", "delete", "remove">>
           n1  == <<"nomaster", "delete", "remove">>
           n2  == <<"delete", "remove">>
           n3  == <<"remove">>
<1>2. /\ sb1 # <<>> /\ sb2 # <<>> /\ b1 # <<>> /\ b2 # <<>> /\ n1 # <<>> /\ n2 # <<>> /\ n3 # <<>>
      /\ Head(sb1) = "stop" /\ Head(sb2) = "stop" /\ Head(b1) = "back" /\ Head(b2) = "back"
      /\ Head(n1) = "nomaster" /\ Head(n2) = "delete" /\ Head(n3) = "remove"
  OBVIOUS
<1>3. Tail(sb1) = b1 /\ Tail(sb2) = b2 /\ Tail(b1) = n1 /\ Tail(b2) = n2 /\ Tail(n1) = n2 /\ Tail(n2) = n3
  OBVIOUS
<1>4. DeleteEnd = {n1, n2, n3}
  BY DEF DeleteEnd
<1> HIDE DEF sb1, sb2, b1, b2, n1, n2, n3
<1>5. TapTodo' <=>
        /\ tapOp'.name \in {"new", "failed", "deleted"} => tapOp'.todo = <<>>
        /\ (tapOp'.name = "create" /\ tapOp'.todo # <<>> /\ inNs =>
              \/ "mtu" \in asked /\ tapOp'.todo \in {<<"add", "mtu", "mover">>, <<"mtu", "mover">>}
              \/ "mtu" \notin asked /\ tapOp'.todo = <<"add", "mover">>
              \/ tapOp'.todo = <<"mover">> /\ ("mtu" \in asked /\ tap'.at # "none" => "mtu" \in tap'.set))
        /\ (tapOp'.name = "create" /\ ~inNs => CmdsOf(tapOp'.todo) \subseteq {"add", "show", "addrs"} \cup TapSettings)
        /\ (tapOp'.name = "read" /\ tapOp'.todo # <<>> =>
              tapOp'.todo \in {<<"status", "show", "addrs">>, <<"show", "addrs">>, <<"addrs">>})
        /\ (tapOp'.name = "delete" /\ tapOp'.todo # <<>> => tapOp'.todo \in DeleteEnd \cup {sb1, sb2, b1, b2})
        /\ (tapOp'.name = "delete" /\ tapOp'.todo # <<>> /\ ~inNs => tapOp'.todo \in DeleteEnd)
        /\ (tapOp'.name \in {"read", "delete"} /\ tapOp'.todo # <<>> => tapSaved'.known)
  BY <1>1 DEF TapTodo, CmdsOf, sb1, sb2, b1, b2, n1, n2, n3
<1>6. CASE TapDelete
  <2>1. /\ tapOp'.name = "delete" /\ tapOp'.status = "" /\ tapSaved.known
        /\ tapOp'.todo = (IF inNs THEN <<"stop", "back">> ELSE <<>>) \o
                            (IF "master" \in tapSaved.set THEN <<"nomaster">> ELSE <<>>) \o <<"delete", "remove">>
        /\ UNCHANGED <<tap, tapDir, mover, tapSaved>>
    BY <1>6 DEF TapDelete, TapIdle
  <2>2. /\ <<"stop", "back">> \o <<"nomaster">> \o <<"delete", "remove">> = sb1
        /\ <<"stop", "back">> \o <<>> \o <<"delete", "remove">> = sb2
        /\ <<>> \o <<"nomaster">> \o <<"delete", "remove">> = n1
        /\ <<>> \o <<>> \o <<"delete", "remove">> = n2
    BY ListsWritten DEF sb1, sb2, n1, n2
  <2>3. tapOp'.todo = IF inNs THEN IF "master" \in tapSaved.set THEN sb1 ELSE sb2
                      ELSE IF "master" \in tapSaved.set THEN n1 ELSE n2
    BY <2>1, <2>2
  <2>4. tapOp'.todo # <<>> /\ (inNs => Head(tapOp'.todo) = "stop" /\ tapOp'.todo \notin {n1, n2, n3})
        /\ (~inNs => tapOp'.todo \in {n1, n2}) /\ tapOp'.todo # n3
    BY <1>2, <2>3
  <2>5. TapTodo'
    BY <1>4, <1>5, <2>1, <2>3, <2>4
  <2>6. MoverAfterCreate' /\ MtuFirst'
    BY <1>0, <1>1, <2>1 DEF MoverAfterCreate, MtuFirst, Creating
  <2>7. MoverOrder'
    <3>1. InOrder(mover'.todo) = InOrder(mover.todo) /\ CmdsOf(mover'.todo) = CmdsOf(mover.todo)
      BY <2>1
    <3> QED BY <1>0, <1>1, <2>1, <3>1 DEF MoverOrder
  <2>11. TapMovedIsDone'
    BY <1>0, <1>1, <2>1 DEF TapMovedIsDone
  <2>8. AskedStays'
    BY <1>0, <1>1, <2>1 DEF AskedStays
  <2>9. DeleteInOrder'
    BY <1>0, <1>1, <1>4, <2>1, <2>4 DEF DeleteInOrder, MoverAfterCreate, n3
  <2>10. TapNoEarlyDrift' /\ TapDeleteLeavesNone'
    BY <1>0, <1>1, <2>1 DEF TapNoEarlyDrift, TapDeleteLeavesNone
  <2> QED BY <2>5, <2>6, <2>7, <2>8, <2>9, <2>10, <2>11 DEF TapLaws
<1>7. ASSUME TapGoOn, tapOp.todo # <<>>
      PROVE  /\ tapOp'.name = tapOp.name /\ tapOp'.todo = Tail(tapOp.todo) /\ tapOp'.status = tapOp.status
             /\ tapOp'.ignored = tapOp.ignored
  BY <1>0, <1>7, TapHelpers
<1>13. ASSUME TapGoOnAnyway, tapOp.todo # <<>>
      PROVE  /\ tapOp'.name = tapOp.name /\ tapOp'.todo = Tail(tapOp.todo) /\ tapOp'.status = tapOp.status
             /\ tapOp'.ignored
  BY <1>0, <1>13, TapHelpers
<1>8. ASSUME tapOp.todo # <<>>, tapOp.name = "delete", tapOp.todo # n3, TapGoOn \/ TapGoOnAnyway, UNCHANGED <<tapDir, tapSaved>>,
             mover'.todo = <<>> \/ mover' = mover \/ mover'.stopped, MoverOrder',
             ~inNs => mover' = mover /\ tap'.at # "netns",
             tap'.at # "none" /\ "mtu" \in tap.set => "mtu" \in tap'.set,
             tap'.set \subseteq tap.set, tap'.at = "netns" => tap' = tap,
             tap'.at # "none" => tap.at # "none", mover'.todo # <<>> => mover.todo # <<>>,
             Tail(tapOp.todo) \in {b1, b2, n1, n2, n3}, tapOp.todo \in DeleteEnd => Tail(tapOp.todo) \in {n1, n2, n3},
             ~inNs => tapOp.todo \in DeleteEnd, DeleteInOrder', TapMovedIsDone'
      PROVE  TapLaws'
  <2>1. tapOp'.name = "delete" /\ tapOp'.todo = Tail(tapOp.todo) /\ tapOp'.status = tapOp.status /\ tapOp'.todo # <<>>
        /\ tapSaved.known
    BY <1>0, <1>2, <1>7, <1>8, <1>13 DEF TapTodo
  <2>2. TapTodo'
    BY <1>4, <1>5, <1>8, <2>1
  <2>3. MoverAfterCreate'
    BY <1>0, <1>1, <1>8, <2>1 DEF MoverAfterCreate, Creating
  <2>4. MtuFirst'
    BY <1>0, <1>1, <1>8, <2>1 DEF MtuFirst
  <2>5. AskedStays'
    BY <1>0, <1>1, <1>8, <2>1 DEF AskedStays
  <2>6. TapNoEarlyDrift' /\ TapDeleteLeavesNone'
    BY <1>0, <1>1, <1>8, <2>1 DEF TapNoEarlyDrift, TapDeleteLeavesNone
  <2> QED BY <1>8, <2>2, <2>3, <2>4, <2>5, <2>6 DEF TapLaws
<1>9. CASE StopTAPMover
  <2>1. /\ tapOp.todo # <<>> /\ Head(tapOp.todo) = "stop" /\ ~MoverDo("pid") /\ (TapGoOn \/ TapGoOnAnyway)
        /\ UNCHANGED <<tap, tapDir, tapSaved>>
    BY <1>9 DEF StopTAPMover, TapDo
  <2>2. tapOp.name = "delete" /\ inNs /\ tapOp.todo \in {sb1, sb2}
    BY <1>0, <2>1, WhoseStep DEF sb1, sb2
  <2>3. tapSaved.known /\ tapDir.dir
    BY <1>0, <2>1, <2>2 DEF TapTodo, AskedStays
  <2>4. mover.todo # <<>> => tapDir.pid
    BY <1>0, <2>1, <2>3 DEF MoverDo, MoverOrder
  <2>5. /\ mover'.stopped
        /\ \/ /\ mover'.orphan /\ mover.todo # <<>> /\ mover'.todo = <<Head(mover.todo)>> /\ Head(mover.todo) \in IpCommands
           \/ mover'.todo = <<>> /\ mover'.orphan = mover.orphan
           \/ mover'.todo = mover.todo /\ mover'.orphan = mover.orphan /\ TapGoOnAnyway
    <3>1. CASE /\ tapDir.pid /\ \E ip \in IpCommands : MoverDo(ip)
               /\ mover' = [todo |-> <<Head(mover.todo)>>, stopped |-> TRUE, orphan |-> TRUE]
      BY <3>1 DEF MoverDo
    <3>2. CASE mover' = [mover EXCEPT !.stopped = TRUE, !.todo = IF tapDir.pid THEN <<>> ELSE @]
      <4>1. mover'.stopped /\ mover'.todo = (IF tapDir.pid THEN <<>> ELSE mover.todo) /\ mover'.orphan = mover.orphan
        BY <1>0, <3>2 DEF MoverType
      <4> QED BY <2>4, <4>1
    <3>3. CASE mover' = [mover EXCEPT !.stopped = TRUE] /\ TapGoOnAnyway
      BY <1>0, <3>3 DEF MoverType
    <3> QED BY <1>9, <3>1, <3>2, <3>3 DEF StopTAPMover
  <2>6. MoverOrder'
    <3>1. CASE mover'.todo = <<>>
      BY <2>5, <3>1, NoStepList DEF MoverOrder
    <3>2. CASE mover'.todo = mover.todo /\ mover'.orphan = mover.orphan
      BY <1>0, <1>1, <2>1, <2>5, <3>2 DEF MoverOrder, InOrder, CmdsOf, IpCommands
    <3>3. CASE /\ mover'.orphan /\ mover.todo # <<>> /\ mover'.todo = <<Head(mover.todo)>>
               /\ Head(mover.todo) \in IpCommands
      <4>1. mover.todo \in Seq(MoverTodo)
        BY <1>0 DEF MoverType
      <4>2. /\ InOrder(mover'.todo) /\ CmdsOf(mover'.todo) = {Head(mover.todo)} /\ Head(mover'.todo) = Head(mover.todo)
            /\ Head(mover.todo) \in CmdsOf(mover.todo)
        BY <3>3, <4>1, ElemsOfTail, OneStepList
      <4> QED BY <1>0, <1>1, <2>1, <2>4, <2>5, <3>3, <4>2 DEF MoverOrder
    <3> QED BY <2>5, <3>1, <3>2, <3>3
  <2>7. Tail(tapOp.todo) \in {b1, b2} /\ tapOp.todo # n3 /\ Tail(tapOp.todo) \notin DeleteEnd /\ Tail(tapOp.todo) # n3
    BY <1>2, <1>3, <1>4, <2>2
  <2>8. tapOp.todo \notin DeleteEnd
    BY <1>2, <1>4, <2>2
  <2>9. tapOp'.name = "delete" /\ tapOp'.todo = Tail(tapOp.todo) /\ (TapGoOnAnyway => tapOp'.ignored)
    BY <1>7, <1>13, <2>1, <2>2
  <2>10. DeleteInOrder'
    BY <1>1, <2>5, <2>7, <2>9 DEF DeleteInOrder, n3
  <2>11. TapMovedIsDone'
    BY <2>5 DEF TapMovedIsDone
  <2> QED BY <1>8, <2>1, <2>2, <2>5, <2>6, <2>7, <2>8, <2>10, <2>11
<1>10. CASE MoveBack
  <2>1. /\ tapOp.todo # <<>> /\ Head(tapOp.todo) = "back" /\ UNCHANGED <<tapDir, mover, tapSaved>>
        /\ \/ TapGoOn /\ tap' = IF tap.at = "netns" THEN [at |-> "default", set |-> Carried] ELSE tap
           \/ TapGoOnAnyway /\ tap' = tap
    BY <1>10 DEF MoveBack, TapDo
  <2>2. tapOp.name = "delete" /\ inNs /\ tapOp.todo \in {b1, b2}
    BY <1>0, <2>1, WhoseStep DEF b1, b2
  <2>3. mover.stopped /\ (mover.orphan \/ tapOp.ignored \/ mover.todo = <<>>)
    BY <1>0, <2>1, <2>2 DEF DeleteInOrder
  <2>4. Tail(tapOp.todo) \in {n1, n2} /\ tapOp.todo # n3 /\ Tail(tapOp.todo) # n3 /\ tapOp.todo \notin DeleteEnd
    BY <1>2, <1>3, <1>4, <2>2
  <2>5. /\ tap'.at # "none" => tap.at # "none"
        /\ "mtu" \in tap.set => "mtu" \in tap'.set
        /\ tap'.set \subseteq tap.set /\ (tap'.at = "netns" => tap' = tap)
    BY <2>1 DEF Carried
  <2>6. /\ tapOp'.name = "delete" /\ tapOp'.todo = Tail(tapOp.todo) /\ (tapOp.ignored => tapOp'.ignored)
        /\ tapOp'.ignored \/ tap'.at # "netns"
    BY <1>7, <1>13, <2>1, <2>2
  <2>7. MoverOrder'
    BY <1>0, <1>1, <2>1, <2>3 DEF MoverOrder, InOrder, CmdsOf
  <2>8. DeleteInOrder'
    BY <1>1, <2>1, <2>3, <2>4, <2>5, <2>6 DEF DeleteInOrder, n3
  <2>9. TapMovedIsDone'
    BY <2>1, <2>3 DEF TapMovedIsDone
  <2> QED BY <1>8, <2>1, <2>2, <2>4, <2>5, <2>7, <2>8, <2>9
<1>11. CASE NoMaster \/ DeleteTAP
  <2>1. /\ tapOp.todo # <<>> /\ Head(tapOp.todo) \in {"nomaster", "delete"} /\ TapGoOn
        /\ UNCHANGED <<tapDir, mover, tapSaved>>
    BY <1>11 DEF NoMaster, DeleteTAP, TapDo
  <2>2. /\ tap'.at = tap.at \/ (tap.at = "default" /\ tap'.at = "none")
        /\ tap'.set \subseteq tap.set /\ (tap'.at = "netns" => tap' = tap)
        /\ tap'.at # "none" /\ "mtu" \in tap.set => "mtu" \in tap'.set
        /\ Head(tapOp.todo) = "delete" => tap'.at # "default"
    BY <1>0, <1>11 DEF NoMaster, DeleteTAP, TapDo, TapGone, TapLinkType
  <2>3. tapOp.name = "delete" /\ tapOp.todo \in {n1, n2} /\ (tapOp.todo = n2 => Head(tapOp.todo) = "delete")
    BY <1>0, <1>2, <2>1, WhoseStep DEF n1, n2
  <2>4. /\ inNs => mover.stopped /\ (mover.orphan \/ tapOp.ignored \/ mover.todo = <<>>)
        /\ mover.orphan \/ tapOp.ignored \/ tap.at # "netns"
        /\ ~inNs => mover.todo = <<>> /\ tap.at # "netns" /\ tapDir.status # "moved"
    BY <1>0, <1>4, <2>1, <2>3 DEF DeleteInOrder, MoverAfterCreate
  <2>5. Tail(tapOp.todo) \in {n2, n3} /\ tapOp.todo # n3 /\ tapOp.todo \in DeleteEnd /\ (Tail(tapOp.todo) = n3 => tapOp.todo = n2)
    BY <1>2, <1>3, <1>4, <2>3
  <2>6. tapOp'.name = "delete" /\ tapOp'.todo = Tail(tapOp.todo) /\ tapOp'.ignored = tapOp.ignored
    BY <1>7, <2>1, <2>3
  <2>7. MoverOrder'
    BY <1>0, <1>1, <2>1, <2>2, <2>4 DEF MoverOrder, InOrder, CmdsOf, IpCommands
  <2>8. tap' \in TapLinkType /\ TapTypeOK'
    BY TapTypesKept DEF TapInv, TapNext, TapOperation, TapTypeOK, TapLinkType
  <2>9. DeleteInOrder'
    <3>1. tapOp'.todo = n3 => mover'.orphan \/ tapOp'.ignored \/ tap'.at = "none"
      BY <2>1, <2>2, <2>3, <2>4, <2>5, <2>6, <2>8 DEF TapLinkType
    <3> QED BY <1>1, <2>1, <2>2, <2>3, <2>4, <2>5, <2>6, <3>1 DEF DeleteInOrder, n3
  <2>10. TapMovedIsDone'
    BY <2>1, <2>4 DEF TapMovedIsDone
  <2> QED BY <1>8, <2>1, <2>2, <2>3, <2>4, <2>5, <2>7, <2>9, <2>10
<1>12. CASE RemoveTapDir
  <2>1. /\ tapOp.todo # <<>> /\ Head(tapOp.todo) = "remove" /\ UNCHANGED <<tap, mover>>
        /\ tapDir' = [dir |-> FALSE, pid |-> FALSE, status |-> "none"] /\ tapSaved' = Unsaved
    BY <1>12 DEF RemoveTapDir, TapDo, NoFiles
  <2>2. tapOp.name = "delete" /\ tapOp.todo = n3
    BY <1>0, <2>1, WhoseStep DEF n3
  <2>3. /\ tapOp'.name = "deleted" /\ tapOp'.todo = <<>> /\ tapOp'.status = "" /\ tapOp'.ignored = tapOp.ignored
        /\ ~tapSaved'.known
    BY <1>12 DEF RemoveTapDir, TapIdle, Unsaved
  <2>4. /\ mover.orphan \/ tapOp.ignored \/ mover.todo = <<>>
        /\ mover.orphan \/ tapOp.ignored \/ tap.at = "none"
    BY <1>0, <2>1, <2>2 DEF DeleteInOrder, MoverAfterCreate, n3
  <2>5. TapTodo'
    BY <1>5, <2>3
  <2>6. MoverAfterCreate' /\ MtuFirst'
    BY <1>0, <1>1, <2>1, <2>3 DEF MoverAfterCreate, MtuFirst, Creating
  <2>7. MoverOrder'
    BY <1>0, <1>1, <2>1 DEF MoverOrder, InOrder, CmdsOf
  <2>8. AskedStays' /\ TapMovedIsDone'
    BY <1>1, <2>1, <2>3 DEF AskedStays, TapMovedIsDone
  <2>9. DeleteInOrder' /\ TapNoEarlyDrift' /\ TapDeleteLeavesNone'
    BY <1>1, <2>1, <2>3, <2>4 DEF DeleteInOrder, TapNoEarlyDrift, TapDeleteLeavesNone
  <2> QED BY <2>5, <2>6, <2>7, <2>8, <2>9 DEF TapLaws
<1> QED BY <1>6, <1>9, <1>10, <1>11, <1>12

(* Every step of the resource, of its mover and of others keeps TapInv.     *)
LEMMA TapInvKept ==
    ASSUME TapInv, [TapNext]_tapVars
    PROVE  TapInv'
<1>1. TapTypeOK'
  BY TapTypesKept DEF TapInv
<1>2. TapOperation => TapLaws'
  BY CreateKeeps, ReadKeeps, DeleteKeeps DEF TapOperation
<1>3. MoverStep \/ LinkEvent => TapLaws'
  BY MoverInOrder, MoverKeeps
<1>4. LoseTAP \/ LoseNetNS => TapLaws'
  BY EnvironmentKeeps
<1>5. ASSUME UNCHANGED tapVars PROVE TapLaws'
  <2>1. UNCHANGED <<inNs, asked, tap, netnsUp, tapDir, mover, tapSaved, tapOp>>
    BY <1>5 DEF tapVars
  <2>2. TapTodo' /\ MoverAfterCreate' /\ MoverOrder'
    BY <2>1 DEF TapInv, TapLaws, TapTodo, MoverAfterCreate, MoverOrder, Creating, InOrder, CmdsOf, DeleteEnd
  <2>3. MtuFirst' /\ AskedStays' /\ DeleteInOrder' /\ TapMovedIsDone' /\ TapNoEarlyDrift' /\ TapDeleteLeavesNone'
    BY <2>1 DEF TapInv, TapLaws, MtuFirst, AskedStays, DeleteInOrder, DeleteEnd, TapMovedIsDone, TapNoEarlyDrift,
           TapDeleteLeavesNone
  <2> QED BY <2>2, <2>3 DEF TapLaws
<1>6. TapLaws'
  BY <1>2, <1>3, <1>4, <1>5 DEF TapNext
<1> QED BY <1>1, <1>6 DEF TapInv

LEMMA TapAlways == TapSpec => []TapInv
<1>1. TapInit => TapInv
  BY TapStarts
<1>2. TapInv /\ [TapNext]_tapVars => TapInv'
  BY TapInvKept
<1> QED BY <1>1, <1>2, PTL DEF TapSpec

(* For every set of configurations and of commands that may fail: the        *)
(* variables of a TAP and of its mover keep their types.                     *)
THEOREM TapTypes == TapSpec => []TapTypeOK
BY TapAlways, PTL DEF TapInv

(* A mover that wrote "moved" has moved the TAP and made every setting of    *)
(* the configuration there, unless a Delete stopped it or the TAP is gone    *)
(* (tapMoverMain, moveTAP and writeStatus).                                  *)
THEOREM MovedIsDone == TapSpec => []TapMovedIsDone
<1>1. TapInv => TapMovedIsDone
  BY DEF TapInv, TapLaws
<1> QED BY <1>1, TapAlways, PTL

(* Read, whatever it finds while the mover is on its way, leaves what was    *)
(* asked for in the state (Read and readMoverStatus of the TAP).             *)
THEOREM NoEarlyDrift == TapSpec => []TapNoEarlyDrift
<1>1. TapInv => TapNoEarlyDrift
  BY DEF TapInv, TapLaws
<1> QED BY <1>1, TapAlways, PTL

(* A Delete that succeeded left no TAP, in neither namespace, unless it went *)
(* on after an error of stopping the mover or of moving the TAP back, or an  *)
(* ip command outlived the mover it killed (the TAP's Delete, stopTAPMover). *)
THEOREM DeleteLeavesNone == TapSpec => []TapDeleteLeavesNone
<1>1. TapInv => TapDeleteLeavesNone
  BY DEF TapInv, TapLaws
<1> QED BY <1>1, TapAlways, PTL

(* What a mover has still to do, at most; giving up is the shorter way.      *)
MoverLeft ==
    IF mover.todo = <<>> THEN 0
    ELSE 3 * Len(mover.todo) + (CASE Head(mover.todo) \in {"moved", "failed"} -> 0
                                  [] Head(mover.todo) \in {"status", "error"} -> 1
                                  [] OTHER -> 2)

MoverGetsNearer ==
    \/ mover'.todo = mover.todo
    \/ mover.todo # <<>> /\ MoverLeft' < MoverLeft
    \/ mover.todo = <<>> /\ Creating /\ ~Creating'

CreatedOnce == ~Creating => ~Creating'

LEMMA MoverMeasure ==
    ASSUME mover \in MoverType, mover.todo # <<>>,
           \/ mover'.todo = Tail(mover.todo)
           \/ mover'.todo = <<>>
           \/ mover'.todo = <<"error">> /\ Head(mover.todo) \notin {"status", "error", "moved", "failed"}
           \/ mover'.todo = <<Head(mover.todo)>>
           \/ /\ Head(mover.todo) \in {"status", "error"}
              /\ \E x \in {"moved", "failed"} : mover'.todo = <<x>> \o Tail(mover.todo)
    PROVE  MoverGetsNearer
<1> DEFINE q == mover.todo
           next == mover'.todo
           Weight(l) == CASE l \in {"moved", "failed"} -> 0 [] l \in {"status", "error"} -> 1 [] OTHER -> 2
<1>1. q \in Seq(MoverTodo) /\ q # <<>>
  BY DEF MoverType
<1>2. /\ Len(q) \in Nat \ {0} /\ Tail(q) \in Seq(MoverTodo) /\ Len(Tail(q)) = Len(q) - 1
      /\ Head(q) = q[1]
  BY <1>1
<1>3. /\ MoverLeft = 3 * Len(q) + Weight(Head(q))
      /\ MoverLeft' = IF next = <<>> THEN 0 ELSE 3 * Len(next) + Weight(Head(next))
  BY DEF MoverLeft
<1>4. \A l : Weight(l) \in 0..2
  OBVIOUS
<1>5. CASE next = Tail(q)
  <2>0. /\ Weight(Head(q)) \in 0..2 /\ Weight(Head(next)) \in 0..2
        /\ Len(q) \in Nat \ {0} /\ Len(next) = Len(q) - 1
    BY <1>2, <1>4, <1>5
  <2> HIDE DEF q, next, Weight
  <2>1. MoverLeft' < MoverLeft
    BY <1>3, <2>0
  <2> QED BY <1>1, <2>1 DEF MoverGetsNearer, q
<1>6. CASE next = <<>>
  <2> HIDE DEF q, next, Weight
  <2>1. MoverLeft' < MoverLeft
    BY <1>2, <1>3, <1>4, <1>6
  <2> QED BY <1>1, <2>1 DEF MoverGetsNearer, q
<1>7. CASE next = <<"error">> /\ Head(q) \notin {"status", "error", "moved", "failed"}
  <2>1. /\ Weight(Head(q)) = 2 /\ Weight(Head(next)) = 1 /\ Len(next) = 1 /\ next # <<>>
    BY <1>7
  <2> HIDE DEF q, next, Weight
  <2>2. MoverLeft' < MoverLeft
    BY <1>2, <1>3, <2>1
  <2> QED BY <1>1, <2>2 DEF MoverGetsNearer, q
<1>8. CASE next = <<Head(q)>>
  <2>1. Head(next) = Head(q) /\ Len(next) = 1 /\ next # <<>>
    BY <1>8
  <2>2. CASE Len(q) = 1
    <3>1. next = q
      BY <1>1, <1>2, <1>8, <2>2
    <3> QED BY <3>1 DEF MoverGetsNearer
  <2>3. CASE Len(q) # 1
    <3> HIDE DEF q, next, Weight
    <3>1. MoverLeft' < MoverLeft
      BY <1>2, <1>3, <1>4, <2>1, <2>3
    <3> QED BY <1>1, <3>1 DEF MoverGetsNearer, q
  <2> QED BY <2>2, <2>3
<1>9. ASSUME Head(q) \in {"status", "error"}, NEW x \in {"moved", "failed"}, next = <<x>> \o Tail(q)
      PROVE  MoverGetsNearer
  <2>1. Len(next) = Len(q) /\ Head(next) = x /\ next # <<>>
    BY <1>2, <1>9
  <2>2. Weight(Head(q)) = 1 /\ Weight(Head(next)) = 0
    BY <1>9, <2>1
  <2> HIDE DEF q, next, Weight
  <2>3. MoverLeft' < MoverLeft
    BY <1>2, <1>3, <2>1, <2>2
  <2> QED BY <1>1, <2>3 DEF MoverGetsNearer, q
<1> QED BY <1>5, <1>6, <1>7, <1>8, <1>9

LEMMA MoverNearer ==
    ASSUME mover \in MoverType, MoverStep \/ LinkEvent
    PROVE  MoverGetsNearer /\ CreatedOnce
<1>1. tapOp' = tapOp
  BY DEF MoverStep, LinkEvent, MoverBegins, WaitTimesOut, MoveTAP, ConfigureTAP, TruncateStatus, WriteStatus
<1>2. CreatedOnce
  BY <1>1 DEF CreatedOnce, Creating
<1>3. mover.todo # <<>>
  BY DEF MoverStep, LinkEvent, MoverBegins, WaitTimesOut, MoveTAP, ConfigureTAP, TruncateStatus,
         WriteStatus, MoverDo
<1>4. ASSUME MoverGoesOn \/ MoverEnds PROVE MoverGetsNearer
  BY <1>3, <1>4, MoverMeasure DEF MoverGoesOn, MoverEnds, MoverType
<1>5. ASSUME MoverErrs, Head(mover.todo) \notin {"status", "error", "moved", "failed"}
      PROVE  MoverGetsNearer
  BY <1>3, <1>5, MoverMeasure DEF MoverErrs, MoverType
<1>6. ASSUME MoverBegins \/ WaitTimesOut \/ MoveTAP \/ LinkEvent \/ WriteStatus
      PROVE  MoverGetsNearer
  BY <1>4, <1>5, <1>6 DEF MoverBegins, WaitTimesOut, MoveTAP, LinkEvent, WriteStatus, MoverDo
<1>7. ASSUME NEW s \in {"master", "addr", "state"}, ConfigureTAP(s)
      PROVE  MoverGetsNearer
  BY <1>4, <1>5, <1>7 DEF ConfigureTAP, MoverDo
<1>8. ASSUME TruncateStatus PROVE MoverGetsNearer
  <2>1. CASE MoverGoesOn
    BY <1>4, <2>1
  <2>2. CASE ~MoverGoesOn
    <3>1. /\ Head(mover.todo) \in {"status", "error"}
          /\ mover' = [mover EXCEPT !.todo = <<IF MoverDo("status") THEN "moved" ELSE "failed">> \o Tail(@)]
      BY <1>8, <2>2 DEF TruncateStatus
    <3>2. mover'.todo = <<IF MoverDo("status") THEN "moved" ELSE "failed">> \o Tail(mover.todo)
      BY <3>1 DEF MoverType
    <3>3. \E x \in {"moved", "failed"} : mover'.todo = <<x>> \o Tail(mover.todo)
      BY <3>2
    <3> QED BY <1>3, <3>1, <3>3, MoverMeasure
  <2> QED BY <2>1, <2>2
<1> QED BY <1>2, <1>6, <1>7, <1>8 DEF MoverStep

LEMMA OperationOnMover ==
    ASSUME TapInv, TapOperation
    PROVE  MoverGetsNearer /\ CreatedOnce
<1>0. /\ mover \in MoverType /\ tapOp \in OpType /\ TapTodo /\ MoverAfterCreate
  BY DEF TapInv, TapLaws, TapTypeOK, MoverType, OpType, OpNames
<1>n. \A n : TapIdle(n).name = n /\ TapIdle(n).todo = <<>>
  BY DEF TapIdle
<1>1. CASE TapCreate
  <2>1. Creating /\ UNCHANGED mover
    BY <1>1, <1>n DEF TapCreate, Creating
  <2> QED BY <2>1 DEF MoverGetsNearer, CreatedOnce
<1>2. CASE TapRead \/ TapDelete
  <2>1. UNCHANGED mover /\ tapOp'.name \in {"read", "delete"}
    BY <1>2 DEF TapRead, TapDelete, TapIdle
  <2> QED BY <2>1 DEF MoverGetsNearer, CreatedOnce, Creating
<1>g. ASSUME tapOp.todo # <<>>, UNCHANGED mover, TapGoOn \/ TapGoOnAnyway \/ \E n \in {"failed", tapOp.name} : TapEnd(n)
      PROVE  MoverGetsNearer /\ CreatedOnce
  <2>1. tapOp'.name \in {"failed", tapOp.name}
    BY <1>0, <1>n, <1>g DEF TapGoOn, TapGoOnAnyway, TapEnd, OpType
  <2> QED BY <1>g, <2>1 DEF MoverGetsNearer, CreatedOnce, Creating
<1>3. CASE TapFail \/ TapAdd \/ \E s \in TapSettings : TapSet(s)
  BY <1>3, <1>g DEF TapFail, TapAdd, TapSet, TapDo
<1>4. CASE StartTAPMover
  <2>1. tapOp.todo # <<>> /\ Head(tapOp.todo) = "mover" /\ tapOp.name = "create"
    BY <1>0, <1>4, WhoseStep DEF StartTAPMover, TapDo
  <2>2. Creating /\ mover.todo = <<>>
    BY <1>0, <2>1 DEF Creating, MoverAfterCreate
  <2>3. ~Creating'
    BY <1>4, <1>n DEF StartTAPMover, TapEnd, Creating
  <2> QED BY <2>2, <2>3 DEF MoverGetsNearer, CreatedOnce
<1>5. CASE ReadMoverStatus
  <2>1. tapOp.todo # <<>> /\ UNCHANGED mover /\ tapOp'.name = tapOp.name
    BY <1>0, <1>5 DEF ReadMoverStatus, TapDo, OpType
  <2> QED BY <2>1 DEF MoverGetsNearer, CreatedOnce, Creating
<1>6. CASE ShowLink \/ ShowAddresses
  <2>1. tapOp.todo # <<>> /\ UNCHANGED mover
        /\ (TapGoOn \/ \E n \in {"failed", "read", tapOp.name} : TapEnd(n))
    BY <1>6 DEF ShowLink, ShowAddresses, TapNotThere, TapDo
  <2>2. tapOp'.name \in {"failed", "read", tapOp.name}
    BY <1>0, <1>n, <2>1 DEF TapGoOn, TapEnd, OpType
  <2> QED BY <2>1, <2>2 DEF MoverGetsNearer, CreatedOnce, Creating
<1>7. CASE StopTAPMover
  <2>1. tapOp.todo # <<>> /\ tapOp'.name = tapOp.name
    BY <1>0, <1>7 DEF StopTAPMover, TapDo, TapGoOn, TapGoOnAnyway, OpType
  <2>2. CreatedOnce
    BY <2>1 DEF CreatedOnce, Creating
  <2>3. \/ mover'.todo = mover.todo
        \/ mover'.todo = <<>>
        \/ mover.todo # <<>> /\ mover'.todo = <<Head(mover.todo)>>
    <3>1. CASE \E ip \in IpCommands : MoverDo(ip) /\ mover'.todo = <<Head(mover.todo)>>
      BY <3>1 DEF MoverDo
    <3>2. CASE mover' = [mover EXCEPT !.stopped = TRUE, !.todo = IF tapDir.pid THEN <<>> ELSE @]
      BY <1>0, <3>2 DEF MoverType
    <3>3. CASE mover' = [mover EXCEPT !.stopped = TRUE]
      BY <1>0, <3>3 DEF MoverType
    <3> QED BY <1>7, <3>1, <3>2, <3>3 DEF StopTAPMover
  <2>4. MoverGetsNearer
    <3>1. CASE mover'.todo = mover.todo
      BY <3>1 DEF MoverGetsNearer
    <3>2. CASE mover'.todo # mover.todo
      BY <1>0, <2>3, <3>2, MoverMeasure
    <3> QED BY <3>1, <3>2
  <2> QED BY <2>2, <2>4
<1>8. CASE MoveBack \/ NoMaster \/ DeleteTAP
  BY <1>8, <1>g DEF MoveBack, NoMaster, DeleteTAP, TapDo
<1>9. CASE RemoveTapDir
  <2>1. UNCHANGED mover /\ tapOp'.name = "deleted"
    BY <1>9 DEF RemoveTapDir, TapIdle
  <2> QED BY <2>1 DEF MoverGetsNearer, CreatedOnce, Creating
<1> QED BY <1>1, <1>2, <1>3, <1>4, <1>5, <1>6, <1>7, <1>8, <1>9 DEF TapOperation

(* A TAP has one mover in its life, started by Create, and whatever happens  *)
(* to it or around it makes what it has to do shorter: there is no way back  *)
(* in tapMoverMain, and no operation starts it again.                        *)
THEOREM MoverWindsDown == TapSpec => [][MoverGetsNearer /\ CreatedOnce]_tapVars
<1>1. ASSUME TapInv, TapNext PROVE MoverGetsNearer /\ CreatedOnce
  <2>1. mover \in MoverType
    BY <1>1 DEF TapInv, TapTypeOK, MoverType
  <2>2. CASE LoseTAP \/ LoseNetNS
    BY <2>2 DEF LoseTAP, LoseNetNS, MoverGetsNearer, CreatedOnce, Creating
  <2> QED BY <1>1, <2>1, <2>2, MoverNearer, OperationOnMover DEF TapNext
<1>2. TapInv /\ [TapNext]_tapVars => [MoverGetsNearer /\ CreatedOnce]_tapVars
  BY <1>1
<1> QED BY <1>2, TapAlways, PTL DEF TapSpec

-----------------------------------------------------------------------------
(* Bridge, VLAN and namespace.                                             *)

(* A model, saved or of the operation under way, has no member that the    *)
(* configuration does not name, and an operation has one to work on.       *)
OwnMembersOnly ==
    /\ linkConf \in LinkModels
    /\ linkSaved # LinkNone => linkSaved \in LinkModels /\ linkSaved.members \subseteq linkConf.members
    /\ linkOp.todo # <<>> => linkOp.plan \in LinkModels /\ linkOp.plan.members \subseteq linkConf.members

(* The record of the operation. *)
LinkOpRecord == \E name, todo, plan : linkOp = [name |-> name, todo |-> todo, plan |-> plan]

(* A replacement goes on as it began: nothing is saved before its end.     *)
LinkInv == LinkOpRecord /\ OwnMembersOnly /\ LinkNoSpuriousReplace

LEMMA LinkKept ==
    ASSUME LinkInv, [LinkNext]_linkVars
    PROVE  LinkInv'
<1> USE DEF LinkInv, LinkOpRecord, OwnMembersOnly, LinkNoSpuriousReplace
<1>1. CASE LinkCreate
  BY <1>1 DEF LinkCreate, LinkBegin
<1>2. CASE LinkRead
  BY <1>2 DEF LinkRead, LinkBegin
<1>3. CASE LinkReplace
  BY <1>3 DEF LinkReplace, LinkBegin
<1>4. CASE LinkUpdate
  BY <1>4 DEF LinkUpdate, LinkEnd
<1>5. CASE LinkDelete
  BY <1>5 DEF LinkDelete, LinkBegin
<1>6. CASE LinkFail
  BY <1>6 DEF LinkFail, LinkEnd
<1>7. CASE AddLink \/ ConfigureLink
  <2>1. linkOp'.plan = linkOp.plan /\ linkOp'.name = linkOp.name /\ linkOp.todo # <<>>
    BY <1>7 DEF AddLink, ConfigureLink, LinkGoOn, LinkDo, LinkIdle
  <2>2. UNCHANGED <<linkConf, linkSaved>> /\ LinkOpRecord'
    BY <1>7 DEF AddLink, ConfigureLink, LinkGoOn
  <2> QED BY <2>1, <2>2
<1>8. CASE ReadLink
  <2>1. linkOp.todo # <<>>
    BY <1>8 DEF ReadLink, LinkDo, LinkIdle
  <2>2. linkOp.plan \in LinkModels /\ linkOp.plan.members \subseteq linkConf.members
    BY <2>1
  <2>3. CASE linkOp' = [linkOp EXCEPT !.todo = Tail(@), !.plan.members = OwnMembers, !.plan.addr = @ \/ hostLink.addr]
    <3>1. linkOp'.plan = [linkOp.plan EXCEPT !.members = OwnMembers, !.addr = @ \/ hostLink.addr]
      BY <2>3
    <3>2. linkOp'.plan = [members |-> OwnMembers, addr |-> linkOp.plan.addr \/ hostLink.addr]
      BY <2>2, <3>1 DEF LinkModels
    <3>3. (linkOp.plan.addr \/ hostLink.addr) \in BOOLEAN
      BY Zenon
    <3>4. linkOp'.plan \in LinkModels /\ linkOp'.plan.members \subseteq linkConf.members
      BY <2>2, <3>2, <3>3 DEF LinkModels, OwnMembers
    <3>5. linkOp' = [name |-> linkOp.name, todo |-> Tail(linkOp.todo), plan |-> linkOp'.plan]
      BY <2>3
    <3> QED BY <1>8, <3>4, <3>5 DEF ReadLink, LinkEnd
  <2>4. CASE linkSaved' = LinkNone /\ LinkEnd("none")
    BY <1>8, <2>4 DEF ReadLink, LinkEnd
  <2> QED BY <1>8, <2>3, <2>4 DEF ReadLink
<1>9. CASE SaveLink
  BY <1>9 DEF SaveLink, LinkDo, LinkIdle, LinkEnd
<1>10. CASE DeleteLink
  BY <1>10 DEF DeleteLink, LinkDo, LinkIdle, LinkGoOn, LinkEnd
<1>11. CASE RemoveLink
  BY <1>11 DEF RemoveLink, LinkEnd
<1>12. CASE LinkDrift
  BY <1>12 DEF LinkDrift
<1>13. CASE UNCHANGED linkVars BY <1>13 DEF linkVars
<1> QED BY <1>1, <1>2, <1>3, <1>4, <1>5, <1>6, <1>7, <1>8, <1>9, <1>10, <1>11, <1>12, <1>13 DEF LinkNext

(* Whatever other resources attach to a bridge, and whoever takes its       *)
(* members off: it is only replaced for a member that left it (readBridge  *)
(* and Read of the bridge).                                                *)
THEOREM NoSpuriousReplace == LinkSpec => []LinkNoSpuriousReplace
<1>1. ASSUME LinkInit PROVE LinkInv
  <2>1. linkConf \in LinkModels /\ linkSaved = LinkNone
    BY <1>1 DEF LinkInit
  <2>2. linkOp = [name |-> "none", todo |-> <<>>, plan |-> LinkNone]
    BY <1>1 DEF LinkInit
  <2> QED BY <2>1, <2>2 DEF LinkInv, LinkOpRecord, OwnMembersOnly, LinkNoSpuriousReplace
<1>2. LinkInv /\ [LinkNext]_linkVars => LinkInv'
  BY LinkKept
<1>3. LinkInv => LinkNoSpuriousReplace
  BY DEF LinkInv
<1> QED BY <1>1, <1>2, <1>3, PTL DEF LinkSpec

(* What a command may be about: only an interface that the configuration    *)
(* names is enslaved.                                                      *)
LinkCommands == {Plain(c) : c \in {"add", "set", "addr", "show", "save", "delete", "remove"}}
                  \cup {LinkCmd("enslave", m) : m \in LinkMembers}

LinkTypeInv == LinkTypeOK /\ linkOp.todo \in Seq(LinkCommands)

LEMMA PlainCommand ==
    ASSUME NEW c \in {"add", "set", "addr", "show", "save", "delete", "remove"}
    PROVE  Plain(c) \in LinkCommands /\ <<Plain(c)>> \in Seq(LinkCommands)
<1>1. Plain(c) \in LinkCommands
  BY DEF LinkCommands
<1> HIDE DEF LinkCommands
<1> QED BY <1>1

LEMMA JoinedCommands ==
    ASSUME NEW S, NEW s \in Seq(S), NEW t \in Seq(S)
    PROVE  s \o t \in Seq(S) /\ (s # <<>> => Tail(s) \in Seq(S) /\ Head(s) \in S)
  OBVIOUS

(* The commands of the handlers. *)
LEMMA LinkTodo ==
    ASSUME linkConf \in LinkModels, linkKind = "bridge" => OtherMember \notin linkConf.members
    PROVE  /\ linkKind = "bridge" => CreateBridge \in Seq(LinkCommands)
           /\ CreateVLAN \in Seq(LinkCommands) /\ CreateNetNS \in Seq(LinkCommands)
           /\ <<Plain("show"), Plain("save")>> \in Seq(LinkCommands)
           /\ <<Plain("delete"), Plain("remove")>> \in Seq(LinkCommands)
<1> DEFINE addr == IF linkConf.addr THEN <<Plain("addr")>> ELSE <<>>
           up   == IF linkConf.addr THEN <<Plain("set")>> ELSE <<>>
           ms   == SetToSeq(linkConf.members)
           join == [n \in 1..Len(ms) |-> LinkCmd("enslave", ms[n])]
<1>1. \A c, d \in {"add", "set", "show", "save", "delete", "remove"} : <<Plain(c), Plain(d)>> \in Seq(LinkCommands)
  <2>1. ASSUME NEW x \in LinkCommands, NEW y \in LinkCommands PROVE <<x, y>> \in Seq(LinkCommands)
    OBVIOUS
  <2> QED BY <2>1, PlainCommand
<1>2. addr \in Seq(LinkCommands) /\ up \in Seq(LinkCommands)
  BY PlainCommand
<1>3. ASSUME linkKind = "bridge" PROVE CreateBridge \in Seq(LinkCommands)
  <2>1. linkConf.members \subseteq LinkMembers /\ IsFiniteSet(linkConf.members)
    BY <1>3, LinkAssumption, FS_Subset DEF LinkModels
  <2>2. ms \in Seq(LinkMembers)
    BY <2>1, Listed
  <2> HIDE DEF ms
  <2>3. \A n \in 1..Len(ms) : LinkCmd("enslave", ms[n]) \in LinkCommands
    BY <2>2 DEF LinkCommands
  <2>4. join \in Seq(LinkCommands)
    <3> HIDE DEF LinkCommands
    <3>1. Len(ms) \in Nat
      BY <2>2
    <3> QED BY <2>3, <3>1
  <2> HIDE DEF join, addr, up
  <2>5. CreateBridge = <<Plain("add"), Plain("set")>> \o addr \o join \o <<Plain("show")>> \o up \o <<Plain("save")>>
    BY DEF CreateBridge, addr, up, join, ms
  <2>6. CreateBridge \in Seq(LinkCommands)
    BY <1>1, <1>2, <2>4, <2>5, PlainCommand, JoinedCommands
  <2> QED BY <2>6
<1> HIDE DEF addr, up
<1>4. CreateVLAN = <<Plain("add"), Plain("set")>> \o addr \o <<Plain("show")>> \o up \o <<Plain("save")>>
  BY DEF CreateVLAN, addr, up
<1>5. CreateVLAN \in Seq(LinkCommands)
  BY <1>1, <1>2, <1>4, PlainCommand, JoinedCommands
<1>6. CreateNetNS \in Seq(LinkCommands)
  BY <1>1 DEF CreateNetNS
<1> QED BY <1>1, <1>3, <1>5, <1>6

LinkNames == {"none", "create", "read", "replace", "delete", "failed", "missing", "refreshed", "applied"}

(* A handler that begins, and one that ends.                               *)
LEMMA LinkBegins ==
    ASSUME NEW name \in LinkNames, NEW todo \in Seq(LinkCommands), NEW plan \in LinkModels \cup {LinkNone},
           linkOp' = [name |-> name, todo |-> todo, plan |-> plan]
    PROVE  linkOp'.name \in LinkNames /\ linkOp'.todo \in Seq(LinkCommands) /\ linkOp'.plan \in LinkModels \cup {LinkNone}
  OBVIOUS

LEMMA LinkEnds ==
    ASSUME NEW name \in LinkNames, LinkEnd(name)
    PROVE  linkOp'.name \in LinkNames /\ linkOp'.todo \in Seq(LinkCommands) /\ linkOp'.plan \in LinkModels \cup {LinkNone}
  BY DEF LinkEnd

LEMMA LinkTypesKept ==
    ASSUME LinkInv, LinkTypeInv, [LinkNext]_linkVars,
           linkKind = "bridge" => OtherMember \notin linkConf.members
    PROVE  LinkTypeInv'
<1> DEFINE OpTyped == /\ linkOp'.name \in LinkNames /\ linkOp'.todo \in Seq(LinkCommands)
                      /\ linkOp'.plan \in LinkModels \cup {LinkNone}
           Host == [exists : BOOLEAN, members : SUBSET (LinkMembers \cup {OtherMember}), addr : BOOLEAN]
<1>0. /\ linkKind \in LinkKinds /\ linkConf \in LinkModels /\ hostLink \in Host
      /\ linkSaved \in LinkModels \cup {LinkNone} /\ linkOp.plan \in LinkModels \cup {LinkNone}
      /\ linkOp.name \in LinkNames /\ linkOp.todo \in Seq(LinkCommands)
  BY DEF LinkTypeInv, LinkTypeOK, LinkNames
<1>1. UNCHANGED <<linkKind, linkConf>>
  BY DEF LinkNext, LinkCreate, LinkRead, LinkReplace, LinkUpdate, LinkDelete, LinkFail, LinkBegin, AddLink, ConfigureLink,
         ReadLink, SaveLink, DeleteLink, RemoveLink, LinkDrift, linkVars
<1>2. ASSUME OpTyped, hostLink' \in Host, linkSaved' \in LinkModels \cup {LinkNone} PROVE LinkTypeInv'
  BY <1>0, <1>1, <1>2 DEF LinkTypeInv, LinkTypeOK, LinkNames
<1> HIDE DEF OpTyped
<1>3. CASE LinkCreate \/ LinkRead \/ LinkReplace \/ LinkDelete
  <2>1. \E name \in LinkNames, todo \in Seq(LinkCommands), plan \in LinkModels \cup {LinkNone} :
           linkOp' = [name |-> name, todo |-> todo, plan |-> plan]
    BY <1>0, <1>3, LinkTodo DEF LinkCreate, LinkRead, LinkReplace, LinkDelete, LinkBegin, LinkNames
  <2>2. OpTyped
    BY <2>1, LinkBegins DEF OpTyped
  <2>3. UNCHANGED <<hostLink, linkSaved>>
    BY <1>3 DEF LinkCreate, LinkRead, LinkReplace, LinkDelete, LinkBegin
  <2> QED BY <1>0, <1>2, <2>2, <2>3
<1>4. CASE LinkUpdate \/ LinkFail
  <2>1. OpTyped /\ UNCHANGED <<hostLink, linkSaved>>
    BY <1>4, LinkEnds DEF LinkUpdate, LinkFail, LinkNames, OpTyped
  <2> QED BY <1>0, <1>2, <2>1
<1>5. ASSUME LinkGoOn, linkOp.todo # <<>> PROVE OpTyped
  <2>1. Tail(linkOp.todo) \in Seq(LinkCommands)
    BY <1>0, <1>5, JoinedCommands
  <2>2. linkOp' = [name |-> linkOp.name, todo |-> Tail(linkOp.todo), plan |-> linkOp.plan]
    BY <1>5 DEF LinkGoOn, LinkInv, LinkOpRecord
  <2> QED BY <1>0, <2>1, <2>2 DEF OpTyped
<1>6. CASE AddLink
  <2>1. OpTyped
    BY <1>5, <1>6 DEF AddLink, LinkDo, LinkIdle
  <2>2. hostLink' \in Host /\ linkSaved' = linkSaved
    BY <1>6 DEF AddLink, NoLink
  <2> QED BY <1>0, <1>2, <2>1, <2>2
<1>7. CASE ConfigureLink
  <2>1. OpTyped
    BY <1>5, <1>7 DEF ConfigureLink, LinkDo, LinkIdle
  <2>2. linkSaved' = linkSaved
    BY <1>7 DEF ConfigureLink
  <2>3. LinkDo("enslave") => Head(linkOp.todo).arg \in LinkMembers
    <3> SUFFICES ASSUME LinkDo("enslave") PROVE Head(linkOp.todo).arg \in LinkMembers
      OBVIOUS
    <3>1. Head(linkOp.todo) \in LinkCommands /\ Head(linkOp.todo).cmd = "enslave"
      BY <1>0, JoinedCommands DEF LinkDo, LinkIdle
    <3> QED BY <3>1 DEF LinkCommands, Plain, LinkCmd
  <2>4. hostLink' \in Host
    <3>1. CASE hostLink' = hostLink
      BY <1>0, <3>1
    <3>2. CASE hostLink' = [hostLink EXCEPT !.addr = TRUE]
      BY <1>0, <3>2
    <3>3. CASE LinkDo("enslave") /\ hostLink' = [hostLink EXCEPT !.members = @ \cup {Head(linkOp.todo).arg}]
      BY <1>0, <2>3, <3>3
    <3> QED BY <1>7, <3>1, <3>2, <3>3 DEF ConfigureLink
  <2> QED BY <1>0, <1>2, <2>1, <2>2, <2>4
<1>8. CASE ReadLink
  <2>1. linkOp.todo # <<>> /\ hostLink' = hostLink /\ LinkInv'
    BY <1>8, LinkKept DEF ReadLink, LinkDo, LinkIdle
  <2>2. ASSUME linkOp' = [linkOp EXCEPT !.todo = Tail(@), !.plan.members = OwnMembers, !.plan.addr = @ \/ hostLink.addr]
        PROVE  OpTyped
    <3>1. linkOp.plan \in LinkModels
      BY <2>1 DEF LinkInv, OwnMembersOnly
    <3>2. linkOp'.name = linkOp.name /\ linkOp'.todo = Tail(linkOp.todo)
      BY <2>2 DEF LinkInv, LinkOpRecord
    <3>3. linkOp'.plan = [members |-> OwnMembers, addr |-> linkOp.plan.addr \/ hostLink.addr]
      BY <2>2, <3>1 DEF LinkInv, LinkOpRecord, LinkModels
    <3>4. (linkOp.plan.addr \/ hostLink.addr) \in BOOLEAN
      BY Zenon
    <3>5. OwnMembers \subseteq linkOp.plan.members
      BY DEF OwnMembers
    <3>6. linkOp'.plan \in LinkModels
      BY <3>1, <3>3, <3>4, <3>5 DEF LinkModels
    <3>7. Tail(linkOp.todo) \in Seq(LinkCommands)
      BY <1>0, <2>1, JoinedCommands
    <3> QED BY <1>0, <3>2, <3>6, <3>7 DEF OpTyped
  <2>3. OpTyped
    <3>1. CASE LinkEnd("none")
      BY <3>1, LinkEnds DEF LinkNames, OpTyped
    <3> QED BY <1>8, <2>2, <3>1 DEF ReadLink
  <2>4. linkSaved' = linkSaved \/ linkSaved' = LinkNone
    BY <1>8 DEF ReadLink
  <2> QED BY <1>0, <1>2, <2>1, <2>3, <2>4
<1>9. CASE SaveLink \/ RemoveLink
  <2>1. OpTyped /\ hostLink' = hostLink /\ linkSaved' \in {linkOp.plan, LinkNone}
    BY <1>9, LinkEnds DEF SaveLink, RemoveLink, LinkNames, OpTyped
  <2> QED BY <1>0, <1>2, <2>1
<1>delete. CASE DeleteLink
  <2>1. OpTyped
    BY <1>5, <1>delete, LinkEnds DEF DeleteLink, LinkDo, LinkIdle, LinkNames, OpTyped
  <2>2. hostLink' \in Host /\ linkSaved' = linkSaved
    BY <1>delete DEF DeleteLink, NoLink
  <2> QED BY <1>0, <1>2, <2>1, <2>2
<1>drift. CASE LinkDrift
  <2>1. OpTyped /\ linkSaved' = linkSaved
    BY <1>0, <1>drift DEF LinkDrift, OpTyped
  <2>2. hostLink' \in Host
    <3>1. CASE hostLink' = [hostLink EXCEPT !.members = @ \cup {OtherMember}]
      BY <1>0, <3>1
    <3>2. ASSUME NEW i \in hostLink.members, hostLink' = [hostLink EXCEPT !.members = @ \ {i}] PROVE hostLink' \in Host
      BY <1>0, <3>2
    <3>3. CASE hostLink' = [hostLink EXCEPT !.addr = FALSE]
      BY <1>0, <3>3
    <3>4. CASE hostLink' = NoLink
      BY <3>4 DEF NoLink
    <3> QED BY <1>drift, <3>1, <3>2, <3>3, <3>4 DEF LinkDrift
  <2> QED BY <1>0, <1>2, <2>1, <2>2
<1>idle. CASE UNCHANGED linkVars
  BY <1>0, <1>2, <1>idle DEF linkVars, OpTyped
<1> QED BY <1>3, <1>4, <1>6, <1>7, <1>8, <1>9, <1>delete, <1>drift, <1>idle DEF LinkNext

LEMMA LinkAlways == LinkSpec => [](LinkInv /\ LinkTypeInv)
<1> DEFINE Named == linkKind = "bridge" => OtherMember \notin linkConf.members
<1>1. ASSUME LinkInit PROVE LinkInv /\ LinkTypeInv /\ Named
  <2>1. linkOp = [name |-> "none", todo |-> <<>>, plan |-> LinkNone] /\ linkSaved = LinkNone
    BY <1>1 DEF LinkInit
  <2>2. linkConf \in LinkModels /\ linkKind \in LinkKinds /\ Named
    BY <1>1 DEF LinkInit
  <2>3. hostLink \in [exists : BOOLEAN, members : SUBSET (LinkMembers \cup {OtherMember}), addr : BOOLEAN]
    BY <1>1 DEF LinkInit, NoLink
  <2>4. LinkTypeInv
    BY <2>1, <2>2, <2>3 DEF LinkTypeInv, LinkTypeOK
  <2> QED BY <2>1, <2>2, <2>4 DEF LinkInv, LinkOpRecord, OwnMembersOnly, LinkNoSpuriousReplace
<1>2. ASSUME LinkInv, LinkTypeInv, Named, [LinkNext]_linkVars PROVE (LinkInv /\ LinkTypeInv /\ Named)'
  <2>1. UNCHANGED <<linkKind, linkConf>>
    BY <1>2 DEF LinkNext, LinkCreate, LinkRead, LinkReplace, LinkUpdate, LinkDelete, LinkFail, LinkBegin, AddLink,
                ConfigureLink, ReadLink, SaveLink, DeleteLink, RemoveLink, LinkDrift, linkVars
  <2> QED BY <1>2, <2>1, LinkKept, LinkTypesKept
<1> HIDE DEF Named
<1> QED BY <1>1, <1>2, PTL DEF LinkSpec

(* For any finite set of interfaces and every kind: the variables of a       *)
(* bridge, a VLAN or a namespace keep their types.                          *)
THEOREM LinkTypes == LinkSpec => []LinkTypeOK
  BY LinkAlways, PTL DEF LinkTypeInv
=============================================================================
