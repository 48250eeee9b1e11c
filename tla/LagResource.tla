---------------------------- MODULE LagResource ----------------------------
(***************************************************************************)
(* A link aggregation group (a kernel bond) and its resource.  A LAG is    *)
(* changed in place, one ip command after the other, and the saved state   *)
(* changes only when all of them were done; Terraform refreshes a resource *)
(* before it plans its update and works on other LAGs at the same time.    *)
(* MTU, MAC address and link state are commands that can fail and carry no *)
(* value; the one address stands for the IPv4 and the IPv6 address.        *)
(***************************************************************************)
EXTENDS Naturals, FiniteSets, Sequences, SequencesExt

CONSTANTS
    Ports,          \* the interfaces the configuration may name
    ForeignPort,    \* an interface another resource attaches to the bond
    LagConfigs,     \* what the configuration may say
    ThisLag,        \* the master of its members
    OtherLag,       \* another LAG of the same host
    LagNone         \* no master, no address, no state

VARIABLES
    bond,       \* whether its interface exists, and its addresses
    port,       \* per interface: its master and whether it is up
    lagConfig,  \* the configuration
    lagSaved,   \* Terraform's state, or LagNone
    lagOp,      \* the operation, its commands to do, its plan
    otherLag    \* the other LAG: the interfaces its update is about to release,
                \* those it took off this bond since they were last attached

lagVars == <<bond, port, lagConfig, lagSaved, lagOp, otherLag>>

LagAddresses == {c.addr : c \in LagConfigs} \ {LagNone}
AllPorts     == Ports \cup {ForeignPort}
LagModels    == [members : SUBSET AllPorts, addr : LagAddresses \cup {LagNone}]

ASSUME LagAssumption ==
    /\ IsFiniteSet(Ports) /\ ForeignPort \notin Ports
    /\ ThisLag # OtherLag /\ LagNone \notin {ThisLag, OtherLag} \cup LagModels
    /\ \A c \in LagConfigs : c \in LagModels /\ c.members \subseteq Ports

Cmd(c, arg)  == [cmd |-> c, arg |-> arg]

LagInit ==
    /\ bond = [exists |-> FALSE, addrs |-> {}]
    /\ port = [i \in AllPorts |-> [master |-> LagNone, up |-> TRUE]]
    /\ lagConfig \in LagConfigs
    /\ lagSaved = LagNone
    /\ lagOp = [name |-> "none", todo |-> <<>>, plan |-> LagNone]
    /\ otherLag = [releases |-> {}, took |-> {}]

LagIdle == lagOp.todo = <<>>
LagDo(c) == ~LagIdle /\ Head(lagOp.todo).cmd = c
LagArg   == Head(lagOp.todo).arg
LagGoOn  == lagOp' = [lagOp EXCEPT !.todo = Tail(@)]

LagEnd(name) ==
    lagOp' = [name |-> name, todo |-> <<>>, plan |-> LagNone]

LagBegin(name, todo, plan) ==
    /\ LagIdle
    /\ lagOp' = [name |-> name, todo |-> todo, plan |-> plan]
    /\ UNCHANGED <<bond, port, lagConfig, lagSaved, otherLag>>

-----------------------------------------------------------------------------
ReadBack == <<Cmd("show", LagNone), Cmd("addrs", LagNone), Cmd("members", LagNone)>>

(* A member has to be down when it is enslaved; it is brought up after.    *)
EnslaveMember(i) == <<Cmd("down", i), Cmd("enslave", i), Cmd("up", i)>>

EnslaveAll(ports) == FlattenSeq([n \in 1..Len(SetToSeq(ports)) |-> EnslaveMember(SetToSeq(ports)[n])])
ReleaseAll(ports) == [n \in 1..Len(SetToSeq(ports)) |-> Cmd("release", SetToSeq(ports)[n])]

AddAddress(a) == IF a = LagNone THEN <<>> ELSE <<Cmd("addr_add", a)>>
DelAddress(a) == IF a = LagNone THEN <<>> ELSE <<Cmd("addr_del", a)>>

(* An address cannot be replaced: the old one is deleted, the new added.   *)
(* Mutant: the old address is left on the bond.                          *)
ReconcileAddr_add_only(old, new) == IF old = new THEN <<>> ELSE AddAddress(new)

ReconcileAddr(old, new) == IF old = new THEN <<>> ELSE DelAddress(old) \o AddAddress(new)

LagCreate ==
    /\ lagSaved = LagNone
    /\ LagBegin("create",
         <<Cmd("add", LagNone), Cmd("set", LagNone)>> \o EnslaveAll(lagConfig.members)
           \o AddAddress(lagConfig.addr) \o <<Cmd("set", LagNone)>> \o ReadBack
           \o <<Cmd("save", LagNone)>>, lagConfig)

LagRead ==
    /\ lagSaved # LagNone
    /\ LagBegin("read", ReadBack \o <<Cmd("save", LagNone)>>, lagSaved)

(* The members to release are those of the state, which the refresh        *)
(* before has reconciled; those to enslave are the ones not yet in it.     *)
LagUpdate ==
    /\ lagSaved # LagNone /\ lagOp.name = "refreshed"
    /\ lagSaved # lagConfig
    /\ LET old == lagSaved  new == lagConfig IN
       LagBegin("update",
         <<Cmd("set", LagNone)>> \o ReconcileAddr(old.addr, new.addr)
           \o ReleaseAll(old.members \ new.members) \o EnslaveAll(new.members \ old.members)
           \o <<Cmd("set", LagNone)>> \o ReadBack \o <<Cmd("save", LagNone)>>, new)

LagDelete ==
    /\ lagSaved # LagNone
    /\ LagBegin("delete", <<Cmd("delete", LagNone), Cmd("remove", LagNone)>>, lagSaved)

-----------------------------------------------------------------------------
(* The commands.  Any may fail, and fails when its device is missing; the  *)
(* operation then ends and the saved state stays as it was.                *)
LagFail ==
    /\ ~LagIdle
    /\ LagEnd("failed")
    /\ UNCHANGED <<bond, port, lagConfig, lagSaved, otherLag>>

AddBond ==
    /\ LagDo("add") /\ ~bond.exists
    /\ bond' = [bond EXCEPT !.exists = TRUE]
    /\ LagGoOn
    /\ UNCHANGED <<port, lagConfig, lagSaved, otherLag>>

SetLink ==
    /\ LagDo("set") /\ bond.exists
    /\ LagGoOn
    /\ UNCHANGED <<bond, port, lagConfig, lagSaved, otherLag>>

(* The kernel takes an interface off the master it has when it is enslaved.*)
Enslave ==
    /\ \/ /\ LagDo("down")
          /\ port' = [port EXCEPT ![LagArg].up = FALSE]
          /\ UNCHANGED otherLag
       \/ /\ LagDo("enslave") /\ bond.exists /\ ~port[LagArg].up
          /\ port' = [port EXCEPT ![LagArg].master = ThisLag]
          /\ otherLag' = [otherLag EXCEPT !.took = @ \ {LagArg}]
       \/ /\ LagDo("up")
          /\ port' = [port EXCEPT ![LagArg].up = TRUE]
          /\ UNCHANGED otherLag
    /\ LagGoOn
    /\ UNCHANGED <<bond, lagConfig, lagSaved>>

(* nomaster takes the interface off whatever master it has.                *)
ReleaseMember ==
    /\ LagDo("release")
    /\ port' = [port EXCEPT ![LagArg].master = LagNone]
    /\ LagGoOn
    /\ UNCHANGED <<bond, lagConfig, lagSaved, otherLag>>

(* Deleting an address that is not there is tolerated, adding one that is  *)
(* there fails.                                                            *)
ChangeAddress ==
    /\ \/ /\ LagDo("addr_del")
          /\ bond' = [bond EXCEPT !.addrs = @ \ {LagArg}]
       \/ /\ LagDo("addr_add") /\ bond.exists /\ LagArg \notin bond.addrs
          /\ bond' = [bond EXCEPT !.addrs = @ \cup {LagArg}]
    /\ LagGoOn
    /\ UNCHANGED <<port, lagConfig, lagSaved, otherLag>>

(* readLAG.  Only Read takes a missing bond for a missing resource, at     *)
(* whichever of the three commands it is missing.                          *)
BondMissing ==
    /\ \E c \in {"show", "addrs", "members"} : LagDo(c)
    /\ ~bond.exists /\ lagOp.name = "read"
    /\ LagEnd("none")
    /\ lagSaved' = LagNone
    /\ UNCHANGED <<bond, port, lagConfig, otherLag>>

(* An address that is found replaces the one of the model; when none is    *)
(* found the model keeps the one it had.                                   *)
ShowBond ==
    /\ bond.exists
    /\ \/ LagDo("show") /\ LagGoOn
       \/ /\ LagDo("addrs")
          /\ \E a \in IF bond.addrs = {} THEN {lagOp.plan.addr} ELSE bond.addrs :
               lagOp' = [lagOp EXCEPT !.todo = Tail(@), !.plan.addr = a]
    /\ UNCHANGED <<bond, port, lagConfig, lagSaved, otherLag>>

(* Of the members the bond has, those of the model are kept: what another  *)
(* resource attached is not this one's to list.                            *)
Current == {i \in AllPorts : port[i].master = ThisLag}

(* Mutant: every member of the bond is listed.                           *)
Kept_all == Current

Kept == lagOp.plan.members \cap Current

ShowMembers ==
    /\ LagDo("members") /\ bond.exists
    /\ lagOp' = [lagOp EXCEPT !.todo = Tail(@), !.plan.members = Kept]
    /\ UNCHANGED <<bond, port, lagConfig, lagSaved, otherLag>>

(* An Update or Create whose result is not the plan is an error of         *)
(* Terraform's, which keeps the result.                                    *)
LagSave ==
    /\ LagDo("save")
    /\ lagSaved' = lagOp.plan
    /\ LagEnd(IF lagOp.name = "read" THEN "refreshed"
              ELSE IF lagOp.plan = lagConfig THEN "applied" ELSE "failed")
    /\ UNCHANGED <<bond, port, lagConfig, otherLag>>

(* The members of a bond that is deleted lose their master.                *)
Unbound == [i \in AllPorts |-> IF port[i].master = ThisLag THEN [port[i] EXCEPT !.master = LagNone] ELSE port[i]]

DeleteBond ==
    /\ LagDo("delete")
    /\ bond' = [exists |-> FALSE, addrs |-> {}]
    /\ port' = Unbound
    /\ LagGoOn
    /\ UNCHANGED <<lagConfig, lagSaved, otherLag>>

RemoveLag ==
    /\ LagDo("remove")
    /\ lagSaved' = LagNone
    /\ LagEnd("none")
    /\ UNCHANGED <<bond, port, lagConfig, otherLag>>

-----------------------------------------------------------------------------
(* The user edits the configuration, and the next apply begins with a       *)
(* refresh; another resource, a TAP whose master is the bond, attaches its *)
(* interface; somebody deletes a bond.                                     *)
Reconfigure ==
    /\ LagIdle
    /\ lagConfig' \in LagConfigs
    /\ LagEnd("none")
    /\ UNCHANGED <<bond, port, lagSaved, otherLag>>

AttachForeign ==
    /\ bond.exists /\ port[ForeignPort].master = LagNone
    /\ port' = [port EXCEPT ![ForeignPort].master = ThisLag]
    /\ UNCHANGED <<bond, lagConfig, lagSaved, lagOp, otherLag>>

LoseBond ==
    /\ bond.exists
    /\ bond' = [exists |-> FALSE, addrs |-> {}]
    /\ port' = Unbound
    /\ UNCHANGED <<lagConfig, lagSaved, lagOp, otherLag>>

(* The update of another LAG, which the same apply runs before, after or   *)
(* beside this one's.  It enslaves an interface this configuration does    *)
(* not name; it releases one that was its own when it was refreshed, with  *)
(* the same nomaster, whoever's it is by then; or fails before it does.    *)
OtherEnslaves(i) ==
    /\ i \notin lagConfig.members \cup otherLag.releases
    /\ port' = [port EXCEPT ![i] = [master |-> OtherLag, up |-> TRUE]]
    /\ UNCHANGED <<bond, lagConfig, lagSaved, lagOp, otherLag>>

OtherPlansRelease(i) ==
    /\ port[i].master = OtherLag
    /\ otherLag' = [otherLag EXCEPT !.releases = @ \cup {i}]
    /\ UNCHANGED <<bond, port, lagConfig, lagSaved, lagOp>>

OtherReleases(i) ==
    /\ i \in otherLag.releases
    /\ \/ /\ port' = [port EXCEPT ![i].master = LagNone]
          /\ otherLag' = [releases |-> otherLag.releases \ {i},
                          took |-> otherLag.took \cup ({i} \cap Current)]
       \/ /\ otherLag' = [otherLag EXCEPT !.releases = @ \ {i}]
          /\ UNCHANGED port
    /\ UNCHANGED <<bond, lagConfig, lagSaved, lagOp>>

LagNext ==
    \/ LagCreate \/ LagRead \/ LagUpdate \/ LagDelete \/ LagFail
    \/ AddBond \/ SetLink \/ Enslave \/ ReleaseMember \/ ChangeAddress
    \/ BondMissing \/ ShowBond \/ ShowMembers \/ LagSave
    \/ DeleteBond \/ RemoveLag
    \/ Reconfigure \/ AttachForeign \/ LoseBond
    \/ \E i \in Ports : OtherEnslaves(i) \/ OtherPlansRelease(i) \/ OtherReleases(i)

LagSpec == LagInit /\ [][LagNext]_lagVars

-----------------------------------------------------------------------------
(* The variables keep their types.                                         *)
LagTypeOK ==
    /\ bond \in [exists : BOOLEAN, addrs : SUBSET LagAddresses]
    /\ port \in [AllPorts -> [master : {ThisLag, OtherLag, LagNone}, up : BOOLEAN]]
    /\ lagConfig \in LagConfigs
    /\ lagSaved \in LagModels \cup {LagNone}
    /\ lagOp.name \in {"none", "create", "read", "update", "delete",
                       "failed", "refreshed", "applied"}
    /\ lagOp.plan \in LagModels \cup {LagNone}
    /\ otherLag \in [releases : SUBSET Ports, took : SUBSET Ports]

(* However often an update failed half way before: one that succeeds has   *)
(* brought the bond where the configuration says.  No other address        *)
(* lingers ("without the explicit delete both addresses would linger"),    *)
(* every member is up, and it is attached unless another LAG's release     *)
(* has taken it off since.                                                 *)
LagApplied ==
    lagOp.name = "applied" /\ bond.exists /\ lagSaved = lagConfig =>
        /\ bond.addrs \subseteq {lagSaved.addr}
        /\ \A i \in lagSaved.members :
             (port[i].master = ThisLag \/ i \in otherLag.took) /\ port[i].up

(* "Those foreign members must not land in enslaved_interfaces": no        *)
(* operation but the one that deletes the bond takes away what another     *)
(* resource attached to it.                                                *)
LagForeignStays ==
    [][port[ForeignPort].master = ThisLag /\ port'[ForeignPort].master # ThisLag
           => bond.exists /\ ~bond'.exists]_lagVars
=============================================================================
