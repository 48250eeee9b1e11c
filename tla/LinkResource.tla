---------------------------- MODULE LinkResource ----------------------------
(***************************************************************************)
(* A bridge, a VLAN sub-interface or a network namespace and its resource. *)
(* None can be changed in place: a configuration that differs in a member  *)
(* or a name replaces it, one that differs in an address is refused.  The  *)
(* attributes that a command sets and that carry no value here (MTU, MAC,  *)
(* state, the link-local address) are commands that may fail.              *)
(***************************************************************************)
EXTENDS Naturals, FiniteSets, Sequences, SequencesExt

CONSTANTS
    LinkKinds,      \* the kinds the resource may be of
    LinkMembers,    \* interfaces a bridge's enslaved_interfaces may name
    OtherMember,    \* an interface another resource attaches to the bridge
    LinkNone        \* no address, no state

ASSUME LinkAssumption == /\ LinkKinds \subseteq {"bridge", "vlan", "netns"}
                         /\ IsFiniteSet(LinkMembers) /\ OtherMember \notin LinkMembers

VARIABLES
    linkKind,   \* the kind of the resource
    linkConf,   \* the configuration: its members and whether it has an address
    hostLink,   \* the link or namespace: whether it exists, what it has
    linkSaved,  \* Terraform's state, or LinkNone
    linkOp      \* the operation, its commands to do, its model

linkVars == <<linkKind, linkConf, hostLink, linkSaved, linkOp>>

LinkModels == [members : SUBSET (LinkMembers \cup {OtherMember}), addr : BOOLEAN]
NoLink     == [exists |-> FALSE, members |-> {}, addr |-> FALSE]
LinkCmd(c, arg) == [cmd |-> c, arg |-> arg]
Plain(c)        == LinkCmd(c, LinkNone)

LinkInit ==
    /\ linkKind \in LinkKinds
    /\ linkConf \in {c \in LinkModels : /\ OtherMember \notin c.members
                                        /\ linkKind # "bridge" => c.members = {}
                                        /\ linkKind = "netns" => ~c.addr}
    /\ hostLink = NoLink
    /\ linkSaved = LinkNone
    /\ linkOp = [name |-> "none", todo |-> <<>>, plan |-> LinkNone]

LinkIdle    == linkOp.todo = <<>>
LinkDo(c)   == ~LinkIdle /\ Head(linkOp.todo).cmd = c
LinkGoOn    == linkOp' = [linkOp EXCEPT !.todo = Tail(@)]
LinkEnd(name) == linkOp' = [name |-> name, todo |-> <<>>, plan |-> LinkNone]

LinkBegin(name, todo, plan) ==
    /\ LinkIdle
    /\ linkOp' = [name |-> name, todo |-> todo, plan |-> plan]
    /\ UNCHANGED <<linkKind, linkConf, hostLink, linkSaved>>

-----------------------------------------------------------------------------
CreateBridge ==
    <<Plain("add"), Plain("set")>> \o (IF linkConf.addr THEN <<Plain("addr")>> ELSE <<>>)
      \o [n \in 1..Len(SetToSeq(linkConf.members)) |-> LinkCmd("enslave", SetToSeq(linkConf.members)[n])]
      \o <<Plain("show")>> \o (IF linkConf.addr THEN <<Plain("set")>> ELSE <<>>) \o <<Plain("save")>>

CreateVLAN ==
    <<Plain("add"), Plain("set")>> \o (IF linkConf.addr THEN <<Plain("addr")>> ELSE <<>>)
      \o <<Plain("show")>> \o (IF linkConf.addr THEN <<Plain("set")>> ELSE <<>>) \o <<Plain("save")>>

CreateNetNS == <<Plain("add"), Plain("save")>>

LinkCreate ==
    /\ linkSaved = LinkNone
    /\ \/ linkKind = "bridge" /\ LinkBegin("create", CreateBridge, linkConf)
       \/ linkKind = "vlan"   /\ LinkBegin("create", CreateVLAN, linkConf)
       \/ linkKind = "netns"  /\ LinkBegin("create", CreateNetNS, linkConf)

LinkRead ==
    /\ linkSaved # LinkNone
    /\ LinkBegin("read", <<Plain("show"), Plain("save")>>, linkSaved)

(* Planned after a refresh.  enslaved_interfaces requires a replacement,   *)
(* whose first half is a Delete; for anything else there is only Update,   *)
(* which is not supported.                                                 *)
LinkReplace ==
    /\ linkSaved # LinkNone /\ linkOp.name = "refreshed"
    /\ linkSaved.members # linkConf.members
    /\ LinkBegin("replace", <<Plain("delete"), Plain("remove")>>, linkSaved)

LinkUpdate ==
    /\ linkSaved # LinkNone /\ linkOp.name = "refreshed"
    /\ linkSaved.members = linkConf.members /\ linkSaved.addr # linkConf.addr
    /\ LinkEnd("failed")
    /\ UNCHANGED <<linkKind, linkConf, hostLink, linkSaved>>

LinkDelete ==
    /\ linkSaved # LinkNone
    /\ LinkBegin("delete", <<Plain("delete"), Plain("remove")>>, linkSaved)

-----------------------------------------------------------------------------
(* Any command may fail, and fails when its device is missing or, with     *)
(* "add", already there.  What was made stays, unknown to Terraform.       *)
LinkFail ==
    /\ ~LinkIdle
    /\ ~(LinkDo("delete") /\ ~hostLink.exists)
    /\ LinkEnd("failed")
    /\ UNCHANGED <<linkKind, linkConf, hostLink, linkSaved>>

AddLink ==
    /\ LinkDo("add") /\ ~hostLink.exists
    /\ hostLink' = [NoLink EXCEPT !.exists = TRUE]
    /\ LinkGoOn
    /\ UNCHANGED <<linkKind, linkConf, linkSaved>>

ConfigureLink ==
    /\ hostLink.exists
    /\ \/ LinkDo("set") /\ UNCHANGED hostLink
       \/ LinkDo("addr") /\ hostLink' = [hostLink EXCEPT !.addr = TRUE]
       \/ LinkDo("enslave") /\ hostLink' = [hostLink EXCEPT !.members = @ \cup {Head(linkOp.todo).arg}]
    /\ LinkGoOn
    /\ UNCHANGED <<linkKind, linkConf, linkSaved>>

(* Of a bridge's members those of the model are kept; an address that is   *)
(* not there is not noticed.                                               *)
(* Mutant: every member of the bridge is listed.                         *)
OwnMembers_all == hostLink.members

OwnMembers == linkOp.plan.members \cap hostLink.members

ReadLink ==
    /\ LinkDo("show")
    /\ \/ /\ hostLink.exists
          /\ linkOp' = [linkOp EXCEPT !.todo = Tail(@), !.plan.members = OwnMembers,
                                      !.plan.addr = @ \/ hostLink.addr]
          /\ UNCHANGED linkSaved
       \/ /\ ~hostLink.exists /\ linkOp.name = "read"
          /\ linkSaved' = LinkNone
          /\ LinkEnd("none")
    /\ UNCHANGED <<linkKind, linkConf, hostLink>>

SaveLink ==
    /\ LinkDo("save")
    /\ linkSaved' = linkOp.plan
    /\ LinkEnd(IF linkOp.name = "read" THEN "refreshed" ELSE "applied")
    /\ UNCHANGED <<linkKind, linkConf, hostLink>>

(* A device that is missing is looked for in the text of the error, which  *)
(* is ip's exit status; only VLAN.Delete looks at what ip printed as well. *)
DeleteLink ==
    /\ LinkDo("delete")
    /\ IF hostLink.exists \/ linkKind = "vlan" THEN LinkGoOn ELSE LinkEnd("missing")
    /\ hostLink' = NoLink
    /\ UNCHANGED <<linkKind, linkConf, linkSaved>>

RemoveLink ==
    /\ LinkDo("remove")
    /\ linkSaved' = LinkNone
    /\ LinkEnd("none")
    /\ UNCHANGED <<linkKind, linkConf, hostLink>>

-----------------------------------------------------------------------------
(* Others on the host: a TAP attaches itself to the bridge, a member or    *)
(* the address is taken off, the link or namespace is deleted.             *)
LinkDrift ==
    /\ hostLink.exists
    /\ \/ /\ linkKind = "bridge"
          /\ hostLink' = [hostLink EXCEPT !.members = @ \cup {OtherMember}]
       \/ \E i \in hostLink.members : hostLink' = [hostLink EXCEPT !.members = @ \ {i}]
       \/ hostLink.addr /\ hostLink' = [hostLink EXCEPT !.addr = FALSE]
       \/ hostLink' = NoLink
    /\ UNCHANGED <<linkKind, linkConf, linkSaved, linkOp>>

LinkNext ==
    \/ LinkCreate \/ LinkRead \/ LinkReplace \/ LinkUpdate \/ LinkDelete \/ LinkFail
    \/ AddLink \/ ConfigureLink \/ ReadLink \/ SaveLink \/ DeleteLink \/ RemoveLink
    \/ LinkDrift

LinkSpec == LinkInit /\ [][LinkNext]_linkVars

-----------------------------------------------------------------------------
(* The variables keep their types.                                         *)
LinkTypeOK ==
    /\ linkKind \in LinkKinds
    /\ linkConf \in LinkModels
    /\ hostLink \in [exists : BOOLEAN, members : SUBSET (LinkMembers \cup {OtherMember}), addr : BOOLEAN]
    /\ linkSaved \in LinkModels \cup {LinkNone}
    /\ linkOp.plan \in LinkModels \cup {LinkNone}
    /\ linkOp.name \in {"none", "create", "read", "replace", "delete",
                        "failed", "missing", "refreshed", "applied"}

(* What other resources attach to a bridge never makes Terraform destroy   *)
(* and create it again ("reporting them would force a spurious             *)
(* destroy/recreate"): a replacement only follows on a member that left.   *)
LinkNoSpuriousReplace ==
    linkOp.name = "replace" => linkSaved.members \subseteq linkConf.members /\ linkSaved.members # linkConf.members
=============================================================================
