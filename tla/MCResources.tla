---------------------------- MODULE MCResources ----------------------------
(***************************************************************************)
(* The parts of the provider that share nothing but the executor, in one   *)
(* run: a behaviour picks a part and is a behaviour of that part.  What    *)
(* the others could start with is pinned, so that the states of the run    *)
(* are those of the parts, one after the other.                            *)
(***************************************************************************)
EXTENDS TapResource, LagResource, LinkResource, QmpSocket, SwTPM, SshExecutor, WaitUntil, Tailer,
        NodeResource, ImageResource, ProviderSetup, ResourcePlan, InternetMonitor

CONSTANTS
    Parts, \* the parts that are looked at
    i1, i2, a1, a2

AllOfThem == {"tap", "lag", "link", "qmp", "sw", "ssh", "wait", "tail", "node", "image", "setup", "plan", "inet"}

ASSUME PartsAssumption == Parts \subseteq AllOfThem

MCTapAsked == {{}, {"mtu", "state"}, {"mtu", "master", "state", "addr"}, {"master"}}

MCLagConfigs == {[members |-> {i1}, addr |-> a1], [members |-> {i1, i2}, addr |-> a2]}

NoDisk        == [disk0 |-> "none", disk1 |-> "none", extras |-> FALSE]
Block(t, s, f) == [type |-> t, source |-> s, format |-> f, size |-> t = ""]

(* Disks for either hypervisor, then those for one and those for none.      *)
MCDisks ==
    {[blocks |-> <<>>, legacy |-> [NoDisk EXCEPT !.disk0 = "qcow2", !.extras = extras]] : extras \in BOOLEAN}
    \cup {[blocks |-> <<Block("", "raw", ""), Block("device", "other", "")>>, legacy |-> NoDisk]}
    \cup {[blocks |-> <<Block(t, "qcow2", "qcow2")>>, legacy |-> l] : t \in {"overlay", "file"},
                                                  l \in {NoDisk, [NoDisk EXCEPT !.disk1 = "raw"]}}
    \cup {[blocks |-> <<Block(t, "missing", "raw")>>, legacy |-> NoDisk] : t \in {"overlay", "file"}}
    \cup {[blocks |-> <<>>, legacy |-> [NoDisk EXCEPT !.disk1 = "qcow2"]]}

MCNodeConfigs ==
    {[vm |-> c.vm, remote |-> c.remote, gvproxy |-> c.gvproxy, serial |-> c.serial, install |-> c.install,
      blocks |-> d.blocks, legacy |-> d.legacy] :
        c \in [vm : {"qemu", "vfkit"}, remote : BOOLEAN, gvproxy : BOOLEAN, serial : BOOLEAN, install : BOOLEAN],
        d \in MCDisks}

MCInetDests == <<"bad", "host">>

MCSetupConfigs ==
    {[local |-> TRUE, auth |-> FALSE, jumps |-> FALSE, agent |-> "off", hostKey |-> "none",
      libPath |-> TRUE, binary |-> "given"],
     [local |-> FALSE, auth |-> TRUE, jumps |-> TRUE, agent |-> "on", hostKey |-> "known",
      libPath |-> FALSE, binary |-> "release"],
     [local |-> FALSE, auth |-> TRUE, jumps |-> TRUE, agent |-> "off", hostKey |-> "pinned",
      libPath |-> TRUE, binary |-> "dev"]}

VARIABLE part

Init ==
    /\ part \in Parts
    /\ TapInit
    /\ part # "tap" => asked = {} /\ ~inNs
    /\ LagInit
    /\ part # "lag" => lagConfig = CHOOSE c \in LagConfigs : TRUE
    /\ LinkInit
    /\ part # "link" => linkKind = "netns"
    /\ QmpInit /\ SwInit /\ SshInit /\ WaitInit /\ TailInit
    /\ NodeInit
    /\ part # "node" => ndConf = [vm |-> "vfkit", remote |-> FALSE, gvproxy |-> TRUE, serial |-> TRUE,
                                   install |-> FALSE, blocks |-> <<>>,
                                   legacy |-> [NoDisk EXCEPT !.disk1 = "qcow2"]]
    /\ ImageInit
    /\ part # "image" => imKind = "disk"
    /\ SetupInit
    /\ part # "setup" => target = "linux" /\ \A p \in Providers : setup[p].conf.local
    /\ PlanInit
    /\ part # "plan" => plKind = "netns" /\ plConf["name"] = AtFirst
    /\ InetInit
    /\ part # "inet" => inEvery = 1

Next ==
    \/ /\ part = "tap" /\ TapNext
       /\ UNCHANGED <<part, lagVars, linkVars, qmpVars, swVars, sshVars, waitVars,
                      tailVars, ndVars, imVars, setupVars, planVars, inVars>>
    \/ /\ part = "lag" /\ LagNext
       /\ UNCHANGED <<part, tapVars, linkVars, qmpVars, swVars, sshVars, waitVars,
                      tailVars, ndVars, imVars, setupVars, planVars, inVars>>
    \/ /\ part = "link" /\ LinkNext
       /\ UNCHANGED <<part, tapVars, lagVars, qmpVars, swVars, sshVars, waitVars,
                      tailVars, ndVars, imVars, setupVars, planVars, inVars>>
    \/ /\ part = "qmp" /\ QmpNext
       /\ UNCHANGED <<part, tapVars, lagVars, linkVars, swVars, sshVars, waitVars,
                      tailVars, ndVars, imVars, setupVars, planVars, inVars>>
    \/ /\ part = "sw" /\ SwNext
       /\ UNCHANGED <<part, tapVars, lagVars, linkVars, qmpVars, sshVars, waitVars,
                      tailVars, ndVars, imVars, setupVars, planVars, inVars>>
    \/ /\ part = "ssh" /\ SshNext
       /\ UNCHANGED <<part, tapVars, lagVars, linkVars, qmpVars, swVars, waitVars,
                      tailVars, ndVars, imVars, setupVars, planVars, inVars>>
    \/ /\ part = "wait" /\ WaitNext
       /\ UNCHANGED <<part, tapVars, lagVars, linkVars, qmpVars, swVars, sshVars,
                      tailVars, ndVars, imVars, setupVars, planVars, inVars>>
    \/ /\ part = "tail" /\ TailNext
       /\ UNCHANGED <<part, tapVars, lagVars, linkVars, qmpVars, swVars, sshVars,
                      waitVars, ndVars, imVars, setupVars, planVars, inVars>>
    \/ /\ part = "node" /\ NodeNext
       /\ UNCHANGED <<part, tapVars, lagVars, linkVars, qmpVars, swVars, sshVars,
                      waitVars, tailVars, imVars, setupVars, planVars, inVars>>
    \/ /\ part = "image" /\ ImageNext
       /\ UNCHANGED <<part, tapVars, lagVars, linkVars, qmpVars, swVars, sshVars,
                      waitVars, tailVars, ndVars, setupVars, planVars, inVars>>
    \/ /\ part = "setup" /\ SetupNext
       /\ UNCHANGED <<part, tapVars, lagVars, linkVars, qmpVars, swVars, sshVars,
                      waitVars, tailVars, ndVars, imVars, planVars, inVars>>
    \/ /\ part = "plan" /\ PlanNext
       /\ UNCHANGED <<part, tapVars, lagVars, linkVars, qmpVars, swVars, sshVars, waitVars,
                      tailVars, ndVars, imVars, setupVars, inVars>>
    \/ /\ part = "inet" /\ InetNext
       /\ UNCHANGED <<part, tapVars, lagVars, linkVars, qmpVars, swVars, sshVars, waitVars,
                      tailVars, ndVars, imVars, setupVars, planVars>>

vars == <<part, tapVars, lagVars, linkVars, qmpVars, swVars, sshVars, waitVars, tailVars, ndVars,
          imVars, setupVars, planVars, inVars>>

(* The fairness of the parts; a part that is not picked has nothing to do.  *)
Fairness == TapFairness /\ QmpFairness /\ NodeFairness

Spec == Init /\ [][Next]_vars /\ Fairness

(* Bounds: nothing more is promised, and so looked at, of a swtpm once a    *)
(* failed look for it was acted on; a configuration is edited twice where   *)
(* what an Update reaches depends on the one before it.                     *)
NotMisled == ~swMisled
FewEdits  == plEdits < 2 \/ plKind \in {"dhcp_server", "dhcp6_server", "local_datastore"}

-----------------------------------------------------------------------------
(* The variables of every part keep their types.                           *)
TypeOK ==
    /\ TapTypeOK /\ LagTypeOK /\ LinkTypeOK
    /\ QmpTypeOK /\ SwTypeOK /\ SshTypeOK /\ WaitTypeOK /\ TailTypeOK
    /\ NodeTypeOK /\ ImageTypeOK /\ SetupTypeOK /\ PlanTypeOK /\ InetTypeOK
=============================================================================
