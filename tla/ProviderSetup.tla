--------------------------- MODULE ProviderSetup ---------------------------
(***************************************************************************)
(* Provider.Configure.  Terraform starts a provider process for every      *)
(* phase of every run, and each configures itself against the same target  *)
(* and lib_path: it builds its executor, finds out where it is and what is *)
(* installed there and, for QEMU, extracts the firmware files if they are  *)
(* not there.  Nothing orders two such processes, and any may be killed.   *)
(***************************************************************************)
EXTENDS Naturals

CONSTANTS
    Providers,      \* provider processes
    SetupConfigs,   \* provider configurations, see SetupConfig
    SetupTargets,   \* kinds of target
    NoFile, Whole   \* what a firmware file may be, besides being written

SetupConfig == [local : BOOLEAN, auth : BOOLEAN, jumps : BOOLEAN, agent : {"off", "on", "missing"},
                hostKey : {"insecure", "pinned", "known", "none"},
                libPath : BOOLEAN, binary : {"given", "release", "dev"}]

ASSUME SetupAssumption == /\ SetupConfigs \subseteq SetupConfig
                          /\ SetupTargets \subseteq {"linux", "darwin", "other"}
                          /\ NoFile \notin Providers /\ Whole \notin Providers /\ NoFile # Whole

VARIABLES
    target,     \* the kind of the target
    setup,      \* per process: its configuration and where it is
    firmware    \* per file: NoFile, Whole, or the last process that began to write it

setupVars == <<target, setup, firmware>>

Firmware == {"code", "vars"}

SetupInit ==
    /\ target \in SetupTargets
    /\ setup \in [Providers -> [conf : SetupConfigs, at : {"start"}]]
    /\ firmware = [f \in Firmware |-> NoFile]

SetupAt(p, from, to) == setup[p].at = from /\ setup' = [setup EXCEPT ![p].at = to]
SetupOver(p) == setup[p].at \in {"ready", "failed", "killed"}

-----------------------------------------------------------------------------
(* The executor.  Without a host key to verify nothing is trusted, and one  *)
(* pinned key cannot verify the jump hosts.                                 *)
HostKeyGiven(c) == c.hostKey # "none"
JumpKeyGiven(c) == c.hostKey \in {"insecure", "known"}
SshValid(c) == /\ c.auth
               /\ HostKeyGiven(c)
               /\ c.jumps => JumpKeyGiven(c)
               /\ c.agent # "missing"

BuildExecutor(p) ==
    LET c == setup[p].conf IN
    /\ \/ c.local /\ SetupAt(p, "start", "mkdir")
       \/ ~c.local /\ SshValid(c) /\ SetupAt(p, "start", IF c.libPath THEN "binary" ELSE "libPath")
       \/ ~c.local /\ ~SshValid(c) /\ SetupAt(p, "start", "failed")
    /\ UNCHANGED <<target, firmware>>

ResolveRemoteLibPath(p) ==
    /\ SetupAt(p, "libPath", "binary")
    /\ UNCHANGED <<target, firmware>>

(* Only a released version can be installed on the target. *)
ProvisionBinary(p) ==
    /\ SetupAt(p, "binary", IF setup[p].conf.binary = "dev" THEN "failed" ELSE "mkdir")
    /\ UNCHANGED <<target, firmware>>

MakeLibPath(p) ==
    /\ SetupAt(p, "mkdir", "platform")
    /\ UNCHANGED <<target, firmware>>

DetectTargetPlatform(p) ==
    /\ SetupAt(p, "platform", "tools")
    /\ UNCHANGED <<target, firmware>>

(* sudo, where it is used, bash and docker; without one of them: SetupFails. *)
ConfigureTools(p) ==
    /\ SetupAt(p, "tools", CASE target = "linux"  -> "code"
                             [] target = "darwin" -> "hypervisor"
                             [] OTHER             -> "failed")
    /\ UNCHANGED <<target, firmware>>

After(f) == IF f = "code" THEN "vars" ELSE "hypervisor"
Writes(f) == IF f = "code" THEN "writeCode" ELSE "writeVars"

(* Stat, and then a write that truncates, is filled and closed. *)
FirmwareThere(p, f) ==
    /\ firmware[f] # NoFile
    /\ SetupAt(p, f, After(f))
    /\ UNCHANGED <<target, firmware>>

FirmwareMissing(p, f) ==
    /\ firmware[f] = NoFile
    /\ SetupAt(p, f, IF f = "code" THEN "openCode" ELSE "openVars")
    /\ UNCHANGED <<target, firmware>>

OpenFirmware(p, f) ==
    /\ SetupAt(p, IF f = "code" THEN "openCode" ELSE "openVars", Writes(f))
    /\ firmware' = [firmware EXCEPT ![f] = p]
    /\ UNCHANGED target

(* The file is whole once the process that truncated it last is done.       *)
WriteFirmware(p, f) ==
    /\ SetupAt(p, Writes(f), After(f))
    /\ firmware' = [firmware EXCEPT ![f] = IF @ = p THEN Whole ELSE @]
    /\ UNCHANGED target

(* The lookups of what the hypervisor needs, and the hypervisor. *)
CreateHypervisor(p) ==
    /\ SetupAt(p, "hypervisor", "ready")
    /\ UNCHANGED <<target, firmware>>

(* A call on the target fails or a tool is not there. *)
SetupFails(p) ==
    /\ ~SetupOver(p) /\ setup[p].at # "start"
    /\ setup' = [setup EXCEPT ![p].at = "failed"]
    /\ UNCHANGED <<target, firmware>>

SetupKilled(p) ==
    /\ ~SetupOver(p)
    /\ setup' = [setup EXCEPT ![p].at = "killed"]
    /\ UNCHANGED <<target, firmware>>

SetupNext ==
    \E p \in Providers :
        \/ BuildExecutor(p) \/ ResolveRemoteLibPath(p) \/ ProvisionBinary(p)
        \/ MakeLibPath(p) \/ DetectTargetPlatform(p) \/ ConfigureTools(p)
        \/ \E f \in Firmware : \/ FirmwareThere(p, f) \/ FirmwareMissing(p, f)
                               \/ OpenFirmware(p, f) \/ WriteFirmware(p, f)
        \/ CreateHypervisor(p)
        \/ SetupFails(p) \/ SetupKilled(p)

SetupSpec == SetupInit /\ [][SetupNext]_setupVars

-----------------------------------------------------------------------------
(* The variables keep their types.                                         *)
SetupTypeOK ==
    /\ target \in SetupTargets
    /\ setup \in [Providers -> [conf : SetupConfigs,
                                at : {"start", "libPath", "binary", "mkdir", "platform", "tools",
                                      "code", "openCode", "writeCode", "vars", "openVars", "writeVars",
                                      "hypervisor", "ready", "failed", "killed"}]]
    /\ firmware \in [Firmware -> {NoFile, Whole} \cup Providers]
=============================================================================
