--------------------------- MODULE ImageResource ---------------------------
(***************************************************************************)
(* The resources that are a file in a directory of their own: a disk       *)
(* image, a cloud-init ISO, an EVE-OS installer and the disks of an        *)
(* installed node, which a VM that runs inside Create writes.  None can be *)
(* changed; what a refresh notices of the file differs from kind to kind.  *)
(***************************************************************************)
EXTENDS Naturals, Sequences

CONSTANT ImageKinds

ASSUME ImageAssumption == ImageKinds \subseteq {"disk", "iso", "installer", "installed"}

VARIABLES
    imKind,     \* the kind of the resource
    imFile,     \* the file, and whether what made it reported success
    imSaved,    \* Terraform's state: the resource, and what it says of the file
    imOp        \* the operation and the calls it has left

imVars == <<imKind, imFile, imSaved, imOp>>

ImIdle == [name |-> "none", todo |-> <<>>]

ImageInit ==
    /\ imKind \in ImageKinds
    /\ imFile = "none"
    /\ imSaved = "absent"
    /\ imOp = ImIdle

ImDo(call) == imOp.todo # <<>> /\ Head(imOp.todo) = call
ImGoOn     == imOp' = [imOp EXCEPT !.todo = Tail(@)]

(* mkdir and the files of the configuration, the command or the VM that     *)
(* makes the file, and a look at the result where there is one.             *)
ImCreateCalls ==
    CASE imKind = "disk"      -> <<"prepare", "make", "info">>
      [] imKind = "iso"       -> <<"prepare", "make", "name">>
      [] imKind = "installer" -> <<"prepare", "make", "rename", "name">>
      [] imKind = "installed" -> <<"prepare", "install", "log">>

ImReadCalls ==
    CASE imKind = "disk"               -> <<"info">>
      [] imKind \in {"iso", "installer"} -> <<"name">>
      [] imKind = "installed"          -> <<"log">>

ImCall ==
    /\ imOp = ImIdle
    /\ \/ imSaved = "absent" /\ imOp' = [name |-> "create", todo |-> ImCreateCalls]
       \/ imSaved \in {"kept", "tainted"} /\ imOp' = [name |-> "read", todo |-> ImReadCalls]
       \/ imSaved \in {"kept", "tainted"} /\ imOp' = [name |-> "delete", todo |-> <<"remove">>]
    /\ UNCHANGED <<imKind, imFile, imSaved>>

(* Any call may fail.  Create then leaves its directory and no state; what  *)
(* was saved before stays.                                                  *)
ImFail ==
    /\ imOp.todo # <<>>
    /\ ~ImDo("name") /\ ~(ImDo("log") /\ imOp.name = "create")
    /\ imSaved' = IF imOp.name = "create" THEN "lost" ELSE imSaved
    /\ imFile' \in IF ImDo("make") \/ ImDo("install") THEN {"none", "broken"} ELSE {imFile}
    /\ imOp' = ImIdle
    /\ UNCHANGED imKind

ImPrepare ==
    /\ ImDo("prepare")
    /\ ImGoOn
    /\ UNCHANGED <<imKind, imFile, imSaved>>

(* qemu-img, genisoimage or docker. *)
ImMake ==
    /\ ImDo("make")
    /\ imFile' = IF imKind = "installer" THEN "unnamed" ELSE "whole"
    /\ ImGoOn
    /\ UNCHANGED <<imKind, imSaved>>

ImRename ==
    /\ ImDo("rename") /\ imFile = "unnamed"
    /\ imFile' = "whole"
    /\ ImGoOn
    /\ UNCHANGED <<imKind, imSaved>>

(* A hypervisor that exits without an error says nothing of the guest.      *)
ImInstall ==
    /\ ImDo("install")
    /\ imFile' \in {"whole", "broken"}
    /\ ImGoOn
    /\ UNCHANGED <<imKind, imSaved>>

ImSave(as) == imSaved' = as /\ imOp' = ImIdle /\ UNCHANGED <<imKind, imFile>>

(* qemu-img info wants the file to be there. *)
ImInfo == ImDo("info") /\ imFile = "whole" /\ ImSave("kept")

(* The name is put together from the state: the file is not looked for.     *)
ImName == ImDo("name") /\ ImSave("kept")

(* The installer's log says whether it completed.  Without a log Read gives *)
(* up; Create reports the error and saves the resource all the same.        *)
ImLog ==
    /\ ImDo("log")
    /\ \/ /\ imFile \in {"whole", "broken"}
          /\ ImSave(IF imSaved = "tainted" THEN "tainted" ELSE "kept")
       \/ imOp.name = "create" /\ ImSave("tainted")

ImRemove ==
    /\ ImDo("remove")
    /\ imFile' = "none"
    /\ imSaved' = "deleted"
    /\ imOp' = ImIdle
    /\ UNCHANGED imKind

(* Somebody removes or overwrites the file. *)
ImLoseFile ==
    /\ imFile \in {"whole", "broken"}
    /\ imFile' \in {"none", "broken"}
    /\ UNCHANGED <<imKind, imSaved, imOp>>

ImageNext ==
    \/ ImCall \/ ImFail
    \/ ImPrepare \/ ImMake \/ ImRename \/ ImInstall
    \/ ImInfo \/ ImName \/ ImLog \/ ImRemove
    \/ ImLoseFile

ImageSpec == ImageInit /\ [][ImageNext]_imVars

(* The variables keep their types.                                         *)
ImageTypeOK ==
    /\ imKind \in ImageKinds
    /\ imFile \in {"none", "unnamed", "broken", "whole"}
    /\ imSaved \in {"absent", "kept", "tainted", "lost", "deleted"}
    /\ imOp.name \in {"none", "create", "read", "delete"}
=============================================================================
