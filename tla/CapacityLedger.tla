--------------------------- MODULE CapacityLedger ---------------------------
(***************************************************************************)
(* What zedamigo_host_reservation promises to the Terraform configurations *)
(* that share a host: whatever a configuration holds, it holds alone.  A   *)
(* reservation is granted in one step, out of slots nobody holds, and      *)
(* given back in one step.  HostReservation shows how little of this is a  *)
(* single step on the host.                                                *)
(***************************************************************************)
CONSTANTS Ids, Slots

VARIABLE held       (* The slots each reservation holds. *)

Init == held = [i \in Ids |-> {}]

HeldByOthers(i) == UNION {held[j] : j \in Ids \ {i}}

Grant(i, S) ==
  /\ held[i] = {}
  /\ S \cap HeldByOthers(i) = {}
  /\ held' = [held EXCEPT ![i] = S]

GiveBack(i) == held' = [held EXCEPT ![i] = {}]

Next == \E i \in Ids : GiveBack(i) \/ \E S \in SUBSET Slots : Grant(i, S)

Spec == Init /\ [][Next]_held
=============================================================================
