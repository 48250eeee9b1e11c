-------------------------- MODULE MCProcessMonitor --------------------------
(* One monitor and its child, room for children it has lost sight of, and   *)
(* a delay that reaches its cap in two doublings.                           *)
EXTENDS ProcessMonitor

MCTerm     == {"TERM"}
MCTermHup  == {"TERM", "HUP"}
=============================================================================
