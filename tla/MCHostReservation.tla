------------------------- MODULE MCHostReservation -------------------------
(* Two cores, one GB and one device; requests that fit together, requests   *)
(* that exhaust the cores, and a device (9) that has no capacity file.      *)
EXTENDS HostReservation, TLC

MCCpus == {0, 1}
MCGbs  == {4}
MCDevs == {6}
MCRequests == { [cpus |-> 1, gbs |-> 1, devs |-> {}],
                [cpus |-> 2, gbs |-> 0, devs |-> {}],
                [cpus |-> 0, gbs |-> 0, devs |-> {6}],
                [cpus |-> 1, gbs |-> 0, devs |-> {9}] }

(* One core and one device, both asked for by everyone: for the runs
   with more processes than reservations. *)
MCSmallCpus == {0}
MCSmallGbs  == {}
MCSmallDevs == {6}
MCSmallRequests == { [cpus |-> 1, gbs |-> 0, devs |-> {6}] }

(* Two cores, of which everyone wants one. *)
MCTwoCpus == {0, 1}
MCNone == {}
MCOneCore == { [cpus |-> 1, gbs |-> 0, devs |-> {}] }

(* Ids and process places are interchangeable; safety runs only. *)
Symmetry == Permutations(Ids) \cup Permutations(Procs)
============================================================================
