---------------------------- MODULE MCDaemonRuntime ----------------------------
(* Instances of DaemonRuntime for TLC.                                     *)
EXTENDS DaemonRuntime, TLC

(* The clients are alike, and nothing compares pids.                       *)
DaemonSymmetry == Permutations(Pids) \cup Permutations(Clients)

Busy(r) == Admitted(r) \/ ask[r] # NoAsk

(* Bound of daemon_drain: only the first owner launches twice, and then    *)
(* for one client at a time.                                               *)
RelaunchesAlone ==
  nextGen > 2 =>
    /\ crashes = 0
    /\ \A r, q \in Clients : Busy(r) /\ Busy(q) => r = q
===============================================================================
