--------------------------- MODULE MCProcessManager ---------------------------
(* Instances of ProcessManager for TLC.                                    *)
EXTENDS ProcessManager, TLC

(* Nothing compares pids, so instances that differ by renaming them agree. *)
PidSymmetry == Permutations(Pids)
ReqSymmetry == Permutations(Reqs)
Symmetry == PidSymmetry \cup ReqSymmetry

(* Bound of pm_two_services: the first owner meets no stranger and is not  *)
(* asked to shut down twice at once; the second meets strangers and is not *)
(* asked to shut down.                                                     *)
OwnersTakeTurns ==
  /\ crashes = 0 => \A p \in Pids : leader[p] # "stranger"
  /\ \E r \in Reqs : op[r] # "shutdown"
  /\ crashes > 0 => \A r \in Reqs : op[r] # "shutdown"
===============================================================================
