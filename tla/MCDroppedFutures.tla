--------------------------- MODULE MCDroppedFutures ---------------------------
(* Instances of DroppedFutures for TLC.                                    *)
EXTENDS DroppedFutures, TLC

(* Nothing compares pids or request slots.                                 *)
Symmetry == Permutations(Pids) \cup Permutations(Reqs)
===============================================================================
