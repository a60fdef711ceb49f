--------------------------- MODULE ServiceOwnership ---------------------------
(***************************************************************************)
(* What the process manager and its journal promise between them, with     *)
(* requests, supervisors, recovery and crashes abstracted away.            *)
(*                                                                         *)
(* A process group runs a service only after the journal names it, the     *)
(* journal names one group per service, and the record of a group goes     *)
(* away only when nothing of the group is left running.                    *)
(***************************************************************************)
EXTENDS FiniteSets

CONSTANTS Services, Pids, NoPid

VARIABLES
  noted,    \* noted[s]: the group the journal names for service s, or NoPid
  live,     \* the groups that have a process running service code
  spent     \* the groups whose chance to run is used up

vars == <<noted, live, spent>>

TypeOK ==
  /\ noted \in [Services -> Pids \cup {NoPid}]
  /\ live \subseteq Pids
  /\ spent \subseteq Pids

Init ==
  /\ noted = [s \in Services |-> NoPid]
  /\ live = {}
  /\ spent = {}

(* The journal names a group that has not run yet, for a service none of   *)
(* whose groups runs.                                                      *)
Note(s, p) ==
  /\ noted[s] \notin live
  /\ p \notin spent
  /\ noted' = [noted EXCEPT ![s] = p]
  /\ UNCHANGED <<live, spent>>

(* Only a group the journal already names may begin to run.                *)
Begin(p) ==
  /\ p \notin spent
  /\ \E s \in Services : noted[s] = p
  /\ live' = live \cup {p}
  /\ spent' = spent \cup {p}
  /\ UNCHANGED noted

(* A group leaves without ever having run.                                 *)
Spoil(p) ==
  /\ p \notin spent
  /\ spent' = spent \cup {p}
  /\ UNCHANGED <<noted, live>>

(* The last process of a group is gone.                                    *)
End(p) ==
  /\ p \in live
  /\ live' = live \ {p}
  /\ UNCHANGED <<noted, spent>>

(* A record is dropped only for a group that no longer runs.               *)
Forget(s) ==
  /\ noted[s] # NoPid
  /\ noted[s] \notin live
  /\ noted' = [noted EXCEPT ![s] = NoPid]
  /\ UNCHANGED <<live, spent>>

Next ==
  \/ \E s \in Services, p \in Pids : Note(s, p)
  \/ \E p \in Pids : Begin(p) \/ Spoil(p)
  \/ \E p \in Pids : End(p)
  \/ \E s \in Services : Forget(s)

Spec == Init /\ [][Next]_vars
===============================================================================
