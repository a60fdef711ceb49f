---------------------------- MODULE DroppedFutures ----------------------------
(***************************************************************************)
(* The process manager when the futures of its requests may be dropped in  *)
(* mid-flight, as a server does when its client disconnects.               *)
(*                                                                         *)
(* Dropping a launch does not stop its blocking spawn: that forks later,   *)
(* with the handshake closed and the gate in other hands, into a child     *)
(* that knows the four pipe ends by descriptor numbers only.  On closed    *)
(* numbers the child fails.  The kernel gives the lowest free numbers      *)
(* first, so the next launch may have been given the same four: then the   *)
(* child announces itself to that launch and waits for its release byte.   *)
(* Other files may have taken them too, and be read like a release byte.   *)
(* Numbers that name other ends of a later launch's pipes than they did of *)
(* their own are left out.                                                 *)
(***************************************************************************)
EXTENDS ProcessManager

CONSTANT FdReuse  \* whether closed descriptor numbers are used again in time

ASSUME FdReuseAssumption == FdReuse \in BOOLEAN

VARIABLES
  detached,   \* blocking spawns still to fork a child no launch is waiting for
  astray,     \* astray[p]: the launch (generation) whose pipes child p has
              \* found under its own launch's numbers, 0 if none
  misled      \* launches that took such a child's announcement for their own's

lateVars == <<detached, astray, misled>>
cancelVars == <<vars, lateVars>>

SpawnOf(r) == [svc |-> svc[r], gen |-> rgen[r]]

LateTypeOK ==
  /\ detached \subseteq [svc : Services, gen : Nat]
  /\ astray \in [Pids -> Nat]
  /\ misled \subseteq Reqs

LateInit == detached = {} /\ astray = [p \in Pids |-> 0] /\ misled = {}

(* The future of a request is dropped before it is done: its guards are    *)
(* released and its pipes closed, its blocking spawn and its queued        *)
(* command stay.  Writing the record and releasing the child is one poll,  *)
(* never cut in two.                                                       *)
Cancel(r) ==
  /\ pc[r] \notin {"idle", "release"} /\ op[r] \in {"start", "stop", "restart"}
  /\ Goto(r, "idle")
  /\ op' = [op EXCEPT ![r] = "start"]
  /\ answer' = [answer EXCEPT ![r] = "none"]
  /\ rgen' = [rgen EXCEPT ![r] = 0]
  /\ rpid' = [rpid EXCEPT ![r] = NoPid]
  /\ Unlock(r)
  /\ gate' = IF gate = r THEN NoReq ELSE gate
  /\ recon' = IF recon.by = r THEN NoRecon ELSE recon
  /\ mailbox' = [p \in Pids |-> IF mailbox[p] = r THEN Lost ELSE mailbox[p]]
  /\ replyTo' = [p \in Pids |-> IF replyTo[p] = r THEN Lost ELSE replyTo[p]]
  /\ detached' = IF pc[r] = "fork" THEN detached \cup {SpawnOf(r)} ELSE detached
  /\ misled' = misled \ {r}
  /\ UNCHANGED <<platform, reconciled, nextGen, entry, svc, todo, spc,
                 stopRequested, astray>>

(* The runtime's orphan queue reaps a child whose handle was dropped.      *)
OrphanReaped(p) ==
  /\ leader[p] = "zombie" /\ spc[p] = "none"
  /\ \A r \in Reqs : rpid[r] = p => pc[r] \notin LaunchPCs
  /\ leader' = [leader EXCEPT ![p] = "dead"]
  /\ UNCHANGED <<reqVars, manager, identity, supVars, rest, journal, lateVars>>

-------------------------------------------------------------------------------
(* A blocking spawn that outlived its launch.                              *)

LateSpawnFails(d) ==
  /\ detached' = detached \ {d}
  /\ UNCHANGED <<vars, astray, misled>>

(* It forks: onto numbers that are closed, where the child will fail, or   *)
(* that a later launch holds, or that make it run at once.  A misled       *)
(* launch still waits for its own spawn with the announce ends open.       *)
LateFork(d, p) ==
  /\ leader[p] = "unborn"
  /\ \/ leader' = [leader EXCEPT ![p] = "parked"] /\ UNCHANGED astray
     \/ /\ FdReuse
        /\ leader' = [leader EXCEPT ![p] = "parked"]
        /\ \E r \in Reqs :
             /\ pc[r] \in {"fork", "journal", "release"}
             /\ astray' = [astray EXCEPT ![p] = rgen[r]]
     \/ /\ FdReuse /\ \A r \in misled : d # SpawnOf(r)
        /\ leader' = [leader EXCEPT ![p] = "released"] /\ UNCHANGED astray
  /\ owns' = [owns EXCEPT ![p] = d.svc]
  /\ genOf' = [genOf EXCEPT ![p] = d.gen]
  /\ detached' = detached \ {d}
  /\ UNCHANGED <<manager, reqVars, supVars, rest, journal, inherited, up,
                 crashes, misled>>

(* A launch waiting for its announcement reads the stray child's: from now *)
(* on that is its child for all it knows, and its own, with whatever that  *)
(* announces, one more that nobody waits for.                              *)
TakesAnnouncement(r, p) ==
  /\ pc[r] = "fork" /\ leader[p] = "parked"
  /\ astray[p] = rgen[r] /\ astray[p] # 0
  /\ owns' = [owns EXCEPT ![p] = svc[r]]
  /\ genOf' = [genOf EXCEPT ![p] = rgen[r]]
  /\ rpid' = [rpid EXCEPT ![r] = p]
  /\ Goto(r, "journal")
  /\ astray' = [astray EXCEPT ![p] = 0]
  /\ misled' = misled \cup {r}
  /\ detached' = detached \cup {SpawnOf(r)}
  /\ UNCHANGED <<manager, callVars, supVars, osVars, journal, inherited, up,
                 crashes, rgen>>

(* The release byte goes to the stray child instead of the announced one.  *)
StrayTakesRelease(r, p) ==
  /\ pc[r] = "release" /\ leader[p] = "parked"
  /\ astray[p] = rgen[r] /\ astray[p] # 0
  /\ leader' = [leader EXCEPT ![p] = "released"]
  /\ Goto(r, "spawn")
  /\ UNCHANGED <<manager, identity, callVars, supVars, targetVars, rest,
                 journal, lateVars>>

(* The children a misled launch's own spawn has forked.                    *)
OwnChildren(r) ==
  {p \in Pids \ inherited : owns[p] = svc[r] /\ genOf[p] = rgen[r] /\ p # rpid[r]}

(* A misled launch has its spawn's answer, which is not the process that   *)
(* was announced, or none: what was spawned is killed and reaped and the   *)
(* record dropped; an error of the removal is ignored.                     *)
MisledEnds(r) ==
  /\ r \in misled /\ pc[r] \in {"spawn", "abandon"}
  /\ SpawnOf(r) \notin detached
  /\ \A p \in OwnChildren(r) : leader[p] \in {"zombie", "dead", "stranger"}
  /\ leader' = [p \in Pids |-> IF p \in OwnChildren(r) /\ leader[p] = "zombie"
                               THEN "dead" ELSE leader[p]]
  /\ RemoveMatching(svc[r], rgen[r]) \/ UNCHANGED journal
  /\ gate' = NoReq
  /\ Return(r, "err")
  /\ misled' = misled \ {r}
  /\ UNCHANGED <<identity, supVars, rest, reconciled, nextGen, entry, recon,
                 detached, astray>>

LateStep ==
  \/ \E d \in detached : LateSpawnFails(d) \/ \E p \in Pids : LateFork(d, p)
  \/ \E r \in Reqs, p \in Pids : TakesAnnouncement(r, p) \/ StrayTakesRelease(r, p)
  \/ \E r \in Reqs : MisledEnds(r)

-------------------------------------------------------------------------------
(* The next-state relation and the specification.                          *)

(* A misled launch goes on as any other until it waits for its own spawn.  *)
MisledWait ==
  \A r \in misled : up' /\ pc[r] \in {"spawn", "abandon"} => pc'[r] = pc[r]

(* A spawn that has not forked yet is gone with its owner.                 *)
DieWithOwner ==
  IF up => up' THEN UNCHANGED lateVars
  ELSE detached' = {} /\ astray' = [p \in Pids |-> 0] /\ misled' = {}

CancelNext ==
  \/ Next /\ MisledWait /\ DieWithOwner
  \/ \E r \in Reqs : Cancel(r)
  \/ \E p \in Pids : OrphanReaped(p)
  \/ LateStep

CancelSpec == Init /\ LateInit /\ [][CancelNext]_cancelVars

-------------------------------------------------------------------------------
(* The launch handshake's own claim, "a crash cannot leave a live          *)
(* unjournaled process group behind" (process_manager.rs:1579-1580).       *)
CrashLeavesNothingUnjournaled ==
  ~up => \A p \in Pids : Live(p) => journal[owns[p]].pid = p

===============================================================================
