---------------------------- MODULE ProcessManager ----------------------------
(***************************************************************************)
(* The process manager of nomoreide-core: requests that start, stop and    *)
(* restart services, one supervisor task per launched child, the ownership *)
(* journal, the recovery a new owner runs from it, and crashes of the      *)
(* owner.  A request is a future: it is advanced one await point at a time *)
(* and interleaves with every other request, with the supervisors and with *)
(* the operating system.                                                   *)
(*                                                                         *)
(* A process group is identified by its leader's pid.  Time is abstracted: *)
(* a grace period may end at any moment.  A write of the journal replaces  *)
(* the file by a rename, so it happens as a whole or fails and changes     *)
(* nothing.                                                                *)
(***************************************************************************)
EXTENDS Naturals, FiniteSets

CONSTANTS
  Services,     \* names of local services
  Reqs,         \* request slots: the futures that may be in flight at once
  Pids,         \* bound: the pids fork may return, each to one launch
  NoPid, NoReq, \* "none"
  Lost,         \* stands for a caller that is no longer there to be answered
  Offered,      \* the operations clients call in this instance
  MaxGen,       \* bound: the generations one owner hands out
  MaxCrashes,   \* bound: how often the owner may die
  PidReuse      \* whether the kernel may give a finished group's pid away

Ops == {"start", "stop", "restart", "shutdown", "reconcile"}

ASSUME OfferedAssumption == Offered \subseteq Ops
ASSUME NoneAssumption ==
  /\ Services # {}
  /\ NoPid \notin Pids
  /\ NoReq \notin Reqs /\ Lost \notin Reqs /\ Lost # NoReq
ASSUME BoundAssumption == MaxGen \in Nat /\ MaxCrashes \in Nat /\ PidReuse \in BOOLEAN

VARIABLES
  \* the operating system
  leader,       \* leader[p]: the process whose pid is p
  rest,         \* rest[p]: group p has members besides its leader
  \* the ownership journal, on disk
  journal,      \* journal[s]: the RuntimeRecord filed under s
  \* which launch a pid belongs to (SupervisorContext)
  owns, genOf,  \* the service and the generation pid p was forked for
  inherited,    \* pids forked by an owner that has since died
  \* the owner process
  up, crashes, reconciled, nextGen,
  entry,        \* entry[s]: the ManagedProcess filed under s
  lock,         \* lock[s]: holder of the per-service operation lock
  gate,         \* holder of the launch gate
  recon,        \* who is inside ensure_reconciled, and how far
  \* requests
  pc, op, svc, rgen, rpid, todo, answer,
  \* supervisors
  spc, stopRequested, mailbox, replyTo

(* What an action that moves one actor leaves alone, by part.              *)
osVars == <<leader, rest>>
identity == <<owns, genOf, inherited, up, crashes>>
platform == <<osVars, journal, identity>>
tables == <<entry, lock>>
owner == <<reconciled, nextGen, gate, recon>>
manager == <<tables, owner>>
callVars == <<op, svc, todo, answer>>
targetVars == <<rgen, rpid>>
reqVars == <<pc, callVars, targetVars>>
commandVars == <<stopRequested, mailbox, replyTo>>
supVars == <<spc, commandVars>>
vars == <<platform, manager, reqVars, supVars>>

LeaderStates ==
  {"unborn", "parked", "released", "running", "zombie", "dead", "stranger"}
EntryStates == {"absent", "running", "stopping", "stopped", "exited"}
LaunchPCs == {"gate", "fork", "journal", "release", "spawn", "abandon"}
PCs == {"idle", "enter", "reconcile", "recovering", "check", "stop", "sweep",
        "send", "await", "stopOk", "stopErr", "dropped", "names"} \cup LaunchPCs
SupPCs == {"none", "watch", "reaped", "swept", "term", "kill", "unjournal",
           "settleOk", "settleErr", "hold", "gone"}
ReconPhases == {"idle", "inspect", "term", "kill", "remove"}

NoEntry  == [state |-> "absent", gen |-> 0, pid |-> NoPid,
             confirmed |-> TRUE, controlled |-> FALSE]
NoRecord == [gen |-> 0, pid |-> NoPid]
NoRecon  == [by |-> NoReq, phase |-> "idle", pending |-> {}, at |-> NoPid]

Entry  == [state : EntryStates, gen : Nat, pid : Pids \cup {NoPid},
           confirmed : BOOLEAN, controlled : BOOLEAN]
Record == [gen : Nat, pid : Pids \cup {NoPid}]
Recon  == [by : Reqs \cup {NoReq}, phase : ReconPhases,
           pending : SUBSET Services, at : Pids \cup {NoPid}]

TypeOK ==
  /\ leader \in [Pids -> LeaderStates]
  /\ rest \in [Pids -> BOOLEAN]
  /\ journal \in [Services -> Record]
  /\ owns \in [Pids -> Services \cup {NoPid}]
  /\ genOf \in [Pids -> Nat]
  /\ inherited \subseteq Pids
  /\ up \in BOOLEAN /\ crashes \in 0..MaxCrashes /\ reconciled \in BOOLEAN
  /\ nextGen \in Nat \ {0}
  /\ entry \in [Services -> Entry]
  /\ lock \in [Services -> Reqs \cup {NoReq}]
  /\ gate \in Reqs \cup {NoReq}
  /\ recon \in Recon
  /\ pc \in [Reqs -> PCs]
  /\ op \in [Reqs -> Ops]
  /\ svc \in [Reqs -> Services]
  /\ rgen \in [Reqs -> Nat]
  /\ rpid \in [Reqs -> Pids \cup {NoPid}]
  /\ todo \in [Reqs -> SUBSET Services]
  /\ answer \in [Reqs -> {"none", "ok", "err"}]
  /\ spc \in [Pids -> SupPCs]
  /\ stopRequested \in [Pids -> BOOLEAN]
  /\ mailbox \in [Pids -> Reqs \cup {NoReq, Lost}]
  /\ replyTo \in [Pids -> Reqs \cup {NoReq, Lost}]

Init ==
  /\ leader = [p \in Pids |-> "unborn"]
  /\ rest = [p \in Pids |-> FALSE]
  /\ journal = [s \in Services |-> NoRecord]
  /\ owns = [p \in Pids |-> NoPid]
  /\ genOf = [p \in Pids |-> 0]
  /\ inherited = {}
  /\ up = TRUE /\ crashes = 0 /\ reconciled = FALSE
  /\ nextGen = 1
  /\ entry = [s \in Services |-> NoEntry]
  /\ lock = [s \in Services |-> NoReq]
  /\ gate = NoReq
  /\ recon = NoRecon
  /\ pc = [r \in Reqs |-> "idle"]
  /\ op = [r \in Reqs |-> "start"]
  /\ svc = [r \in Reqs |-> CHOOSE s \in Services : TRUE]
  /\ rgen = [r \in Reqs |-> 0]
  /\ rpid = [r \in Reqs |-> NoPid]
  /\ todo = [r \in Reqs |-> {}]
  /\ answer = [r \in Reqs |-> "none"]
  /\ spc = [p \in Pids |-> "none"]
  /\ stopRequested = [p \in Pids |-> FALSE]
  /\ mailbox = [p \in Pids |-> NoReq]
  /\ replyTo = [p \in Pids |-> NoReq]

-------------------------------------------------------------------------------
(* Process groups, as the owner can observe them.                          *)

(* process_group_exists: kill(-pgid, 0) finds any member, a zombie or a    *)
(* stranger that was given the pid included.                               *)
GroupExists(p) ==
  \/ leader[p] \in {"parked", "released", "running", "zombie", "stranger"}
  \/ rest[p]

(* Something of the group runs the service, or can no longer be kept from  *)
(* running it.                                                             *)
Live(p) == leader[p] \in {"released", "running"} \/ rest[p]

(* inspect_process_identity finds the process the record describes: pid    *)
(* and start token both match.                                             *)
IsRecorded(p) == leader[p] \in {"parked", "released", "running"}

(* The launch that holds the release pipe's write end open for a child.    *)
Held(p) == \E r \in Reqs : rpid[r] = p /\ pc[r] \in {"journal", "release"}

(* A child that ends stays a zombie while its parent lives.                *)
Ended(p) == IF p \in inherited THEN "dead" ELSE "zombie"

-------------------------------------------------------------------------------
(* The journal.                                                            *)

(* RuntimeRegistry::remove_matching succeeding.                            *)
RemoveMatching(s, g) ==
  journal' = IF journal[s].gen = g
             THEN [journal EXCEPT ![s] = NoRecord] ELSE journal

-------------------------------------------------------------------------------
(* Requests: entering, leaving and the operation lock.                     *)

Goto(r, label) == pc' = [pc EXCEPT ![r] = label]

(* Dropping the guard of whatever operation lock r holds.                  *)
Unlock(r) == lock' = [s \in Services |-> IF lock[s] = r THEN NoReq ELSE lock[s]]

(* `answer` remembers that the last call succeeded.                        *)
Return(r, result) ==
  /\ Goto(r, "idle")
  /\ answer' = [answer EXCEPT ![r] = IF result = "ok" THEN "ok" ELSE "none"]
  /\ op' = [op EXCEPT ![r] = "start"]
  /\ rgen' = [rgen EXCEPT ![r] = 0]
  /\ rpid' = [rpid EXCEPT ![r] = NoPid]
  /\ todo' = [todo EXCEPT ![r] = {}]
  /\ Unlock(r)
  /\ UNCHANGED svc

(* A client's request.  shutdown_all walks a snapshot of the known names;  *)
(* reconcile_runtime is what the daemon runs before it serves anyone.      *)
Call(r, o, s) ==
  /\ up /\ pc[r] = "idle"
  /\ op' = [op EXCEPT ![r] = o]
  /\ svc' = [svc EXCEPT ![r] = s]
  /\ answer' = [answer EXCEPT ![r] = "none"]
  /\ \/ o \in {"start", "stop", "restart"} /\ Goto(r, "enter") /\ UNCHANGED todo
     \/ o = "reconcile" /\ Goto(r, "reconcile") /\ UNCHANGED todo
     \/ /\ o = "shutdown" /\ Goto(r, "names")
        /\ todo' = [todo EXCEPT ![r] = {t \in Services : entry[t].state # "absent"}]
  /\ UNCHANGED <<platform, manager, supVars, targetVars>>

Acquire(r) ==
  /\ pc[r] = "enter"
  /\ lock[svc[r]] = NoReq
  /\ lock' = [lock EXCEPT ![svc[r]] = r]
  /\ Goto(r, "reconcile")
  /\ UNCHANGED <<platform, callVars, supVars, owner, targetVars, entry>>

(* A faulty variant: a name stays on the list once its turn has come.      *)
NextNameAgain(r, s) ==
  /\ pc[r] = "names" /\ s \in todo[r]
  /\ svc' = [svc EXCEPT ![r] = s]
  /\ Goto(r, "enter")
  /\ UNCHANGED <<platform, manager, supVars, targetVars, op, answer, todo>>

(* shutdown_all: stop the next name, or report what failed.                *)
NextName(r, s) ==
  /\ pc[r] = "names" /\ s \in todo[r]
  /\ svc' = [svc EXCEPT ![r] = s]
  /\ todo' = [todo EXCEPT ![r] = @ \ {s}]
  /\ Goto(r, "enter")
  /\ UNCHANGED <<platform, manager, supVars, targetVars, op, answer>>

NoMoreNames(r) ==
  /\ pc[r] = "names" /\ todo[r] = {}
  /\ Return(r, IF answer[r] = "err" THEN "err" ELSE "ok")
  /\ UNCHANGED <<platform, supVars, owner, entry>>

(* stop_service_locked has an answer for r.  A restart goes on to its      *)
(* start under the same lock; shutdown_all keeps the error and goes on.    *)
StopReturns(r, result) ==
  \/ op[r] = "stop" /\ Return(r, result)
  \/ op[r] = "restart" /\ result = "err" /\ Return(r, "err")
  \/ /\ op[r] = "restart" /\ result = "ok"
     /\ Goto(r, "check")
     /\ rgen' = [rgen EXCEPT ![r] = 0]
     /\ rpid' = [rpid EXCEPT ![r] = NoPid]
     /\ UNCHANGED <<callVars, lock>>
  \/ /\ op[r] = "shutdown"
     /\ Goto(r, "names")
     /\ rgen' = [rgen EXCEPT ![r] = 0]
     /\ rpid' = [rpid EXCEPT ![r] = NoPid]
     /\ answer' = [answer EXCEPT ![r] = IF result = "err" THEN "err" ELSE @]
     /\ Unlock(r)
     /\ UNCHANGED <<op, svc, todo>>

(* What an error before the stop or the start began does to the request.   *)
Fail(r) ==
  \/ op[r] \in {"start", "reconcile"} /\ Return(r, "err")
  \/ op[r] \in {"stop", "restart", "shutdown"} /\ StopReturns(r, "err")

-------------------------------------------------------------------------------
(* ensure_reconciled: what a new owner does with the records it inherits.  *)

(* A mutex guards the flag: one caller reconciles, the others wait for it. *)
AlreadyReconciled(r) ==
  /\ pc[r] = "reconcile" /\ recon.by = NoReq /\ reconciled
  /\ \/ op[r] = "reconcile" /\ Return(r, "ok")
     \/ /\ op[r] = "start" /\ Goto(r, "check")
        /\ UNCHANGED <<callVars, targetVars, lock>>
     \/ /\ op[r] \in {"stop", "restart", "shutdown"} /\ Goto(r, "stop")
        /\ UNCHANGED <<callVars, targetVars, lock>>
  /\ UNCHANGED <<platform, supVars, owner, entry>>

BeginRecovery(r) ==
  /\ pc[r] = "reconcile" /\ recon.by = NoReq /\ ~reconciled
  /\ recon' = [by |-> r, phase |-> "inspect", at |-> NoPid,
               pending |-> {s \in Services : journal[s] # NoRecord}]
  /\ Goto(r, "recovering")
  /\ UNCHANGED <<platform, callVars, supVars, targetVars, tables, reconciled,
                 nextGen, gate>>

Recovering(phase) == recon.phase = phase /\ pc[recon.by] = "recovering"

(* The verdict on one record: nothing left of the group, or the recorded   *)
(* process itself, which is asked to leave (SIGTERM).                      *)
InspectRecord(s) ==
  LET p == journal[s].pid IN
  /\ Recovering("inspect") /\ s \in recon.pending
  /\ \/ leader[p] = "dead" /\ ~rest[p] /\ recon' = [recon EXCEPT !.phase = "remove", !.at = p]
     \/ IsRecorded(p) /\ recon' = [recon EXCEPT !.phase = "term", !.at = p]
  /\ UNCHANGED <<platform, reqVars, supVars, tables, reconciled, nextGen,
                 gate>>

(* The polls of the group after a signal: it is gone in time ...           *)
RecoveredGroupGone ==
  /\ Recovering("term") \/ Recovering("kill")
  /\ ~GroupExists(recon.at)
  /\ recon' = [recon EXCEPT !.phase = "remove"]
  /\ UNCHANGED <<platform, reqVars, supVars, tables, reconciled, nextGen,
                 gate>>

(* A faulty variant: the identity is not checked again before SIGKILL.     *)
RecoveryEscalatesBlindly ==
  /\ Recovering("term")
  /\ GroupExists(recon.at)
  /\ recon' = [recon EXCEPT !.phase = "kill"]
  /\ UNCHANGED <<platform, reqVars, supVars, tables, reconciled, nextGen,
                 gate>>

(* ... or it is not, and is killed if it still is the recorded process.    *)
RecoveryEscalates ==
  /\ Recovering("term")
  /\ GroupExists(recon.at) /\ IsRecorded(recon.at)
  /\ recon' = [recon EXCEPT !.phase = "kill"]
  /\ UNCHANGED <<platform, reqVars, supVars, tables, reconciled, nextGen,
                 gate>>

RemoveRecovered ==
  /\ Recovering("remove")
  /\ RemoveMatching(owns[recon.at], genOf[recon.at])
  /\ recon' = [recon EXCEPT !.phase = "inspect", !.at = NoPid,
                            !.pending = @ \ {owns[recon.at]}]
  /\ UNCHANGED <<reqVars, identity, supVars, osVars, tables, reconciled,
                 nextGen, gate>>

(* Any record that cannot be settled fails the whole attempt: it cannot be *)
(* read or inspected, its leader is gone but its group is not, its pid     *)
(* belongs to someone else, its group cannot be signalled or outlives      *)
(* SIGKILL's grace, or the journal cannot be written.                      *)
RecordUnsettled ==
  \/ recon.phase = "inspect" /\ recon.pending # {}
  \/ recon.phase \in {"term", "kill"} /\ GroupExists(recon.at)
  \/ recon.phase = "remove"

RecoveryFails(r) ==
  /\ recon.by = r /\ pc[r] = "recovering"
  /\ RecordUnsettled
  /\ recon' = NoRecon
  /\ Fail(r)
  /\ UNCHANGED <<platform, supVars, reconciled, nextGen, entry, gate>>

(* A faulty variant: mutations are accepted with records still to settle.  *)
RecoveryDoneEarly ==
  /\ Recovering("inspect")
  /\ reconciled' = TRUE
  /\ recon' = NoRecon
  /\ Goto(recon.by, "reconcile")
  /\ UNCHANGED <<platform, callVars, supVars, targetVars, tables, nextGen,
                 gate>>

(* Only when every record is settled does the owner accept mutations.      *)
RecoveryDone ==
  /\ Recovering("inspect") /\ recon.pending = {}
  /\ reconciled' = TRUE
  /\ recon' = NoRecon
  /\ Goto(recon.by, "reconcile")
  /\ UNCHANGED <<platform, callVars, supVars, targetVars, tables, nextGen,
                 gate>>

-------------------------------------------------------------------------------
(* start_service_locked and launch.                                        *)

(* A faulty variant: a finished generation is taken for a clean one.       *)
MustNotStartWhileStopping(e) == e.state = "stopping"

MustNotStart(e) ==
  \/ e.state = "stopping"
  \/ e.state \in {"stopped", "exited"} /\ ~e.confirmed

(* Already running is success; a generation still being cleaned up is an   *)
(* error; so is a taken port, or a definition that cannot be run.          *)
StartAnswers(r) ==
  /\ pc[r] = "check"
  /\ \/ entry[svc[r]].state = "running" /\ Return(r, "ok")
     \/ entry[svc[r]].state # "running" /\ Return(r, "err")
  /\ UNCHANGED <<platform, supVars, owner, entry>>

StartProceeds(r) ==
  /\ pc[r] = "check"
  /\ entry[svc[r]].state # "running" /\ ~MustNotStart(entry[svc[r]])
  /\ nextGen <= MaxGen
  /\ rgen' = [rgen EXCEPT ![r] = nextGen]
  /\ nextGen' = nextGen + 1
  /\ Goto(r, "gate")
  /\ UNCHANGED <<platform, callVars, supVars, tables, reconciled, gate, recon,
                 rpid>>

(* A faulty variant: launches do not wait for each other.                  *)
EnterGateTogether(r) ==
  /\ pc[r] = "gate"
  /\ gate' = r
  /\ Goto(r, "fork")
  /\ UNCHANGED <<platform, callVars, supVars, targetVars, tables, reconciled,
                 nextGen, recon>>

EnterGate(r) ==
  /\ pc[r] = "gate" /\ gate = NoReq
  /\ gate' = r
  /\ Goto(r, "fork")
  /\ UNCHANGED <<platform, callVars, supVars, targetVars, tables, reconciled,
                 nextGen, recon>>

(* The child announces its pid and parks on the release pipe.              *)
Fork(r, p) ==
  /\ pc[r] = "fork" /\ leader[p] = "unborn"
  /\ leader' = [leader EXCEPT ![p] = "parked"]
  /\ owns' = [owns EXCEPT ![p] = svc[r]]
  /\ genOf' = [genOf EXCEPT ![p] = rgen[r]]
  /\ rpid' = [rpid EXCEPT ![r] = p]
  /\ Goto(r, "journal")
  /\ UNCHANGED <<manager, callVars, supVars, rest, journal, inherited, up,
                 crashes, rgen>>

(* The spawn ended before the child could be journaled.                    *)
ForkFails(r) ==
  /\ pc[r] = "fork"
  /\ gate' = NoReq
  /\ Return(r, "err")
  /\ UNCHANGED <<platform, supVars, reconciled, nextGen, entry, recon>>

(* A faulty variant: the file is rewritten with this one record.           *)
JournalLaunchAlone(r) ==
  /\ pc[r] = "journal"
  /\ journal' = [[s \in Services |-> NoRecord] EXCEPT
                  ![svc[r]] = [gen |-> rgen[r], pid |-> rpid[r]]]
  /\ Goto(r, "release")
  /\ UNCHANGED <<manager, identity, callVars, supVars, targetVars, osVars>>

(* A faulty variant: the child is released although no record was written. *)
JournalLaunchLater(r) ==
  /\ pc[r] = "journal"
  /\ Goto(r, "release")
  /\ UNCHANGED <<journal, manager, identity, callVars, supVars, targetVars, osVars>>

JournalLaunch(r) ==
  /\ pc[r] = "journal"
  /\ journal' = [journal EXCEPT ![svc[r]] = [gen |-> rgen[r], pid |-> rpid[r]]]
  /\ Goto(r, "release")
  /\ UNCHANGED <<manager, identity, callVars, supVars, targetVars, osVars>>

(* No announcement in time, no record written, or no byte in the pipe: the *)
(* release end is closed and the launch undone.                            *)
LaunchFails(r) ==
  /\ pc[r] \in {"journal", "release"}
  /\ Goto(r, "abandon")
  /\ UNCHANGED <<platform, manager, callVars, supVars, targetVars>>

Release(r) ==
  /\ pc[r] = "release" /\ leader[rpid[r]] = "parked"
  /\ leader' = [leader EXCEPT ![rpid[r]] = "released"]
  /\ Goto(r, "spawn")
  /\ UNCHANGED <<manager, identity, callVars, supVars, targetVars, rest,
                 journal>>

(* exec failed: std's spawn reaped the child and reports the error.        *)
SpawnFails(r) ==
  /\ pc[r] = "spawn" /\ leader[rpid[r]] \in {"dead", "stranger"}
  /\ Goto(r, "abandon")
  /\ UNCHANGED <<platform, manager, callVars, supVars, targetVars>>

(* abandon_journaled_launch: reap the child if there is one left to reap,  *)
(* then drop the record; an error of the removal is ignored.               *)
Abandon(r) ==
  LET p == rpid[r] IN
  /\ pc[r] = "abandon" /\ leader[p] \in {"zombie", "dead", "stranger"}
  /\ leader' = [leader EXCEPT ![p] = IF @ = "zombie" THEN "dead" ELSE @]
  /\ RemoveMatching(svc[r], rgen[r]) \/ UNCHANGED journal
  /\ gate' = NoReq
  /\ Return(r, "err")
  /\ UNCHANGED <<identity, supVars, rest, reconciled, nextGen, entry, recon>>

(* spawn returned: the child is registered and its supervisor started.     *)
Register(r) ==
  LET p == rpid[r] IN
  /\ pc[r] = "spawn" /\ leader[p] \in {"running", "zombie"}
  /\ entry' = [entry EXCEPT ![svc[r]] =
       [state |-> "running", gen |-> rgen[r], pid |-> p,
        confirmed |-> FALSE, controlled |-> TRUE]]
  /\ spc' = [spc EXCEPT ![p] = "watch"]
  /\ gate' = NoReq
  /\ Return(r, "ok")
  /\ UNCHANGED <<platform, commandVars, reconciled, nextGen, recon>>

-------------------------------------------------------------------------------
(* stop_service_locked.                                                    *)

SetEntry(s, state, confirmed, controlled) ==
  entry' = [entry EXCEPT ![s] = [@ EXCEPT !.state = state,
                                          !.confirmed = confirmed,
                                          !.controlled = controlled]]

SetState(s, state) == SetEntry(s, state, entry[s].confirmed, entry[s].controlled)

(* Nothing is left to stop.                                                *)
StopFindsNothing(r) ==
  LET e == entry[svc[r]] IN
  /\ pc[r] = "stop"
  /\ \/ e.state = "absent" /\ UNCHANGED entry
     \/ e.state = "stopped" /\ e.confirmed /\ UNCHANGED entry
     \/ /\ e.state # "absent" /\ ~e.controlled /\ e.confirmed
        /\ SetState(svc[r], "stopped")
  /\ StopReturns(r, "ok")
  /\ UNCHANGED <<platform, supVars, owner>>

(* The supervisor is gone and its cleanup never landed: an error while the *)
(* group exists, otherwise the removal of the record is retried.           *)
StopUnsupervised(r) ==
  LET e == entry[svc[r]] IN
  /\ pc[r] = "stop"
  /\ e.state # "absent" /\ ~e.controlled /\ ~e.confirmed
  /\ \/ GroupExists(e.pid) /\ StopReturns(r, "err")
     \/ /\ ~GroupExists(e.pid)
        /\ rgen' = [rgen EXCEPT ![r] = e.gen]
        /\ Goto(r, "sweep")
        /\ UNCHANGED <<callVars, rpid, lock>>
  /\ UNCHANGED <<platform, supVars, owner, entry>>

StopRetriesRemoval(r) ==
  LET s == svc[r] IN
  /\ pc[r] = "sweep"
  /\ \/ /\ RemoveMatching(s, rgen[r])
        /\ IF entry[s].gen = rgen[r]
           THEN SetEntry(s, "stopped", TRUE, entry[s].controlled)
           ELSE UNCHANGED entry
        /\ StopReturns(r, "ok")
     \/ StopReturns(r, "err") /\ UNCHANGED <<journal, entry>>
  /\ UNCHANGED <<identity, supVars, owner, osVars>>

(* A supervised generation is marked and its supervisor asked to stop it.  *)
StopMarks(r) ==
  LET e == entry[svc[r]] IN
  /\ pc[r] = "stop"
  /\ e.controlled /\ ~(e.state = "stopped" /\ e.confirmed)
  /\ SetState(svc[r], "stopping")
  /\ rgen' = [rgen EXCEPT ![r] = e.gen]
  /\ rpid' = [rpid EXCEPT ![r] = e.pid]
  /\ Goto(r, "send")
  /\ UNCHANGED <<platform, callVars, supVars, owner, lock>>

(* The channel holds one command; sending waits for room.                  *)
SendStop(r) ==
  /\ pc[r] = "send"
  /\ spc[rpid[r]] # "gone" /\ mailbox[rpid[r]] = NoReq
  /\ mailbox' = [mailbox EXCEPT ![rpid[r]] = r]
  /\ Goto(r, "await")
  /\ UNCHANGED <<platform, manager, callVars, targetVars, spc, stopRequested,
                 replyTo>>

StopAnswered(r) ==
  /\ \/ pc[r] = "stopOk" /\ StopReturns(r, "ok")
     \/ pc[r] = "stopErr" /\ StopReturns(r, "err")
  /\ UNCHANGED <<platform, supVars, owner, entry>>

(* The supervisor ended without answering (the send failed, or the reply   *)
(* was dropped): success if this generation settled clean meanwhile.       *)
StopFindsSupervisorGone(r) ==
  LET s == svc[r]
      settled == /\ entry[s].gen = rgen[r] /\ entry[s].confirmed
                 /\ entry[s].state \in {"exited", "stopped"}
  IN
  /\ \/ pc[r] = "dropped"
     \/ pc[r] = "send" /\ spc[rpid[r]] = "gone"
  /\ \/ settled /\ SetState(s, "stopped") /\ StopReturns(r, "ok")
     \/ ~settled /\ UNCHANGED entry /\ StopReturns(r, "err")
  /\ UNCHANGED <<platform, supVars, owner>>

-------------------------------------------------------------------------------
(* supervise_child.                                                        *)

(* Where the senders of p's supervisor continue once it has told its       *)
(* current caller `outcome` and, if it ends, dropped the queued command.   *)
Replies(p, outcome, ends) ==
  pc' = [r \in Reqs |->
           CASE r = replyTo[p] -> outcome
             [] ends /\ r = mailbox[p] /\ r # replyTo[p] -> "dropped"
             [] OTHER -> pc[r]]

(* child.wait(): the child ended by itself and is reaped.                  *)
ReapNaturalExit(p) ==
  /\ spc[p] = "watch" /\ leader[p] = "zombie"
  /\ leader' = [leader EXCEPT ![p] = "dead"]
  /\ spc' = [spc EXCEPT ![p] = "reaped"]
  /\ UNCHANGED <<reqVars, manager, identity, commandVars, rest, journal>>

(* cleanup_after_natural_exit: members that outlive the leader are killed. *)
KillLeftovers(p) ==
  /\ spc[p] = "reaped" /\ GroupExists(p)
  /\ spc' = [spc EXCEPT ![p] = "swept"]
  /\ UNCHANGED <<platform, reqVars, manager, commandVars>>

(* No signal or no exit in time: the generation keeps its record and its   *)
(* supervisor, which from now on only answers stops.                       *)
LeftoversRemain(p) ==
  LET s == owns[p]
      answering == replyTo[p] # NoReq
  IN
  /\ spc[p] \in {"reaped", "swept"} /\ GroupExists(p)
  /\ IF ~answering /\ entry[s].gen = genOf[p]
     THEN SetEntry(s, IF stopRequested[p] THEN "stopping" ELSE "exited",
                   FALSE, entry[s].controlled)
     ELSE UNCHANGED entry
  /\ Replies(p, "stopErr", FALSE)
  /\ replyTo' = [replyTo EXCEPT ![p] = NoReq]
  /\ spc' = [spc EXCEPT ![p] = "hold"]
  /\ UNCHANGED <<platform, callVars, owner, targetVars, lock, stopRequested,
                 mailbox>>

(* A Stop command is received, by a supervisor that still has its child    *)
(* (SIGTERM to the group) or by one that holds only leftovers.             *)
ReceiveStop(p) ==
  /\ spc[p] \in {"watch", "hold"} /\ mailbox[p] # NoReq
  /\ replyTo' = [replyTo EXCEPT ![p] = mailbox[p]]
  /\ mailbox' = [mailbox EXCEPT ![p] = NoReq]
  /\ stopRequested' = [stopRequested EXCEPT ![p] = TRUE]
  /\ spc' = [spc EXCEPT ![p] = IF @ = "watch" THEN "term" ELSE "reaped"]
  /\ UNCHANGED <<platform, reqVars, manager>>

(* A poll of wait_for_child_and_group reaps the child.                     *)
ReapStopped(p) ==
  /\ spc[p] \in {"term", "kill"} /\ leader[p] = "zombie"
  /\ leader' = [leader EXCEPT ![p] = "dead"]
  /\ UNCHANGED <<reqVars, manager, identity, supVars, rest, journal>>

EscalateToKill(p) ==
  /\ spc[p] = "term" /\ GroupExists(p)
  /\ spc' = [spc EXCEPT ![p] = "kill"]
  /\ UNCHANGED <<platform, reqVars, manager, commandVars>>

(* A faulty variant: the end of the grace period counts as a stop.         *)
StopAssumed(p) ==
  LET s == owns[p] IN
  /\ spc[p] \in {"term", "kill"} /\ GroupExists(p)
  /\ IF entry[s].gen = genOf[p]
     THEN SetEntry(s, "stopping", FALSE, entry[s].controlled)
     ELSE UNCHANGED entry
  /\ Replies(p, "stopOk", FALSE)
  /\ replyTo' = [replyTo EXCEPT ![p] = NoReq]
  /\ spc' = [spc EXCEPT ![p] =
               IF leader[p] \in {"dead", "stranger"} THEN "hold" ELSE "watch"]
  /\ UNCHANGED <<platform, callVars, owner, targetVars, lock, stopRequested,
                 mailbox>>

(* A signal is refused, or the group outlives SIGKILL's grace: the caller  *)
(* is told, and the supervisor keeps its child if it still has one.        *)
StopUnconfirmed(p) ==
  LET s == owns[p] IN
  /\ spc[p] \in {"term", "kill"} /\ GroupExists(p)
  /\ IF entry[s].gen = genOf[p]
     THEN SetEntry(s, "stopping", FALSE, entry[s].controlled)
     ELSE UNCHANGED entry
  /\ Replies(p, "stopErr", FALSE)
  /\ replyTo' = [replyTo EXCEPT ![p] = NoReq]
  /\ spc' = [spc EXCEPT ![p] =
               IF leader[p] \in {"dead", "stranger"} THEN "hold" ELSE "watch"]
  /\ UNCHANGED <<platform, callVars, owner, targetVars, lock, stopRequested,
                 mailbox>>

(* A faulty variant: the exit of the child is taken for that of its group. *)
ChildConfirmedGone(p) ==
  /\ spc[p] \in {"reaped", "swept", "term", "kill"} /\ leader[p] = "dead"
  /\ spc' = [spc EXCEPT ![p] = "unjournal"]
  /\ UNCHANGED <<platform, reqVars, manager, commandVars>>

(* Child reaped and group gone: on to the journal.                         *)
GroupConfirmedGone(p) ==
  /\ spc[p] \in {"reaped", "swept", "term", "kill"} /\ ~GroupExists(p)
  /\ spc' = [spc EXCEPT ![p] = "unjournal"]
  /\ UNCHANGED <<platform, reqVars, manager, commandVars>>

Unjournal(p) ==
  /\ spc[p] = "unjournal"
  /\ \/ RemoveMatching(owns[p], genOf[p]) /\ spc' = [spc EXCEPT ![p] = "settleOk"]
     \/ UNCHANGED journal /\ spc' = [spc EXCEPT ![p] = "settleErr"]
  /\ UNCHANGED <<reqVars, manager, identity, commandVars, osVars>>

(* A faulty variant: a record that could not be removed is ignored.        *)
SettleClean(p) ==
  LET s == owns[p]
      clean == spc[p] = "settleOk"
  IN
  /\ spc[p] \in {"settleOk", "settleErr"}
  /\ IF entry[s].gen = genOf[p]
     THEN SetEntry(s, IF stopRequested[p] THEN "stopped" ELSE "exited",
                   TRUE, FALSE)
     ELSE UNCHANGED entry
  /\ Replies(p, IF clean THEN "stopOk" ELSE "stopErr", TRUE)
  /\ spc' = [spc EXCEPT ![p] = "gone"]
  /\ mailbox' = [mailbox EXCEPT ![p] = NoReq]
  /\ replyTo' = [replyTo EXCEPT ![p] = NoReq]
  /\ stopRequested' = [stopRequested EXCEPT ![p] = FALSE]
  /\ UNCHANGED <<platform, callVars, owner, targetVars, lock>>

(* A faulty variant: an exit nobody asked for is not reported.             *)
SettleStopsOnly(p) ==
  LET s == owns[p]
      clean == spc[p] = "settleOk"
  IN
  /\ spc[p] \in {"settleOk", "settleErr"}
  /\ IF entry[s].gen = genOf[p] /\ stopRequested[p]
     THEN SetEntry(s, "stopped", clean, FALSE)
     ELSE UNCHANGED entry
  /\ Replies(p, IF clean THEN "stopOk" ELSE "stopErr", TRUE)
  /\ spc' = [spc EXCEPT ![p] = "gone"]
  /\ mailbox' = [mailbox EXCEPT ![p] = NoReq]
  /\ replyTo' = [replyTo EXCEPT ![p] = NoReq]
  /\ stopRequested' = [stopRequested EXCEPT ![p] = FALSE]
  /\ UNCHANGED <<platform, callVars, owner, targetVars, lock>>

(* finish_generation, the reply, and the end of the supervisor: a command  *)
(* still queued is dropped with its reply channel.                         *)
Settle(p) ==
  LET s == owns[p]
      clean == spc[p] = "settleOk"
  IN
  /\ spc[p] \in {"settleOk", "settleErr"}
  /\ IF entry[s].gen = genOf[p]
     THEN SetEntry(s, IF stopRequested[p] THEN "stopped" ELSE "exited",
                   clean, FALSE)
     ELSE UNCHANGED entry
  /\ Replies(p, IF clean THEN "stopOk" ELSE "stopErr", TRUE)
  /\ spc' = [spc EXCEPT ![p] = "gone"]
  /\ mailbox' = [mailbox EXCEPT ![p] = NoReq]
  /\ replyTo' = [replyTo EXCEPT ![p] = NoReq]
  /\ stopRequested' = [stopRequested EXCEPT ![p] = FALSE]
  /\ UNCHANGED <<platform, callVars, owner, targetVars, lock>>

-------------------------------------------------------------------------------
(* The operating system.                                                   *)

unchangedByOS == <<journal, identity, manager, reqVars, supVars>>

(* The release byte was read: the child execs, or reports why it cannot.   *)
Exec(p) ==
  /\ leader[p] = "released"
  /\ \/ leader' = [leader EXCEPT ![p] = "running"]
     \/ leader' = [leader EXCEPT ![p] = "dead"]
  /\ UNCHANGED <<reqVars, manager, identity, supVars, rest, journal>>

(* EOF on the release pipe: the launch was abandoned, or its owner died.   *)
ParkedLeaves(p) ==
  /\ leader[p] = "parked" /\ ~Held(p)
  /\ leader' = [leader EXCEPT ![p] = Ended(p)]
  /\ UNCHANGED <<reqVars, manager, identity, supVars, rest, journal>>

MemberForks(p) ==
  /\ leader[p] = "running" /\ ~rest[p]
  /\ rest' = [rest EXCEPT ![p] = TRUE]
  /\ UNCHANGED <<reqVars, manager, identity, supVars, leader, journal>>

(* Members end when they like, of themselves or by a signal.               *)
MemberEnds(p) ==
  /\ \/ leader[p] = "running" /\ leader' = [leader EXCEPT ![p] = Ended(p)] /\ UNCHANGED rest
     \/ rest[p] /\ rest' = [rest EXCEPT ![p] = FALSE] /\ UNCHANGED leader
  /\ UNCHANGED unchangedByOS

(* The pid of a finished and reaped group is given to someone else.        *)
PidReused(p) ==
  /\ PidReuse
  /\ leader[p] = "dead" /\ ~rest[p]
  /\ leader' = [leader EXCEPT ![p] = "stranger"]
  /\ UNCHANGED <<reqVars, manager, identity, supVars, rest, journal>>

StrangerEnds(p) ==
  /\ leader[p] = "stranger"
  /\ leader' = [leader EXCEPT ![p] = "dead"]
  /\ UNCHANGED <<reqVars, manager, identity, supVars, rest, journal>>

(* The owner dies: every future, task and table is gone, its pipe ends are *)
(* closed and its children are adopted by init.                            *)
Crash ==
  /\ up /\ crashes < MaxCrashes
  /\ up' = FALSE
  /\ crashes' = crashes + 1
  /\ inherited' = {p \in Pids : leader[p] # "unborn"}
  /\ leader' = [p \in Pids |-> IF leader[p] = "zombie" THEN "dead" ELSE leader[p]]
  /\ reconciled' = FALSE /\ nextGen' = 1
  /\ entry' = [s \in Services |-> NoEntry]
  /\ lock' = [s \in Services |-> NoReq]
  /\ gate' = NoReq /\ recon' = NoRecon
  /\ pc' = [r \in Reqs |-> "idle"]
  /\ op' = [r \in Reqs |-> "start"]
  /\ rgen' = [r \in Reqs |-> 0]
  /\ rpid' = [r \in Reqs |-> NoPid]
  /\ todo' = [r \in Reqs |-> {}]
  /\ answer' = [r \in Reqs |-> "none"]
  /\ spc' = [p \in Pids |-> "none"]
  /\ stopRequested' = [p \in Pids |-> FALSE]
  /\ mailbox' = [p \in Pids |-> NoReq]
  /\ replyTo' = [p \in Pids |-> NoReq]
  /\ UNCHANGED <<rest, journal, owns, genOf, svc>>

(* The next owner starts with empty tables and generation 1 again.         *)
Reborn ==
  /\ ~up /\ up' = TRUE
  /\ UNCHANGED <<reqVars, manager, supVars, osVars, journal, owns, genOf,
                 inherited, crashes>>

-------------------------------------------------------------------------------
(* The next-state relation and the specification.                          *)

EntersLock(r) == Acquire(r)
EntersRecovery(r) == AlreadyReconciled(r) \/ BeginRecovery(r)

RecoveryStep(r) ==
  /\ recon.by = r
  /\ \/ \E s \in Services : InspectRecord(s)
     \/ RecoveredGroupGone \/ RecoveryEscalates \/ RemoveRecovered
     \/ RecoveryFails(r) \/ RecoveryDone

StartStep(r) ==
  \/ StartAnswers(r) \/ StartProceeds(r)
  \/ (\E p \in Pids : Fork(r, p)) \/ ForkFails(r)
  \/ JournalLaunch(r) \/ LaunchFails(r) \/ Release(r)
  \/ SpawnFails(r) \/ Abandon(r) \/ Register(r)

StopStep(r) ==
  \/ StopFindsNothing(r) \/ StopUnsupervised(r) \/ StopRetriesRemoval(r)
  \/ StopMarks(r) \/ SendStop(r) \/ StopAnswered(r)
  \/ StopFindsSupervisorGone(r)

ShutdownStep(r) == (\E s \in Services : NextName(r, s)) \/ NoMoreNames(r)

RequestStep(r) == RecoveryStep(r) \/ StartStep(r) \/ StopStep(r) \/ ShutdownStep(r)

SupervisorStep(p) ==
  \/ ReapNaturalExit(p) \/ KillLeftovers(p) \/ LeftoversRemain(p)
  \/ ReceiveStop(p) \/ ReapStopped(p) \/ EscalateToKill(p)
  \/ StopUnconfirmed(p) \/ GroupConfirmedGone(p) \/ Unjournal(p) \/ Settle(p)

OSStep(p) ==
  \/ Exec(p) \/ ParkedLeaves(p) \/ MemberForks(p) \/ MemberEnds(p)
  \/ PidReused(p) \/ StrangerEnds(p)

Next ==
  \/ \E r \in Reqs, o \in Offered, s \in Services : Call(r, o, s)
  \/ \E r \in Reqs : EntersLock(r) \/ EntersRecovery(r) \/ EnterGate(r)
  \/ \E r \in Reqs : RequestStep(r)
  \/ \E p \in Pids : SupervisorStep(p)
  \/ \E p \in Pids : OSStep(p)
  \/ Crash \/ Reborn

Spec == Init /\ [][Next]_vars

(* Tasks that can run do; a lock that keeps becoming free is granted in    *)
(* the end (tokio's mutexes are FIFO).  Nobody needs to call, and no       *)
(* process needs to end: every wait for one has a deadline.                *)
Fairness ==
  /\ \A r \in Reqs :
       /\ WF_vars(RequestStep(r))
       /\ SF_vars(EntersLock(r)) /\ SF_vars(EntersRecovery(r)) /\ SF_vars(EnterGate(r))
  /\ \A p \in Pids :
       /\ WF_vars(SupervisorStep(p))
       /\ WF_vars(Exec(p)) /\ WF_vars(ParkedLeaves(p))

FairSpec == Spec /\ Fairness

-------------------------------------------------------------------------------
(* Properties.                                                             *)

(* No process of a service runs unless the journal names its group, so     *)
(* whoever owns the runtime next can find it: launches journal before they *)
(* release, and nothing overwrites or removes the record of a live group.  *)
LiveIsJournaled == \A p \in Pids : Live(p) => journal[owns[p]].pid = p

(* A service never has two process groups running at once, whatever        *)
(* requests overlap and wherever the owner died before.                    *)
OneGroupPerService ==
  \A p, q \in Pids : Live(p) /\ Live(q) /\ owns[p] = owns[q] => p = q

(* Once recovery has succeeded, every running group is one the owner can   *)
(* still stop: it is the one its table names, with cleanup outstanding, or *)
(* its launch is about to enter it.  Nothing inherited still runs.         *)
NoHiddenGroup ==
  up /\ reconciled => \A p \in Pids : Live(p) =>
     /\ p \notin inherited
     /\ \/ entry[owns[p]].pid = p /\ ~entry[owns[p]].confirmed
        \/ \E r \in Reqs : rpid[r] = p /\ pc[r] = "spawn" /\ lock[owns[p]] = r

(* A generation reported cleaned up has no process left, and no record.    *)
ConfirmedIsGone ==
  \A s \in Services : entry[s].state # "absent" /\ entry[s].confirmed =>
     ~Live(entry[s].pid) /\ journal[s].pid # entry[s].pid

(* A stop of svc[r] has succeeded: the answer of stop, the passage of a    *)
(* restart to its start, of shutdown_all to its next name.                 *)
StopSucceeds(r) ==
  /\ pc[r] \in {"stop", "sweep", "send", "stopOk", "stopErr", "dropped"}
  /\ \/ op[r] = "stop" /\ pc'[r] = "idle" /\ answer'[r] = "ok"
     \/ op[r] = "restart" /\ pc'[r] = "check"
     \/ op[r] = "shutdown" /\ pc'[r] = "names" /\ answer'[r] # "err"

(* When a stop reports success, by itself or within a restart or a         *)
(* shutdown, no process of the service is running at that moment.          *)
StopMeansStopped ==
  [][\A r \in Reqs : StopSucceeds(r) =>
       \A p \in Pids : owns[p] = svc[r] => ~Live(p)']_vars

(* Recovery signals a group only while its leader is the very process the  *)
(* journal still describes and one an earlier owner launched, however long *)
(* the grace period before SIGKILL was: never a stranger given the pid,    *)
(* never a launch of the present owner.                                    *)
RecoverySignalsOnlyRecorded ==
  [][recon'.phase \in {"term", "kill"} /\ recon'.phase # recon.phase =>
       LET p == recon'.at IN
       IsRecorded(p) /\ p \in inherited /\ journal[owns[p]].pid = p]_vars

(* Only one launch at a time has its release pipe open: a child forked     *)
(* between another launch's pipe and its release would hold that pipe's    *)
(* write end, and two such children would wait for each other forever.     *)
OneReleasePipeOpen ==
  \A q, r \in Reqs :
    {pc[q], pc[r]} \subseteq {"fork", "journal", "release"} => q = r

(* The promise this module keeps, stated without requests, supervisors,    *)
(* recovery or crashes: the journal and the processes behave as            *)
(* ServiceOwnership says.                                                  *)
Ownership == INSTANCE ServiceOwnership WITH
  noted <- [s \in Services |-> journal[s].pid],
  live  <- {p \in Pids : Live(p)},
  spent <- {p \in Pids : leader[p] \notin {"unborn", "parked"}}

OwnershipSpec == Ownership!Spec

(* Every request is answered in the end, unless the owner dies under it.   *)
EveryCallReturns == \A r \in Reqs : pc[r] # "idle" ~> pc[r] = "idle"

(* A service whose process ended by itself does not stay "running".        *)
ExitIsReported ==
  \A p \in Pids : \A s \in Services :
    (entry[s].pid = p /\ entry[s].state = "running" /\ leader[p] = "zombie")
      ~> ~(entry[s].pid = p /\ entry[s].state = "running")

===============================================================================
