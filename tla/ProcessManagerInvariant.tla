---------------------- MODULE ProcessManagerInvariant ----------------------
(***************************************************************************)
(* What holds of the process manager for every number of services,         *)
(* requests and pids, every bound and every set of offered operations:     *)
(* IInv, as long as no request's future is dropped in mid-flight (Spec);   *)
(* its part CInv even then (CancelSpec of DroppedFutures).                 *)
(*                                                                         *)
(* The argument: while a request holds a service's lock and is past        *)
(* recovery, the service's entry is its own to read and write, except for  *)
(* the supervisor of the generation in the entry.  A supervisor that still *)
(* runs is always that one (SupervisorsOwnEntries), so a launch, which     *)
(* begins only on an entry that is confirmed clean, shares the service     *)
(* with no supervisor (LaunchesOwnTheirs); and since every running group   *)
(* is either in an unconfirmed entry or about to enter one (NothingHidden) *)
(* a launch overwrites, and a cleanup removes, no record of a running one. *)
(* Only that last part (Covered) is lost when a launch is dropped between  *)
(* its release and its registration.                                       *)
(***************************************************************************)
EXTENDS ProcessManager, TLAPS

(* A pid that was forked belongs to a service, no other has a supervisor;  *)
(* one that has not exec'd yet has no other members.                       *)
PidsAreOwned ==
  \A p \in Pids :
    /\ leader[p] # "unborn" => owns[p] \in Services
    /\ leader[p] = "unborn" => spc[p] = "none" /\ p \notin inherited
    /\ leader[p] \in {"unborn", "parked", "released"} => ~rest[p]

(* A record describes a launch of the service it is filed under.           *)
RecordsDescribeLaunches ==
  \A s \in Services : journal[s] # NoRecord =>
    /\ journal[s].pid \in Pids
    /\ leader[journal[s].pid] # "unborn"
    /\ owns[journal[s].pid] = s
    /\ genOf[journal[s].pid] = journal[s].gen

(* So does an entry; one with a supervisor is not confirmed, one that is   *)
(* confirmed has neither processes nor a record.                           *)
EntryDescribes(s) ==
  /\ entry[s].state = "absent" => entry[s] = NoEntry
  /\ entry[s].controlled => ~entry[s].confirmed
  /\ entry[s].state # "absent" =>
       /\ entry[s].pid \in Pids
       /\ leader[entry[s].pid] # "unborn"
       /\ owns[entry[s].pid] = s
       /\ genOf[entry[s].pid] = entry[s].gen
       /\ entry[s].confirmed =>
            ~Live(entry[s].pid) /\ journal[s].pid # entry[s].pid

EntriesDescribeLaunches == \A s \in Services : EntryDescribes(s)

StopPCs == {"stop", "sweep", "send", "await", "stopOk", "stopErr", "dropped"}

(* A request past its recovery holds the lock of its service; one that     *)
(* waits for a recovery does if it will need it.                           *)
LocksAreHeld ==
  \A r \in Reqs :
    /\ pc[r] \in LaunchPCs \cup StopPCs \cup {"check"} =>
         lock[svc[r]] = r /\ reconciled
    /\ pc[r] \in {"reconcile", "recovering"} /\ op[r] # "reconcile" =>
         lock[svc[r]] = r

(* A launch runs on a confirmed entry and has a pid of its own.            *)
LaunchOwns(r) ==
  /\ pc[r] \in LaunchPCs => entry[svc[r]].confirmed
  /\ pc[r] \in {"fork", "journal", "release", "spawn", "abandon"} => gate = r
  /\ pc[r] \in {"journal", "release", "spawn", "abandon"} =>
       /\ rpid[r] \in Pids
       /\ leader[rpid[r]] # "unborn"
       /\ owns[rpid[r]] = svc[r]
       /\ genOf[rpid[r]] = rgen[r]
       /\ rpid[r] \notin inherited
       /\ entry[svc[r]].pid # rpid[r]
       /\ spc[rpid[r]] = "none"
  /\ pc[r] \in {"journal", "release"} => leader[rpid[r]] = "parked"
  /\ pc[r] = "release" =>
       journal[svc[r]] = [gen |-> rgen[r], pid |-> rpid[r]]
  /\ pc[r] = "spawn" => (leader[rpid[r]] \in {"dead", "stranger"} => ~rest[rpid[r]])
  /\ pc[r] = "abandon" => ~Live(rpid[r])

LaunchesOwnTheirs == \A r \in Reqs : LaunchOwns(r)

(* A supervisor that runs is the one of the generation in its entry.       *)
SupervisorOwns(p) ==
  spc[p] \notin {"none", "gone"} =>
    /\ reconciled
    /\ leader[p] # "unborn"
    /\ entry[owns[p]].state # "absent"
    /\ entry[owns[p]].pid = p
    /\ entry[owns[p]].controlled
    /\ spc[p] \in {"unjournal", "settleOk", "settleErr"} => ~Live(p)
    /\ spc[p] = "settleOk" => journal[owns[p]].pid # p

SupervisorsOwnEntries == \A p \in Pids : SupervisorOwns(p)

(* Every running group of this owner is in its table or about to be.       *)
NothingHidden ==
  reconciled => \A p \in Pids : Live(p) =>
    /\ p \notin inherited
    /\ \/ entry[owns[p]].pid = p /\ ~entry[owns[p]].confirmed
       \/ \E r \in Reqs : rpid[r] = p /\ pc[r] = "spawn" /\ lock[owns[p]] = r

(* The recovery in progress still has every record before it but those it  *)
(* settled, and knows the group whose record it removes to be gone.        *)
RecoveryKnowsItsRecords ==
  recon.phase # "idle" =>
    /\ ~reconciled
    /\ recon.pending = {s \in Services : journal[s] # NoRecord}
    /\ recon.phase # "inspect" =>
         /\ recon.at \in Pids
         /\ leader[recon.at] # "unborn"
         /\ journal[owns[recon.at]].pid = recon.at
    /\ recon.phase = "remove" => ~Live(recon.at)

(* Before recovery everything that was ever forked is inherited.           *)
UnreconciledIsInherited ==
  ~reconciled => \A p \in Pids : leader[p] # "unborn" => p \in inherited

(* A caller a supervisor will answer is waiting for that supervisor, once. *)
CallersAwait ==
  /\ \A p \in Pids :
       /\ mailbox[p] \in Reqs => pc[mailbox[p]] = "await" /\ rpid[mailbox[p]] = p
       /\ replyTo[p] \in Reqs => pc[replyTo[p]] = "await" /\ rpid[replyTo[p]] = p
       /\ mailbox[p] = replyTo[p] => mailbox[p] \notin Reqs
  /\ \A r \in Reqs : pc[r] \in {"send", "await"} =>
       rpid[r] \in Pids /\ leader[rpid[r]] # "unborn" /\ owns[rpid[r]] = svc[r]

(* What a stop relies on while it holds the lock: the entry it sweeps has  *)
(* no supervisor and no process, and one it reports clean is confirmed.    *)
StopsKnowTheirEntry ==
  \A r \in Reqs :
    /\ pc[r] = "sweep" =>
         LET e == entry[svc[r]] IN
         /\ e.state # "absent" /\ ~e.controlled
         /\ e.gen = rgen[r] /\ ~Live(e.pid)
    /\ pc[r] = "stopOk" => entry[svc[r]].confirmed

(* What holds even when futures are dropped.                               *)
CInv ==
  /\ TypeOK
  /\ PidsAreOwned
  /\ RecordsDescribeLaunches
  /\ EntriesDescribeLaunches
  /\ LocksAreHeld
  /\ LaunchesOwnTheirs
  /\ SupervisorsOwnEntries
  /\ RecoveryKnowsItsRecords
  /\ UnreconciledIsInherited
  /\ CallersAwait
  /\ StopsKnowTheirEntry

(* What a launch dropped at its spawn breaks: its group is in no entry,    *)
(* and the next launch may overwrite its record.                           *)
Covered == LiveIsJournaled /\ NothingHidden

IInv == CInv /\ Covered

(* A step keeps the first part, and the second where nothing was dropped.  *)
Keeps == CInv' /\ (Covered => Covered')

-----------------------------------------------------------------------------
(* Three ways of having a service to oneself, and why the invariant gives  *)
(* them: to a launch, to a running supervisor, to a stop that sweeps.      *)

HoldsPid(r) == pc[r] \in {"journal", "release", "spawn", "abandon"}

LaunchAlone(r) ==
  /\ reconciled /\ recon.phase = "idle"
  /\ lock[svc[r]] = r
  /\ entry[svc[r]].confirmed /\ ~entry[svc[r]].controlled
  /\ \A p \in Pids : spc[p] \notin {"none", "gone"} => owns[p] # svc[r]
  /\ \A q \in Reqs : q # r /\ pc[q] \in LaunchPCs => svc[q] # svc[r]
  /\ \A q \in Reqs : q # r /\ HoldsPid(q) => rpid[q] # rpid[r] \/ ~HoldsPid(r)
  /\ HoldsPid(r) =>
       /\ rpid[r] \in Pids /\ leader[rpid[r]] # "unborn"
       /\ owns[rpid[r]] = svc[r] /\ genOf[rpid[r]] = rgen[r]
       /\ rpid[r] \notin inherited /\ spc[rpid[r]] = "none"
       /\ \A s \in Services : entry[s].pid # rpid[r]

LaunchRunsAlone(r) ==
  \A p \in Pids : Live(p) /\ owns[p] = svc[r] => pc[r] = "spawn" /\ rpid[r] = p

(* A launch shares its service with no other supervisor or launch.         *)
LEMMA LaunchIsAlone ==
  ASSUME CInv, NEW r \in Reqs, pc[r] \in LaunchPCs
  PROVE  LaunchAlone(r)
<1> USE NoneAssumption DEF CInv, TypeOK, LaunchPCs
<1>1. /\ reconciled /\ lock[svc[r]] = r
      /\ entry[svc[r]].confirmed /\ ~entry[svc[r]].controlled
  <2>1. svc[r] \in Services
    OBVIOUS
  <2>2. reconciled /\ lock[svc[r]] = r
    BY DEF LocksAreHeld
  <2>3. entry[svc[r]].confirmed
    BY DEF LaunchesOwnTheirs, LaunchOwns
  <2>4. QED
    BY <2>1, <2>2, <2>3 DEF EntriesDescribeLaunches, EntryDescribes
<1>2. recon.phase = "idle"
  BY <1>1 DEF RecoveryKnowsItsRecords
<1>3. \A p \in Pids : spc[p] \notin {"none", "gone"} => owns[p] # svc[r]
  BY <1>1 DEF SupervisorsOwnEntries, SupervisorOwns
<1>4. \A q \in Reqs : q # r /\ pc[q] \in LaunchPCs => svc[q] # svc[r]
  BY <1>1 DEF LocksAreHeld
<1>5. \A q \in Reqs : q # r /\ HoldsPid(q) => rpid[q] # rpid[r] \/ ~HoldsPid(r)
  <2>1. \A q \in Reqs : HoldsPid(q) => gate = q
    BY DEF LaunchesOwnTheirs, LaunchOwns, HoldsPid
  <2>2. QED
    BY <2>1
<1>6. HoldsPid(r) =>
        /\ rpid[r] \in Pids /\ leader[rpid[r]] # "unborn"
        /\ owns[rpid[r]] = svc[r] /\ genOf[rpid[r]] = rgen[r]
        /\ rpid[r] \notin inherited /\ spc[rpid[r]] = "none"
        /\ entry[svc[r]].pid # rpid[r]
  BY DEF LaunchesOwnTheirs, LaunchOwns, HoldsPid
<1>7. HoldsPid(r) => \A s \in Services : entry[s].pid # rpid[r]
  BY <1>6 DEF EntriesDescribeLaunches, EntryDescribes, NoEntry
<1>8. QED
  BY <1>1, <1>2, <1>3, <1>4, <1>5, <1>6, <1>7 DEF LaunchAlone

(* Nor with another group, where nothing was dropped.                      *)
LEMMA LaunchAloneRuns ==
  ASSUME IInv, NEW r \in Reqs, pc[r] \in LaunchPCs
  PROVE  LaunchRunsAlone(r)
<1>1. reconciled /\ lock[svc[r]] = r
  BY DEF IInv, CInv, LocksAreHeld
<1>2. entry[svc[r]].confirmed
  BY DEF IInv, CInv, LaunchesOwnTheirs, LaunchOwns
<1>3. QED
  BY <1>1, <1>2 DEF IInv, Covered, NothingHidden, LaunchRunsAlone

SupervisorAlone(p) ==
  /\ reconciled /\ recon.phase = "idle"
  /\ owns[p] \in Services /\ leader[p] # "unborn"
  /\ LET e == entry[owns[p]] IN
     e.state # "absent" /\ e.pid = p /\ e.gen = genOf[p] /\ e.controlled /\ ~e.confirmed
  /\ \A s \in Services : entry[s].pid = p => s = owns[p]
  /\ \A q \in Pids : q # p /\ spc[q] \notin {"none", "gone"} => owns[q] # owns[p]
  /\ \A r \in Reqs : pc[r] \in LaunchPCs => svc[r] # owns[p]
  /\ \A r \in Reqs : pc[r] \in {"sweep", "stopOk"} => svc[r] # owns[p]
  /\ \A r \in Reqs : HoldsPid(r) => rpid[r] # p

SupervisorRunsAlone(p) == \A q \in Pids : Live(q) /\ owns[q] = owns[p] => q = p

(* Nor does a supervisor that has not finished.                            *)
LEMMA SupervisorIsAlone ==
  ASSUME CInv, NEW p \in Pids, spc[p] \notin {"none", "gone"}
  PROVE  SupervisorAlone(p)
<1> USE NoneAssumption DEF CInv, TypeOK, LaunchPCs
<1>1. /\ reconciled
      /\ owns[p] \in Services /\ leader[p] # "unborn"
      /\ entry[owns[p]].state # "absent" /\ entry[owns[p]].pid = p
      /\ entry[owns[p]].gen = genOf[p]
      /\ entry[owns[p]].controlled /\ ~entry[owns[p]].confirmed
  BY DEF SupervisorsOwnEntries, SupervisorOwns, PidsAreOwned, EntriesDescribeLaunches, EntryDescribes
<1>2. recon.phase = "idle"
  BY <1>1 DEF RecoveryKnowsItsRecords
<1>3. \A s \in Services : entry[s].pid = p => s = owns[p]
  BY DEF EntriesDescribeLaunches, EntryDescribes, NoEntry
<1>4. \A q \in Pids : q # p /\ spc[q] \notin {"none", "gone"} => owns[q] # owns[p]
  BY <1>1 DEF SupervisorsOwnEntries, SupervisorOwns
<1>5. \A r \in Reqs : pc[r] \in LaunchPCs => svc[r] # owns[p]
  BY <1>1 DEF LaunchesOwnTheirs, LaunchOwns
<1>6. \A r \in Reqs : pc[r] \in {"sweep", "stopOk"} => svc[r] # owns[p]
  BY <1>1 DEF StopsKnowTheirEntry
<1>7. \A r \in Reqs : HoldsPid(r) => rpid[r] # p
  BY DEF LaunchesOwnTheirs, LaunchOwns, HoldsPid
<1>8. QED
  BY <1>1, <1>2, <1>3, <1>4, <1>5, <1>6, <1>7 DEF SupervisorAlone

(* Nor with another group, where nothing was dropped.                      *)
LEMMA SupervisorAloneRuns ==
  ASSUME IInv, NEW p \in Pids, spc[p] \notin {"none", "gone"}
  PROVE  SupervisorRunsAlone(p)
<1>1. SupervisorAlone(p)
  BY SupervisorIsAlone DEF IInv
<1> SUFFICES ASSUME NEW q \in Pids, Live(q), owns[q] = owns[p] PROVE q = p
  BY DEF SupervisorRunsAlone
<1>2. ASSUME NEW r \in Reqs, rpid[r] = q, pc[r] = "spawn" PROVE FALSE
  <2>1. owns[rpid[r]] = svc[r]
    BY <1>2 DEF IInv, CInv, LaunchesOwnTheirs, LaunchOwns
  <2>2. QED
    BY <1>1, <1>2, <2>1 DEF SupervisorAlone, LaunchPCs
<1>3. QED
  BY <1>1, <1>2 DEF IInv, Covered, NothingHidden, SupervisorAlone

SweepAlone(r) ==
  /\ reconciled /\ recon.phase = "idle"
  /\ lock[svc[r]] = r
  /\ \A p \in Pids : spc[p] \notin {"none", "gone"} => owns[p] # svc[r]
  /\ \A q \in Reqs : q # r /\ pc[q] \in LaunchPCs \cup StopPCs => svc[q] # svc[r]
  /\ LET e == entry[svc[r]] IN
     /\ e.state # "absent" /\ ~e.controlled /\ e.gen = rgen[r]
     /\ e.pid \in Pids /\ ~Live(e.pid) /\ genOf[e.pid] = e.gen

SweepRunsAlone(r) == \A p \in Pids : Live(p) => owns[p] # svc[r]

(* Nor does a stop about to remove what a finished supervisor left.        *)
LEMMA SweepIsAlone ==
  ASSUME CInv, NEW r \in Reqs, pc[r] = "sweep"
  PROVE  SweepAlone(r)
<1> USE NoneAssumption DEF CInv, TypeOK, LaunchPCs, StopPCs
<1>1. reconciled /\ lock[svc[r]] = r
  BY DEF LocksAreHeld
<1>2. recon.phase = "idle"
  BY <1>1 DEF RecoveryKnowsItsRecords
<1>3. LET e == entry[svc[r]] IN
      /\ e.state # "absent" /\ ~e.controlled /\ e.gen = rgen[r]
      /\ e.pid \in Pids /\ ~Live(e.pid) /\ genOf[e.pid] = e.gen
  BY DEF StopsKnowTheirEntry, EntriesDescribeLaunches, EntryDescribes
<1>4. \A p \in Pids : spc[p] \notin {"none", "gone"} => owns[p] # svc[r]
  BY <1>3 DEF SupervisorsOwnEntries, SupervisorOwns
<1>5. \A q \in Reqs : q # r /\ pc[q] \in LaunchPCs \cup StopPCs => svc[q] # svc[r]
  BY <1>1 DEF LocksAreHeld
<1>6. QED
  BY <1>1, <1>2, <1>3, <1>4, <1>5 DEF SweepAlone

(* Nor does anything run, where nothing was dropped.                       *)
LEMMA SweepAloneRuns ==
  ASSUME IInv, NEW r \in Reqs, pc[r] = "sweep"
  PROVE  SweepRunsAlone(r)
<1>1. SweepAlone(r)
  BY SweepIsAlone DEF IInv
<1>2. ASSUME NEW q \in Reqs, pc[q] = "spawn" PROVE lock[svc[r]] # q
  BY <1>1, <1>2 DEF SweepAlone
<1>3. QED
  BY <1>1, <1>2 DEF IInv, Covered, NothingHidden, SweepAlone, SweepRunsAlone

-----------------------------------------------------------------------------
(* What the helpers of the actions do, in the form the proofs use.         *)

(* r goes on to one of the labels; no other request is touched, and r only *)
(* gives locks back, none when it goes on to start under its lock.         *)
Moves(r, labels) ==
  /\ pc' \in [Reqs -> PCs] /\ op' \in [Reqs -> Ops] /\ svc' = svc
  /\ rgen' \in [Reqs -> Nat] /\ rpid' \in [Reqs -> Pids \cup {NoPid}]
  /\ todo' \in [Reqs -> SUBSET Services]
  /\ answer' \in [Reqs -> {"none", "ok", "err"}]
  /\ lock' \in [Services -> Reqs \cup {NoReq}]
  /\ pc'[r] \in labels
  /\ \A q \in Reqs : q # r =>
       pc'[q] = pc[q] /\ op'[q] = op[q] /\ rgen'[q] = rgen[q] /\ rpid'[q] = rpid[q]
  /\ \A s \in Services : lock'[s] = lock[s] \/ lock[s] = r
  /\ pc'[r] \in {"check", "stop", "sweep"} => lock' = lock

(* Returning moves the request to "idle" and touches no other.            *)
LEMMA ReturnMoves ==
  ASSUME TypeOK, NEW r \in Reqs, NEW result \in {"ok", "err"}, Return(r, result)
  PROVE  Moves(r, {"idle"})
BY NoneAssumption DEF TypeOK, Return, Goto, Unlock, Moves, PCs, Ops

(* The answer of a stop moves it to the end, or on within its operation.   *)
LEMMA StopReturnsMoves ==
  ASSUME TypeOK, NEW r \in Reqs, NEW result \in {"ok", "err"}, StopReturns(r, result)
  PROVE  /\ Moves(r, {"idle", "names", "check"})
         /\ result = "err" => pc'[r] # "check"
<1> USE NoneAssumption DEF TypeOK
<1>1. CASE op[r] = "stop" /\ Return(r, result)
  BY <1>1, ReturnMoves DEF Moves
<1>2. CASE op[r] = "restart" /\ result = "err" /\ Return(r, "err")
  BY <1>2, ReturnMoves DEF Moves
<1>3. CASE /\ op[r] = "restart" /\ result = "ok" /\ Goto(r, "check")
           /\ rgen' = [rgen EXCEPT ![r] = 0] /\ rpid' = [rpid EXCEPT ![r] = NoPid]
           /\ UNCHANGED <<callVars, lock>>
  BY <1>3 DEF Moves, callVars, Goto, PCs, LaunchPCs
<1>4. CASE /\ op[r] = "shutdown" /\ Goto(r, "names")
           /\ rgen' = [rgen EXCEPT ![r] = 0] /\ rpid' = [rpid EXCEPT ![r] = NoPid]
           /\ answer' = [answer EXCEPT ![r] = IF result = "err" THEN "err" ELSE @]
           /\ Unlock(r) /\ UNCHANGED <<op, svc, todo>>
  BY <1>4 DEF Moves, Goto, Unlock, PCs
<1>5. QED
  BY <1>1, <1>2, <1>3, <1>4 DEF StopReturns

(* A request that moves outside a launch hides no group, ...               *)
LEMMA MovesHidesNothing ==
  ASSUME CInv, Covered, NEW r \in Reqs, NEW labels, Moves(r, labels), pc[r] # "spawn",
         UNCHANGED <<osVars, identity, reconciled>>,
         \A s \in Services : /\ entry'[s].pid = entry[s].pid
                             /\ entry'[s].confirmed = entry[s].confirmed
  PROVE  NothingHidden'
<1>1. owns' = owns /\ inherited' = inherited /\ \A p \in Pids : Live(p)' = Live(p)
  BY DEF osVars, identity, Live
<1>2. \A p \in Pids : Live(p) => owns[p] \in Services
  BY DEF CInv, PidsAreOwned, Live
<1>3. ASSUME NEW p \in Pids, NEW q \in Reqs, Live(p),
             rpid[q] = p, pc[q] = "spawn", lock[owns[p]] = q
      PROVE  rpid'[q] = p /\ pc'[q] = "spawn" /\ lock'[owns[p]] = q
  BY <1>2, <1>3 DEF Moves
<1>4. QED
  BY <1>1, <1>2, <1>3 DEF Covered, NothingHidden

(* takes no launch from another, ...                                       *)
LEMMA MovesLeavesLaunches ==
  ASSUME CInv, NEW r \in Reqs, NEW labels, Moves(r, labels),
         pc[r] \notin LaunchPCs, pc'[r] \notin LaunchPCs,
         UNCHANGED <<osVars, identity, journal, gate, spc>>,
         \A s \in Services : /\ entry'[s].pid = entry[s].pid
                             /\ entry'[s].confirmed = entry[s].confirmed
  PROVE  LaunchesOwnTheirs'
<1>1. svc \in [Reqs -> Services] /\ svc' = svc /\ gate' = gate /\ spc' = spc
      /\ journal' = journal
  BY DEF CInv, TypeOK, Moves
<1>2. /\ leader' = leader /\ rest' = rest /\ owns' = owns /\ genOf' = genOf
      /\ inherited' = inherited
  BY DEF osVars, identity
<1>3. LaunchOwns(r)'
  BY DEF LaunchOwns, LaunchPCs
<1>4. ASSUME NEW q \in Reqs, q # r PROVE LaunchOwns(q)'
  <2>1. LaunchOwns(q) /\ pc'[q] = pc[q] /\ rgen'[q] = rgen[q] /\ rpid'[q] = rpid[q]
    BY <1>4 DEF CInv, LaunchesOwnTheirs, Moves
  <2>2. /\ entry'[svc[q]].pid = entry[svc[q]].pid
        /\ entry'[svc[q]].confirmed = entry[svc[q]].confirmed
    BY <1>1
  <2>3. QED
    BY <1>1, <1>2, <2>1, <2>2 DEF LaunchOwns, Live
<1>5. QED
  BY <1>3, <1>4 DEF LaunchesOwnTheirs

(* and no answer from a supervisor.                                        *)
LEMMA MovesLeavesCallers ==
  ASSUME CInv, NEW r \in Reqs, NEW labels, Moves(r, labels),
         pc[r] # "await", pc'[r] \notin {"send", "await"},
         UNCHANGED <<mailbox, replyTo, owns>>,
         \A p \in Pids : leader[p] # "unborn" => leader'[p] # "unborn"
  PROVE  CallersAwait'
BY DEF CInv, CallersAwait, Moves

(* So does an error; it never goes on to a start.                          *)
LEMMA FailMoves ==
  ASSUME TypeOK, NEW r \in Reqs, Fail(r)
  PROVE  Moves(r, {"idle", "names"})
BY ReturnMoves, StopReturnsMoves DEF Fail, Moves

(* The record of s goes if it is that of generation g; no other changes.   *)
Removes(s, g) ==
  /\ journal' \in [Services -> Record]
  /\ \A t \in Services : t # s => journal'[t] = journal[t]
  /\ journal'[s] \in {journal[s], NoRecord}
  /\ journal[s].gen = g => journal'[s] = NoRecord

(* A successful removal takes at most the record it was asked for.         *)
LEMMA RemoveMatchingRemoves ==
  ASSUME TypeOK, NEW s \in Services, NEW g \in Nat, RemoveMatching(s, g)
  PROVE  Removes(s, g)
BY DEF TypeOK, RemoveMatching, Removes, Record, NoRecord

(* The entry of s gets a state and two flags; nothing else changes.        *)
Sets(s, state, confirmed, controlled) ==
  /\ entry' \in [Services -> Entry]
  /\ \A t \in Services : t # s => entry'[t] = entry[t]
  /\ entry'[s].state = state
  /\ entry'[s].gen = entry[s].gen /\ entry'[s].pid = entry[s].pid
  /\ entry'[s].confirmed = confirmed /\ entry'[s].controlled = controlled

(* An update of three fields leaves the others and all other entries.      *)
LEMMA SetEntrySets ==
  ASSUME TypeOK, NEW s \in Services, NEW state \in EntryStates,
         NEW confirmed \in BOOLEAN, NEW controlled \in BOOLEAN,
         SetEntry(s, state, confirmed, controlled)
  PROVE  Sets(s, state, confirmed, controlled)
<1> DEFINE e == [entry[s] EXCEPT !.state = state, !.confirmed = confirmed,
                                 !.controlled = controlled]
<1>1. entry[s] \in Entry /\ entry \in [Services -> Entry]
  BY DEF TypeOK
<1>2. /\ e \in Entry /\ e.state = state
      /\ e.gen = entry[s].gen /\ e.pid = entry[s].pid
      /\ e.confirmed = confirmed /\ e.controlled = controlled
  BY <1>1 DEF Entry
<1>3. entry' = [entry EXCEPT ![s] = e]
  BY DEF SetEntry
<1> HIDE DEF e
<1>4. entry'[s] = e /\ \A t \in Services : t # s => entry'[t] = entry[t]
  BY <1>1, <1>3
<1>5. entry' \in [Services -> Entry]
  BY <1>1, <1>2, <1>3
<1>6. QED
  BY <1>2, <1>4, <1>5 DEF Sets

(* Nor does an update of the state alone touch the flags.                  *)
LEMMA SetStateSets ==
  ASSUME TypeOK, NEW s \in Services, NEW state \in EntryStates, SetState(s, state)
  PROVE  Sets(s, state, entry[s].confirmed, entry[s].controlled)
<1>1. entry[s].confirmed \in BOOLEAN /\ entry[s].controlled \in BOOLEAN
  BY DEF TypeOK, Entry
<1>2. QED
  BY <1>1, SetEntrySets DEF SetState

(* No entry changes but in its state, and no unused one at all.            *)
KeepsEntries ==
  /\ entry' \in [Services -> Entry]
  /\ \A s \in Services :
       /\ entry'[s].gen = entry[s].gen /\ entry'[s].pid = entry[s].pid
       /\ entry'[s].confirmed = entry[s].confirmed
       /\ entry'[s].controlled = entry[s].controlled
       /\ (entry'[s].state = "absent") = (entry[s].state = "absent")
       /\ entry[s].state = "absent" => entry'[s] = entry[s]

(* Marking an entry "stopped" does no more than that.                      *)
LEMMA SetStateKeepsEntries ==
  ASSUME TypeOK, NEW s \in Services, entry[s].state # "absent", SetState(s, "stopped")
  PROVE  KeepsEntries
<1>1. Sets(s, "stopped", entry[s].confirmed, entry[s].controlled)
  BY SetStateSets DEF EntryStates
<1>2. QED
  BY <1>1 DEF Sets, KeepsEntries

(* A supervisor answers the caller it has, and at its end drops the other. *)
LEMMA RepliesEffect ==
  ASSUME TypeOK, NEW p \in Pids, NEW outcome \in {"stopOk", "stopErr"},
         NEW ends \in BOOLEAN, Replies(p, outcome, ends)
  PROVE  /\ pc' \in [Reqs -> PCs]
         /\ \A r \in Reqs :
              \/ r = replyTo[p] /\ pc'[r] = outcome
              \/ r = mailbox[p] /\ r # replyTo[p] /\ ends /\ pc'[r] = "dropped"
              \/ r # replyTo[p] /\ (ends => r # mailbox[p]) /\ pc'[r] = pc[r]
<1>1. \A r \in Reqs :
        pc'[r] = CASE r = replyTo[p] -> outcome
                   [] ends /\ r = mailbox[p] /\ r # replyTo[p] -> "dropped"
                   [] OTHER -> pc[r]
  BY DEF Replies
<1>2. pc' = [r \in Reqs |-> pc'[r]]
  BY DEF Replies
<1>3. \A r \in Reqs :
        \/ r = replyTo[p] /\ pc'[r] = outcome
        \/ r = mailbox[p] /\ r # replyTo[p] /\ ends /\ pc'[r] = "dropped"
        \/ r # replyTo[p] /\ (ends => r # mailbox[p]) /\ pc'[r] = pc[r]
  BY <1>1
<1>4. QED
  BY <1>2, <1>3 DEF TypeOK, PCs

===============================================================================
