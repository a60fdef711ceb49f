------------------------- MODULE ProcessManagerProofs -------------------------
(***************************************************************************)
(* The theorems about the process manager: its invariant holds, and with   *)
(* it the safety properties of ProcessManager; what a step may never do,   *)
(* report a stop while something runs or signal a group that is not the    *)
(* recorded one; and its journal and processes behave as ServiceOwnership  *)
(* says.                                                                   *)
(***************************************************************************)
EXTENDS ProcessManagerSteps, DroppedFutures

-----------------------------------------------------------------------------
(* The invariant.                                                          *)

(* Nothing has been forked, called or journaled yet.                       *)
LEMMA InitInv == Init => IInv
<1> USE NoneAssumption, BoundAssumption
<1> SUFFICES ASSUME Init PROVE IInv
  OBVIOUS
<1>1. TypeOK
  <2>1. entry \in [Services -> Entry] /\ recon \in Recon /\ journal \in [Services -> Record]
    BY DEF Init, Entry, EntryStates, NoEntry, Recon, ReconPhases, NoRecon, Record, NoRecord
  <2>2. (CHOOSE s \in Services : TRUE) \in Services
    OBVIOUS
  <2>3. svc \in [Reqs -> Services]
    BY <2>2 DEF Init
  <2>4. crashes \in 0..MaxCrashes
    BY DEF Init
  <2>5. /\ leader \in [Pids -> LeaderStates] /\ spc \in [Pids -> SupPCs]
        /\ pc \in [Reqs -> PCs] /\ op \in [Reqs -> Ops]
    BY DEF Init, LeaderStates, SupPCs, PCs, Ops
  <2>6. rest \in [Pids -> BOOLEAN] /\ stopRequested \in [Pids -> BOOLEAN]
    BY DEF Init
  <2>7. genOf \in [Pids -> Nat] /\ rgen \in [Reqs -> Nat] /\ nextGen \in Nat \ {0}
    BY DEF Init
  <2>8. todo \in [Reqs -> SUBSET Services]
    BY DEF Init
  <2>9. QED
    BY <2>1, <2>3, <2>4, <2>5, <2>6, <2>7, <2>8 DEF Init, TypeOK
<1>2. LiveIsJournaled /\ PidsAreOwned /\ RecordsDescribeLaunches
  BY DEF Init, LiveIsJournaled, PidsAreOwned, RecordsDescribeLaunches, Live
<1>3. EntriesDescribeLaunches
  BY DEF Init, EntriesDescribeLaunches, EntryDescribes, NoEntry
<1>4. LocksAreHeld /\ LaunchesOwnTheirs /\ SupervisorsOwnEntries
  BY DEF Init, LocksAreHeld, LaunchesOwnTheirs, LaunchOwns, LaunchPCs, StopPCs,
      SupervisorsOwnEntries, SupervisorOwns
<1>5. /\ NothingHidden /\ RecoveryKnowsItsRecords /\ UnreconciledIsInherited
      /\ StopsKnowTheirEntry
  BY DEF Init, NothingHidden, RecoveryKnowsItsRecords, NoRecon,
      UnreconciledIsInherited, StopsKnowTheirEntry
<1>6. CallersAwait
  BY DEF Init, CallersAwait
<1>7. QED
  BY <1>1, <1>2, <1>3, <1>4, <1>5, <1>6 DEF IInv, CInv, Covered

(* A step that changes nothing keeps the invariant.                        *)
LEMMA StutterKeeps ==
  ASSUME CInv, UNCHANGED vars
  PROVE  Keeps
<1> USE DEF vars, osVars, identity, platform, tables, owner, manager, callVars,
    targetVars, reqVars, commandVars, supVars
<1>1. TypeOK'
  BY DEF CInv, TypeOK
<1>2. PidsAreOwned' /\ RecordsDescribeLaunches' /\ EntriesDescribeLaunches' /\
    LocksAreHeld' /\ LaunchesOwnTheirs' /\ SupervisorsOwnEntries' /\
    RecoveryKnowsItsRecords' /\ UnreconciledIsInherited' /\ CallersAwait' /\
    StopsKnowTheirEntry'
  BY SMTT(30) DEF CInv, PidsAreOwned, RecordsDescribeLaunches,
      EntriesDescribeLaunches, EntryDescribes, LocksAreHeld,
      LaunchesOwnTheirs, LaunchOwns, SupervisorsOwnEntries, SupervisorOwns,
      RecoveryKnowsItsRecords, UnreconciledIsInherited, CallersAwait,
      StopsKnowTheirEntry, Live
<1>3. Covered => Covered'
  BY DEF Covered, LiveIsJournaled, NothingHidden, Live
<1>4. QED
  BY <1>1, <1>2, <1>3 DEF CInv, Keeps

(* Every step keeps the part of the invariant that needs no Covered, and   *)
(* Covered with it.                                                        *)
LEMMA NextKeepsBoth ==
  ASSUME CInv, [Next]_vars
  PROVE  Keeps
<1>1. ASSUME NEW r \in Reqs, NEW o \in Offered, NEW s \in Services, Call(r, o, s)
      PROVE  Keeps
  BY <1>1, CallKeeps
<1>2. ASSUME NEW r \in Reqs, EntersLock(r) \/ EntersRecovery(r) \/ EnterGate(r)
      PROVE  Keeps
  BY <1>2, AcquireKeeps, AlreadyReconciledKeeps, BeginRecoveryKeeps,
      EnterGateKeeps DEF EntersLock, EntersRecovery
<1>3. ASSUME NEW r \in Reqs, RecoveryStep(r)
      PROVE  Keeps
  <2>1. recon.by \in Reqs
    BY <1>3 DEF RecoveryStep
  <2>2. QED
    BY <1>3, <2>1, InspectRecordKeeps, RecoveredGroupGoneKeeps,
        RecoveryEscalatesKeeps, RemoveRecoveredKeeps, RecoveryFailsKeeps,
        RecoveryDoneKeeps DEF RecoveryStep
<1>4. ASSUME NEW r \in Reqs, StartStep(r)
      PROVE  Keeps
  BY <1>4, StartAnswersKeeps, StartProceedsKeeps, ForkKeeps, ForkFailsKeeps,
      JournalLaunchKeeps, LaunchFailsKeeps, ReleaseKeeps, SpawnFailsKeeps,
      AbandonKeeps, RegisterKeeps DEF StartStep
<1>5. ASSUME NEW r \in Reqs, StopStep(r)
      PROVE  Keeps
  BY <1>5, StopFindsNothingKeeps, StopUnsupervisedKeeps,
      StopRetriesRemovalKeeps, StopMarksKeeps, SendStopKeeps,
      StopAnsweredKeeps, StopFindsSupervisorGoneKeeps DEF StopStep
<1>6. ASSUME NEW r \in Reqs, ShutdownStep(r)
      PROVE  Keeps
  BY <1>6, NextNameKeeps, NoMoreNamesKeeps DEF ShutdownStep
<1>7. ASSUME NEW p \in Pids, SupervisorStep(p)
      PROVE  Keeps
  BY <1>7, ReapNaturalExitKeeps, KillLeftoversKeeps, LeftoversRemainKeeps,
      ReceiveStopKeeps, ReapStoppedKeeps, EscalateToKillKeeps,
      StopUnconfirmedKeeps, GroupConfirmedGoneKeeps, UnjournalKeeps,
      SettleKeeps DEF SupervisorStep
<1>8. ASSUME NEW p \in Pids, OSStep(p)
      PROVE  Keeps
  BY <1>8, ExecKeeps, ParkedLeavesKeeps, MemberForksKeeps, MemberEndsKeeps,
      PidReusedKeeps, StrangerEndsKeeps DEF OSStep
<1>9. QED
  BY <1>1, <1>2, <1>3, <1>4, <1>5, <1>6, <1>7, <1>8, CrashKeeps, RebornKeeps,
      StutterKeeps DEF Next, RequestStep

(* So every step keeps the invariant.                                      *)
LEMMA NextKeeps ==
  ASSUME IInv, [Next]_vars
  PROVE  IInv'
BY NextKeepsBoth DEF IInv, Keeps

(* The inductive invariant holds in every behaviour.                       *)
THEOREM InvariantHolds == Spec => []IInv
BY InitInv, NextKeeps, PTL DEF Spec

(* Every variable keeps its type, whatever requests overlap.               *)
THEOREM TypesHold == Spec => []TypeOK
<1>1. IInv => TypeOK
  BY DEF IInv, CInv, Covered
<1>2. QED
  BY <1>1, InvariantHolds, PTL

(* The journal names every running group at every moment, so a crash       *)
(* anywhere leaves none behind that the next owner cannot find: launch     *)
(* journals before it releases, and no cleanup, recovery or later launch   *)
(* touches the record of a group that runs.                                *)
THEOREM RunningGroupsAreJournaled == Spec => []LiveIsJournaled
<1>1. IInv => LiveIsJournaled
  BY DEF IInv, CInv, Covered
<1>2. QED
  BY <1>1, InvariantHolds, PTL

(* Two requests, a restart or a crash never give a service two groups.     *)
THEOREM ServicesHaveOneGroup == Spec => []OneGroupPerService
<1>1. IInv => OneGroupPerService
  BY DEF IInv, CInv, Covered, LiveIsJournaled, OneGroupPerService
<1>2. QED
  BY <1>1, InvariantHolds, PTL

(* Once ensure_reconciled has succeeded nothing runs that the owner's      *)
(* table does not lead a stop to.                                          *)
THEOREM NoGroupIsHidden == Spec => []NoHiddenGroup
<1>1. IInv => NoHiddenGroup
  BY DEF IInv, CInv, Covered, NothingHidden, NoHiddenGroup
<1>2. QED
  BY <1>1, InvariantHolds, PTL

(* cleanup_confirmed is never set while a process or a record is left.     *)
THEOREM ConfirmedEntriesAreGone == Spec => []ConfirmedIsGone
<1>1. IInv => ConfirmedIsGone
  BY DEF IInv, CInv, Covered, EntriesDescribeLaunches, EntryDescribes, ConfirmedIsGone
<1>2. QED
  BY <1>1, InvariantHolds, PTL

(* The launch gate keeps at most one launch between its pipe and its       *)
(* release.                                                                *)
THEOREM LaunchesTakeTurns == Spec => []OneReleasePipeOpen
<1>1. IInv => OneReleasePipeOpen
  BY DEF IInv, CInv, Covered, LaunchesOwnTheirs, LaunchOwns, OneReleasePipeOpen
<1>2. QED
  BY <1>1, InvariantHolds, PTL

-----------------------------------------------------------------------------
(* Stop.                                                                   *)

StopPhase == {"stop", "sweep", "send", "stopOk", "stopErr", "dropped"}

(* A caller between the beginning and the answer of its stop stays there.  *)
StaysInStop == \A q \in Reqs : pc[q] \in StopPhase => pc'[q] = pc[q]

(* Who stays in a stop has not succeeded with it.                          *)
LEMMA StayingIsNotSucceeding ==
  ASSUME StaysInStop
  PROVE  \A q \in Reqs : ~StopSucceeds(q)
BY DEF StaysInStop, StopPhase, StopSucceeds

(* Under the service's lock a confirmed entry means that nothing runs.     *)
LEMMA ConfirmedMeansNothingRuns ==
  ASSUME IInv, NEW r \in Reqs, pc[r] \in StopPCs, entry[svc[r]].confirmed
  PROVE  \A p \in Pids : owns[p] = svc[r] => ~Live(p)
<1>1. reconciled /\ lock[svc[r]] = r
  BY DEF IInv, CInv, Covered, LocksAreHeld
<1>2. pc[r] # "spawn"
  BY DEF StopPCs
<1>3. QED
  BY <1>1, <1>2 DEF IInv, CInv, Covered, NothingHidden

(* An error answer is no success, and no other request is moved by it.     *)
LEMMA ErrorIsNotSuccess ==
  ASSUME IInv, NEW r \in Reqs, StopReturns(r, "err")
  PROVE  \A q \in Reqs : ~StopSucceeds(q)
<1>1. Moves(r, {"idle", "names", "check"}) /\ pc'[r] # "check"
  BY StopReturnsMoves DEF IInv, CInv, Covered
<1>2. \A q \in Reqs : q # r => ~StopSucceeds(q)
  BY <1>1 DEF Moves, StopSucceeds
<1>3. CASE op[r] \in {"stop", "restart"} /\ Return(r, "err")
  <2>1. answer'[r] = "none"
    BY <1>3 DEF Return, IInv, CInv, Covered, TypeOK
  <2>2. QED
    BY <1>1, <1>2, <1>3, <2>1 DEF StopSucceeds
<1>4. CASE op[r] = "shutdown" /\ answer' = [answer EXCEPT ![r] = "err"]
  <2>1. answer'[r] = "err"
    BY <1>4 DEF IInv, CInv, Covered, TypeOK
  <2>2. QED
    BY <1>2, <1>4, <2>1 DEF StopSucceeds
<1>5. QED
  BY <1>3, <1>4 DEF StopReturns

(* Only the steps of a stop itself can make it succeed.                    *)
LEMMA StopStepSucceeds ==
  ASSUME IInv, NEW r \in Reqs, StopStep(r), NEW q \in Reqs, StopSucceeds(q)
  PROVE  \A p \in Pids : owns[p] = svc[q] => ~Live(p)'
<1> USE NoneAssumption
<1>1. owns' = owns /\ leader' = leader /\ rest' = rest
  BY DEF StopStep, StopFindsNothing, StopUnsupervised, StopRetriesRemoval,
      StopMarks, SendStop, StopAnswered, StopFindsSupervisorGone, platform,
      osVars, identity
<1>2. ASSUME StopReturns(r, "ok"), pc[r] \in StopPCs, entry[svc[r]].confirmed
      PROVE  \A p \in Pids : owns[p] = svc[q] => ~Live(p)'
  <2>1. q = r
    BY <1>2, StopReturnsMoves DEF IInv, CInv, Covered, Moves, StopSucceeds
  <2>2. QED
    BY <1>1, <1>2, <2>1, ConfirmedMeansNothingRuns DEF Live
<1>3. CASE StopFindsNothing(r)
  <2>1. entry[svc[r]].state = "absent" => entry[svc[r]].confirmed
    BY DEF IInv, CInv, Covered, TypeOK, EntriesDescribeLaunches, EntryDescribes, NoEntry
  <2>2. QED
    BY <1>2, <1>3, <2>1 DEF StopFindsNothing, StopPCs
<1>4. CASE StopUnsupervised(r)
  <2>1. CASE StopReturns(r, "err")
    BY <2>1, ErrorIsNotSuccess
  <2>2. CASE Goto(r, "sweep")
    BY <2>2 DEF IInv, CInv, Covered, TypeOK, Goto, StopSucceeds
  <2>3. QED
    BY <1>4, <2>1, <2>2 DEF StopUnsupervised
<1>5. CASE StopRetriesRemoval(r)
  <2>1. CASE StopReturns(r, "err")
    BY <2>1, ErrorIsNotSuccess
  <2>2. CASE StopReturns(r, "ok")
    <3>1. q = r
      BY <2>2, StopReturnsMoves DEF IInv, CInv, Covered, Moves, StopSucceeds
    <3>2. SweepRunsAlone(r)
      BY <1>5, SweepAloneRuns DEF StopRetriesRemoval
    <3>3. QED
      BY <1>1, <3>1, <3>2 DEF SweepRunsAlone, Live
  <2>3. QED
    BY <1>5, <2>1, <2>2 DEF StopRetriesRemoval
<1>6. CASE StopMarks(r) \/ SendStop(r)
  BY <1>6 DEF IInv, CInv, Covered, TypeOK, StopMarks, SendStop, Goto, StopSucceeds
<1>7. CASE StopAnswered(r)
  <2>1. CASE StopReturns(r, "err")
    BY <2>1, ErrorIsNotSuccess
  <2>2. CASE pc[r] = "stopOk" /\ StopReturns(r, "ok")
    BY <1>2, <2>2 DEF IInv, CInv, Covered, StopsKnowTheirEntry, StopPCs
  <2>3. QED
    BY <1>7, <2>1, <2>2 DEF StopAnswered
<1>8. CASE StopFindsSupervisorGone(r)
  <2>1. CASE StopReturns(r, "err")
    BY <2>1, ErrorIsNotSuccess
  <2>2. CASE /\ pc[r] \in {"dropped", "send"}
             /\ entry[svc[r]].confirmed /\ StopReturns(r, "ok")
    BY <1>2, <2>2 DEF StopPCs
  <2>3. QED
    BY <1>8, <2>1, <2>2 DEF StopFindsSupervisorGone
<1>9. QED
  BY <1>3, <1>4, <1>5, <1>6, <1>7, <1>8 DEF StopStep

(* No other step ends a stop, but for a crash, which answers nobody.       *)
LEMMA OtherStepsDoNotSucceed ==
  ASSUME IInv, [Next]_vars, NEW q \in Reqs, StopSucceeds(q)
  PROVE  \E r \in Reqs : StopStep(r)
<1> USE NoneAssumption
<1> SUFFICES ASSUME \A r \in Reqs : ~StopStep(r) PROVE StaysInStop \/ ~StopSucceeds(q)
  BY StayingIsNotSucceeding
<1>1. ASSUME NEW r \in Reqs, NEW o \in Offered, NEW s \in Services, Call(r, o, s)
      PROVE  StaysInStop
  BY <1>1 DEF IInv, CInv, Covered, TypeOK, Call, Goto, StaysInStop, StopPhase
<1>2. ASSUME NEW r \in Reqs, EntersLock(r) \/ EnterGate(r)
      PROVE  StaysInStop
  BY <1>2 DEF IInv, CInv, Covered, TypeOK, EntersLock, Acquire, EnterGate, Goto, StaysInStop,
      StopPhase
<1>3. ASSUME NEW r \in Reqs, EntersRecovery(r)
      PROVE  StaysInStop
  BY <1>3 DEF IInv, CInv, Covered, TypeOK, EntersRecovery, AlreadyReconciled, BeginRecovery,
      Return, Goto, StaysInStop, StopPhase
<1>4. ASSUME NEW r \in Reqs, RecoveryStep(r)
      PROVE  StaysInStop
  <2>1. CASE RecoveryFails(r)
    <3>1. Moves(r, {"idle", "names"}) /\ pc[r] = "recovering"
      BY <2>1, FailMoves DEF IInv, CInv, Covered, RecoveryFails
    <3>2. QED
      BY <3>1 DEF Moves, StaysInStop, StopPhase
  <2>2. CASE RecoveryDone
    BY <2>2 DEF IInv, CInv, Covered, TypeOK, RecoveryDone, Recovering, Goto, StaysInStop, StopPhase
  <2>3. CASE pc' = pc
    BY <2>3 DEF StaysInStop
  <2>4. QED
    BY <1>4, <2>1, <2>2, <2>3 DEF RecoveryStep, InspectRecord,
        RecoveredGroupGone, RecoveryEscalates, RemoveRecovered, reqVars
<1>5. ASSUME NEW r \in Reqs, StartStep(r)
      PROVE  StaysInStop
  BY <1>5 DEF IInv, CInv, Covered, TypeOK, StartStep, StartAnswers, StartProceeds, Fork,
      ForkFails, JournalLaunch, LaunchFails, Release, SpawnFails, Abandon,
      Register, Return, Goto, StaysInStop, StopPhase
<1>6. ASSUME NEW r \in Reqs, ShutdownStep(r)
      PROVE  StaysInStop
  BY <1>6 DEF IInv, CInv, Covered, TypeOK, ShutdownStep, NextName, NoMoreNames, Return, Goto,
      StaysInStop, StopPhase
<1>7. ASSUME NEW p \in Pids, SupervisorStep(p)
      PROVE  StaysInStop
  <2>1. CASE pc' = pc
    BY <2>1 DEF StaysInStop
  <2>2. ASSUME NEW outcome \in {"stopOk", "stopErr"}, NEW ends \in BOOLEAN,
               Replies(p, outcome, ends)
        PROVE  StaysInStop
    BY <2>2, RepliesEffect DEF IInv, CInv, Covered, CallersAwait, StaysInStop, StopPhase
  <2>3. QED
    BY <1>7, <2>1, <2>2 DEF SupervisorStep, ReapNaturalExit, KillLeftovers,
        LeftoversRemain, ReceiveStop, ReapStopped, EscalateToKill,
        StopUnconfirmed, GroupConfirmedGone, Unjournal, Settle, reqVars
<1>8. ASSUME NEW p \in Pids, OSStep(p)
      PROVE  StaysInStop
  BY <1>8 DEF OSStep, Exec, ParkedLeaves, MemberForks, MemberEnds, PidReused,
      StrangerEnds, unchangedByOS, reqVars, StaysInStop
<1>9. CASE Crash
  BY <1>9 DEF Crash, StopSucceeds
<1>10. CASE Reborn \/ UNCHANGED vars
  BY <1>10 DEF Reborn, vars, reqVars, StaysInStop
<1>11. QED
  BY <1>1, <1>2, <1>3, <1>4, <1>5, <1>6, <1>7, <1>8, <1>9, <1>10
      DEF Next, RequestStep

(* When stop, restart or shutdown takes a stop for done, no process of the *)
(* service runs at that moment.                                            *)
THEOREM StopsMeanStopped == Spec => StopMeansStopped
<1>1. IInv /\ [Next]_vars =>
        [\A r \in Reqs : StopSucceeds(r) =>
           \A p \in Pids : owns[p] = svc[r] => ~Live(p)']_vars
  BY StopStepSucceeds, OtherStepsDoNotSucceed
<1>2. QED
  BY <1>1, InvariantHolds, PTL DEF Spec, StopMeansStopped

-----------------------------------------------------------------------------
(* Recovery.                                                               *)

RecoverySignals == recon'.phase \in {"term", "kill"} /\ recon'.phase # recon.phase

(* Only the two signalling steps of recovery send a signal.                *)
LEMMA SignalsComeFromRecovery ==
  ASSUME CInv, [Next]_vars, RecoverySignals
  PROVE  (\E s \in Services : InspectRecord(s)) \/ RecoveryEscalates
<1> USE DEF RecoverySignals
<1>1. recon' # recon /\ recon' # NoRecon
  BY DEF NoRecon
<1>2. ~(\E r \in Reqs, o \in Offered, s \in Services : Call(r, o, s))
  BY <1>1 DEF Call, manager, owner
<1>3. ~(\E r \in Reqs : EntersLock(r) \/ EntersRecovery(r) \/ EnterGate(r))
  BY <1>1 DEF EntersLock, Acquire, EntersRecovery, AlreadyReconciled,
      BeginRecovery, EnterGate, owner
<1>4. ~(\E r \in Reqs : StartStep(r))
  BY <1>1 DEF StartStep, StartAnswers, StartProceeds, Fork, ForkFails,
      JournalLaunch, LaunchFails, Release, SpawnFails, Abandon, Register,
      manager, owner
<1>5. ~(\E r \in Reqs : StopStep(r))
  BY <1>1 DEF StopStep, StopFindsNothing, StopUnsupervised,
      StopRetriesRemoval, StopMarks, SendStop, StopAnswered,
      StopFindsSupervisorGone, manager, owner
<1>6. ~(\E r \in Reqs : ShutdownStep(r))
  BY <1>1 DEF ShutdownStep, NextName, NoMoreNames, manager, owner
<1>7. ~(\E p \in Pids : SupervisorStep(p))
  BY <1>1 DEF SupervisorStep, ReapNaturalExit, KillLeftovers, LeftoversRemain,
      ReceiveStop, ReapStopped, EscalateToKill, StopUnconfirmed,
      GroupConfirmedGone, Unjournal, Settle, manager, owner
<1>8. ~(\E p \in Pids : OSStep(p))
  BY <1>1 DEF OSStep, Exec, ParkedLeaves, MemberForks, MemberEnds, PidReused,
      StrangerEnds, unchangedByOS, manager, owner
<1>9. ~Crash /\ ~Reborn /\ ~UNCHANGED vars
  BY <1>1 DEF Crash, Reborn, vars, manager, owner
<1>10. recon \in Recon
  BY DEF CInv, TypeOK
<1>11. ~RecoveredGroupGone /\ ~RemoveRecovered
  BY <1>10 DEF RecoveredGroupGone, RemoveRecovered, Recon
<1>12. ~RecoveryDone /\ \A r \in Reqs : ~RecoveryFails(r)
  BY <1>1 DEF RecoveryDone, RecoveryFails
<1>13. QED
  BY <1>2, <1>3, <1>4, <1>5, <1>6, <1>7, <1>8, <1>9, <1>11, <1>12
      DEF Next, RequestStep, RecoveryStep

(* A record inspected names an inherited process, found by its token.      *)
LEMMA InspectionSignalsRecorded ==
  ASSUME CInv, NEW s \in Services, InspectRecord(s), RecoverySignals
  PROVE  LET p == recon'.at IN
         IsRecorded(p) /\ p \in inherited /\ journal[owns[p]].pid = p
<1> DEFINE p == journal[s].pid
<1>1. /\ ~reconciled /\ p \in Pids /\ leader[p] # "unborn" /\ owns[p] = s
  BY DEF CInv, InspectRecord, Recovering, RecoveryKnowsItsRecords,
      RecordsDescribeLaunches
<1>2. p \in inherited
  BY <1>1 DEF CInv, UnreconciledIsInherited
<1>3. recon \in Recon
  BY DEF CInv, TypeOK
<1>4. IsRecorded(p) /\ recon'.at = p
  BY <1>3 DEF InspectRecord, RecoverySignals, Recon
<1>5. QED
  BY <1>1, <1>2, <1>4

(* Before SIGKILL the process is looked at again.                          *)
LEMMA EscalationSignalsRecorded ==
  ASSUME CInv, RecoveryEscalates
  PROVE  LET p == recon'.at IN
         IsRecorded(p) /\ p \in inherited /\ journal[owns[p]].pid = p
<1> DEFINE p == recon.at
<1>1. recon \in Recon
  BY DEF CInv, TypeOK
<1>2. recon'.at = p /\ recon.phase = "term" /\ IsRecorded(p)
  BY <1>1 DEF RecoveryEscalates, Recovering, Recon
<1>3. /\ ~reconciled /\ p \in Pids /\ leader[p] # "unborn"
      /\ journal[owns[p]].pid = p
  BY <1>2 DEF CInv, RecoveryKnowsItsRecords
<1>4. p \in inherited
  BY <1>3 DEF CInv, UnreconciledIsInherited
<1>5. QED
  BY <1>2, <1>3, <1>4

(* Recovery sends SIGTERM and SIGKILL only to a group whose leader is the  *)
(* process the journal describes, launched by an owner that died.          *)
THEOREM RecoveryIsPrecise == Spec => RecoverySignalsOnlyRecorded
<1>1. IInv /\ [Next]_vars =>
        [recon'.phase \in {"term", "kill"} /\ recon'.phase # recon.phase =>
           LET p == recon'.at IN
           IsRecorded(p) /\ p \in inherited /\ journal[owns[p]].pid = p]_vars
  BY SignalsComeFromRecovery, InspectionSignalsRecorded,
      EscalationSignalsRecorded DEF IInv, RecoverySignals
<1>2. QED
  BY <1>1, InvariantHolds, PTL DEF Spec, RecoverySignalsOnlyRecorded

-----------------------------------------------------------------------------
(* Dropped futures.  A launch dropped at its spawn leaves a group that no  *)
(* entry names, and a later launch may overwrite its record; a spawn that  *)
(* outlives its launch may take another's release byte or announce itself  *)
(* to it: Covered is lost.  CInv is not, because a child that no launch    *)
(* waits for is in no table (StraysKnown), and what follows from CInv      *)
(* alone holds of CancelSpec.                                              *)

(* Some table, record, request or supervisor of the owner names p.         *)
Mentioned(p) ==
  \/ p \in inherited \/ spc[p] # "none"
  \/ \E s \in Services : entry[s].pid = p \/ journal[s].pid = p
  \/ \E r \in Reqs : rpid[r] = p

TargetsAreForked == \A r \in Reqs : rpid[r] # NoPid => leader[rpid[r]] # "unborn"

StraysKnown ==
  /\ LateTypeOK
  /\ detached # {} \/ misled # {} => reconciled
  /\ TargetsAreForked
  /\ \A p \in Pids : astray[p] # 0 => leader[p] # "unborn" /\ ~Mentioned(p)

DroppedInv == CInv /\ StraysKnown

(* Dropping a future gives back what it held and touches no entry, record  *)
(* or process; what a supervisor would have answered is answered nobody.   *)
LEMMA CancelKeeps ==
  ASSUME CInv, NEW r \in Reqs, Cancel(r)
  PROVE  CInv'
<1> USE NoneAssumption
<1> USE DEF Cancel, platform, osVars, identity
<1>1. Moves(r, {"idle"})
  BY DEF CInv, TypeOK, Goto, Unlock, Moves, PCs, Ops
<1>2. /\ gate' \in Reqs \cup {NoReq}
      /\ \A q \in Reqs : q # r /\ gate = q => gate' = q
  BY DEF CInv, TypeOK
<1>3. /\ recon' = recon \/ recon' = NoRecon
      /\ recon.by = r => recon' = NoRecon
  OBVIOUS
<1>4. /\ mailbox' \in [Pids -> Reqs \cup {NoReq, Lost}]
      /\ replyTo' \in [Pids -> Reqs \cup {NoReq, Lost}]
      /\ \A p \in Pids :
           /\ mailbox'[p] \in Reqs => mailbox'[p] = mailbox[p] /\ mailbox[p] # r
           /\ replyTo'[p] \in Reqs => replyTo'[p] = replyTo[p] /\ replyTo[p] # r
  BY DEF CInv, TypeOK
<1>5. TypeOK'
  BY <1>1, <1>2, <1>3, <1>4 DEF CInv, TypeOK, Moves, PCs, LaunchPCs, NoRecon,
      Recon, ReconPhases
<1>6. PidsAreOwned' /\ RecordsDescribeLaunches' /\ EntriesDescribeLaunches' /\
    SupervisorsOwnEntries' /\ UnreconciledIsInherited'
  BY DEF CInv, PidsAreOwned, RecordsDescribeLaunches, EntriesDescribeLaunches,
      EntryDescribes, SupervisorsOwnEntries, SupervisorOwns,
      UnreconciledIsInherited, Live
<1>7. RecoveryKnowsItsRecords'
  BY <1>3 DEF CInv, RecoveryKnowsItsRecords, NoRecon, Live
<1>8. LocksAreHeld'
  BY <1>1 DEF CInv, TypeOK, LocksAreHeld, Moves, LaunchPCs, StopPCs
<1>9. LaunchesOwnTheirs'
  <2>1. ASSUME NEW q \in Reqs, q # r PROVE LaunchOwns(q)'
    <3>1. LaunchOwns(q)
      BY DEF CInv, LaunchesOwnTheirs
    <3>2. QED
      BY <1>1, <1>2, <2>1, <3>1 DEF Moves, LaunchOwns, Live
  <2>2. LaunchOwns(r)'
    BY <1>1 DEF Moves, LaunchOwns, LaunchPCs
  <2>3. QED
    BY <2>1, <2>2 DEF LaunchesOwnTheirs
<1>10. CallersAwait'
  BY <1>1, <1>4 DEF CInv, CallersAwait, Moves
<1>11. StopsKnowTheirEntry'
  BY <1>1 DEF CInv, StopsKnowTheirEntry, Moves, Live
<1>12. QED
  BY <1>5, <1>6, <1>7, <1>8, <1>9, <1>10, <1>11 DEF CInv

(* The orphan queue reaps a leader that no supervisor and no launch holds. *)
LEMMA OrphanReapedKeeps ==
  ASSUME CInv, NEW p \in Pids, OrphanReaped(p)
  PROVE  CInv'
<1> USE NoneAssumption
<1> USE DEF OrphanReaped, reqVars, callVars, targetVars, manager, tables,
    owner, identity, supVars, commandVars
<1>1. /\ leader' \in [Pids -> LeaderStates] /\ rest' = rest
      /\ \A q \in Pids : /\ (leader'[q] = "unborn") = (leader[q] = "unborn")
                         /\ (leader'[q] = "parked") = (leader[q] = "parked")
                         /\ leader'[q] = "released" => leader[q] = "released"
                         /\ Live(q)' = Live(q)
                         /\ q # p => leader'[q] = leader[q]
  BY DEF CInv, TypeOK, LeaderStates, Live
<1>2. TypeOK'
  BY <1>1 DEF CInv, TypeOK
<1>3. PidsAreOwned' /\ RecordsDescribeLaunches'
  BY <1>1 DEF CInv, PidsAreOwned, RecordsDescribeLaunches
<1>4. EntriesDescribeLaunches'
  BY <1>1 DEF CInv, EntriesDescribeLaunches, EntryDescribes
<1>5. LocksAreHeld' /\ UnreconciledIsInherited'
  BY <1>1 DEF CInv, LocksAreHeld, UnreconciledIsInherited
<1>6. LaunchesOwnTheirs'
  <2> SUFFICES ASSUME NEW r \in Reqs PROVE LaunchOwns(r)'
    BY DEF LaunchesOwnTheirs
  <2>1. LaunchOwns(r)
    BY DEF CInv, LaunchesOwnTheirs
  <2>2. pc[r] \in {"journal", "release", "spawn", "abandon"} => rpid[r] # p
    BY DEF LaunchPCs
  <2>3. QED
    BY <1>1, <2>1, <2>2 DEF LaunchOwns
<1>7. SupervisorsOwnEntries'
  BY <1>1 DEF CInv, SupervisorsOwnEntries, SupervisorOwns
<1>8. RecoveryKnowsItsRecords'
  BY <1>1 DEF CInv, RecoveryKnowsItsRecords
<1>9. CallersAwait'
  BY <1>1 DEF CInv, CallersAwait
<1>10. StopsKnowTheirEntry'
  <2>1. \A s \in Services : entry[s].state # "absent" => entry[s].pid \in Pids
    BY DEF CInv, EntriesDescribeLaunches, EntryDescribes
  <2>2. QED
    BY <1>1, <2>1 DEF CInv, TypeOK, StopsKnowTheirEntry
<1>11. QED
  BY <1>2, <1>3, <1>4, <1>5, <1>6, <1>7, <1>8, <1>9, <1>10 DEF CInv

(* A launch's spawn is that of a service, by an owner that has recovered.  *)
LEMMA SpawnsAreKnown ==
  ASSUME CInv, NEW r \in Reqs
  PROVE  /\ SpawnOf(r) \in [svc : Services, gen : Nat]
         /\ pc[r] \in LaunchPCs => reconciled /\ recon.phase = "idle"
BY DEF SpawnOf, CInv, TypeOK, LocksAreHeld, RecoveryKnowsItsRecords

(* A late child takes a pid nobody has heard of.                           *)
LEMMA LateForkKeeps ==
  ASSUME DroppedInv, NEW d \in detached, NEW p \in Pids, LateFork(d, p)
  PROVE  CInv'
<1> USE NoneAssumption
<1> USE DEF DroppedInv
<1>1. /\ leader[p] = "unborn" /\ UNCHANGED <<manager, reqVars, supVars, rest,
              journal, inherited, up, crashes>>
      /\ \E state \in {"parked", "released"} : leader' = [leader EXCEPT ![p] = state]
      /\ owns' = [owns EXCEPT ![p] = d.svc] /\ genOf' = [genOf EXCEPT ![p] = d.gen]
  BY DEF LateFork
<1>2. d.svc \in Services /\ d.gen \in Nat /\ reconciled
  BY DEF StraysKnown, LateTypeOK
<1>3. /\ recon.phase = "idle"
      /\ \A s \in Services : journal[s] # NoRecord => journal[s].pid # p
      /\ \A s \in Services : entry[s].state # "absent" => entry[s].pid # p
      /\ \A r \in Reqs : rpid[r] # p
      /\ spc[p] = "none" /\ p \notin inherited /\ ~rest[p]
  <2>1. recon.phase = "idle"
    BY <1>2 DEF CInv, RecoveryKnowsItsRecords
  <2>2. /\ \A s \in Services : journal[s] # NoRecord => journal[s].pid # p
        /\ \A s \in Services : entry[s].state # "absent" => entry[s].pid # p
    BY <1>1 DEF CInv, RecordsDescribeLaunches, EntriesDescribeLaunches, EntryDescribes
  <2>3. \A r \in Reqs : rpid[r] # p
    BY <1>1 DEF StraysKnown, TargetsAreForked
  <2>4. spc[p] = "none" /\ p \notin inherited /\ ~rest[p]
    BY <1>1 DEF CInv, PidsAreOwned
  <2>5. QED
    BY <2>1, <2>2, <2>3, <2>4
<1>4. /\ leader' \in [Pids -> LeaderStates] /\ leader'[p] \in {"parked", "released"}
      /\ owns' \in [Pids -> Services \cup {NoPid}] /\ genOf' \in [Pids -> Nat]
      /\ owns'[p] = d.svc
      /\ \A q \in Pids : q # p => /\ leader'[q] = leader[q] /\ owns'[q] = owns[q]
                                  /\ genOf'[q] = genOf[q]
  BY <1>1, <1>2 DEF CInv, TypeOK, LeaderStates
<1> USE DEF manager, tables, owner, reqVars, callVars, targetVars, supVars,
    commandVars
<1>5. TypeOK'
  BY <1>1, <1>4 DEF CInv, TypeOK
<1>6. PidsAreOwned' /\ RecordsDescribeLaunches'
  BY <1>1, <1>2, <1>3, <1>4 DEF CInv, PidsAreOwned, RecordsDescribeLaunches
<1>7. EntriesDescribeLaunches'
  BY <1>1, <1>3, <1>4 DEF CInv, EntriesDescribeLaunches, EntryDescribes, Live
<1>8. LocksAreHeld' /\ UnreconciledIsInherited' /\ RecoveryKnowsItsRecords'
  BY <1>1, <1>2, <1>3 DEF CInv, LocksAreHeld, UnreconciledIsInherited,
      RecoveryKnowsItsRecords
<1>9. LaunchesOwnTheirs'
  BY <1>1, <1>3, <1>4 DEF CInv, LaunchesOwnTheirs, LaunchOwns, HoldsPid, Live
<1>10. SupervisorsOwnEntries'
  BY <1>1, <1>3, <1>4 DEF CInv, SupervisorsOwnEntries, SupervisorOwns, Live
<1>11. CallersAwait'
  BY <1>1, <1>3, <1>4 DEF CInv, CallersAwait
<1>12. StopsKnowTheirEntry'
  BY <1>1, <1>3, <1>4 DEF CInv, TypeOK, StopsKnowTheirEntry,
      EntriesDescribeLaunches, EntryDescribes, Live
<1>13. QED
  BY <1>5, <1>6, <1>7, <1>8, <1>9, <1>10, <1>11, <1>12 DEF CInv

(* Nor is a stray child of any other concern to a launch that takes its    *)
(* announcement: it is parked, and from now on that launch's.              *)
LEMMA TakesAnnouncementKeeps ==
  ASSUME DroppedInv, NEW r \in Reqs, NEW p \in Pids, TakesAnnouncement(r, p)
  PROVE  CInv'
<1> USE NoneAssumption
<1> USE DEF DroppedInv
<1>1. /\ pc[r] = "fork" /\ leader[p] = "parked" /\ astray[p] # 0
      /\ UNCHANGED <<manager, callVars, supVars, osVars, journal, inherited, up,
                     crashes, rgen>>
      /\ owns' = [owns EXCEPT ![p] = svc[r]] /\ genOf' = [genOf EXCEPT ![p] = rgen[r]]
      /\ rpid' = [rpid EXCEPT ![r] = p] /\ pc' = [pc EXCEPT ![r] = "journal"]
  BY DEF TakesAnnouncement, Goto
<1>2. /\ p \notin inherited /\ spc[p] = "none"
      /\ \A s \in Services : entry[s].pid # p /\ journal[s].pid # p
      /\ \A q \in Reqs : rpid[q] # p
  BY <1>1 DEF StraysKnown, Mentioned
<1>3. /\ reconciled /\ recon.phase = "idle" /\ lock[svc[r]] = r /\ gate = r
      /\ entry[svc[r]].confirmed /\ svc[r] \in Services /\ rgen[r] \in Nat
  BY <1>1, SpawnsAreKnown DEF LaunchPCs, CInv, TypeOK, LocksAreHeld,
      LaunchesOwnTheirs, LaunchOwns
<1>4. /\ owns' \in [Pids -> Services \cup {NoPid}] /\ genOf' \in [Pids -> Nat]
      /\ rpid' \in [Reqs -> Pids \cup {NoPid}] /\ pc' \in [Reqs -> PCs]
      /\ owns'[p] = svc[r] /\ genOf'[p] = rgen[r]
      /\ rpid'[r] = p /\ pc'[r] = "journal"
      /\ \A q \in Pids : q # p => owns'[q] = owns[q] /\ genOf'[q] = genOf[q]
      /\ \A q \in Reqs : q # r => rpid'[q] = rpid[q] /\ pc'[q] = pc[q]
  BY <1>1, <1>3 DEF CInv, TypeOK, PCs, LaunchPCs
<1> USE DEF manager, tables, owner, callVars, supVars, commandVars, osVars
<1>5. TypeOK'
  BY <1>1, <1>4 DEF CInv, TypeOK
<1>6. PidsAreOwned' /\ RecordsDescribeLaunches' /\ UnreconciledIsInherited'
  BY <1>1, <1>2, <1>3, <1>4 DEF CInv, PidsAreOwned, RecordsDescribeLaunches,
      UnreconciledIsInherited
<1>7. EntriesDescribeLaunches'
  BY <1>1, <1>2, <1>4 DEF CInv, EntriesDescribeLaunches, EntryDescribes, Live
<1>8. LocksAreHeld' /\ RecoveryKnowsItsRecords'
  BY <1>1, <1>3, <1>4 DEF CInv, LocksAreHeld, RecoveryKnowsItsRecords, LaunchPCs,
      StopPCs
<1>9. LaunchesOwnTheirs'
  <2>1. LaunchOwns(r)'
    BY <1>1, <1>2, <1>3, <1>4 DEF LaunchOwns
  <2>2. ASSUME NEW q \in Reqs, q # r PROVE LaunchOwns(q)'
    <3>1. LaunchOwns(q)
      BY DEF CInv, LaunchesOwnTheirs
    <3>2. QED
      BY <1>1, <1>2, <1>4, <2>2, <3>1 DEF LaunchOwns, Live
  <2>3. QED
    BY <2>1, <2>2 DEF LaunchesOwnTheirs
<1>10. SupervisorsOwnEntries'
  BY <1>1, <1>2, <1>4 DEF CInv, SupervisorsOwnEntries, SupervisorOwns, Live
<1>11. CallersAwait'
  BY <1>1, <1>2, <1>4 DEF CInv, CallersAwait
<1>12. StopsKnowTheirEntry'
  BY <1>1, <1>4 DEF CInv, StopsKnowTheirEntry, Live
<1>13. QED
  BY <1>5, <1>6, <1>7, <1>8, <1>9, <1>10, <1>11, <1>12 DEF CInv

(* A stray child that runs is in no table, so nothing there is wrong.      *)
LEMMA StrayTakesReleaseKeeps ==
  ASSUME DroppedInv, NEW r \in Reqs, NEW p \in Pids, StrayTakesRelease(r, p)
  PROVE  CInv'
<1> USE NoneAssumption
<1> USE DEF DroppedInv
<1>1. /\ pc[r] = "release" /\ leader[p] = "parked" /\ astray[p] # 0
      /\ UNCHANGED <<manager, identity, callVars, supVars, targetVars, rest, journal>>
      /\ leader' = [leader EXCEPT ![p] = "released"] /\ pc' = [pc EXCEPT ![r] = "spawn"]
  BY DEF StrayTakesRelease, Goto
<1>2. /\ p \notin inherited /\ spc[p] = "none"
      /\ \A s \in Services : entry[s].pid # p /\ journal[s].pid # p
      /\ \A q \in Reqs : rpid[q] # p
  BY <1>1 DEF StraysKnown, Mentioned
<1>3. reconciled /\ recon.phase = "idle"
  BY <1>1, SpawnsAreKnown DEF LaunchPCs
<1>4. /\ leader' \in [Pids -> LeaderStates] /\ pc' \in [Reqs -> PCs]
      /\ leader'[p] = "released" /\ pc'[r] = "spawn"
      /\ \A q \in Pids : q # p => leader'[q] = leader[q]
      /\ \A q \in Reqs : q # r => pc'[q] = pc[q]
  BY <1>1 DEF CInv, TypeOK, PCs, LaunchPCs, LeaderStates
<1> USE DEF manager, identity, tables, owner, callVars, targetVars, supVars,
    commandVars
<1>5. TypeOK'
  BY <1>1, <1>4 DEF CInv, TypeOK
<1>6. PidsAreOwned' /\ RecordsDescribeLaunches' /\ UnreconciledIsInherited'
  BY <1>1, <1>2, <1>3, <1>4 DEF CInv, PidsAreOwned, RecordsDescribeLaunches,
      UnreconciledIsInherited
<1>7. EntriesDescribeLaunches'
  BY <1>1, <1>2, <1>4 DEF CInv, EntriesDescribeLaunches, EntryDescribes, Live
<1>8. LocksAreHeld' /\ RecoveryKnowsItsRecords'
  BY <1>1, <1>3, <1>4 DEF CInv, LocksAreHeld, RecoveryKnowsItsRecords, LaunchPCs,
      StopPCs
<1>9. LaunchesOwnTheirs'
  <2> SUFFICES ASSUME NEW q \in Reqs PROVE LaunchOwns(q)'
    BY DEF LaunchesOwnTheirs
  <2>1. LaunchOwns(q) /\ rpid[q] # p
    BY <1>2 DEF CInv, LaunchesOwnTheirs
  <2>2. CASE q = r
    BY <1>1, <1>4, <2>1, <2>2 DEF LaunchOwns, LaunchPCs
  <2>3. CASE q # r
    BY <1>1, <1>4, <2>1, <2>3 DEF LaunchOwns, Live
  <2>4. QED
    BY <2>2, <2>3
<1>10. SupervisorsOwnEntries'
  BY <1>1, <1>2, <1>4 DEF CInv, SupervisorsOwnEntries, SupervisorOwns, Live
<1>11. CallersAwait'
  BY <1>1, <1>2, <1>4 DEF CInv, CallersAwait
<1>12. StopsKnowTheirEntry'
  BY <1>1, <1>2, <1>4 DEF CInv, TypeOK, StopsKnowTheirEntry, Live
<1>13. QED
  BY <1>5, <1>6, <1>7, <1>8, <1>9, <1>10, <1>11, <1>12 DEF CInv

(* A misled launch that gives up leaves no record of its generation, and a *)
(* leader it reaped was not running.                                       *)
LEMMA MisledEndsKeeps ==
  ASSUME CInv, NEW r \in Reqs, MisledEnds(r)
  PROVE  CInv'
<1> USE NoneAssumption
<1>1. /\ pc[r] \in {"spawn", "abandon"} /\ gate' = NoReq
      /\ UNCHANGED <<identity, supVars, rest, reconciled, nextGen, entry, recon>>
      /\ Return(r, "err")
      /\ RemoveMatching(svc[r], rgen[r]) \/ UNCHANGED journal
  BY DEF MisledEnds
<1>2. /\ leader' \in [Pids -> LeaderStates]
      /\ \A q \in Pids : /\ (leader'[q] = "unborn") = (leader[q] = "unborn")
                         /\ (leader'[q] = "parked") = (leader[q] = "parked")
                         /\ (leader'[q] = "released") = (leader[q] = "released")
                         /\ Live(q)' = Live(q)
  <2>1. \A q \in Pids : leader'[q] = leader[q] \/ (leader[q] = "zombie" /\ leader'[q] = "dead")
    BY DEF MisledEnds
  <2>2. DOMAIN leader' = Pids /\ leader' = [q \in Pids |-> leader'[q]]
    BY DEF MisledEnds
  <2>3. QED
    BY <1>1, <2>1, <2>2 DEF CInv, TypeOK, LeaderStates, Live
<1>3. Moves(r, {"idle"})
  BY <1>1, ReturnMoves DEF CInv
<1>4. reconciled /\ recon.phase = "idle" /\ gate = r
  BY <1>1, SpawnsAreKnown DEF LaunchPCs, CInv, LaunchesOwnTheirs, LaunchOwns
<1>5. /\ journal' \in [Services -> Record]
      /\ \A s \in Services : journal'[s] = journal[s] \/ journal'[s] = NoRecord
  <2>1. svc[r] \in Services /\ rgen[r] \in Nat
    BY DEF CInv, TypeOK
  <2>2. CASE RemoveMatching(svc[r], rgen[r])
    BY <2>1, <2>2, RemoveMatchingRemoves DEF CInv, Removes
  <2>3. QED
    BY <1>1, <2>2 DEF CInv, TypeOK
<1> USE DEF identity, supVars, commandVars
<1>6. TypeOK'
  BY <1>1, <1>2, <1>3, <1>5 DEF CInv, TypeOK, Moves
<1>7. PidsAreOwned' /\ RecordsDescribeLaunches' /\ UnreconciledIsInherited'
  BY <1>1, <1>2, <1>5 DEF CInv, PidsAreOwned, RecordsDescribeLaunches,
      UnreconciledIsInherited
<1>8. EntriesDescribeLaunches'
  BY <1>1, <1>2, <1>5 DEF CInv, EntriesDescribeLaunches, EntryDescribes, NoRecord
<1>9. LocksAreHeld' /\ RecoveryKnowsItsRecords'
  <2>1. LocksAreHeld'
    BY <1>1, <1>3 DEF CInv, TypeOK, LocksAreHeld, Moves, LaunchPCs, StopPCs
  <2>2. RecoveryKnowsItsRecords'
    BY <1>1, <1>4 DEF RecoveryKnowsItsRecords
  <2>3. QED
    BY <2>1, <2>2
<1>10. LaunchesOwnTheirs'
  <2>1. LaunchOwns(r)'
    BY <1>3 DEF Moves, LaunchOwns, LaunchPCs
  <2>2. ASSUME NEW q \in Reqs, q # r PROVE LaunchOwns(q)'
    <3>1. LaunchOwns(q)
      BY DEF CInv, LaunchesOwnTheirs
    <3>2. QED
      BY <1>1, <1>3, <1>4, <2>2, <3>1 DEF CInv, TypeOK, Moves, LaunchOwns, LaunchPCs
  <2>3. QED
    BY <2>1, <2>2 DEF LaunchesOwnTheirs
<1>11. SupervisorsOwnEntries'
  <2>1. \A s \in Services : journal'[s] = journal[s] \/ journal'[s].pid = NoPid
    BY <1>5 DEF NoRecord
  <2>2. \A p \in Pids : leader[p] # "unborn" => owns[p] \in Services
    BY DEF CInv, PidsAreOwned
  <2>3. QED
    BY <1>1, <1>2, <2>1, <2>2 DEF CInv, SupervisorsOwnEntries, SupervisorOwns
<1>12. CallersAwait'
  BY <1>1, <1>2, <1>3, MovesLeavesCallers DEF Moves
<1>13. StopsKnowTheirEntry'
  <2>1. \A s \in Services : entry[s].state # "absent" => entry[s].pid \in Pids
    BY DEF CInv, EntriesDescribeLaunches, EntryDescribes
  <2>2. QED
    BY <1>1, <1>2, <1>3, <2>1 DEF CInv, TypeOK, StopsKnowTheirEntry, Moves
<1>14. QED
  BY <1>6, <1>7, <1>8, <1>9, <1>10, <1>11, <1>12, <1>13 DEF CInv

(* A step that moves no pid into a table makes nobody known.               *)
KeepsUnmentioned ==
  /\ \A p \in Pids : leader[p] # "unborn" =>
       /\ leader'[p] # "unborn"
       /\ ~Mentioned(p) => ~Mentioned(p)'
  /\ TargetsAreForked => TargetsAreForked'

LEMMA NothingNewMentioned ==
  ASSUME CInv, inherited' = inherited,
         \A p \in Pids : spc[p] = "none" => spc'[p] = "none",
         \A p \in Pids : leader[p] # "unborn" => leader'[p] # "unborn",
         \A s \in Services : entry'[s].pid \in {entry[s].pid, NoPid}
                             \/ \E r \in Reqs : rpid[r] = entry'[s].pid,
         \A s \in Services : journal'[s].pid \in {journal[s].pid, NoPid}
                             \/ \E r \in Reqs : rpid[r] = journal'[s].pid,
         \A r \in Reqs : \/ rpid'[r] \in {rpid[r], NoPid}
                         \/ \E s \in Services : entry[s].pid = rpid'[r]
                         \/ (/\ rpid'[r] \in Pids /\ leader[rpid'[r]] = "unborn"
                             /\ leader'[rpid'[r]] # "unborn")
  PROVE  KeepsUnmentioned
<1> USE NoneAssumption
<1>1. \A s \in Services :
        entry[s].pid # NoPid => entry[s].pid \in Pids /\ leader[entry[s].pid] # "unborn"
  <2> SUFFICES ASSUME NEW s \in Services
               PROVE  entry[s].pid # NoPid =>
                        entry[s].pid \in Pids /\ leader[entry[s].pid] # "unborn"
    OBVIOUS
  <2>1. EntryDescribes(s)
    BY DEF CInv, EntriesDescribeLaunches
  <2>2. NoEntry.pid = NoPid
    BY DEF NoEntry
  <2>3. QED
    BY <2>1, <2>2 DEF EntryDescribes
<1>2. \A r \in Reqs : rpid[r] \in Pids \cup {NoPid}
  BY DEF CInv, TypeOK
<1>3. TargetsAreForked => TargetsAreForked'
  BY <1>1, <1>2 DEF TargetsAreForked
<1>4. ASSUME NEW p \in Pids, leader[p] # "unborn", ~Mentioned(p)
      PROVE  ~Mentioned(p)'
  BY <1>4 DEF Mentioned
<1>5. QED
  BY <1>3, <1>4 DEF KeepsUnmentioned

(* Neither an update of an entry nor a removal names a pid.                *)
LEMMA SetEntryKeepsPids ==
  ASSUME CInv, NEW s, NEW state, NEW confirmed, NEW controlled,
         SetEntry(s, state, confirmed, controlled)
  PROVE  \A t \in Services : entry'[t].pid = entry[t].pid
<1>1. entry \in [Services -> Entry]
  BY DEF CInv, TypeOK
<1>2. \A t \in Services : entry[t] \in Entry
  BY <1>1
<1>3. \A t \in Services :
        entry'[t] = IF t = s THEN [entry[s] EXCEPT !.state = state, !.confirmed = confirmed,
                                                   !.controlled = controlled]
                    ELSE entry[t]
  BY <1>1 DEF SetEntry
<1>4. QED
  BY <1>2, <1>3 DEF Entry

LEMMA RemovalNamesNone ==
  ASSUME CInv, NEW s, NEW g, RemoveMatching(s, g)
  PROVE  \A t \in Services : journal'[t].pid \in {journal[t].pid, NoPid}
<1>1. journal \in [Services -> Record]
  BY DEF CInv, TypeOK
<1>2. \A t \in Services : journal'[t] = journal[t] \/ journal'[t] = NoRecord
  BY <1>1 DEF RemoveMatching
<1>3. NoRecord.pid = NoPid
  BY DEF NoRecord
<1>4. QED
  BY <1>2, <1>3

LEMMA StartKeepsUnmentioned ==
  ASSUME CInv, NEW r \in Reqs, StartStep(r)
  PROVE  KeepsUnmentioned
<1> USE NoneAssumption
<1>1. CASE \/ StartAnswers(r) \/ StartProceeds(r) \/ ForkFails(r)
           \/ LaunchFails(r) \/ SpawnFails(r) \/ Release(r)
  <2>1. /\ inherited' = inherited /\ spc' = spc /\ entry' = entry /\ journal' = journal
        /\ \A p \in Pids : leader[p] # "unborn" => leader'[p] # "unborn"
    BY <1>1 DEF StartAnswers, StartProceeds, ForkFails, LaunchFails, SpawnFails, Release,
        platform, identity, osVars, manager, tables, supVars, CInv, TypeOK
  <2>2. \A q \in Reqs : rpid'[q] \in {rpid[q], NoPid}
    BY <1>1 DEF StartAnswers, StartProceeds, ForkFails, LaunchFails, SpawnFails, Release,
        Return, targetVars, CInv, TypeOK
  <2>3. QED
    BY <2>1, <2>2, NothingNewMentioned
<1>2. ASSUME NEW p \in Pids, Fork(r, p) PROVE KeepsUnmentioned
  <2>1. /\ inherited' = inherited /\ spc' = spc /\ entry' = entry /\ journal' = journal
        /\ leader[p] = "unborn" /\ leader' = [leader EXCEPT ![p] = "parked"]
        /\ rpid' = [rpid EXCEPT ![r] = p]
    BY <1>2 DEF Fork, manager, tables, supVars
  <2>2. QED
    BY <2>1, NothingNewMentioned DEF CInv, TypeOK
<1>3. CASE JournalLaunch(r)
  <2>1. /\ inherited' = inherited /\ spc' = spc /\ entry' = entry /\ leader' = leader
        /\ rpid' = rpid
        /\ \A s \in Services : journal'[s].pid \in {journal[s].pid, rpid[r]}
    BY <1>3 DEF JournalLaunch, manager, tables, supVars, identity, osVars, targetVars,
        CInv, TypeOK
  <2>2. QED
    BY <2>1, NothingNewMentioned
<1>4. CASE Abandon(r)
  <2>2. \A s \in Services : journal'[s].pid \in {journal[s].pid, NoPid}
    BY <1>4, RemovalNamesNone DEF Abandon
  <2>3. /\ inherited' = inherited /\ spc' = spc /\ entry' = entry
        /\ \A q \in Reqs : rpid'[q] \in {rpid[q], NoPid}
        /\ \A p \in Pids : leader[p] # "unborn" => leader'[p] # "unborn"
    BY <1>4 DEF Abandon, Return, identity, supVars, CInv, TypeOK
  <2>4. QED
    BY <2>2, <2>3, NothingNewMentioned
<1>5. CASE Register(r)
  <2>1. HoldsPid(r) /\ LaunchOwns(r)
    BY <1>5 DEF Register, HoldsPid, CInv, LaunchesOwnTheirs
  <2>2. /\ inherited' = inherited /\ leader' = leader /\ journal' = journal
        /\ spc' = [spc EXCEPT ![rpid[r]] = "watch"]
        /\ \A q \in Reqs : rpid'[q] \in {rpid[q], NoPid}
        /\ \A s \in Services : entry'[s].pid \in {entry[s].pid, rpid[r]}
    BY <1>5 DEF Register, Return, platform, osVars, identity, CInv, TypeOK
  <2>3. ASSUME NEW p \in Pids, ~Mentioned(p) PROVE ~Mentioned(p)'
    BY <2>1, <2>2, <2>3 DEF Mentioned, LaunchOwns, CInv, TypeOK
  <2>4. TargetsAreForked => TargetsAreForked'
    BY <2>2 DEF TargetsAreForked
  <2>5. QED
    BY <2>2, <2>3, <2>4 DEF KeepsUnmentioned
<1>6. QED
  BY <1>1, <1>2, <1>3, <1>4, <1>5 DEF StartStep

LEMMA StopKeepsUnmentioned ==
  ASSUME CInv, NEW r \in Reqs, StopStep(r) \/ ShutdownStep(r)
  PROVE  KeepsUnmentioned
<1> USE NoneAssumption
<1>1. inherited' = inherited /\ spc' = spc /\ leader' = leader
  BY DEF StopStep, ShutdownStep, StopFindsNothing, StopUnsupervised, StopRetriesRemoval,
      StopMarks, SendStop, StopAnswered, StopFindsSupervisorGone, NextName, NoMoreNames,
      platform, identity, osVars, supVars
<1>2. \A s \in Services : entry'[s].pid = entry[s].pid
  BY SetEntryKeepsPids DEF StopStep, ShutdownStep, StopFindsNothing, StopUnsupervised, StopRetriesRemoval,
      StopMarks, SendStop, StopAnswered, StopFindsSupervisorGone, NextName, NoMoreNames,
      manager, tables, SetState
<1>3. \A s \in Services : journal'[s].pid \in {journal[s].pid, NoPid}
  BY RemovalNamesNone DEF StopStep, ShutdownStep, StopFindsNothing, StopUnsupervised, StopRetriesRemoval,
      StopMarks, SendStop, StopAnswered, StopFindsSupervisorGone, NextName, NoMoreNames,
      platform
<1>4. \A q \in Reqs : rpid'[q] \in {rpid[q], NoPid} \/ rpid'[q] = entry[svc[r]].pid
  BY DEF StopStep, ShutdownStep, StopFindsNothing, StopUnsupervised, StopRetriesRemoval,
      StopMarks, SendStop, StopAnswered, StopFindsSupervisorGone, NextName, NoMoreNames,
      StopReturns, Return, targetVars, CInv, TypeOK
<1>5. svc[r] \in Services
  BY DEF CInv, TypeOK
<1>6. QED
  BY <1>1, <1>2, <1>3, <1>4, <1>5, NothingNewMentioned

LEMMA RecoveryKeepsUnmentioned ==
  ASSUME CInv, NEW r \in Reqs,
         RecoveryStep(r) \/ EntersLock(r) \/ EntersRecovery(r) \/ EnterGate(r)
  PROVE  KeepsUnmentioned
<1> USE NoneAssumption
<1>1. inherited' = inherited /\ spc' = spc /\ leader' = leader /\ entry' = entry
  BY DEF RecoveryStep, InspectRecord, RecoveredGroupGone, RecoveryEscalates,
      RemoveRecovered, RecoveryFails, RecoveryDone, EntersLock, Acquire, EntersRecovery,
      AlreadyReconciled, BeginRecovery, EnterGate, platform, identity, osVars, supVars,
      manager, tables
<1>2. \A s \in Services : journal'[s].pid \in {journal[s].pid, NoPid}
  BY RemovalNamesNone DEF RecoveryStep, InspectRecord, RecoveredGroupGone, RecoveryEscalates,
      RemoveRecovered, RecoveryFails, RecoveryDone, EntersLock, Acquire, EntersRecovery,
      AlreadyReconciled, BeginRecovery, EnterGate, platform
<1>3. \A q \in Reqs : rpid'[q] \in {rpid[q], NoPid}
  BY DEF RecoveryStep, InspectRecord, RecoveredGroupGone, RecoveryEscalates,
      RemoveRecovered, RecoveryFails, RecoveryDone, EntersLock, Acquire, EntersRecovery,
      AlreadyReconciled, BeginRecovery, EnterGate, reqVars, targetVars, Fail,
      StopReturns, Return, CInv, TypeOK
<1>4. QED
  BY <1>1, <1>2, <1>3, NothingNewMentioned

LEMMA SupervisorKeepsUnmentioned ==
  ASSUME CInv, NEW p \in Pids, SupervisorStep(p)
  PROVE  KeepsUnmentioned
<1> USE NoneAssumption
<1>1. inherited' = inherited /\ rpid' = rpid
  BY DEF SupervisorStep, ReapNaturalExit, KillLeftovers, LeftoversRemain, ReceiveStop,
      ReapStopped, EscalateToKill, StopUnconfirmed, GroupConfirmedGone, Unjournal, Settle,
      platform, identity, reqVars, targetVars
<1>2. \A q \in Pids : /\ spc[q] = "none" => spc'[q] = "none"
                      /\ leader[q] # "unborn" => leader'[q] # "unborn"
  <2>1. /\ leader \in [Pids -> LeaderStates] /\ spc \in [Pids -> SupPCs]
        /\ spc[p] # "none"
    BY DEF CInv, TypeOK, SupervisorStep, ReapNaturalExit, KillLeftovers, LeftoversRemain,
        ReceiveStop, ReapStopped, EscalateToKill, StopUnconfirmed, GroupConfirmedGone,
        Unjournal, Settle
  <2>2. /\ leader' = leader \/ leader' = [leader EXCEPT ![p] = "dead"]
        /\ spc' = spc \/ \E x : spc' = [spc EXCEPT ![p] = x]
    BY DEF SupervisorStep, ReapNaturalExit, KillLeftovers, LeftoversRemain, ReceiveStop,
        ReapStopped, EscalateToKill, StopUnconfirmed, GroupConfirmedGone, Unjournal, Settle,
        platform, osVars, supVars
  <2>3. QED
    BY <2>1, <2>2
<1>3. \A s \in Services : entry'[s].pid = entry[s].pid
  BY SetEntryKeepsPids DEF SupervisorStep, ReapNaturalExit, KillLeftovers, LeftoversRemain, ReceiveStop,
      ReapStopped, EscalateToKill, StopUnconfirmed, GroupConfirmedGone, Unjournal, Settle,
      manager, tables
<1>4. \A s \in Services : journal'[s].pid \in {journal[s].pid, NoPid}
  BY RemovalNamesNone DEF SupervisorStep, ReapNaturalExit, KillLeftovers, LeftoversRemain, ReceiveStop,
      ReapStopped, EscalateToKill, StopUnconfirmed, GroupConfirmedGone, Unjournal, Settle,
      platform
<1>5. QED
  BY <1>1, <1>2, <1>3, <1>4, NothingNewMentioned

LEMMA OSKeepsUnmentioned ==
  ASSUME CInv, NEW p \in Pids, OSStep(p)
  PROVE  KeepsUnmentioned
<1>1. UNCHANGED <<inherited, spc, entry, journal, rpid>>
  BY DEF OSStep, Exec, ParkedLeaves, MemberForks, MemberEnds, PidReused, StrangerEnds,
      unchangedByOS, identity, manager, tables, reqVars, targetVars, supVars
<1>2. \A q \in Pids : leader[q] # "unborn" => leader'[q] # "unborn"
  BY DEF OSStep, Exec, ParkedLeaves, MemberForks, MemberEnds, PidReused, StrangerEnds,
      Ended, CInv, TypeOK
<1>3. QED
  BY <1>1, <1>2, NothingNewMentioned

(* No step of a living owner but a fork or a taken announcement makes a    *)
(* pid known to it.                                                        *)
LEMMA NextKeepsUnmentioned ==
  ASSUME CInv, [Next]_vars, ~Crash
  PROVE  KeepsUnmentioned /\ (reconciled => reconciled')
<1>1. KeepsUnmentioned
  <2>1. ASSUME NEW r \in Reqs, NEW o \in Offered, NEW s \in Services, Call(r, o, s)
        PROVE  UNCHANGED <<leader, inherited, spc, entry, journal, rpid>>
    BY <2>1 DEF Call, platform, osVars, identity, manager, tables, supVars, targetVars
  <2>2. CASE Reborn \/ UNCHANGED vars
    <3>1. UNCHANGED <<leader, inherited, spc, entry, journal, rpid>>
      BY <2>2 DEF Reborn, vars, platform, osVars, identity, manager, tables, supVars,
          reqVars, targetVars
    <3>2. QED
      BY <3>1, NothingNewMentioned
  <2>3. QED
    BY <2>1, <2>2, NothingNewMentioned, StartKeepsUnmentioned, StopKeepsUnmentioned,
        RecoveryKeepsUnmentioned, SupervisorKeepsUnmentioned, OSKeepsUnmentioned
        DEF Next, RequestStep
<1>2. reconciled => reconciled'
  <2>1. ASSUME NEW r \in Reqs, RequestStep(r) PROVE reconciled => reconciled'
    BY <2>1 DEF RequestStep, RecoveryStep, InspectRecord, RecoveredGroupGone,
        RecoveryEscalates, RemoveRecovered, RecoveryFails, RecoveryDone, StartStep,
        StartAnswers, StartProceeds, Fork, ForkFails, JournalLaunch, LaunchFails, Release,
        SpawnFails, Abandon, Register, StopStep, StopFindsNothing, StopUnsupervised,
        StopRetriesRemoval, StopMarks, SendStop, StopAnswered, StopFindsSupervisorGone,
        ShutdownStep, NextName, NoMoreNames, manager, owner
  <2>2. ASSUME NEW p \in Pids, SupervisorStep(p) \/ OSStep(p) PROVE reconciled' = reconciled
    BY <2>2 DEF SupervisorStep, ReapNaturalExit, KillLeftovers, LeftoversRemain,
        ReceiveStop, ReapStopped, EscalateToKill, StopUnconfirmed, GroupConfirmedGone,
        Unjournal, Settle, OSStep, Exec, ParkedLeaves, MemberForks, MemberEnds, PidReused,
        StrangerEnds, unchangedByOS, manager, owner
  <2>3. QED
    BY <2>1, <2>2 DEF Next, Call, EntersLock, Acquire, EntersRecovery, AlreadyReconciled,
        BeginRecovery, EnterGate, Reborn, vars, manager, owner
<1>3. QED
  BY <1>1, <1>2

(* Nothing is mentioned by a step of another kind.                         *)
LEMMA UnmentionedStay ==
  ASSUME DroppedInv,
         UNCHANGED <<inherited, spc, entry, journal, rpid, reconciled, lateVars>>,
         \A p \in Pids : leader[p] # "unborn" => leader'[p] # "unborn"
  PROVE  StraysKnown'
<1>1. KeepsUnmentioned
  BY NothingNewMentioned DEF DroppedInv
<1>2. QED
  BY <1>1 DEF DroppedInv, KeepsUnmentioned, StraysKnown, LateTypeOK, lateVars

(* A stray child stays unknown to the tables until a launch takes it.      *)
LEMMA LateStepKeepsStrays ==
  ASSUME DroppedInv, LateStep
  PROVE  StraysKnown'
<1> USE NoneAssumption DEF DroppedInv
<1>1. ASSUME NEW d \in detached, LateSpawnFails(d) PROVE StraysKnown'
  <2>1. detached' = detached \ {d} /\ UNCHANGED <<vars, astray, misled>>
    BY <1>1 DEF LateSpawnFails
  <2>2. UNCHANGED <<leader, inherited, spc, entry, journal, rpid, reconciled>>
    BY <2>1 DEF vars, platform, osVars, identity, manager, tables, owner, supVars,
        reqVars, targetVars
  <2>3. KeepsUnmentioned
    BY <2>2, NothingNewMentioned
  <2>4. QED
    BY <2>1, <2>2, <2>3 DEF KeepsUnmentioned, StraysKnown, LateTypeOK
<1>2. ASSUME NEW d \in detached, NEW p \in Pids, LateFork(d, p) PROVE StraysKnown'
  <2>1. /\ leader[p] = "unborn" /\ detached' = detached \ {d} /\ misled' = misled
        /\ UNCHANGED <<inherited, spc, entry, journal, rpid, reconciled>>
        /\ leader'[p] # "unborn"
        /\ \A q \in Pids : q # p => leader'[q] = leader[q]
    BY <1>2 DEF LateFork, manager, tables, owner, supVars, reqVars, targetVars, CInv,
        TypeOK
  <2>2. /\ astray' \in [Pids -> Nat]
        /\ \A q \in Pids : q # p => astray'[q] = astray[q]
    BY <1>2 DEF LateFork, StraysKnown, LateTypeOK, CInv, TypeOK
  <2>3. ~Mentioned(p)
    <3>1. \A s \in Services : journal[s].pid # p
      BY <2>1 DEF CInv, RecordsDescribeLaunches, NoRecord
    <3>2. \A s \in Services : entry[s].pid # p
      BY <2>1 DEF CInv, EntriesDescribeLaunches, EntryDescribes, NoEntry
    <3>3. p \notin inherited /\ spc[p] = "none"
      BY <2>1 DEF CInv, PidsAreOwned
    <3>4. \A r \in Reqs : rpid[r] # p
      BY <2>1 DEF StraysKnown, TargetsAreForked
    <3>5. QED
      BY <3>1, <3>2, <3>3, <3>4 DEF Mentioned
  <2>4. \A q \in Pids : Mentioned(q)' = Mentioned(q)
    BY <2>1 DEF Mentioned
  <2>5. TargetsAreForked'
    BY <2>1 DEF StraysKnown, TargetsAreForked, CInv, TypeOK
  <2>6. QED
    BY <2>1, <2>2, <2>3, <2>4, <2>5 DEF StraysKnown, LateTypeOK
<1>3. ASSUME NEW r \in Reqs, NEW p \in Pids, TakesAnnouncement(r, p) PROVE StraysKnown'
  <2>1. /\ pc[r] = "fork" /\ leader[p] = "parked" /\ rpid' = [rpid EXCEPT ![r] = p]
        /\ UNCHANGED <<leader, inherited, spc, entry, journal, reconciled>>
        /\ astray' = [astray EXCEPT ![p] = 0] /\ misled' = misled \cup {r}
        /\ detached' = detached \cup {SpawnOf(r)}
    BY <1>3 DEF TakesAnnouncement, manager, tables, owner, supVars, osVars
  <2>2. SpawnOf(r) \in [svc : Services, gen : Nat] /\ reconciled
    BY <2>1, SpawnsAreKnown DEF LaunchPCs
  <2>3. ASSUME NEW q \in Pids, astray'[q] # 0
        PROVE  leader'[q] # "unborn" /\ ~Mentioned(q)'
    <3>1. q # p /\ astray[q] # 0
      BY <2>1, <2>3 DEF StraysKnown, LateTypeOK
    <3>2. QED
      BY <2>1, <3>1 DEF StraysKnown, Mentioned, CInv, TypeOK
  <2>4. TargetsAreForked'
    BY <2>1 DEF StraysKnown, TargetsAreForked, CInv, TypeOK
  <2>5. QED
    BY <2>1, <2>2, <2>3, <2>4 DEF StraysKnown, LateTypeOK
<1>4. ASSUME NEW r \in Reqs, NEW p \in Pids, StrayTakesRelease(r, p) PROVE StraysKnown'
  <2>1. /\ UNCHANGED <<inherited, spc, entry, journal, rpid, reconciled, lateVars>>
        /\ \A q \in Pids : leader[q] # "unborn" => leader'[q] # "unborn"
    BY <1>4 DEF StrayTakesRelease, manager, tables, owner, supVars, identity, targetVars,
        CInv, TypeOK
  <2>2. QED
    BY <2>1, UnmentionedStay
<1>5. ASSUME NEW r \in Reqs, MisledEnds(r) PROVE StraysKnown'
  <2>2. \A s \in Services : journal'[s].pid \in {journal[s].pid, NoPid}
    BY <1>5, RemovalNamesNone DEF MisledEnds
  <2>3. /\ UNCHANGED <<inherited, spc, entry, reconciled, detached, astray>>
        /\ \A q \in Pids : leader[q] # "unborn" => leader'[q] # "unborn"
        /\ \A q \in Reqs : rpid'[q] \in {rpid[q], NoPid}
        /\ misled' = misled \ {r}
    BY <1>5 DEF MisledEnds, Return, identity, supVars, CInv, TypeOK
  <2>4. KeepsUnmentioned
    BY <2>2, <2>3, NothingNewMentioned
  <2>5. QED
    BY <2>3, <2>4 DEF KeepsUnmentioned, StraysKnown, LateTypeOK
<1>6. QED
  BY <1>1, <1>2, <1>3, <1>4, <1>5 DEF LateStep

(* Nor does dropping a future or reaping an orphan name it.                *)
LEMMA DroppingKeepsStrays ==
  ASSUME DroppedInv,
         \/ \E r \in Reqs : Cancel(r)
         \/ \E p \in Pids : OrphanReaped(p)
  PROVE  StraysKnown'
<1> USE NoneAssumption DEF DroppedInv
<1>1. ASSUME NEW r \in Reqs, Cancel(r) PROVE StraysKnown'
  <2>1. /\ UNCHANGED <<leader, inherited, spc, entry, journal, reconciled, astray>>
        /\ \A q \in Reqs : rpid'[q] \in {rpid[q], NoPid}
        /\ misled' = misled \ {r}
    BY <1>1 DEF Cancel, platform, osVars, identity, CInv, TypeOK
  <2>2. KeepsUnmentioned
    BY <2>1, NothingNewMentioned
  <2>3. \/ detached' = detached
        \/ detached' = detached \cup {SpawnOf(r)} /\ pc[r] = "fork"
    BY <1>1 DEF Cancel
  <2>4. /\ detached' \subseteq [svc : Services, gen : Nat]
        /\ detached' # {} => reconciled
    BY <2>3, SpawnsAreKnown DEF StraysKnown, LateTypeOK, LaunchPCs
  <2>5. QED
    BY <2>1, <2>2, <2>4 DEF KeepsUnmentioned, StraysKnown, LateTypeOK
<1>2. ASSUME NEW p \in Pids, OrphanReaped(p) PROVE StraysKnown'
  <2>1. /\ UNCHANGED <<inherited, spc, entry, journal, rpid, reconciled, lateVars>>
        /\ \A q \in Pids : leader[q] # "unborn" => leader'[q] # "unborn"
    BY <1>2 DEF OrphanReaped, manager, tables, owner, supVars, identity, reqVars,
        targetVars, CInv, TypeOK
  <2>2. QED
    BY <2>1, UnmentionedStay
<1>3. QED
  BY <1>1, <1>2

(* A step of the process manager names no stray child, and takes all spawns *)
(* with it when the owner dies.                                            *)
LEMMA NextKeepsStrays ==
  ASSUME DroppedInv, Next \/ UNCHANGED vars, DieWithOwner
  PROVE  StraysKnown'
<1> USE NoneAssumption DEF DroppedInv
<1>1. CASE Crash
  <2>1. detached' = {} /\ astray' = [p \in Pids |-> 0] /\ misled' = {}
    BY <1>1 DEF DieWithOwner, Crash
  <2>2. TargetsAreForked'
    BY <1>1 DEF Crash, TargetsAreForked
  <2>3. QED
    BY <2>1, <2>2 DEF StraysKnown, LateTypeOK
<1>2. CASE ~Crash
  <2>1. KeepsUnmentioned /\ (reconciled => reconciled')
    BY <1>2, NextKeepsUnmentioned
  <2>2. \/ UNCHANGED <<detached, astray, misled>>
        \/ detached' = {} /\ astray' = [p \in Pids |-> 0] /\ misled' = {}
    BY DEF DieWithOwner, lateVars
  <2>3. QED
    BY <2>1, <2>2 DEF KeepsUnmentioned, StraysKnown, LateTypeOK
<1>3. QED
  BY <1>1, <1>2

LEMMA DroppedInit == Init /\ LateInit => DroppedInv
<1> SUFFICES ASSUME Init, LateInit PROVE DroppedInv
  OBVIOUS
<1>1. CInv
  BY InitInv DEF IInv
<1>2. StraysKnown
  BY NoneAssumption DEF Init, LateInit, StraysKnown, LateTypeOK, TargetsAreForked
<1>3. QED
  BY <1>1, <1>2 DEF DroppedInv

(* Every step keeps both, whoever goes away.                               *)
LEMMA CancelNextKeeps ==
  ASSUME DroppedInv, [CancelNext]_cancelVars
  PROVE  DroppedInv'
<1>1. CASE Next /\ DieWithOwner
  BY <1>1, NextKeepsBoth, NextKeepsStrays DEF DroppedInv, Keeps
<1>2. CASE LateStep
  <2>1. ASSUME NEW d \in detached, LateSpawnFails(d) PROVE CInv'
    BY <2>1, StutterKeeps DEF LateSpawnFails, DroppedInv, Keeps
  <2>2. CInv'
    BY <1>2, <2>1, LateForkKeeps, TakesAnnouncementKeeps, StrayTakesReleaseKeeps,
        MisledEndsKeeps DEF LateStep, DroppedInv
  <2>3. QED
    BY <1>2, <2>2, LateStepKeepsStrays DEF DroppedInv
<1>3. CASE (\E r \in Reqs : Cancel(r)) \/ (\E p \in Pids : OrphanReaped(p))
  BY <1>3, CancelKeeps, OrphanReapedKeeps, DroppingKeepsStrays DEF DroppedInv
<1>4. CASE UNCHANGED cancelVars
  <2>1. UNCHANGED <<vars, lateVars>>
    BY <1>4 DEF cancelVars
  <2>2. CInv'
    BY <2>1, StutterKeeps DEF DroppedInv, Keeps
  <2>3. UNCHANGED <<leader, inherited, spc, entry, journal, rpid, reconciled>>
    BY <2>1 DEF vars, platform, osVars, identity, manager, tables, owner, supVars,
        reqVars, targetVars
  <2>4. QED
    BY <2>1, <2>2, <2>3, UnmentionedStay DEF DroppedInv
<1>5. QED
  BY <1>1, <1>2, <1>3, <1>4 DEF CancelNext

(* The part of the invariant that survives dropped futures, and what is    *)
(* known of the children whose launch no longer waits for them: they are   *)
(* in no table, no record and no request.                                  *)
THEOREM DroppedFuturesKeepTheRest == CancelSpec => [](CInv /\ StraysKnown)
<1>1. DroppedInv => CInv /\ StraysKnown
  BY DEF DroppedInv
<1>2. QED
  BY <1>1, DroppedInit, CancelNextKeeps, PTL DEF CancelSpec

(* Even with futures dropped anywhere and children forked after their      *)
(* launch is gone, cleanup_confirmed is never set while a process or a     *)
(* record of that launch is left.                                          *)
THEOREM ConfirmedEntriesStayGone == CancelSpec => []ConfirmedIsGone
<1>1. CInv /\ StraysKnown => ConfirmedIsGone
  BY DEF CInv, EntriesDescribeLaunches, EntryDescribes, ConfirmedIsGone
<1>2. QED
  BY <1>1, DroppedFuturesKeepTheRest, PTL

(* A recovery cut short and begun again by another request still signals   *)
(* only groups the journal describes.                                      *)
THEOREM CutRecoveryIsPrecise == CancelSpec => RecoverySignalsOnlyRecorded
<1>1. CInv /\ StraysKnown /\ [CancelNext]_cancelVars =>
        [recon'.phase \in {"term", "kill"} /\ recon'.phase # recon.phase =>
           LET p == recon'.at IN
           IsRecorded(p) /\ p \in inherited /\ journal[owns[p]].pid = p]_vars
  <2>1. ASSUME NEW r \in Reqs, Cancel(r) PROVE ~RecoverySignals
    BY <2>1 DEF Cancel, NoRecon, RecoverySignals
  <2>2. ASSUME NEW p \in Pids, OrphanReaped(p) PROVE ~RecoverySignals
    BY <2>2 DEF OrphanReaped, manager, owner, RecoverySignals
  <2>3. ASSUME LateStep PROVE ~RecoverySignals
    BY <2>3 DEF LateStep, LateSpawnFails, LateFork, TakesAnnouncement, StrayTakesRelease,
        MisledEnds, vars, manager, owner, RecoverySignals
  <2>4. QED
    BY <2>1, <2>2, <2>3, SignalsComeFromRecovery, InspectionSignalsRecorded,
        EscalationSignalsRecorded DEF CancelNext, cancelVars, RecoverySignals
<1>2. QED
  BY <1>1, DroppedFuturesKeepTheRest, PTL DEF CancelSpec,
      RecoverySignalsOnlyRecorded

-----------------------------------------------------------------------------
(* Refinement: each step adds a record, lets a group begin or end, drops a  *)
(* record, or is invisible to ServiceOwnership.                            *)

noted == [s \in Services |-> journal[s].pid]
live == {p \in Pids : Live(p)}
spent == {p \in Pids : leader[p] \notin {"unborn", "parked"}}

(* The journal stays, and no group begins or stops to run.                 *)
Invisible ==
  /\ journal' = journal
  /\ \A p \in Pids : Live(p)' = Live(p)
  /\ \A p \in Pids : (leader'[p] \in {"unborn", "parked"}) = (leader[p] \in {"unborn", "parked"})

(* A step that only matters to requests is a stutter of the promise.       *)
LEMMA InvisibleStutters ==
  ASSUME Invisible
  PROVE  UNCHANGED Ownership!vars
<1>1. noted' = noted
  BY DEF Invisible, noted
<1>2. live' = live
  BY DEF Invisible, live
<1>3. spent' = spent
  BY DEF Invisible, spent
<1>4. QED
  BY <1>1, <1>2, <1>3 DEF Ownership!vars, noted, live, spent

(* Removing the record of a service nothing runs for forgets it.           *)
LEMMA RemovalForgets ==
  ASSUME IInv, NEW s \in Services, NEW g \in Nat, Removes(s, g),
         \A p \in Pids : Live(p) => owns[p] # s,
         \A p \in Pids : Live(p)' = Live(p),
         \A p \in Pids :
           (leader'[p] \in {"unborn", "parked"}) = (leader[p] \in {"unborn", "parked"})
  PROVE  [Ownership!Next]_Ownership!vars
<1> USE NoneAssumption
<1>1. CASE journal'[s] = journal[s] \/ journal[s] = NoRecord
  <2>1. \A t \in Services : journal'[t] = journal[t]
    BY <1>1 DEF Removes
  <2>2. noted' = noted
    BY <2>1 DEF noted
  <2>3. live' = live /\ spent' = spent
    BY DEF live, spent
  <2>4. QED
    BY <2>2, <2>3 DEF Ownership!vars, noted, live, spent
<1>2. CASE journal'[s] = NoRecord /\ journal[s] # NoRecord
  <2>1. journal[s].pid \in Pids /\ owns[journal[s].pid] = s
    BY <1>2 DEF IInv, CInv, Covered, RecordsDescribeLaunches
  <2>2. noted[s] # NoPid /\ noted[s] \notin live
    BY <2>1 DEF noted, live
  <2>3. noted' = [noted EXCEPT ![s] = NoPid]
    <3>1. \A t \in Services : journal'[t].pid = IF t = s THEN NoPid ELSE journal[t].pid
      BY <1>2 DEF Removes, NoRecord
    <3>2. QED
      BY <3>1 DEF noted
  <2>4. live' = live /\ spent' = spent
    BY DEF live, spent
  <2>5. Ownership!Forget(s)
    BY <2>2, <2>3, <2>4 DEF Ownership!Forget, noted, live, spent
  <2>6. QED
    BY <2>5 DEF Ownership!Next
<1>3. QED
  BY <1>1, <1>2 DEF Removes

(* Initially nothing is noted and nothing has run.                         *)
LEMMA InitImplements == Init => Ownership!Init
<1> SUFFICES ASSUME Init PROVE Ownership!Init
  OBVIOUS
<1>1. noted = [s \in Services |-> NoPid]
  BY DEF Init, noted, NoRecord
<1>2. live = {} /\ spent = {}
  BY DEF Init, live, spent, Live
<1>3. QED
  BY <1>1, <1>2 DEF Ownership!Init, noted, live, spent

(* Writing the record of a parked child notes it.                          *)
LEMMA JournalLaunchNotes ==
  ASSUME IInv, NEW r \in Reqs, JournalLaunch(r)
  PROVE  Ownership!Next
<1> USE NoneAssumption DEF JournalLaunch, osVars, identity
<1>1. LaunchAlone(r) /\ LaunchRunsAlone(r)
  BY LaunchIsAlone, LaunchAloneRuns DEF IInv, LaunchPCs
<1>2. svc[r] \in Services /\ rpid[r] \in Pids
  BY <1>1 DEF IInv, CInv, Covered, TypeOK, LaunchAlone, HoldsPid
<1>3. leader[rpid[r]] = "parked"
  BY DEF IInv, CInv, Covered, LaunchesOwnTheirs, LaunchOwns
<1>4. noted[svc[r]] \notin live
  BY <1>1, <1>2 DEF IInv, CInv, Covered, RecordsDescribeLaunches, noted, live, LaunchAlone,
      LaunchRunsAlone, NoRecord
<1>5. rpid[r] \notin spent
  BY <1>2, <1>3 DEF spent
<1>6. noted' = [noted EXCEPT ![svc[r]] = rpid[r]]
  BY <1>2 DEF IInv, CInv, Covered, TypeOK, noted
<1>7. live' = live /\ spent' = spent
  BY DEF live, spent, Live
<1>8. PICK s \in Services, p \in Pids : s = svc[r] /\ p = rpid[r]
  BY <1>2
<1>9. Ownership!Note(s, p)
  BY <1>4, <1>5, <1>6, <1>7, <1>8 DEF Ownership!Note, noted, live, spent
<1>10. QED
  BY <1>9 DEF Ownership!Next

(* The release byte lets the noted child begin.                            *)
LEMMA ReleaseBegins ==
  ASSUME IInv, NEW r \in Reqs, Release(r)
  PROVE  Ownership!Next
<1> USE DEF Release, identity
<1>1. LaunchOwns(r)
  BY DEF IInv, CInv, Covered, LaunchesOwnTheirs
<1>2. svc[r] \in Services /\ rpid[r] \in Pids /\ leader[rpid[r]] = "parked"
  BY <1>1 DEF IInv, CInv, Covered, TypeOK, LaunchOwns
<1>3. journal[svc[r]].pid = rpid[r]
  <2>1. journal[svc[r]] = [gen |-> rgen[r], pid |-> rpid[r]]
    BY <1>1 DEF LaunchOwns
  <2>2. QED
    BY <2>1
<1>4. leader' = [leader EXCEPT ![rpid[r]] = "released"] /\ leader \in [Pids -> LeaderStates]
  BY DEF IInv, CInv, Covered, TypeOK
<1>5. live' = live \cup {rpid[r]} /\ spent' = spent \cup {rpid[r]}
  BY <1>2, <1>4 DEF live, spent, Live
<1>6. rpid[r] \notin spent /\ noted' = noted /\ noted[svc[r]] = rpid[r]
  BY <1>2, <1>3 DEF spent, noted
<1>7. PICK p \in Pids : p = rpid[r]
  BY <1>2
<1>8. Ownership!Begin(p)
  BY <1>2, <1>5, <1>6, <1>7 DEF Ownership!Begin, noted, live, spent
<1>9. QED
  BY <1>8 DEF Ownership!Next

(* The records that requests and supervisors remove are of groups that     *)
(* are gone.                                                               *)
LEMMA RemovalsForget ==
  ASSUME IInv,
         \/ \E r \in Reqs : Abandon(r) \/ StopRetriesRemoval(r)
         \/ \E p \in Pids : Unjournal(p)
         \/ RemoveRecovered /\ recon.by \in Reqs
  PROVE  [Ownership!Next]_Ownership!vars
<1> USE NoneAssumption
<1>1. ASSUME NEW r \in Reqs, Abandon(r)
      PROVE  [Ownership!Next]_Ownership!vars
  <2>1. LaunchRunsAlone(r) /\ pc[r] = "abandon" /\ svc[r] \in Services /\ rgen[r] \in Nat
    BY <1>1, LaunchAloneRuns DEF IInv, CInv, Covered, TypeOK, Abandon, LaunchPCs
  <2>2. \A p \in Pids : Live(p) => owns[p] # svc[r]
    BY <2>1 DEF LaunchRunsAlone
  <2>3. /\ leader \in [Pids -> LeaderStates]
        /\ leader' = [leader EXCEPT ![rpid[r]] = IF @ = "zombie" THEN "dead" ELSE @]
        /\ rest' = rest
    BY <1>1 DEF IInv, CInv, Covered, TypeOK, Abandon
  <2>4. /\ \A p \in Pids : Live(p)' = Live(p)
        /\ \A p \in Pids :
             (leader'[p] \in {"unborn", "parked"}) = (leader[p] \in {"unborn", "parked"})
    BY <2>3 DEF Live
  <2>5. CASE RemoveMatching(svc[r], rgen[r])
    BY <2>1, <2>2, <2>4, <2>5, RemoveMatchingRemoves, RemovalForgets DEF IInv, CInv, Covered
  <2>6. CASE journal' = journal
    BY <2>4, <2>6, InvisibleStutters DEF Invisible
  <2>7. QED
    BY <1>1, <2>5, <2>6 DEF Abandon
<1>2. ASSUME NEW r \in Reqs, StopRetriesRemoval(r)
      PROVE  [Ownership!Next]_Ownership!vars
  <2>1. SweepRunsAlone(r) /\ svc[r] \in Services /\ rgen[r] \in Nat
    BY <1>2, SweepAloneRuns DEF IInv, CInv, Covered, TypeOK, StopRetriesRemoval
  <2>2. \A p \in Pids : Live(p) => owns[p] # svc[r]
    BY <2>1 DEF SweepRunsAlone
  <2>3. leader' = leader /\ rest' = rest
    BY <1>2 DEF StopRetriesRemoval, osVars
  <2>4. /\ \A p \in Pids : Live(p)' = Live(p)
        /\ \A p \in Pids :
             (leader'[p] \in {"unborn", "parked"}) = (leader[p] \in {"unborn", "parked"})
    BY <2>3 DEF Live
  <2>5. CASE RemoveMatching(svc[r], rgen[r])
    BY <2>1, <2>2, <2>4, <2>5, RemoveMatchingRemoves, RemovalForgets DEF IInv, CInv, Covered
  <2>6. CASE journal' = journal
    BY <2>4, <2>6, InvisibleStutters DEF Invisible
  <2>7. QED
    BY <1>2, <2>5, <2>6 DEF StopRetriesRemoval
<1>3. ASSUME NEW p \in Pids, Unjournal(p)
      PROVE  [Ownership!Next]_Ownership!vars
  <2>1. SupervisorAlone(p) /\ SupervisorRunsAlone(p) /\ ~Live(p) /\ genOf[p] \in Nat
    BY <1>3, SupervisorIsAlone, SupervisorAloneRuns DEF IInv, CInv, Covered, TypeOK, Unjournal,
        SupervisorsOwnEntries, SupervisorOwns
  <2>2. owns[p] \in Services /\ \A q \in Pids : Live(q) => owns[q] # owns[p]
    BY <2>1 DEF SupervisorAlone, SupervisorRunsAlone
  <2>3. leader' = leader /\ rest' = rest
    BY <1>3 DEF Unjournal, osVars
  <2>4. /\ \A q \in Pids : Live(q)' = Live(q)
        /\ \A q \in Pids :
             (leader'[q] \in {"unborn", "parked"}) = (leader[q] \in {"unborn", "parked"})
    BY <2>3 DEF Live
  <2>5. CASE RemoveMatching(owns[p], genOf[p])
    BY <2>1, <2>2, <2>4, <2>5, RemoveMatchingRemoves, RemovalForgets DEF IInv, CInv, Covered
  <2>6. CASE journal' = journal
    BY <2>4, <2>6, InvisibleStutters DEF Invisible
  <2>7. QED
    BY <1>3, <2>5, <2>6 DEF Unjournal
<1>4. CASE RemoveRecovered /\ recon.by \in Reqs
  <2> DEFINE p == recon.at
  <2>1. /\ p \in Pids /\ leader[p] # "unborn" /\ ~Live(p)
        /\ journal[owns[p]].pid = p
    BY <1>4 DEF IInv, CInv, Covered, RemoveRecovered, Recovering, RecoveryKnowsItsRecords
  <2>2. owns[p] \in Services /\ genOf[p] \in Nat
    BY <2>1 DEF IInv, CInv, Covered, TypeOK, PidsAreOwned
  <2>3. \A q \in Pids : Live(q) => owns[q] # owns[p]
    BY <2>1 DEF IInv, CInv, Covered, LiveIsJournaled
  <2>4. leader' = leader /\ rest' = rest /\ RemoveMatching(owns[p], genOf[p])
    BY <1>4 DEF RemoveRecovered, osVars
  <2>5. /\ \A q \in Pids : Live(q)' = Live(q)
        /\ \A q \in Pids :
             (leader'[q] \in {"unborn", "parked"}) = (leader[q] \in {"unborn", "parked"})
    BY <2>4 DEF Live
  <2>6. Removes(owns[p], genOf[p])
    BY <2>2, <2>4, RemoveMatchingRemoves DEF IInv, CInv, Covered
  <2>7. QED
    BY <2>2, <2>3, <2>5, <2>6, RemovalForgets
<1>5. QED
  BY <1>1, <1>2, <1>3, <1>4

(* What the operating system does is the beginning or the end of a group,  *)
(* or invisible.                                                           *)
LEMMA OSImplements ==
  ASSUME IInv, NEW p \in Pids, OSStep(p)
  PROVE  [Ownership!Next]_Ownership!vars
<1> USE NoneAssumption
<1>1. leader \in [Pids -> LeaderStates] /\ rest \in [Pids -> BOOLEAN]
  BY DEF IInv, CInv, Covered, TypeOK
<1>2. journal' = journal /\ noted' = noted
  BY DEF OSStep, Exec, ParkedLeaves, MemberForks, MemberEnds, PidReused,
      StrangerEnds, unchangedByOS, noted
<1>3. leader[p] \in {"parked", "released"} => ~rest[p]
  BY DEF IInv, CInv, Covered, PidsAreOwned
<1>4. ASSUME live' = live \ {p}, p \in live, spent' = spent
      PROVE  [Ownership!Next]_Ownership!vars
  <2>1. Ownership!End(p)
    BY <1>2, <1>4 DEF Ownership!End, noted, live, spent
  <2>2. QED
    BY <2>1 DEF Ownership!Next
<1>5. CASE Exec(p)
  <2>1. CASE leader' = [leader EXCEPT ![p] = "running"]
    BY <1>1, <1>2, <1>5, <2>1, InvisibleStutters DEF Exec, Invisible, Live
  <2>2. CASE leader' = [leader EXCEPT ![p] = "dead"]
    <3>1. live' = live \ {p} /\ p \in live /\ spent' = spent
      BY <1>1, <1>3, <1>5, <2>2 DEF Exec, live, spent, Live
    <3>2. QED
      BY <1>4, <3>1
  <2>3. QED
    BY <1>5, <2>1, <2>2 DEF Exec
<1>6. CASE ParkedLeaves(p)
  <2>1. /\ leader[p] = "parked" /\ leader' = [leader EXCEPT ![p] = Ended(p)]
        /\ rest' = rest /\ Ended(p) \in {"dead", "zombie"}
    BY <1>6 DEF ParkedLeaves, Ended
  <2>2. p \notin spent /\ spent' = spent \cup {p}
    BY <1>1, <2>1 DEF spent
  <2>3. live' = live
    BY <1>1, <1>3, <2>1 DEF live, Live
  <2>4. Ownership!Spoil(p)
    BY <1>2, <2>2, <2>3 DEF Ownership!Spoil, noted, live, spent
  <2>5. QED
    BY <2>4 DEF Ownership!Next
<1>7. CASE MemberForks(p)
  BY <1>1, <1>2, <1>7, InvisibleStutters DEF MemberForks, Invisible, Live
<1>8. CASE MemberEnds(p)
  <2>1. /\ p \in live
        /\ \A q \in Pids : q # p => leader'[q] = leader[q] /\ rest'[q] = rest[q]
        /\ leader[p] \notin {"unborn", "parked"}
        /\ leader'[p] \notin {"unborn", "parked"}
    BY <1>1, <1>8 DEF MemberEnds, live, Live, Ended, IInv, CInv, Covered, PidsAreOwned
  <2>2. spent' = spent
    BY <2>1 DEF spent
  <2>3. CASE Live(p)'
    BY <1>2, <2>1, <2>3, InvisibleStutters DEF Invisible, Live, live
  <2>4. CASE ~Live(p)'
    <3>1. live' = live \ {p}
      BY <2>1, <2>4 DEF live, Live
    <3>2. QED
      BY <1>4, <2>1, <2>2, <3>1
  <2>5. QED
    BY <2>3, <2>4
<1>9. CASE PidReused(p) \/ StrangerEnds(p)
  BY <1>1, <1>2, <1>9, InvisibleStutters DEF PidReused, StrangerEnds, Invisible, Live
<1>10. QED
  BY <1>5, <1>6, <1>7, <1>8, <1>9 DEF OSStep

(* A fork, a reaped leader and a crash change neither.                     *)
LEMMA LeaderStepsStutter ==
  ASSUME IInv,
         \/ \E r \in Reqs, p \in Pids : Fork(r, p)
         \/ \E p \in Pids : ReapNaturalExit(p) \/ ReapStopped(p)
         \/ Crash
  PROVE  UNCHANGED Ownership!vars
<1>1. leader \in [Pids -> LeaderStates]
  BY DEF IInv, CInv, Covered, TypeOK
<1>2. rest' = rest /\ journal' = journal
  BY DEF Fork, ReapNaturalExit, ReapStopped, Crash, manager
<1>3. ASSUME NEW r \in Reqs, NEW p \in Pids, Fork(r, p) PROVE Invisible
  BY <1>1, <1>2, <1>3 DEF Fork, Invisible, Live
<1>4. ASSUME NEW p \in Pids, ReapNaturalExit(p) \/ ReapStopped(p) PROVE Invisible
  BY <1>1, <1>2, <1>4 DEF ReapNaturalExit, ReapStopped, Invisible, Live
<1>5. ASSUME Crash PROVE Invisible
  BY <1>1, <1>2, <1>5 DEF Crash, Invisible, Live
<1>6. QED
  BY <1>3, <1>4, <1>5, InvisibleStutters

(* Steps that touch neither the journal nor a process.                     *)
LEMMA PlatformUnchangedStutters ==
  ASSUME leader' = leader, rest' = rest, journal' = journal
  PROVE  UNCHANGED Ownership!vars
BY InvisibleStutters DEF Invisible, Live

(* Every step of the process manager is a step the promise allows.         *)
LEMMA NextImplements ==
  ASSUME IInv, [Next]_vars
  PROVE  [Ownership!Next]_Ownership!vars
<1> USE DEF platform, osVars
<1>1. ASSUME NEW r \in Reqs, StartStep(r)
      PROVE  [Ownership!Next]_Ownership!vars
  BY <1>1, JournalLaunchNotes, ReleaseBegins, RemovalsForget,
      LeaderStepsStutter, PlatformUnchangedStutters
      DEF StartStep, StartAnswers, StartProceeds, ForkFails, LaunchFails,
      SpawnFails, Register
<1>2. ASSUME NEW r \in Reqs, StopStep(r)
      PROVE  [Ownership!Next]_Ownership!vars
  BY <1>2, RemovalsForget, PlatformUnchangedStutters
      DEF StopStep, StopFindsNothing, StopUnsupervised, StopMarks, SendStop,
      StopAnswered, StopFindsSupervisorGone
<1>3. ASSUME NEW r \in Reqs, RecoveryStep(r)
      PROVE  [Ownership!Next]_Ownership!vars
  BY <1>3, RemovalsForget, PlatformUnchangedStutters
      DEF RecoveryStep, InspectRecord, RecoveredGroupGone, RecoveryEscalates,
      RecoveryFails, RecoveryDone
<1>4. ASSUME NEW p \in Pids, SupervisorStep(p)
      PROVE  [Ownership!Next]_Ownership!vars
  BY <1>4, RemovalsForget, LeaderStepsStutter, PlatformUnchangedStutters
      DEF SupervisorStep, KillLeftovers, LeftoversRemain, ReceiveStop,
      EscalateToKill, StopUnconfirmed, GroupConfirmedGone, Settle
<1>5. ASSUME NEW r \in Reqs,
             ShutdownStep(r) \/ EntersLock(r) \/ EntersRecovery(r) \/ EnterGate(r)
      PROVE  UNCHANGED Ownership!vars
  BY <1>5, PlatformUnchangedStutters DEF ShutdownStep, NextName, NoMoreNames,
      EntersLock, Acquire, EntersRecovery, AlreadyReconciled, BeginRecovery,
      EnterGate
<1>6. ASSUME NEW r \in Reqs, NEW o \in Offered, NEW s \in Services, Call(r, o, s)
      PROVE  UNCHANGED Ownership!vars
  BY <1>6, PlatformUnchangedStutters DEF Call
<1>7. CASE Crash
  BY <1>7, LeaderStepsStutter
<1>8. CASE Reborn \/ UNCHANGED vars
  BY <1>8, PlatformUnchangedStutters DEF Reborn, vars
<1>9. QED
  BY <1>1, <1>2, <1>3, <1>4, <1>5, <1>6, <1>7, <1>8, OSImplements
      DEF Next, RequestStep

(* The journal and the processes of the manager behave as the promise:     *)
(* noted before it runs, one group noted per service, forgotten only when  *)
(* it is gone, through every interleaving, recovery and crash.             *)
THEOREM ManagerKeepsOwnership == Spec => OwnershipSpec
BY InvariantHolds, InitImplements, NextImplements, PTL
    DEF Spec, OwnershipSpec, Ownership!Spec

===============================================================================
