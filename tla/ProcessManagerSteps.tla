----------------------- MODULE ProcessManagerSteps -----------------------
(***************************************************************************)
(* Every action of the process manager keeps CInv, and Covered with it:    *)
(* one lemma per action, one step per conjunct the action can disturb, one *)
(* step for all the others together.                                       *)
(***************************************************************************)
EXTENDS ProcessManagerInvariant

-----------------------------------------------------------------------------
(* Requests come and go.                                                   *)

(* A new request holds nothing yet.                                        *)
LEMMA CallKeeps ==
  ASSUME CInv, NEW r \in Reqs, NEW o \in Offered, NEW s \in Services, Call(r, o, s)
  PROVE  Keeps
<1> USE NoneAssumption, OfferedAssumption
<1> USE DEF Call, Goto, osVars, identity, platform, tables, owner, manager,
    targetVars, commandVars, supVars
<1>1. TypeOK'
  BY SMTT(30) DEF CInv, TypeOK, PCs, LaunchPCs, Ops
<1>2. PidsAreOwned' /\ RecordsDescribeLaunches' /\ EntriesDescribeLaunches' /\
    SupervisorsOwnEntries' /\ RecoveryKnowsItsRecords' /\ UnreconciledIsInherited'
  BY DEF CInv, PidsAreOwned, RecordsDescribeLaunches, EntriesDescribeLaunches,
      EntryDescribes, SupervisorsOwnEntries, SupervisorOwns,
      RecoveryKnowsItsRecords, UnreconciledIsInherited, Live
<1>3. Covered => LiveIsJournaled'
  BY DEF CInv, Covered, LiveIsJournaled, PidsAreOwned, Live
<1>4. LocksAreHeld'
  BY DEF CInv, TypeOK, LocksAreHeld, LaunchPCs, StopPCs
<1>5. LaunchesOwnTheirs'
  BY DEF CInv, TypeOK, LaunchesOwnTheirs, LaunchOwns, PidsAreOwned,
      LocksAreHeld, Live, LaunchPCs, StopPCs
<1>6. Covered => NothingHidden'
  BY DEF CInv, Covered, TypeOK, NothingHidden, PidsAreOwned, Live
<1>7. CallersAwait'
  BY DEF CInv, TypeOK, CallersAwait
<1>8. StopsKnowTheirEntry'
  BY DEF CInv, TypeOK, StopsKnowTheirEntry, EntriesDescribeLaunches,
      EntryDescribes, LocksAreHeld, Live, LaunchPCs, StopPCs, NoEntry
<1>9. QED
  BY <1>1, <1>2, <1>3, <1>4, <1>5, <1>6, <1>7, <1>8 DEF CInv, Covered, Keeps

(* Nobody else held the lock, so nobody else was past it.                  *)
LEMMA AcquireKeeps ==
  ASSUME CInv, NEW r \in Reqs, Acquire(r)
  PROVE  Keeps
<1> USE NoneAssumption
<1> USE DEF Acquire, Goto, osVars, identity, platform, owner, callVars,
    targetVars, commandVars, supVars
<1>1. TypeOK'
  BY DEF CInv, TypeOK, PCs, LaunchPCs
<1>2. PidsAreOwned' /\ RecordsDescribeLaunches' /\ EntriesDescribeLaunches' /\
    SupervisorsOwnEntries' /\ RecoveryKnowsItsRecords' /\ UnreconciledIsInherited'
  BY DEF CInv, PidsAreOwned, RecordsDescribeLaunches, EntriesDescribeLaunches,
      EntryDescribes, SupervisorsOwnEntries, SupervisorOwns,
      RecoveryKnowsItsRecords, UnreconciledIsInherited, Live
<1>3. Covered => LiveIsJournaled'
  BY DEF CInv, Covered, LiveIsJournaled, PidsAreOwned, Live
<1>4. LocksAreHeld'
  BY DEF CInv, TypeOK, LocksAreHeld, LaunchPCs, StopPCs
<1>5. LaunchesOwnTheirs'
  BY DEF CInv, TypeOK, LaunchesOwnTheirs, LaunchOwns, PidsAreOwned,
      LocksAreHeld, Live, LaunchPCs, StopPCs
<1>6. Covered => NothingHidden'
  BY DEF CInv, Covered, TypeOK, NothingHidden, PidsAreOwned, Live
<1>7. CallersAwait'
  BY DEF CInv, TypeOK, CallersAwait
<1>8. StopsKnowTheirEntry'
  BY DEF CInv, TypeOK, StopsKnowTheirEntry, EntriesDescribeLaunches,
      EntryDescribes, LocksAreHeld, Live, LaunchPCs, StopPCs, NoEntry
<1>9. QED
  BY <1>1, <1>2, <1>3, <1>4, <1>5, <1>6, <1>7, <1>8 DEF CInv, Covered, Keeps

(* Between two names shutdown_all holds no lock.                           *)
LEMMA NextNameKeeps ==
  ASSUME CInv, NEW r \in Reqs, NEW s \in Services, NextName(r, s)
  PROVE  Keeps
<1> USE NoneAssumption
<1> USE DEF NextName, Goto, osVars, identity, platform, tables, owner,
    manager, targetVars, commandVars, supVars
<1>1. TypeOK'
  BY DEF CInv, TypeOK, PCs, LaunchPCs
<1>2. PidsAreOwned' /\ RecordsDescribeLaunches' /\ EntriesDescribeLaunches' /\
    SupervisorsOwnEntries' /\ RecoveryKnowsItsRecords' /\ UnreconciledIsInherited'
  BY DEF CInv, PidsAreOwned, RecordsDescribeLaunches, EntriesDescribeLaunches,
      EntryDescribes, SupervisorsOwnEntries, SupervisorOwns,
      RecoveryKnowsItsRecords, UnreconciledIsInherited, Live
<1>3. Covered => LiveIsJournaled'
  BY DEF CInv, Covered, LiveIsJournaled, PidsAreOwned, Live
<1>4. LocksAreHeld'
  BY DEF CInv, TypeOK, LocksAreHeld, LaunchPCs, StopPCs
<1>5. LaunchesOwnTheirs'
  BY DEF CInv, TypeOK, LaunchesOwnTheirs, LaunchOwns, PidsAreOwned,
      LocksAreHeld, Live, LaunchPCs, StopPCs
<1>6. Covered => NothingHidden'
  BY DEF CInv, Covered, TypeOK, NothingHidden, PidsAreOwned, Live
<1>7. CallersAwait'
  BY DEF CInv, TypeOK, CallersAwait
<1>8. StopsKnowTheirEntry'
  BY DEF CInv, TypeOK, StopsKnowTheirEntry, EntriesDescribeLaunches,
      EntryDescribes, LocksAreHeld, Live, LaunchPCs, StopPCs, NoEntry
<1>9. QED
  BY <1>1, <1>2, <1>3, <1>4, <1>5, <1>6, <1>7, <1>8 DEF CInv, Covered, Keeps

(* A request that returns gives up what it holds.                          *)
LEMMA NoMoreNamesKeeps ==
  ASSUME CInv, NEW r \in Reqs, NoMoreNames(r)
  PROVE  Keeps
<1> USE NoneAssumption
<1> USE DEF NoMoreNames, osVars, identity, platform, owner, commandVars,
    supVars
<1>1. Moves(r, {"idle"})
  BY ReturnMoves DEF CInv
<1>2. TypeOK'
  BY <1>1 DEF CInv, TypeOK, Moves, PCs, LaunchPCs, Ops
<1>3. PidsAreOwned' /\ RecordsDescribeLaunches' /\ EntriesDescribeLaunches' /\
    SupervisorsOwnEntries' /\ RecoveryKnowsItsRecords' /\ UnreconciledIsInherited'
  BY DEF CInv, PidsAreOwned, RecordsDescribeLaunches, EntriesDescribeLaunches,
      EntryDescribes, SupervisorsOwnEntries, SupervisorOwns,
      RecoveryKnowsItsRecords, UnreconciledIsInherited, Live
<1>4. Covered => LiveIsJournaled'
  BY DEF CInv, Covered, LiveIsJournaled, PidsAreOwned, Live
<1>5. LocksAreHeld'
  BY <1>1 DEF CInv, TypeOK, LocksAreHeld, Moves, LaunchPCs, StopPCs
<1>6. LaunchesOwnTheirs'
  BY <1>1 DEF CInv, TypeOK, LaunchesOwnTheirs, LaunchOwns, PidsAreOwned,
      LocksAreHeld, Moves, Live, LaunchPCs, StopPCs
<1>7. Covered => NothingHidden'
  BY SMTT(30), <1>1 DEF CInv, Covered, TypeOK, NothingHidden, PidsAreOwned, Moves, Live
<1>8. CallersAwait'
  BY <1>1 DEF CInv, TypeOK, CallersAwait, Moves
<1>9. StopsKnowTheirEntry'
  BY <1>1 DEF CInv, TypeOK, StopsKnowTheirEntry, EntriesDescribeLaunches,
      EntryDescribes, LocksAreHeld, Moves, Live, LaunchPCs, StopPCs, NoEntry
<1>10. QED
  BY <1>2, <1>3, <1>4, <1>5, <1>6, <1>7, <1>8, <1>9 DEF CInv, Covered, Keeps

-----------------------------------------------------------------------------
(* Recovery.                                                               *)

(* What waited for recovery goes on under the lock it took before.         *)
LEMMA AlreadyReconciledKeeps ==
  ASSUME CInv, NEW r \in Reqs, AlreadyReconciled(r)
  PROVE  Keeps
<1> USE NoneAssumption
<1> USE DEF AlreadyReconciled, Goto, osVars, identity, platform, owner,
    callVars, targetVars, commandVars, supVars
<1>1. /\ Moves(r, {"idle", "check", "stop"})
      /\ op[r] = "reconcile" => pc'[r] = "idle"
  BY SMTT(30), ReturnMoves DEF CInv, TypeOK, Moves, PCs, LaunchPCs
<1>2. TypeOK'
  BY <1>1 DEF CInv, TypeOK, Moves, PCs, LaunchPCs, Ops
<1>3. PidsAreOwned' /\ RecordsDescribeLaunches' /\ EntriesDescribeLaunches' /\
    SupervisorsOwnEntries' /\ RecoveryKnowsItsRecords' /\ UnreconciledIsInherited'
  BY DEF CInv, PidsAreOwned, RecordsDescribeLaunches, EntriesDescribeLaunches,
      EntryDescribes, SupervisorsOwnEntries, SupervisorOwns,
      RecoveryKnowsItsRecords, UnreconciledIsInherited, Live
<1>4. Covered => LiveIsJournaled'
  BY DEF CInv, Covered, LiveIsJournaled, PidsAreOwned, Live
<1>5. LocksAreHeld'
  BY <1>1 DEF CInv, TypeOK, LocksAreHeld, Moves, LaunchPCs, StopPCs
<1>6. LaunchesOwnTheirs'
  BY <1>1 DEF CInv, TypeOK, LaunchesOwnTheirs, LaunchOwns, PidsAreOwned,
      LocksAreHeld, Moves, Live, LaunchPCs, StopPCs
<1>7. Covered => NothingHidden'
  BY <1>1, MovesHidesNothing
<1>8. CallersAwait'
  BY <1>1, MovesLeavesCallers DEF Moves
<1>9. StopsKnowTheirEntry'
  BY <1>1 DEF CInv, TypeOK, StopsKnowTheirEntry, EntriesDescribeLaunches,
      EntryDescribes, LocksAreHeld, Moves, Live, LaunchPCs, StopPCs, NoEntry
<1>10. QED
  BY <1>2, <1>3, <1>4, <1>5, <1>6, <1>7, <1>8, <1>9 DEF CInv, Covered, Keeps

(* Recovery starts from all the records there are.                         *)
LEMMA BeginRecoveryKeeps ==
  ASSUME CInv, NEW r \in Reqs, BeginRecovery(r)
  PROVE  Keeps
<1> USE NoneAssumption
<1> USE DEF BeginRecovery, Goto, osVars, identity, platform, tables, callVars,
    targetVars, commandVars, supVars
<1>1. TypeOK'
  BY DEF CInv, TypeOK, Recon, ReconPhases, NoRecon, Record, PCs, LaunchPCs,
      NoRecord
<1>2. PidsAreOwned' /\ RecordsDescribeLaunches' /\ EntriesDescribeLaunches' /\
    SupervisorsOwnEntries' /\ UnreconciledIsInherited'
  BY DEF CInv, PidsAreOwned, RecordsDescribeLaunches, EntriesDescribeLaunches,
      EntryDescribes, SupervisorsOwnEntries, SupervisorOwns,
      UnreconciledIsInherited, Live
<1>3. Covered => LiveIsJournaled'
  BY DEF CInv, Covered, LiveIsJournaled, PidsAreOwned, Live
<1>4. LocksAreHeld'
  BY DEF CInv, TypeOK, LocksAreHeld, LaunchPCs, StopPCs, NoRecord
<1>5. LaunchesOwnTheirs'
  BY DEF CInv, TypeOK, LaunchesOwnTheirs, LaunchOwns, PidsAreOwned,
      LocksAreHeld, Live, LaunchPCs, StopPCs, NoRecord
<1>6. Covered => NothingHidden'
  BY DEF CInv, Covered, TypeOK, NothingHidden, PidsAreOwned, Live, NoRecord
<1>7. RecoveryKnowsItsRecords'
  BY DEF CInv, TypeOK, RecoveryKnowsItsRecords, Live, NoRecord
<1>8. CallersAwait'
  BY DEF CInv, TypeOK, CallersAwait, NoRecord
<1>9. StopsKnowTheirEntry'
  BY DEF CInv, TypeOK, StopsKnowTheirEntry, EntriesDescribeLaunches,
      EntryDescribes, LocksAreHeld, Live, LaunchPCs, StopPCs, NoEntry,
      NoRecord
<1>10. QED
  BY <1>1, <1>2, <1>3, <1>4, <1>5, <1>6, <1>7, <1>8, <1>9 DEF CInv, Covered,
      Keeps

(* The record inspected names the group it is filed for.                   *)
LEMMA InspectRecordKeeps ==
  ASSUME CInv, NEW s \in Services, recon.by \in Reqs, InspectRecord(s)
  PROVE  Keeps
<1> USE NoneAssumption
<1> USE DEF InspectRecord, IsRecorded, Recovering, osVars, identity, platform,
    tables, callVars, targetVars, reqVars, commandVars, supVars
<1>1. /\ ~reconciled /\ recon.pending = {t \in Services : journal[t] # NoRecord}
      /\ journal[s].pid \in Pids /\ leader[journal[s].pid] # "unborn"
      /\ owns[journal[s].pid] = s
  BY DEF CInv, RecoveryKnowsItsRecords, RecordsDescribeLaunches
<1>2. /\ recon' \in Recon /\ recon'.at = journal[s].pid
      /\ recon'.phase \in {"remove", "term"} /\ recon'.pending = recon.pending
      /\ recon'.phase = "remove" => ~Live(journal[s].pid)
  <2>1. recon \in Recon
    BY DEF CInv, TypeOK
  <2>2. CASE /\ leader[journal[s].pid] = "dead" /\ ~rest[journal[s].pid]
             /\ recon' = [recon EXCEPT !.phase = "remove", !.at = journal[s].pid]
    BY <1>1, <2>1, <2>2 DEF Recon, ReconPhases, Live
  <2>3. CASE recon' = [recon EXCEPT !.phase = "term", !.at = journal[s].pid]
    BY <1>1, <2>1, <2>3 DEF Recon, ReconPhases
  <2>4. QED
    BY <2>2, <2>3
<1>3. TypeOK'
  BY <1>2 DEF CInv, TypeOK
<1>4. PidsAreOwned' /\ RecordsDescribeLaunches' /\ EntriesDescribeLaunches' /\
    LocksAreHeld' /\ LaunchesOwnTheirs' /\ SupervisorsOwnEntries' /\
    UnreconciledIsInherited' /\ CallersAwait' /\ StopsKnowTheirEntry'
  <2>1. PidsAreOwned' /\ RecordsDescribeLaunches' /\ EntriesDescribeLaunches'
    BY DEF CInv, PidsAreOwned, RecordsDescribeLaunches, EntriesDescribeLaunches,
        EntryDescribes, Live
  <2>2. LocksAreHeld' /\ UnreconciledIsInherited' /\ CallersAwait'
    BY DEF CInv, LocksAreHeld, UnreconciledIsInherited, CallersAwait
  <2>3. LaunchesOwnTheirs'
    BY DEF CInv, LaunchesOwnTheirs, LaunchOwns, Live
  <2>4. SupervisorsOwnEntries' /\ StopsKnowTheirEntry'
    BY DEF CInv, SupervisorsOwnEntries, SupervisorOwns, StopsKnowTheirEntry, Live
  <2>5. QED
    BY <2>1, <2>2, <2>3, <2>4
<1>5. Covered => LiveIsJournaled' /\ NothingHidden'
  BY DEF CInv, Covered, LiveIsJournaled, PidsAreOwned, NothingHidden, Live
<1>6. RecoveryKnowsItsRecords'
  BY <1>1, <1>2 DEF RecoveryKnowsItsRecords, Live
<1>7. QED
  BY <1>3, <1>4, <1>5, <1>6 DEF CInv, Covered, Keeps

(* A group the owner cannot find has nothing running.                      *)
LEMMA RecoveredGroupGoneKeeps ==
  ASSUME CInv, recon.by \in Reqs, RecoveredGroupGone
  PROVE  Keeps
<1> USE NoneAssumption
<1> USE DEF RecoveredGroupGone, GroupExists, Recovering, osVars, identity,
    platform, tables, callVars, targetVars, reqVars, commandVars, supVars
<1>1. TypeOK'
  BY DEF CInv, TypeOK, Recon, ReconPhases, NoRecon, Record
<1>2. PidsAreOwned' /\ RecordsDescribeLaunches' /\ EntriesDescribeLaunches' /\
    LocksAreHeld' /\ LaunchesOwnTheirs' /\ SupervisorsOwnEntries' /\
    UnreconciledIsInherited' /\ CallersAwait' /\ StopsKnowTheirEntry'
  <2>1. PidsAreOwned' /\ RecordsDescribeLaunches' /\ EntriesDescribeLaunches'
    BY DEF CInv, PidsAreOwned, RecordsDescribeLaunches, EntriesDescribeLaunches,
        EntryDescribes, Live
  <2>2. LocksAreHeld' /\ UnreconciledIsInherited' /\ CallersAwait'
    BY DEF CInv, LocksAreHeld, UnreconciledIsInherited, CallersAwait
  <2>3. LaunchesOwnTheirs'
    BY DEF CInv, LaunchesOwnTheirs, LaunchOwns, Live
  <2>4. SupervisorsOwnEntries' /\ StopsKnowTheirEntry'
    BY DEF CInv, SupervisorsOwnEntries, SupervisorOwns, StopsKnowTheirEntry, Live
  <2>5. QED
    BY <2>1, <2>2, <2>3, <2>4
<1>3. Covered => LiveIsJournaled' /\ NothingHidden'
  BY DEF CInv, Covered, LiveIsJournaled, PidsAreOwned, NothingHidden, Live
<1>4. RecoveryKnowsItsRecords'
  BY DEF CInv, TypeOK, RecoveryKnowsItsRecords, Live, NoRecord
<1>5. QED
  BY <1>1, <1>2, <1>3, <1>4 DEF CInv, Covered, Keeps

(* A second signal leaves the records as they are.                         *)
LEMMA RecoveryEscalatesKeeps ==
  ASSUME CInv, recon.by \in Reqs, RecoveryEscalates
  PROVE  Keeps
<1> USE NoneAssumption
<1> USE DEF RecoveryEscalates, GroupExists, IsRecorded, Recovering, osVars,
    identity, platform, tables, callVars, targetVars, reqVars, commandVars,
    supVars
<1>1. TypeOK'
  BY DEF CInv, TypeOK, Recon, ReconPhases, NoRecon, Record
<1>2. PidsAreOwned' /\ RecordsDescribeLaunches' /\ EntriesDescribeLaunches' /\
    LocksAreHeld' /\ LaunchesOwnTheirs' /\ SupervisorsOwnEntries' /\
    UnreconciledIsInherited' /\ CallersAwait' /\ StopsKnowTheirEntry'
  <2>1. PidsAreOwned' /\ RecordsDescribeLaunches' /\ EntriesDescribeLaunches'
    BY DEF CInv, PidsAreOwned, RecordsDescribeLaunches, EntriesDescribeLaunches,
        EntryDescribes, Live
  <2>2. LocksAreHeld' /\ UnreconciledIsInherited' /\ CallersAwait'
    BY DEF CInv, LocksAreHeld, UnreconciledIsInherited, CallersAwait
  <2>3. LaunchesOwnTheirs'
    BY DEF CInv, LaunchesOwnTheirs, LaunchOwns, Live
  <2>4. SupervisorsOwnEntries' /\ StopsKnowTheirEntry'
    BY DEF CInv, SupervisorsOwnEntries, SupervisorOwns, StopsKnowTheirEntry, Live
  <2>5. QED
    BY <2>1, <2>2, <2>3, <2>4
<1>3. Covered => LiveIsJournaled' /\ NothingHidden'
  BY DEF CInv, Covered, LiveIsJournaled, PidsAreOwned, NothingHidden, Live
<1>4. RecoveryKnowsItsRecords'
  BY DEF CInv, TypeOK, RecoveryKnowsItsRecords, Live, NoRecord
<1>5. QED
  BY <1>1, <1>2, <1>3, <1>4 DEF CInv, Covered, Keeps

(* The only record removed is that of a group known to be gone.            *)
LEMMA RemoveRecoveredKeeps ==
  ASSUME CInv, recon.by \in Reqs, RemoveRecovered
  PROVE  Keeps
<1> USE NoneAssumption
<1> USE DEF RemoveRecovered, Recovering, osVars, identity, tables, callVars,
    targetVars, reqVars, commandVars, supVars
<1>1. recon.at \in Pids /\ Removes(owns[recon.at], genOf[recon.at])
  BY RemoveMatchingRemoves DEF CInv, TypeOK, RecoveryKnowsItsRecords,
      PidsAreOwned
<1>2. TypeOK'
  BY <1>1 DEF CInv, TypeOK, Removes, Record, NoRecord, Recon, ReconPhases,
      NoRecon
<1>3. PidsAreOwned' /\ LocksAreHeld' /\ UnreconciledIsInherited' /\
    CallersAwait' /\ StopsKnowTheirEntry'
  BY DEF CInv, PidsAreOwned, LocksAreHeld, UnreconciledIsInherited,
      CallersAwait, StopsKnowTheirEntry, Live
<1>4. Covered => NothingHidden'
  BY DEF CInv, Covered, PidsAreOwned, NothingHidden, Live
<1>5. Covered => LiveIsJournaled'
  BY <1>1 DEF CInv, Covered, TypeOK, LiveIsJournaled, RecoveryKnowsItsRecords,
      PidsAreOwned, Removes, Live, NoRecord
<1>6. RecordsDescribeLaunches'
  BY <1>1 DEF CInv, TypeOK, RecordsDescribeLaunches, Removes, NoRecord
<1>7. EntriesDescribeLaunches'
  BY <1>1 DEF CInv, TypeOK, EntriesDescribeLaunches, EntryDescribes, NoRecord,
      Removes, Live, NoEntry
<1>8. LaunchesOwnTheirs'
  BY <1>1 DEF CInv, TypeOK, LaunchesOwnTheirs, LaunchOwns, LocksAreHeld,
      RecoveryKnowsItsRecords, Removes, Live, LaunchPCs, StopPCs, NoRecord
<1>9. SupervisorsOwnEntries'
  BY <1>1 DEF CInv, TypeOK, SupervisorsOwnEntries, SupervisorOwns,
      RecoveryKnowsItsRecords, PidsAreOwned, Removes, Live, NoRecord
<1>10. RecoveryKnowsItsRecords'
  BY <1>1 DEF CInv, TypeOK, RecoveryKnowsItsRecords, RecordsDescribeLaunches,
      PidsAreOwned, Removes, Live, NoRecord
<1>11. QED
  BY <1>2, <1>3, <1>4, <1>5, <1>6, <1>7, <1>8, <1>9, <1>10 DEF CInv, Covered,
      Keeps

(* A failed attempt leaves the owner unreconciled.                         *)
LEMMA RecoveryFailsKeeps ==
  ASSUME CInv, NEW r \in Reqs, RecoveryFails(r)
  PROVE  Keeps
<1> USE NoneAssumption
<1> USE DEF RecoveryFails, GroupExists, IsRecorded, RecordUnsettled, osVars,
    identity, platform, commandVars, supVars
<1>1. Moves(r, {"idle", "names"})
  BY FailMoves DEF CInv
<1>2. TypeOK'
  BY <1>1 DEF CInv, TypeOK, Moves, Recon, ReconPhases, NoRecon, Record, PCs,
      LaunchPCs, Ops
<1>3. PidsAreOwned' /\ RecordsDescribeLaunches' /\ EntriesDescribeLaunches' /\
    SupervisorsOwnEntries' /\ UnreconciledIsInherited'
  BY DEF CInv, PidsAreOwned, RecordsDescribeLaunches, EntriesDescribeLaunches,
      EntryDescribes, SupervisorsOwnEntries, SupervisorOwns,
      UnreconciledIsInherited, Live
<1>4. Covered => LiveIsJournaled'
  BY DEF CInv, Covered, LiveIsJournaled, PidsAreOwned, Live
<1>5. LocksAreHeld'
  BY <1>1 DEF CInv, TypeOK, LocksAreHeld, Moves, LaunchPCs, StopPCs, NoRecon
<1>6. LaunchesOwnTheirs'
  BY <1>1 DEF CInv, TypeOK, LaunchesOwnTheirs, LaunchOwns, PidsAreOwned,
      LocksAreHeld, Moves, Live, LaunchPCs, StopPCs, NoRecon
<1>7. Covered => NothingHidden'
  BY <1>1, MovesHidesNothing
<1>8. RecoveryKnowsItsRecords'
  BY <1>1 DEF CInv, TypeOK, RecoveryKnowsItsRecords, Moves, Live, NoRecord,
      NoRecon
<1>9. CallersAwait'
  BY SMTT(30), <1>1 DEF CInv, TypeOK, CallersAwait, Moves, NoRecon
<1>10. StopsKnowTheirEntry'
  BY <1>1 DEF CInv, TypeOK, StopsKnowTheirEntry, EntriesDescribeLaunches,
      EntryDescribes, LocksAreHeld, Moves, Live, LaunchPCs, StopPCs, NoEntry,
      NoRecon
<1>11. QED
  BY <1>2, <1>3, <1>4, <1>5, <1>6, <1>7, <1>8, <1>9, <1>10 DEF CInv, Covered,
      Keeps

(* With every record settled, no inherited group is left running.          *)
LEMMA RecoveryDoneKeeps ==
  ASSUME CInv, recon.by \in Reqs, RecoveryDone
  PROVE  Keeps
<1> USE NoneAssumption
<1> USE DEF RecoveryDone, Goto, Recovering, osVars, identity, platform,
    tables, callVars, targetVars, commandVars, supVars
<1>1. TypeOK'
  BY DEF CInv, TypeOK, Recon, ReconPhases, NoRecon, Record, PCs, LaunchPCs
<1>2. PidsAreOwned' /\ RecordsDescribeLaunches' /\ EntriesDescribeLaunches'
  BY DEF CInv, PidsAreOwned, RecordsDescribeLaunches, EntriesDescribeLaunches,
      EntryDescribes, Live
<1>3. Covered => LiveIsJournaled'
  BY DEF CInv, Covered, LiveIsJournaled, PidsAreOwned, Live
<1>4. LocksAreHeld'
  BY DEF CInv, TypeOK, LocksAreHeld, LaunchPCs, StopPCs, NoRecon
<1>5. LaunchesOwnTheirs'
  BY DEF CInv, TypeOK, LaunchesOwnTheirs, LaunchOwns, PidsAreOwned,
      LocksAreHeld, Live, LaunchPCs, StopPCs, NoRecon
<1>6. SupervisorsOwnEntries'
  BY DEF CInv, TypeOK, SupervisorsOwnEntries, SupervisorOwns, PidsAreOwned,
      Live, NoRecon
<1>7. Covered => NothingHidden'
  BY DEF CInv, Covered, TypeOK, NothingHidden, LiveIsJournaled,
      RecoveryKnowsItsRecords, PidsAreOwned, NoRecord, Live, NoRecon
<1>8. RecoveryKnowsItsRecords'
  BY DEF CInv, TypeOK, RecoveryKnowsItsRecords, Live, NoRecord, NoRecon
<1>9. UnreconciledIsInherited'
  BY DEF CInv, TypeOK, UnreconciledIsInherited, NoRecon
<1>10. CallersAwait'
  BY DEF CInv, TypeOK, CallersAwait, NoRecon
<1>11. StopsKnowTheirEntry'
  BY DEF CInv, TypeOK, StopsKnowTheirEntry, EntriesDescribeLaunches,
      EntryDescribes, LocksAreHeld, Live, LaunchPCs, StopPCs, NoEntry, NoRecon
<1>12. QED
  BY <1>1, <1>2, <1>3, <1>4, <1>5, <1>6, <1>7, <1>8, <1>9, <1>10,
      <1>11 DEF CInv, Covered, Keeps

-----------------------------------------------------------------------------
(* Start and launch.                                                       *)

(* An answer changes no table.                                             *)
LEMMA StartAnswersKeeps ==
  ASSUME CInv, NEW r \in Reqs, StartAnswers(r)
  PROVE  Keeps
<1> USE NoneAssumption
<1> USE DEF StartAnswers, osVars, identity, platform, owner, commandVars,
    supVars
<1>1. Moves(r, {"idle"})
  BY ReturnMoves DEF CInv
<1>2. TypeOK'
  BY <1>1 DEF CInv, TypeOK, Moves, PCs, LaunchPCs, Ops
<1>3. PidsAreOwned' /\ RecordsDescribeLaunches' /\ EntriesDescribeLaunches' /\
    SupervisorsOwnEntries' /\ RecoveryKnowsItsRecords' /\ UnreconciledIsInherited'
  BY DEF CInv, PidsAreOwned, RecordsDescribeLaunches, EntriesDescribeLaunches,
      EntryDescribes, SupervisorsOwnEntries, SupervisorOwns,
      RecoveryKnowsItsRecords, UnreconciledIsInherited, Live
<1>4. Covered => LiveIsJournaled'
  BY DEF CInv, Covered, LiveIsJournaled, PidsAreOwned, Live
<1>5. LocksAreHeld'
  BY <1>1 DEF CInv, TypeOK, LocksAreHeld, Moves, LaunchPCs, StopPCs
<1>6. LaunchesOwnTheirs'
  BY <1>1 DEF CInv, TypeOK, LaunchesOwnTheirs, LaunchOwns, PidsAreOwned,
      LocksAreHeld, Moves, Live, LaunchPCs, StopPCs
<1>7. Covered => NothingHidden'
  BY <1>1 DEF CInv, Covered, TypeOK, NothingHidden, PidsAreOwned, Moves, Live
<1>8. CallersAwait'
  BY <1>1 DEF CInv, TypeOK, CallersAwait, Moves
<1>9. StopsKnowTheirEntry'
  BY <1>1 DEF CInv, TypeOK, StopsKnowTheirEntry, EntriesDescribeLaunches,
      EntryDescribes, LocksAreHeld, Moves, Live, LaunchPCs, StopPCs, NoEntry
<1>10. QED
  BY <1>2, <1>3, <1>4, <1>5, <1>6, <1>7, <1>8, <1>9 DEF CInv, Covered, Keeps

(* What may start is absent or confirmed, so it has no supervisor.         *)
LEMMA StartProceedsKeeps ==
  ASSUME CInv, NEW r \in Reqs, StartProceeds(r)
  PROVE  Keeps
<1> USE NoneAssumption
<1> USE DEF StartProceeds, Goto, MustNotStart, osVars, identity, platform,
    tables, callVars, commandVars, supVars
<1>1. TypeOK'
  BY DEF CInv, TypeOK, PCs, LaunchPCs
<1>2. PidsAreOwned' /\ RecordsDescribeLaunches' /\ EntriesDescribeLaunches' /\
    SupervisorsOwnEntries' /\ RecoveryKnowsItsRecords' /\ UnreconciledIsInherited'
  BY DEF CInv, PidsAreOwned, RecordsDescribeLaunches, EntriesDescribeLaunches,
      EntryDescribes, SupervisorsOwnEntries, SupervisorOwns,
      RecoveryKnowsItsRecords, UnreconciledIsInherited, Live
<1>3. Covered => LiveIsJournaled'
  BY DEF CInv, Covered, LiveIsJournaled, PidsAreOwned, Live
<1>4. LocksAreHeld'
  BY DEF CInv, TypeOK, LocksAreHeld, LaunchPCs, StopPCs
<1>5. LaunchesOwnTheirs'
  BY DEF CInv, TypeOK, LaunchesOwnTheirs, LaunchOwns, LocksAreHeld,
      EntriesDescribeLaunches, EntryDescribes, Entry, EntryStates, Live,
      LaunchPCs, StopPCs, NoEntry
<1>6. Covered => NothingHidden'
  BY DEF CInv, Covered, TypeOK, NothingHidden, PidsAreOwned, Live
<1>7. CallersAwait'
  BY DEF CInv, TypeOK, CallersAwait
<1>8. StopsKnowTheirEntry'
  BY DEF CInv, TypeOK, StopsKnowTheirEntry, EntriesDescribeLaunches,
      EntryDescribes, LocksAreHeld, Live, LaunchPCs, StopPCs, NoEntry
<1>9. QED
  BY <1>1, <1>2, <1>3, <1>4, <1>5, <1>6, <1>7, <1>8 DEF CInv, Covered, Keeps

(* The gate admits one launch.                                             *)
LEMMA EnterGateKeeps ==
  ASSUME CInv, NEW r \in Reqs, EnterGate(r)
  PROVE  Keeps
<1> USE NoneAssumption
<1> USE DEF EnterGate, Goto, osVars, identity, platform, tables, callVars,
    targetVars, commandVars, supVars
<1>1. LaunchAlone(r)
  BY LaunchIsAlone DEF LaunchPCs
<1>2. Covered => LaunchRunsAlone(r)
  BY LaunchAloneRuns DEF IInv, LaunchPCs
<1>3. TypeOK'
  BY <1>1 DEF CInv, TypeOK, LaunchAlone, HoldsPid, PCs, LaunchPCs
<1>4. PidsAreOwned' /\ RecordsDescribeLaunches' /\ EntriesDescribeLaunches' /\
    SupervisorsOwnEntries' /\ RecoveryKnowsItsRecords' /\ UnreconciledIsInherited'
  BY DEF CInv, PidsAreOwned, RecordsDescribeLaunches, EntriesDescribeLaunches,
      EntryDescribes, SupervisorsOwnEntries, SupervisorOwns,
      RecoveryKnowsItsRecords, UnreconciledIsInherited, Live
<1>5. Covered => LiveIsJournaled'
  BY DEF CInv, Covered, LiveIsJournaled, PidsAreOwned, Live
<1>6. LocksAreHeld'
  BY <1>1 DEF CInv, TypeOK, LocksAreHeld, LaunchAlone, HoldsPid, LaunchPCs,
      StopPCs
<1>7. LaunchesOwnTheirs'
  BY <1>1 DEF CInv, TypeOK, LaunchesOwnTheirs, LaunchOwns, PidsAreOwned,
      LocksAreHeld, Live, LaunchAlone, HoldsPid, LaunchPCs, StopPCs
<1>8. Covered => NothingHidden'
  BY <1>1, <1>2 DEF LaunchRunsAlone, CInv, Covered, TypeOK, NothingHidden, PidsAreOwned, Live, LaunchAlone,
      HoldsPid
<1>9. CallersAwait'
  BY <1>1 DEF CInv, TypeOK, CallersAwait, LaunchAlone, HoldsPid
<1>10. StopsKnowTheirEntry'
  BY <1>1 DEF CInv, TypeOK, StopsKnowTheirEntry, EntriesDescribeLaunches,
      EntryDescribes, LocksAreHeld, Live, LaunchAlone, HoldsPid, LaunchPCs,
      StopPCs, NoEntry
<1>11. QED
  BY <1>3, <1>4, <1>5, <1>6, <1>7, <1>8, <1>9, <1>10 DEF CInv, Covered, Keeps

(* A new child is parked, owned by the launch, and in no table.            *)
LEMMA ForkKeeps ==
  ASSUME CInv, NEW r \in Reqs, NEW p \in Pids, Fork(r, p)
  PROVE  Keeps
<1> USE NoneAssumption
<1> USE DEF Fork, Goto, tables, owner, manager, callVars, commandVars, supVars
<1>1. LaunchAlone(r)
  BY LaunchIsAlone DEF LaunchPCs
<1>2. Covered => LaunchRunsAlone(r)
  BY LaunchAloneRuns DEF IInv, LaunchPCs
<1>3. TypeOK'
  BY <1>1 DEF CInv, TypeOK, LaunchAlone, HoldsPid, LeaderStates, PCs,
      LaunchPCs
<1>4. Covered => LiveIsJournaled'
  BY <1>1, <1>2 DEF LaunchRunsAlone, CInv, Covered, TypeOK, LiveIsJournaled, PidsAreOwned, Live, LaunchAlone,
      HoldsPid
<1>5. PidsAreOwned'
  BY <1>1 DEF CInv, TypeOK, PidsAreOwned, LaunchAlone, HoldsPid
<1>6. RecordsDescribeLaunches'
  BY <1>1 DEF CInv, TypeOK, RecordsDescribeLaunches, LaunchAlone, HoldsPid,
      NoRecord
<1>7. EntriesDescribeLaunches'
  BY <1>1 DEF CInv, TypeOK, EntriesDescribeLaunches, EntryDescribes, Live,
      LaunchAlone, HoldsPid, NoEntry
<1>8. LocksAreHeld'
  BY <1>1 DEF CInv, TypeOK, LocksAreHeld, LaunchAlone, HoldsPid, LaunchPCs,
      StopPCs
<1>9. LaunchesOwnTheirs'
  <2>1. LaunchOwns(r)'
    <3>1. /\ pc'[r] = "journal" /\ rpid'[r] = p /\ rgen'[r] = rgen[r]
          /\ leader'[p] = "parked" /\ owns'[p] = svc[r] /\ genOf'[p] = rgen[r]
      BY DEF CInv, TypeOK
    <3>2. gate = r /\ entry[svc[r]].confirmed
      BY DEF CInv, LaunchesOwnTheirs, LaunchOwns, LaunchPCs
    <3>3. p \notin inherited /\ spc[p] = "none"
      BY DEF CInv, PidsAreOwned
    <3>4. entry[svc[r]].pid # p
      BY DEF CInv, TypeOK, EntriesDescribeLaunches, EntryDescribes, NoEntry
    <3>5. QED
      BY <3>1, <3>2, <3>3, <3>4 DEF LaunchOwns
  <2>2. ASSUME NEW q \in Reqs, q # r PROVE LaunchOwns(q)'
    <3>1. LaunchOwns(q)
      BY DEF CInv, LaunchesOwnTheirs
    <3>2. QED
      BY <1>1, <2>2, <3>1 DEF CInv, TypeOK, LaunchOwns, LaunchPCs, Live, LaunchAlone, HoldsPid
  <2>3. QED
    BY <2>1, <2>2 DEF LaunchesOwnTheirs
<1>10. SupervisorsOwnEntries'
  BY <1>1 DEF CInv, TypeOK, SupervisorsOwnEntries, SupervisorOwns,
      PidsAreOwned, Live, LaunchAlone, HoldsPid
<1>11. Covered => NothingHidden'
  BY <1>1, <1>2 DEF LaunchRunsAlone, CInv, Covered, TypeOK, NothingHidden, PidsAreOwned, Live, LaunchAlone,
      HoldsPid
<1>12. RecoveryKnowsItsRecords'
  BY <1>1 DEF CInv, TypeOK, RecoveryKnowsItsRecords, Live, LaunchAlone,
      HoldsPid, NoRecord
<1>13. UnreconciledIsInherited'
  BY <1>1 DEF CInv, TypeOK, UnreconciledIsInherited, LaunchAlone, HoldsPid
<1>14. CallersAwait'
  BY <1>1 DEF CInv, TypeOK, CallersAwait, LaunchAlone, HoldsPid
<1>15. StopsKnowTheirEntry'
  BY <1>1 DEF CInv, TypeOK, StopsKnowTheirEntry, EntriesDescribeLaunches,
      EntryDescribes, LocksAreHeld, Live, LaunchAlone, HoldsPid, LaunchPCs,
      StopPCs, NoEntry
<1>16. QED
  BY <1>3, <1>4, <1>5, <1>6, <1>7, <1>8, <1>9, <1>10, <1>11, <1>12, <1>13,
      <1>14, <1>15 DEF CInv, Covered, Keeps

(* A launch without a child leaves nothing.                                *)
LEMMA ForkFailsKeeps ==
  ASSUME CInv, NEW r \in Reqs, ForkFails(r)
  PROVE  Keeps
<1> USE NoneAssumption
<1> USE DEF ForkFails, osVars, identity, platform, commandVars, supVars
<1>1. LaunchAlone(r)
  BY LaunchIsAlone DEF LaunchPCs
<1>2. Covered => LaunchRunsAlone(r)
  BY LaunchAloneRuns DEF IInv, LaunchPCs
<1>3. Moves(r, {"idle"})
  BY <1>1, ReturnMoves DEF CInv
<1>4. TypeOK'
  BY <1>1, <1>3 DEF CInv, TypeOK, Moves, LaunchAlone, HoldsPid, PCs,
      LaunchPCs, Ops
<1>5. PidsAreOwned' /\ RecordsDescribeLaunches' /\ EntriesDescribeLaunches' /\
    SupervisorsOwnEntries' /\ RecoveryKnowsItsRecords' /\ UnreconciledIsInherited'
  BY DEF CInv, PidsAreOwned, RecordsDescribeLaunches, EntriesDescribeLaunches,
      EntryDescribes, SupervisorsOwnEntries, SupervisorOwns,
      RecoveryKnowsItsRecords, UnreconciledIsInherited, Live
<1>6. Covered => LiveIsJournaled'
  BY DEF CInv, Covered, LiveIsJournaled, PidsAreOwned, Live
<1>7. LocksAreHeld'
  BY <1>1, <1>3 DEF CInv, TypeOK, LocksAreHeld, Moves, LaunchAlone, HoldsPid,
      LaunchPCs, StopPCs
<1>8. LaunchesOwnTheirs'
  <2>1. LaunchOwns(r)'
    BY <1>1, <1>3 DEF CInv, TypeOK, Moves, LaunchOwns, LaunchPCs, Live, LaunchAlone, HoldsPid
  <2>2. ASSUME NEW q \in Reqs, q # r PROVE LaunchOwns(q)'
    <3>1. LaunchOwns(q)
      BY DEF CInv, LaunchesOwnTheirs
    <3>2. gate = r
      BY DEF CInv, LaunchesOwnTheirs, LaunchOwns
    <3>3. QED
      BY <1>1, <1>3, <2>2, <3>1, <3>2 DEF CInv, TypeOK, Moves, LaunchOwns, LaunchPCs, Live, LaunchAlone, HoldsPid
  <2>3. QED
    BY <2>1, <2>2 DEF LaunchesOwnTheirs
<1>9. Covered => NothingHidden'
  BY <1>1, <1>2, <1>3 DEF LaunchRunsAlone, CInv, Covered, TypeOK, NothingHidden, PidsAreOwned, Moves, Live,
      LaunchAlone, HoldsPid
<1>10. CallersAwait'
  BY SMTT(30), <1>1, <1>3 DEF CInv, TypeOK, CallersAwait, Moves, LaunchAlone, HoldsPid
<1>11. StopsKnowTheirEntry'
  BY <1>1, <1>3 DEF CInv, TypeOK, StopsKnowTheirEntry,
      EntriesDescribeLaunches, EntryDescribes, LocksAreHeld, Moves, Live,
      LaunchAlone, HoldsPid, LaunchPCs, StopPCs, NoEntry
<1>12. QED
  BY <1>4, <1>5, <1>6, <1>7, <1>8, <1>9, <1>10, <1>11 DEF CInv, Covered, Keeps

(* The record overwritten was not that of a running group.                 *)
LEMMA JournalLaunchKeeps ==
  ASSUME CInv, NEW r \in Reqs, JournalLaunch(r)
  PROVE  Keeps
<1> USE NoneAssumption
<1> USE DEF JournalLaunch, Goto, osVars, identity, tables, owner, manager,
    callVars, targetVars, commandVars, supVars
<1>1. LaunchAlone(r)
  BY LaunchIsAlone DEF LaunchPCs
<1>2. Covered => LaunchRunsAlone(r)
  BY LaunchAloneRuns DEF IInv, LaunchPCs
<1>3. TypeOK'
  BY <1>1 DEF CInv, TypeOK, LaunchAlone, HoldsPid, Record, NoRecord, PCs,
      LaunchPCs
<1>4. PidsAreOwned' /\ UnreconciledIsInherited'
  BY DEF CInv, PidsAreOwned, UnreconciledIsInherited
<1>5. Covered => LiveIsJournaled'
  BY <1>1, <1>2 DEF LaunchRunsAlone, CInv, Covered, TypeOK, LiveIsJournaled, Live, LaunchAlone, HoldsPid
<1>6. RecordsDescribeLaunches'
  BY <1>1 DEF CInv, TypeOK, RecordsDescribeLaunches, LaunchAlone, HoldsPid,
      NoRecord
<1>7. EntriesDescribeLaunches'
  BY <1>1 DEF CInv, TypeOK, EntriesDescribeLaunches, EntryDescribes, Live,
      LaunchAlone, HoldsPid, NoEntry
<1>8. LocksAreHeld'
  BY <1>1 DEF CInv, TypeOK, LocksAreHeld, LaunchAlone, HoldsPid, LaunchPCs,
      StopPCs
<1>9. LaunchesOwnTheirs'
  BY <1>1 DEF CInv, TypeOK, LaunchesOwnTheirs, LaunchOwns, PidsAreOwned,
      LocksAreHeld, Live, LaunchAlone, HoldsPid, LaunchPCs, StopPCs
<1>10. SupervisorsOwnEntries'
  BY <1>1 DEF CInv, TypeOK, SupervisorsOwnEntries, SupervisorOwns,
      PidsAreOwned, Live, LaunchAlone, HoldsPid
<1>11. Covered => NothingHidden'
  BY <1>1, <1>2 DEF LaunchRunsAlone, CInv, Covered, TypeOK, NothingHidden, PidsAreOwned, Live, LaunchAlone,
      HoldsPid
<1>12. RecoveryKnowsItsRecords'
  BY <1>1 DEF CInv, TypeOK, RecoveryKnowsItsRecords, Live, LaunchAlone,
      HoldsPid, NoRecord
<1>13. CallersAwait'
  BY <1>1 DEF CInv, TypeOK, CallersAwait, LaunchAlone, HoldsPid
<1>14. StopsKnowTheirEntry'
  BY <1>1 DEF CInv, TypeOK, StopsKnowTheirEntry, EntriesDescribeLaunches,
      EntryDescribes, LocksAreHeld, Live, LaunchAlone, HoldsPid, LaunchPCs,
      StopPCs, NoEntry
<1>15. QED
  BY <1>3, <1>4, <1>5, <1>6, <1>7, <1>8, <1>9, <1>10, <1>11, <1>12, <1>13,
      <1>14 DEF CInv, Covered, Keeps

(* The child is still parked when its launch is given up.                  *)
LEMMA LaunchFailsKeeps ==
  ASSUME CInv, NEW r \in Reqs, LaunchFails(r)
  PROVE  Keeps
<1> USE NoneAssumption
<1> USE DEF LaunchFails, Goto, osVars, identity, platform, tables, owner,
    manager, callVars, targetVars, commandVars, supVars
<1>1. LaunchAlone(r)
  BY LaunchIsAlone DEF LaunchPCs
<1>2. Covered => LaunchRunsAlone(r)
  BY LaunchAloneRuns DEF IInv, LaunchPCs
<1>3. TypeOK'
  BY <1>1 DEF CInv, TypeOK, LaunchAlone, HoldsPid, PCs, LaunchPCs
<1>4. PidsAreOwned' /\ RecordsDescribeLaunches' /\ EntriesDescribeLaunches' /\
    SupervisorsOwnEntries' /\ RecoveryKnowsItsRecords' /\ UnreconciledIsInherited'
  BY DEF CInv, PidsAreOwned, RecordsDescribeLaunches, EntriesDescribeLaunches,
      EntryDescribes, SupervisorsOwnEntries, SupervisorOwns,
      RecoveryKnowsItsRecords, UnreconciledIsInherited, Live
<1>5. Covered => LiveIsJournaled'
  BY DEF CInv, Covered, LiveIsJournaled, PidsAreOwned, Live
<1>6. LocksAreHeld'
  BY <1>1 DEF CInv, TypeOK, LocksAreHeld, LaunchAlone, HoldsPid, LaunchPCs,
      StopPCs
<1>7. LaunchesOwnTheirs'
  BY <1>1 DEF CInv, TypeOK, LaunchesOwnTheirs, LaunchOwns, PidsAreOwned,
      LocksAreHeld, Live, LaunchAlone, HoldsPid, LaunchPCs, StopPCs
<1>8. Covered => NothingHidden'
  BY <1>1, <1>2 DEF LaunchRunsAlone, CInv, Covered, TypeOK, NothingHidden, PidsAreOwned, Live, LaunchAlone,
      HoldsPid
<1>9. CallersAwait'
  BY <1>1 DEF CInv, TypeOK, CallersAwait, LaunchAlone, HoldsPid
<1>10. StopsKnowTheirEntry'
  BY <1>1 DEF CInv, TypeOK, StopsKnowTheirEntry, EntriesDescribeLaunches,
      EntryDescribes, LocksAreHeld, Live, LaunchAlone, HoldsPid, LaunchPCs,
      StopPCs, NoEntry
<1>11. QED
  BY <1>3, <1>4, <1>5, <1>6, <1>7, <1>8, <1>9, <1>10 DEF CInv, Covered, Keeps

(* The child starts to run only now, with its record in place.             *)
LEMMA ReleaseKeeps ==
  ASSUME CInv, NEW r \in Reqs, Release(r)
  PROVE  Keeps
<1> USE NoneAssumption
<1> USE DEF Release, Goto, identity, tables, owner, manager, callVars,
    targetVars, commandVars, supVars
<1>1. LaunchAlone(r)
  BY LaunchIsAlone DEF LaunchPCs
<1>2. Covered => LaunchRunsAlone(r)
  BY LaunchAloneRuns DEF IInv, LaunchPCs
<1>3. TypeOK'
  BY <1>1 DEF CInv, TypeOK, LaunchAlone, HoldsPid, LeaderStates, PCs,
      LaunchPCs
<1>4. Covered => LiveIsJournaled'
  <2> SUFFICES ASSUME Covered PROVE LiveIsJournaled'
    OBVIOUS
  <2>1. journal[svc[r]].pid = rpid[r]
    <3>1. LaunchOwns(r)
      BY DEF CInv, Covered, LaunchesOwnTheirs
    <3>2. journal[svc[r]] = [gen |-> rgen[r], pid |-> rpid[r]]
      BY <3>1 DEF LaunchOwns
    <3>3. QED
      BY <3>2
  <2>2. owns[rpid[r]] = svc[r]
    BY <1>1 DEF LaunchAlone, HoldsPid
  <2>3. QED
    BY <2>1, <2>2 DEF CInv, Covered, TypeOK, LiveIsJournaled, Live
<1>5. PidsAreOwned'
  BY <1>1 DEF CInv, TypeOK, PidsAreOwned, LaunchAlone, HoldsPid
<1>6. RecordsDescribeLaunches'
  BY <1>1 DEF CInv, TypeOK, RecordsDescribeLaunches, LaunchAlone, HoldsPid,
      NoRecord
<1>7. EntriesDescribeLaunches'
  BY <1>1 DEF CInv, TypeOK, EntriesDescribeLaunches, EntryDescribes, Live,
      LaunchAlone, HoldsPid, NoEntry
<1>8. LocksAreHeld'
  BY <1>1 DEF CInv, TypeOK, LocksAreHeld, LaunchAlone, HoldsPid, LaunchPCs,
      StopPCs
<1>9. LaunchesOwnTheirs'
  BY <1>1 DEF CInv, TypeOK, LaunchesOwnTheirs, LaunchOwns, PidsAreOwned,
      LocksAreHeld, Live, LaunchAlone, HoldsPid, LaunchPCs, StopPCs
<1>10. SupervisorsOwnEntries'
  BY <1>1 DEF CInv, TypeOK, SupervisorsOwnEntries, SupervisorOwns,
      PidsAreOwned, Live, LaunchAlone, HoldsPid
<1>11. Covered => NothingHidden'
  BY <1>1, <1>2 DEF LaunchRunsAlone, CInv, Covered, TypeOK, NothingHidden, PidsAreOwned, Live, LaunchAlone,
      HoldsPid
<1>12. RecoveryKnowsItsRecords'
  BY <1>1 DEF CInv, TypeOK, RecoveryKnowsItsRecords, Live, LaunchAlone,
      HoldsPid, NoRecord
<1>13. UnreconciledIsInherited'
  BY <1>1 DEF CInv, TypeOK, UnreconciledIsInherited, LaunchAlone, HoldsPid
<1>14. CallersAwait'
  BY <1>1 DEF CInv, TypeOK, CallersAwait, LaunchAlone, HoldsPid
<1>15. StopsKnowTheirEntry'
  BY <1>1 DEF CInv, TypeOK, StopsKnowTheirEntry, EntriesDescribeLaunches,
      EntryDescribes, LocksAreHeld, Live, LaunchAlone, HoldsPid, LaunchPCs,
      StopPCs, NoEntry
<1>16. QED
  BY <1>3, <1>4, <1>5, <1>6, <1>7, <1>8, <1>9, <1>10, <1>11, <1>12, <1>13,
      <1>14, <1>15 DEF CInv, Covered, Keeps

(* A child that could not exec left nothing running.                       *)
LEMMA SpawnFailsKeeps ==
  ASSUME CInv, NEW r \in Reqs, SpawnFails(r)
  PROVE  Keeps
<1> USE NoneAssumption
<1> USE DEF SpawnFails, Goto, osVars, identity, platform, tables, owner,
    manager, callVars, targetVars, commandVars, supVars
<1>1. LaunchAlone(r)
  BY LaunchIsAlone DEF LaunchPCs
<1>2. Covered => LaunchRunsAlone(r)
  BY LaunchAloneRuns DEF IInv, LaunchPCs
<1>3. TypeOK'
  BY <1>1 DEF CInv, TypeOK, LaunchAlone, HoldsPid, PCs, LaunchPCs
<1>4. PidsAreOwned' /\ RecordsDescribeLaunches' /\ EntriesDescribeLaunches' /\
    SupervisorsOwnEntries' /\ RecoveryKnowsItsRecords' /\ UnreconciledIsInherited'
  BY DEF CInv, PidsAreOwned, RecordsDescribeLaunches, EntriesDescribeLaunches,
      EntryDescribes, SupervisorsOwnEntries, SupervisorOwns,
      RecoveryKnowsItsRecords, UnreconciledIsInherited, Live
<1>5. Covered => LiveIsJournaled'
  BY DEF CInv, Covered, LiveIsJournaled, PidsAreOwned, Live
<1>6. LocksAreHeld'
  BY <1>1 DEF CInv, TypeOK, LocksAreHeld, LaunchAlone, HoldsPid, LaunchPCs,
      StopPCs
<1>7. LaunchesOwnTheirs'
  BY <1>1 DEF CInv, TypeOK, LaunchesOwnTheirs, LaunchOwns, PidsAreOwned,
      LocksAreHeld, Live, LaunchAlone, HoldsPid, LaunchPCs, StopPCs
<1>8. Covered => NothingHidden'
  <2> SUFFICES ASSUME Covered PROVE NothingHidden'
    OBVIOUS
  <2>1. ~Live(rpid[r])
    BY DEF CInv, Covered, LaunchesOwnTheirs, LaunchOwns, Live
  <2>2. QED
    BY <1>1, <2>1 DEF CInv, Covered, TypeOK, NothingHidden, PidsAreOwned, Live, LaunchAlone
<1>9. CallersAwait'
  BY <1>1 DEF CInv, TypeOK, CallersAwait, LaunchAlone, HoldsPid
<1>10. StopsKnowTheirEntry'
  BY <1>1 DEF CInv, TypeOK, StopsKnowTheirEntry, EntriesDescribeLaunches,
      EntryDescribes, LocksAreHeld, Live, LaunchAlone, HoldsPid, LaunchPCs,
      StopPCs, NoEntry
<1>11. QED
  BY <1>3, <1>4, <1>5, <1>6, <1>7, <1>8, <1>9, <1>10 DEF CInv, Covered, Keeps

(* Nothing of the service runs when its record is dropped.                 *)
LEMMA AbandonKeeps ==
  ASSUME CInv, NEW r \in Reqs, Abandon(r)
  PROVE  Keeps
<1> USE NoneAssumption
<1> USE DEF Abandon, identity, commandVars, supVars
<1>1. LaunchAlone(r)
  BY LaunchIsAlone DEF LaunchPCs
<1>2. Covered => LaunchRunsAlone(r)
  BY LaunchAloneRuns DEF IInv, LaunchPCs
<1>3. Moves(r, {"idle"})
  BY <1>1, ReturnMoves DEF CInv
<1>4. Removes(svc[r], rgen[r]) \/ journal' = journal
  BY <1>1, <1>3, RemoveMatchingRemoves DEF CInv, TypeOK
<1>5. TypeOK'
  BY <1>1, <1>3, <1>4 DEF CInv, TypeOK, Moves, Removes, LaunchAlone, HoldsPid,
      LeaderStates, Record, NoRecord, PCs, LaunchPCs, Ops
<1>6. Covered => LiveIsJournaled'
  BY <1>1, <1>2, <1>3, <1>4 DEF LaunchRunsAlone, CInv, Covered, TypeOK, LiveIsJournaled, PidsAreOwned, Moves,
      Removes, Live, LaunchAlone, HoldsPid
<1>7. PidsAreOwned'
  BY <1>1, <1>3, <1>4 DEF CInv, TypeOK, PidsAreOwned, Moves, Removes,
      LaunchAlone, HoldsPid
<1>8. RecordsDescribeLaunches'
  <2>1. \A s \in Services : journal'[s] = journal[s] \/ journal'[s] = NoRecord
    BY <1>4 DEF CInv, TypeOK, Removes
  <2>2. \A p \in Pids : leader[p] # "unborn" => leader'[p] # "unborn"
    BY <1>1 DEF CInv, TypeOK, LaunchAlone, HoldsPid
  <2>3. QED
    BY <2>1, <2>2 DEF CInv, RecordsDescribeLaunches
<1>9. EntriesDescribeLaunches'
  <2>1. \A s \in Services : journal'[s] = journal[s] \/ journal'[s].pid = NoPid
    BY <1>4 DEF CInv, TypeOK, Removes, NoRecord
  <2>2. \A p \in Pids : /\ leader[p] # "unborn" => leader'[p] # "unborn"
                        /\ ~Live(p) => ~Live(p)'
    BY <1>1 DEF CInv, TypeOK, LaunchAlone, HoldsPid, Live
  <2>3. QED
    BY <2>1, <2>2 DEF CInv, EntriesDescribeLaunches, EntryDescribes
<1>10. LocksAreHeld'
  BY <1>1, <1>3, <1>4 DEF CInv, TypeOK, LocksAreHeld, Moves, Removes,
      LaunchAlone, HoldsPid, LaunchPCs, StopPCs
<1>11. LaunchesOwnTheirs'
  <2>1. LaunchOwns(r)'
    BY <1>1, <1>3, <1>4 DEF CInv, TypeOK, Moves, LaunchOwns, LaunchPCs, Live, LaunchAlone, HoldsPid
  <2>2. ASSUME NEW q \in Reqs, q # r PROVE LaunchOwns(q)'
    <3>1. LaunchOwns(q)
      BY DEF CInv, LaunchesOwnTheirs
    <3>2. gate = r
      BY DEF CInv, LaunchesOwnTheirs, LaunchOwns
    <3>3. QED
      BY <1>1, <1>3, <1>4, <2>2, <3>1, <3>2 DEF CInv, TypeOK, Moves, Removes, LaunchOwns, LaunchPCs, Live, LaunchAlone, HoldsPid
  <2>3. QED
    BY <2>1, <2>2 DEF LaunchesOwnTheirs
<1>12. SupervisorsOwnEntries'
  BY <1>1, <1>3, <1>4 DEF CInv, TypeOK, SupervisorsOwnEntries, SupervisorOwns,
      PidsAreOwned, Moves, Removes, Live, LaunchAlone, HoldsPid
<1>13. Covered => NothingHidden'
  <2> SUFFICES ASSUME Covered PROVE NothingHidden'
    OBVIOUS
  <2>1. ASSUME NEW p \in Pids, Live(p)' PROVE Live(p) /\ owns[p] \in Services
    BY <1>1, <2>1 DEF CInv, TypeOK, PidsAreOwned, LaunchAlone, HoldsPid, Live
  <2>2. ASSUME NEW p \in Pids, NEW q \in Reqs, Live(p),
               rpid[q] = p, pc[q] = "spawn", lock[owns[p]] = q
        PROVE  rpid'[q] = p /\ pc'[q] = "spawn" /\ lock'[owns[p]] = q
    <3>1. q # r /\ owns[p] \in Services
      BY <2>1, <2>2 DEF CInv, PidsAreOwned, Live
    <3>2. QED
      BY <1>3, <2>2, <3>1 DEF Moves
  <2>3. QED
    BY <2>1, <2>2 DEF Covered, NothingHidden
<1>14. RecoveryKnowsItsRecords'
  BY <1>1, <1>3, <1>4 DEF CInv, TypeOK, RecoveryKnowsItsRecords, Moves,
      Removes, Live, LaunchAlone, HoldsPid, NoRecord
<1>15. UnreconciledIsInherited'
  BY <1>1, <1>3, <1>4 DEF CInv, TypeOK, UnreconciledIsInherited, Moves,
      Removes, LaunchAlone, HoldsPid
<1>16. CallersAwait'
  <2>1. \A p \in Pids : leader[p] # "unborn" => leader'[p] # "unborn"
    BY <1>1 DEF CInv, TypeOK, LaunchAlone, HoldsPid
  <2>2. QED
    BY <1>3, <2>1, MovesLeavesCallers DEF Moves
<1>17. StopsKnowTheirEntry'
  BY <1>1, <1>3, <1>4 DEF CInv, TypeOK, StopsKnowTheirEntry,
      EntriesDescribeLaunches, EntryDescribes, LocksAreHeld, Moves, Removes,
      Live, LaunchAlone, HoldsPid, LaunchPCs, StopPCs, NoEntry
<1>18. QED
  BY <1>5, <1>6, <1>7, <1>8, <1>9, <1>10, <1>11, <1>12, <1>13, <1>14, <1>15,
      <1>16, <1>17 DEF CInv, Covered, Keeps

(* The running group passes from its launch to its entry.                  *)
LEMMA RegisterKeeps ==
  ASSUME CInv, NEW r \in Reqs, Register(r)
  PROVE  Keeps
<1> USE NoneAssumption
<1> USE DEF Register, osVars, identity, platform, commandVars
<1>1. LaunchAlone(r)
  BY LaunchIsAlone DEF LaunchPCs
<1>2. Covered => LaunchRunsAlone(r)
  BY LaunchAloneRuns DEF IInv, LaunchPCs
<1>3. Moves(r, {"idle"})
  BY <1>1, ReturnMoves DEF CInv
<1>4. TypeOK'
  BY <1>1, <1>3 DEF CInv, TypeOK, Moves, LaunchAlone, HoldsPid, Entry,
      EntryStates, PCs, LaunchPCs, Ops, SupPCs
<1>5. RecordsDescribeLaunches' /\ RecoveryKnowsItsRecords' /\
    UnreconciledIsInherited'
  BY DEF CInv, RecordsDescribeLaunches, RecoveryKnowsItsRecords,
      UnreconciledIsInherited, Live
<1>6. Covered => LiveIsJournaled'
  BY DEF CInv, Covered, LiveIsJournaled, Live
<1>7. PidsAreOwned'
  BY <1>1, <1>3 DEF CInv, TypeOK, PidsAreOwned, Moves, LaunchAlone, HoldsPid
<1>8. EntriesDescribeLaunches'
  BY <1>1, <1>3 DEF CInv, TypeOK, EntriesDescribeLaunches, EntryDescribes,
      Moves, Live, LaunchAlone, HoldsPid, NoEntry
<1>9. LocksAreHeld'
  BY <1>1, <1>3 DEF CInv, TypeOK, LocksAreHeld, Moves, LaunchAlone, HoldsPid,
      LaunchPCs, StopPCs
<1>10. LaunchesOwnTheirs'
  <2>1. LaunchOwns(r)'
    BY <1>1, <1>3 DEF CInv, TypeOK, Moves, LaunchOwns, LaunchPCs, Live, LaunchAlone, HoldsPid
  <2>2. ASSUME NEW q \in Reqs, q # r PROVE LaunchOwns(q)'
    <3>1. LaunchOwns(q)
      BY DEF CInv, LaunchesOwnTheirs
    <3>2. gate = r
      BY DEF CInv, LaunchesOwnTheirs, LaunchOwns
    <3>3. QED
      BY <1>1, <1>3, <2>2, <3>1, <3>2 DEF CInv, TypeOK, Moves, LaunchOwns, LaunchPCs, Live, LaunchAlone, HoldsPid
  <2>3. QED
    BY <2>1, <2>2 DEF LaunchesOwnTheirs
<1>11. SupervisorsOwnEntries'
  BY <1>1, <1>3 DEF CInv, TypeOK, SupervisorsOwnEntries, SupervisorOwns,
      PidsAreOwned, Moves, Live, LaunchAlone, HoldsPid
<1>12. Covered => NothingHidden'
  <2> SUFFICES ASSUME Covered PROVE NothingHidden'
    OBVIOUS
  <2> SUFFICES ASSUME NEW p \in Pids, Live(p)
               PROVE  /\ p \notin inherited
                      /\ \/ entry'[owns[p]].pid = p /\ ~entry'[owns[p]].confirmed
                         \/ \E q \in Reqs : rpid'[q] = p /\ pc'[q] = "spawn" /\ lock'[owns[p]] = q
    BY DEF NothingHidden, Live
  <2>1. reconciled /\ owns[p] \in Services
    BY <1>1 DEF CInv, Covered, PidsAreOwned, Live, LaunchAlone
  <2>2. CASE owns[p] = svc[r]
    BY <1>1, <2>1, <2>2 DEF CInv, Covered, TypeOK, NothingHidden, LaunchAlone
  <2>3. CASE owns[p] # svc[r]
    <3>1. entry'[owns[p]] = entry[owns[p]]
      BY <2>1, <2>3 DEF CInv, Covered, TypeOK
    <3>2. CASE entry[owns[p]].pid = p /\ ~entry[owns[p]].confirmed
      BY <2>1, <3>1, <3>2 DEF CInv, Covered, NothingHidden
    <3>3. ASSUME NEW q \in Reqs, rpid[q] = p, pc[q] = "spawn", lock[owns[p]] = q
          PROVE  rpid'[q] = p /\ pc'[q] = "spawn" /\ lock'[owns[p]] = q
      <4>1. q # r
        BY <1>1, <2>3, <3>3 DEF LaunchAlone, HoldsPid
      <4>2. QED
        BY <1>3, <2>1, <3>3, <4>1 DEF Moves
    <3>4. QED
      BY <2>1, <3>2, <3>3 DEF CInv, Covered, NothingHidden
  <2>4. QED
    BY <2>2, <2>3
<1>13. CallersAwait'
  BY <1>1, <1>3 DEF CInv, TypeOK, CallersAwait, Moves, LaunchAlone, HoldsPid
<1>14. StopsKnowTheirEntry'
  BY <1>1, <1>3 DEF CInv, TypeOK, StopsKnowTheirEntry,
      EntriesDescribeLaunches, EntryDescribes, LocksAreHeld, Moves, Live,
      LaunchAlone, HoldsPid, LaunchPCs, StopPCs, NoEntry
<1>15. QED
  BY <1>4, <1>5, <1>6, <1>7, <1>8, <1>9, <1>10, <1>11, <1>12, <1>13,
      <1>14 DEF CInv, Covered, Keeps

-----------------------------------------------------------------------------
(* Stop.                                                                   *)

(* Only the state of a clean entry changes.                                *)
LEMMA StopFindsNothingKeeps ==
  ASSUME CInv, NEW r \in Reqs, StopFindsNothing(r)
  PROVE  Keeps
<1> USE NoneAssumption
<1> USE DEF StopFindsNothing, osVars, identity, platform, owner, commandVars,
    supVars
<1>1. Moves(r, {"idle", "names", "check"})
  BY StopReturnsMoves DEF CInv
<1>2. KeepsEntries
  <2>1. entry \in [Services -> Entry]
    BY DEF CInv, TypeOK
  <2>2. CASE entry' = entry
    BY <2>1, <2>2 DEF KeepsEntries
  <2>3. CASE entry[svc[r]].state # "absent" /\ SetState(svc[r], "stopped")
    BY <2>3, SetStateKeepsEntries DEF CInv, TypeOK
  <2>4. QED
    BY <2>2, <2>3
<1>3. TypeOK'
  BY <1>1, <1>2 DEF CInv, TypeOK, Moves, KeepsEntries, Entry, EntryStates, PCs,
      LaunchPCs, Ops
<1>4. PidsAreOwned' /\ RecordsDescribeLaunches' /\ RecoveryKnowsItsRecords' /\
    UnreconciledIsInherited'
  BY DEF CInv, PidsAreOwned, RecordsDescribeLaunches, RecoveryKnowsItsRecords,
      UnreconciledIsInherited, Live
<1>5. Covered => LiveIsJournaled'
  BY DEF CInv, Covered, LiveIsJournaled, PidsAreOwned, Live
<1>6. EntriesDescribeLaunches'
  BY <1>1, <1>2 DEF KeepsEntries, CInv, TypeOK, EntriesDescribeLaunches, EntryDescribes, Moves, Live, NoEntry
<1>7. LocksAreHeld'
  BY <1>1, <1>2 DEF CInv, TypeOK, LocksAreHeld, Moves, KeepsEntries, LaunchPCs,
      StopPCs
<1>8. LaunchesOwnTheirs'
  <2>1. ASSUME NEW q \in Reqs PROVE LaunchOwns(q)'
    <3>1. LaunchOwns(q)
      BY DEF CInv, LaunchesOwnTheirs
    <3>2. pc'[q] \in LaunchPCs => q # r
      BY <1>1 DEF Moves, LaunchPCs
    <3>3. /\ entry'[svc[q]].confirmed = entry[svc[q]].confirmed
          /\ entry'[svc[q]].pid = entry[svc[q]].pid
      BY <1>2 DEF CInv, TypeOK, KeepsEntries
    <3>4. QED
      BY <1>1, <3>1, <3>2, <3>3 DEF Moves, LaunchOwns, LaunchPCs, Live
  <2>2. QED
    BY <2>1 DEF LaunchesOwnTheirs
<1>9. SupervisorsOwnEntries'
  BY SMTT(30), <1>1, <1>2 DEF KeepsEntries, CInv, TypeOK,
      SupervisorsOwnEntries, SupervisorOwns, PidsAreOwned,
      EntriesDescribeLaunches, EntryDescribes, Live
<1>10. Covered => NothingHidden'
  BY <1>1, <1>2, MovesHidesNothing DEF KeepsEntries
<1>11. CallersAwait'
  BY <1>1, <1>2 DEF CInv, TypeOK, CallersAwait, Moves, KeepsEntries
<1>12. StopsKnowTheirEntry'
  BY <1>1, <1>2 DEF CInv, TypeOK, StopsKnowTheirEntry,
      EntriesDescribeLaunches, EntryDescribes, LocksAreHeld, Moves, KeepsEntries,
      Live, LaunchPCs, StopPCs, NoEntry
<1>13. QED
  BY <1>3, <1>4, <1>5, <1>6, <1>7, <1>8, <1>9, <1>10, <1>11, <1>12 DEF CInv,
      Covered, Keeps

(* The sweep begins on an entry without supervisor or process.             *)
LEMMA StopUnsupervisedKeeps ==
  ASSUME CInv, NEW r \in Reqs, StopUnsupervised(r)
  PROVE  Keeps
<1> USE NoneAssumption
<1> USE DEF StopUnsupervised, Goto, GroupExists, osVars, identity, platform,
    owner, callVars, commandVars, supVars
<1>1. /\ Moves(r, {"idle", "names", "check", "sweep"})
      /\ pc'[r] = "sweep" => ~GroupExists(entry[svc[r]].pid) /\ rgen'[r] = entry[svc[r]].gen
  <2>1. CASE StopReturns(r, "err")
    BY <2>1, StopReturnsMoves DEF CInv, Moves
  <2>2. CASE ~StopReturns(r, "err")
    <3>1. /\ Goto(r, "sweep") /\ rgen' = [rgen EXCEPT ![r] = entry[svc[r]].gen]
          /\ UNCHANGED <<callVars, rpid, lock>>
          /\ ~GroupExists(entry[svc[r]].pid)
      BY <2>2
    <3>2. entry[svc[r]].gen \in Nat
      BY DEF CInv, TypeOK, Entry
    <3>3. QED
      BY <3>1, <3>2 DEF CInv, TypeOK, Moves, PCs
  <2>3. QED
    BY <2>1, <2>2
<1>2. TypeOK'
  BY <1>1 DEF CInv, TypeOK, Moves, PCs, LaunchPCs, Ops
<1>3. PidsAreOwned' /\ RecordsDescribeLaunches' /\ EntriesDescribeLaunches' /\
    SupervisorsOwnEntries' /\ RecoveryKnowsItsRecords' /\ UnreconciledIsInherited'
  BY DEF CInv, PidsAreOwned, RecordsDescribeLaunches, EntriesDescribeLaunches,
      EntryDescribes, SupervisorsOwnEntries, SupervisorOwns,
      RecoveryKnowsItsRecords, UnreconciledIsInherited, Live
<1>4. Covered => LiveIsJournaled'
  BY DEF CInv, Covered, LiveIsJournaled, PidsAreOwned, Live
<1>5. LocksAreHeld'
  BY <1>1 DEF CInv, TypeOK, LocksAreHeld, Moves, LaunchPCs, StopPCs
<1>6. LaunchesOwnTheirs'
  BY <1>1, MovesLeavesLaunches DEF Moves, LaunchPCs
<1>7. Covered => NothingHidden'
  BY <1>1, MovesHidesNothing
<1>8. CallersAwait'
  BY <1>1, MovesLeavesCallers DEF Moves
<1>9. StopsKnowTheirEntry'
  <2>1. pc'[r] = "sweep" => ~Live(entry[svc[r]].pid)
    BY <1>1 DEF CInv, EntriesDescribeLaunches, EntryDescribes, Live
  <2>2. QED
    BY <1>1, <2>1 DEF CInv, StopsKnowTheirEntry, Moves, Live
<1>10. QED
  BY <1>2, <1>3, <1>4, <1>5, <1>6, <1>7, <1>8, <1>9 DEF CInv, Covered, Keeps

(* What the sweep confirms is gone.                                        *)
LEMMA StopRetriesRemovalKeeps ==
  ASSUME CInv, NEW r \in Reqs, StopRetriesRemoval(r)
  PROVE  Keeps
<1> USE NoneAssumption
<1> USE DEF StopRetriesRemoval, osVars, identity, owner, commandVars, supVars
<1>1. SweepAlone(r)
  BY SweepIsAlone
<1>2. Covered => SweepRunsAlone(r)
  BY SweepAloneRuns DEF IInv
<1>3. Moves(r, {"idle", "names", "check"})
  BY <1>1, StopReturnsMoves DEF CInv
<1>4. \/ Removes(svc[r], rgen[r]) /\ Sets(svc[r], "stopped", TRUE, entry[svc[r]].controlled)
      \/ journal' = journal /\ entry' = entry
  <2>1. svc[r] \in Services /\ rgen[r] \in Nat /\ entry[svc[r]].controlled \in BOOLEAN
    BY DEF CInv, TypeOK, Entry
  <2>2. CASE RemoveMatching(svc[r], rgen[r]) /\ SetEntry(svc[r], "stopped", TRUE, entry[svc[r]].controlled)
    BY <2>1, <2>2, RemoveMatchingRemoves, SetEntrySets DEF CInv, EntryStates
  <2>3. CASE journal' = journal /\ entry' = entry
    BY <2>3
  <2>4. QED
    BY <1>1, <2>2, <2>3 DEF SweepAlone
<1>5. TypeOK'
  BY <1>1, <1>3, <1>4 DEF CInv, TypeOK, Moves, Removes, Sets, SweepAlone,
      Record, NoRecord, Entry, EntryStates, PCs, LaunchPCs, Ops
<1>6. PidsAreOwned' /\ UnreconciledIsInherited'
  BY DEF CInv, PidsAreOwned, UnreconciledIsInherited
<1>7. Covered => LiveIsJournaled'
  BY <1>1, <1>2, <1>3, <1>4 DEF SweepRunsAlone, CInv, Covered, TypeOK, LiveIsJournaled, PidsAreOwned, Moves,
      Removes, Sets, Live, SweepAlone
<1>8. RecordsDescribeLaunches'
  <2>1. \A s \in Services : journal'[s] \in {journal[s], NoRecord}
    BY <1>4 DEF Removes
  <2>2. QED
    BY <2>1 DEF CInv, RecordsDescribeLaunches
<1>9. EntriesDescribeLaunches'
  <2>1. ASSUME NEW s \in Services, s # svc[r] PROVE EntryDescribes(s)'
    BY <1>1, <1>4, <2>1 DEF CInv, TypeOK, EntriesDescribeLaunches, EntryDescribes, Removes, Sets, Live
  <2>2. ASSUME NEW s \in Services, s = svc[r] PROVE EntryDescribes(s)'
    <3>1. EntryDescribes(s)
      BY DEF CInv, EntriesDescribeLaunches
    <3>2. CASE journal' = journal /\ entry' = entry
      BY <3>1, <3>2 DEF EntryDescribes, Live
    <3>3. CASE Removes(s, rgen[r]) /\ Sets(s, "stopped", TRUE, entry[s].controlled)
      <4>1. journal'[s].pid # entry[s].pid
        BY <1>1, <2>2, <3>3 DEF CInv, TypeOK, Removes, SweepAlone, RecordsDescribeLaunches, NoRecord
      <4>2. QED
        BY <1>1, <2>2, <3>1, <3>3, <4>1 DEF EntryDescribes, Sets, Live, SweepAlone
    <3>4. QED
      BY <1>4, <2>2, <3>2, <3>3
  <2>3. QED
    BY <2>1, <2>2 DEF EntriesDescribeLaunches
<1>10. LocksAreHeld'
  BY <1>1, <1>3, <1>4 DEF CInv, TypeOK, LocksAreHeld, Moves, Removes, Sets,
      SweepAlone, LaunchPCs, StopPCs
<1>11. LaunchesOwnTheirs'
  BY <1>1, <1>3, <1>4 DEF CInv, TypeOK, LaunchesOwnTheirs, LaunchOwns,
      PidsAreOwned, LocksAreHeld, Moves, Removes, Sets, Live, SweepAlone,
      LaunchPCs, StopPCs
<1>12. SupervisorsOwnEntries'
  BY <1>1, <1>3, <1>4 DEF CInv, TypeOK, SupervisorsOwnEntries, SupervisorOwns,
      PidsAreOwned, Moves, Removes, Sets, Live, SweepAlone
<1>13. Covered => NothingHidden'
  BY <1>1, <1>2, <1>3, <1>4 DEF SweepRunsAlone, CInv, Covered, TypeOK, NothingHidden, PidsAreOwned, Moves,
      Removes, Sets, Live, SweepAlone
<1>14. RecoveryKnowsItsRecords'
  BY <1>1, <1>3, <1>4 DEF CInv, TypeOK, RecoveryKnowsItsRecords, Moves,
      Removes, Sets, Live, SweepAlone, NoRecord
<1>15. CallersAwait'
  BY <1>3, MovesLeavesCallers DEF Moves
<1>16. StopsKnowTheirEntry'
  BY SMTT(30), <1>1, <1>3, <1>4 DEF CInv, TypeOK, StopsKnowTheirEntry,
      EntriesDescribeLaunches, EntryDescribes, LocksAreHeld, Moves, Removes,
      Sets, Live, SweepAlone, LaunchPCs, StopPCs, NoEntry
<1>17. QED
  BY <1>5, <1>6, <1>7, <1>8, <1>9, <1>10, <1>11, <1>12, <1>13, <1>14, <1>15,
      <1>16 DEF CInv, Covered, Keeps

(* A supervised entry is unconfirmed, and stays so.                        *)
LEMMA StopMarksKeeps ==
  ASSUME CInv, NEW r \in Reqs, StopMarks(r)
  PROVE  Keeps
<1> USE NoneAssumption
<1> USE DEF StopMarks, Goto, osVars, identity, platform, owner, callVars,
    commandVars, supVars
<1>1. Sets(svc[r], "stopping", entry[svc[r]].confirmed, entry[svc[r]].controlled)
  BY SetStateSets DEF CInv, TypeOK, EntryStates
<1>2. TypeOK'
  BY <1>1 DEF CInv, TypeOK, Sets, Entry, EntryStates, PCs, LaunchPCs
<1>3. PidsAreOwned' /\ RecordsDescribeLaunches' /\ RecoveryKnowsItsRecords' /\
    UnreconciledIsInherited'
  BY DEF CInv, PidsAreOwned, RecordsDescribeLaunches, RecoveryKnowsItsRecords,
      UnreconciledIsInherited, Live
<1>4. Covered => LiveIsJournaled'
  BY DEF CInv, Covered, LiveIsJournaled, PidsAreOwned, Live
<1>5. EntriesDescribeLaunches'
  BY <1>1 DEF CInv, TypeOK, EntriesDescribeLaunches, EntryDescribes, Sets,
      Live, NoEntry
<1>6. LocksAreHeld'
  BY <1>1 DEF CInv, TypeOK, LocksAreHeld, Sets, LaunchPCs, StopPCs
<1>7. LaunchesOwnTheirs'
  BY <1>1 DEF CInv, TypeOK, LaunchesOwnTheirs, LaunchOwns, PidsAreOwned,
      LocksAreHeld, Sets, Live, LaunchPCs, StopPCs
<1>8. SupervisorsOwnEntries'
  <2> SUFFICES ASSUME NEW p \in Pids, spc[p] \notin {"none", "gone"}
               PROVE  SupervisorOwns(p)'
    BY DEF SupervisorsOwnEntries, SupervisorOwns
  <2>1. SupervisorAlone(p) /\ SupervisorOwns(p)
    BY SupervisorIsAlone DEF CInv, SupervisorsOwnEntries
  <2>2. CASE owns[p] = svc[r]
    BY ZenonT(40), <1>1, <2>1, <2>2 DEF SupervisorOwns, SupervisorAlone, Sets, Live
  <2>3. CASE owns[p] # svc[r]
    BY <1>1, <2>1, <2>3 DEF SupervisorOwns, SupervisorAlone, Sets, Live
  <2>4. QED
    BY <2>2, <2>3
<1>9. Covered => NothingHidden'
  BY SMTT(30), <1>1 DEF CInv, Covered, TypeOK, NothingHidden, PidsAreOwned, Sets, Live
<1>10. CallersAwait'
  BY SMTT(30), <1>1 DEF CInv, TypeOK, CallersAwait, EntriesDescribeLaunches,
      EntryDescribes, PidsAreOwned, LocksAreHeld, Sets, Live, LaunchPCs,
      StopPCs, NoEntry
<1>11. StopsKnowTheirEntry'
  BY <1>1 DEF CInv, TypeOK, StopsKnowTheirEntry, EntriesDescribeLaunches,
      EntryDescribes, LocksAreHeld, Sets, Live, LaunchPCs, StopPCs, NoEntry
<1>12. QED
  BY <1>2, <1>3, <1>4, <1>5, <1>6, <1>7, <1>8, <1>9, <1>10, <1>11 DEF CInv,
      Covered, Keeps

(* A caller is in one mailbox, that of the supervisor it names.            *)
LEMMA SendStopKeeps ==
  ASSUME CInv, NEW r \in Reqs, SendStop(r)
  PROVE  Keeps
<1> USE NoneAssumption
<1> USE DEF SendStop, Goto, osVars, identity, platform, tables, owner,
    manager, callVars, targetVars
<1>1. TypeOK'
  BY DEF CInv, TypeOK, PCs, LaunchPCs
<1>2. PidsAreOwned' /\ RecordsDescribeLaunches' /\ EntriesDescribeLaunches' /\
    SupervisorsOwnEntries' /\ RecoveryKnowsItsRecords' /\ UnreconciledIsInherited'
  BY DEF CInv, PidsAreOwned, RecordsDescribeLaunches, EntriesDescribeLaunches,
      EntryDescribes, SupervisorsOwnEntries, SupervisorOwns,
      RecoveryKnowsItsRecords, UnreconciledIsInherited, Live
<1>3. Covered => LiveIsJournaled'
  BY DEF CInv, Covered, LiveIsJournaled, PidsAreOwned, Live
<1>4. LocksAreHeld'
  BY DEF CInv, TypeOK, LocksAreHeld, LaunchPCs, StopPCs
<1>5. LaunchesOwnTheirs'
  BY DEF CInv, TypeOK, LaunchesOwnTheirs, LaunchOwns, PidsAreOwned,
      LocksAreHeld, Live, LaunchPCs, StopPCs
<1>6. Covered => NothingHidden'
  BY DEF CInv, Covered, TypeOK, NothingHidden, PidsAreOwned, Live
<1>7. CallersAwait'
  BY DEF CInv, TypeOK, CallersAwait
<1>8. StopsKnowTheirEntry'
  BY DEF CInv, TypeOK, StopsKnowTheirEntry, EntriesDescribeLaunches,
      EntryDescribes, LocksAreHeld, Live, LaunchPCs, StopPCs, NoEntry
<1>9. QED
  BY <1>1, <1>2, <1>3, <1>4, <1>5, <1>6, <1>7, <1>8 DEF CInv, Covered, Keeps

(* The answer was already true.                                            *)
LEMMA StopAnsweredKeeps ==
  ASSUME CInv, NEW r \in Reqs, StopAnswered(r)
  PROVE  Keeps
<1> USE NoneAssumption
<1> USE DEF StopAnswered, osVars, identity, platform, owner, commandVars,
    supVars
<1>1. Moves(r, {"idle", "names", "check"})
  BY StopReturnsMoves DEF CInv
<1>2. TypeOK'
  BY <1>1 DEF CInv, TypeOK, Moves, PCs, LaunchPCs, Ops
<1>3. PidsAreOwned' /\ RecordsDescribeLaunches' /\ EntriesDescribeLaunches' /\
    SupervisorsOwnEntries' /\ RecoveryKnowsItsRecords' /\ UnreconciledIsInherited'
  BY DEF CInv, PidsAreOwned, RecordsDescribeLaunches, EntriesDescribeLaunches,
      EntryDescribes, SupervisorsOwnEntries, SupervisorOwns,
      RecoveryKnowsItsRecords, UnreconciledIsInherited, Live
<1>4. Covered => LiveIsJournaled'
  BY DEF CInv, Covered, LiveIsJournaled, PidsAreOwned, Live
<1>5. LocksAreHeld'
  BY <1>1 DEF CInv, TypeOK, LocksAreHeld, Moves, LaunchPCs, StopPCs
<1>6. LaunchesOwnTheirs'
  BY <1>1 DEF CInv, TypeOK, LaunchesOwnTheirs, LaunchOwns, PidsAreOwned,
      LocksAreHeld, Moves, Live, LaunchPCs, StopPCs
<1>7. Covered => NothingHidden'
  BY <1>1, MovesHidesNothing
<1>8. CallersAwait'
  BY <1>1 DEF CInv, TypeOK, CallersAwait, Moves
<1>9. StopsKnowTheirEntry'
  BY <1>1 DEF CInv, TypeOK, StopsKnowTheirEntry, EntriesDescribeLaunches,
      EntryDescribes, LocksAreHeld, Moves, Live, LaunchPCs, StopPCs, NoEntry
<1>10. QED
  BY <1>2, <1>3, <1>4, <1>5, <1>6, <1>7, <1>8, <1>9 DEF CInv, Covered, Keeps

(* Only the state of a settled entry changes.                              *)
LEMMA StopFindsSupervisorGoneKeeps ==
  ASSUME CInv, NEW r \in Reqs, StopFindsSupervisorGone(r)
  PROVE  Keeps
<1> USE NoneAssumption
<1>0. /\ pc[r] \in {"dropped", "send"}
      /\ leader' = leader /\ rest' = rest /\ journal' = journal
      /\ owns' = owns /\ genOf' = genOf /\ inherited' = inherited
      /\ up' = up /\ crashes' = crashes
      /\ reconciled' = reconciled /\ nextGen' = nextGen
      /\ gate' = gate /\ recon' = recon
      /\ spc' = spc /\ stopRequested' = stopRequested
      /\ mailbox' = mailbox /\ replyTo' = replyTo
  BY DEF StopFindsSupervisorGone, osVars, identity, platform, owner,
      commandVars, supVars
<1>1. Moves(r, {"idle", "names", "check"})
  BY StopReturnsMoves DEF CInv, StopFindsSupervisorGone
<1>2. KeepsEntries
  <2>1. entry \in [Services -> Entry]
    BY DEF CInv, TypeOK
  <2>2. CASE entry' = entry
    BY <2>1, <2>2 DEF KeepsEntries
  <2>3. CASE entry[svc[r]].state # "absent" /\ SetState(svc[r], "stopped")
    BY <2>3, SetStateKeepsEntries DEF CInv, TypeOK
  <2>4. QED
    BY <2>2, <2>3 DEF StopFindsSupervisorGone
<1>3. TypeOK'
  BY <1>0, <1>1, <1>2 DEF CInv, TypeOK, Moves, KeepsEntries, Entry, EntryStates, PCs,
      LaunchPCs, Ops
<1>4. PidsAreOwned' /\ RecordsDescribeLaunches' /\ RecoveryKnowsItsRecords' /\
    UnreconciledIsInherited'
  BY <1>0 DEF CInv, PidsAreOwned, RecordsDescribeLaunches,
      RecoveryKnowsItsRecords, UnreconciledIsInherited, Live
<1>5. Covered => LiveIsJournaled'
  BY <1>0 DEF CInv, Covered, LiveIsJournaled, PidsAreOwned, Live
<1>6. EntriesDescribeLaunches'
  <2>1. ASSUME NEW s \in Services PROVE EntryDescribes(s)'
    <3>1. EntryDescribes(s)
      BY DEF CInv, EntriesDescribeLaunches
    <3>2. QED
      BY <1>0, <1>2, <3>1 DEF KeepsEntries, EntryDescribes, Live, NoEntry
  <2>2. QED
    BY <2>1 DEF EntriesDescribeLaunches
<1>7. LocksAreHeld'
  BY <1>0, <1>1, <1>2 DEF CInv, TypeOK, LocksAreHeld, Moves, KeepsEntries, LaunchPCs,
      StopPCs
<1>8. LaunchesOwnTheirs'
  <2>1. ASSUME NEW q \in Reqs PROVE LaunchOwns(q)'
    <3>1. LaunchOwns(q)
      BY DEF CInv, LaunchesOwnTheirs
    <3>2. pc'[q] \in LaunchPCs => q # r
      BY <1>1 DEF Moves, LaunchPCs
    <3>3. /\ entry'[svc[q]].confirmed = entry[svc[q]].confirmed
          /\ entry'[svc[q]].pid = entry[svc[q]].pid
      BY <1>2 DEF CInv, TypeOK, KeepsEntries
    <3>4. QED
      BY <1>0, <1>1, <3>1, <3>2, <3>3 DEF Moves, LaunchOwns, LaunchPCs, Live
  <2>2. QED
    BY <2>1 DEF LaunchesOwnTheirs
<1>9. SupervisorsOwnEntries'
  <2>1. ASSUME NEW p \in Pids PROVE SupervisorOwns(p)'
    <3>1. SupervisorOwns(p) /\ (leader[p] # "unborn" => owns[p] \in Services)
      BY DEF CInv, SupervisorsOwnEntries, PidsAreOwned
    <3>2. QED
      BY <1>0, <1>2, <3>1 DEF KeepsEntries, SupervisorOwns, Live
  <2>2. QED
    BY <2>1 DEF SupervisorsOwnEntries
<1>10. Covered => NothingHidden'
  <2> SUFFICES ASSUME Covered PROVE NothingHidden'
    OBVIOUS
  <2>1. \A p \in Pids : Live(p) => owns[p] \in Services
    BY DEF CInv, Covered, PidsAreOwned, Live
  <2>2. \A q \in Reqs : pc[q] = "spawn" => q # r
    BY <1>0
  <2>3. \A p \in Pids, q \in Reqs :
          Live(p) /\ rpid[q] = p /\ pc[q] = "spawn" /\ lock[owns[p]] = q
            => rpid'[q] = p /\ pc'[q] = "spawn" /\ lock'[owns[p]] = q
    BY <1>1, <2>1, <2>2 DEF Moves
  <2>4. \A p \in Pids : Live(p) =>
          /\ entry'[owns[p]].pid = entry[owns[p]].pid
          /\ entry'[owns[p]].confirmed = entry[owns[p]].confirmed
    BY <1>2, <2>1 DEF KeepsEntries
  <2>5. QED
    BY <1>0, <2>3, <2>4 DEF CInv, Covered, NothingHidden, Live
<1>11. CallersAwait'
  BY <1>0, <1>1 DEF CInv, CallersAwait, Moves
<1>12. StopsKnowTheirEntry'
  <2>1. \A q \in Reqs : pc'[q] \in {"sweep", "stopOk"} => q # r
    BY <1>1 DEF Moves
  <2>2. \A q \in Reqs :
          /\ entry'[svc[q]].confirmed = entry[svc[q]].confirmed
          /\ entry'[svc[q]].controlled = entry[svc[q]].controlled
          /\ entry'[svc[q]].gen = entry[svc[q]].gen
          /\ entry'[svc[q]].pid = entry[svc[q]].pid
          /\ entry[svc[q]].state # "absent" => entry'[svc[q]].state # "absent"
    BY <1>2 DEF CInv, TypeOK, KeepsEntries
  <2>3. QED
    BY <1>0, <1>1, <2>1, <2>2 DEF CInv, StopsKnowTheirEntry, Moves, Live
<1>13. QED
  BY <1>3, <1>4, <1>5, <1>6, <1>7, <1>8, <1>9, <1>10, <1>11, <1>12 DEF CInv,
      Covered, Keeps

-----------------------------------------------------------------------------
(* Supervisors.                                                            *)

(* A reaped leader can only make fewer groups live.                        *)
LEMMA ReapNaturalExitKeeps ==
  ASSUME CInv, NEW p \in Pids, ReapNaturalExit(p)
  PROVE  Keeps
<1> USE NoneAssumption
<1> USE DEF ReapNaturalExit, identity, tables, owner, manager, callVars,
    targetVars, reqVars, commandVars
<1>1. SupervisorAlone(p)
  BY SupervisorIsAlone
<1>2. Covered => SupervisorRunsAlone(p)
  BY SupervisorAloneRuns DEF IInv
<1>3. TypeOK'
  BY <1>1 DEF CInv, TypeOK, SupervisorAlone, HoldsPid, LeaderStates, SupPCs
<1>4. LocksAreHeld'
  BY DEF CInv, LocksAreHeld
<1>5. Covered => LiveIsJournaled'
  BY <1>1, <1>2 DEF SupervisorRunsAlone, CInv, Covered, TypeOK, LiveIsJournaled, Live, SupervisorAlone, HoldsPid
<1>6. PidsAreOwned'
  BY <1>1 DEF CInv, TypeOK, PidsAreOwned, SupervisorAlone, HoldsPid
<1>7. RecordsDescribeLaunches'
  BY <1>1 DEF CInv, TypeOK, RecordsDescribeLaunches, SupervisorAlone,
      HoldsPid, NoRecord
<1>8. EntriesDescribeLaunches'
  BY <1>1 DEF CInv, TypeOK, EntriesDescribeLaunches, EntryDescribes, Live,
      SupervisorAlone, HoldsPid, NoEntry
<1>9. LaunchesOwnTheirs'
  BY <1>1 DEF CInv, TypeOK, LaunchesOwnTheirs, LaunchOwns, PidsAreOwned,
      LocksAreHeld, Live, SupervisorAlone, HoldsPid, LaunchPCs, StopPCs
<1>10. SupervisorsOwnEntries'
  BY <1>1 DEF CInv, TypeOK, SupervisorsOwnEntries, SupervisorOwns,
      PidsAreOwned, Live, SupervisorAlone, HoldsPid
<1>11. Covered => NothingHidden'
  BY <1>1, <1>2 DEF SupervisorRunsAlone, CInv, Covered, TypeOK, NothingHidden, PidsAreOwned, Live,
      SupervisorAlone, HoldsPid
<1>12. RecoveryKnowsItsRecords'
  BY <1>1 DEF CInv, TypeOK, RecoveryKnowsItsRecords, Live, SupervisorAlone,
      HoldsPid, NoRecord
<1>13. UnreconciledIsInherited'
  BY <1>1 DEF CInv, TypeOK, UnreconciledIsInherited, SupervisorAlone, HoldsPid
<1>14. CallersAwait'
  BY <1>1 DEF CInv, TypeOK, CallersAwait, SupervisorAlone, HoldsPid
<1>15. StopsKnowTheirEntry'
  BY <1>1 DEF CInv, TypeOK, StopsKnowTheirEntry, EntriesDescribeLaunches,
      EntryDescribes, LocksAreHeld, Live, SupervisorAlone, HoldsPid,
      LaunchPCs, StopPCs, NoEntry
<1>16. QED
  BY <1>3, <1>4, <1>5, <1>6, <1>7, <1>8, <1>9, <1>10, <1>11, <1>12, <1>13,
      <1>14, <1>15 DEF CInv, Covered, Keeps

(* The supervisor keeps its entry.                                         *)
LEMMA KillLeftoversKeeps ==
  ASSUME CInv, NEW p \in Pids, KillLeftovers(p)
  PROVE  Keeps
<1> USE NoneAssumption
<1> USE DEF KillLeftovers, GroupExists, osVars, identity, platform, tables,
    owner, manager, callVars, targetVars, reqVars, commandVars
<1>1. SupervisorAlone(p)
  BY SupervisorIsAlone
<1>2. Covered => SupervisorRunsAlone(p)
  BY SupervisorAloneRuns DEF IInv
<1>3. TypeOK'
  BY <1>1 DEF CInv, TypeOK, SupervisorAlone, HoldsPid, SupPCs
<1>4. RecordsDescribeLaunches' /\ EntriesDescribeLaunches' /\ LocksAreHeld' /\
    RecoveryKnowsItsRecords' /\ UnreconciledIsInherited' /\ CallersAwait' /\
    StopsKnowTheirEntry'
  BY SMTT(30) DEF CInv, RecordsDescribeLaunches, EntriesDescribeLaunches,
      EntryDescribes, LocksAreHeld, RecoveryKnowsItsRecords,
      UnreconciledIsInherited, CallersAwait, StopsKnowTheirEntry, Live
<1>5. Covered => LiveIsJournaled' /\ NothingHidden'
  BY DEF CInv, Covered, LiveIsJournaled, NothingHidden, Live
<1>6. PidsAreOwned'
  BY <1>1 DEF CInv, TypeOK, PidsAreOwned, SupervisorAlone, HoldsPid
<1>7. LaunchesOwnTheirs'
  BY <1>1 DEF CInv, TypeOK, LaunchesOwnTheirs, LaunchOwns, PidsAreOwned,
      LocksAreHeld, Live, SupervisorAlone, HoldsPid, LaunchPCs, StopPCs
<1>8. SupervisorsOwnEntries'
  BY <1>1 DEF CInv, TypeOK, SupervisorsOwnEntries, SupervisorOwns,
      PidsAreOwned, Live, SupervisorAlone, HoldsPid
<1>9. QED
  BY <1>3, <1>4, <1>5, <1>6, <1>7, <1>8 DEF CInv, Covered, Keeps

(* What is left stays in an unconfirmed entry.                             *)
LEMMA LeftoversRemainKeeps ==
  ASSUME CInv, NEW p \in Pids, LeftoversRemain(p)
  PROVE  Keeps
<1> USE NoneAssumption
<1> USE DEF LeftoversRemain, GroupExists, osVars, identity, platform, owner,
    callVars, targetVars
<1>1. SupervisorAlone(p)
  BY SupervisorIsAlone
<1>2. Covered => SupervisorRunsAlone(p)
  BY SupervisorAloneRuns DEF IInv
<1>3. \/ entry' = entry
      \/ Sets(owns[p], IF stopRequested[p] THEN "stopping" ELSE "exited", FALSE, TRUE)
  BY <1>1, SetEntrySets DEF CInv, TypeOK, SupervisorAlone, EntryStates
<1>4. /\ pc' \in [Reqs -> PCs]
      /\ \A r \in Reqs : \/ r = replyTo[p] /\ pc'[r] = "stopErr"
                         \/ r # replyTo[p] /\ pc'[r] = pc[r]
  BY ZenonT(40), <1>1, <1>3, RepliesEffect DEF CInv
<1>5. TypeOK'
  BY <1>1, <1>3, <1>4 DEF CInv, TypeOK, Sets, SupervisorAlone, HoldsPid,
      Entry, EntryStates, PCs, LaunchPCs, SupPCs
<1>6. RecordsDescribeLaunches' /\ RecoveryKnowsItsRecords' /\
    UnreconciledIsInherited'
  BY DEF CInv, RecordsDescribeLaunches, RecoveryKnowsItsRecords,
      UnreconciledIsInherited, Live
<1>7. Covered => LiveIsJournaled'
  BY DEF CInv, Covered, LiveIsJournaled, Live
<1>8. PidsAreOwned'
  BY <1>1, <1>3, <1>4 DEF CInv, TypeOK, PidsAreOwned, Sets, SupervisorAlone,
      HoldsPid
<1>9. EntriesDescribeLaunches'
  <2>1. ASSUME NEW s \in Services, s # owns[p] PROVE EntryDescribes(s)'
    BY <1>1, <1>3, <2>1 DEF CInv, TypeOK, EntriesDescribeLaunches, EntryDescribes, Sets, Live
  <2>2. EntryDescribes(owns[p])'
    BY <1>1, <1>3 DEF CInv, TypeOK, EntriesDescribeLaunches, EntryDescribes, Sets, Live, SupervisorAlone
  <2>3. QED
    BY <2>1, <2>2 DEF EntriesDescribeLaunches
<1>10. LocksAreHeld'
  BY <1>1, <1>3, <1>4 DEF CInv, TypeOK, LocksAreHeld, CallersAwait, Sets,
      SupervisorAlone, HoldsPid, LaunchPCs, StopPCs
<1>11. LaunchesOwnTheirs'
  BY <1>1, <1>3, <1>4 DEF CInv, TypeOK, LaunchesOwnTheirs, LaunchOwns,
      CallersAwait, PidsAreOwned, Sets, Live, SupervisorAlone, HoldsPid,
      LaunchPCs
<1>12. SupervisorsOwnEntries'
  BY <1>1, <1>3, <1>4 DEF CInv, TypeOK, SupervisorsOwnEntries, SupervisorOwns,
      PidsAreOwned, Sets, Live, SupervisorAlone, HoldsPid
<1>13. Covered => NothingHidden'
  BY <1>1, <1>2, <1>3, <1>4 DEF SupervisorRunsAlone, CInv, Covered, TypeOK, NothingHidden, CallersAwait,
      PidsAreOwned, Sets, Live, SupervisorAlone, HoldsPid
<1>14. CallersAwait'
  BY <1>1, <1>3, <1>4 DEF CInv, TypeOK, CallersAwait, Sets, SupervisorAlone,
      HoldsPid
<1>15. StopsKnowTheirEntry'
  BY <1>1, <1>3, <1>4 DEF CInv, TypeOK, StopsKnowTheirEntry,
      EntriesDescribeLaunches, EntryDescribes, LocksAreHeld, CallersAwait,
      Sets, Live, SupervisorAlone, HoldsPid, LaunchPCs, StopPCs, NoEntry
<1>16. QED
  BY <1>5, <1>6, <1>7, <1>8, <1>9, <1>10, <1>11, <1>12, <1>13, <1>14,
      <1>15 DEF CInv, Covered, Keeps

(* The caller moves from the mailbox to the reply.                         *)
LEMMA ReceiveStopKeeps ==
  ASSUME CInv, NEW p \in Pids, ReceiveStop(p)
  PROVE  Keeps
<1> USE NoneAssumption
<1> USE DEF ReceiveStop, osVars, identity, platform, tables, owner, manager,
    callVars, targetVars, reqVars
<1>1. SupervisorAlone(p)
  BY SupervisorIsAlone
<1>2. Covered => SupervisorRunsAlone(p)
  BY SupervisorAloneRuns DEF IInv
<1>3. TypeOK'
  BY <1>1 DEF CInv, TypeOK, SupervisorAlone, HoldsPid, SupPCs
<1>4. RecordsDescribeLaunches' /\ EntriesDescribeLaunches' /\ LocksAreHeld' /\
    RecoveryKnowsItsRecords' /\ UnreconciledIsInherited' /\ StopsKnowTheirEntry'
  BY DEF CInv, RecordsDescribeLaunches, EntriesDescribeLaunches,
      EntryDescribes, LocksAreHeld, RecoveryKnowsItsRecords,
      UnreconciledIsInherited, StopsKnowTheirEntry, Live
<1>5. Covered => LiveIsJournaled' /\ NothingHidden'
  BY DEF CInv, Covered, LiveIsJournaled, NothingHidden, Live
<1>6. PidsAreOwned'
  BY <1>1 DEF CInv, TypeOK, PidsAreOwned, SupervisorAlone, HoldsPid
<1>7. LaunchesOwnTheirs'
  BY <1>1 DEF CInv, TypeOK, LaunchesOwnTheirs, LaunchOwns, PidsAreOwned,
      LocksAreHeld, Live, SupervisorAlone, HoldsPid, LaunchPCs, StopPCs
<1>8. SupervisorsOwnEntries'
  BY <1>1 DEF CInv, TypeOK, SupervisorsOwnEntries, SupervisorOwns,
      PidsAreOwned, Live, SupervisorAlone, HoldsPid
<1>9. CallersAwait'
  BY <1>1 DEF CInv, TypeOK, CallersAwait, SupervisorAlone, HoldsPid
<1>10. QED
  BY <1>3, <1>4, <1>5, <1>6, <1>7, <1>8, <1>9 DEF CInv, Covered, Keeps

(* A reaped leader can only make fewer groups live.                        *)
LEMMA ReapStoppedKeeps ==
  ASSUME CInv, NEW p \in Pids, ReapStopped(p)
  PROVE  Keeps
<1> USE NoneAssumption
<1> USE DEF ReapStopped, identity, tables, owner, manager, callVars,
    targetVars, reqVars, commandVars, supVars
<1>1. SupervisorAlone(p)
  BY SupervisorIsAlone
<1>2. Covered => SupervisorRunsAlone(p)
  BY SupervisorAloneRuns DEF IInv
<1>3. TypeOK'
  BY <1>1 DEF CInv, TypeOK, SupervisorAlone, HoldsPid, LeaderStates
<1>4. LocksAreHeld'
  BY DEF CInv, LocksAreHeld
<1>5. Covered => LiveIsJournaled'
  BY <1>1, <1>2 DEF SupervisorRunsAlone, CInv, Covered, TypeOK, LiveIsJournaled, Live, SupervisorAlone, HoldsPid
<1>6. PidsAreOwned'
  BY <1>1 DEF CInv, TypeOK, PidsAreOwned, SupervisorAlone, HoldsPid
<1>7. RecordsDescribeLaunches'
  BY <1>1 DEF CInv, TypeOK, RecordsDescribeLaunches, SupervisorAlone,
      HoldsPid, NoRecord
<1>8. EntriesDescribeLaunches'
  BY <1>1 DEF CInv, TypeOK, EntriesDescribeLaunches, EntryDescribes, Live,
      SupervisorAlone, HoldsPid, NoEntry
<1>9. LaunchesOwnTheirs'
  BY <1>1 DEF CInv, TypeOK, LaunchesOwnTheirs, LaunchOwns, PidsAreOwned,
      LocksAreHeld, Live, SupervisorAlone, HoldsPid, LaunchPCs, StopPCs
<1>10. SupervisorsOwnEntries'
  BY <1>1 DEF CInv, TypeOK, SupervisorsOwnEntries, SupervisorOwns,
      PidsAreOwned, Live, SupervisorAlone, HoldsPid
<1>11. Covered => NothingHidden'
  BY <1>1, <1>2 DEF SupervisorRunsAlone, CInv, Covered, TypeOK, NothingHidden, PidsAreOwned, Live,
      SupervisorAlone, HoldsPid
<1>12. RecoveryKnowsItsRecords'
  BY <1>1 DEF CInv, TypeOK, RecoveryKnowsItsRecords, Live, SupervisorAlone,
      HoldsPid, NoRecord
<1>13. UnreconciledIsInherited'
  BY <1>1 DEF CInv, TypeOK, UnreconciledIsInherited, SupervisorAlone, HoldsPid
<1>14. CallersAwait'
  BY <1>1 DEF CInv, TypeOK, CallersAwait, SupervisorAlone, HoldsPid
<1>15. StopsKnowTheirEntry'
  BY <1>1 DEF CInv, TypeOK, StopsKnowTheirEntry, EntriesDescribeLaunches,
      EntryDescribes, LocksAreHeld, Live, SupervisorAlone, HoldsPid,
      LaunchPCs, StopPCs, NoEntry
<1>16. QED
  BY <1>3, <1>4, <1>5, <1>6, <1>7, <1>8, <1>9, <1>10, <1>11, <1>12, <1>13,
      <1>14, <1>15 DEF CInv, Covered, Keeps

(* The supervisor keeps its entry.                                         *)
LEMMA EscalateToKillKeeps ==
  ASSUME CInv, NEW p \in Pids, EscalateToKill(p)
  PROVE  Keeps
<1> USE NoneAssumption
<1> USE DEF EscalateToKill, GroupExists, osVars, identity, platform, tables,
    owner, manager, callVars, targetVars, reqVars, commandVars
<1>1. SupervisorAlone(p)
  BY SupervisorIsAlone
<1>2. Covered => SupervisorRunsAlone(p)
  BY SupervisorAloneRuns DEF IInv
<1>3. TypeOK'
  BY <1>1 DEF CInv, TypeOK, SupervisorAlone, HoldsPid, SupPCs
<1>4. RecordsDescribeLaunches' /\ EntriesDescribeLaunches' /\ LocksAreHeld' /\
    RecoveryKnowsItsRecords' /\ UnreconciledIsInherited' /\ CallersAwait' /\
    StopsKnowTheirEntry'
  BY SMTT(30) DEF CInv, RecordsDescribeLaunches, EntriesDescribeLaunches,
      EntryDescribes, LocksAreHeld, RecoveryKnowsItsRecords,
      UnreconciledIsInherited, CallersAwait, StopsKnowTheirEntry, Live
<1>5. Covered => LiveIsJournaled' /\ NothingHidden'
  BY DEF CInv, Covered, LiveIsJournaled, NothingHidden, Live
<1>6. PidsAreOwned'
  BY <1>1 DEF CInv, TypeOK, PidsAreOwned, SupervisorAlone, HoldsPid
<1>7. LaunchesOwnTheirs'
  BY <1>1 DEF CInv, TypeOK, LaunchesOwnTheirs, LaunchOwns, PidsAreOwned,
      LocksAreHeld, Live, SupervisorAlone, HoldsPid, LaunchPCs, StopPCs
<1>8. SupervisorsOwnEntries'
  BY <1>1 DEF CInv, TypeOK, SupervisorsOwnEntries, SupervisorOwns,
      PidsAreOwned, Live, SupervisorAlone, HoldsPid
<1>9. QED
  BY <1>3, <1>4, <1>5, <1>6, <1>7, <1>8 DEF CInv, Covered, Keeps

(* What may still run stays in an unconfirmed entry.                       *)
LEMMA StopUnconfirmedKeeps ==
  ASSUME CInv, NEW p \in Pids, StopUnconfirmed(p)
  PROVE  Keeps
<1> USE NoneAssumption
<1> USE DEF StopUnconfirmed, GroupExists, osVars, identity, platform, owner,
    callVars, targetVars
<1>1. SupervisorAlone(p)
  BY SupervisorIsAlone
<1>2. Covered => SupervisorRunsAlone(p)
  BY SupervisorAloneRuns DEF IInv
<1>3. Sets(owns[p], "stopping", FALSE, TRUE)
  BY <1>1, SetEntrySets DEF CInv, TypeOK, SupervisorAlone, EntryStates
<1>4. /\ pc' \in [Reqs -> PCs]
      /\ \A r \in Reqs : \/ r = replyTo[p] /\ pc'[r] = "stopErr"
                         \/ r # replyTo[p] /\ pc'[r] = pc[r]
  BY ZenonT(40), <1>1, <1>3, RepliesEffect DEF CInv
<1>5. TypeOK'
  BY <1>1, <1>3, <1>4 DEF CInv, TypeOK, Sets, SupervisorAlone, HoldsPid,
      Entry, EntryStates, PCs, LaunchPCs, SupPCs
<1>6. RecordsDescribeLaunches' /\ RecoveryKnowsItsRecords' /\
    UnreconciledIsInherited'
  BY DEF CInv, RecordsDescribeLaunches, RecoveryKnowsItsRecords,
      UnreconciledIsInherited, Live
<1>7. Covered => LiveIsJournaled'
  BY DEF CInv, Covered, LiveIsJournaled, Live
<1>8. PidsAreOwned'
  BY <1>1, <1>3, <1>4 DEF CInv, TypeOK, PidsAreOwned, Sets, SupervisorAlone,
      HoldsPid
<1>9. EntriesDescribeLaunches'
  BY <1>1, <1>3, <1>4 DEF CInv, TypeOK, EntriesDescribeLaunches,
      EntryDescribes, Sets, Live, SupervisorAlone, HoldsPid, NoEntry
<1>10. LocksAreHeld'
  BY <1>1, <1>3, <1>4 DEF CInv, TypeOK, LocksAreHeld, CallersAwait, Sets,
      SupervisorAlone, HoldsPid, LaunchPCs, StopPCs
<1>11. LaunchesOwnTheirs'
  BY <1>1, <1>3, <1>4 DEF CInv, TypeOK, LaunchesOwnTheirs, LaunchOwns,
      CallersAwait, PidsAreOwned, Sets, Live, SupervisorAlone, HoldsPid,
      LaunchPCs
<1>12. SupervisorsOwnEntries'
  BY <1>1, <1>3, <1>4 DEF CInv, TypeOK, SupervisorsOwnEntries, SupervisorOwns,
      PidsAreOwned, Sets, Live, SupervisorAlone, HoldsPid
<1>13. Covered => NothingHidden'
  BY <1>1, <1>2, <1>3, <1>4 DEF SupervisorRunsAlone, CInv, Covered, TypeOK, NothingHidden, CallersAwait,
      PidsAreOwned, Sets, Live, SupervisorAlone, HoldsPid
<1>14. CallersAwait'
  BY <1>1, <1>3, <1>4 DEF CInv, TypeOK, CallersAwait, Sets, SupervisorAlone,
      HoldsPid
<1>15. StopsKnowTheirEntry'
  BY SMTT(30), <1>1, <1>3, <1>4 DEF CInv, TypeOK, StopsKnowTheirEntry,
      EntriesDescribeLaunches, EntryDescribes, LocksAreHeld, CallersAwait,
      Sets, Live, SupervisorAlone, HoldsPid, LaunchPCs, StopPCs, NoEntry
<1>16. QED
  BY <1>5, <1>6, <1>7, <1>8, <1>9, <1>10, <1>11, <1>12, <1>13, <1>14,
      <1>15 DEF CInv, Covered, Keeps

(* A group that cannot be found has nothing running.                       *)
LEMMA GroupConfirmedGoneKeeps ==
  ASSUME CInv, NEW p \in Pids, GroupConfirmedGone(p)
  PROVE  Keeps
<1> USE NoneAssumption
<1> USE DEF GroupConfirmedGone, GroupExists, osVars, identity, platform,
    tables, owner, manager, callVars, targetVars, reqVars, commandVars
<1>1. SupervisorAlone(p)
  BY SupervisorIsAlone
<1>2. Covered => SupervisorRunsAlone(p)
  BY SupervisorAloneRuns DEF IInv
<1>3. TypeOK'
  BY <1>1 DEF CInv, TypeOK, SupervisorAlone, HoldsPid, SupPCs
<1>4. RecordsDescribeLaunches' /\ EntriesDescribeLaunches' /\ LocksAreHeld' /\
    RecoveryKnowsItsRecords' /\ UnreconciledIsInherited' /\ CallersAwait' /\
    StopsKnowTheirEntry'
  BY DEF CInv, RecordsDescribeLaunches, EntriesDescribeLaunches,
      EntryDescribes, LocksAreHeld, RecoveryKnowsItsRecords,
      UnreconciledIsInherited, CallersAwait, StopsKnowTheirEntry, Live
<1>5. Covered => LiveIsJournaled' /\ NothingHidden'
  BY DEF CInv, Covered, LiveIsJournaled, NothingHidden, Live
<1>6. PidsAreOwned'
  BY <1>1 DEF CInv, TypeOK, PidsAreOwned, SupervisorAlone, HoldsPid
<1>7. LaunchesOwnTheirs'
  BY <1>1 DEF CInv, TypeOK, LaunchesOwnTheirs, LaunchOwns, PidsAreOwned,
      LocksAreHeld, Live, SupervisorAlone, HoldsPid, LaunchPCs, StopPCs
<1>8. SupervisorsOwnEntries'
  BY <1>1 DEF CInv, TypeOK, SupervisorsOwnEntries, SupervisorOwns,
      PidsAreOwned, Live, SupervisorAlone, HoldsPid
<1>9. QED
  BY <1>3, <1>4, <1>5, <1>6, <1>7, <1>8 DEF CInv, Covered, Keeps

(* The record removed is that of a group known to be gone.                 *)
LEMMA UnjournalKeeps ==
  ASSUME CInv, NEW p \in Pids, Unjournal(p)
  PROVE  Keeps
<1> USE NoneAssumption
<1> USE DEF Unjournal, osVars, identity, tables, owner, manager, callVars,
    targetVars, reqVars, commandVars
<1>1. SupervisorAlone(p)
  BY SupervisorIsAlone
<1>2. Covered => SupervisorRunsAlone(p)
  BY SupervisorAloneRuns DEF IInv
<1>3. Removes(owns[p], genOf[p]) \/ journal' = journal
  BY <1>1, RemoveMatchingRemoves DEF CInv, TypeOK, SupervisorAlone
<1>4. TypeOK'
  BY ZenonT(40), <1>1, <1>3 DEF CInv, TypeOK, Removes, SupervisorAlone, HoldsPid, Record,
      NoRecord, SupPCs
<1>5. LocksAreHeld' /\ UnreconciledIsInherited' /\ CallersAwait' /\
    StopsKnowTheirEntry'
  BY DEF CInv, LocksAreHeld, UnreconciledIsInherited, CallersAwait,
      StopsKnowTheirEntry, Live
<1>6. Covered => NothingHidden'
  BY DEF CInv, Covered, NothingHidden, Live
<1>7. Covered => LiveIsJournaled'
  <2> SUFFICES ASSUME Covered PROVE LiveIsJournaled'
    OBVIOUS
  <2>1. ~Live(p)
    BY DEF CInv, Covered, SupervisorsOwnEntries, SupervisorOwns
  <2>2. \A q \in Pids : Live(q) => owns[q] \in Services /\ owns[q] # owns[p]
    BY <1>1, <1>2, <2>1 DEF CInv, Covered, PidsAreOwned, SupervisorAlone,
        SupervisorRunsAlone, Live
  <2>3. QED
    BY <1>3, <2>2 DEF CInv, Covered, LiveIsJournaled, Removes, Live
<1>8. PidsAreOwned'
  BY <1>1, <1>3 DEF CInv, TypeOK, PidsAreOwned, Removes, SupervisorAlone,
      HoldsPid
<1>9. RecordsDescribeLaunches'
  BY <1>1, <1>3 DEF CInv, TypeOK, RecordsDescribeLaunches, Removes,
      SupervisorAlone, HoldsPid, NoRecord
<1>10. EntriesDescribeLaunches'
  BY <1>1, <1>3 DEF CInv, TypeOK, EntriesDescribeLaunches, EntryDescribes,
      Removes, Live, SupervisorAlone, HoldsPid, NoEntry
<1>11. LaunchesOwnTheirs'
  BY <1>1, <1>3 DEF CInv, TypeOK, LaunchesOwnTheirs, LaunchOwns, PidsAreOwned,
      LocksAreHeld, Removes, Live, SupervisorAlone, HoldsPid, LaunchPCs,
      StopPCs
<1>12. SupervisorsOwnEntries'
  <2>1. ASSUME NEW q \in Pids, q # p, spc[q] \notin {"none", "gone"}
        PROVE  SupervisorOwns(q)'
    <3>1. SupervisorAlone(q) /\ SupervisorOwns(q)
      BY <2>1, SupervisorIsAlone DEF CInv, SupervisorsOwnEntries
    <3>2. QED
      BY <1>1, <1>3, <2>1, <3>1 DEF CInv, TypeOK, SupervisorOwns, SupervisorAlone, Removes, Live
  <2>2. spc'[p] = "settleOk" => journal'[owns[p]].pid # p
    BY SMTT(30), <1>1, RemoveMatchingRemoves DEF CInv, TypeOK, SupervisorAlone,
        RecordsDescribeLaunches, Removes, NoRecord
  <2>3. SupervisorOwns(p)'
    BY <1>1, <2>2 DEF CInv, TypeOK, SupervisorsOwnEntries, SupervisorOwns, SupervisorAlone, Live
  <2>4. QED
    BY <2>1, <2>3 DEF CInv, TypeOK, SupervisorsOwnEntries, SupervisorOwns
<1>13. RecoveryKnowsItsRecords'
  BY <1>1, <1>3 DEF CInv, TypeOK, RecoveryKnowsItsRecords, Removes, Live,
      SupervisorAlone, HoldsPid, NoRecord
<1>14. QED
  BY <1>4, <1>5, <1>6, <1>7, <1>8, <1>9, <1>10, <1>11, <1>12, <1>13 DEF CInv,
      Covered, Keeps

(* The entry is confirmed only with no process and no record left.         *)
LEMMA SettleKeeps ==
  ASSUME CInv, NEW p \in Pids, Settle(p)
  PROVE  Keeps
<1> USE NoneAssumption
<1> USE DEF Settle, osVars, identity, platform, owner, callVars, targetVars
<1>1. SupervisorAlone(p)
  BY SupervisorIsAlone
<1>2. Covered => SupervisorRunsAlone(p)
  BY SupervisorAloneRuns DEF IInv
<1>3. Sets(owns[p], IF stopRequested[p] THEN "stopped" ELSE "exited", spc[p] = "settleOk", FALSE)
  BY <1>1, SetEntrySets DEF CInv, TypeOK, SupervisorAlone, EntryStates
<1>4. /\ pc' \in [Reqs -> PCs]
      /\ \A r \in Reqs :
           \/ /\ r = replyTo[p]
              /\ pc'[r] = IF spc[p] = "settleOk" THEN "stopOk" ELSE "stopErr"
           \/ r # replyTo[p] /\ r = mailbox[p] /\ pc'[r] = "dropped"
           \/ r \notin {replyTo[p], mailbox[p]} /\ pc'[r] = pc[r]
  BY ZenonT(90), RepliesEffect DEF CInv
<1>5. TypeOK'
  BY <1>1, <1>3, <1>4 DEF CInv, TypeOK, Sets, SupervisorAlone, HoldsPid,
      Entry, EntryStates, PCs, LaunchPCs, SupPCs
<1>6. RecordsDescribeLaunches' /\ RecoveryKnowsItsRecords' /\
    UnreconciledIsInherited'
  BY DEF CInv, RecordsDescribeLaunches, RecoveryKnowsItsRecords,
      UnreconciledIsInherited, Live
<1>7. Covered => LiveIsJournaled'
  BY DEF CInv, Covered, LiveIsJournaled, Live
<1>8. PidsAreOwned'
  BY <1>1, <1>3, <1>4 DEF CInv, TypeOK, PidsAreOwned, Sets, SupervisorAlone,
      HoldsPid
<1>9. EntriesDescribeLaunches'
  <2>1. ASSUME NEW s \in Services, s # owns[p] PROVE EntryDescribes(s)'
    BY <1>1, <1>3, <2>1 DEF CInv, TypeOK, EntriesDescribeLaunches, EntryDescribes, Sets, Live
  <2>2. EntryDescribes(owns[p])'
    BY <1>1, <1>3 DEF CInv, TypeOK, EntriesDescribeLaunches, EntryDescribes, Sets, Live, SupervisorAlone, SupervisorsOwnEntries, SupervisorOwns
  <2>3. QED
    BY <2>1, <2>2 DEF EntriesDescribeLaunches
<1>10. LocksAreHeld'
  BY <1>1, <1>3, <1>4 DEF CInv, TypeOK, LocksAreHeld, CallersAwait, Sets,
      SupervisorAlone, HoldsPid, LaunchPCs, StopPCs
<1>11. LaunchesOwnTheirs'
  BY <1>1, <1>3, <1>4 DEF CInv, TypeOK, LaunchesOwnTheirs, LaunchOwns,
      CallersAwait, PidsAreOwned, Sets, Live, SupervisorAlone, HoldsPid,
      LaunchPCs
<1>12. SupervisorsOwnEntries'
  BY <1>1, <1>3, <1>4 DEF CInv, TypeOK, SupervisorsOwnEntries, SupervisorOwns,
      PidsAreOwned, Sets, Live, SupervisorAlone, HoldsPid
<1>13. Covered => NothingHidden'
  <2> SUFFICES ASSUME Covered PROVE NothingHidden'
    OBVIOUS
  <2>1. \A r \in Reqs : pc[r] = "spawn" => pc'[r] = "spawn"
    BY <1>4 DEF CInv, Covered, CallersAwait
  <2>2. ~Live(p)
    BY DEF CInv, Covered, SupervisorsOwnEntries, SupervisorOwns
  <2>3. ASSUME NEW q \in Pids, Live(q) PROVE entry'[owns[q]] = entry[owns[q]]
    BY <1>1, <1>2, <1>3, <2>2, <2>3 DEF CInv, Covered, PidsAreOwned, Live, Sets,
        SupervisorAlone, SupervisorRunsAlone
  <2>4. QED
    BY <2>1, <2>3 DEF CInv, Covered, NothingHidden, Live
<1>14. CallersAwait'
  BY SMTT(30), <1>1, <1>3, <1>4 DEF CInv, TypeOK, CallersAwait, Sets,
      SupervisorAlone, HoldsPid
<1>15. StopsKnowTheirEntry'
  <2>1. ASSUME NEW r \in Reqs, r = replyTo[p]
        PROVE  pc'[r] # "sweep" /\ (pc'[r] = "stopOk" => entry'[svc[r]].confirmed)
    <3>1. rpid[r] = p /\ svc[r] = owns[p]
      BY <2>1 DEF CInv, CallersAwait
    <3>2. QED
      BY <1>3, <1>4, <2>1, <3>1 DEF Sets
  <2>2. ASSUME NEW r \in Reqs, r # replyTo[p], pc'[r] \in {"sweep", "stopOk"}
        PROVE  pc'[r] = pc[r] /\ entry'[svc[r]] = entry[svc[r]]
    BY <1>1, <1>3, <1>4, <2>2 DEF CInv, TypeOK, Sets, SupervisorAlone
  <2>3. QED
    BY <2>1, <2>2 DEF CInv, StopsKnowTheirEntry, Live
<1>16. QED
  BY <1>5, <1>6, <1>7, <1>8, <1>9, <1>10, <1>11, <1>12, <1>13, <1>14,
      <1>15 DEF CInv, Covered, Keeps

-----------------------------------------------------------------------------
(* The operating system.                                                   *)

(* A released child runs or is gone.                                       *)
LEMMA ExecKeeps ==
  ASSUME CInv, NEW p \in Pids, Exec(p)
  PROVE  Keeps
<1> USE NoneAssumption
<1> USE DEF Exec, identity, tables, owner, manager, callVars, targetVars,
    reqVars, commandVars, supVars
<1>1. TypeOK'
  BY DEF CInv, TypeOK, LeaderStates
<1>2. LocksAreHeld'
  BY DEF CInv, LocksAreHeld
<1>3. Covered => LiveIsJournaled'
  BY DEF CInv, Covered, TypeOK, LiveIsJournaled, Live
<1>4. PidsAreOwned'
  BY DEF CInv, TypeOK, PidsAreOwned
<1>5. RecordsDescribeLaunches'
  BY DEF CInv, TypeOK, RecordsDescribeLaunches, NoRecord
<1>6. EntriesDescribeLaunches'
  BY DEF CInv, TypeOK, EntriesDescribeLaunches, EntryDescribes, Live, NoEntry
<1>7. LaunchesOwnTheirs'
  BY DEF CInv, TypeOK, LaunchesOwnTheirs, LaunchOwns, PidsAreOwned,
      LocksAreHeld, Live, LaunchPCs, StopPCs
<1>8. SupervisorsOwnEntries'
  BY DEF CInv, TypeOK, SupervisorsOwnEntries, SupervisorOwns, PidsAreOwned,
      Live
<1>9. Covered => NothingHidden'
  BY DEF CInv, Covered, TypeOK, NothingHidden, PidsAreOwned, Live
<1>10. RecoveryKnowsItsRecords'
  BY DEF CInv, TypeOK, RecoveryKnowsItsRecords, Live, NoRecord
<1>11. UnreconciledIsInherited'
  BY DEF CInv, TypeOK, UnreconciledIsInherited
<1>12. CallersAwait'
  BY DEF CInv, TypeOK, CallersAwait
<1>13. StopsKnowTheirEntry'
  BY DEF CInv, TypeOK, StopsKnowTheirEntry, EntriesDescribeLaunches,
      EntryDescribes, LocksAreHeld, Live, LaunchPCs, StopPCs, NoEntry
<1>14. QED
  BY <1>1, <1>2, <1>3, <1>4, <1>5, <1>6, <1>7, <1>8, <1>9, <1>10, <1>11, <1>12,
      <1>13 DEF CInv, Covered, Keeps

(* Only a child nobody holds leaves.                                       *)
LEMMA ParkedLeavesKeeps ==
  ASSUME CInv, NEW p \in Pids, ParkedLeaves(p)
  PROVE  Keeps
<1> USE NoneAssumption
<1> USE DEF ParkedLeaves, Held, Ended, identity, tables, owner, manager,
    callVars, targetVars, reqVars, commandVars, supVars
<1>1. TypeOK'
  BY DEF CInv, TypeOK, LeaderStates
<1>2. LocksAreHeld'
  BY DEF CInv, LocksAreHeld
<1>3. Covered => LiveIsJournaled'
  BY DEF CInv, Covered, TypeOK, LiveIsJournaled, Live
<1>4. PidsAreOwned'
  BY DEF CInv, TypeOK, PidsAreOwned
<1>5. RecordsDescribeLaunches'
  BY DEF CInv, TypeOK, RecordsDescribeLaunches, NoRecord
<1>6. EntriesDescribeLaunches'
  BY DEF CInv, TypeOK, EntriesDescribeLaunches, EntryDescribes, Live, NoEntry
<1>7. LaunchesOwnTheirs'
  BY DEF CInv, TypeOK, LaunchesOwnTheirs, LaunchOwns, PidsAreOwned,
      LocksAreHeld, Live, LaunchPCs, StopPCs
<1>8. SupervisorsOwnEntries'
  BY DEF CInv, TypeOK, SupervisorsOwnEntries, SupervisorOwns, PidsAreOwned,
      Live
<1>9. Covered => NothingHidden'
  BY DEF CInv, Covered, TypeOK, NothingHidden, PidsAreOwned, Live
<1>10. RecoveryKnowsItsRecords'
  BY DEF CInv, TypeOK, RecoveryKnowsItsRecords, Live, NoRecord
<1>11. UnreconciledIsInherited'
  BY DEF CInv, TypeOK, UnreconciledIsInherited
<1>12. CallersAwait'
  BY DEF CInv, TypeOK, CallersAwait
<1>13. StopsKnowTheirEntry'
  BY DEF CInv, TypeOK, StopsKnowTheirEntry, EntriesDescribeLaunches,
      EntryDescribes, LocksAreHeld, Live, LaunchPCs, StopPCs, NoEntry
<1>14. QED
  BY <1>1, <1>2, <1>3, <1>4, <1>5, <1>6, <1>7, <1>8, <1>9, <1>10, <1>11, <1>12,
      <1>13 DEF CInv, Covered, Keeps

(* Members join running groups only.                                       *)
LEMMA MemberForksKeeps ==
  ASSUME CInv, NEW p \in Pids, MemberForks(p)
  PROVE  Keeps
<1> USE NoneAssumption
<1> USE DEF MemberForks, identity, tables, owner, manager, callVars,
    targetVars, reqVars, commandVars, supVars
<1>1. TypeOK'
  BY DEF CInv, TypeOK
<1>2. RecordsDescribeLaunches' /\ LocksAreHeld' /\ UnreconciledIsInherited' /\
    CallersAwait'
  BY DEF CInv, RecordsDescribeLaunches, LocksAreHeld, UnreconciledIsInherited,
      CallersAwait
<1>3. Covered => LiveIsJournaled'
  BY DEF CInv, Covered, TypeOK, LiveIsJournaled, Live
<1>4. PidsAreOwned'
  BY DEF CInv, TypeOK, PidsAreOwned
<1>5. EntriesDescribeLaunches'
  BY DEF CInv, TypeOK, EntriesDescribeLaunches, EntryDescribes, Live, NoEntry
<1>6. LaunchesOwnTheirs'
  BY DEF CInv, TypeOK, LaunchesOwnTheirs, LaunchOwns, PidsAreOwned,
      LocksAreHeld, Live, LaunchPCs, StopPCs
<1>7. SupervisorsOwnEntries'
  BY DEF CInv, TypeOK, SupervisorsOwnEntries, SupervisorOwns, PidsAreOwned,
      Live
<1>8. Covered => NothingHidden'
  BY DEF CInv, Covered, TypeOK, NothingHidden, PidsAreOwned, Live
<1>9. RecoveryKnowsItsRecords'
  BY DEF CInv, TypeOK, RecoveryKnowsItsRecords, Live, NoRecord
<1>10. StopsKnowTheirEntry'
  BY DEF CInv, TypeOK, StopsKnowTheirEntry, EntriesDescribeLaunches,
      EntryDescribes, LocksAreHeld, Live, LaunchPCs, StopPCs, NoEntry
<1>11. QED
  BY <1>1, <1>2, <1>3, <1>4, <1>5, <1>6, <1>7, <1>8, <1>9, <1>10 DEF CInv,
      Covered, Keeps

(* Ends make fewer groups live.                                            *)
LEMMA MemberEndsKeeps ==
  ASSUME CInv, NEW p \in Pids, MemberEnds(p)
  PROVE  Keeps
<1> USE NoneAssumption
<1> USE DEF MemberEnds, Ended, identity, tables, owner, manager, callVars,
    targetVars, reqVars, commandVars, supVars, unchangedByOS
<1>1. TypeOK'
  BY DEF CInv, TypeOK, LeaderStates
<1>2. LocksAreHeld'
  BY DEF CInv, LocksAreHeld
<1>3. Covered => LiveIsJournaled'
  BY DEF CInv, Covered, TypeOK, LiveIsJournaled, Live
<1>4. PidsAreOwned'
  BY DEF CInv, TypeOK, PidsAreOwned
<1>5. RecordsDescribeLaunches'
  BY DEF CInv, TypeOK, RecordsDescribeLaunches, NoRecord
<1>6. EntriesDescribeLaunches'
  <2>1. \A q \in Pids : /\ leader[q] # "unborn" => leader'[q] # "unborn"
                        /\ Live(q)' => Live(q)
    BY DEF CInv, TypeOK, Live
  <2>2. QED
    BY <2>1 DEF CInv, EntriesDescribeLaunches, EntryDescribes
<1>7. LaunchesOwnTheirs'
  <2>1. \A q \in Pids : /\ leader[q] # "unborn" => leader'[q] # "unborn"
                        /\ leader[q] = "parked" => leader'[q] = "parked"
                        /\ Live(q)' => Live(q)
    BY DEF CInv, TypeOK, Live
  <2>2. \A q \in Pids : q \notin inherited /\ leader'[q] \in {"dead", "stranger"} =>
          leader'[q] = leader[q]
    BY DEF CInv, TypeOK
  <2>3. \A q \in Pids : ~rest[q] => ~rest'[q]
    BY DEF CInv, TypeOK
  <2>4. ASSUME NEW r \in Reqs PROVE LaunchOwns(r)'
    <3>1. LaunchOwns(r)
      BY DEF CInv, LaunchesOwnTheirs
    <3>2. QED
      BY <2>1, <2>2, <2>3, <3>1 DEF LaunchOwns
  <2>5. QED
    BY <2>4 DEF LaunchesOwnTheirs
<1>8. SupervisorsOwnEntries'
  BY DEF CInv, TypeOK, SupervisorsOwnEntries, SupervisorOwns, PidsAreOwned,
      Live
<1>9. Covered => NothingHidden'
  BY DEF CInv, Covered, TypeOK, NothingHidden, PidsAreOwned, Live
<1>10. RecoveryKnowsItsRecords'
  BY DEF CInv, TypeOK, RecoveryKnowsItsRecords, Live, NoRecord
<1>11. UnreconciledIsInherited'
  BY DEF CInv, TypeOK, UnreconciledIsInherited
<1>12. CallersAwait'
  BY DEF CInv, TypeOK, CallersAwait
<1>13. StopsKnowTheirEntry'
  BY DEF CInv, TypeOK, StopsKnowTheirEntry, EntriesDescribeLaunches,
      EntryDescribes, LocksAreHeld, Live, LaunchPCs, StopPCs, NoEntry
<1>14. QED
  BY <1>1, <1>2, <1>3, <1>4, <1>5, <1>6, <1>7, <1>8, <1>9, <1>10, <1>11, <1>12,
      <1>13 DEF CInv, Covered, Keeps

(* A stranger is not a process of the service.                             *)
LEMMA PidReusedKeeps ==
  ASSUME CInv, NEW p \in Pids, PidReused(p)
  PROVE  Keeps
<1> USE NoneAssumption
<1> USE DEF PidReused, identity, tables, owner, manager, callVars, targetVars,
    reqVars, commandVars, supVars
<1>1. TypeOK'
  BY DEF CInv, TypeOK, LeaderStates
<1>2. LocksAreHeld'
  BY DEF CInv, LocksAreHeld
<1>3. Covered => LiveIsJournaled'
  BY DEF CInv, Covered, TypeOK, LiveIsJournaled, Live
<1>4. PidsAreOwned'
  BY DEF CInv, TypeOK, PidsAreOwned
<1>5. RecordsDescribeLaunches'
  BY DEF CInv, TypeOK, RecordsDescribeLaunches, NoRecord
<1>6. EntriesDescribeLaunches'
  BY DEF CInv, TypeOK, EntriesDescribeLaunches, EntryDescribes, Live, NoEntry
<1>7. LaunchesOwnTheirs'
  BY DEF CInv, TypeOK, LaunchesOwnTheirs, LaunchOwns, PidsAreOwned,
      LocksAreHeld, Live, LaunchPCs, StopPCs
<1>8. SupervisorsOwnEntries'
  BY DEF CInv, TypeOK, SupervisorsOwnEntries, SupervisorOwns, PidsAreOwned,
      Live
<1>9. Covered => NothingHidden'
  BY DEF CInv, Covered, TypeOK, NothingHidden, PidsAreOwned, Live
<1>10. RecoveryKnowsItsRecords'
  BY DEF CInv, TypeOK, RecoveryKnowsItsRecords, Live, NoRecord
<1>11. UnreconciledIsInherited'
  BY DEF CInv, TypeOK, UnreconciledIsInherited
<1>12. CallersAwait'
  BY DEF CInv, TypeOK, CallersAwait
<1>13. StopsKnowTheirEntry'
  BY DEF CInv, TypeOK, StopsKnowTheirEntry, EntriesDescribeLaunches,
      EntryDescribes, LocksAreHeld, Live, LaunchPCs, StopPCs, NoEntry
<1>14. QED
  BY <1>1, <1>2, <1>3, <1>4, <1>5, <1>6, <1>7, <1>8, <1>9, <1>10, <1>11, <1>12,
      <1>13 DEF CInv, Covered, Keeps

(* Nor is its end one.                                                     *)
LEMMA StrangerEndsKeeps ==
  ASSUME CInv, NEW p \in Pids, StrangerEnds(p)
  PROVE  Keeps
<1> USE NoneAssumption
<1> USE DEF StrangerEnds, identity, tables, owner, manager, callVars,
    targetVars, reqVars, commandVars, supVars
<1>1. TypeOK'
  BY DEF CInv, TypeOK, LeaderStates
<1>2. LocksAreHeld'
  BY DEF CInv, LocksAreHeld
<1>3. Covered => LiveIsJournaled'
  BY DEF CInv, Covered, TypeOK, LiveIsJournaled, Live
<1>4. PidsAreOwned'
  BY DEF CInv, TypeOK, PidsAreOwned
<1>5. RecordsDescribeLaunches'
  BY DEF CInv, TypeOK, RecordsDescribeLaunches, NoRecord
<1>6. EntriesDescribeLaunches'
  BY DEF CInv, TypeOK, EntriesDescribeLaunches, EntryDescribes, Live, NoEntry
<1>7. LaunchesOwnTheirs'
  BY DEF CInv, TypeOK, LaunchesOwnTheirs, LaunchOwns, PidsAreOwned,
      LocksAreHeld, Live, LaunchPCs, StopPCs
<1>8. SupervisorsOwnEntries'
  BY DEF CInv, TypeOK, SupervisorsOwnEntries, SupervisorOwns, PidsAreOwned,
      Live
<1>9. Covered => NothingHidden'
  BY DEF CInv, Covered, TypeOK, NothingHidden, PidsAreOwned, Live
<1>10. RecoveryKnowsItsRecords'
  BY DEF CInv, TypeOK, RecoveryKnowsItsRecords, Live, NoRecord
<1>11. UnreconciledIsInherited'
  BY DEF CInv, TypeOK, UnreconciledIsInherited
<1>12. CallersAwait'
  BY DEF CInv, TypeOK, CallersAwait
<1>13. StopsKnowTheirEntry'
  BY DEF CInv, TypeOK, StopsKnowTheirEntry, EntriesDescribeLaunches,
      EntryDescribes, LocksAreHeld, Live, LaunchPCs, StopPCs, NoEntry
<1>14. QED
  BY <1>1, <1>2, <1>3, <1>4, <1>5, <1>6, <1>7, <1>8, <1>9, <1>10, <1>11, <1>12,
      <1>13 DEF CInv, Covered, Keeps

-----------------------------------------------------------------------------
(* Crash and rebirth of the owner.                                         *)

(* The tables are empty and everything forked is inherited.                *)
LEMMA CrashKeeps ==
  ASSUME CInv, Crash
  PROVE  Keeps
<1> USE NoneAssumption, BoundAssumption
<1> USE DEF Crash
<1>1. TypeOK'
  <2>1. crashes' \in 0..MaxCrashes
    BY DEF CInv, TypeOK
  <2>2. leader' \in [Pids -> LeaderStates]
    BY DEF CInv, TypeOK, LeaderStates
  <2>3. entry' \in [Services -> Entry] /\ recon' \in Recon
    BY DEF Entry, EntryStates, NoEntry, Recon, ReconPhases, NoRecon
  <2>4. pc' \in [Reqs -> PCs] /\ op' \in [Reqs -> Ops] /\ spc' \in [Pids -> SupPCs]
    BY DEF PCs, Ops, SupPCs
  <2>5. nextGen' \in Nat \ {0}
    OBVIOUS
  <2>6. QED
    BY <2>1, <2>2, <2>3, <2>4, <2>5 DEF CInv, TypeOK
<1>2. Covered => LiveIsJournaled'
  BY DEF CInv, Covered, TypeOK, LiveIsJournaled, Live, NoEntry, NoRecon
<1>3. PidsAreOwned'
  BY DEF CInv, TypeOK, PidsAreOwned, NoEntry, NoRecon
<1>4. RecordsDescribeLaunches'
  BY DEF CInv, TypeOK, RecordsDescribeLaunches, NoEntry, NoRecord, NoRecon
<1>5. EntriesDescribeLaunches'
  BY DEF CInv, TypeOK, EntriesDescribeLaunches, EntryDescribes, Live, NoEntry,
      NoRecon
<1>6. LocksAreHeld'
  BY DEF CInv, TypeOK, LocksAreHeld, LaunchPCs, StopPCs, NoEntry, NoRecon
<1>7. LaunchesOwnTheirs'
  BY DEF CInv, TypeOK, LaunchesOwnTheirs, LaunchOwns, PidsAreOwned,
      LocksAreHeld, Live, LaunchPCs, StopPCs, NoEntry, NoRecon
<1>8. SupervisorsOwnEntries'
  BY DEF CInv, TypeOK, SupervisorsOwnEntries, SupervisorOwns, PidsAreOwned,
      Live, NoEntry, NoRecon
<1>9. Covered => NothingHidden'
  BY DEF CInv, Covered, TypeOK, NothingHidden, PidsAreOwned, Live, NoEntry, NoRecon
<1>10. RecoveryKnowsItsRecords'
  BY DEF CInv, TypeOK, RecoveryKnowsItsRecords, Live, NoEntry, NoRecord,
      NoRecon
<1>11. UnreconciledIsInherited'
  BY DEF CInv, TypeOK, UnreconciledIsInherited, NoEntry, NoRecon
<1>12. CallersAwait'
  BY DEF CInv, TypeOK, CallersAwait, NoEntry, NoRecon
<1>13. StopsKnowTheirEntry'
  BY DEF CInv, TypeOK, StopsKnowTheirEntry, EntriesDescribeLaunches,
      EntryDescribes, LocksAreHeld, Live, LaunchPCs, StopPCs, NoEntry, NoRecon
<1>14. QED
  BY <1>1, <1>2, <1>3, <1>4, <1>5, <1>6, <1>7, <1>8, <1>9, <1>10, <1>11, <1>12,
      <1>13 DEF CInv, Covered, Keeps

(* A new owner has read nothing yet.                                       *)
LEMMA RebornKeeps ==
  ASSUME CInv, Reborn
  PROVE  Keeps
<1> USE NoneAssumption
<1> USE DEF Reborn, osVars, tables, owner, manager, callVars, targetVars,
    reqVars, commandVars, supVars
<1>1. TypeOK'
  BY DEF CInv, TypeOK
<1>2. PidsAreOwned' /\ RecordsDescribeLaunches' /\ EntriesDescribeLaunches' /\
    LocksAreHeld' /\ LaunchesOwnTheirs' /\ SupervisorsOwnEntries' /\
    RecoveryKnowsItsRecords' /\ UnreconciledIsInherited' /\ CallersAwait' /\
    StopsKnowTheirEntry'
  BY SMTT(30) DEF CInv, PidsAreOwned, RecordsDescribeLaunches,
      EntriesDescribeLaunches, EntryDescribes, LocksAreHeld, LaunchesOwnTheirs,
      LaunchOwns, SupervisorsOwnEntries, SupervisorOwns,
      RecoveryKnowsItsRecords, UnreconciledIsInherited, CallersAwait,
      StopsKnowTheirEntry, Live
<1>3. Covered => LiveIsJournaled' /\ NothingHidden'
  BY DEF CInv, Covered, LiveIsJournaled, PidsAreOwned, NothingHidden, Live
<1>4. QED
  BY <1>1, <1>2, <1>3 DEF CInv, Covered, Keeps

=============================================================================
