-------------------------- MODULE DaemonRuntimeProofs --------------------------
(***************************************************************************)
(* What holds of the daemon for every number of clients, services and      *)
(* pids.  Its steps are steps of the process manager or leave it alone, so *)
(* everything proved of the process manager holds of the daemon's.  On top *)
(* of that: it serves nothing while inherited groups run, and a drain that *)
(* succeeds leaves nothing running.                                        *)
(*                                                                         *)
(* The argument for the drain: the write permit is granted with no client  *)
(* in the process manager, and the second look at the phase keeps it so.   *)
(* Then every running group is in the table (NoHiddenGroup), hence among   *)
(* the names shutdown_all walks; each name leaves the list of what may     *)
(* still run only when its stop succeeds, which means that it runs no      *)
(* longer (StopMeansStopped), and nothing but a launch can start a group.  *)
(***************************************************************************)
EXTENDS DaemonDisconnects, ProcessManagerProofs

-----------------------------------------------------------------------------
(* Steps of the process manager by itself.                                 *)

RunsByItself ==
  \/ \E r \in Reqs : Waits(r) \/ RequestStep(r)
  \/ \E p \in Pids : SupervisorStep(p) \/ OSStep(p)

LEMMA RunningIsNext ==
  ASSUME RunsByItself
  PROVE  Next
BY DEF RunsByItself, Waits, Next

(* Where a request can be in each operation.                               *)
OpsMatch ==
  \A r \in Reqs :
    /\ pc[r] = "names" => op[r] = "shutdown"
    /\ op[r] \in {"stop", "shutdown"} => pc[r] \notin LaunchPCs \cup {"check"}
    /\ op[r] = "reconcile" => pc[r] \in {"idle", "reconcile", "recovering"}

(* A request that no step of its own moves keeps all it has, but for a     *)
(* caller that is answered.                                                *)
Rests(r) ==
  /\ op'[r] = op[r] /\ svc'[r] = svc[r] /\ todo'[r] = todo[r]
  /\ answer'[r] = answer[r]
  /\ \/ pc'[r] = pc[r]
     \/ pc[r] = "await" /\ pc'[r] \in {"stopOk", "stopErr", "dropped"}

LEMMA OthersRestInReturn ==
  ASSUME TypeOK, NEW r \in Reqs, NEW result \in {"ok", "err"}, Return(r, result)
  PROVE  /\ \A q \in Reqs : q # r => Rests(q)
         /\ pc'[r] = "idle" /\ op'[r] = "start"
         /\ answer'[r] = IF result = "ok" THEN "ok" ELSE "none"
BY DEF TypeOK, Return, Goto, Rests

LEMMA OthersRestInStopReturns ==
  ASSUME TypeOK, NEW r \in Reqs, NEW result \in {"ok", "err"},
         StopReturns(r, result)
  PROVE  /\ \A q \in Reqs : q # r => Rests(q)
         /\ \/ pc'[r] = "idle" /\ op[r] # "shutdown" /\ op'[r] = "start"
            \/ pc'[r] = "check" /\ op[r] = "restart" /\ op'[r] = "restart"
            \/ /\ pc'[r] = "names" /\ op[r] = "shutdown"
               /\ op'[r] = op[r] /\ svc'[r] = svc[r] /\ todo'[r] = todo[r]
               /\ answer'[r] = IF result = "err" THEN "err" ELSE answer[r]
<1>1. CASE Return(r, result) /\ op[r] # "shutdown"
  BY <1>1, OthersRestInReturn
<1>2. CASE /\ op[r] = "restart" /\ Goto(r, "check") /\ UNCHANGED callVars
  BY <1>2 DEF TypeOK, Goto, Rests, callVars
<1>3. CASE /\ op[r] = "shutdown" /\ Goto(r, "names")
           /\ answer' = [answer EXCEPT ![r] = IF result = "err" THEN "err" ELSE @]
           /\ UNCHANGED <<op, svc, todo>>
  BY <1>3 DEF TypeOK, Goto, Rests
<1>4. QED
  BY <1>1, <1>2, <1>3 DEF StopReturns

LEMMA OthersRestInFail ==
  ASSUME TypeOK, NEW r \in Reqs, Fail(r)
  PROVE  /\ \A q \in Reqs : q # r => Rests(q)
         /\ \/ /\ pc'[r] = "idle" /\ op[r] # "shutdown" /\ op'[r] = "start"
               /\ op[r] = "reconcile" => answer'[r] = "none"
            \/ /\ pc'[r] = "names" /\ op[r] = "shutdown"
               /\ op'[r] = op[r] /\ svc'[r] = svc[r] /\ todo'[r] = todo[r]
               /\ answer'[r] = "err"
<1>1. CASE op[r] \in {"start", "reconcile"} /\ Return(r, "err")
  BY <1>1, OthersRestInReturn
<1>2. CASE op[r] \in {"stop", "restart", "shutdown"} /\ StopReturns(r, "err")
  BY <1>2, OthersRestInStopReturns, StopReturnsMoves
<1>3. QED
  BY <1>1, <1>2 DEF Fail

(* The request goes on with its operation.                                 *)
Proceeds(r) ==
  op'[r] = op[r] /\ svc'[r] = svc[r] /\ todo'[r] = todo[r] /\ answer'[r] = answer[r]

LEMMA WaitsEffect ==
  ASSUME TypeOK, NEW r \in Reqs, Waits(r)
  PROVE  /\ \A q \in Reqs : q # r => Rests(q)
         /\ \/ /\ Proceeds(r)
               /\ \/ pc[r] = "enter" /\ pc'[r] = "reconcile"
                  \/ pc[r] = "reconcile" /\ pc'[r] = "recovering"
                  \/ pc[r] = "reconcile" /\ op[r] = "start" /\ pc'[r] = "check"
                  \/ /\ pc[r] = "reconcile" /\ pc'[r] = "stop"
                     /\ op[r] \in {"stop", "restart", "shutdown"}
                  \/ pc[r] = "gate" /\ pc'[r] = "fork"
            \/ /\ pc[r] = "reconcile" /\ op[r] = "reconcile" /\ reconciled
               /\ pc'[r] = "idle" /\ op'[r] = "start"
<1>1. CASE EntersLock(r) \/ EnterGate(r) \/ BeginRecovery(r)
  BY <1>1 DEF TypeOK, EntersLock, Acquire, EnterGate, BeginRecovery, Goto,
      Rests, Proceeds, callVars
<1>2. CASE /\ pc[r] = "reconcile" /\ reconciled
           /\ op[r] = "reconcile" /\ Return(r, "ok")
  BY <1>2, OthersRestInReturn
<1>3. CASE /\ pc[r] = "reconcile"
           /\ \/ op[r] = "start" /\ Goto(r, "check")
              \/ op[r] \in {"stop", "restart", "shutdown"} /\ Goto(r, "stop")
           /\ UNCHANGED callVars
  BY <1>3 DEF TypeOK, Goto, Rests, Proceeds, callVars
<1>4. QED
  BY <1>1, <1>2, <1>3 DEF Waits, EntersRecovery, AlreadyReconciled

LEMMA RecoveryEffect ==
  ASSUME TypeOK, NEW r \in Reqs, RecoveryStep(r)
  PROVE  /\ pc[r] = "recovering"
         /\ \A q \in Reqs : q # r => Rests(q)
         /\ \/ Proceeds(r) /\ pc'[r] \in {"recovering", "reconcile"}
            \/ /\ pc'[r] = "idle" /\ op[r] # "shutdown" /\ op'[r] = "start"
               /\ op[r] = "reconcile" => answer'[r] = "none"
            \/ /\ pc'[r] = "names" /\ op[r] = "shutdown"
               /\ op'[r] = op[r] /\ svc'[r] = svc[r] /\ todo'[r] = todo[r]
               /\ answer'[r] = "err"
<1>1. pc[r] = "recovering"
  BY DEF RecoveryStep, InspectRecord, RecoveredGroupGone, RecoveryEscalates,
      RemoveRecovered, RecoveryFails, RecoveryDone, Recovering
<1>2. CASE RecoveryFails(r)
  <2>1. Fail(r)
    BY <1>2 DEF RecoveryFails
  <2>2. QED
    BY <1>1, <2>1, OthersRestInFail
<1>3. CASE RecoveryDone
  BY <1>1, <1>3 DEF TypeOK, RecoveryStep, RecoveryDone, Goto, Rests, Proceeds,
      callVars
<1>4. CASE UNCHANGED reqVars
  BY <1>1, <1>4 DEF reqVars, callVars, Rests, Proceeds
<1>5. QED
  BY <1>2, <1>3, <1>4 DEF RecoveryStep, InspectRecord, RecoveredGroupGone,
      RecoveryEscalates, RemoveRecovered

LEMMA StartEffect ==
  ASSUME TypeOK, NEW r \in Reqs, StartStep(r)
  PROVE  /\ pc[r] \in LaunchPCs \cup {"check"}
         /\ \A q \in Reqs : q # r => Rests(q)
         /\ \/ Proceeds(r) /\ pc'[r] \in LaunchPCs
            \/ pc'[r] = "idle" /\ op'[r] = "start"
<1>1. pc[r] \in LaunchPCs \cup {"check"}
  BY DEF StartStep, StartAnswers, StartProceeds, Fork, ForkFails,
      JournalLaunch, LaunchFails, Release, SpawnFails, Abandon, Register,
      LaunchPCs
<1>2. CASE Return(r, "ok") \/ Return(r, "err")
  BY <1>1, <1>2, OthersRestInReturn
<1>3. CASE /\ UNCHANGED callVars
           /\ \/ Goto(r, "gate") \/ Goto(r, "journal") \/ Goto(r, "release")
              \/ Goto(r, "abandon") \/ Goto(r, "spawn")
  BY <1>1, <1>3 DEF TypeOK, Goto, Rests, Proceeds, callVars, LaunchPCs
<1>4. QED
  BY <1>2, <1>3 DEF StartStep, StartAnswers, StartProceeds, Fork, ForkFails,
      JournalLaunch, LaunchFails, Release, SpawnFails, Abandon, Register

LEMMA StopEffect ==
  ASSUME TypeOK, NEW r \in Reqs, StopStep(r)
  PROVE  /\ pc[r] \in StopPCs
         /\ \A q \in Reqs : q # r => Rests(q)
         /\ \/ Proceeds(r) /\ pc'[r] \in StopPCs
            \/ pc'[r] = "idle" /\ op[r] # "shutdown" /\ op'[r] = "start"
            \/ pc'[r] = "check" /\ op[r] = "restart" /\ op'[r] = "restart"
            \/ /\ pc'[r] = "names" /\ op[r] = "shutdown"
               /\ op'[r] = op[r] /\ svc'[r] = svc[r] /\ todo'[r] = todo[r]
               /\ answer'[r] \in {"err", answer[r]}
<1>1. pc[r] \in StopPCs
  BY DEF StopStep, StopFindsNothing, StopUnsupervised, StopRetriesRemoval,
      StopMarks, SendStop, StopAnswered, StopFindsSupervisorGone, StopPCs
<1>2. CASE StopReturns(r, "ok") \/ StopReturns(r, "err")
  BY <1>1, <1>2, OthersRestInStopReturns
<1>3. CASE /\ UNCHANGED callVars
           /\ Goto(r, "sweep") \/ Goto(r, "send") \/ Goto(r, "await")
  BY <1>1, <1>3 DEF TypeOK, Goto, Rests, Proceeds, callVars, StopPCs
<1>4. QED
  BY <1>2, <1>3 DEF StopStep, StopFindsNothing, StopUnsupervised,
      StopRetriesRemoval, StopMarks, SendStop, StopAnswered,
      StopFindsSupervisorGone

LEMMA ShutdownEffect ==
  ASSUME TypeOK, NEW r \in Reqs, ShutdownStep(r)
  PROVE  /\ pc[r] = "names"
         /\ \A q \in Reqs : q # r => Rests(q)
         /\ \/ /\ pc'[r] = "enter" /\ op'[r] = op[r] /\ answer'[r] = answer[r]
               /\ svc'[r] \in Services /\ todo'[r] = todo[r] \ {svc'[r]}
            \/ /\ todo[r] = {} /\ pc'[r] = "idle" /\ op'[r] = "start"
               /\ answer'[r] = IF answer[r] = "err" THEN "none" ELSE "ok"
<1>1. ASSUME NEW s \in Services, NextName(r, s)
      PROVE  /\ \A q \in Reqs : q # r => Rests(q)
             /\ pc'[r] = "enter" /\ op'[r] = op[r] /\ answer'[r] = answer[r]
             /\ svc'[r] \in Services /\ todo'[r] = todo[r] \ {svc'[r]}
  BY <1>1 DEF TypeOK, NextName, Goto, Rests
<1>2. CASE NoMoreNames(r) /\ answer[r] = "err"
  BY <1>2, OthersRestInReturn DEF NoMoreNames
<1>3. CASE NoMoreNames(r) /\ answer[r] # "err"
  BY <1>3, OthersRestInReturn DEF NoMoreNames
<1>4. pc[r] = "names"
  BY DEF ShutdownStep, NextName, NoMoreNames
<1>5. QED
  BY <1>1, <1>2, <1>3, <1>4 DEF ShutdownStep

LEMMA SupervisorEffect ==
  ASSUME CInv, NEW p \in Pids, SupervisorStep(p)
  PROVE  \A q \in Reqs : Rests(q)
<1>1. CASE UNCHANGED reqVars
  BY <1>1 DEF reqVars, callVars, Rests
<1>2. ASSUME NEW outcome \in {"stopOk", "stopErr"}, NEW ends \in BOOLEAN,
             Replies(p, outcome, ends), UNCHANGED callVars
      PROVE  \A q \in Reqs : Rests(q)
  <2>1. \A q \in Reqs :
          \/ pc'[q] = pc[q]
          \/ pc[q] = "await" /\ pc'[q] \in {"stopOk", "stopErr", "dropped"}
    <3>1. \A q \in Reqs : \/ q = replyTo[p] /\ pc'[q] = outcome
                          \/ q = mailbox[p] /\ pc'[q] = "dropped"
                          \/ pc'[q] = pc[q]
      BY <1>2, RepliesEffect DEF CInv
    <3>2. \A q \in Reqs : q \in {replyTo[p], mailbox[p]} => pc[q] = "await"
      BY DEF CInv, CallersAwait
    <3>3. QED
      BY <1>2, <3>1, <3>2
  <2>2. QED
    BY <1>2, <2>1 DEF callVars, Rests
<1>3. QED
  BY <1>1, <1>2 DEF SupervisorStep, ReapNaturalExit, KillLeftovers,
      LeftoversRemain, ReceiveStop, ReapStopped, EscalateToKill,
      StopUnconfirmed, GroupConfirmedGone, Unjournal, Settle

LEMMA SystemEffect ==
  ASSUME NEW p \in Pids, OSStep(p)
  PROVE  \A q \in Reqs : Rests(q)
BY DEF OSStep, Exec, ParkedLeaves, MemberForks, MemberEnds, PidReused,
    StrangerEnds, unchangedByOS, reqVars, callVars, Rests

(* An idle request is moved by nobody.                                     *)
LEMMA IdleRests ==
  ASSUME CInv, RunsByItself, NEW r \in Reqs, pc[r] = "idle"
  PROVE  Rests(r)
<1> USE DEF CInv, LaunchPCs, StopPCs
<1>1. ASSUME NEW a \in Reqs, Waits(a)
      PROVE  Rests(r)
  BY <1>1, WaitsEffect
<1>2. ASSUME NEW a \in Reqs, RequestStep(a)
      PROVE  Rests(r)
  BY <1>2, RecoveryEffect, StartEffect, StopEffect, ShutdownEffect
      DEF RequestStep
<1>3. QED
  BY <1>1, <1>2, SupervisorEffect, SystemEffect DEF RunsByItself

(* An operation is the same from its call to its return, and stays where   *)
(* it belongs.                                                             *)
LEMMA OpsKept ==
  ASSUME CInv, OpsMatch, RunsByItself, NEW r \in Reqs
  PROVE  /\ \/ op'[r] = op[r]
            \/ pc'[r] = "idle" /\ op'[r] = "start"
         /\ pc'[r] = "names" => op'[r] = "shutdown"
         /\ op'[r] \in {"stop", "shutdown"} =>
              pc'[r] \notin LaunchPCs \cup {"check"}
         /\ op'[r] = "reconcile" =>
              pc'[r] \in {"idle", "reconcile", "recovering"}
<1>1. TypeOK
  BY DEF CInv
<1>2. CASE Rests(r)
  BY <1>2 DEF OpsMatch, Rests, LaunchPCs
<1>3. CASE Waits(r)
  BY <1>1, <1>3, WaitsEffect DEF OpsMatch, Proceeds, LaunchPCs
<1>4. CASE RecoveryStep(r)
  BY <1>1, <1>4, RecoveryEffect DEF OpsMatch, Proceeds, LaunchPCs
<1>5. CASE StartStep(r)
  BY <1>1, <1>5, StartEffect DEF OpsMatch, Proceeds, LaunchPCs
<1>6. CASE StopStep(r)
  BY <1>1, <1>6, StopEffect DEF OpsMatch, Proceeds, LaunchPCs, StopPCs
<1>7. CASE ShutdownStep(r)
  BY <1>1, <1>7, ShutdownEffect DEF OpsMatch, LaunchPCs
<1>8. ASSUME NEW a \in Reqs, a # r, Waits(a) \/ RequestStep(a)
      PROVE  Rests(r)
  BY <1>1, <1>8, WaitsEffect, RecoveryEffect, StartEffect, StopEffect,
      ShutdownEffect DEF RequestStep
<1>9. QED
  BY <1>2, <1>3, <1>4, <1>5, <1>6, <1>7, <1>8, SupervisorEffect, SystemEffect
      DEF RunsByItself, RequestStep

(* The owner stays, and what it has reconciled stays reconciled.           *)
LEMMA OwnerStays ==
  ASSUME RunsByItself
  PROVE  up' = up /\ (reconciled => reconciled')
<1> USE DEF platform, identity, osVars, manager, owner
<1>1. ASSUME NEW r \in Reqs, Waits(r)
      PROVE  up' = up /\ reconciled' = reconciled
  BY <1>1 DEF Waits, EntersLock, Acquire, EntersRecovery, AlreadyReconciled,
      BeginRecovery, EnterGate
<1>2. ASSUME NEW r \in Reqs, RecoveryStep(r)
      PROVE  up' = up /\ reconciled' \in {reconciled, TRUE}
  BY <1>2 DEF RecoveryStep, InspectRecord, RecoveredGroupGone,
      RecoveryEscalates, RemoveRecovered, RecoveryFails, RecoveryDone
<1>3. ASSUME NEW r \in Reqs, StartStep(r)
      PROVE  up' = up /\ reconciled' = reconciled
  BY <1>3 DEF StartStep, StartAnswers, StartProceeds, Fork, ForkFails,
      JournalLaunch, LaunchFails, Release, SpawnFails, Abandon, Register
<1>4. ASSUME NEW r \in Reqs, StopStep(r)
      PROVE  up' = up /\ reconciled' = reconciled
  BY <1>4 DEF StopStep, StopFindsNothing, StopUnsupervised,
      StopRetriesRemoval, StopMarks, SendStop, StopAnswered,
      StopFindsSupervisorGone
<1>5. ASSUME NEW r \in Reqs, ShutdownStep(r)
      PROVE  up' = up /\ reconciled' = reconciled
  BY <1>5 DEF ShutdownStep, NextName, NoMoreNames
<1>6. ASSUME NEW p \in Pids, SupervisorStep(p)
      PROVE  up' = up /\ reconciled' = reconciled
  BY <1>6 DEF SupervisorStep, ReapNaturalExit, KillLeftovers,
      LeftoversRemain, ReceiveStop, ReapStopped, EscalateToKill,
      StopUnconfirmed, GroupConfirmedGone, Unjournal, Settle
<1>7. ASSUME NEW p \in Pids, OSStep(p)
      PROVE  up' = up /\ reconciled' = reconciled
  BY <1>7 DEF OSStep, Exec, ParkedLeaves, MemberForks, MemberEnds, PidReused,
      StrangerEnds, unchangedByOS
<1>8. QED
  BY <1>1, <1>2, <1>3, <1>4, <1>5, <1>6, <1>7 DEF RunsByItself, RequestStep

(* The recovery of a new daemon answers "ok" only when there is nothing    *)
(* left to recover.                                                        *)
LEMMA ReconcileAnswers ==
  ASSUME IInv, OpsMatch, RunsByItself, NEW r \in Reqs, op[r] = "reconcile",
         pc[r] # "idle", pc'[r] = "idle", answer'[r] = "ok"
  PROVE  reconciled'
<1>1. TypeOK /\ pc[r] \in {"reconcile", "recovering"}
  BY DEF IInv, CInv, Covered, OpsMatch
<1>2. ~Rests(r)
  BY <1>1 DEF Rests
<1>3. CASE Waits(r)
  BY <1>1, <1>3, WaitsEffect, OwnerStays DEF Proceeds
<1>4. CASE RequestStep(r)
  BY <1>1, <1>4, RecoveryEffect, StartEffect, StopEffect, ShutdownEffect
      DEF RequestStep, LaunchPCs, StopPCs, Proceeds
<1>5. ASSUME NEW a \in Reqs, a # r, Waits(a) \/ RequestStep(a)
      PROVE  FALSE
  BY <1>1, <1>2, <1>5, WaitsEffect, RecoveryEffect, StartEffect, StopEffect,
      ShutdownEffect DEF RequestStep
<1>6. QED
  BY <1>2, <1>3, <1>4, <1>5, SupervisorEffect, SystemEffect
      DEF IInv, RunsByItself

(* Only a release brings a group to life.                                  *)
LEMMA OnlyReleaseEnlivens ==
  ASSUME IInv, RunsByItself, \A r \in Reqs : pc[r] # "release",
         NEW p \in Pids, Live(p)'
  PROVE  Live(p) /\ owns'[p] = owns[p]
<1> USE DEF platform, identity, osVars
<1>1. CASE UNCHANGED <<leader, rest, owns>>
  BY <1>1 DEF Live
<1>2. ASSUME NEW q \in Pids, OSStep(q)
      PROVE  Live(p) /\ owns'[p] = owns[p]
  BY <1>2 DEF IInv, CInv, Covered, TypeOK, OSStep, Exec, ParkedLeaves, MemberForks,
      MemberEnds, PidReused, StrangerEnds, unchangedByOS, Ended, Live
<1>3. ASSUME NEW q \in Pids, ReapNaturalExit(q) \/ ReapStopped(q)
      PROVE  Live(p) /\ owns'[p] = owns[p]
  BY <1>3 DEF IInv, CInv, Covered, TypeOK, ReapNaturalExit, ReapStopped, Live
<1>4. ASSUME NEW r \in Reqs, Abandon(r)
      PROVE  Live(p) /\ owns'[p] = owns[p]
  <2>1. owns' = owns /\ rest' = rest
    BY <1>4 DEF Abandon
  <2>2. leader'[p] = leader[p] \/ leader'[p] = "dead"
    BY <1>4 DEF Abandon, IInv, CInv, Covered, TypeOK
  <2>3. QED
    BY <2>1, <2>2 DEF Live
<1>5. ASSUME NEW r \in Reqs, NEW q \in Pids, Fork(r, q)
      PROVE  Live(p) /\ owns'[p] = owns[p]
  <2>1. p # q
    BY <1>5 DEF Fork, IInv, CInv, Covered, TypeOK, PidsAreOwned, Live
  <2>2. QED
    BY <1>5, <2>1 DEF Fork, IInv, CInv, Covered, TypeOK, Live
<1>6. ASSUME NEW r \in Reqs, Waits(r)
      PROVE  UNCHANGED <<leader, rest, owns>>
  BY <1>6 DEF Waits, EntersLock, Acquire, EntersRecovery, AlreadyReconciled,
      BeginRecovery, EnterGate
<1>7. ASSUME NEW r \in Reqs, RecoveryStep(r)
      PROVE  UNCHANGED <<leader, rest, owns>>
  BY <1>7 DEF RecoveryStep, InspectRecord, RecoveredGroupGone,
      RecoveryEscalates, RemoveRecovered, RecoveryFails, RecoveryDone
<1>8. ASSUME NEW r \in Reqs, StartStep(r)
      PROVE  Live(p) /\ owns'[p] = owns[p]
  BY <1>1, <1>4, <1>5, <1>8 DEF StartStep, StartAnswers, StartProceeds,
      ForkFails, JournalLaunch, LaunchFails, Release, SpawnFails, Register
<1>9. ASSUME NEW r \in Reqs, StopStep(r) \/ ShutdownStep(r)
      PROVE  UNCHANGED <<leader, rest, owns>>
  BY <1>9 DEF StopStep, StopFindsNothing, StopUnsupervised,
      StopRetriesRemoval, StopMarks, SendStop, StopAnswered,
      StopFindsSupervisorGone, ShutdownStep, NextName, NoMoreNames
<1>10. ASSUME NEW q \in Pids, SupervisorStep(q)
       PROVE  Live(p) /\ owns'[p] = owns[p]
  BY <1>1, <1>3, <1>10 DEF SupervisorStep, KillLeftovers, LeftoversRemain,
      ReceiveStop, EscalateToKill, StopUnconfirmed, GroupConfirmedGone,
      Unjournal, Settle
<1>11. QED
  BY <1>1, <1>2, <1>6, <1>7, <1>8, <1>9, <1>10 DEF RunsByItself, RequestStep

-----------------------------------------------------------------------------
(* The walk of shutdown_all.                                               *)

(* The services the walk has yet to stop.                                  *)
Left(r) == todo[r] \cup (IF pc[r] = "names" THEN {} ELSE {svc[r]})

(* While the walk has met no error, what runs is on its list.              *)
WalkCovers(r) ==
  answer[r] # "err" => \A p \in Pids : Live(p) => owns[p] \in Left(r)

(* With nobody else in the process manager, a step of it keeps what runs   *)
(* on the list, and the walk ends well only when nothing runs.             *)
LEMMA WalkGoesOn ==
  ASSUME IInv, OpsMatch, RunsByItself, NEW r \in Reqs, op[r] = "shutdown",
         pc[r] # "idle", \A q \in Reqs \ {r} : pc[q] = "idle", WalkCovers(r)
  PROVE  /\ pc'[r] # "idle" => WalkCovers(r)'
         /\ pc'[r] = "idle" /\ answer'[r] = "ok" => \A p \in Pids : ~Live(p)'
<1>1. TypeOK
  BY DEF IInv, CInv, Covered
<1>2. \A q \in Reqs : pc[q] # "release"
  BY DEF OpsMatch, LaunchPCs
<1>3. \A p \in Pids : Live(p)' => Live(p) /\ owns'[p] = owns[p]
  BY <1>2, OnlyReleaseEnlivens
<1>4. CASE Rests(r)
  BY <1>3, <1>4 DEF Rests, WalkCovers, Left, OpsMatch
<1>5. CASE Waits(r)
  BY <1>1, <1>3, <1>5, WaitsEffect DEF WalkCovers, Left, Proceeds
<1>6. CASE RecoveryStep(r)
  BY <1>1, <1>3, <1>6, RecoveryEffect DEF WalkCovers, Left, Proceeds
<1>7. CASE StopStep(r)
  <2>1. CASE Proceeds(r) /\ pc[r] \in StopPCs /\ pc'[r] \in StopPCs
    BY <1>3, <2>1 DEF WalkCovers, Left, Proceeds, StopPCs
  <2>2. CASE /\ pc[r] \in StopPCs /\ pc'[r] = "names"
             /\ svc'[r] = svc[r] /\ todo'[r] = todo[r]
             /\ answer'[r] \in {"err", answer[r]}
    <3>1. CASE answer'[r] = "err"
      BY <2>2, <3>1 DEF WalkCovers
    <3>2. CASE answer'[r] # "err"
      <4>1. pc[r] # "await"
        BY <1>7, <2>2 DEF StopStep, StopFindsNothing, StopUnsupervised,
            StopRetriesRemoval, StopMarks, SendStop, StopAnswered,
            StopFindsSupervisorGone
      <4>2. StopSucceeds(r)
        BY <2>2, <3>2, <4>1 DEF StopSucceeds, StopPCs
      <4>3. \A p \in Pids : owns[p] = svc[r] => ~Live(p)'
        BY <1>7, <4>2, StopStepSucceeds
      <4>4. QED
        BY <1>3, <2>2, <3>2, <4>3 DEF WalkCovers, Left, StopPCs
    <3>3. QED
      BY <3>1, <3>2
  <2>3. QED
    BY <1>1, <1>7, <2>1, <2>2, StopEffect
<1>8. CASE ShutdownStep(r)
  BY <1>1, <1>3, <1>8, ShutdownEffect DEF WalkCovers, Left
<1>9. ~StartStep(r)
  BY <1>1, StartEffect DEF OpsMatch
<1>10. ASSUME NEW a \in Reqs, a # r, Waits(a) \/ RequestStep(a)
       PROVE  FALSE
  BY <1>1, <1>10, WaitsEffect, RecoveryEffect, StartEffect, StopEffect,
      ShutdownEffect DEF RequestStep, LaunchPCs, StopPCs
<1>11. QED
  BY <1>4, <1>5, <1>6, <1>7, <1>8, <1>9, <1>10, SupervisorEffect, SystemEffect
      DEF IInv, RunsByItself, RequestStep

-----------------------------------------------------------------------------
(* The invariant of the daemon.                                            *)

AsksAreOffered == \A r \in Clients : ask[r].at # "none" => ask[r].op \in Mutations

(* How far the daemon has come, and what its own request is doing.         *)
ServingKnows ==
  /\ ~up => serving = "starting"
  /\ serving \in {"starting", "reconciling"} => phase = "running"
  /\ serving = "reconciling" =>
       \/ pc[Coordinator] = "idle" /\ (answer[Coordinator] = "ok" => reconciled)
       \/ pc[Coordinator] # "idle" /\ op[Coordinator] = "reconcile"
  /\ serving \in {"up", "closing"} => reconciled
  /\ serving \in {"up", "closing"} /\ drain # "cleanup" =>
       pc[Coordinator] = "idle"

(* How far a drain has come, and what it has achieved.                     *)
DrainKnows ==
  /\ drain \in {"permit", "cleanup"} => serving = "up" /\ phase = "draining"
  /\ drain = "done" <=> serving = "closing"
  /\ drain = "done" => phase \in {"draining", "failed"}
  /\ drain = "cleanup" \/ (drain = "done" /\ phase = "draining") =>
       \A r \in Clients : ~Admitted(r)
  /\ drain = "cleanup" /\ pc[Coordinator] # "idle" =>
       op[Coordinator] = "shutdown" /\ WalkCovers(Coordinator)
  /\ \/ drain = "cleanup" /\ pc[Coordinator] = "idle" /\ answer[Coordinator] = "ok"
     \/ drain = "done" /\ phase = "draining"
     => \A p \in Pids : ~Live(p)

(* After a cleanup that failed, only stops are admitted.                   *)
FailedAdmitsStops ==
  phase = "failed" => \A r \in Clients :
    /\ pc[r] # "idle" => op[r] = "stop"
    /\ ask[r].at = "load" => ask[r].op = "stop"

DInv ==
  /\ IInv /\ OpsMatch
  /\ DaemonTypeOK
  /\ AsksAreOffered
  /\ ServingKnows
  /\ DrainKnows
  /\ FailedAdmitsStops

(* The daemon's steps are the process manager's, or leave it alone.        *)
LEMMA DaemonStepsAreManagerSteps ==
  ASSUME CInv, AsksAreOffered, DaemonTypeOK, [DaemonNext]_allVars
  PROVE  [Next]_vars
<1> USE CoordinatorAssumption
<1>1. ASSUME NEW r \in Clients, Perform(r)
      PROVE  Next
  BY <1>1 DEF Perform, Next, AsksAreOffered, DaemonTypeOK, Mutations, Clients
<1>2. CASE Boot \/ CleanUp
  BY <1>2 DEF Boot, CleanUp, Next, CInv, TypeOK
<1>3. CASE ManagerStep
  BY <1>3 DEF ManagerStep, Waits, Next
<1>4. CASE BootFails \/ Exit \/ Killed \/ NextDaemon
  BY <1>4 DEF BootFails, Exit, Killed, End, NextDaemon, Next
<1>5. CASE UNCHANGED vars
  BY <1>5
<1>6. QED
  BY <1>1, <1>2, <1>3, <1>4, <1>5 DEF DaemonNext, allVars, Ask, ClientStep,
      Admit, NotRegistered, RequestShutdown, Signal, CoordinatorStep, Serve,
      Receive, Drained, DrainFails

LEMMA DaemonInitInv ==
  ASSUME DaemonInit
  PROVE  DInv
<1>1. IInv
  BY InitInv DEF DaemonInit
<1>2. OpsMatch
  BY DEF DaemonInit, Init, OpsMatch, LaunchPCs
<1>3. DaemonTypeOK /\ AsksAreOffered
  BY NoneAssumption DEF DaemonInit, DaemonTypeOK, AsksAreOffered, NoAsk, Requests
<1>4. ServingKnows /\ DrainKnows /\ FailedAdmitsStops
  BY DEF DaemonInit, Init, ServingKnows, DrainKnows, FailedAdmitsStops
<1>5. QED
  BY <1>1, <1>2, <1>3, <1>4 DEF DInv

(* The invariant but for the process manager's own.                        *)
DaemonPart ==
  OpsMatch /\ DaemonTypeOK /\ AsksAreOffered /\ ServingKnows /\ DrainKnows
    /\ FailedAdmitsStops

LEMMA ManagerStepKeeps ==
  ASSUME DInv, ManagerStep
  PROVE  DaemonPart'
<1> USE CoordinatorAssumption
<1> USE DEF Clients
<1>1. RunsByItself /\ UNCHANGED daemonVars
  BY DEF ManagerStep, RunsByItself
<1>2. IInv /\ OpsMatch
  BY DEF DInv
<1>3. up' = up /\ (reconciled => reconciled')
  BY <1>1, OwnerStays
<1>4. \A r \in Reqs : pc[r] = "idle" => pc'[r] = "idle" /\ answer'[r] = answer[r]
  BY <1>1, <1>2, IdleRests DEF IInv, Rests
<1>5. \A r \in Reqs : op'[r] = op[r] \/ pc'[r] = "idle"
  BY <1>1, <1>2, OpsKept DEF IInv
<1>6. OpsMatch'
  BY <1>1, <1>2, OpsKept DEF IInv, OpsMatch
<1>7. DaemonTypeOK' /\ AsksAreOffered'
  BY <1>1 DEF DInv, DaemonTypeOK, AsksAreOffered, daemonVars
<1>8. ServingKnows'
  <2>1. CASE serving = "reconciling" /\ pc[Coordinator] # "idle"
    <3>1. op[Coordinator] = "reconcile"
      BY <2>1 DEF DInv, ServingKnows
    <3>2. pc'[Coordinator] = "idle" /\ answer'[Coordinator] = "ok" => reconciled'
      BY <1>1, <1>2, <2>1, <3>1, ReconcileAnswers
    <3>3. QED
      BY <1>1, <1>3, <1>5, <2>1, <3>1, <3>2 DEF DInv, ServingKnows, daemonVars
  <2>2. CASE serving # "reconciling" \/ pc[Coordinator] = "idle"
    <3>1. pc[Coordinator] = "idle" =>
            pc'[Coordinator] = "idle" /\ answer'[Coordinator] = answer[Coordinator]
      BY <1>4
    <3>2. serving' = serving /\ drain' = drain /\ phase' = phase
      BY <1>1 DEF daemonVars
    <3>3. ServingKnows
      BY DEF DInv
    <3>4. QED
      BY <1>3, <2>2, <3>1, <3>2, <3>3 DEF ServingKnows
  <2>3. QED
    BY <2>1, <2>2
<1>9. DrainKnows'
  <2>1. (\A r \in Clients : ~Admitted(r)) => (\A r \in Clients : ~Admitted(r))'
    BY <1>1, <1>4 DEF Admitted, daemonVars
  <2>2. CASE drain = "cleanup" /\ pc[Coordinator] # "idle"
    <3>1. /\ \A r \in Reqs \ {Coordinator} : pc[r] = "idle"
          /\ op[Coordinator] = "shutdown" /\ WalkCovers(Coordinator)
      BY <2>2 DEF DInv, DrainKnows, Admitted
    <3>2. /\ pc'[Coordinator] # "idle" => WalkCovers(Coordinator)'
          /\ pc'[Coordinator] = "idle" /\ answer'[Coordinator] = "ok" =>
               \A p \in Pids : ~Live(p)'
      BY <1>1, <1>2, <2>2, <3>1, WalkGoesOn
    <3>3. pc'[Coordinator] # "idle" => op'[Coordinator] = "shutdown"
      BY <1>5, <3>1
    <3>4. QED
      BY <1>1, <2>1, <2>2, <3>2, <3>3 DEF DInv, DrainKnows, daemonVars
  <2>3. CASE drain # "cleanup" \/ pc[Coordinator] = "idle"
    <3>1. \/ drain = "cleanup" /\ pc[Coordinator] = "idle"
          \/ drain = "done" /\ phase = "draining"
          => \A r \in Reqs : pc[r] = "idle"
      BY <2>3 DEF DInv, DrainKnows, ServingKnows, Admitted
    <3>2. (\A r \in Reqs : pc[r] = "idle") => \A p \in Pids : Live(p)' => Live(p)
      BY <1>1, <1>2, OnlyReleaseEnlivens
    <3>3. QED
      BY <1>1, <1>4, <2>1, <2>3, <3>1, <3>2 DEF DInv, DrainKnows, daemonVars
  <2>4. QED
    BY <2>2, <2>3
<1>10. FailedAdmitsStops'
  BY <1>1, <1>4, <1>5 DEF DInv, FailedAdmitsStops, daemonVars
<1>11. QED
  BY <1>6, <1>7, <1>8, <1>9, <1>10 DEF DaemonPart

(* What a call of the process manager does to the requests.                *)
LEMMA CallEffect ==
  ASSUME TypeOK, OpsMatch, NEW r \in Reqs, NEW o \in Ops, NEW s \in Services,
         Call(r, o, s)
  PROVE  /\ up /\ UNCHANGED <<platform, manager>>
         /\ \A q \in Reqs : q # r => Rests(q)
         /\ pc[r] = "idle" /\ pc'[r] # "idle"
         /\ op'[r] = o /\ answer'[r] = "none"
         /\ o = "shutdown" =>
              /\ pc'[r] = "names"
              /\ todo'[r] = {t \in Services : entry[t].state # "absent"}
         /\ OpsMatch'
<1>1. CASE o \in {"start", "stop", "restart"} /\ Goto(r, "enter") /\ UNCHANGED todo
  BY <1>1 DEF TypeOK, OpsMatch, Call, Goto, Rests, LaunchPCs
<1>2. CASE o = "reconcile" /\ Goto(r, "reconcile") /\ UNCHANGED todo
  BY <1>2 DEF TypeOK, OpsMatch, Call, Goto, Rests, LaunchPCs
<1>3. CASE /\ o = "shutdown" /\ Goto(r, "names")
           /\ todo' = [todo EXCEPT ![r] = {t \in Services : entry[t].state # "absent"}]
  BY <1>3 DEF TypeOK, OpsMatch, Call, Goto, Rests, LaunchPCs
<1>4. QED
  BY <1>1, <1>2, <1>3 DEF Call

(* Admission: the clients' steps.                                          *)
LEMMA AskKeeps ==
  ASSUME DInv, NEW r \in Clients, NEW o \in Mutations, NEW s \in Services,
         Ask(r, o, s)
  PROVE  DaemonPart'
<1> USE DEF Ask, vars, platform, manager, reqVars, callVars, osVars, identity,
    tables, owner
<1>1. ask' = [ask EXCEPT ![r] = [at |-> "gate", op |-> o, svc |-> s]]
      /\ ask[r].at = "none"
  OBVIOUS
<1>2. OpsMatch'
  BY DEF DInv, OpsMatch
<1>3. DaemonTypeOK' /\ AsksAreOffered'
  BY <1>1 DEF DInv, DaemonTypeOK, AsksAreOffered, Mutations
<1>4. \A c \in Clients : (ask'[c].at = "load") = (ask[c].at = "load")
                         /\ (ask'[c].at = "load" => ask'[c] = ask[c])
  BY <1>1 DEF DInv, DaemonTypeOK
<1>5. ServingKnows'
  BY DEF DInv, ServingKnows
<1>6. DrainKnows'
  BY <1>4 DEF DInv, DrainKnows, Admitted, WalkCovers, Left, Live
<1>7. FailedAdmitsStops'
  BY <1>4 DEF DInv, FailedAdmitsStops
<1>8. QED
  BY <1>2, <1>3, <1>5, <1>6, <1>7 DEF DaemonPart

LEMMA AdmitKeeps ==
  ASSUME DInv, NEW r \in Clients, Admit(r)
  PROVE  DaemonPart'
<1> USE DEF Admit, vars, platform, manager, reqVars, callVars, osVars,
    identity, tables, owner
<1>1. /\ ask' = [ask EXCEPT ![r] = IF Allowed(ask[r].op)
                                  THEN [@ EXCEPT !.at = "load"] ELSE NoAsk]
      /\ ask[r].at = "gate" /\ drain # "cleanup"
  OBVIOUS
<1>2. OpsMatch'
  BY DEF DInv, OpsMatch
<1>3. DaemonTypeOK' /\ AsksAreOffered'
  BY <1>1, NoneAssumption DEF DInv, DaemonTypeOK, AsksAreOffered, NoAsk
<1>4. \A c \in Clients : ask'[c].at = "load" =>
        ask'[c] = ask[c] \/ (Allowed(ask'[c].op) /\ ask'[c].op = ask[c].op)
  BY <1>1 DEF DInv, DaemonTypeOK, NoAsk
<1>5. ServingKnows'
  BY DEF DInv, ServingKnows
<1>6. DrainKnows'
  BY <1>1, <1>4 DEF DInv, DrainKnows, Admitted, Allowed, WalkCovers, Left, Live
<1>7. FailedAdmitsStops'
  BY <1>4 DEF DInv, FailedAdmitsStops, Allowed
<1>8. QED
  BY <1>2, <1>3, <1>5, <1>6, <1>7 DEF DaemonPart

LEMMA NotRegisteredKeeps ==
  ASSUME DInv, NEW r \in Clients, NotRegistered(r)
  PROVE  DaemonPart'
<1> USE DEF NotRegistered, vars, platform, manager, reqVars, callVars, osVars,
    identity, tables, owner
<1>1. ask' = [ask EXCEPT ![r] = NoAsk]
  OBVIOUS
<1>2. OpsMatch'
  BY DEF DInv, OpsMatch
<1>3. DaemonTypeOK' /\ AsksAreOffered'
  BY <1>1, NoneAssumption DEF DInv, DaemonTypeOK, AsksAreOffered, NoAsk
<1>4. \A c \in Clients : ask'[c].at = "load" => ask'[c] = ask[c]
  BY <1>1 DEF DInv, DaemonTypeOK, NoAsk
<1>5. ServingKnows'
  BY DEF DInv, ServingKnows
<1>6. DrainKnows'
  BY <1>4 DEF DInv, DrainKnows, Admitted, WalkCovers, Left, Live
<1>7. FailedAdmitsStops'
  BY <1>4 DEF DInv, FailedAdmitsStops
<1>8. QED
  BY <1>2, <1>3, <1>5, <1>6, <1>7 DEF DaemonPart

LEMMA PerformKeeps ==
  ASSUME DInv, NEW r \in Clients, Perform(r)
  PROVE  DaemonPart'
<1> USE CoordinatorAssumption DEF Clients
<1>1. /\ Call(r, ask[r].op, ask[r].svc) /\ ask[r].at = "load"
      /\ ask' = [ask EXCEPT ![r] = NoAsk]
      /\ UNCHANGED <<serving, phase, channel, signalWaits, request, drain>>
  BY DEF Perform
<1>2. /\ ask[r].op \in {"start", "stop", "restart"} /\ ask[r].op \in Ops
      /\ ask[r].svc \in Services
  BY DEF DInv, DaemonTypeOK, Ops
<1>3. /\ up /\ UNCHANGED <<platform, manager>>
      /\ \A q \in Reqs : q # r => Rests(q)
      /\ op'[r] = ask[r].op
      /\ OpsMatch'
  BY <1>1, <1>2, CallEffect DEF DInv, IInv, CInv, Covered
<1>4. up' = up /\ reconciled' = reconciled /\ Rests(Coordinator)
  BY <1>3 DEF platform, identity, manager, owner
<1>5. \A p \in Pids : Live(p)' = Live(p) /\ owns'[p] = owns[p]
  BY <1>3 DEF platform, identity, osVars, Live
<1>6. DaemonTypeOK' /\ AsksAreOffered'
  BY <1>1, NoneAssumption DEF DInv, DaemonTypeOK, AsksAreOffered, NoAsk
<1>7. \A c \in Clients : ask'[c].at = "load" => ask'[c] = ask[c]
  BY <1>1 DEF DInv, DaemonTypeOK, NoAsk
<1>8. Admitted(r)
  BY <1>1 DEF Admitted
<1>9. drain # "cleanup" /\ ~(drain = "done" /\ phase = "draining")
  BY <1>8 DEF DInv, DrainKnows
<1>10. ServingKnows'
  BY <1>1, <1>4, <1>9 DEF DInv, ServingKnows, Rests
<1>11. DrainKnows'
  BY <1>1, <1>9 DEF DInv, DrainKnows
<1>12. FailedAdmitsStops'
  <2>1. phase = "failed" => ask[r].op = "stop"
    BY <1>1 DEF DInv, FailedAdmitsStops
  <2>2. \A c \in Clients : c # r => Rests(c)
    BY <1>3
  <2>3. QED
    BY <1>1, <1>3, <1>7, <2>1, <2>2 DEF DInv, FailedAdmitsStops, Rests
<1>13. QED
  BY <1>3, <1>6, <1>10, <1>11, <1>12 DEF DaemonPart

(* Steps of the daemon's own leave the process manager and the clients as  *)
(* they are.                                                               *)
LEMMA QuietStep ==
  ASSUME DInv, UNCHANGED <<vars, ask>>
  PROVE  /\ OpsMatch' /\ AsksAreOffered'
         /\ UNCHANGED <<up, reconciled, pc, op, answer, todo, svc>>
         /\ \A p \in Pids : Live(p)' = Live(p) /\ owns'[p] = owns[p]
         /\ \A r \in Clients : Admitted(r)' = Admitted(r)
         /\ WalkCovers(Coordinator)' = WalkCovers(Coordinator)
<1> USE DEF vars, platform, manager, reqVars, callVars, osVars, identity,
    tables, owner
<1>1. OpsMatch' /\ AsksAreOffered'
  BY DEF DInv, OpsMatch, AsksAreOffered
<1>2. WalkCovers(Coordinator)' = WalkCovers(Coordinator)
  BY DEF WalkCovers, Left, Live
<1>3. QED
  BY <1>1, <1>2 DEF Live, Admitted

LEMMA RequestKeeps ==
  ASSUME DInv, RequestShutdown \/ Signal
  PROVE  DaemonPart'
<1>1. UNCHANGED <<vars, ask, serving, phase, request, drain>>
  BY DEF RequestShutdown, Signal
<1>2. /\ OpsMatch' /\ AsksAreOffered'
      /\ UNCHANGED <<up, reconciled, pc, op, answer, todo, svc>>
      /\ \A p \in Pids : Live(p)' = Live(p) /\ owns'[p] = owns[p]
      /\ \A r \in Clients : Admitted(r)' = Admitted(r)
      /\ WalkCovers(Coordinator)' = WalkCovers(Coordinator)
  BY <1>1, QuietStep
<1>3. DaemonTypeOK'
  BY <1>1 DEF DInv, DaemonTypeOK, RequestShutdown, Signal, Requests
<1>4. ServingKnows' /\ FailedAdmitsStops'
  BY <1>1, <1>2 DEF DInv, ServingKnows, FailedAdmitsStops
<1>5. DrainKnows'
  BY <1>1, <1>2 DEF DInv, DrainKnows
<1>6. QED
  BY <1>2, <1>3, <1>4, <1>5 DEF DaemonPart

(* Serving begins, a drain begins, and a drain ends.                       *)
LEMMA ServeKeeps ==
  ASSUME DInv, Serve
  PROVE  DaemonPart'
<1>1. /\ UNCHANGED <<vars, phase, ask, channel, signalWaits, request, drain>>
      /\ serving = "reconciling" /\ serving' = "up"
      /\ pc[Coordinator] = "idle" /\ answer[Coordinator] = "ok"
  BY DEF Serve, Recovered
<1>2. /\ OpsMatch' /\ AsksAreOffered'
      /\ UNCHANGED <<up, reconciled, pc, op, answer, todo, svc>>
      /\ \A p \in Pids : Live(p)' = Live(p) /\ owns'[p] = owns[p]
      /\ \A r \in Clients : Admitted(r)' = Admitted(r)
      /\ WalkCovers(Coordinator)' = WalkCovers(Coordinator)
  BY <1>1, QuietStep
<1>3. DaemonTypeOK'
  BY <1>1 DEF DInv, DaemonTypeOK
<1>4. ServingKnows' /\ FailedAdmitsStops'
  BY <1>1, <1>2 DEF DInv, ServingKnows, FailedAdmitsStops
<1>5. DrainKnows'
  BY <1>1, <1>2 DEF DInv, DrainKnows
<1>6. QED
  BY <1>2, <1>3, <1>4, <1>5 DEF DaemonPart

LEMMA ReceiveKeeps ==
  ASSUME DInv, Receive
  PROVE  DaemonPart'
<1>1. /\ UNCHANGED <<vars, serving, ask>>
      /\ serving = "up" /\ drain = "none" /\ channel # "none"
      /\ request' = channel /\ signalWaits' = FALSE
      /\ channel' \in {"signalled", "none"}
      /\ phase' = "draining" /\ drain' = "permit"
  BY DEF Receive
<1>2. /\ OpsMatch' /\ AsksAreOffered'
      /\ UNCHANGED <<up, reconciled, pc, op, answer, todo, svc>>
      /\ \A p \in Pids : Live(p)' = Live(p) /\ owns'[p] = owns[p]
      /\ \A r \in Clients : Admitted(r)' = Admitted(r)
      /\ WalkCovers(Coordinator)' = WalkCovers(Coordinator)
  BY <1>1, QuietStep
<1>3. DaemonTypeOK'
  BY <1>1 DEF DInv, DaemonTypeOK, Requests
<1>4. ServingKnows' /\ FailedAdmitsStops'
  BY <1>1, <1>2 DEF DInv, ServingKnows, FailedAdmitsStops
<1>5. DrainKnows'
  BY <1>1, <1>2 DEF DInv, DrainKnows
<1>6. QED
  BY <1>2, <1>3, <1>4, <1>5 DEF DaemonPart

LEMMA DrainedKeeps ==
  ASSUME DInv, Drained
  PROVE  DaemonPart'
<1>1. /\ UNCHANGED <<vars, phase, ask, channel, signalWaits, request>>
      /\ drain = "cleanup" /\ pc[Coordinator] = "idle"
      /\ answer[Coordinator] = "ok"
      /\ drain' = "done" /\ serving' = "closing"
  BY DEF Drained, CleanedUp
<1>2. /\ OpsMatch' /\ AsksAreOffered'
      /\ UNCHANGED <<up, reconciled, pc, op, answer, todo, svc>>
      /\ \A p \in Pids : Live(p)' = Live(p) /\ owns'[p] = owns[p]
      /\ \A r \in Clients : Admitted(r)' = Admitted(r)
      /\ WalkCovers(Coordinator)' = WalkCovers(Coordinator)
  BY <1>1, QuietStep
<1>3. DaemonTypeOK'
  BY <1>1 DEF DInv, DaemonTypeOK
<1>4. ServingKnows' /\ FailedAdmitsStops'
  BY <1>1, <1>2 DEF DInv, ServingKnows, DrainKnows, FailedAdmitsStops
<1>5. DrainKnows'
  BY <1>1, <1>2 DEF DInv, DrainKnows
<1>6. QED
  BY <1>2, <1>3, <1>4, <1>5 DEF DaemonPart

LEMMA DrainFailsKeeps ==
  ASSUME DInv, DrainFails
  PROVE  DaemonPart'
<1>1. /\ UNCHANGED <<vars, ask, channel, signalWaits>>
      /\ drain = "cleanup" /\ pc[Coordinator] = "idle"
      /\ phase' = "failed"
      /\ \/ drain' = "done" /\ serving' = "closing" /\ request' = request
         \/ drain' = "none" /\ serving' = serving /\ request' = "none"
  BY DEF DrainFails, CleanedUp
<1>2. /\ OpsMatch' /\ AsksAreOffered'
      /\ UNCHANGED <<up, reconciled, pc, op, answer, todo, svc>>
      /\ \A p \in Pids : Live(p)' = Live(p) /\ owns'[p] = owns[p]
      /\ \A r \in Clients : Admitted(r)' = Admitted(r)
      /\ WalkCovers(Coordinator)' = WalkCovers(Coordinator)
  BY <1>1, QuietStep
<1>3. DaemonTypeOK'
  BY <1>1 DEF DInv, DaemonTypeOK, Requests
<1>4. serving = "up" /\ \A r \in Clients : ~Admitted(r)
  BY <1>1 DEF DInv, DrainKnows
<1>5. ServingKnows'
  BY <1>1, <1>2, <1>4 DEF DInv, ServingKnows
<1>6. FailedAdmitsStops'
  BY <1>1, <1>2, <1>4 DEF FailedAdmitsStops, Admitted
<1>7. DrainKnows'
  BY <1>1, <1>2, <1>4 DEF DInv, DrainKnows
<1>8. QED
  BY <1>2, <1>3, <1>5, <1>6, <1>7 DEF DaemonPart

(* The daemon's own calls of the process manager.                          *)
LEMMA BootKeeps ==
  ASSUME DInv, Boot
  PROVE  DaemonPart'
<1> USE CoordinatorAssumption DEF Clients
<1>1. /\ Call(Coordinator, "reconcile", svc[Coordinator])
      /\ serving = "starting" /\ serving' = "reconciling"
      /\ UNCHANGED <<phase, ask, channel, signalWaits, request, drain>>
  BY DEF Boot
<1>2. svc[Coordinator] \in Services /\ "reconcile" \in Ops
  BY DEF DInv, IInv, CInv, Covered, TypeOK, Ops
<1>3. /\ up /\ UNCHANGED <<platform, manager>>
      /\ \A q \in Reqs : q # Coordinator => Rests(q)
      /\ pc'[Coordinator] # "idle" /\ op'[Coordinator] = "reconcile"
      /\ OpsMatch'
  BY <1>1, <1>2, CallEffect DEF DInv, IInv, CInv, Covered
<1>4. up' = up
  BY <1>3 DEF platform, identity
<1>5. DaemonTypeOK' /\ AsksAreOffered'
  BY <1>1 DEF DInv, DaemonTypeOK, AsksAreOffered
<1>6. ServingKnows'
  BY <1>1, <1>3, <1>4 DEF DInv, ServingKnows
<1>7. DrainKnows' /\ FailedAdmitsStops'
  BY <1>1 DEF DInv, DrainKnows, ServingKnows, FailedAdmitsStops
<1>8. QED
  BY <1>3, <1>5, <1>6, <1>7 DEF DaemonPart

(* With no client in the process manager its table names all that runs.    *)
LEMMA CleanUpKeeps ==
  ASSUME DInv, CleanUp
  PROVE  DaemonPart'
<1> USE CoordinatorAssumption DEF Clients
<1>1. /\ Call(Coordinator, "shutdown", svc[Coordinator])
      /\ drain = "permit" /\ drain' = "cleanup"
      /\ \A r \in Clients : ~Admitted(r)
      /\ UNCHANGED <<serving, phase, ask, channel, signalWaits, request>>
  BY DEF CleanUp
<1>2. svc[Coordinator] \in Services /\ "shutdown" \in Ops
  BY DEF DInv, IInv, CInv, Covered, TypeOK, Ops
<1>3. /\ up /\ UNCHANGED <<platform, manager>>
      /\ \A q \in Reqs : q # Coordinator => Rests(q)
      /\ pc[Coordinator] = "idle" /\ pc'[Coordinator] = "names"
      /\ op'[Coordinator] = "shutdown"
      /\ todo'[Coordinator] = {t \in Services : entry[t].state # "absent"}
      /\ OpsMatch'
  BY <1>1, <1>2, CallEffect DEF DInv, IInv, CInv, Covered
<1>4. up' = up /\ reconciled' = reconciled
  BY <1>3 DEF platform, identity, manager, owner
<1>5. \A p \in Pids : Live(p)' = Live(p) /\ owns'[p] = owns[p]
  BY <1>3 DEF platform, identity, osVars, Live
<1>6. serving = "up" /\ phase = "draining" /\ reconciled
  BY <1>1 DEF DInv, DrainKnows, ServingKnows
<1>7. \A r \in Reqs : pc[r] = "idle"
  BY <1>1, <1>3 DEF Admitted
<1>8. \A r \in Clients : ~Admitted(r)'
  BY <1>1, <1>3, <1>7 DEF Rests, Admitted
<1>9. WalkCovers(Coordinator)'
  <2>1. ASSUME NEW p \in Pids, Live(p)
        PROVE  entry[owns[p]].state # "absent" /\ owns[p] \in Services
    <3>1. entry[owns[p]].pid = p
      BY <1>6, <1>7, <2>1 DEF DInv, IInv, CInv, Covered, NothingHidden
    <3>2. owns[p] \in Services
      BY <2>1 DEF DInv, IInv, CInv, Covered, PidsAreOwned, Live, TypeOK
    <3>3. QED
      BY <3>1, <3>2, NoneAssumption DEF DInv, IInv, CInv, Covered, EntriesDescribeLaunches,
          EntryDescribes, NoEntry
  <2>2. QED
    BY <1>3, <1>5, <2>1 DEF WalkCovers, Left
<1>10. DaemonTypeOK' /\ AsksAreOffered'
  BY <1>1 DEF DInv, DaemonTypeOK, AsksAreOffered
<1>11. ServingKnows'
  BY <1>1, <1>4, <1>6 DEF DInv, ServingKnows
<1>12. DrainKnows'
  BY <1>1, <1>3, <1>6, <1>8, <1>9 DEF DrainKnows
<1>13. FailedAdmitsStops'
  BY <1>1, <1>6 DEF FailedAdmitsStops
<1>14. QED
  BY <1>3, <1>10, <1>11, <1>12, <1>13 DEF DaemonPart

(* The end of a daemon and the start of the next.                          *)
LEMMA EndKeeps ==
  ASSUME DInv, End
  PROVE  DaemonPart'
<1> USE CoordinatorAssumption DEF Clients
<1>1. /\ up' = FALSE
      /\ pc' = [r \in Reqs |-> "idle"] /\ op' = [r \in Reqs |-> "start"]
      /\ serving' = "starting" /\ phase' = "running"
      /\ ask' = [r \in Clients |-> NoAsk]
      /\ channel' = "none" /\ signalWaits' = FALSE
      /\ request' = "none" /\ drain' = "none"
  BY DEF End, Crash
<1>2. OpsMatch'
  BY <1>1 DEF OpsMatch, LaunchPCs
<1>3. DaemonTypeOK' /\ AsksAreOffered'
  BY <1>1, NoneAssumption DEF DaemonTypeOK, AsksAreOffered, NoAsk, Requests
<1>4. ServingKnows' /\ DrainKnows' /\ FailedAdmitsStops'
  BY <1>1 DEF ServingKnows, DrainKnows, FailedAdmitsStops
<1>5. QED
  BY <1>2, <1>3, <1>4 DEF DaemonPart

LEMMA NextDaemonKeeps ==
  ASSUME DInv, NextDaemon
  PROVE  DaemonPart'
<1>1. /\ ~up /\ up' = TRUE
      /\ UNCHANGED <<reqVars, manager, osVars, owns, daemonVars>>
  BY DEF NextDaemon, Reborn
<1>2. OpsMatch' /\ AsksAreOffered' /\ DaemonTypeOK'
  BY <1>1 DEF DInv, OpsMatch, AsksAreOffered, DaemonTypeOK, reqVars, callVars,
      daemonVars
<1>3. serving = "starting" /\ phase = "running" /\ drain # "cleanup" /\ drain # "done"
  BY <1>1 DEF DInv, ServingKnows, DrainKnows
<1>4. ServingKnows' /\ FailedAdmitsStops'
  BY <1>1, <1>3 DEF DInv, ServingKnows, FailedAdmitsStops, daemonVars
<1>5. DrainKnows'
  BY <1>1, <1>3 DEF DInv, DrainKnows, daemonVars
<1>6. QED
  BY <1>2, <1>4, <1>5 DEF DaemonPart

LEMMA DaemonStutterKeeps ==
  ASSUME DInv, UNCHANGED allVars
  PROVE  DaemonPart'
<1>1. UNCHANGED <<vars, ask, serving, phase, channel, signalWaits, request, drain>>
  BY DEF allVars, daemonVars
<1>2. /\ OpsMatch' /\ AsksAreOffered'
      /\ UNCHANGED <<up, reconciled, pc, op, answer, todo, svc>>
      /\ \A p \in Pids : Live(p)' = Live(p) /\ owns'[p] = owns[p]
      /\ \A r \in Clients : Admitted(r)' = Admitted(r)
      /\ WalkCovers(Coordinator)' = WalkCovers(Coordinator)
  BY <1>1, QuietStep
<1>3. DaemonTypeOK'
  BY <1>1 DEF DInv, DaemonTypeOK
<1>4. ServingKnows' /\ FailedAdmitsStops'
  BY <1>1, <1>2 DEF DInv, ServingKnows, FailedAdmitsStops
<1>5. DrainKnows'
  BY <1>1, <1>2 DEF DInv, DrainKnows
<1>6. QED
  BY <1>2, <1>3, <1>4, <1>5 DEF DaemonPart

(* Every step of the daemon keeps the invariant.                           *)
LEMMA DaemonNextKeeps ==
  ASSUME DInv, [DaemonNext]_allVars
  PROVE  DInv'
<1>1. IInv'
  <2>1. [Next]_vars
    BY DaemonStepsAreManagerSteps DEF DInv, IInv
  <2>2. QED
    BY <2>1, NextKeeps DEF DInv
<1>2. DaemonPart'
  <2>1. ASSUME NEW r \in Clients, NEW o \in Mutations, NEW s \in Services,
               Ask(r, o, s)
        PROVE  DaemonPart'
    BY <2>1, AskKeeps
  <2>2. ASSUME NEW r \in Clients, ClientStep(r)
        PROVE  DaemonPart'
    BY <2>2, AdmitKeeps, NotRegisteredKeeps, PerformKeeps DEF ClientStep
  <2>3. CASE CoordinatorStep
    BY <2>3, BootKeeps, ServeKeeps, ReceiveKeeps, CleanUpKeeps, DrainedKeeps,
        DrainFailsKeeps DEF CoordinatorStep
  <2>4. CASE BootFails \/ Exit \/ Killed
    BY <2>4, EndKeeps DEF BootFails, Exit, Killed
  <2>5. QED
    BY <2>1, <2>2, <2>3, <2>4, ManagerStepKeeps, RequestKeeps,
        NextDaemonKeeps, DaemonStutterKeeps DEF DaemonNext
<1>3. QED
  BY <1>1, <1>2 DEF DInv, DaemonPart

-----------------------------------------------------------------------------
(* What holds of every daemon.                                             *)

(* The inductive invariant holds in every behaviour.                       *)
THEOREM DaemonInvariantHolds == DaemonSpec => []DInv
BY DaemonInitInv, DaemonNextKeeps, PTL DEF DaemonSpec

(* The daemon uses the process manager only as its specification allows,   *)
(* so every theorem about that holds of the daemon's process manager.      *)
THEOREM DaemonRunsManager == DaemonSpec => Spec
<1>1. DaemonInit => Init
  BY DEF DaemonInit
<1>2. DInv /\ [DaemonNext]_allVars => [Next]_vars
  BY DaemonStepsAreManagerSteps DEF DInv, IInv
<1>3. QED
  BY <1>1, <1>2, DaemonInvariantHolds, PTL DEF DaemonSpec, Spec

(* Every variable of the daemon keeps its type.                            *)
THEOREM DaemonTypesHold == DaemonSpec => []DaemonTypeOK
<1>1. DInv => DaemonTypeOK
  BY DEF DInv
<1>2. QED
  BY <1>1, DaemonInvariantHolds, PTL

(* However often daemons end and start, none serves a request while a      *)
(* group of an earlier one runs.                                           *)
THEOREM ServingIsReconciled == DaemonSpec => []ServesOnlyItsOwn
<1>1. DInv => ServesOnlyItsOwn
  BY DEF DInv, IInv, CInv, Covered, ServingKnows, NothingHidden, ServesOnlyItsOwn
<1>2. QED
  BY <1>1, DaemonInvariantHolds, PTL

(* A drain that succeeds leaves no process of any service, whichever       *)
(* requests were admitted, waiting or refused when it began.               *)
THEOREM DrainLeavesNothing == DaemonSpec => []DrainedMeansDown
<1>1. DInv => DrainedMeansDown
  BY DEF DInv, DrainKnows, DrainedMeansDown
<1>2. QED
  BY <1>1, DaemonInvariantHolds, PTL

(* No start or restart is under way from the write permit on, nor after a  *)
(* cleanup that failed.                                                    *)
THEOREM NoLaunchAfterDrain == DaemonSpec => []DrainEndsLaunches
<1>1. ASSUME DInv
      PROVE  DrainEndsLaunches
  <2>1. ASSUME drain \in {"cleanup", "done"}, phase # "failed",
               NEW r \in Clients
        PROVE  pc[r] = "idle"
    BY <1>1, <2>1 DEF DInv, DrainKnows, Admitted
  <2>2. phase = "failed" => serving \in {"up", "closing"} /\ drain # "cleanup"
    BY <1>1 DEF DInv, DaemonTypeOK, ServingKnows, DrainKnows
  <2>3. drain \in {"cleanup", "done"} => serving \in {"up", "closing"}
    BY <1>1 DEF DInv, DrainKnows
  <2>4. (phase = "failed" \/ drain \in {"cleanup", "done"})
        => (pc[Coordinator] # "idle" => op[Coordinator] = "shutdown")
    BY <1>1, <2>2, <2>3 DEF DInv, ServingKnows, DrainKnows
  <2>5. QED
    BY <1>1, <2>1, <2>4 DEF DInv, FailedAdmitsStops, DrainEndsLaunches, Clients
<1>2. QED
  BY <1>1, DaemonInvariantHolds, PTL

-----------------------------------------------------------------------------
(* Clients that disconnect.  Their handlers are dropped, so of the process *)
(* manager only DroppedInv is left (a daemon may even close over a group   *)
(* it has lost, see StopsServingOnceDown); the permits still come back in  *)
(* order.                                                                  *)

(* How far the daemon has come, and whom it admits meanwhile.              *)
PhasesAgree ==
  /\ serving \in {"starting", "reconciling"} => phase = "running" /\ drain = "none"
  /\ pc[Coordinator] # "idle" =>
       \/ serving = "reconciling" /\ op[Coordinator] = "reconcile"
       \/ drain = "cleanup" /\ op[Coordinator] = "shutdown"
  /\ drain \in {"permit", "cleanup"} => phase = "draining"
  /\ drain = "done" => serving = "closing" /\ phase \in {"draining", "failed"}
  /\ drain = "cleanup" \/ (drain = "done" /\ phase = "draining") =>
       \A r \in Clients : ~Admitted(r)

DropPart ==
  OpsMatch /\ DaemonTypeOK /\ AsksAreOffered /\ PhasesAgree /\ FailedAdmitsStops

DropInv == DroppedInv /\ DropPart

(* The daemon's steps are the process manager's with futures dropped.      *)
LEMMA DisconnectStepsAreManagerSteps ==
  ASSUME CInv, AsksAreOffered, DaemonTypeOK, [DisconnectNext]_disconnectVars
  PROVE  [CancelNext]_cancelVars
<1>1. CASE DaemonNext /\ MisledWait /\ DieWithOwner
  <2>1. Next \/ UNCHANGED vars
    BY <1>1, DaemonStepsAreManagerSteps
  <2>2. CASE UNCHANGED vars
    BY <1>1, <2>2 DEF DieWithOwner, cancelVars, vars, platform, identity
  <2>3. QED
    BY <1>1, <2>1, <2>2 DEF CancelNext
<1>2. ASSUME NEW r \in Clients, Disconnect(r) PROVE [CancelNext]_cancelVars
  BY <1>2 DEF Disconnect, CancelNext, Clients, cancelVars
<1>3. CASE \E p \in Pids : OrphanReaped(p)
  BY <1>3 DEF CancelNext
<1>4. CASE LateStep
  BY <1>4 DEF CancelNext
<1>5. CASE UNCHANGED disconnectVars
  BY <1>5 DEF disconnectVars, allVars, cancelVars
<1>6. QED
  BY <1>1, <1>2, <1>3, <1>4, <1>5 DEF DisconnectNext

(* Nothing the process manager does by itself, and no caller it loses,     *)
(* begins an operation.                                                    *)
LEMMA NoCallKeepsDropPart ==
  ASSUME DropPart, UNCHANGED daemonVars, OpsMatch',
         \A r \in Reqs : /\ pc[r] = "idle" => pc'[r] = "idle"
                         /\ op'[r] = op[r] \/ pc'[r] = "idle"
  PROVE  DropPart'
<1> USE CoordinatorAssumption DEF Clients
<1>1. DaemonTypeOK' /\ AsksAreOffered'
  BY DEF DropPart, DaemonTypeOK, AsksAreOffered, daemonVars
<1>2. PhasesAgree'
  BY DEF DropPart, PhasesAgree, Admitted, daemonVars
<1>3. FailedAdmitsStops'
  BY DEF DropPart, FailedAdmitsStops, daemonVars
<1>4. QED
  BY <1>1, <1>2, <1>3 DEF DropPart

LEMMA ManagerStepKeepsDropPart ==
  ASSUME DropInv, ManagerStep
  PROVE  DropPart'
<1>1. RunsByItself /\ UNCHANGED daemonVars
  BY DEF ManagerStep, RunsByItself
<1>2. CInv /\ OpsMatch
  BY DEF DropInv, DroppedInv, DropPart
<1>3. \A r \in Reqs : pc[r] = "idle" => pc'[r] = "idle"
  BY <1>1, <1>2, IdleRests DEF Rests
<1>4. \A r \in Reqs : op'[r] = op[r] \/ pc'[r] = "idle"
  BY <1>1, <1>2, OpsKept
<1>5. OpsMatch'
  BY <1>1, <1>2, OpsKept DEF OpsMatch
<1>6. QED
  BY <1>1, <1>3, <1>4, <1>5, NoCallKeepsDropPart DEF DropInv

LEMMA DroppedKeepsDropPart ==
  ASSUME DropInv,
         \/ \E r \in Reqs : Cancel(r)
         \/ \E p \in Pids : OrphanReaped(p)
         \/ LateStep \/ Reborn,
         UNCHANGED daemonVars
  PROVE  DropPart'
<1>1. ASSUME NEW r \in Reqs, Cancel(r) PROVE DropPart'
  <2>1. \A q \in Reqs : \/ pc'[q] = pc[q] /\ op'[q] = op[q]
                        \/ pc'[q] = "idle" /\ op'[q] = "start"
    BY <1>1 DEF Cancel, Goto, DropInv, DroppedInv, CInv, TypeOK
  <2>2. OpsMatch'
    BY <2>1 DEF DropInv, DropPart, OpsMatch, LaunchPCs
  <2>3. QED
    BY <2>1, <2>2, NoCallKeepsDropPart DEF DropInv
<1>2. ASSUME pc' = pc, op' = op PROVE DropPart'
  BY <1>2, NoCallKeepsDropPart DEF DropInv, DropPart, OpsMatch
<1>3. ASSUME NEW r \in Reqs, MisledEnds(r) PROVE DropPart'
  <2>1. \A q \in Reqs : \/ pc'[q] = pc[q] /\ op'[q] = op[q]
                        \/ pc'[q] = "idle" /\ op'[q] = "start"
    BY <1>3 DEF MisledEnds, Return, Goto, DropInv, DroppedInv, CInv, TypeOK
  <2>2. OpsMatch'
    BY <2>1 DEF DropInv, DropPart, OpsMatch, LaunchPCs
  <2>3. QED
    BY <2>1, <2>2, NoCallKeepsDropPart DEF DropInv
<1>4. ASSUME NEW r \in Reqs, NEW label \in LaunchPCs, pc[r] \in LaunchPCs,
             pc' = [pc EXCEPT ![r] = label], op' = op
      PROVE  DropPart'
  <2>1. \A q \in Reqs : \/ pc'[q] = pc[q]
                        \/ pc[q] \in LaunchPCs /\ pc'[q] \in LaunchPCs
    BY <1>4 DEF DropInv, DroppedInv, CInv, TypeOK
  <2>2. OpsMatch'
    BY <1>4, <2>1 DEF DropInv, DropPart, OpsMatch, LaunchPCs
  <2>3. QED
    BY <1>4, <2>1, <2>2, NoCallKeepsDropPart DEF DropInv, LaunchPCs
<1>5. CASE LateStep
  <2>1. ASSUME NEW r \in Reqs, NEW p \in Pids,
               TakesAnnouncement(r, p) \/ StrayTakesRelease(r, p)
        PROVE  DropPart'
    BY <1>4, <2>1 DEF TakesAnnouncement, StrayTakesRelease, Goto, callVars, LaunchPCs
  <2>2. QED
    BY <1>2, <1>3, <1>5, <2>1 DEF LateStep, LateSpawnFails, LateFork, vars, reqVars, callVars
<1>6. QED
  BY <1>1, <1>2, <1>5 DEF OrphanReaped, Reborn, reqVars, callVars

(* What a client asks, is granted, and gives up, without a call.           *)
LEMMA AskingKeepsDropPart ==
  ASSUME DropInv, NEW r \in Clients, UNCHANGED <<pc, op>>,
         UNCHANGED <<serving, phase, drain, channel, signalWaits, request>>,
         \/ \E o \in Mutations, s \in Services :
              ask' = [ask EXCEPT ![r] = [at |-> "gate", op |-> o, svc |-> s]]
         \/ /\ ask[r].at = "gate" /\ drain # "cleanup"
            /\ ask' = [ask EXCEPT ![r] = IF Allowed(ask[r].op)
                                         THEN [@ EXCEPT !.at = "load"] ELSE NoAsk]
         \/ ask' = [ask EXCEPT ![r] = NoAsk]
  PROVE  DropPart'
<1> USE NoneAssumption DEF DropInv, DropPart
<1>1. DaemonTypeOK' /\ AsksAreOffered'
  BY DEF DaemonTypeOK, AsksAreOffered, Mutations, NoAsk
<1>2. \A c \in Clients : ask'[c].at = "load" =>
        \/ ask'[c] = ask[c]
        \/ Allowed(ask'[c].op) /\ drain # "cleanup"
  BY DEF DaemonTypeOK, NoAsk, Mutations
<1>3. PhasesAgree'
  BY <1>2 DEF PhasesAgree, Admitted, Allowed
<1>4. FailedAdmitsStops'
  BY <1>2 DEF FailedAdmitsStops, Allowed
<1>5. OpsMatch'
  BY DEF OpsMatch
<1>6. QED
  BY <1>1, <1>3, <1>4, <1>5

LEMMA ClientKeepsDropPart ==
  ASSUME DropInv, NEW r \in Clients,
         \/ \E o \in Mutations, s \in Services : Ask(r, o, s)
         \/ ClientStep(r)
         \/ Disconnect(r)
  PROVE  DropPart'
<1> USE CoordinatorAssumption DEF Clients
<1>1. CASE \E o \in Mutations, s \in Services : Ask(r, o, s)
  BY <1>1, AskingKeepsDropPart DEF Ask, vars, reqVars, callVars
<1>2. CASE Admit(r) \/ NotRegistered(r)
  BY <1>2, AskingKeepsDropPart DEF Admit, NotRegistered, vars, reqVars, callVars
<1>3. CASE Disconnect(r)
  BY <1>3, AskingKeepsDropPart, DroppedKeepsDropPart
      DEF Disconnect, vars, reqVars, callVars
<1>4. CASE Perform(r)
  <2>1. /\ ask[r].at = "load" /\ ask' = [ask EXCEPT ![r] = NoAsk]
        /\ UNCHANGED <<serving, phase, channel, signalWaits, request, drain>>
        /\ Call(r, ask[r].op, ask[r].svc)
        /\ ask[r].op \in Ops /\ ask[r].svc \in Services
    BY <1>4 DEF Perform, DropInv, DropPart, DaemonTypeOK, Ops
  <2>2. /\ \A q \in Reqs : q # r => Rests(q)
        /\ op'[r] = ask[r].op /\ OpsMatch'
    BY <2>1, CallEffect DEF DropInv, DroppedInv, DropPart, CInv
  <2>3. \A q \in Reqs : q # r /\ pc[q] = "idle" => pc'[q] = "idle"
    BY <2>2 DEF Rests
  <2>4. DaemonTypeOK' /\ AsksAreOffered'
    BY <2>1, NoneAssumption DEF DropInv, DropPart, DaemonTypeOK, AsksAreOffered, NoAsk
  <2>5. \A c \in Clients : ask'[c].at = "load" => ask'[c] = ask[c]
    BY <2>1 DEF DropInv, DropPart, DaemonTypeOK, NoAsk
  <2>6. Admitted(r) /\ op'[Coordinator] = op[Coordinator]
    BY <2>1, <2>2 DEF Admitted, Rests
  <2>7. PhasesAgree'
    BY <2>1, <2>2, <2>3, <2>5, <2>6 DEF DropInv, DropPart, PhasesAgree, Admitted, Rests
  <2>8. FailedAdmitsStops'
    BY <2>1, <2>2, <2>3, <2>5 DEF DropInv, DropPart, FailedAdmitsStops, Rests
  <2>9. QED
    BY <2>2, <2>4, <2>7, <2>8 DEF DropPart
<1>5. QED
  BY <1>1, <1>2, <1>3, <1>4 DEF ClientStep

LEMMA CoordinatorKeepsDropPart ==
  ASSUME DropInv, CoordinatorStep \/ RequestShutdown \/ Signal
  PROVE  DropPart'
<1> USE CoordinatorAssumption DEF Clients
<1>1. ASSUME NEW o \in {"reconcile", "shutdown"},
             Call(Coordinator, o, svc[Coordinator])
      PROVE  /\ OpsMatch' /\ op'[Coordinator] = o
             /\ \A q \in Clients : pc[q] = "idle" => pc'[q] = "idle"
             /\ \A q \in Clients : op'[q] = op[q]
  <2>1. o \in Ops /\ svc[Coordinator] \in Services
    BY DEF Ops, DropInv, DroppedInv, CInv, TypeOK
  <2>2. QED
    BY <1>1, <2>1, CallEffect DEF DropInv, DroppedInv, DropPart, CInv, Rests
<1>2. CASE Boot
  <2>1. DaemonTypeOK' /\ AsksAreOffered'
    BY <1>2 DEF Boot, DropInv, DropPart, DaemonTypeOK, AsksAreOffered
  <2>2. PhasesAgree' /\ FailedAdmitsStops'
    BY <1>1, <1>2 DEF Boot, DropInv, DropPart, PhasesAgree, FailedAdmitsStops
  <2>3. QED
    BY <1>1, <1>2, <2>1, <2>2 DEF Boot, DropPart
<1>3. CASE CleanUp
  <2>1. DaemonTypeOK' /\ AsksAreOffered'
    BY <1>3 DEF CleanUp, DropInv, DropPart, DaemonTypeOK, AsksAreOffered
  <2>2. PhasesAgree' /\ FailedAdmitsStops'
    BY <1>1, <1>3 DEF CleanUp, DropInv, DropPart, PhasesAgree, FailedAdmitsStops, Admitted
  <2>3. QED
    BY <1>1, <1>3, <2>1, <2>2 DEF CleanUp, DropPart
<1>4. CASE Serve \/ Receive \/ Drained \/ DrainFails \/ RequestShutdown \/ Signal
  <2>1. UNCHANGED <<pc, op, ask>>
    BY <1>4 DEF Serve, Receive, Drained, DrainFails, RequestShutdown, Signal, vars,
        reqVars, callVars
  <2>2. DaemonTypeOK'
    BY <1>4, <2>1 DEF Serve, Receive, Drained, DrainFails, RequestShutdown, Signal,
        DropInv, DropPart, DaemonTypeOK, Requests
  <2>3. OpsMatch' /\ AsksAreOffered'
    BY <2>1 DEF DropInv, DropPart, OpsMatch, AsksAreOffered
  <2>4. PhasesAgree'
    BY <1>4, <2>1 DEF Serve, Receive, Drained, DrainFails, CleanedUp, RequestShutdown,
        Signal, DropInv, DropPart, PhasesAgree, Admitted
  <2>5. FailedAdmitsStops'
    BY <1>4, <2>1 DEF Serve, Receive, Drained, DrainFails, CleanedUp, RequestShutdown,
        Signal, DropInv, DropPart, PhasesAgree, FailedAdmitsStops, Admitted
  <2>6. QED
    BY <2>2, <2>3, <2>4, <2>5 DEF DropPart
<1>5. QED
  BY <1>2, <1>3, <1>4 DEF CoordinatorStep

LEMMA EndKeepsDropPart ==
  ASSUME DropInv, End
  PROVE  DropPart'
<1> USE CoordinatorAssumption DEF Clients
<1>1. /\ pc' = [r \in Reqs |-> "idle"] /\ op' = [r \in Reqs |-> "start"]
      /\ serving' = "starting" /\ phase' = "running"
      /\ ask' = [r \in Clients |-> NoAsk]
      /\ channel' = "none" /\ signalWaits' = FALSE
      /\ request' = "none" /\ drain' = "none"
  BY DEF End, Crash
<1>2. OpsMatch' /\ PhasesAgree' /\ FailedAdmitsStops'
  BY <1>1 DEF OpsMatch, PhasesAgree, FailedAdmitsStops, LaunchPCs
<1>3. DaemonTypeOK' /\ AsksAreOffered'
  BY <1>1, NoneAssumption DEF DaemonTypeOK, AsksAreOffered, NoAsk, Requests
<1>4. QED
  BY <1>2, <1>3 DEF DropPart

LEMMA DisconnectNextKeeps ==
  ASSUME DropInv, [DisconnectNext]_disconnectVars
  PROVE  DropInv'
<1>1. DroppedInv'
  BY DisconnectStepsAreManagerSteps, CancelNextKeeps DEF DropInv, DropPart, DroppedInv
<1>2. DropPart'
  <2>1. CASE BootFails \/ Exit \/ Killed
    BY <2>1, EndKeepsDropPart DEF BootFails, Exit, Killed
  <2>2. CASE NextDaemon
    BY <2>2, DroppedKeepsDropPart DEF NextDaemon
  <2>3. CASE UNCHANGED disconnectVars
    <3>1. UNCHANGED <<pc, op, daemonVars>>
      BY <2>3 DEF disconnectVars, allVars, vars, reqVars, callVars
    <3>2. QED
      BY <3>1, NoCallKeepsDropPart DEF DropInv, DropPart, OpsMatch
  <2>4. QED
    BY <2>1, <2>2, <2>3, ManagerStepKeepsDropPart, ClientKeepsDropPart,
        CoordinatorKeepsDropPart, DroppedKeepsDropPart
        DEF DisconnectNext, DaemonNext
<1>3. QED
  BY <1>1, <1>2 DEF DropInv

(* The daemon's invariant when clients may disconnect at any moment.       *)
THEOREM DisconnectInvariantHolds == DisconnectSpec => []DropInv
<1>1. DaemonInit /\ LateInit => DropInv
  <2> SUFFICES ASSUME DaemonInit, LateInit PROVE DropInv
    OBVIOUS
  <2>1. DInv
    BY DaemonInitInv
  <2>2. PhasesAgree
    BY CoordinatorAssumption DEF DaemonInit, Init, PhasesAgree
  <2>3. DroppedInv
    BY DroppedInit DEF DaemonInit
  <2>4. QED
    BY <2>1, <2>2, <2>3 DEF DInv, DropInv, DropPart
<1>2. QED
  BY <1>1, DisconnectNextKeeps, PTL DEF DisconnectSpec

(* Such a daemon drops the process manager's futures only as CancelSpec    *)
(* allows, so what is proved of that holds of the daemon's.                *)
THEOREM DisconnectsDropFutures == DisconnectSpec => CancelSpec
<1>1. DaemonInit => Init
  BY DEF DaemonInit
<1>2. DropInv /\ [DisconnectNext]_disconnectVars => [CancelNext]_cancelVars
  BY DisconnectStepsAreManagerSteps DEF DropInv, DropPart, DroppedInv
<1>3. QED
  BY <1>1, <1>2, DisconnectInvariantHolds, PTL DEF DisconnectSpec, CancelSpec

(* A client that goes away gives its permit back and starts nothing: no    *)
(* launch is under way after the write permit even then.                   *)
THEOREM NoLaunchAfterDrainDespiteDisconnects ==
  DisconnectSpec => []DrainEndsLaunches
<1>1. ASSUME DropInv
      PROVE  DrainEndsLaunches
  <2>1. phase = "failed" \/ drain \in {"cleanup", "done"} =>
          \A r \in Clients : pc[r] # "idle" => op[r] = "stop"
    BY <1>1 DEF DropInv, DropPart, PhasesAgree, FailedAdmitsStops, Admitted
  <2>2. phase = "failed" \/ drain \in {"cleanup", "done"} =>
          (pc[Coordinator] # "idle" => op[Coordinator] = "shutdown")
    BY <1>1 DEF DropInv, DropPart, PhasesAgree
  <2>3. QED
    BY <2>1, <2>2 DEF DrainEndsLaunches, Clients
<1>2. QED
  BY <1>1, DisconnectInvariantHolds, PTL

=============================================================================
