---------------------------- MODULE ModRoundsProofs ----------------------------
(***************************************************************************)
(* Proofs about the rounds of the Claude pane: a press that awaits the     *)
(* repositories' status is answered with a status read after its call,     *)
(* for every number of presses, views, changes of the world and failures.  *)
(*                                                                         *)
(* The argument: a call that starts a round finds it still to read; a call *)
(* during a round sets isGitQueued, which only the end of a turn clears,   *)
(* and that end begins another turn; so what covers a call is lost only to *)
(* a read that was made after it (GitCovered), or to a read that throws.   *)
(***************************************************************************)
EXTENDS ModRounds, TLAPS

\* What a press remembers and what a round has read are of the past.
OfThePast ==
    /\ \A p \in Presses : press[p].since <= world
    /\ gitRun # None => gitRun.seen <= world

IInv == TypeOK /\ OfThePast /\ GitCovered

-----------------------------------------------------------------------------
(* Types *)

LEMMA TypeInit == Init => TypeOK
  <1> SUFFICES ASSUME Init PROVE TypeOK
    OBVIOUS
  <1>1. 0 \in Version /\ 0 \in 0 .. MaxFails
    BY RoundsAssumption DEF Version
  <1>2. Idle \in Press
    BY <1>1 DEF Idle, Press
  <1>3. press \in [Presses -> Press]
    BY <1>2 DEF Init
  <1>4. shownView \in [Views -> Version]
    BY <1>1 DEF Init
  <1> QED
    BY <1>1, <1>3, <1>4 DEF Init, TypeOK

(* What a press or a timer calls keeps the rounds' types. *)
LEMMA CallGitTyped ==
  ASSUME TypeOK, CallGit
  PROVE  gitRun' \in GitRun \cup {None} /\ isGitQueued' \in BOOLEAN
  <1>1. NewGitRun \in GitRun
    BY RoundsAssumption DEF NewGitRun, GitRun, Version
  <1> QED
    BY <1>1 DEF TypeOK, CallGit

LEMMA CallExtrasTyped ==
  ASSUME TypeOK, NEW force \in BOOLEAN, CallExtras(force)
  PROVE  extrasRun' \in ExtrasRun \cup {None}
  <1>1. NewExtrasRun(force) \in ExtrasRun
    BY RoundsAssumption DEF NewExtrasRun, ExtrasRun, Version
  <1> QED
    BY <1>1 DEF TypeOK, CallExtras

LEMMA IdleTyped == Idle \in Press
  BY RoundsAssumption DEF Idle, Press, Version

LEMMA ExtrasEndTyped ==
  ASSUME TypeOK, ExtrasEnd
  PROVE  /\ extrasRun' \in ExtrasRun \cup {None}
         /\ daemonRun' \in DaemonRun \cup {None}
         /\ press' \in [Presses -> Press]
  <1>1. extrasRun' = None /\ daemonRun' \in {daemonRun, None}
    BY DEF ExtrasEnd
  <1>2. \A p \in Presses : Woken(p) \in Press
    BY IdleTyped DEF Woken, TypeOK, Press
  <1>3. press' = [p \in Presses |-> Woken(p)]
    BY DEF ExtrasEnd
  <1>4. press' \in [Presses -> Press]
    BY <1>2, <1>3
  <1> QED
    BY <1>1, <1>4 DEF TypeOK

LEMMA AnsweredTyped ==
  ASSUME TypeOK, NEW kind, Answered(kind)
  PROVE  press' \in [Presses -> Press]
  BY IdleTyped DEF TypeOK, Answered

LEMMA TypeStep == TypeOK /\ [Next]_vars => TypeOK'
  <1> SUFFICES ASSUME TypeOK, [Next]_vars PROVE TypeOK'
    OBVIOUS
  <1> USE RoundsAssumption DEF Version, git, services, extras
  <1>1. CASE WorldChanges
    BY <1>1 DEF WorldChanges, TypeOK
  <1>2. CASE GitTick
    BY <1>2, CallGitTyped DEF GitTick, TypeOK
  <1>3. CASE GitRead
    BY <1>3 DEF GitRead, TypeOK, GitRun
  <1>4. CASE GitShow
    <2>1. gitRun' \in GitRun \cup {None} /\ shownGit' \in Version /\ isGitQueued' = FALSE
      BY <1>4 DEF GitShow, TypeOK, GitRun, NewGitRun
    <2>2. press' \in [Presses -> Press]
      BY <1>4, AnsweredTyped DEF GitShow, TypeOK
    <2> QED
      BY <1>4, <2>1, <2>2 DEF GitShow, TypeOK
  <1>5. CASE GitThrow
    BY <1>5, AnsweredTyped DEF GitThrow, TypeOK
  <1>6. CASE DaemonTick
    BY <1>6 DEF DaemonTick, CallDaemon, TypeOK, DaemonRun
  <1>7. CASE DaemonRead
    BY <1>7 DEF DaemonRead, DaemonIsAt, TypeOK, DaemonRun
  <1>8. CASE DaemonShow
    BY <1>8 DEF DaemonShow, DaemonIsAt, TypeOK, DaemonRun
  <1>9. CASE DaemonExtras
    <2>1. extrasRun' \in ExtrasRun \cup {None}
      BY <1>9, CallExtrasTyped DEF DaemonExtras
    <2>2. daemonRun' \in DaemonRun
      BY <1>9 DEF DaemonExtras, DaemonIsAt, TypeOK, DaemonRun
    <2> QED
      BY <1>9, <2>1, <2>2 DEF DaemonExtras, TypeOK
  <1>10. CASE ExtrasLook
    <2>1. isDue' \in SUBSET Views
      BY <1>10 DEF ExtrasLook, TypeOK
    <2>2. /\ extrasRun' \in ExtrasRun \cup {None}
          /\ daemonRun' \in DaemonRun \cup {None}
          /\ press' \in [Presses -> Press]
      <3>1. CASE Due
        BY ZenonT(60), <1>10, <3>1 DEF ExtrasLook, TypeOK, ExtrasRun
      <3>2. CASE ~Due
        BY <1>10, <3>2, ExtrasEndTyped DEF ExtrasLook
      <3> QED
        BY <3>1, <3>2
    <2> QED
      BY <1>10, <2>1, <2>2 DEF ExtrasLook, TypeOK
  <1>11. CASE ExtrasRead
    BY <1>11 DEF ExtrasRead, TypeOK, ExtrasRun
  <1>12. CASE ExtrasReadFails
    <2>1. fails' \in 0 .. MaxFails
      BY <1>12 DEF ExtrasReadFails, TypeOK
    <2>2. ExtrasEnd
      BY <1>12 DEF ExtrasReadFails
    <2> QED
      BY <1>12, <2>1, <2>2, ExtrasEndTyped DEF ExtrasReadFails, TypeOK
  <1>13. CASE ExtrasShow
    <2>1. shownView' \in [Views -> Version]
      BY <1>13 DEF ExtrasShow, TypeOK, ExtrasRun
    <2> QED
      BY <1>13, <2>1, ExtrasEndTyped DEF ExtrasShow, TypeOK
  <1>14. ASSUME NEW v \in Views, Ages(v) PROVE TypeOK'
    BY <1>14 DEF Ages, TypeOK
  <1>15. ASSUME NEW p \in Presses, PressGit(p) PROVE TypeOK'
    <2>1. press' \in [Presses -> Press]
      BY ZenonT(60), <1>15 DEF PressGit, TypeOK, Press
    <2> QED
      BY <1>15, <2>1, CallGitTyped DEF PressGit, TypeOK
  <1>16. ASSUME NEW p \in Presses, PressService(p) PROVE TypeOK'
    <2>1. press' \in [Presses -> Press]
      BY ZenonT(60), <1>16 DEF PressService, TypeOK, Press
    <2> QED
      BY <1>16, <2>1 DEF PressService, CallDaemon, TypeOK, DaemonRun
  <1>17. ASSUME NEW p \in Presses, ReloadResumes(p) PROVE TypeOK'
    <2>1. press' \in [Presses -> Press]
      BY <1>17 DEF ReloadResumes, TypeOK, Press
    <2> QED
      BY <1>17, <2>1, CallExtrasTyped DEF ReloadResumes, TypeOK
  <1>18. ASSUME NEW p \in Presses, NEW v \in Views, PressReload(p, v) PROVE TypeOK'
    <2>1. press' \in [Presses -> Press]
      BY <1>18 DEF PressReload, TypeOK, Press
    <2> QED
      BY <1>18, <2>1, CallExtrasTyped DEF PressReload, TypeOK
  <1>19. CASE DaemonDown
    BY <1>19 DEF DaemonDown, DaemonIsAt, TypeOK, DaemonRun
  <1>20. CASE DaemonThrows
    <2>1. press' \in [Presses -> Press]
      BY <1>20, AnsweredTyped DEF DaemonThrows
    <2> QED
      BY <1>20, <2>1 DEF DaemonThrows, TypeOK
  <1>21. CASE DaemonHangs
    BY <1>21 DEF DaemonHangs, DaemonIsAt, TypeOK, DaemonRun
  <1>22. CASE ExtrasHangs
    <2>1. extrasRun' \in ExtrasRun
      BY <1>22 DEF ExtrasHangs, TypeOK, ExtrasRun
    <2>2. shownView' \in [Views -> Version] /\ isDue' \in SUBSET Views
      BY <1>22 DEF ExtrasHangs, TypeOK
    <2> QED
      BY <1>22, <2>1, <2>2 DEF ExtrasHangs, TypeOK
  <1>23. CASE UNCHANGED vars
    BY <1>23 DEF vars, TypeOK
  <1> QED
    BY <1>1, <1>2, <1>3, <1>4, <1>5, <1>6, <1>7, <1>8, <1>9, <1>10, <1>11, <1>12,
       <1>13, <1>14, <1>15, <1>16, <1>17, <1>18, <1>19, <1>20, <1>21, <1>22, <1>23
    DEF Next, GitStep, DaemonStep, ExtrasStep

-----------------------------------------------------------------------------
(* What a step leaves of the presses, the round and the world *)

\* Nothing the waiting for a status depends on is disturbed: the world only
\* moves on, the git round stands, and no press comes to await a status.
Apart ==
    /\ world' \in {world, world + 1}
    /\ gitRun' = gitRun
    /\ isGitQueued' = isGitQueued
    /\ \A p \in Presses :
          /\ "git" \in {press[p].pc, press'[p].pc} => press'[p] = press[p]
          /\ press'[p].since \in {press[p].since, 0}

(* The rounds of the extras and the daemon are apart from git's. *)
LEMMA ExtrasEndApart ==
  ASSUME TypeOK, ExtrasEnd, world' = world, gitRun' = gitRun, isGitQueued' = isGitQueued
  PROVE  Apart
  <1> SUFFICES ASSUME NEW p \in Presses
               PROVE  /\ "git" \in {press[p].pc, press'[p].pc} => press'[p] = press[p]
                      /\ press'[p].since \in {press[p].since, 0}
    BY DEF Apart
  <1>1. press[p] \in Press
    BY DEF TypeOK
  <1>2. \/ press'[p] = press[p]
        \/ press'[p] = Idle
        \/ press'[p] = [press[p] EXCEPT !.pc = "resume"]
    BY DEF ExtrasEnd, Woken
  <1>3. press[p].pc = "git" => press'[p] = press[p]
    BY DEF ExtrasEnd, Woken
  <1> QED
    BY <1>1, <1>2, <1>3 DEF Press, Idle

\* The steps of the git round and of those who call it.
GitPart ==
    \/ GitTick \/ GitStep
    \/ \E p \in Presses : PressGit(p)

LEMMA OthersApart ==
  ASSUME TypeOK, [Next]_vars, ~GitPart
  PROVE  Apart
  <1> USE DEF git, services, extras
  <1>1. CASE WorldChanges
    BY <1>1 DEF WorldChanges, Apart
  <1>2. CASE \/ DaemonTick \/ DaemonRead \/ DaemonDown \/ DaemonShow
             \/ DaemonExtras \/ DaemonHangs \/ ExtrasHangs
    BY <1>2 DEF DaemonTick, DaemonRead, DaemonDown, DaemonShow, DaemonExtras,
                DaemonHangs, ExtrasHangs, Apart
  <1>3. CASE ExtrasLook
    <2>1. CASE Due
      BY <1>3, <2>1 DEF ExtrasLook, Apart
    <2>2. CASE ~Due
      BY <1>3, <2>2, ExtrasEndApart DEF ExtrasLook
    <2> QED
      BY <2>1, <2>2
  <1>4. CASE ExtrasRead
    BY <1>4 DEF ExtrasRead, Apart
  <1>5. CASE ExtrasReadFails
    BY <1>5, ExtrasEndApart DEF ExtrasReadFails
  <1>6. CASE ExtrasShow
    BY <1>6, ExtrasEndApart DEF ExtrasShow
  <1>7. ASSUME NEW v \in Views, Ages(v) PROVE Apart
    BY <1>7 DEF Ages, Apart
  <1>8. ASSUME NEW p \in Presses, PressService(p) PROVE Apart
    BY <1>8 DEF PressService, Apart, TypeOK, Press
  <1>9. ASSUME NEW p \in Presses, ReloadResumes(p) PROVE Apart
    BY <1>9 DEF ReloadResumes, Apart, TypeOK, Press
  <1>10. ASSUME NEW p \in Presses, NEW v \in Views, PressReload(p, v) PROVE Apart
    BY <1>10 DEF PressReload, Apart, TypeOK, Press
  <1>11. CASE DaemonThrows
    BY <1>11 DEF DaemonThrows, Answered, Idle, Apart
  <1>12. CASE UNCHANGED vars
    BY <1>12 DEF vars, Apart
  <1> QED
    BY <1>1, <1>2, <1>3, <1>4, <1>5, <1>6, <1>7, <1>8, <1>9, <1>10, <1>11, <1>12
    DEF Next, GitPart, DaemonStep, ExtrasStep

LEMMA InitInv == Init => IInv
  <1> SUFFICES ASSUME Init PROVE IInv
    OBVIOUS
  <1>1. \A p \in Presses : press[p].since = 0 /\ press[p].pc = "idle"
    BY DEF Init, Idle
  <1>2. OfThePast /\ GitCovered
    BY <1>1 DEF Init, OfThePast, GitCovered
  <1> QED
    BY <1>2, TypeInit DEF IInv

LEMMA CoveredStep == IInv /\ [Next]_vars => OfThePast' /\ GitCovered'
  <1> SUFFICES ASSUME TypeOK, OfThePast, GitCovered, [Next]_vars
               PROVE  OfThePast' /\ GitCovered'
    BY DEF IInv
  <1>0. TypeOK'
    BY TypeStep
  <1>1. world \in Nat /\ world' \in Nat
    BY <1>0, RoundsAssumption DEF TypeOK, Version
  <1>2. gitRun # None => (gitRun \in GitRun /\ gitRun.seen \in Nat)
    BY RoundsAssumption DEF TypeOK, GitRun, Version
  <1>3. \A p \in Presses : press[p] \in Press /\ press[p].since \in Nat
    BY RoundsAssumption DEF TypeOK, Press, Version
  <1>4. NewGitRun \in GitRun /\ NewGitRun # None
    BY RoundsAssumption, NoneAssumption DEF NewGitRun, GitRun, Version
  <1>5. CASE ~GitPart
    <2>1. Apart
      BY <1>5, OthersApart
    <2> QED
      BY <2>1, <1>1, <1>2, <1>3 DEF Apart, OfThePast, GitCovered
  <1>6. CASE GitTick
    BY <1>6, <1>1, <1>2, <1>3, <1>4
    DEF GitTick, CallGit, NewGitRun, OfThePast, GitCovered
  <1>7. CASE GitRead
    BY <1>7, <1>1, <1>2, <1>3, NoneAssumption, <1>0
    DEF GitRead, TypeOK, GitRun, OfThePast, GitCovered, git, services, extras
  <1>8. CASE GitShow
    <2>1. CASE isGitQueued
      BY <1>8, <2>1, <1>1, <1>3, <1>4 DEF GitShow, NewGitRun, OfThePast, GitCovered
    <2>2. CASE ~isGitQueued
      BY <1>8, <2>2, <1>1, <1>3 DEF GitShow, Answered, Idle, OfThePast, GitCovered, Press
    <2> QED
      BY <2>1, <2>2
  <1>9. CASE GitThrow
    BY <1>9, <1>1, <1>3 DEF GitThrow, Answered, Idle, OfThePast, GitCovered, Press
  <1>10. ASSUME NEW p \in Presses, PressGit(p) PROVE OfThePast' /\ GitCovered'
    BY <1>10, <1>1, <1>2, <1>3, <1>4
    DEF PressGit, CallGit, NewGitRun, OfThePast, GitCovered, TypeOK, Press
  <1> QED
    BY <1>5, <1>6, <1>7, <1>8, <1>9, <1>10 DEF GitPart, GitStep

LEMMA AnsweredStep ==
  IInv /\ [Next]_vars =>
    \A p \in Presses :
      (press[p].pc = "git" /\ press'[p].pc # "git" /\ fails' = fails)
        => shownGit' >= press[p].since
  <1> SUFFICES ASSUME IInv, [Next]_vars, NEW p \in Presses,
                      press[p].pc = "git", press'[p].pc # "git", fails' = fails
               PROVE  shownGit' >= press[p].since
    OBVIOUS
  <1> USE DEF IInv
  <1>1. GitPart
    BY OthersApart DEF Apart
  <1>2. ~GitTick /\ ~GitRead
    BY DEF GitTick, GitRead
  <1>3. \A q \in Presses : ~PressGit(q)
    BY DEF PressGit, TypeOK
  <1>4. ~GitThrow
    BY DEF GitThrow, TypeOK
  <1>5. GitShow /\ ~isGitQueued
    BY <1>1, <1>2, <1>3, <1>4 DEF GitPart, GitStep, GitShow
  <1> QED
    BY <1>5 DEF GitShow, GitCovered

LEMMA InvHolds == Spec => []IInv
  <1>1. IInv /\ [Next]_vars => IInv'
    BY TypeStep, CoveredStep DEF IInv
  <1> QED
    BY <1>1, InitInv, PTL DEF Spec

-----------------------------------------------------------------------------
(* The theorems *)

\* Every variable of the rounds keeps its type.
THEOREM TypeCorrect == Spec => []TypeOK
  BY InvHolds, PTL DEF IInv

\* A call of refreshGit that waits is covered at every moment: isGitQueued is
\* never cleared by a round that read before the call.
THEOREM CallsAreCovered == Spec => []GitCovered
  BY InvHolds, PTL DEF IInv

\* A press that awaited the status is answered with one read after its call,
\* unless a read threw.
THEOREM CallsAreAnswered == Spec => GitAnswered
  <1>1. IInv /\ [Next]_vars =>
          [ \A p \in Presses :
              (press[p].pc = "git" /\ press'[p].pc # "git" /\ fails' = fails)
                => shownGit' >= press[p].since ]_vars
    BY AnsweredStep
  <1> QED
    BY <1>1, InvHolds, PTL DEF Spec, GitAnswered
=============================================================================
