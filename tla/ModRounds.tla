------------------------------ MODULE ModRounds ------------------------------
(***************************************************************************)
(* The rounds of reads that keep the Claude pane current (apps/claude-mod,  *)
(* register.tsx).  Timers and the person's presses ask for the same three   *)
(* rounds, each of which runs once at a time:                              *)
(*                                                                         *)
(*  - refreshGit reads the repositories' status; a call during a round is  *)
(*    answered by another turn of its loop;                                *)
(*  - refreshDaemon reads the services, then joins or starts the third; it  *)
(*    learns whether the daemon answers (reach), which decides what the      *)
(*    third may read, and it may throw at any await before that;             *)
(*  - refreshExtras reads the view in front, when what it shows is due or   *)
(*    the round is forced; reloadExtras waits for the round under way and   *)
(*    then forces one, or joins one that somebody else started.             *)
(*                                                                         *)
(* A request to the daemon has no timeout (call): a round whose request is  *)
(* never answered hangs, and every later call joins it.                     *)
(*                                                                         *)
(* What is read is abstracted to the version of the world it was read from. *)
(* JavaScript runs one continuation at a time: an action is the code        *)
(* between two awaits, and continuations that are ready run in any order.   *)
(***************************************************************************)
EXTENDS Naturals

CONSTANTS
    Presses,    \* presses of the person that may overlap
    Views,      \* views whose reads loadExtras makes
    DaemonViews, \* those of them that only the daemon can answer
    MaxWorld,   \* bound: changes of the world
    MaxFails,   \* bound: reads that fail or throw, and looks that find the daemon down
    None        \* no round

ASSUME RoundsAssumption ==
    /\ DaemonViews \subseteq Views
    /\ MaxWorld \in Nat
    /\ MaxFails \in Nat

VARIABLES
    world,        \* version of what there is to read
    gitRun,       \* the round of refreshGit: None or its progress
    isGitQueued,  \* a call of refreshGit came during the round
    daemonRun,    \* the round of refreshDaemon
    reach,        \* whether the daemon answered the last look ("unknown" is "down")
    extrasRun,    \* the round of refreshExtras
    tab,          \* the view in front
    isDue,        \* views whose last read has aged (readAt, SLOW_EVERY_MS)
    shownGit,     \* version of the status shown
    shownDaemon,  \* version of the services shown
    shownView,    \* version each view shows
    press,        \* each press: what it awaits; of a status, since which version
    fails         \* reads that failed or threw so far

vars == <<world, gitRun, isGitQueued, daemonRun, reach, extrasRun, tab, isDue,
          shownGit, shownDaemon, shownView, press, fails>>

git == <<gitRun, isGitQueued, shownGit>>
services == <<reach, shownDaemon>>
extras == <<extrasRun, tab, isDue, shownView>>

Version == 0 .. MaxWorld

GitRun == [pc : {"read", "show"}, seen : Version]
DaemonRun == [pc : {"read", "show", "extras", "joined", "hung"}, seen : Version]
ExtrasRun ==
    [pc : {"look", "hung"}, force : BOOLEAN, view : {None}, seen : Version]
        \cup [pc : {"read", "show"}, force : BOOLEAN, view : Views, seen : Version]
Press == [pc : {"idle", "git", "daemon", "await", "resume", "reload"},
          since : Version]

Idle == [pc |-> "idle", since |-> 0]

ASSUME NoneAssumption == None \notin Views \cup GitRun

TypeOK ==
    /\ world \in Version
    /\ gitRun \in GitRun \cup {None}
    /\ isGitQueued \in BOOLEAN
    /\ daemonRun \in DaemonRun \cup {None}
    /\ reach \in {"up", "down"}
    /\ extrasRun \in ExtrasRun \cup {None}
    /\ tab \in Views
    /\ isDue \in SUBSET Views
    /\ shownGit \in Version
    /\ shownDaemon \in Version
    /\ shownView \in [Views -> Version]
    /\ press \in [Presses -> Press]
    /\ fails \in 0 .. MaxFails

Init ==
    /\ world = 0
    /\ gitRun = None
    /\ isGitQueued = FALSE
    /\ daemonRun = None
    /\ reach = "down"
    /\ extrasRun = None
    /\ tab \in Views
    /\ isDue = Views
    /\ shownGit = 0
    /\ shownDaemon = 0
    /\ shownView = [v \in Views |-> 0]
    /\ press = [p \in Presses |-> Idle]
    /\ fails = 0

\* Files, services and other people's servers change by themselves.
WorldChanges ==
    /\ world < MaxWorld
    /\ world' = world + 1
    /\ UNCHANGED <<git, daemonRun, extras, services, press, fails>>

-----------------------------------------------------------------------------
(* refreshGit *)

NewGitRun == [pc |-> "read", seen |-> 0]

\* Mutation: a call during a round is answered by that round.
CallGitJoins ==
    IF gitRun # None
    THEN UNCHANGED <<gitRun, isGitQueued>>
    ELSE gitRun' = NewGitRun /\ isGitQueued' = FALSE

\* The call itself: it starts a round or has the one under way turn again.
CallGit ==
    IF gitRun # None
    THEN isGitQueued' = TRUE /\ UNCHANGED gitRun
    ELSE gitRun' = NewGitRun /\ isGitQueued' = FALSE

GitTick ==
    /\ CallGit
    /\ UNCHANGED <<world, daemonRun, extras, shownGit, services, press, fails>>

\* A press that has done its work (a commit, a file staged or saved) and
\* awaits the round.
PressGit(p) ==
    /\ press[p].pc = "idle"
    /\ CallGit
    /\ press' = [press EXCEPT ![p].pc = "git", ![p].since = world]
    /\ UNCHANGED <<world, daemonRun, extras, shownGit, services, fails>>

\* loadGit reads the status of every repository.
GitRead ==
    /\ gitRun # None /\ gitRun.pc = "read"
    /\ gitRun' = [pc |-> "show", seen |-> world]
    /\ UNCHANGED <<world, isGitQueued, daemonRun, extras, shownGit,
                   services, press, fails>>

\* Presses that await a round of this kind are answered when it ends.
Answered(kind) ==
    press' = [p \in Presses |->
                IF press[p].pc = kind THEN Idle ELSE press[p]]

\* Mutation: a call during the round is taken as answered by it.
GitLoopsOnce ==
    /\ gitRun # None /\ gitRun.pc = "show"
    /\ shownGit' = gitRun.seen
    /\ gitRun' = None
    /\ isGitQueued' = FALSE
    /\ Answered("git")
    /\ UNCHANGED <<world, daemonRun, extras, services, fails>>

\* loadGit writes what it read; the loop turns again for a call made meanwhile.
GitShow ==
    /\ gitRun # None /\ gitRun.pc = "show"
    /\ shownGit' = gitRun.seen
    /\ isGitQueued' = FALSE
    /\ IF isGitQueued
       THEN gitRun' = NewGitRun /\ UNCHANGED press
       ELSE gitRun' = None /\ Answered("git")
    /\ UNCHANGED <<world, daemonRun, extras, services, fails>>

\* loadGit throws: the loop is left, whoever is queued.
GitThrow ==
    /\ gitRun # None /\ fails < MaxFails
    /\ fails' = fails + 1
    /\ gitRun' = None
    /\ Answered("git")
    /\ UNCHANGED <<world, isGitQueued, daemonRun, extras, shownGit, services>>

GitStep == GitRead \/ GitShow \/ GitThrow

-----------------------------------------------------------------------------
(* refreshExtras and reloadExtras *)

NewExtrasRun(force) ==
    [pc |-> "look", force |-> force, view |-> None, seen |-> 0]

\* refreshExtras: one round at a time; a call during one joins it.
CallExtras(force) ==
    extrasRun' = IF extrasRun # None THEN extrasRun ELSE NewExtrasRun(force)

\* A press that brings a view to the front: setTab, setSection, openRepo, and
\* the presses that acted on what a view shows.  reloadExtras, to its await.
PressReload(p, v) ==
    /\ press[p].pc = "idle"
    /\ tab' = v
    /\ press' = [press EXCEPT ![p].pc = IF extrasRun # None THEN "await" ELSE "reload"]
    /\ CallExtras(TRUE)
    /\ UNCHANGED <<world, git, daemonRun, isDue, services, shownView, fails>>

\* The round awaited is over: reloadExtras calls refreshExtras.
ReloadResumes(p) ==
    /\ press[p].pc = "resume"
    /\ press' = [press EXCEPT ![p].pc = "reload"]
    /\ CallExtras(TRUE)
    /\ UNCHANGED <<world, git, daemonRun, tab, isDue, services, shownView, fails>>

\* The daemon's round awaits the round of the extras.
IsJoined == daemonRun # None /\ daemonRun.pc = "joined"

\* Whoever joined the round is answered, whoever awaits it resumes.
Woken(p) ==
    CASE press[p].pc = "reload" -> Idle
      [] press[p].pc = "await" -> [press[p] EXCEPT !.pc = "resume"]
      [] press[p].pc = "daemon" /\ IsJoined -> Idle
      [] OTHER -> press[p]

\* A round ends, and with it the daemon's round that joined it.
ExtrasEnd ==
    /\ extrasRun' = None
    /\ press' = [p \in Presses |-> Woken(p)]
    /\ daemonRun' = IF IsJoined THEN None ELSE daemonRun

\* The view in front can be read, and its last read has aged or is not enough.
Due == /\ tab \in DaemonViews => reach = "up"
       /\ tab \in isDue \/ extrasRun.force

\* Mutation: only a forced round reads, the timer's waits for one.
ExtrasLookForced ==
    /\ extrasRun # None /\ extrasRun.pc = "look"
    /\ extrasRun.force
    /\ isDue' = isDue \ {tab}
    /\ extrasRun' = [extrasRun EXCEPT !.pc = "read", !.view = tab]
    /\ UNCHANGED <<world, git, daemonRun, tab, services, shownView, press, fails>>

\* loadExtras looks which view is in front; a due read is marked made.
ExtrasLook ==
    /\ extrasRun # None /\ extrasRun.pc = "look"
    /\ IF Due
       THEN /\ isDue' = isDue \ {tab}
            /\ extrasRun' = [extrasRun EXCEPT !.pc = "read", !.view = tab]
            /\ UNCHANGED <<daemonRun, press>>
       ELSE ExtrasEnd /\ UNCHANGED isDue
    /\ UNCHANGED <<world, git, tab, services, shownView, fails>>

ExtrasRead ==
    /\ extrasRun # None /\ extrasRun.pc = "read"
    /\ extrasRun' = [extrasRun EXCEPT !.pc = "show", !.seen = world]
    /\ UNCHANGED <<world, git, daemonRun, tab, isDue, services, shownView,
                   press, fails>>

\* The read is refused or throws: what was shown stands, the mark too.
ExtrasReadFails ==
    /\ extrasRun # None /\ extrasRun.pc = "read" /\ fails < MaxFails
    /\ fails' = fails + 1
    /\ ExtrasEnd
    /\ UNCHANGED <<world, git, tab, isDue, services, shownView>>

ExtrasShow ==
    /\ extrasRun # None /\ extrasRun.pc = "show"
    /\ shownView' = [shownView EXCEPT ![extrasRun.view] = extrasRun.seen]
    /\ ExtrasEnd
    /\ UNCHANGED <<world, git, tab, isDue, services, fails>>

\* With the daemon up every view asks it something (a repository's view its
\* snapshots), before or after it shows what is in front: the answer never comes.
ExtrasHangs ==
    /\ extrasRun # None /\ extrasRun.pc = "look" /\ reach = "up"
    /\ extrasRun' = [extrasRun EXCEPT !.pc = "hung", !.force = FALSE]
    /\ shownView' \in {shownView, [shownView EXCEPT ![tab] = world]}
    /\ isDue' \in {isDue, isDue \ {tab}}
    /\ UNCHANGED <<world, git, daemonRun, tab, services, press, fails>>

\* A minute passes over the last read of a view.
Ages(v) ==
    /\ v \notin isDue
    /\ isDue' = isDue \cup {v}
    /\ UNCHANGED <<world, git, daemonRun, extrasRun, tab, services,
                   shownView, press, fails>>

ExtrasStep == ExtrasLook \/ ExtrasRead \/ ExtrasReadFails \/ ExtrasShow

-----------------------------------------------------------------------------
(* refreshDaemon *)

CallDaemon ==
    daemonRun' = IF daemonRun # None THEN daemonRun
                 ELSE [pc |-> "read", seen |-> 0]

DaemonTick ==
    /\ CallDaemon
    /\ UNCHANGED <<world, git, extras, services, press, fails>>

\* A press that started, stopped or restarted a service, and awaits the round.
PressService(p) ==
    /\ press[p].pc = "idle"
    /\ CallDaemon
    /\ press' = [press EXCEPT ![p].pc = "daemon"]
    /\ UNCHANGED <<world, git, extras, services, fails>>

DaemonIsAt(pc) == daemonRun # None /\ daemonRun.pc = pc

\* loadDaemon's services are read.
DaemonRead ==
    /\ DaemonIsAt("read")
    /\ daemonRun' = [pc |-> "show", seen |-> world]
    /\ UNCHANGED <<world, git, extras, services, press, fails>>

\* They cannot be read: loadDaemon returns, loadLimits too, and the services
\* shown stand; the round goes on to the extras.
DaemonDown ==
    /\ DaemonIsAt("read") /\ fails < MaxFails
    /\ fails' = fails + 1
    /\ reach' = "down"
    /\ daemonRun' = [pc |-> "extras", seen |-> 0]
    /\ UNCHANGED <<world, git, extras, shownDaemon, press>>

\* loadDaemon shows what it read; what is left of it, and loadLimits, may
\* still wait for the daemon.
DaemonShow ==
    /\ DaemonIsAt("show")
    /\ reach' = "up"
    /\ shownDaemon' = daemonRun.seen
    /\ daemonRun' = [pc |-> "extras", seen |-> 0]
    /\ UNCHANGED <<world, git, extras, press, fails>>

\* The call of refreshExtras, whose round is awaited.
DaemonExtras ==
    /\ DaemonIsAt("extras")
    /\ CallExtras(FALSE)
    /\ daemonRun' = [daemonRun EXCEPT !.pc = "joined"]
    /\ UNCHANGED <<world, git, tab, isDue, services, shownView, press, fails>>

\* Mutation: the round that threw is never cleared.
DaemonThrowsForGood ==
    /\ \E pc \in {"read", "show", "extras"} : DaemonIsAt(pc)
    /\ fails < MaxFails
    /\ fails' = fails + 1
    /\ daemonRun' = [daemonRun EXCEPT !.pc = "thrown"]
    /\ UNCHANGED <<world, git, extras, services, press>>

\* readTheme, loadDaemon or loadLimits throws, reach written or not: the round
\* ends without the extras, and whoever joined it is answered.
DaemonThrows ==
    /\ \E pc \in {"read", "show", "extras"} : DaemonIsAt(pc)
    /\ fails < MaxFails
    /\ fails' = fails + 1
    /\ daemonRun' = None
    /\ reach' \in IF DaemonIsAt("show") THEN {reach, "up"} ELSE {reach}
    /\ Answered("daemon")
    /\ UNCHANGED <<world, git, extras, shownDaemon>>

\* The answer about the services never comes, or with the daemon up the one
\* about the log on screen or the limits.
DaemonHangs ==
    /\ DaemonIsAt("read") \/ (DaemonIsAt("extras") /\ reach = "up")
    /\ daemonRun' = [daemonRun EXCEPT !.pc = "hung"]
    /\ UNCHANGED <<world, git, extras, services, press, fails>>

DaemonStep == DaemonRead \/ DaemonDown \/ DaemonShow \/ DaemonExtras \/ DaemonThrows

-----------------------------------------------------------------------------
Next ==
    \/ WorldChanges
    \/ GitTick \/ GitStep
    \/ DaemonTick \/ DaemonStep \/ DaemonHangs
    \/ ExtrasStep \/ ExtrasHangs \/ \E v \in Views : Ages(v)
    \/ \E p \in Presses :
          \/ PressGit(p) \/ PressService(p) \/ ReloadResumes(p)
          \/ \E v \in Views : PressReload(p, v)

Spec == Init /\ [][Next]_vars

\* A continuation that is ready is run, and what a round awaits ends: a process
\* has its timeout (15 s for git, 20 s for gh).  A request to the daemon has
\* none: that its answer comes is not assumed, DaemonHangs and ExtrasHangs are
\* the cases where it does not.
RoundsEnd ==
    /\ WF_vars(GitStep) /\ WF_vars(ExtrasStep) /\ WF_vars(DaemonStep)
    /\ \A p \in Presses : WF_vars(ReloadResumes(p))

\* While the pane is open its timers tick, and minutes pass.
TimersTick ==
    WF_vars(GitTick) /\ WF_vars(DaemonTick) /\ \A v \in Views : WF_vars(Ages(v))

FairSpec == Spec /\ RoundsEnd /\ TimersTick

-----------------------------------------------------------------------------
\* "One status read at a time; a call during a read is answered by the next":
\* when a press's call of refreshGit resolves, and no read threw, the status
\* shown was read after the call.
GitAnswered ==
    [][ \A p \in Presses :
          (press[p].pc = "git" /\ press'[p].pc # "git" /\ fails' = fails)
            => shownGit' >= press[p].since ]_vars

\* A call of refreshGit that waits is always covered: its round has still to
\* read, or will turn again, or has read after the call.
GitCovered ==
    \A p \in Presses :
        press[p].pc = "git" =>
            /\ gitRun # None
            /\ \/ isGitQueued
               \/ gitRun.pc = "read"
               \/ gitRun.pc = "show" /\ gitRun.seen >= press[p].since

\* A round waits for an answer of the daemon that never comes.
ExtrasStuck == extrasRun # None /\ extrasRun.pc = "hung"
DaemonStuck == DaemonIsAt("hung") \/ (IsJoined /\ ExtrasStuck)

\* A press that awaits the services or the view in front is answered: the
\* rounds join and await one another without a circle, and a round that throws
\* or finds the daemon down ends like any other.  Only a request the daemon
\* never answers keeps those who joined its round waiting.
PressesEnd ==
    \A p \in Presses :
        /\ press[p].pc = "daemon" ~> (press[p].pc = "idle" \/ DaemonStuck)
        /\ press[p].pc \in {"await", "resume", "reload"}
              ~> (press[p].pc = "idle" \/ ExtrasStuck)

\* While the pane is open, what changes comes to be shown: the status whatever
\* the daemon does; the services, and the view in front unless another is
\* brought there, although looks find the daemon down or throw first, unless
\* the daemon leaves a request without an answer.
CatchesUp ==
    /\ \A k \in 1 .. MaxWorld :
          /\ world = k ~> shownGit >= k
          /\ world = k ~> (shownDaemon >= k \/ DaemonStuck)
    /\ \A k \in 1 .. MaxWorld, v \in Views :
          (world = k /\ tab = v)
              ~> (shownView[v] >= k \/ tab # v \/ ExtrasStuck \/ DaemonStuck)
=============================================================================
