# A verification of the NoMoreIDE runtime

NoMoreIDE is a local control plane: one daemon per machine starts, stops and
watches development services, and gives agents, a dashboard, a command line and
a phone one way to reach them. This directory holds TLA+ models of the parts of
it that coordinate, the TLC runs that check them on small instances, and the
theorems about them that TLAPS has checked.

## The system

| Component | State it keeps | Operations | Talks to |
|---|---|---|---|
| process manager (`nomoreide-core/src/process_manager.rs`) | the table of managed processes, one operation lock per service, a launch gate, the flag that recovery has run, one supervisor task per child | start, stop, restart, shutdown_all, reconcile_runtime, inspector toggle | the journal, the operating system, port utilities, compose, the inspector |
| ownership journal (`runtime_registry.rs`) | one file: service name to generation, pid, process group, start token, owner | record, remove_matching, records | the disk |
| daemon runtime (`nomoreide-daemon/src/runtime.rs`, `runtime/bundles.rs`) | the phase (running, draining, cleanup failed) and the mutation gate | start, stop, restart, bundle start/stop/restart, shutdown | the process manager, the configuration |
| daemon server (`server.rs`) | the shutdown channel and its coordinator | serve, drain, exit; signals, the watcher of the runtime home | the daemon runtime, HTTP clients |
| daemon ownership, client, lifecycle (`nomoreide-daemon/src/lib.rs`, `nomoreide-daemon-client`) | lock, state and credential files | acquire, publish, ensure, upgrade_if_idle, stop | daemons and clients that race each other |
| bundles and service graph | the dependency order | resolve_start_order, start_order, stop_order | the daemon runtime |
| approval broker, remote agent runs | open runs, parked approvals, a bounded event history | open, request, resolve, expire, close, resume | agent CLIs, humans, the relay |
| relay supervisor and connector, dispatcher, terminal mirror | one connection per credential, sessions, an idempotency ledger | ensure_started, stop, retire, dispatch | the relay platform |
| terminal manager (`nomoreide-core/src/terminal`) | the registry: a session per id, ids being created and closed, a shutdown flag; per session a state, a presentation, a lease, a control lock | create, close, restart, close_all, open in a terminal, reclaim, input, inserted prompts; waiter, reader and listener threads | process groups, external terminals, the daemon's event stream |
| agent dock (`apps/dashboard/.../use-agent-terminal-tasks.ts`) | tabs, their order, the one in front, ids closed, revisions, requests under way | create, close, stop, rename, move, claim an opening command | the daemon's requests, its event stream, the viewports' sockets |
| Claude mod pane (`apps/claude-mod/hooks`) | atoms of one pane: the file on screen, the view in front, what each shows; the rounds under way; the editor's own buffer in the surface | open, follow, edit, save, leave a file; refresh git, daemon and extras; forced reloads | the session's folder, the agent that writes it too, the daemon, git, `gh`, Linear |
| inspector, port utilities, compose | a proxy per service; nothing; a container | enable, take over a port, up/down | the process manager |
| configuration, logs, timeline, metrics, histories | one file or bounded buffer each | load, save, append | everything above |
| git, databases, docker, ssh, cloud, MCP, CLI, desktop, the dashboard's pages | none that others coordinate on | wrappers and front ends | the daemon |

What is hard about it: an operation is a future that gives way at every
`await`, so a start, a stop, a supervisor and a recovery interleave at their
await points and hold what they read across them; services are processes of
somebody else's code that fork, exit and ignore signals at any moment; the
daemon may die anywhere and the next one has only the journal; callers time out
and disconnect, and the server then drops their half-done operations; and pids
are given away again. The terminal manager has threads instead of futures: what
one reads under the registry's lock may be gone when it locks again. The front
ends run one continuation at a time, but each handler is cut by its awaits, and
what the daemon tells them by lists, events, answers and sockets is ordered by
nothing. `PROJECT.json` lists these hazards at the line where they bite, with
the properties that cover them or the reason why none does.

What makes each component correct:

* process manager and journal: nothing runs outside the journal; a service has
  at most one process group; a stop that says so has stopped it; recovery
  touches only what the journal proves to be ours; everybody is answered.
* daemon runtime and server: after a clean drain nothing runs and nothing
  starts; after a failed one nothing new starts but stops still work; a signal
  ends the daemon whatever else happens.
* terminal manager: no running process group leaves the registry; what is closed
  or shut down is gone; what belongs to an old generation or an old lease never
  touches the next; a PTY has one writer at a time.
* agent dock: what is closed stays closed, what is live is a tab, tabs keep
  their order, a tab shows where its session is.
* Claude mod pane: what a person typed is never replaced by a read; what is
  shown catches up with the disk, git and the daemon; a press is answered with
  what was read after it.
* ownership and lifecycle: one daemon owns the runtime; concurrent clients end
  up with the same one; an upgrade never takes work down.
* approval broker and agent runs: every request is answered once; an answer
  reaches the request it was given for; a replay has no silent gap.
* relay: at most one connection, and only for the present credential.
* bundles: dependencies start first and stop last; a cycle is refused.

## The modules

| Module | What it is |
|---|---|
| `ProcessManager` | the process manager, its supervisors, the journal, recovery, the operating system below and the crashes of the owner |
| `ServiceOwnership` | what the manager and the journal promise between them, with none of the machinery |
| `DaemonRuntime` | the daemon around it: recovery before serving, admission of clients, shutdown requests and signals, the drain, the exit; EXTENDS `ProcessManager` and uses its actions as they are |
| `DroppedFutures` | the process manager when futures are dropped, and the blocking spawns that outlive them; EXTENDS `ProcessManager` |
| `DaemonDisconnects` | the daemon when its clients disconnect: `DaemonRuntime` and `DroppedFutures` together |
| `TerminalManager` | the registry of PTY sessions with the threads that work on it |
| `AgentDock` | the dashboard's tabs of agent sessions, with the daemon's side as the dock meets it |
| `ModEditor` | one file of the pane in its three copies: disk, pane, editor |
| `ModRounds` | the pane's three rounds of reads and who waits for them |
| `MCProcessManager`, `MCDroppedFutures`, `MCDaemonRuntime`, `MCTerminalManager`, `MCAgentDock`, `MCModEditor`, `MCModRounds` | instances for TLC: symmetry, the two state constraints, the sets `Instances` |
| `ProcessManagerInvariant` | the inductive invariant `IInv`, its part `CInv` that survives dropped futures, and lemmas about the operators |
| `ProcessManagerSteps` | one lemma per action: it preserves `CInv`, and with it the rest of `IInv` |
| `ProcessManagerProofs` | `IInv` holds, the safety properties that follow from it, the two action properties, that the manager implements `ServiceOwnership`, and what holds of `CancelSpec` |
| `DaemonRuntimeProofs` | the daemon's inductive invariant `DInv`, its properties, that it only does with the manager what `ProcessManager` allows, and what holds of `DisconnectSpec` |
| `TerminalManagerProofs` | the registry's inductive invariant, its types and the eight properties of its run |
| `AgentDockProofs` | the dock's inductive invariant, its types, the five invariants and the action property of its run |
| `ModEditorProofs` | types of the editor, that the next poll can tell a torn read, and that typed text stays |
| `ModRoundsProofs` | types of the rounds, and that a press awaiting the status is answered with a later read |

### ProcessManager: state and code

A request slot `r` is a future of the public API. `pc[r]` is the await point it
is parked at, `op[r]` and `svc[r]` its arguments, `rgen[r]` and `rpid[r]` the
generation and pid it carries across awaits, `todo[r]` the names `shutdown_all`
still has to visit and `answer[r]` its outcome so far. The code between two
awaits is one action:

| pc | where the future waits | leaves by |
|---|---|---|
| `enter` | `operation.lock().await` | `Acquire` |
| `reconcile`, `recovering` | `ensure_reconciled` (mutex, then the records) | `AlreadyReconciled`, `BeginRecovery`, `InspectRecord`, `RecoveredGroupGone`, `RecoveryEscalates`, `RemoveRecovered`, `RecoveryFails`, `RecoveryDone` |
| `check` | `start_service_locked`, before the launch | `StartAnswers`, `StartProceeds` |
| `gate` | `launch_gate.lock().await` | `EnterGate` |
| `fork`, `journal`, `release`, `spawn`, `abandon` | the launch handshake | `Fork`, `ForkFails`, `JournalLaunch`, `LaunchFails`, `Release`, `SpawnFails`, `Abandon`, `Register` |
| `stop` | `stop_service_locked` | `StopFindsNothing`, `StopUnsupervised`, `StopMarks` |
| `sweep` | the retried removal of a record | `StopRetriesRemoval` |
| `send`, `await` | the command channel and the reply | `SendStop`, then `Settle`, `StopUnconfirmed` or `LeftoversRemain` of the supervisor move it to `stopOk`, `stopErr` or `dropped` |
| `stopOk`, `stopErr`, `dropped` | the reply arrived, or its sender is gone | `StopAnswered`, `StopFindsSupervisorGone` |
| `names` | `shutdown_all`, between two names | `NextName`, `NoMoreNames` |

`spc[p]` is the same for the supervisor of the child with pid `p`: `watch` (the
select of `supervise_child`), `term` and `kill` (the two grace periods of
`stop_child_and_group`), `reaped` and `swept` (`cleanup_after_natural_exit`),
`unjournal` (`remove_runtime_record`), `settleOk` and `settleErr`
(`finish_generation`, the reply), `hold` (`await_reaped_child_cleanup`), `gone`.
`mailbox[p]` is its channel of one command, `replyTo[p]` the caller it owes an
answer.

`entry[s]` is the `ManagedProcess` filed under `s`, reduced to what decides
anything: state, generation, pid, `cleanup_confirmed`, and whether a controller
is left. `journal[s]` is the record on disk, reduced to generation and pid; the
start token, process group, uid and owner of a record are compared through
`IsRecorded`, which is true exactly of the process the record was written for.

The operating system is `leader[p]`, the state of the process whose pid is `p`
(parked before exec, released, running, a zombie, gone, or a stranger that was
given the pid), and `rest[p]`, whether its group has other members. A service
forks and exits when it likes; signals are not modelled as a cause, because a
process may end at any time and may also outlive any signal it is not forced to
obey. SIGKILL is treated the same: a process in uninterruptible sleep survives
it for as long as the code's grace periods can tell.

A crash forgets every future, table and task and keeps the journal and the
processes. `Reborn` starts the next owner, with empty tables and generations
that begin at 1 again, as `ProcessManager::new` does.

### DroppedFutures: state and code

`CancelSpec` adds what axum does when a client disconnects: `Cancel` drops the
future of a request at any await point, with its lock guards and pipe ends, and
leaves the blocking spawn and the queued command behind. It is a module apart,
because not all of the promises below survive it.

A launch dropped at `fork` leaves its `spawn_blocking` (line 1096) in
`detached`, from which `LateFork` takes it at any later time: the handshake is
closed and the gate may be another launch's. The child knows the four pipe ends
by descriptor numbers only (`arm`), which gives it three ways to go. On closed
numbers its write or read fails and it leaves before exec. If the next launch
was given the same four numbers (`astray`), it announces itself to that launch
(`TakesAnnouncement`) or reads its release byte (`StrayTakesRelease`). Or other
files have the numbers, and what it reads there is a release byte. Either of the
last two executes a service outside the table. A launch that took a stranger's
announcement is `misled`: it journals and releases that child and learns from
`spawning.await` that its own spawn is another, whereupon it kills what it
spawned and drops the record (`MisledEnds`, lines 1139-1152). `FdReuse` says
whether closed numbers are given out again; `pm_cancelled` assumes they are.
Numbers that name other ends of a later launch's pipes than they did of their
own launch's are left out, and so is a fork between the release byte of another
launch and its reading: it commutes with a fork before the byte was written.
`DieWithOwner`: a blocking spawn that has not forked is gone with its owner.

### DaemonRuntime: state and code

`DaemonRuntime` adds the variables of the daemon to those of the process
manager and composes the actions of both: the manager's calls (`Call`) are made
by the daemon's handlers and its coordinator only, and its crash is the end of
the daemon. The request slot `Coordinator` is the daemon itself, which calls
`reconcile_runtime` when it boots and `shutdown_all` when it drains; the other
slots are HTTP requests.

| Variable | In the code |
|---|---|
| `serving` | how far `serve_on_listener` has come: `starting`, `reconciling` (awaiting the recovery), `up`, `closing` (the graceful shutdown has begun) |
| `phase` | `DaemonRuntime::phase` |
| `ask[r]` | a mutation on its way to the process manager: `gate` (past the first look at the phase, waiting for the read permit), `load` (past the second, with its permit, loading the configuration) |
| `channel`, `signalWaits` | the shutdown channel of capacity one, and a signal that waits in `send().await` for room in it |
| `request`, `drain` | the coordinator in `drain_before_shutdown`: the request it works on, and whether it waits for the write permit, for `shutdown_all`, or has returned |

| Action | In the code |
|---|---|
| `Boot`, `Serve`, `BootFails` | `serve_on_listener` up to the recovery, after it, and its `?` |
| `Ask`, `Admit`, `NotRegistered`, `Perform` | `launch` and `stop_service`: first check; permit and second check; no such service; the call, whose return drops the permit |
| `RequestShutdown`, `Signal` | `try_send` of the route (dropped when the channel is full), `send` of the signal handler and of the watcher of the runtime home |
| `Receive`, `CleanUp`, `Drained`, `DrainFails` | `drain_before_shutdown` with `shutdown_with`: phase closed, write permit, outcome |
| `Exit`, `Killed`, `NextDaemon` | the process ends (after its grace period, or when a further signal finds no coordinator), is killed, and another is started |

A request that is refused at the first check changes nothing and is no step.
The gate is a fair read-write lock, abstracted to its safety (`Admitted`: a
client has a permit while it loads its configuration or is in the process
manager) and to strong fairness of being granted; readers queued behind the
writer may be admitted before it, which the code's lock forbids and no property
rests on. The branch of `shutdown_with` for a drain already in progress cannot
be reached with its single caller. What can fail between the recovery and the
listening server (publishing, the attachment socket) ends the daemon, as
`Killed` does. Bundle operations, the inspector toggle and port takeover, which
take the same gate, are not modelled yet.

`DisconnectSpec` of `DaemonDisconnects` adds clients that disconnect, with
`Cancel` and the late forks of `DroppedFutures`; `daemon_disconnect` and three
theorems are about it.

### TerminalManager: state and code

`sess[i]` is the generation registered under id `i` (`Registry::sessions`),
`creating`, `closing` and `shuttingDown` are the registry's other fields. The
fields of a `PtySession` are functions of its generation: `state`, `cleaned`
(`group_cleanup_complete`), `pres`, `attachment` (the lease), `prompting`
(`prompt_write_active`), `control` (who holds the control lock); `external` and
`closed` are its output gate. `group[g]` is the process group, for the operating
system: `orphans` when the leader has exited and others live on, `recycled` when
its pid is somebody else's.

`pc[c]` is where a caller is between two acquisitions of the registry's lock:

| pc | in the code |
|---|---|
| `reserve`, `spawn`, `complete` | `create`: `reserve_id`, `spawn_command`, `complete_reservation` |
| `look`, `control`, `hup`, `wait`, `kill`, `confirm`, `remove` | `close_session`, through `shutdown_running_session` and `wait_for_terminal_cleanup` |
| `resize` | `restart_session`, after its close and its create |
| `drain`, `next` | `close_all`: the wait on the condition variable, the loop |
| `seek`, `take` | `prepare_attachment_lease`, `reclaim_to_dock`, `insert_agent_prompt`, `write_input`: up to the control lock, and under it |
| `announce`, `launch` | the emission under the control lock; `launch_terminal` |
| `write`, `finish` | bytes on their way to the PTY; the end of an inserted prompt |

`waiter[g]` is the thread of `start_child_waiter`, `reader[g]` that of
`start_output_reader`, `listener[l]` that of `run_external_listener`. A write to
a PTY is one step: a child that does not read, and so blocks its writer under a
lock, is not modelled. Rename and resize by the person are one assignment under
the lock and are left out.

### AgentDock: state and code

The names are the hook's: `tabs` and `task` are `tasks`, `order` `taskOrder`,
`active` `activeTaskId`, `revision` `presentationEventRevisions`, `latest`
`latestTerminalSessionEvents`, `sequence` and `latestForeground` the two
counters of `runCreate`, `request[i]` what `pendingTaskIds` guards. `session` is
the daemon's truth, `stream` and `events` its event stream (subscribed only
after the replay was taken, as `server/routes/terminal.rs` does), `hydration`
the list asked for at mount. An action is the code between two awaits; the
daemon's half of a request is a step in between. `typed`, `missed` and
`overwritten` are history, read by properties only.

### ModEditor and ModRounds: state and code

`ModEditor` cuts `openFile`, `hearEditor`, `editFile` and the Files part of
`loadExtras` at their awaits (`opening`, `hearing`, `lining`, `following`).
`file` and `confirming` are the pane's atoms, `inView` says that the Files view
of an open pane is in front, `editor` is the state the editor keeps in the
surface across drawings, `posts` what it has said and nobody heard. A text is
its file and a number; a time of writing counts writes, and is 0 where there is
none. A read ends any way `readFile` knows (`ReadStat`, `ReadText`): with the
text, or with a note in its place because the stat or the read was refused, it
is no file, it is too large or it is not text; these are not told apart, and
the time of a file shown with a note is 0, because nobody looks at it. A file is
followed while `Followable` holds, the guard of line 1009: no line of it is open
for typing (`pickLine`, `cancelLine`), it is shown without a note, and the pane
knows of no changes. The reread of `editFile` takes its stat together with the
comparison before it. A pane closed under an editor that is mounted is left out.

`ModRounds` keeps the promises `gitRun`, `daemonRun` and `extrasRun` with their
progress, `isGitQueued`, the marks of `isDue`, whether the daemon answered the
last look (`reach`), and for each press what it awaits (`press`). What is read is
the version of the world it was read from. The daemon's round shows the services
(`DaemonShow`), or finds the daemon down and goes on to the extras with what was
shown (`DaemonDown`, line 1229), or throws at any of its awaits, which ends it
without the extras (`DaemonThrows`, lines 1292-1296). The views of `DaemonViews`
are read only while `reach` is up. `call` (line 414) sets no timeout, so a round
may wait for the daemon for good (`DaemonHangs`, `ExtrasHangs`).

### Abstractions

Time is gone: a grace period may end whenever it could, and never has to.
Journal writes are atomic, which is what `atomic_write_async` (a temporary file
and a rename) gives; a failed write changes nothing. `RecordUnsettled` collects
every reason a recovery gives up, `StartAnswers` every reason a start is refused
before it forks (a taken port, a missing command, an unreadable `.env`).
`LeftoversRemain`, `StopUnconfirmed`, `LaunchFails` and `RecoveryFails` may
happen whenever the code could run into the failure they stand for.

## The runs

The `pm_` runs instantiate `MCProcessManager`, those of dropped futures
`MCDroppedFutures`, the `daemon_` runs `MCDaemonRuntime` and, for clients that
go away, `DaemonDisconnects` itself, the others the module of their name. Request slots, clients,
pids, generations, leases, callers and session ids are interchangeable where
nothing compares or orders them, so the safety runs use symmetry; the runs with
a liveness property do not.

| Run | Instance | What it shows |
|---|---|---|
| `pm_one_service` | 1 service, 2 requests, 2 pids, 2 generations, 1 crash, pid reuse, all operations; 300 thousand states | What runs is journaled (`LiveIsJournaled`), once per service (`OneGroupPerService`) and known to its owner (`NoHiddenGroup`); `cleanup_confirmed` means it (`ConfirmedIsGone`); a stop that succeeds has stopped (`StopMeansStopped`); all of it implements `ServiceOwnership` |
| `pm_two_services` | 2 services, 2 requests, 2 pids, 1 crash, pid reuse, start and shutdown_all; 970 000 states | Two launches share the file and the gate (`OneReleasePipeOpen`) and neither loses the other's record; shutdown_all against starts; recovery of up to two records at once signals only recorded processes (`RecoverySignalsOnlyRecorded`) |
| `pm_liveness` | 1 service, 2 requests, 1 pid, a crash, all operations, fairness | Every call returns (`EveryCallReturns`) and every exit is noticed (`ExitIsReported`) |
| `pm_cancelled` | `CancelSpec`, 1 service, 2 requests, 2 pids, 1 crash, descriptor numbers reused; 700 thousand states | Neither dropped futures nor the spawns that outlive them break `ConfirmedIsGone` |
| `pm_cancelled_start` | the same with no number reused, expected to be violated | The first finding below |
| `daemon_drain` | 2 clients, 1 service, 2 pids, 2 generations, 2 ends of a daemon; 2.3 million states | A daemon serves only what it launched (`ServesOnlyItsOwn`); after a clean drain nothing runs (`DrainedMeansDown`); nothing is launched in a drain or after one that failed (`DrainEndsLaunches`) |
| `daemon_liveness` | 1 client, 1 pid, 1 end, fairness | A signal ends the daemon (`SignalEndsDaemon`); a drain has an outcome (`DrainEnds`) |
| `daemon_disconnect` | `DisconnectSpec`, 1 client, 1 pid, expected to be violated | The second finding below |
| `terminal` | 5 instances, 2 callers, 1 id, 2 generations, 2 leases; 1.4 million states | No running group leaves the registry (`NoOrphan`), a session says of its group what is so (`StateTruthful`), a close and a shutdown that succeed mean it (`CloseMeansGone`, `ShutdownComplete`), presentation and lease agree (`LeasedOutside`, `EndedNotOutside`), an old lease never resets a new one (`StaleNeverResets`), one writer (`OneWriter`) |
| `dock` | 4 instances, 2 ids, 2 creates; 920 thousand states | Order, ownership of the front, closes and commands of tabs under any order of answers, events and lists (`TabsInOrder`, `BackgroundStays`, `ClosedStaysClosed`, `TypedOnce`); once quiet, live sessions are tabs and shown where they are (`NoSessionUnseen`, `PresentationCurrent`) |
| `editor` | 4 instances, 1 or 2 files, fairness of the poll; 1 million states | A read cut by a write is told by its time (`ReadNotTorn`); what was typed is not replaced (`WorkKept`); a file that is followed catches up with the disk (`TimeFollowed`) |
| `rounds` | 1 press, 2 views, one of them the daemon's, 1 change, 1 failure, fairness; 170 thousand states | A press is answered with a later read (`GitCovered`, `GitAnswered`); a press for the services or a view is answered, whichever round throws or finds the daemon down (`PressesEnd`); what changes is shown (`CatchesUp`); both unless the daemon leaves a request without an answer |

The bounds. Two requests are what it takes for every pair of operations to
overlap; a third would wait for the same lock. Two pids are what it takes for an
old group to meet a new one, or for two services to run. Two generations under
one owner give a first launch and its successor; the crash gives a third launch
whose generation collides with the first, which is the case `remove_matching`
has to get right. One crash gives an owner that inherits; inheriting twice adds
nothing a failed recovery (`RecoveryFails`, retried) does not already show.
Two constraints cut instances down to what those of the other runs leave to ask.
`OwnersTakeTurns` of `pm_two_services`: the first owner meets no pid given away
and is not asked to shut down twice at once, and the second is not asked to shut
down, which `pm_one_service` covers; what stays is two launches and shutdown_all under the first owner, and a recovery of
two records among strangers under the second. `RelaunchesAlone` of
`daemon_drain`: a second launch under one owner happens in the first daemon and
for one client at a time; two clients at once make first launches only.
In the `daemon_` runs
`MaxCrashes` bounds the ends of daemons of every kind; `NextDaemon` starts none
that could not end again, so that the liveness run asks of every daemon what it
asks. These runs let the system stop for good (`CHECK_DEADLOCK FALSE`): after
the last daemon has ended and the last process exited nothing is left to
happen.

`TerminalManager`, `AgentDock` and `ModEditor` take a set of instances (`Loads`)
and choose one in `Init`: each names the operations in use and how many spawns,
leases, acts or writes there are. One run then checks several narrow instances
where one wide one is out of reach. Two generations let an old waiter, reader or
close meet a new session under its id; two leases an old listener a new lease;
two callers any two operations. The reader threads step only in the instances
that open terminals, for nothing else reads what they change. In `AgentDock` two
creates may be answered in either order and around another session's event; one
lost answer, one or two acts of another front end. In `ModEditor` two texts of
one file, or two files, are what it takes for the agent's text, the person's and
the one on screen to differ; a second write is what it takes to have a read cut
by one and then follow the next. In `ModRounds` one press meets every timer's
round; that presses do not disturb one another's answer is proved for any
number. One failure lets any one read throw or find the daemon down, at every
point of every other round; two of them in one behaviour are beyond what TLC
finishes here with the liveness properties.

The proofs have none of these bounds.

Fairness (`FairSpec`): a task that can take its next step does (weak fairness
of each request and each supervisor: tokio polls every woken task); a mutex that
keeps becoming free is granted in the end (strong fairness of `Acquire`, of
entering `ensure_reconciled` and of the launch gate: tokio's mutexes are FIFO);
a released or abandoned child gets on with exec or exit. Nothing is assumed of
services (they need never exit or obey), of clients (they need never call) or of
crashes. `EveryCallReturns` rests on every wait having a deadline in the code.

`FairDaemonSpec` asks the same of the tasks of the manager, and of the daemon
that an admitted client gets on with its call (loading the configuration ends),
that a client waiting for the permit gets it (the lock is FIFO), that the
coordinator and `serve_on_listener` take their steps, and that a failed boot and
a finished graceful shutdown end the process (the grace period has a deadline).
It asks nothing of `Killed`, of clients or of those who send signals.

`FairSpec` of `ModEditor` asks that the poll's look at the file goes on while it
can be made: the Files view is in front, the file is followed, and no round is
held by the daemon (the pane's timer, and reads of the session's folder that
end). The view need not stay in front and a line may be opened: `TimeFollowed`
says what happens then. `FairSpec` of `ModRounds` asks that a round's next step
is taken: ready continuations run and a process that was awaited ends (git and
`gh` are run with timeouts); and that timers tick and minutes pass while the
pane is open. That a request to the daemon is answered is not asked of it,
because `call` sets no timeout: a round that hangs is a step of its own
(`RoundHangs`, `DaemonHangs`, `ExtrasHangs`), allowed at any time, and the
liveness properties name it as the one excuse. Reads that throw and looks that
find the daemon down are finitely many (`MaxFails`). `TerminalManager` and
`AgentDock` are checked for safety only: the first's waits all have deadlines in
the code (`CloseTimesOut`, `GivesUp`), but that no schedule starves a closer of
the control lock is not something a `std::sync::Mutex` promises.

### Findings

`process_manager.rs:1579-1580` says of the launch handshake that "a crash cannot
leave a live unjournaled process group behind". `pm_cancelled_start` shows how
one is left behind: a client starts a service and disconnects (the daemon's own
client gives up after its request timeout) while `launch` awaits
`spawning.await`; axum drops the future; the child has already been journaled
and released, so it runs, but `register_child` never happens. The next start
finds no entry, launches a second group and overwrites the record. If the
daemon now dies, the first group is alive and nothing names it.

`server.rs:403-404` says of the coordinator: "Stop serving only once the
services are actually down - unless the ask was a signal". `daemon_disconnect`
shows the same disconnection against a drain: with the dropped future goes the
permit, so the drain does not wait for the launch; `shutdown_all` finds no entry
and succeeds; the daemon stops serving, asked by a request, and the service
runs.

### Divergences

While translating, the code was found to do otherwise than a comment or a test
next to it says in the places below. The models do as the code does; the
counterexamples were seen with TLC on these models, and no run is kept for them.

* `register.tsx:951`: a save asks the time of writing after its write, so an
  agent's write between the two is never shown (`1010`: "what is shown follows").
* `register.tsx:945`: the disk is compared before a further await, and with the
  pane's copy, which may be newer than what the editor was handed (`918`: "must
  not have been written by anyone else since the editor was handed it").
* `register.tsx:1014`: a followed read or a save that lands late clears
  `isDirty` while the editor, already dirty, does not post again (`editor.tsx:153`).
* `register.tsx:1706`: a question asked about earlier changes still stands for
  later ones; `1683`: the back button asks none (`views/files.tsx:224`).
* `register.tsx:1209`: every tick during a slow read has the loop turn again, so
  with reads slower than the timer no call is answered (`1202`).
* `register.tsx:1107`: a forced reload may join an unforced round that started
  in between (`1105`); `725`: a read is marked made before it is, so the next
  poll is not the retry (`1117`).
* `use-agent-terminal-tasks.ts:384`: an older foreground create is passed over
  for a newest one that fails; `238`: a viewport may claim the opening command
  before it is recorded (`375`); `221`: an event emitted before a rename and
  delivered after it brings the old label back; `510`: a late list revives the
  tab of a stopped session and its close is refused; `501`: the replacement of a
  closed tab may itself be closed meanwhile.
* `terminal/spawn.rs:185` emits nothing for a close, `manager.rs:646` nothing for
  an end (`server/routes/terminal.rs:117-120` says all changes arrive).
* `terminal/manager.rs:870`: a session whose group ends just after its waiter
  gave up is refused to every later close (`697-699`); `60`: between the reaping
  of a leader and the publishing of its end its pid may be somebody else's.

## The proofs

TLAPS checks, for every number of services, requests and pids and for every
bound (the assumptions are the named ASSUMEs of the modules: the "none" values
are not members of the sets they complete, there is a service, the ids of
sessions are finitely many, the bounds are naturals, and the daemon's own slot
is one of the request slots, which may shut down and reconcile):

| Theorem | States |
|---|---|
| `InvariantHolds` | `Spec => []IInv` |
| `TypesHold`, `RunningGroupsAreJournaled`, `ServicesHaveOneGroup`, `NoGroupIsHidden`, `ConfirmedEntriesAreGone`, `LaunchesTakeTurns` | types, and the five invariants of the runs |
| `StopsMeanStopped`, `RecoveryIsPrecise` | the two action properties |
| `ManagerKeepsOwnership` | `Spec => OwnershipSpec`, the refinement |
| `DroppedFuturesKeepTheRest` | `CancelSpec => [](CInv /\ StraysKnown)` |
| `ConfirmedEntriesStayGone`, `CutRecoveryIsPrecise` | `ConfirmedIsGone` and `RecoverySignalsOnlyRecorded` of `CancelSpec` |
| `DaemonInvariantHolds` | `DaemonSpec => []DInv` |
| `DaemonRunsManager` | `DaemonSpec => Spec`, so that all of the above holds of the daemon |
| `DaemonTypesHold`, `ServingIsReconciled`, `DrainLeavesNothing`, `NoLaunchAfterDrain` | types, and the three invariants of the daemon's runs |
| `DisconnectInvariantHolds`, `DisconnectsDropFutures` | `DisconnectSpec => []DropInv`, `DisconnectSpec => CancelSpec` |
| `NoLaunchAfterDrainDespiteDisconnects` | `DrainEndsLaunches` of `DisconnectSpec` |
| `Invariant` (`TerminalManager`) | `Spec => []IInv` |
| `TypesCorrect`, `RunningIsRegistered`, `EndsAreTrue`, `ClosedIsGone`, `ShutdownIsComplete`, `OutsideIsLeased`, `WritersExclude`, `EndedIsInDock` | types, and the seven invariants of `terminal`, for any number of ids, generations, leases and callers and for any operations asked |
| `StaleLeavesAlone` | `StaleNeverResets`, its action property |
| `Invariant` (`AgentDock`) | `Spec => []IInv` |
| `TypesCorrect`, `TabsStandInOrder`, `CommandsTypedOnce`, `ClosedHasNoTab`, `SessionsSeen`, `PresentationsCurrent` | types, and the five invariants of `dock`, for any number of sessions, creates and requests and any order of answers, events and lists |
| `BackgroundTasksStay` | `BackgroundStays`, its action property |
| `TypesCorrect`, `ReadsAreNotTorn` (`ModEditor`) | types, and `ReadNotTorn` of `editor`, for any number of files, texts and writes |
| `TypedTextStays` | `WorkKept`, its action property |
| `TypeCorrect`, `CallsAreCovered`, `CallsAreAnswered` (`ModRounds`) | types, `GitCovered` and `GitAnswered` of `rounds`, for any number of presses, views, changes and failures |

The argument. No property above is inductive: `LiveIsJournaled`, for one, breaks
at the step that overwrites a record unless one knows that nothing of the old
group is left, which is known because the start found an entry that is absent or
confirmed, under a lock, after a recovery, and so on. `IInv` is the conjunction
of these facts, each a named part of `ProcessManagerInvariant`: which request
holds which lock, gate and recovery at which await point; which pid belongs to
which service and launch; that a launch is alone with its service
(`LaunchIsAlone`), a supervisor is the only one of a service that can still act
(`SupervisorIsAlone`) and a retried removal meets no other (`SweepIsAlone`);
what an entry, a record and a group may be while each of them is at work.
`ProcessManagerSteps` has one lemma per action, split by the part of `IInv` the
action can disturb; `NextKeepsBoth` puts them together. The action properties and
the refinement then look at single steps from states that satisfy `IInv`:
most steps leave the mapped variables alone, journal writes are `Note` and
`Forget`, the release is `Begin`, and the operating system's steps are `End` and
`Spoil`.

Dropped futures. `IInv` is `CInv /\ Covered`, where `Covered` says that what runs
is journaled and in the table or about to enter it (`LiveIsJournaled`,
`NothingHidden`). A launch dropped between its release and its registration
breaks `Covered`, which is the first finding, and so does a spawn that forks
after its launch was dropped; nothing they break is needed for the rest. So each
lemma of `ProcessManagerSteps` assumes `CInv` only and proves `Keeps`: `CInv`
again, and `Covered` again if it held before. `CInv` speaks of the processes a
table, a record, a supervisor or a request names. `StraysKnown` says that a
child gone astray is none of these (`Mentioned`) until a misled launch takes it
for its own, that pids awaited are forked, and that spawns outlive launches only
in an owner that has recovered. Each step of the manager names no new process
but the ones it forks (`NextKeepsUnmentioned`); a late fork, a stray that takes
an announcement or a byte, and the end of a misled launch have a lemma each, as
have `CancelKeeps` and `OrphanReapedKeeps`. With them `CInv /\ StraysKnown` is
inductive in `CancelSpec`, and so hold the promises that rest on it alone. What
does not is `LiveIsJournaled`, and with it `OneGroupPerService`, `NoHiddenGroup`,
`StopMeansStopped` and the refinement: those are theorems of `Spec` alone. Nor
does any theorem say that launches take turns there: the gate still admits one
launch at a time, but a late child holds pipe ends whoever has the gate.

The daemon. `DInv` is `IInv` with five parts of its own: where a request can be
in each operation (`OpsMatch`), what may be asked (`AsksAreOffered`), what the
daemon's progress says of recovery and of its own call (`ServingKnows`), what a
drain's progress says of the clients and of what still runs (`DrainKnows`), and
what a failed drain admits (`FailedAdmitsStops`). The centre is `WalkCovers`:
while `shutdown_all` has met no error, whatever runs belongs to a service it has
yet to stop. It holds when the walk begins because no client is in the process
manager then, so that by `NothingHidden` the table leads to all that runs; it is
kept because a name leaves the walk only by a stop that succeeded
(`StopStepSucceeds`, the lemma behind `StopsMeanStopped`) and nothing but a
launch can make a group live (`OnlyReleaseEnlivens`). The steps of the manager
are not enumerated again: a lemma per group of them says what it does to the
request that takes it and that the others rest.

A client that disconnects gives its permit back, so `DropInv` keeps of `DInv` what
says who is admitted in which phase and whose call is under way (`PhasesAgree`,
`FailedAdmitsStops`) with `CInv` and `StraysKnown`: a drain is still not overtaken by a launch, but
it no longer leaves nothing running, which is the second finding.

The registry. Its callers hold no lock between two looks at a session, so the
invariant (`IInv` of `TerminalManagerProofs`) says what each may still assume:
a reserved id has no session and one caller (`ReservedAlone`), which is why a
spawn registers over nobody; a session keeps its id and has a waiter once it is
registered (`RegisteredWaited`), and is taken out only when its end is known
(`EndsAreKnown`), which gives `NoOrphan`; who closes, announces or types holds the
session's control lock (`ControlHeld`, `ClosingHeld`), an inserted prompt its
flag (`PromptsFlagged`), which gives `OneWriter`; a reader forwards to
no lease but the one attached, and takes it along when it ends (`ReaderKnows`),
which with `LeasedOutside` gives `EndedNotOutside` and `StaleNeverResets`.
`WalkCovers` is again the centre of the shutdown: once `close_all` has set its
flag and drained the creates, and as long as it has met no failure, whatever
runs is under an id it is visiting or has yet to visit.

The dock. It knows its sessions from four sources that overtake one another: the
answer of a create, the answer to the list, the answers to its own requests and
the stream of events. That the same session never becomes two tabs or a closed
one a tab again is kept by what each source may assume: a create has its session
to itself (`CreatesApart`), a tab has a place and a state and only its own close
takes it away (`TabsHave`, `RequestsHaveTab`, `ClosingKnown`), and what a create
made is a tab until it is closed (`CreatedHaveTab`). For the two properties about
the daemon's truth the invariant speaks of what is still on its way: a live
session that no event was missed of is a tab or has an event coming
(`EventsReach`), the last event on its way says where it is, or the tab does
(`EventsTell`), and an answer that is still allowed to set the tab, because no
event came since its request, has its own event coming (`AnswersKnow`). A step
changes few rows, so what it does to the others is said once (`RowsKept`,
`RowsGrow`, `RowsShrink`, `EventsKept`) and the lemma of a step names only its own
row. The sort and the filter of the hook are written by counting (`Enumerate`),
so that what they return is a lemma and not an induction.

The editor. `readFile` takes the time of writing before the text. With the facts
that no time is in the future (`TimesArePast`) and that a write gets a time of
its own (`Later`), a read whose time is still the file's has the file's text
(`ReadIsWhole`): what a write cut in two is told by the next poll. `ReadsKnow`
is these facts of both readers, inductive with the types. That typed text stays
needs the types only: a drawing, a key and the editor's end are all that touches
its state, and of these a drawing keeps a dirty buffer.

The rounds. `GitCovered` is inductive with the types and `OfThePast` (what a
press or a read remembers is a version the world has had): a call that starts a
round finds it still to read; a call during one sets `isGitQueued`, which only
the end of a turn clears, beginning another. `Apart` says what the other rounds
leave alone, so their steps are not enumerated twice.

Only model-checked: the liveness properties (`EveryCallReturns`,
`ExitIsReported`, `SignalEndsDaemon`, `DrainEnds`, `TimeFollowed`, `PressesEnd`,
`CatchesUp`: fairness and ENABLED are beyond the prover), and the
counterexamples of the two runs expected to be violated. The modules declare no recursive operator, and
no induction over data is needed.

## Not modelled

Within the process manager: compose services (their container belongs to the
Docker daemon; no process, journal or supervisor), the port check and takeover,
the inspector, `kill_all` (no runtime calls it), the Windows process tree, log
pumping and timeline events. Within the daemon: bundle operations. Within the
pane and the dock: how anything is drawn, split panes, the reads of single
views, which differ in what they parse and not in when they run.

`PROJECT.json` lists the other components with the reason for each. Most of the
repository is pages, wrappers around programs and servers of others, canned data
and scripts: they read, translate and draw, keep no state that two actors share,
and a model of them would restate them line by line. Counted in lines, what is
modelled is a small part of the repository (of the TypeScript about one line in
a hundred); counted in what runs concurrently, it is the process and terminal
managers, the daemon around the first, and the two front ends with handlers that
overlap.

## What remains

In this order, each with its hazards in `PROJECT.json`:

1. The bundle operations on top of `DaemonRuntime`: `restart_bundle` under two
   permits against a drain; port takeover under the gate.
2. The approval broker and the remote agent runs: answered exactly once, no
   silent gap; an abstract approval that both implement.
3. The daemon's lifecycle across processes: lock, state files, ensure, upgrade.
4. The inspector: the proxy against exit and restart.
5. The relay's supervisor and connector; the start order of services as a
   function, checked against its definition over small graphs.
