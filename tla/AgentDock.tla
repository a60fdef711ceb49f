------------------------------ MODULE AgentDock ------------------------------
(***************************************************************************)
(* The tabs of the dashboard's agent dock (use-agent-terminal-tasks.ts) and *)
(* the daemon's terminal sessions as the dock meets them.                  *)
(*                                                                         *)
(* What the dock knows of the sessions reaches it by four ways that nothing *)
(* orders among one another: the list asked for at mount, the stream of     *)
(* events, the answers to its own requests, and the sockets of its          *)
(* viewports.  Events are full snapshots, so each of the four can undo what *)
(* another has shown; the dock guards itself with sequence numbers,         *)
(* revisions and the set of the ids it closes.                             *)
(*                                                                         *)
(* An action is the code between two awaits.  Only the daemon's side of a   *)
(* request (a step of its own: served or refused) runs in between.  The     *)
(* dock's panes are not split here: closeTask is called by closeLeft.       *)
(***************************************************************************)
EXTENDS Naturals, Sequences, FiniteSets, SequencesExt

CONSTANTS
    Ids,           \* ids of terminal sessions
    Creates,       \* the dock's calls of runCreate
    Loads,         \* instances
    Compose,       \* COMPOSE_TAB_ID
    None

\* An instance: the creates, those of them made in the background and those
\* that carry an opening command, what the person does to tabs, and the bounds
\* on the sessions, on such acts, on the acts of other front ends and on the
\* answers the network loses.
ASSUME DockAssumption ==
    Loads \subseteq
        [creates : SUBSET Creates, background : SUBSET Creates, commands : SUBSET Creates,
         kinds : SUBSET {"present", "rename", "stop", "close", "pick"},
         sessions : Nat, requests : Nat, elsewhere : Nat, lost : Nat]

Gone == [pres |-> "gone"]
Snapshot == [pres : {"dock", "terminal"}, label : 0 .. 1]
Fresh == [pres |-> "dock", label |-> 0]
Event == [id : Ids, snap : Snapshot]
Task == [snap : Snapshot, state : {"running", "exited"}]
Order == [group : {"attached", "created"}, index : Nat]
Create == [pc : {"idle", "sent", "made", "refused", "done"},
           seq : Nat, id : Ids \cup {None}, ok : BOOLEAN]
Request == [kind : {"present", "rename", "stop", "close"},
            pc : {"sent", "served", "refused"}, to : Snapshot,
            rev : Nat, next : Ids \cup {Compose, None}]
Listing == [ids : Seq(Ids), snap : [Ids -> Snapshot \cup {None, Gone}]]

\* Nothing that is there is None, and a row of tabs ends.
ASSUME NoneAssumption ==
    /\ None \notin Ids \cup {Compose, Gone} /\ None \notin Snapshot /\ None \notin Task
    /\ None \notin Order /\ None \notin Request
    /\ Compose \notin Ids
    /\ IsFiniteSet(Ids)

VARIABLES
    session,           \* daemon: each session, None before and Gone after it
    stream,            \* "off", "listed" (its replay is taken) or "on"
    events,            \* the events on their way to the dock
    hydration,         \* the list of sessions: "asked", "read", "settled"
    listing,           \* the answer on its way
    tabs,              \* the ids of the tabs, in their order (tasks)
    task,              \* what each tab shows
    order,             \* taskOrder
    active,            \* activeTaskId
    closedIds,
    revision,          \* presentationEventRevisions
    latest,            \* latestTerminalSessionEvents
    initialInput,      \* ids whose opening command is unclaimed
    create,            \* the calls of runCreate
    sequence,          \* createSequence
    latestForeground,  \* latestForegroundSequence
    request,           \* the request in flight for each id (pendingTaskIds)
    requests, elsewhere, lost,  \* counters of the bounds
    load,              \* the instance, the same throughout
    typed,             \* history: times the opening command was typed
    missed,            \* history: ids with an event no stream carried
    overwritten        \* history: ids whose last event an answer has undone

daemon == <<session, stream, events, missed>>
list == <<hydration, listing>>
shown == <<tabs, task, order>>
calls == <<create, sequence, latestForeground>>
counters == <<requests, elsewhere, lost>>
history == <<typed, overwritten>>
vars == <<daemon, list, shown, active, closedIds, revision, latest,
          initialInput, calls, request, counters, load, history>>

TypeOK ==
    /\ session \in [Ids -> Snapshot \cup {None, Gone}]
    /\ stream \in {"off", "listed", "on"}
    /\ events \in Seq(Event)
    /\ hydration \in {"asked", "read", "settled"}
    /\ listing = None \/ listing \in Listing
    /\ tabs \in Seq(Ids)
    /\ task \in [Ids -> Task \cup {None}]
    /\ order \in [Ids -> Order \cup {None}]
    /\ active \in Ids \cup {Compose, None}
    /\ closedIds \subseteq Ids
    /\ revision \in [Ids -> Nat]
    /\ latest \in [Ids -> Snapshot \cup {None}]
    /\ initialInput \subseteq Ids
    /\ create \in [Creates -> Create]
    /\ request \in [Ids -> Request \cup {None}]
    /\ sequence \in Nat /\ latestForeground \in Nat
    /\ load \in Loads
    /\ typed \in [Ids -> 0 .. 1]
    /\ missed \subseteq Ids /\ overwritten \subseteq Ids

Known == {i \in Ids : session[i] # None}
Live == {i \in Ids : session[i] \notin {None, Gone}}
HasTab(i) == i \in ToSet(tabs)

\* A session may still be opened under this id.
IsNext(i) == session[i] = None /\ Cardinality(Known) < load.sessions

\* Sessions may be open when the dock mounts, in any number.
Init ==
    /\ load \in Loads
    /\ session \in [Ids -> {None, Fresh}] /\ Cardinality(Known) <= load.sessions
    /\ stream = "off" /\ events = <<>> /\ missed = {}
    /\ hydration = "asked" /\ listing = None
    /\ tabs = <<>>
    /\ task = [i \in Ids |-> None]
    /\ order = [i \in Ids |-> None]
    /\ active = None
    /\ closedIds = {}
    /\ revision = [i \in Ids |-> 0]
    /\ latest = [i \in Ids |-> None]
    /\ initialInput = {}
    /\ create = [c \in Creates |-> [pc |-> "idle", seq |-> 0, id |-> None, ok |-> FALSE]]
    /\ sequence = 0 /\ latestForeground = 0
    /\ request = [i \in Ids |-> None]
    /\ requests = 0 /\ elsewhere = 0 /\ lost = 0
    /\ typed = [i \in Ids |-> 0]
    /\ overwritten = {}

-----------------------------------------------------------------------------
(* The daemon *)

\* emit_terminal_session of a snapshot, to the stream if it is subscribed.
Emit(i, snap) ==
    /\ events' = IF stream = "on" THEN Append(events, [id |-> i, snap |-> snap]) ELSE events
    /\ missed' = IF stream = "listed" THEN missed \cup {i} ELSE missed
    /\ UNCHANGED stream

\* A change of a session that is emitted.
Becomes(i, snap) ==
    /\ session' = [session EXCEPT ![i] = snap]
    /\ Emit(i, snap)

\* One that is not: only creation and presentation are.
BecomesQuietly(i, snap) ==
    /\ session' = [session EXCEPT ![i] = snap]
    /\ UNCHANGED <<stream, events, missed>>

Flipped(snap) == [snap EXCEPT !.pres = IF snap.pres = "dock" THEN "terminal" ELSE "dock"]

\* The feed takes the sessions to replay, and subscribes only afterwards.
StreamLists ==
    /\ stream = "off"
    /\ stream' = "listed"
    /\ \E s \in SetToSeqs(Live) :
          events' = [n \in DOMAIN s |-> [id |-> s[n], snap |-> session[s[n]]]]
    /\ UNCHANGED <<session, missed, list, shown, active, closedIds, revision, latest,
                   initialInput, calls, request, counters, history>>

StreamSubscribes ==
    /\ stream = "listed"
    /\ stream' = "on"
    /\ UNCHANGED <<session, events, missed, list, shown, active, closedIds, revision, latest,
                   initialInput, calls, request, counters, history>>

\* Another window, a phone or an agent opens, moves or closes a session.
Elsewhere ==
    /\ elsewhere < load.elsewhere
    /\ elsewhere' = elsewhere + 1
    /\ \E i \in Ids :
          \/ IsNext(i) /\ Becomes(i, Fresh)
          \/ i \in Live /\ Becomes(i, Flipped(session[i]))
          \/ i \in Live /\ BecomesQuietly(i, Gone)
    /\ UNCHANGED <<list, shown, active, closedIds, revision, latest, initialInput, calls,
                   request, requests, lost, history>>

ListRead ==
    /\ hydration = "asked"
    /\ hydration' = "read"
    /\ \E s \in SetToSeqs(Live) : listing' = [ids |-> s, snap |-> session]
    /\ UNCHANGED <<daemon, shown, active, closedIds, revision, latest, initialInput, calls,
                   request, counters, history>>

CreateServed(c) ==
    /\ create[c].pc = "sent"
    /\ \E i \in Ids :
          /\ IsNext(i)
          /\ Becomes(i, Fresh)
          /\ create' = [create EXCEPT ![c].pc = "made", ![c].id = i]
    /\ UNCHANGED <<list, shown, active, closedIds, revision, latest, initialInput, sequence,
                   latestForeground, request, counters, history>>

CreateRefused(c) ==
    /\ create[c].pc = "sent" /\ lost < load.lost
    /\ lost' = lost + 1
    /\ create' = [create EXCEPT ![c].pc = "refused"]
    /\ UNCHANGED <<daemon, list, shown, active, closedIds, revision, latest, initialInput,
                   sequence, latestForeground, request, requests, elsewhere, history>>

\* What the daemon does for a request; a session that is gone is refused.
RequestServed(i) ==
    /\ request[i] # None /\ request[i].pc = "sent"
    /\ IF i \notin Live
       THEN /\ request' = [request EXCEPT ![i].pc = "refused"]
            /\ UNCHANGED daemon
       ELSE LET kind == request[i].kind
                snap == CASE kind = "present" -> [session[i] EXCEPT !.pres = request[i].to.pres]
                          [] kind = "rename" -> [session[i] EXCEPT !.label = request[i].to.label]
                          [] OTHER -> request[i].to
            IN /\ request' = [request EXCEPT ![i].pc = "served", ![i].to = snap]
               /\ CASE kind = "present" -> Becomes(i, snap)
                    [] kind = "rename" -> BecomesQuietly(i, snap)
                    [] OTHER -> BecomesQuietly(i, Gone)
    /\ UNCHANGED <<list, shown, active, closedIds, revision, latest, initialInput, calls,
                   counters, history>>

-----------------------------------------------------------------------------
(* The order of the tabs, and the tab that is activated for the person *)

\* The members of S in the order of a relation on them.
Enumerate(S, precedes) ==
    [k \in 1 .. Cardinality(S) |->
        CHOOSE n \in S : Cardinality({m \in S : <<m, n>> \in precedes}) = k - 1]

\* What filter leaves of a row, in its order.
Without(ts, ids) ==
    LET kept == {n \in DOMAIN ts : ts[n] \notin ids}
        at == Enumerate(kept, {p \in kept \X kept : p[1] < p[2]})
    IN [k \in DOMAIN at |-> ts[at[k]]]

\* sortTasks: attached before created, each by its index; ties stay in order.
Before(o, i, j) ==
    \/ o[i].group = "attached" /\ o[j].group = "created"
    \/ o[i].group = o[j].group /\ o[i].index < o[j].index

SortTasks(ts, o) ==
    LET places == DOMAIN ts
        first(m, n) == Before(o, ts[m], ts[n]) \/ (m < n /\ ~Before(o, ts[n], ts[m]))
        at == Enumerate(places, {p \in places \X places : first(p[1], p[2])})
    IN [k \in places |-> ts[at[k]]]

Pending == {c \in Creates : create[c].pc \in {"sent", "made", "refused"}}

\* activateFirstAttached, with what the caller has just set.
ActivateFirstAttached(now, ts, o, pending) ==
    LET attached == {n \in DOMAIN ts : ts[n] \notin closedIds /\ o[ts[n]].group = "attached"}
    IN IF now # None \/ pending # {} \/ attached = {} THEN now
       ELSE ts[CHOOSE n \in attached : \A m \in attached : n <= m]

Orders(o) == {i \in Ids : o[i] # None}

-----------------------------------------------------------------------------
(* The list and the stream *)

\* The list answers: what the latest event says of a session stands, and tabs
\* the list does not have stay.
ListArrives ==
    /\ hydration = "read"
    /\ hydration' = "settled" /\ listing' = None
    /\ LET attached == Without(listing.ids, closedIds)
           o == [i \in Ids |->
                   IF i \in ToSet(attached) /\ order[i] = None
                   THEN [group |-> "attached",
                         index |-> (CHOOSE n \in DOMAIN attached : attached[n] = i) - 1]
                   ELSE order[i]]
           said(i) == IF latest[i] # None THEN latest[i] ELSE listing.snap[i]
           rest == Without(tabs, ToSet(attached))
           ts == SortTasks(attached \o rest, o)
       IN /\ order' = o
          /\ tabs' = ts
          /\ task' = [i \in Ids |->
                        IF i \notin ToSet(attached) THEN task[i]
                        ELSE IF HasTab(i)
                        THEN [snap |-> [said(i) EXCEPT !.label = task[i].snap.label],
                              state |-> "running"]
                        ELSE [snap |-> said(i), state |-> "running"]]
          /\ active' = ActivateFirstAttached(active, ts, o, Pending)
    /\ UNCHANGED <<daemon, closedIds, revision, latest, initialInput, calls, request,
                   counters, history>>

ListFails ==
    /\ hydration = "read" /\ lost < load.lost
    /\ lost' = lost + 1
    /\ hydration' = "settled" /\ listing' = None
    /\ UNCHANGED <<daemon, shown, active, closedIds, revision, latest, initialInput, calls,
                   request, requests, elsewhere, history>>

\* Mutation: an event of a session without a tab is left to the list.
EventToTabsOnly ==
    /\ events # <<>>
    /\ events' = Tail(events)
    /\ LET e == Head(events) IN
          /\ revision' = [revision EXCEPT ![e.id] = @ + 1]
          /\ overwritten' = overwritten \ {e.id}
          /\ latest' = [latest EXCEPT ![e.id] = e.snap]
          /\ task' = IF HasTab(e.id)
                     THEN [task EXCEPT ![e.id] = [snap |-> e.snap, state |-> "running"]]
                     ELSE task
    /\ UNCHANGED <<session, stream, missed, list, tabs, order, active, closedIds, initialInput,
                   calls, request, counters, typed>>

\* onTerminalSessionChanged.
EventArrives ==
    /\ events # <<>>
    /\ events' = Tail(events)
    /\ LET e == Head(events)
           o == IF order[e.id] # None THEN order
                ELSE [order EXCEPT ![e.id] =
                        [group |-> "attached", index |-> Cardinality(Orders(order))]]
       IN /\ revision' = [revision EXCEPT ![e.id] = @ + 1]
          /\ overwritten' = overwritten \ {e.id}
          /\ latest' = [latest EXCEPT ![e.id] = e.snap]
          /\ IF HasTab(e.id) \/ e.id \notin closedIds
             THEN task' = [task EXCEPT ![e.id] = [snap |-> e.snap, state |-> "running"]]
             ELSE UNCHANGED task
          /\ IF ~HasTab(e.id) /\ e.id \notin closedIds
             THEN order' = o /\ tabs' = SortTasks(Append(tabs, e.id), o)
             ELSE UNCHANGED <<tabs, order>>
    /\ UNCHANGED <<session, stream, missed, list, active, closedIds, initialInput, calls,
                   request, counters, typed>>

-----------------------------------------------------------------------------
(* runCreate *)

CallCreate(c) ==
    /\ create[c].pc = "idle" /\ c \in load.creates
    /\ sequence' = sequence + 1
    /\ create' = [create EXCEPT ![c].pc = "sent", ![c].seq = sequence + 1]
    /\ latestForeground' = IF c \in load.background THEN latestForeground ELSE sequence + 1
    /\ UNCHANGED <<daemon, list, shown, active, closedIds, revision, latest, initialInput,
                   request, counters, history>>

\* The finally clause of a create: the last one classified frees the choice.
CreateEnds(c, now, ts, o) == active' = ActivateFirstAttached(now, ts, o, Pending \ {c})

\* An answer that no revision guards has undone what an event showed.
Overwritten(i, snap) ==
    overwritten' = IF latest[i] # None /\ latest[i].pres # snap.pres
                   THEN overwritten \cup {i} ELSE overwritten

\* The tab of an answered create, when the row becomes ts under the order o;
\* the newest foreground call's is activated.
Created(c, ts, o) ==
    LET i == create[c].id IN
    /\ initialInput' = IF c \in load.commands THEN initialInput \cup {i} ELSE initialInput
    /\ order' = o
    /\ tabs' = ts
    /\ task' = [task EXCEPT ![i] = [snap |-> Fresh, state |-> "running"]]
    /\ Overwritten(i, Fresh)
    /\ CreateEnds(c, IF c \notin load.background /\ latestForeground = create[c].seq
                     THEN i ELSE active, ts, o)

\* The session was closed before its create was answered.
NotCreated(c) ==
    /\ CreateEnds(c, active, tabs, order)
    /\ UNCHANGED <<initialInput, shown, overwritten>>

WithTab(i) == Append(Without(tabs, {i}), i)
Reordered(c) ==
    [order EXCEPT ![create[c].id] = [group |-> "created", index |-> create[c].seq]]

\* Mutation: the answer makes its tab without asking what was closed meanwhile.
CreateAnsweredBlindly(c) ==
    /\ create[c].pc = "made"
    /\ create' = [create EXCEPT ![c].pc = "done", ![c].ok = TRUE]
    /\ Created(c, SortTasks(WithTab(create[c].id), Reordered(c)), Reordered(c))
    /\ UNCHANGED <<daemon, list, closedIds, revision, latest, sequence, latestForeground,
                   request, counters, typed>>

\* Mutation: the tab is appended where the answer finds the row.
CreateAnsweredUnsorted(c) ==
    /\ create[c].pc = "made"
    /\ create' = [create EXCEPT ![c].pc = "done", ![c].ok = create[c].id \notin closedIds]
    /\ IF create[c].id \in closedIds THEN NotCreated(c)
       ELSE Created(c, WithTab(create[c].id), Reordered(c))
    /\ UNCHANGED <<daemon, list, closedIds, revision, latest, sequence, latestForeground,
                   request, counters, typed>>

\* Mutation: a tab an event made keeps the place the event gave it.
CreateAnsweredAttached(c) ==
    /\ create[c].pc = "made"
    /\ create' = [create EXCEPT ![c].pc = "done", ![c].ok = create[c].id \notin closedIds]
    /\ IF create[c].id \in closedIds THEN NotCreated(c)
       ELSE LET o == IF order[create[c].id] # None THEN order ELSE Reordered(c)
            IN Created(c, SortTasks(WithTab(create[c].id), o), o)
    /\ UNCHANGED <<daemon, list, closedIds, revision, latest, sequence, latestForeground,
                   request, counters, typed>>

\* The answer of a create: its tab takes its place among the created ones.
CreateAnswered(c) ==
    /\ create[c].pc = "made"
    /\ create' = [create EXCEPT ![c].pc = "done", ![c].ok = create[c].id \notin closedIds]
    /\ IF create[c].id \in closedIds THEN NotCreated(c)
       ELSE Created(c, SortTasks(WithTab(create[c].id), Reordered(c)), Reordered(c))
    /\ UNCHANGED <<daemon, list, closedIds, revision, latest, sequence, latestForeground,
                   request, counters, typed>>

\* The create was refused, or its answer is lost on the way.
CreateFails(c) ==
    /\ \/ create[c].pc = "refused" /\ UNCHANGED lost
       \/ create[c].pc = "made" /\ lost < load.lost /\ lost' = lost + 1
    /\ create' = [create EXCEPT ![c].pc = "done"]
    /\ CreateEnds(c, active, tabs, order)
    /\ UNCHANGED <<daemon, list, shown, closedIds, revision, latest, initialInput, sequence,
                   latestForeground, request, requests, elsewhere, history>>

-----------------------------------------------------------------------------
(* The requests made for a tab; one at a time for each id *)

Asks(i, kind, to, next) ==
    /\ HasTab(i) /\ request[i] = None
    /\ kind \in load.kinds /\ requests < load.requests
    /\ requests' = requests + 1
    /\ request' = [request EXCEPT ![i] =
          [kind |-> kind, pc |-> "sent", to |-> to, rev |-> revision[i], next |-> next]]

\* openTaskInTerminal, bringTaskBackToDock.
AskPresentation(i) ==
    /\ HasTab(i) /\ Asks(i, "present", Flipped(task[i].snap), None)
    /\ UNCHANGED <<daemon, list, shown, active, closedIds, revision, latest, initialInput,
                   calls, elsewhere, lost, history>>

\* renameTask: shown at once.
AskRename(i) ==
    LET to == [task[i].snap EXCEPT !.label = 1 - @] IN
    /\ HasTab(i) /\ Asks(i, "rename", to, None)
    /\ task' = [task EXCEPT ![i].snap = to]
    /\ UNCHANGED <<daemon, list, tabs, order, active, closedIds, revision, latest,
                   initialInput, calls, elsewhere, lost, history>>

AskStop(i) ==
    /\ HasTab(i) /\ Asks(i, "stop", task[i].snap, None)
    /\ UNCHANGED <<daemon, list, shown, active, closedIds, revision, latest, initialInput,
                   calls, elsewhere, lost, history>>

\* closeLeft: the tab that would take the place of the one closed.
Replacement(i) ==
    LET at == CHOOSE n \in DOMAIN tabs : tabs[n] = i
        remaining == Without(tabs, {i})
    IN IF remaining = <<>> THEN (IF active = Compose THEN Compose ELSE None)
       ELSE remaining[IF at <= Len(remaining) THEN at ELSE Len(remaining)]

AskClose(i) ==
    /\ HasTab(i) /\ Asks(i, "close", task[i].snap, Replacement(i))
    /\ closedIds' = closedIds \cup {i}
    /\ UNCHANGED <<daemon, list, shown, active, revision, latest, initialInput, calls,
                   elsewhere, lost, history>>

Removed(i) ==
    /\ tabs' = Without(tabs, {i})
    /\ order' = [order EXCEPT ![i] = None]
    /\ task' = [task EXCEPT ![i] = None]
    /\ initialInput' = initialInput \ {i}
    /\ active' = IF active = i THEN request[i].next ELSE active

\* Mutation: an answer is shown whatever events came since the request.
PresentationAlwaysShown(i) ==
    /\ request[i] # None /\ request[i].kind = "present" /\ request[i].pc = "served"
    /\ request' = [request EXCEPT ![i] = None]
    /\ IF HasTab(i)
       THEN task' = [task EXCEPT ![i].snap = request[i].to, ![i].state = "running"]
       ELSE UNCHANGED task
    /\ UNCHANGED <<daemon, list, tabs, order, active, closedIds, revision, latest,
                   initialInput, calls, counters, history>>

\* runPresentationAction: an answer older than an event is not shown.
PresentationAnswered(i) ==
    /\ request[i] # None /\ request[i].kind = "present" /\ request[i].pc = "served"
    /\ request' = [request EXCEPT ![i] = None]
    /\ IF HasTab(i) /\ revision[i] = request[i].rev
       THEN task' = [task EXCEPT ![i].snap = request[i].to, ![i].state = "running"]
       ELSE UNCHANGED task
    /\ UNCHANGED <<daemon, list, tabs, order, active, closedIds, revision, latest,
                   initialInput, calls, counters, history>>

RenameAnswered(i) ==
    /\ request[i] # None /\ request[i].kind = "rename" /\ request[i].pc = "served"
    /\ request' = [request EXCEPT ![i] = None]
    /\ task' = [task EXCEPT ![i].snap = request[i].to, ![i].state = "running"]
    /\ Overwritten(i, request[i].to)
    /\ UNCHANGED <<daemon, list, tabs, order, active, closedIds, revision, latest,
                   initialInput, calls, counters, typed>>

StopAnswered(i) ==
    /\ request[i] # None /\ request[i].kind = "stop" /\ request[i].pc = "served"
    /\ request' = [request EXCEPT ![i] = None]
    /\ task' = [task EXCEPT ![i].state = "exited"]
    /\ UNCHANGED <<daemon, list, tabs, order, active, closedIds, revision, latest,
                   initialInput, calls, counters, history>>

CloseAnswered(i) ==
    /\ request[i] # None /\ request[i].kind = "close" /\ request[i].pc = "served"
    /\ request' = [request EXCEPT ![i] = None]
    /\ Removed(i)
    /\ UNCHANGED <<daemon, list, closedIds, revision, latest, calls, counters, history>>

\* The daemon refused, or its answer is lost: a rename is taken back, the close
\* of an exited tab is a success all the same.
RequestFails(i) ==
    /\ request[i] # None
    /\ \/ request[i].pc = "refused" /\ UNCHANGED lost
       \/ request[i].pc = "served" /\ lost < load.lost /\ lost' = lost + 1
    /\ request' = [request EXCEPT ![i] = None]
    /\ LET kind == request[i].kind IN
       IF kind = "close" /\ task[i].state = "exited"
       THEN Removed(i) /\ UNCHANGED closedIds
       ELSE /\ closedIds' = IF kind = "close" THEN closedIds \ {i} ELSE closedIds
            /\ task' = IF kind = "rename" /\ task[i].snap.label = request[i].to.label
                       THEN [task EXCEPT ![i].snap.label = 1 - @] ELSE task
            /\ UNCHANGED <<tabs, order, initialInput, active>>
    /\ UNCHANGED <<daemon, list, revision, latest, calls, requests, elsewhere, history>>

-----------------------------------------------------------------------------
(* The viewports, and the person *)

\* A viewport is mounted while its session is presented in the dock.
IsMounted(i) == HasTab(i) /\ task[i].snap.pres = "dock"

\* Mutation: the command is read and left.
ClaimsAndKeeps(i) ==
    /\ IsMounted(i) /\ i \in Live
    /\ i \in initialInput
    /\ typed' = [typed EXCEPT ![i] = @ + 1]
    /\ UNCHANGED <<daemon, list, shown, active, closedIds, revision, latest, initialInput,
                   calls, request, counters, overwritten>>

\* connectWebTerminal: the shell's output has paused, the opening command is
\* claimed (claimInitialInput) and typed.
Claims(i) ==
    /\ IsMounted(i) /\ i \in Live
    /\ i \in initialInput
    /\ typed' = [typed EXCEPT ![i] = @ + 1]
    /\ initialInput' = initialInput \ {i}
    /\ UNCHANGED <<daemon, list, shown, active, closedIds, revision, latest, calls, request,
                   counters, overwritten>>

\* The socket of a session that is gone closes: the tab shows it exited.
SocketCloses(i) ==
    /\ IsMounted(i) /\ session[i] = Gone /\ task[i].state = "running"
    /\ task' = [task EXCEPT ![i].state = "exited"]
    /\ UNCHANGED <<daemon, list, tabs, order, active, closedIds, revision, latest,
                   initialInput, calls, request, counters, history>>

\* The person picks a tab, or the composer.
Activate ==
    /\ "pick" \in load.kinds /\ requests < load.requests
    /\ requests' = requests + 1
    /\ active' \in ToSet(tabs) \cup {Compose}
    /\ active' # active
    /\ UNCHANGED <<daemon, list, shown, closedIds, revision, latest, initialInput, calls,
                   request, elsewhere, lost, history>>

-----------------------------------------------------------------------------
Next ==
    /\ \/ StreamLists \/ StreamSubscribes \/ EventArrives
       \/ ListRead \/ ListArrives \/ ListFails
       \/ Elsewhere
       \/ \E c \in Creates :
             CallCreate(c) \/ CreateServed(c) \/ CreateRefused(c) \/ CreateAnswered(c) \/ CreateFails(c)
       \/ \E i \in Ids :
             \/ AskPresentation(i) \/ AskRename(i) \/ AskStop(i) \/ AskClose(i)
             \/ RequestServed(i)
             \/ PresentationAnswered(i) \/ RenameAnswered(i) \/ StopAnswered(i)
             \/ CloseAnswered(i) \/ RequestFails(i)
             \/ Claims(i) \/ SocketCloses(i)
       \/ Activate
    /\ UNCHANGED load

Spec == Init /\ [][Next]_vars

-----------------------------------------------------------------------------
\* Nothing is on its way to the dock.
IsQuiet ==
    /\ hydration = "settled" /\ stream = "on" /\ events = <<>>
    /\ \A i \in Ids : request[i] = None
    /\ Pending = {}

\* Tabs are unique, attached ones come first and created ones stand in the
\* order of their calls, whatever the order of the answers and events.
TabsInOrder ==
    /\ \A m, n \in DOMAIN tabs : m < n => tabs[m] # tabs[n] /\ ~Before(order, tabs[n], tabs[m])
    /\ \A c \in Creates : create[c].ok /\ HasTab(create[c].id) =>
          order[create[c].id] = [group |-> "created", index |-> create[c].seq]

\* A tab the dock has closed does not come back, by the answer of its create,
\* a late event or a late list.
ClosedStaysClosed == \A i \in closedIds : HasTab(i) => request[i] # None

\* The opening command of a shell is typed at most once, and only in its shell.
TypedOnce ==
    \A i \in Ids : typed[i] > 0 =>
        typed[i] = 1 /\ \E c \in load.commands : create[c].ok /\ create[c].id = i

\* "Keeps a newer presentation event when the launch response resolves later":
\* when nothing is on its way a tab shows where its session is, unless the
\* stream missed an event of it or the answer of a create or a rename, which no
\* revision guards, has undone one.
PresentationCurrent ==
    IsQuiet => \A i \in Live \ (missed \cup overwritten) :
                  HasTab(i) => task[i].snap.pres = session[i].pres

\* Every session that is live is a tab once nothing is on its way, unless the
\* dock closes it or the stream missed its creation.
NoSessionUnseen ==
    IsQuiet => \A i \in Live \ (missed \cup closedIds) : HasTab(i)

\* A task created in the background is brought to the front by the person or
\* by closing the tab in front, never by an answer, an event or a list.
BackgroundStays ==
    [][ \A c \in load.background :
          (create[c].id # None /\ active' = create[c].id /\ active # active' /\ create'[c].ok)
            => \/ Activate
               \/ \E i \in Ids : request[i] # None /\ request'[i] = None ]_vars
=============================================================================
