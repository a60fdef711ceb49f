--------------------------- MODULE TerminalManager ---------------------------
(***************************************************************************)
(* The registry of live PTY sessions (core/terminal: manager.rs, spawn.rs,  *)
(* external.rs).  An id names a session; each spawn under it is a           *)
(* generation with a process group, a waiter thread that reaps the child    *)
(* and publishes its end, and a reader thread that pumps its output.  A     *)
(* session is presented in the dock or, under a lease, in an external       *)
(* terminal served by a listener thread.                                    *)
(*                                                                         *)
(* Callers create, close, restart, open, reclaim, type and insert prompts   *)
(* at any time.  The registry's lock is held for one action; a generation's *)
(* control lock is a variable, for close holds it while it waits, input     *)
(* while it writes, and open and reclaim until they have announced what     *)
(* they did.  What is announced, and the bytes, are left out.               *)
(***************************************************************************)
EXTENDS Naturals, FiniteSets

CONSTANTS
    Ids,      \* ids of sessions
    Gens,     \* generations
    Leases,   \* leases of external terminals
    Callers,  \* threads that call the manager
    Loads,    \* instances: the operations asked for, spawns and leases at most
    None

AllOps == {"create", "close", "restart", "closeAll", "open", "reclaim", "prompt", "input"}

ASSUME ManagerAssumption ==
    /\ Loads \subseteq [ops : SUBSET AllOps, spawns : Nat, leases : Nat]
    /\ None \notin Ids \cup Gens \cup Leases \cup Callers

VARIABLES
    sess,          \* the generation registered under each id
    creating,      \* ids reserved for a create
    closing,       \* the generation each id is closing
    shuttingDown,
    state,         \* metadata.state of each generation
    cleaned,       \* group_cleanup_complete
    pres,          \* presentation
    attachment,    \* the lease of its external attachment
    external,      \* gate.external: the lease its output is forwarded to
    closed,        \* gate.closed
    prompting,     \* prompt_write_active
    control,       \* who holds the control lock
    idOf,          \* the id a generation was spawned under
    group,         \* its process group, for the operating system
    waiter,        \* its waiter thread
    reader,        \* its reader thread
    readerLease,   \* the lease the reader is to reset
    listener,      \* the thread of each lease
    leaseGen,      \* the generation a lease is of
    load,          \* the instance, the same throughout
    pc, op, on, target, lease, ok, left  \* the callers

registry == <<sess, creating, closing, shuttingDown>>
presentation == <<pres, attachment, external>>
ends == <<state, cleaned, waiter, group>>
gate == <<closed, reader, readerLease>>
listeners == <<listener, leaseGen>>
locks == <<prompting, control>>
caller == <<pc, op, on, target, lease, ok, left>>
vars == <<registry, presentation, ends, gate, listeners, locks, idOf, caller, load>>

\* Where a caller is, between two holdings of the registry's lock.
Places == {"idle", "reserve", "spawn", "complete", "announce", "resize", "look", "control",
           "hup", "wait", "kill", "confirm", "remove", "drain", "next", "seek", "take",
           "launch", "write", "finish"}

TypeOK ==
    /\ sess \in [Ids -> Gens \cup {None}]
    /\ creating \in SUBSET Ids
    /\ closing \in [Ids -> Gens \cup {None}]
    /\ shuttingDown \in BOOLEAN
    /\ state \in [Gens -> {"running", "exited", "error"}]
    /\ cleaned \in [Gens -> BOOLEAN]
    /\ pres \in [Gens -> {"dock", "launching", "terminal"}]
    /\ attachment \in [Gens -> Leases \cup {None}]
    /\ external \in [Gens -> Leases \cup {None}]
    /\ closed \in [Gens -> BOOLEAN]
    /\ prompting \in [Gens -> BOOLEAN]
    /\ control \in [Gens -> Callers \cup {None}]
    /\ idOf \in [Gens -> Ids]
    /\ group \in [Gens -> {"none", "alive", "orphans", "gone", "recycled"}]
    /\ waiter \in [Gens -> {"none", "waiting", "reaped", "confirming", "clean", "failed", "done"}]
    /\ reader \in [Gens -> {"none", "reading", "look", "reset", "done"}]
    /\ readerLease \in [Gens -> Leases \cup {None}]
    /\ listener \in [Leases -> {"none", "bound", "accepting", "accepted", "serving",
                                "resetting", "done"}]
    /\ leaseGen \in [Leases -> Gens]
    /\ load \in Loads
    /\ pc \in [Callers -> Places]
    /\ op \in [Callers -> AllOps]
    /\ on \in [Callers -> Ids]
    /\ target \in [Callers -> Gens \cup {None}]
    /\ lease \in [Callers -> Leases \cup {None}]
    /\ ok \in [Callers -> BOOLEAN]
    /\ left \in [Callers -> SUBSET Ids]

Init ==
    /\ sess = [i \in Ids |-> None]
    /\ creating = {}
    /\ closing = [i \in Ids |-> None]
    /\ shuttingDown = FALSE
    /\ state = [g \in Gens |-> "running"]
    /\ cleaned = [g \in Gens |-> FALSE]
    /\ pres = [g \in Gens |-> "dock"]
    /\ attachment = [g \in Gens |-> None]
    /\ external = [g \in Gens |-> None]
    /\ closed = [g \in Gens |-> FALSE]
    /\ prompting = [g \in Gens |-> FALSE]
    /\ control = [g \in Gens |-> None]
    /\ idOf \in [Gens -> Ids]
    /\ group = [g \in Gens |-> "none"]
    /\ waiter = [g \in Gens |-> "none"]
    /\ reader = [g \in Gens |-> "none"]
    /\ readerLease = [g \in Gens |-> None]
    /\ listener = [l \in Leases |-> "none"]
    /\ leaseGen \in [Leases -> Gens]
    /\ load \in Loads
    /\ pc = [c \in Callers |-> "idle"]
    /\ op = [c \in Callers |-> "create"]
    /\ on \in [Callers -> Ids]
    /\ target = [c \in Callers |-> None]
    /\ lease = [c \in Callers |-> None]
    /\ ok = [c \in Callers |-> FALSE]
    /\ left = [c \in Callers |-> {}]

IsRegistered(g) == sess[idOf[g]] = g

\* A process of the group still runs.
Runs(g) == group[g] \in {"alive", "orphans"}

-----------------------------------------------------------------------------
(* Presentation: what every actor may do to it, under the registry's lock *)

\* revoke_external_attachment: the lease ends and the dock has the session.
Revoke(g) ==
    /\ attachment' = [attachment EXCEPT ![g] = None]
    /\ external' = [external EXCEPT ![g] = IF @ = attachment[g] THEN None ELSE @]
    /\ pres' = [pres EXCEPT ![g] = IF attachment[g] = None THEN @ ELSE "dock"]

\* Mutation: whichever lease is attached is reset.
ResetAny(g, l) ==
    IF IsRegistered(g) /\ attachment[g] # None THEN Revoke(g) ELSE UNCHANGED presentation

\* reset_external_presentation: only the lease it was given is reset.
Reset(g, l) ==
    IF IsRegistered(g) /\ attachment[g] # None /\ attachment[g] = l
    THEN Revoke(g) ELSE UNCHANGED presentation

-----------------------------------------------------------------------------
(* The callers *)

Goes(c, where) == pc' = [pc EXCEPT ![c] = where]

Ends(c, good) ==
    /\ Goes(c, "idle")
    /\ ok' = [ok EXCEPT ![c] = good]

Calls(c, o, i) ==
    /\ pc[c] = "idle" /\ o \in load.ops
    /\ o = "restart" => sess[i] # None
    /\ Goes(c, CASE o = "create" -> "reserve"
                 [] o \in {"close", "restart"} -> "look"
                 [] o = "closeAll" -> "drain"
                 [] OTHER -> "seek")
    /\ op' = [op EXCEPT ![c] = o]
    /\ on' = [on EXCEPT ![c] = i]
    /\ target' = [target EXCEPT ![c] = None]
    /\ ok' = [ok EXCEPT ![c] = TRUE]
    /\ shuttingDown' = (shuttingDown \/ o = "closeAll")
    /\ UNCHANGED <<sess, creating, closing, presentation, ends, gate, listeners, locks, idOf,
                   lease, left>>

Busy(i) == closing[i] # None \/ (i \in creating /\ sess[i] = None)

\* What a create finds under its id is its answer; a restart resizes it.
Existing(c) == Goes(c, IF op[c] = "restart" THEN "resize" ELSE "idle") /\ UNCHANGED ok

Reserved(c) ==
    /\ creating' = creating \cup {on[c]}
    /\ Goes(c, "spawn")
    /\ UNCHANGED ok

\* Mutation: a create that began before the shutdown is let through.
ReserveAlways(c) ==
    /\ pc[c] = "reserve"
    /\ IF Busy(on[c]) THEN Ends(c, FALSE) /\ UNCHANGED creating
       ELSE IF sess[on[c]] # None THEN Existing(c) /\ UNCHANGED creating
       ELSE Reserved(c)
    /\ UNCHANGED <<sess, closing, shuttingDown, presentation, ends, gate, listeners, locks, idOf,
                   op, on, target, lease, left>>

\* reserve_id.
Reserve(c) ==
    /\ pc[c] = "reserve"
    /\ IF shuttingDown \/ Busy(on[c]) THEN Ends(c, FALSE) /\ UNCHANGED creating
       ELSE IF sess[on[c]] # None THEN Existing(c) /\ UNCHANGED creating
       ELSE Reserved(c)
    /\ UNCHANGED <<sess, closing, shuttingDown, presentation, ends, gate, listeners, locks, idOf,
                   op, on, target, lease, left>>

\* release_reservation: the child could not be spawned.
SpawnFails(c) ==
    /\ pc[c] = "spawn"
    /\ creating' = creating \ {on[c]}
    /\ Ends(c, FALSE)
    /\ UNCHANGED <<sess, closing, shuttingDown, presentation, ends, gate, listeners, locks, idOf,
                   op, on, target, lease, left>>

Spawn(c, g) ==
    /\ pc[c] = "spawn" /\ group[g] = "none"
    /\ Cardinality({h \in Gens : group[h] # "none"}) < load.spawns
    /\ group' = [group EXCEPT ![g] = "alive"]
    /\ idOf' = [idOf EXCEPT ![g] = on[c]]
    /\ target' = [target EXCEPT ![c] = g]
    /\ reader' = [reader EXCEPT ![g] = "reading"]
    /\ Goes(c, "complete")
    /\ UNCHANGED <<registry, presentation, state, cleaned, waiter, closed, readerLease, listeners,
                   locks, op, on, lease, ok, left>>

\* complete_reservation, start_child_waiter.
Complete(c) ==
    /\ pc[c] = "complete"
    /\ sess' = [sess EXCEPT ![on[c]] = target[c]]
    /\ creating' = creating \ {on[c]}
    /\ waiter' = [waiter EXCEPT ![target[c]] = "waiting"]
    /\ Goes(c, IF op[c] = "restart" THEN "resize" ELSE "idle")
    /\ UNCHANGED <<closing, shuttingDown, presentation, state, cleaned, group, gate, listeners,
                   locks, idOf, op, on, target, lease, ok, left>>

\* restart_session's last step: refused while it is not in the dock.
Resize(c) ==
    /\ pc[c] = "resize"
    /\ Ends(c, sess[on[c]] # None => pres[sess[on[c]]] = "dock")
    /\ UNCHANGED <<registry, presentation, ends, gate, listeners, locks, idOf, op, on, target,
                   lease, left>>

-----------------------------------------------------------------------------
(* close_session, restart_session and close_all *)

\* What the caller does after a close that succeeds, and one that fails.
Closed(c) ==
    /\ Goes(c, CASE op[c] = "close" -> "idle"
                 [] op[c] = "restart" -> "reserve"
                 [] OTHER -> "next")
    /\ UNCHANGED ok

NotClosed(c) ==
    /\ Goes(c, IF op[c] = "closeAll" THEN "next" ELSE "idle")
    /\ ok' = [ok EXCEPT ![c] = FALSE]

CloseLook(c) ==
    /\ pc[c] = "look"
    /\ IF on[c] \in creating THEN NotClosed(c) /\ UNCHANGED target
       ELSE IF sess[on[c]] = None THEN Closed(c) /\ UNCHANGED target
       ELSE /\ target' = [target EXCEPT ![c] = sess[on[c]]]
            /\ Goes(c, "control") /\ UNCHANGED ok
    /\ UNCHANGED <<registry, presentation, ends, gate, listeners, locks, idOf, op, on, lease, left>>

\* The session is the one whose control lock was asked for.
IsUnchanged(c) == sess[on[c]] = target[c]

\* With the control lock: nothing is left to close, or another generation is
\* there.
CloseFindsOther(c) ==
    /\ pc[c] = "control" /\ control[target[c]] = None
    /\ closing[on[c]] # None \/ ~IsUnchanged(c)
    /\ IF closing[on[c]] # None \/ (sess[on[c]] = None /\ on[c] \notin creating)
       THEN Closed(c) ELSE NotClosed(c)
    /\ UNCHANGED <<registry, presentation, ends, gate, listeners, locks, idOf, op, on, target,
                   lease, left>>

\* An ended session is removed, if its waiter confirmed the end of its group.
CloseEnded(c) ==
    LET g == target[c] IN
    /\ pc[c] = "control" /\ control[g] = None
    /\ closing[on[c]] = None /\ IsUnchanged(c) /\ state[g] # "running"
    /\ Revoke(g)
    /\ IF cleaned[g]
       THEN sess' = [sess EXCEPT ![on[c]] = None] /\ Closed(c)
       ELSE UNCHANGED sess /\ NotClosed(c)
    /\ UNCHANGED <<creating, closing, shuttingDown, ends, gate, listeners, locks, idOf, op, on,
                   target, lease, left>>

CloseTakes(c) ==
    LET g == target[c] IN
    /\ pc[c] = "control" /\ control[g] = None
    /\ closing[on[c]] = None /\ IsUnchanged(c) /\ state[g] = "running"
    /\ Revoke(g)
    /\ closing' = [closing EXCEPT ![on[c]] = g]
    /\ control' = [control EXCEPT ![g] = c]
    /\ Goes(c, "hup")
    /\ UNCHANGED <<sess, creating, shuttingDown, ends, gate, listeners, prompting, idOf, op, on,
                   target, lease, ok, left>>

\* signal_running_process_group, SIGHUP and then SIGKILL: the group may end,
\* as it may at any time.
CloseSignals(c) ==
    /\ pc[c] \in {"hup", "kill"}
    /\ Goes(c, IF pc[c] = "hup" THEN "wait" ELSE "confirm")
    /\ UNCHANGED <<registry, presentation, ends, gate, listeners, locks, idOf, op, on, target,
                   lease, ok, left>>

\* wait_for_terminal_cleanup: the waiter says so, or the operating system does
\* of a group the waiter gave up.
IsConfirmed(c) ==
    LET g == target[c] IN
    /\ IsUnchanged(c)
    /\ \/ state[g] = "exited" /\ cleaned[g]
       \/ state[g] = "error" /\ group[g] = "gone"

CloseConfirmed(c) ==
    /\ pc[c] \in {"wait", "confirm"} /\ IsConfirmed(c)
    /\ Goes(c, "remove")
    /\ UNCHANGED <<registry, presentation, ends, gate, listeners, locks, idOf, op, on, target,
                   lease, ok, left>>

CloseTimesOut(c) ==
    /\ pc[c] = "wait" /\ ~IsConfirmed(c)
    /\ Goes(c, "kill")
    /\ UNCHANGED <<registry, presentation, ends, gate, listeners, locks, idOf, op, on, target,
                   lease, ok, left>>

Released(c) == control' = [control EXCEPT ![target[c]] = None]

\* The end is not confirmed in time, or the signal was refused, for the pid is
\* now somebody else's.
CloseFails(c) ==
    \/ pc[c] = "confirm" /\ ~IsConfirmed(c)
    \/ /\ pc[c] \in {"hup", "kill"} /\ IsUnchanged(c)
       /\ state[target[c]] = "running" /\ group[target[c]] = "recycled"

\* Mutation: the session leaves the registry though its end is not confirmed.
CloseForgets(c) ==
    /\ CloseFails(c)
    /\ closing' = [closing EXCEPT ![on[c]] = None]
    /\ sess' = [sess EXCEPT ![on[c]] = None]
    /\ Released(c)
    /\ NotClosed(c)
    /\ UNCHANGED <<creating, shuttingDown, presentation, ends, gate, listeners, prompting, idOf,
                   op, on, target, lease, left>>

\* clear_closing: the session stays, and may be closed again.
CloseGivesUp(c) ==
    /\ CloseFails(c)
    /\ closing' = [closing EXCEPT ![on[c]] = None]
    /\ Released(c)
    /\ NotClosed(c)
    /\ UNCHANGED <<sess, creating, shuttingDown, presentation, ends, gate, listeners, prompting,
                   idOf, op, on, target, lease, left>>

\* remove_generation.
CloseRemoves(c) ==
    /\ pc[c] = "remove"
    /\ sess' = [sess EXCEPT ![on[c]] = IF IsUnchanged(c) THEN None ELSE @]
    /\ closing' = [closing EXCEPT ![on[c]] = IF @ = target[c] THEN None ELSE @]
    /\ Released(c)
    /\ IF IsUnchanged(c) THEN Closed(c) ELSE NotClosed(c)
    /\ UNCHANGED <<creating, shuttingDown, presentation, ends, gate, listeners, prompting, idOf,
                   op, on, target, lease, left>>

\* close_all waits for what is being created and closed, then takes the ids.
Drain(c) ==
    /\ pc[c] = "drain"
    /\ creating = {} /\ \A i \in Ids : closing[i] = None
    /\ left' = [left EXCEPT ![c] = {i \in Ids : sess[i] # None}]
    /\ Goes(c, "next")
    /\ UNCHANGED <<registry, presentation, ends, gate, listeners, locks, idOf, op, on, target,
                   lease, ok>>

CloseNext(c) ==
    /\ pc[c] = "next"
    /\ \/ left[c] = {} /\ Goes(c, "idle") /\ UNCHANGED <<on, left, target>>
       \/ \E i \in left[c] :
             /\ on' = [on EXCEPT ![c] = i]
             /\ left' = [left EXCEPT ![c] = @ \ {i}]
             /\ target' = [target EXCEPT ![c] = None]
             /\ Goes(c, "look")
    /\ UNCHANGED <<registry, presentation, ends, gate, listeners, locks, idOf, op, lease, ok>>


-----------------------------------------------------------------------------
(* open_in_terminal, reclaim_to_dock, insert_agent_prompt and write_input *)

\* The control lock of the session registered is looked up.
Seek(c) ==
    /\ pc[c] = "seek"
    /\ IF sess[on[c]] = None
       THEN Ends(c, op[c] = "input") /\ UNCHANGED target
       ELSE /\ target' = [target EXCEPT ![c] = sess[on[c]]]
            /\ Goes(c, "take") /\ UNCHANGED ok
    /\ UNCHANGED <<registry, presentation, ends, gate, listeners, locks, idOf, op, on, lease, left>>

\* validate_external_launch.
IsLaunchable(g) ==
    /\ state[g] = "running" /\ ~closed[g]
    /\ pres[g] = "dock" /\ attachment[g] = None
    /\ ~prompting[g]

CanOpen(c) == IsUnchanged(c) /\ IsLaunchable(target[c])

CanReclaim(c) == IsUnchanged(c) /\ ~prompting[target[c]]

\* Mutation: a prompt that is being written is not looked for.
CanInputOverPrompt(c) == IsUnchanged(c) /\ pres[target[c]] = "dock"

CanInput(c) == IsUnchanged(c) /\ ~prompting[target[c]] /\ pres[target[c]] = "dock"

\* validate_agent_prompt_target, of the session still there.
TakesPrompts(c) ==
    /\ ~shuttingDown /\ closing[on[c]] = None /\ IsUnchanged(c)
    /\ state[target[c]] = "running" /\ pres[target[c]] # "launching"

CanPrompt(c) == TakesPrompts(c) /\ ~prompting[target[c]]

\* With the control lock: what was asked is refused.
Refused(c) ==
    /\ pc[c] = "take" /\ control[target[c]] = None
    /\ CASE op[c] = "open" -> ~CanOpen(c)
         [] op[c] = "reclaim" -> ~CanReclaim(c)
         [] op[c] = "prompt" -> ~CanPrompt(c)
         [] op[c] = "input" -> ~CanInput(c)
    /\ Ends(c, op[c] = "input" /\ sess[on[c]] = None)
    /\ UNCHANGED <<registry, presentation, ends, gate, listeners, locks, idOf, op, on, target,
                   lease, left>>

\* prepare_attachment_lease: a socket is bound, the lease attached.
OpenTakes(c, l) ==
    LET g == target[c] IN
    /\ pc[c] = "take" /\ op[c] = "open" /\ control[g] = None /\ CanOpen(c)
    /\ listener[l] = "none"
    /\ Cardinality({k \in Leases : listener[k] # "none"}) < load.leases
    /\ listener' = [listener EXCEPT ![l] = "bound"]
    /\ leaseGen' = [leaseGen EXCEPT ![l] = g]
    /\ attachment' = [attachment EXCEPT ![g] = l]
    /\ pres' = [pres EXCEPT ![g] = "launching"]
    /\ control' = [control EXCEPT ![g] = c]
    /\ lease' = [lease EXCEPT ![c] = l]
    /\ Goes(c, "announce")
    /\ UNCHANGED <<registry, ends, gate, external, prompting, idOf, op, on, target, ok, left>>

\* reclaim_to_dock.
ReclaimTakes(c) ==
    LET g == target[c] IN
    /\ pc[c] = "take" /\ op[c] = "reclaim" /\ control[g] = None /\ CanReclaim(c)
    /\ Revoke(g)
    /\ control' = [control EXCEPT ![g] = c]
    /\ Goes(c, "announce")
    /\ UNCHANGED <<registry, ends, gate, listeners, prompting, idOf, op, on, target, lease, ok,
                   left>>

\* The change is announced under the control lock; then it is released and the
\* listener of an opening started.
Announces(c) ==
    /\ pc[c] = "announce"
    /\ Released(c)
    /\ IF op[c] = "open"
       THEN listener' = [listener EXCEPT ![lease[c]] = "accepting"] /\ Goes(c, "launch")
       ELSE UNCHANGED listener /\ Goes(c, "idle")
    /\ UNCHANGED <<registry, presentation, ends, gate, leaseGen, prompting, idOf, op, on, target,
                   lease, ok, left>>

\* launch_terminal succeeds, or fails and the lease is reset.
Launches(c) ==
    /\ pc[c] = "launch"
    /\ \/ Ends(c, TRUE) /\ UNCHANGED presentation
       \/ Ends(c, FALSE) /\ Reset(leaseGen[lease[c]], lease[c])
    /\ lease' = [lease EXCEPT ![c] = None]
    /\ UNCHANGED <<registry, ends, gate, listeners, locks, idOf, op, on, target, left>>

\* write_input holds the control lock while it writes.
InputTakes(c) ==
    /\ pc[c] = "take" /\ op[c] = "input" /\ control[target[c]] = None /\ CanInput(c)
    /\ control' = [control EXCEPT ![target[c]] = c]
    /\ Goes(c, "write")
    /\ UNCHANGED <<registry, presentation, ends, gate, listeners, prompting, idOf, op, on, target,
                   lease, ok, left>>

\* insert_agent_prompt releases it, under a flag.
PromptTakes(c) ==
    /\ pc[c] = "take" /\ op[c] = "prompt" /\ control[target[c]] = None /\ CanPrompt(c)
    /\ prompting' = [prompting EXCEPT ![target[c]] = TRUE]
    /\ Goes(c, "write")
    /\ UNCHANGED <<registry, presentation, ends, gate, listeners, control, idOf, op, on, target,
                   lease, ok, left>>

Writes(c) ==
    /\ pc[c] = "write"
    /\ IF op[c] = "input"
       THEN Released(c) /\ Goes(c, "idle")
       ELSE UNCHANGED control /\ Goes(c, "finish")
    /\ UNCHANGED <<registry, presentation, ends, gate, listeners, prompting, idOf, op, on, target,
                   lease, ok, left>>

PromptFinishes(c) ==
    /\ pc[c] = "finish"
    /\ prompting' = IF IsUnchanged(c) THEN [prompting EXCEPT ![target[c]] = FALSE] ELSE prompting
    /\ Ends(c, TakesPrompts(c))
    /\ UNCHANGED <<registry, presentation, ends, gate, listeners, control, idOf, op, on, target,
                   lease, left>>

-----------------------------------------------------------------------------
(* The process group and its waiter *)

\* The leader exits, with or without what it started; the rest follows.
GroupEnds(g) ==
    /\ Runs(g)
    /\ group' = [group EXCEPT ![g] = IF @ = "alive" THEN "orphans" ELSE "gone"]
    /\ UNCHANGED <<registry, presentation, state, cleaned, waiter, gate, listeners, locks, idOf,
                   caller>>

\* The operating system reuses the pid of a leader that was reaped.
PidRecycled(g) ==
    /\ group[g] = "gone" /\ waiter[g] \notin {"none", "waiting"}
    /\ group' = [group EXCEPT ![g] = "recycled"]
    /\ UNCHANGED <<registry, presentation, state, cleaned, waiter, gate, listeners, locks, idOf,
                   caller>>

\* child.wait().
WaiterReaps(g) ==
    /\ waiter[g] = "waiting" /\ group[g] \in {"orphans", "gone"}
    /\ waiter' = [waiter EXCEPT ![g] = "reaped"]
    /\ UNCHANGED <<registry, presentation, state, cleaned, group, gate, listeners, locks, idOf,
                   caller>>

\* cleanup_process_group_after_wait: what is left of the group is killed.
WaiterKills(g) ==
    /\ waiter[g] = "reaped"
    /\ waiter' = [waiter EXCEPT ![g] = IF group[g] = "gone" THEN "clean" ELSE "confirming"]
    /\ UNCHANGED <<registry, presentation, state, cleaned, group, gate, listeners, locks, idOf,
                   caller>>

\* wait_for_process_group_exit: the group is seen to be gone, or time is up.
WaiterConfirms(g) ==
    /\ waiter[g] = "confirming"
    /\ waiter' = [waiter EXCEPT ![g] = IF group[g] = "gone" THEN "clean" ELSE "failed"]
    /\ UNCHANGED <<registry, presentation, state, cleaned, group, gate, listeners, locks, idOf,
                   caller>>

\* Mutation: the end is published before the group is confirmed gone.
WaiterPublishesEarly(g) ==
    /\ waiter[g] \in {"clean", "failed"}
    /\ waiter' = [waiter EXCEPT ![g] = "done"]
    /\ IF IsRegistered(g)
       THEN /\ cleaned' = [cleaned EXCEPT ![g] = TRUE]
            /\ state' = [state EXCEPT ![g] = "exited"]
       ELSE UNCHANGED <<cleaned, state>>
    /\ UNCHANGED <<registry, presentation, group, gate, listeners, locks, idOf, caller>>

\* Its end is published, unless another generation has taken the id.
WaiterPublishes(g) ==
    /\ waiter[g] \in {"clean", "failed"}
    /\ waiter' = [waiter EXCEPT ![g] = "done"]
    /\ IF IsRegistered(g)
       THEN /\ cleaned' = [cleaned EXCEPT ![g] = waiter[g] = "clean"]
            /\ state' = [state EXCEPT ![g] = IF waiter[g] = "clean" THEN "exited" ELSE "error"]
       ELSE UNCHANGED <<cleaned, state>>
    /\ UNCHANGED <<registry, presentation, group, gate, listeners, locks, idOf, caller>>

-----------------------------------------------------------------------------
(* The reader of a generation's output, and the listener of a lease *)

\* forward_external_output: the external terminal does not keep up.
ForwardFails(g) ==
    /\ reader[g] = "reading" /\ external[g] # None /\ readerLease[g] = None
    /\ external' = [external EXCEPT ![g] = None]
    /\ readerLease' = [readerLease EXCEPT ![g] = external[g]]
    /\ UNCHANGED <<registry, pres, attachment, ends, closed, reader, listeners, locks, idOf,
                   caller>>

\* Mutation: a lease that nothing is forwarded to yet is not looked for.
ReaderEndsQuietly(g) ==
    /\ reader[g] = "reading" /\ readerLease[g] = None
    /\ group[g] # "alive"
    /\ closed' = [closed EXCEPT ![g] = TRUE]
    /\ external' = [external EXCEPT ![g] = None]
    /\ readerLease' = [readerLease EXCEPT ![g] = external[g]]
    /\ reader' = [reader EXCEPT ![g] = IF external[g] = None THEN "done" ELSE "reset"]
    /\ UNCHANGED <<registry, pres, attachment, ends, listeners, locks, idOf, caller>>

\* The PTY ends with its group: the gate is closed.
ReaderEnds(g) ==
    /\ reader[g] = "reading" /\ readerLease[g] = None
    /\ group[g] # "alive"
    /\ closed' = [closed EXCEPT ![g] = TRUE]
    /\ external' = [external EXCEPT ![g] = None]
    /\ readerLease' = [readerLease EXCEPT ![g] = external[g]]
    /\ reader' = [reader EXCEPT ![g] = IF external[g] = None THEN "look" ELSE "reset"]
    /\ UNCHANGED <<registry, pres, attachment, ends, listeners, locks, idOf, caller>>

\* With nothing to forward to, a lease that is attached is looked up.
ReaderLooks(g) ==
    /\ reader[g] = "look"
    /\ readerLease' = [readerLease EXCEPT ![g] = IF IsRegistered(g) THEN attachment[g] ELSE None]
    /\ reader' = [reader EXCEPT ![g] = "reset"]
    /\ UNCHANGED <<registry, presentation, ends, closed, listeners, locks, idOf, caller>>

ReaderResets(g) ==
    /\ reader[g] = "reset" \/ (reader[g] # "look" /\ readerLease[g] # None)
    /\ reader' = [reader EXCEPT ![g] = IF @ = "reset" THEN "done" ELSE @]
    /\ readerLease' = [readerLease EXCEPT ![g] = None]
    /\ Reset(g, readerLease[g])
    /\ UNCHANGED <<registry, ends, closed, listeners, locks, idOf, caller>>

Listens(l, where) == listener' = [listener EXCEPT ![l] = where]

\* accept_authenticated, while the lease is the one attached.
Accepts(l) ==
    LET g == leaseGen[l] IN
    /\ listener[l] = "accepting"
    /\ IsRegistered(g) /\ state[g] = "running" /\ pres[g] = "launching"
    /\ attachment[g] = l /\ ~closed[g]
    /\ Listens(l, "accepted")
    /\ UNCHANGED <<registry, presentation, ends, gate, leaseGen, locks, idOf, caller>>

\* Nobody comes in time, or the lease is over; the connection fails.
GivesUp(l) ==
    /\ listener[l] \in {"accepting", "accepted"}
    /\ Listens(l, "resetting")
    /\ UNCHANGED <<registry, presentation, ends, gate, leaseGen, locks, idOf, caller>>

Outside(l) ==
    LET g == leaseGen[l] IN
    /\ Listens(l, "serving")
    /\ external' = [external EXCEPT ![g] = l]
    /\ pres' = [pres EXCEPT ![g] = "terminal"]
    /\ UNCHANGED attachment

\* Mutation: the lease is not looked at again once somebody is connected.
EstablishesAny(l) ==
    LET g == leaseGen[l] IN
    /\ listener[l] = "accepted"
    /\ IF ~IsRegistered(g) THEN Listens(l, "done") /\ UNCHANGED presentation
       ELSE IF state[g] # "running" \/ closed[g]
       THEN Listens(l, "resetting") /\ UNCHANGED presentation
       ELSE Outside(l)
    /\ UNCHANGED <<registry, ends, gate, leaseGen, locks, idOf, caller>>

\* The external terminal takes the session over, if the lease still stands.
Establishes(l) ==
    LET g == leaseGen[l] IN
    /\ listener[l] = "accepted"
    /\ IF ~IsRegistered(g) \/ attachment[g] # l
       THEN Listens(l, "done") /\ UNCHANGED presentation
       ELSE IF state[g] # "running" \/ closed[g]
       THEN Listens(l, "resetting") /\ UNCHANGED presentation
       ELSE Outside(l)
    /\ UNCHANGED <<registry, ends, gate, leaseGen, locks, idOf, caller>>

\* It detaches, is revoked, or types after its lease is over.
Detaches(l) ==
    /\ listener[l] = "serving"
    /\ Listens(l, "resetting")
    /\ UNCHANGED <<registry, presentation, ends, gate, leaseGen, locks, idOf, caller>>

ListenerResets(l) ==
    /\ listener[l] = "resetting"
    /\ Listens(l, "done")
    /\ Reset(leaseGen[l], l)
    /\ UNCHANGED <<registry, ends, gate, leaseGen, locks, idOf, caller>>

-----------------------------------------------------------------------------
Create(c) ==
    Reserve(c) \/ SpawnFails(c) \/ (\E g \in Gens : Spawn(c, g)) \/ Complete(c) \/ Resize(c)
Close(c) ==
    \/ CloseLook(c) \/ CloseFindsOther(c) \/ CloseEnded(c) \/ CloseTakes(c) \/ CloseSignals(c)
    \/ CloseConfirmed(c) \/ CloseTimesOut(c) \/ CloseGivesUp(c) \/ CloseRemoves(c)
CloseAll(c) == Drain(c) \/ CloseNext(c)
Uses(c) ==
    \/ Seek(c) \/ Refused(c) \/ (\E l \in Leases : OpenTakes(c, l)) \/ ReclaimTakes(c)
    \/ Announces(c) \/ Launches(c) \/ InputTakes(c) \/ PromptTakes(c) \/ Writes(c)
    \/ PromptFinishes(c)
Caller(c) == Create(c) \/ Close(c) \/ CloseAll(c) \/ Uses(c)
Waiter(g) == WaiterReaps(g) \/ WaiterKills(g) \/ WaiterConfirms(g) \/ WaiterPublishes(g)
Reader(g) == ReaderEnds(g) \/ ReaderLooks(g) \/ ReaderResets(g) \/ ForwardFails(g)
Listener(l) ==
    Accepts(l) \/ GivesUp(l) \/ Establishes(l) \/ Detaches(l) \/ ListenerResets(l)

\* Where nothing is opened the readers are left out: what they change is read
\* by openings and their listeners only.
Next ==
    /\ \/ \E c \in Callers :
             \/ \E o \in AllOps, i \in Ids : Calls(c, o, i)
             \/ Caller(c)
       \/ \E g \in Gens :
             \/ GroupEnds(g) \/ PidRecycled(g) \/ Waiter(g)
             \/ "open" \in load.ops /\ Reader(g)
       \/ \E l \in Leases : Listener(l)
    /\ UNCHANGED load

Spec == Init /\ [][Next]_vars

-----------------------------------------------------------------------------
\* A process group that runs is the registered session's of its id, or is
\* about to be registered by its create: no path loses a running group.
NoOrphan ==
    \A g \in Gens : Runs(g) =>
        \/ IsRegistered(g)
        \/ \E c \in Callers : pc[c] = "complete" /\ target[c] = g

\* "A reader thread or a waiter belonging to a replaced session can never
\* publish state over its successor": a session that says its group was
\* cleaned up has none that runs.
StateTruthful ==
    \A i \in Ids : sess[i] # None =>
        (cleaned[sess[i]] => state[sess[i]] = "exited" /\ ~Runs(sess[i]))

\* A close that succeeded has ended the group of the generation it found.
CloseMeansGone ==
    \A c \in Callers :
        (pc[c] = "idle" /\ op[c] = "close" /\ ok[c] /\ target[c] # None) => ~Runs(target[c])

\* When close_all has succeeded nothing runs, and nothing can be started.
ShutdownComplete ==
    (\E c \in Callers : pc[c] = "idle" /\ op[c] = "closeAll" /\ ok[c]) =>
        /\ \A g \in Gens : ~Runs(g)
        /\ \A c \in Callers : pc[c] \notin {"spawn", "complete"}

\* A session is presented outside the dock exactly while a lease is attached.
LeasedOutside == \A g \in Gens : pres[g] # "dock" <=> attachment[g] # None

\* "A stale attachment can never reset a presentation the next one
\* established": a lease that ends, ends by its own thread, its session's
\* reader or the caller that opened it, or by a reclaim or a close.
StaleNeverResets ==
    [][ \A g \in Gens :
          (attachment[g] # None /\ attachment'[g] # attachment[g]) =>
            \/ \E l \in Leases : listener[l] # listener'[l] /\ l = attachment[g]
            \/ readerLease[g] = attachment[g]
            \/ \E c \in Callers : pc[c] # pc'[c] /\
                  \/ pc[c] = "launch" /\ lease[c] = attachment[g]
                  \/ pc[c] \in {"take", "control"} /\ target[c] = g ]_vars

\* What the external terminal types is written: run_external_listener, INPUT.
ExternalWrites(l) ==
    LET g == leaseGen[l] IN
    /\ listener[l] = "serving" /\ control[g] = None
    /\ IsRegistered(g) /\ ~prompting[g] /\ state[g] = "running"
    /\ pres[g] = "terminal" /\ attachment[g] = l

\* The dock's keys, a prompt and an external terminal never write to one PTY
\* at once.
OneWriter ==
    /\ \A c, d \in Callers :
          (c # d /\ pc[c] = "write" /\ pc[d] = "write") => target[c] # target[d]
    /\ \A l \in Leases, c \in Callers :
          (ExternalWrites(l) /\ pc[c] = "write") => target[c] # leaseGen[l]

\* A session whose PTY has ended is not left in an external terminal once the
\* reader and what it reset are done.
EndedNotOutside ==
    \A g \in Gens : (IsRegistered(g) /\ reader[g] = "done") => pres[g] = "dock"
=============================================================================
