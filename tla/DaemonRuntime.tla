----------------------------- MODULE DaemonRuntime -----------------------------
(***************************************************************************)
(* The daemon around the process manager: clients admitted through a phase *)
(* and a read-write gate, the coordinator that drains on a shutdown        *)
(* request or a signal, the recovery before the first client is served,    *)
(* and the exit of the daemon.                                             *)
(*                                                                         *)
(* Coordinator is the request slot through which the daemon itself calls   *)
(* the process manager; the other slots are HTTP requests.  A request is   *)
(* at the gate, loading the configuration with its permit, or in the       *)
(* process manager, and holds its permit until that returns.               *)
(***************************************************************************)
EXTENDS ProcessManager

CONSTANT Coordinator

ASSUME CoordinatorAssumption ==
  /\ Coordinator \in Reqs
  /\ {"shutdown", "reconcile"} \subseteq Offered

Clients == Reqs \ {Coordinator}
Mutations == Offered \cap {"start", "stop", "restart"}

VARIABLES
  serving,        \* how far this daemon has come
  phase,          \* DaemonRuntime::phase
  ask,            \* ask[r]: what client r wants and how far it was admitted
  channel,        \* the shutdown channel, of capacity one
  signalWaits,    \* whether a signal waits for room in the channel
  request,        \* the shutdown request the coordinator is working on
  drain           \* how far shutdown_with has come

daemonVars == <<serving, phase, ask, channel, signalWaits, request, drain>>
allVars == <<vars, daemonVars>>

Requests == {"none", "requested", "signalled"}

NoAsk == [at |-> "none", op |-> "stop", svc |-> CHOOSE s \in Services : TRUE]

DaemonTypeOK ==
  /\ serving \in {"starting", "reconciling", "up", "closing"}
  /\ phase \in {"running", "draining", "failed"}
  /\ ask \in [Clients -> [at : {"none", "gate", "load"},
                          op : {"start", "stop", "restart"}, svc : Services]]
  /\ channel \in Requests /\ request \in Requests
  /\ signalWaits \in BOOLEAN
  /\ drain \in {"none", "permit", "cleanup", "done"}

DaemonInit ==
  /\ Init
  /\ serving = "starting" /\ phase = "running"
  /\ ask = [r \in Clients |-> NoAsk]
  /\ channel = "none" /\ signalWaits = FALSE
  /\ request = "none" /\ drain = "none"

-------------------------------------------------------------------------------
(* serve_on_listener: recovery comes before the first client, and its      *)
(* failure ends the daemon.                                                *)

Boot ==
  /\ serving = "starting"
  /\ Call(Coordinator, "reconcile", svc[Coordinator])
  /\ serving' = "reconciling"
  /\ UNCHANGED <<phase, ask, channel, signalWaits, request, drain>>

Recovered == answer[Coordinator] = "ok"

(* A faulty variant: an error of the recovery does not end the daemon.     *)
ServeAnyway ==
  /\ serving = "reconciling" /\ pc[Coordinator] = "idle"
  /\ serving' = "up"
  /\ UNCHANGED <<vars, phase, ask, channel, signalWaits, request, drain>>

Serve ==
  /\ serving = "reconciling" /\ pc[Coordinator] = "idle" /\ Recovered
  /\ serving' = "up"
  /\ UNCHANGED <<vars, phase, ask, channel, signalWaits, request, drain>>

(* The process ends, and the process manager's tasks and tables with it.   *)
End ==
  /\ Crash
  /\ serving' = "starting" /\ phase' = "running"
  /\ ask' = [r \in Clients |-> NoAsk]
  /\ channel' = "none" /\ signalWaits' = FALSE
  /\ request' = "none" /\ drain' = "none"

BootFails ==
  /\ serving = "reconciling" /\ pc[Coordinator] = "idle" /\ ~Recovered
  /\ End

-------------------------------------------------------------------------------
(* Admission of the clients' requests.                                     *)

(* require_start_allowed, require_stop_allowed.                            *)
Allowed(o) ==
  \/ phase = "running"
  \/ phase = "failed" /\ o = "stop"

(* A client still has a permit to drop.                                    *)
Admitted(r) == ask[r].at = "load" \/ pc[r] # "idle"

(* A refused request changes nothing, so only the allowed ones are steps.  *)
Ask(r, o, s) ==
  /\ up /\ serving = "up"
  /\ ask[r].at = "none" /\ pc[r] = "idle"
  /\ Allowed(o)
  /\ ask' = [ask EXCEPT ![r] = [at |-> "gate", op |-> o, svc |-> s]]
  /\ UNCHANGED <<vars, serving, phase, channel, signalWaits, request, drain>>

(* A faulty variant: the phase is not looked at again under the permit.    *)
AdmitUnchecked(r) ==
  /\ ask[r].at = "gate" /\ drain # "cleanup"
  /\ ask' = [ask EXCEPT ![r].at = "load"]
  /\ UNCHANGED <<vars, serving, phase, channel, signalWaits, request, drain>>

(* The read permit is granted, and the phase checked again under it.       *)
Admit(r) ==
  /\ ask[r].at = "gate" /\ drain # "cleanup"
  /\ ask' = [ask EXCEPT ![r] = IF Allowed(ask[r].op)
                               THEN [@ EXCEPT !.at = "load"] ELSE NoAsk]
  /\ UNCHANGED <<vars, serving, phase, channel, signalWaits, request, drain>>

(* The configuration cannot be loaded or has no such service.  A stop does *)
(* not look there for a service the process manager knows.                 *)
NotRegistered(r) ==
  /\ ask[r].at = "load"
  /\ ask[r].op = "stop" => entry[ask[r].svc].state = "absent"
  /\ ask' = [ask EXCEPT ![r] = NoAsk]
  /\ UNCHANGED <<vars, serving, phase, channel, signalWaits, request, drain>>

(* The call of the process manager; its return drops the permit.           *)
Perform(r) ==
  /\ ask[r].at = "load"
  /\ Call(r, ask[r].op, ask[r].svc)
  /\ ask' = [ask EXCEPT ![r] = NoAsk]
  /\ UNCHANGED <<serving, phase, channel, signalWaits, request, drain>>

-------------------------------------------------------------------------------
(* Shutdown requests.                                                      *)

(* POST /api/daemon/shutdown: dropped, though acknowledged, when there is  *)
(* one in the channel already.                                             *)
RequestShutdown ==
  /\ up /\ serving = "up" /\ drain # "done"
  /\ channel = "none" /\ channel' = "requested"
  /\ UNCHANGED <<vars, serving, phase, ask, signalWaits, request, drain>>

(* SIGTERM, SIGINT, or a runtime home that is gone: waits for room.  Once  *)
(* the coordinator has returned the send fails and the process exits.      *)
Signal ==
  /\ up /\ drain # "done" /\ ~signalWaits
  /\ IF channel = "none"
     THEN channel' = "signalled" /\ UNCHANGED signalWaits
     ELSE signalWaits' = TRUE /\ UNCHANGED channel
  /\ UNCHANGED <<vars, serving, phase, ask, request, drain>>

(* The coordinator takes a request and closes the phase.  The room it made *)
(* goes to the signal that waits for it.                                   *)
Receive ==
  /\ up /\ serving = "up" /\ drain = "none" /\ channel # "none"
  /\ request' = channel
  /\ channel' = IF signalWaits THEN "signalled" ELSE "none"
  /\ signalWaits' = FALSE
  /\ phase' = "draining" /\ drain' = "permit"
  /\ UNCHANGED <<vars, serving, ask>>

(* The write permit is granted once no client holds one.                   *)
CleanUp ==
  /\ drain = "permit"
  /\ \A r \in Clients : ~Admitted(r)
  /\ Call(Coordinator, "shutdown", svc[Coordinator])
  /\ drain' = "cleanup"
  /\ UNCHANGED <<serving, phase, ask, channel, signalWaits, request>>

CleanedUp == drain = "cleanup" /\ pc[Coordinator] = "idle"

Drained ==
  /\ CleanedUp /\ answer[Coordinator] = "ok"
  /\ drain' = "done" /\ serving' = "closing"
  /\ UNCHANGED <<vars, phase, ask, channel, signalWaits, request>>

(* A faulty variant: a failed cleanup refuses whatever asked for it.       *)
DrainRefused ==
  /\ CleanedUp /\ answer[Coordinator] # "ok"
  /\ phase' = "failed" /\ drain' = "none" /\ request' = "none"
  /\ UNCHANGED <<vars, serving, ask, channel, signalWaits>>

(* A faulty variant: the phase opens again after a failed cleanup.         *)
DrainReopens ==
  /\ CleanedUp /\ answer[Coordinator] # "ok"
  /\ phase' = "running"
  /\ IF request = "signalled"
     THEN drain' = "done" /\ serving' = "closing" /\ UNCHANGED request
     ELSE drain' = "none" /\ request' = "none" /\ UNCHANGED serving
  /\ UNCHANGED <<vars, ask, channel, signalWaits>>

(* A faulty variant: the phase stays as it was when the cleanup began.     *)
DrainStays ==
  /\ CleanedUp /\ answer[Coordinator] # "ok"
  /\ IF request = "signalled"
     THEN drain' = "done" /\ serving' = "closing" /\ UNCHANGED request
     ELSE drain' = "none" /\ request' = "none" /\ UNCHANGED serving
  /\ UNCHANGED <<vars, phase, ask, channel, signalWaits>>

(* A failed cleanup refuses a request, but not a signal.                   *)
DrainFails ==
  /\ CleanedUp /\ answer[Coordinator] # "ok"
  /\ phase' = "failed"
  /\ IF request = "signalled"
     THEN drain' = "done" /\ serving' = "closing" /\ UNCHANGED request
     ELSE drain' = "none" /\ request' = "none" /\ UNCHANGED serving
  /\ UNCHANGED <<vars, ask, channel, signalWaits>>

(* Requests in flight get a grace period; at its end, or when a further    *)
(* signal finds no coordinator, the process exits whatever is left.        *)
Exit == serving = "closing" /\ End

(* Killed, or a panic: at any moment.                                      *)
Killed == End

(* Bound: no daemon is started whose end would exceed MaxCrashes, so that  *)
(* every daemon can end.                                                   *)
NextDaemon ==
  /\ crashes < MaxCrashes
  /\ Reborn
  /\ UNCHANGED daemonVars

-------------------------------------------------------------------------------
(* What the process manager does by itself.                                *)

Waits(r) == EntersLock(r) \/ EntersRecovery(r) \/ EnterGate(r)

ManagerStep ==
  /\ \/ \E r \in Reqs : Waits(r) \/ RequestStep(r)
     \/ \E p \in Pids : SupervisorStep(p) \/ OSStep(p)
  /\ UNCHANGED daemonVars

ClientStep(r) == Admit(r) \/ NotRegistered(r) \/ Perform(r)

CoordinatorStep ==
  Boot \/ Serve \/ Receive \/ CleanUp \/ Drained \/ DrainFails

DaemonNext ==
  \/ ManagerStep
  \/ \E r \in Clients, o \in Mutations, s \in Services : Ask(r, o, s)
  \/ \E r \in Clients : ClientStep(r)
  \/ RequestShutdown \/ Signal
  \/ CoordinatorStep
  \/ BootFails \/ Exit \/ Killed \/ NextDaemon

DaemonSpec == DaemonInit /\ [][DaemonNext]_allVars

(* Tasks that can run do; the gate is FIFO, so a permit that keeps         *)
(* becoming free is granted.                                               *)
DaemonFairness ==
  /\ \A r \in Reqs :
       /\ WF_allVars(RequestStep(r) /\ UNCHANGED daemonVars)
       /\ SF_allVars(EntersLock(r) /\ UNCHANGED daemonVars)
       /\ SF_allVars(EntersRecovery(r) /\ UNCHANGED daemonVars)
       /\ SF_allVars(EnterGate(r) /\ UNCHANGED daemonVars)
  /\ \A p \in Pids :
       /\ WF_allVars(SupervisorStep(p) /\ UNCHANGED daemonVars)
       /\ WF_allVars((Exec(p) \/ ParkedLeaves(p)) /\ UNCHANGED daemonVars)
  /\ \A r \in Clients : SF_allVars(Admit(r)) /\ WF_allVars(Perform(r))
  /\ WF_allVars(CoordinatorStep) /\ WF_allVars(BootFails \/ Exit)

FairDaemonSpec == DaemonSpec /\ DaemonFairness

-------------------------------------------------------------------------------
(* Properties.                                                             *)

(* From the moment the daemon serves, nothing runs that an earlier owner   *)
(* launched: "nothing can reach a half-owned runtime" (server.rs:227).     *)
ServesOnlyItsOwn ==
  up /\ serving \in {"up", "closing"} =>
    \A p \in Pids : Live(p) => p \notin inherited

(* A drain that succeeded leaves no process of any service, and none       *)
(* appears while the daemon closes: no start was still in flight, waiting  *)
(* for the gate, or missing from the names that shutdown_all stopped.      *)
DrainedMeansDown ==
  up /\ drain = "done" /\ phase = "draining" => \A p \in Pids : ~Live(p)

(* From the write permit on, and after a failed cleanup too, no start or   *)
(* restart is under way: the clients admitted before have finished, those  *)
(* that waited are refused by the second look at the phase.                *)
DrainEndsLaunches ==
  phase = "failed" \/ drain \in {"cleanup", "done"} =>
    \A r \in Reqs : pc[r] # "idle" => op[r] \in {"stop", "shutdown"}

(* A signal ends the daemon, whether or not its cleanup can succeed and    *)
(* whatever requests came before it.                                       *)
SignalEndsDaemon == channel = "signalled" \/ signalWaits ~> ~up

(* A drain always has an outcome, so clients are not refused as "draining" *)
(* for ever.                                                               *)
DrainEnds == phase = "draining" ~> phase = "failed" \/ ~up

===============================================================================
