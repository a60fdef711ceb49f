--------------------------- MODULE DaemonDisconnects ---------------------------
(***************************************************************************)
(* The daemon when its clients may disconnect at any moment: the server    *)
(* drops their handlers, and with them the permits and the requests in the *)
(* process manager.                                                        *)
(***************************************************************************)
EXTENDS DaemonRuntime, DroppedFutures

disconnectVars == <<allVars, lateVars>>

(* A client disconnects and its handler is dropped.                        *)
Disconnect(r) ==
  \/ /\ ask[r].at # "none"
     /\ ask' = [ask EXCEPT ![r] = NoAsk]
     /\ UNCHANGED <<vars, lateVars, serving, phase, channel, signalWaits,
                    request, drain>>
  \/ Cancel(r) /\ UNCHANGED daemonVars

DisconnectNext ==
  \/ DaemonNext /\ MisledWait /\ DieWithOwner
  \/ \E r \in Clients : Disconnect(r)
  \/ \E p \in Pids : OrphanReaped(p) /\ UNCHANGED daemonVars
  \/ LateStep /\ UNCHANGED daemonVars

DisconnectSpec ==
  DaemonInit /\ LateInit /\ [][DisconnectNext]_disconnectVars

(* "Stop serving only once the services are actually down - unless the ask *)
(* was a signal" (server.rs:404-405).                                      *)
StopsServingOnceDown ==
  up /\ serving = "closing" /\ request = "requested" =>
    \A p \in Pids : ~Live(p)

===============================================================================
