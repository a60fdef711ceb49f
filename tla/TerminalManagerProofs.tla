------------------------ MODULE TerminalManagerProofs ------------------------
(***************************************************************************)
(* Proofs about the registry of terminal sessions: for any number of ids,  *)
(* generations, leases and callers, no running process group leaves the    *)
(* registry, a close and a shutdown that succeed mean it, leases that are  *)
(* over leave the next one alone, and a PTY has one writer.                *)
(*                                                                         *)
(* The argument: an id reserved is its caller's alone until the session is *)
(* registered (ReservedAlone); a session is unregistered only under an id  *)
(* it was registered under and once its group is known to be gone          *)
(* (EndsAreKnown); whoever closes, opens or types holds the control lock   *)
(* while it does (ControlHeld), or a flag in its place (ClosingHeld,       *)
(* PromptsFlagged); a lease is forwarded to only while it is attached      *)
(* (ReaderKnows); and close_all has every id still in use ahead of it      *)
(* (WalkCovers).                                                           *)
(***************************************************************************)
EXTENDS TerminalManager, TLAPS

Over(g) == group[g] \in {"gone", "recycled"}

Spawning == {"spawn", "complete"}
Closers == {"hup", "wait", "kill", "confirm", "remove"}
Closes == {"look", "control"} \cup Closers
Uses0 == {"seek", "take", "announce", "launch", "write", "finish"}

\* Where a caller is in each operation.
OpsMatch ==
    \A c \in Callers :
        /\ pc[c] \in {"reserve", "resize"} \cup Spawning => op[c] \in {"create", "restart"}
        /\ pc[c] \in Closes => op[c] \in {"close", "restart", "closeAll"}
        /\ pc[c] \in {"drain", "next"} => op[c] = "closeAll"
        /\ pc[c] \in Uses0 => op[c] \in {"open", "reclaim", "prompt", "input"}
        /\ pc[c] = "announce" => op[c] \in {"open", "reclaim"}
        /\ pc[c] = "launch" => op[c] = "open"
        /\ pc[c] = "write" => op[c] \in {"prompt", "input"}
        /\ pc[c] = "finish" => op[c] = "prompt"
        /\ op[c] = "closeAll" => shuttingDown

\* What a caller knows of the generation it has in hand.
TargetKnown ==
    \A c \in Callers :
        /\ pc[c] = "look" => target[c] = None
        /\ pc[c] \in {"control", "complete", "take", "announce", "write", "finish"} \cup Closers
              => target[c] \in Gens
        /\ pc[c] \in {"control", "complete"} \cup Closers => idOf[target[c]] = on[c]
        /\ pc[c] \in {"control"} \cup Closers => waiter[target[c]] # "none"
        /\ pc[c] = "complete" => waiter[target[c]] = "none" /\ group[target[c]] # "none"

\* The lease of an opening is its own, and of the generation it has in hand.
LeaseKnown ==
    \A c \in Callers : (pc[c] \in {"announce", "launch"} /\ op[c] = "open") => lease[c] \in Leases

\* A reserved id has no session, and one caller.
ReservedAlone ==
    /\ \A c \in Callers : pc[c] \in Spawning => on[c] \in creating /\ sess[on[c]] = None
    /\ \A c, d \in Callers :
          (c # d /\ pc[c] \in Spawning /\ pc[d] \in Spawning) => on[c] # on[d]

\* A session is registered under its own id, and is waited for.
RegisteredWaited ==
    /\ \A i \in Ids : sess[i] # None => idOf[sess[i]] = i /\ waiter[sess[i]] # "none"
    /\ \A g \in Gens : waiter[g] # "none" => group[g] # "none"

\* What is said to have ended has.
EndsAreKnown ==
    /\ \A g \in Gens :
          /\ (waiter[g] = "clean" \/ cleaned[g]) => Over(g)
          /\ cleaned[g] => state[g] = "exited"
    /\ \A c \in Callers :
          /\ pc[c] = "remove" => Over(target[c])
          /\ (pc[c] = "idle" /\ op[c] = "close" /\ ok[c] /\ target[c] # None) => Over(target[c])

\* Who holds a control lock has it.
Holds(c) ==
    \/ pc[c] \in Closers \cup {"announce"}
    \/ pc[c] = "write" /\ op[c] = "input"

ControlHeld == \A c \in Callers : Holds(c) => control[target[c]] = c

\* A close that is under way is of the session registered, by its lock's holder.
ClosingHeld ==
    \A i \in Ids : closing[i] # None =>
        /\ sess[i] = closing[i]
        /\ control[closing[i]] \in Callers
        /\ pc[control[closing[i]]] \in Closers
        /\ target[control[closing[i]]] = closing[i]

\* Who writes to a PTY.
PromptsFlagged ==
    /\ \A c \in Callers :
          (pc[c] \in {"write", "finish"} /\ op[c] = "prompt") => prompting[target[c]]
    /\ \A c, d \in Callers :
          (c # d /\ pc[c] \in {"write", "finish"} /\ pc[d] \in {"write", "finish"})
              => target[c] # target[d]

\* Leases, what is forwarded to them, and what the reader knows of them.
ReaderKnows ==
    \A g \in Gens :
        /\ external[g] # None => external[g] = attachment[g]
        /\ waiter[g] = "none" => attachment[g] = None
        /\ reader[g] \in {"look", "reset", "done"} => closed[g]
        /\ closed[g] => external[g] = None
        /\ (reader[g] = "reset" /\ IsRegistered(g)) => attachment[g] \in {None, readerLease[g]}
        /\ (reader[g] = "done" /\ IsRegistered(g)) => attachment[g] = None

\* What the walk of close_all, so far successful, has still to see to.
Walks(c) == op[c] = "closeAll" /\ ok[c] /\ pc[c] # "drain"

Covered(c) ==
    /\ \A d \in Callers : pc[d] \notin Spawning
    /\ \A g \in Gens : Runs(g) =>
          idOf[g] \in left[c] \/ (pc[c] \in Closes /\ idOf[g] = on[c])
    /\ pc[c] \in {"control"} \cup Closers => sess[on[c]] \in {None, target[c]}
    /\ pc[c] = "idle" => left[c] = {}

WalkCovers == \A c \in Callers : Walks(c) => Covered(c)

IInv ==
    /\ TypeOK
    /\ OpsMatch
    /\ TargetKnown
    /\ LeaseKnown
    /\ ReservedAlone
    /\ RegisteredWaited
    /\ EndsAreKnown
    /\ NoOrphan
    /\ ControlHeld
    /\ ClosingHeld
    /\ PromptsFlagged
    /\ LeasedOutside
    /\ ReaderKnows
    /\ WalkCovers
-----------------------------------------------------------------------------
(* Types *)

LEMMA TypeInit == Init => TypeOK
  <1> SUFFICES ASSUME Init PROVE TypeOK
    OBVIOUS
  <1>1. "idle" \in Places /\ "create" \in AllOps
    BY DEF Places, AllOps
  <1> QED
    BY <1>1, ManagerAssumption DEF Init, TypeOK

LEMMA GoesTyped ==
  ASSUME TypeOK, NEW c \in Callers, NEW where \in Places, Goes(c, where)
  PROVE  pc' \in [Callers -> Places]
  BY DEF TypeOK, Goes

LEMMA EndsTyped ==
  ASSUME TypeOK, NEW c \in Callers, NEW good \in BOOLEAN, Ends(c, good)
  PROVE  pc' \in [Callers -> Places] /\ ok' \in [Callers -> BOOLEAN]
  BY DEF TypeOK, Ends, Goes, Places

LEMMA ClosedTyped ==
  ASSUME TypeOK, NEW c \in Callers, Closed(c) \/ NotClosed(c)
  PROVE  pc' \in [Callers -> Places] /\ ok' \in [Callers -> BOOLEAN]
  <1>1. CASE Closed(c)
    <2>1. (CASE op[c] = "close" -> "idle" [] op[c] = "restart" -> "reserve" [] OTHER -> "next")
             \in Places
      BY DEF Places
    <2> QED
      BY <1>1, <2>1 DEF TypeOK, Closed, Goes
  <1>2. CASE NotClosed(c)
    BY <1>2 DEF TypeOK, NotClosed, Goes, Places
  <1> QED
    BY <1>1, <1>2

LEMMA RevokeTyped ==
  ASSUME TypeOK, NEW g \in Gens, Revoke(g)
  PROVE  /\ pres' \in [Gens -> {"dock", "launching", "terminal"}]
         /\ attachment' \in [Gens -> Leases \cup {None}]
         /\ external' \in [Gens -> Leases \cup {None}]
  BY DEF TypeOK, Revoke

LEMMA ResetTyped ==
  ASSUME TypeOK, NEW g \in Gens, NEW l, Reset(g, l)
  PROVE  /\ pres' \in [Gens -> {"dock", "launching", "terminal"}]
         /\ attachment' \in [Gens -> Leases \cup {None}]
         /\ external' \in [Gens -> Leases \cup {None}]
  BY RevokeTyped DEF TypeOK, Reset, presentation

LEMMA TypeStep == TypeOK /\ OpsMatch /\ TargetKnown /\ LeaseKnown /\ [Next]_vars => TypeOK'
  <1> SUFFICES ASSUME TypeOK, OpsMatch, TargetKnown, LeaseKnown, [Next]_vars PROVE TypeOK'
    OBVIOUS
  <1> USE DEF registry, presentation, ends, gate, listeners, locks, caller
  <1>0. load' = load
    BY DEF Next, vars
  <1>1. ASSUME NEW c \in Callers, NEW o \in AllOps, NEW i \in Ids, Calls(c, o, i) PROVE TypeOK'
    BY <1>0, <1>1 DEF TypeOK, Calls, Goes, Places
  <1>2. ASSUME NEW c \in Callers, Reserve(c) PROVE TypeOK'
    <2>1. pc' \in [Callers -> Places] /\ ok' \in [Callers -> BOOLEAN]
      <3>1. CASE Ends(c, FALSE)
        BY <3>1, EndsTyped
      <3>2. CASE Existing(c)
        BY <3>2 DEF Existing, Goes, Places, TypeOK
      <3>3. CASE Reserved(c)
        BY <3>3 DEF Reserved, Goes, Places, TypeOK
      <3> QED
        BY <1>2, <3>1, <3>2, <3>3 DEF Reserve
    <2>2. creating' \in SUBSET Ids
      <3>1. creating' = creating \/ creating' = creating \cup {on[c]}
        BY <1>2 DEF Reserve, Reserved
      <3> QED
        BY <3>1 DEF TypeOK
    <2> QED
      BY <1>0, <1>2, <2>1, <2>2 DEF TypeOK, Reserve
  <1>3. ASSUME NEW c \in Callers, SpawnFails(c) PROVE TypeOK'
    BY <1>0, <1>3 DEF TypeOK, SpawnFails, Ends, Goes, Places
  <1>4. ASSUME NEW c \in Callers, Complete(c) PROVE TypeOK'
    BY <1>0, <1>4 DEF TypeOK, Complete, Goes, Places
  <1>5. ASSUME NEW c \in Callers, Resize(c) PROVE TypeOK'
    BY <1>0, <1>5 DEF TypeOK, Resize, Ends, Goes, Places
  <1>6. ASSUME NEW c \in Callers, CloseLook(c) PROVE TypeOK'
    <2>1. pc' \in [Callers -> Places] /\ ok' \in [Callers -> BOOLEAN]
      <3>1. CASE Goes(c, "control") /\ UNCHANGED ok
        BY <3>1 DEF Goes, Places, TypeOK
      <3>2. CASE Closed(c) \/ NotClosed(c)
        BY <3>2, ClosedTyped
      <3> QED
        BY <1>6, <3>1, <3>2 DEF CloseLook
    <2> QED
      BY <1>0, <1>6, <2>1 DEF TypeOK, CloseLook
  <1>7. ASSUME NEW c \in Callers, CloseFindsOther(c) PROVE TypeOK'
    <2>1. pc' \in [Callers -> Places] /\ ok' \in [Callers -> BOOLEAN]
      BY <1>7, ClosedTyped DEF CloseFindsOther
    <2> QED
      BY <1>0, <1>7, <2>1 DEF TypeOK, CloseFindsOther
  <1>8. ASSUME NEW c \in Callers, CloseEnded(c) PROVE TypeOK'
    <2>1. pc' \in [Callers -> Places] /\ ok' \in [Callers -> BOOLEAN]
      BY <1>8, ClosedTyped DEF CloseEnded
    <2>2. target[c] \in Gens
      BY <1>8 DEF CloseEnded, TargetKnown
    <2>3. sess' \in [Ids -> Gens \cup {None}]
      BY <1>8 DEF CloseEnded, TypeOK
    <2>4. Revoke(target[c])
      BY <1>8 DEF CloseEnded
    <2>5. /\ pres' \in [Gens -> {"dock", "launching", "terminal"}]
          /\ attachment' \in [Gens -> Leases \cup {None}]
          /\ external' \in [Gens -> Leases \cup {None}]
      BY <2>2, <2>4, RevokeTyped
    <2> QED
      BY <1>0, <1>8, <2>1, <2>2, <2>3, <2>4, <2>5 DEF TypeOK, CloseEnded
  <1>9. ASSUME NEW c \in Callers, CloseTakes(c) PROVE TypeOK'
    <2>1. target[c] \in Gens
      BY <1>9 DEF CloseTakes, TargetKnown
    <2>2. pc' \in [Callers -> Places]
      BY <1>9 DEF CloseTakes, Goes, Places, TypeOK
    <2>3. /\ pres' \in [Gens -> {"dock", "launching", "terminal"}]
          /\ attachment' \in [Gens -> Leases \cup {None}]
          /\ external' \in [Gens -> Leases \cup {None}]
      BY <1>9, <2>1, RevokeTyped DEF CloseTakes
    <2>4. /\ closing' \in [Ids -> Gens \cup {None}]
          /\ control' \in [Gens -> Callers \cup {None}]
      BY <1>9, <2>1 DEF CloseTakes, TypeOK
    <2> QED
      BY <1>0, <1>9, <2>1, <2>2, <2>3, <2>4 DEF TypeOK, CloseTakes
  <1>10. ASSUME NEW c \in Callers, CloseSignals(c) PROVE TypeOK'
    BY <1>0, <1>10 DEF TypeOK, CloseSignals, Goes, Places
  <1>11. ASSUME NEW c \in Callers, CloseConfirmed(c) PROVE TypeOK'
    BY <1>0, <1>11 DEF TypeOK, CloseConfirmed, Goes, Places
  <1>12. ASSUME NEW c \in Callers, CloseTimesOut(c) PROVE TypeOK'
    BY <1>0, <1>12 DEF TypeOK, CloseTimesOut, Goes, Places
  <1>13. ASSUME NEW c \in Callers, CloseGivesUp(c) PROVE TypeOK'
    BY <1>0, <1>13 DEF TypeOK, CloseGivesUp, NotClosed, Goes, Places, Released
  <1>14. ASSUME NEW c \in Callers, CloseRemoves(c) PROVE TypeOK'
    <2>1. pc' \in [Callers -> Places] /\ ok' \in [Callers -> BOOLEAN]
      BY <1>14, ClosedTyped DEF CloseRemoves
    <2>2. sess' \in [Ids -> Gens \cup {None}]
      BY <1>14 DEF CloseRemoves, TypeOK
    <2>3. closing' \in [Ids -> Gens \cup {None}]
      BY <1>14 DEF CloseRemoves, TypeOK
    <2>4. control' \in [Gens -> Callers \cup {None}]
      BY <1>14 DEF CloseRemoves, Released, TypeOK
    <2> QED
      BY <1>0, <1>14, <2>1, <2>2, <2>3, <2>4 DEF TypeOK, CloseRemoves
  <1>15. ASSUME NEW c \in Callers, Drain(c) PROVE TypeOK'
    BY <1>0, <1>15 DEF TypeOK, Drain, Goes, Places
  <1>16. ASSUME NEW c \in Callers, CloseNext(c) PROVE TypeOK'
    <2>1. pc' \in [Callers -> Places]
      BY <1>16 DEF CloseNext, Goes, Places, TypeOK
    <2>2. /\ on' \in [Callers -> Ids] /\ left' \in [Callers -> SUBSET Ids]
          /\ target' \in [Callers -> Gens \cup {None}]
      <3>1. CASE UNCHANGED <<on, left, target>>
        BY <3>1 DEF TypeOK
      <3>2. ASSUME NEW i \in left[c], on' = [on EXCEPT ![c] = i],
                   left' = [left EXCEPT ![c] = @ \ {i}], target' = [target EXCEPT ![c] = None]
            PROVE  /\ on' \in [Callers -> Ids] /\ left' \in [Callers -> SUBSET Ids]
                   /\ target' \in [Callers -> Gens \cup {None}]
        BY <3>2 DEF TypeOK
      <3> QED
        BY <1>16, <3>1, <3>2 DEF CloseNext
    <2> QED
      BY <1>0, <1>16, <2>1, <2>2 DEF TypeOK, CloseNext
  <1>17. ASSUME NEW c \in Callers, Seek(c) PROVE TypeOK'
    <2>1. pc' \in [Callers -> Places] /\ ok' \in [Callers -> BOOLEAN]
      <3>1. CASE sess[on[c]] = None
        BY <1>17, <3>1, EndsTyped DEF Seek
      <3>2. CASE sess[on[c]] # None
        BY <1>17, <3>2 DEF Seek, Goes, Places, TypeOK
      <3> QED
        BY <3>1, <3>2
    <2>2. target' \in [Callers -> Gens \cup {None}]
      BY <1>17 DEF Seek, TypeOK
    <2> QED
      BY <1>0, <1>17, <2>1, <2>2 DEF TypeOK, Seek
  <1>18. ASSUME NEW c \in Callers, Refused(c) PROVE TypeOK'
    BY <1>0, <1>18 DEF TypeOK, Refused, Ends, Goes, Places
  <1>19. ASSUME NEW c \in Callers, ReclaimTakes(c) PROVE TypeOK'
    <2>1. target[c] \in Gens
      BY <1>19 DEF ReclaimTakes, TargetKnown
    <2>2. pc' \in [Callers -> Places]
      BY <1>19 DEF ReclaimTakes, Goes, Places, TypeOK
    <2>3. /\ pres' \in [Gens -> {"dock", "launching", "terminal"}]
          /\ attachment' \in [Gens -> Leases \cup {None}]
          /\ external' \in [Gens -> Leases \cup {None}]
      BY <1>19, <2>1, RevokeTyped DEF ReclaimTakes
    <2>4. control' \in [Gens -> Callers \cup {None}]
      BY <1>19 DEF ReclaimTakes, TypeOK
    <2> QED
      BY <1>0, <1>19, <2>1, <2>2, <2>3, <2>4 DEF TypeOK, ReclaimTakes
  <1>20. ASSUME NEW c \in Callers, Announces(c) PROVE TypeOK'
    <2>1. pc' \in [Callers -> Places]
      <3>1. Goes(c, "launch") \/ Goes(c, "idle")
        BY <1>20 DEF Announces
      <3> QED
        BY <3>1 DEF Goes, Places, TypeOK
    <2>2. listener' \in [Leases -> {"none", "bound", "accepting", "accepted", "serving",
                                   "resetting", "done"}]
      BY <1>20 DEF Announces, TypeOK
    <2>3. control' \in [Gens -> Callers \cup {None}]
      BY <1>20 DEF Announces, Released, TypeOK
    <2> QED
      BY <1>0, <1>20, <2>1, <2>2, <2>3 DEF TypeOK, Announces
  <1>21. ASSUME NEW c \in Callers, Launches(c) PROVE TypeOK'
    <2>1. pc' \in [Callers -> Places] /\ ok' \in [Callers -> BOOLEAN]
      BY <1>21, EndsTyped DEF Launches
    <2>2. lease' \in [Callers -> Leases \cup {None}]
      BY <1>21 DEF Launches, TypeOK
    <2>3. lease[c] \in Leases
      BY <1>21 DEF Launches, LeaseKnown, OpsMatch
    <2>4. /\ pres' \in [Gens -> {"dock", "launching", "terminal"}]
          /\ attachment' \in [Gens -> Leases \cup {None}]
          /\ external' \in [Gens -> Leases \cup {None}]
      <3>1. CASE UNCHANGED presentation
        BY <3>1 DEF TypeOK
      <3>2. CASE Reset(leaseGen[lease[c]], lease[c])
        <4>1. leaseGen[lease[c]] \in Gens
          BY <2>3 DEF TypeOK
        <4> QED
          BY <3>2, <4>1, ResetTyped
      <3> QED
        BY <1>21, <3>1, <3>2 DEF Launches
    <2> QED
      BY <1>0, <1>21, <2>1, <2>2, <2>3, <2>4 DEF TypeOK, Launches
  <1>22. ASSUME NEW c \in Callers, InputTakes(c) PROVE TypeOK'
    BY <1>0, <1>22 DEF TypeOK, InputTakes, Goes, Places
  <1>23. ASSUME NEW c \in Callers, PromptTakes(c) PROVE TypeOK'
    BY <1>0, <1>23 DEF TypeOK, PromptTakes, Goes, Places
  <1>24. ASSUME NEW c \in Callers, Writes(c) PROVE TypeOK'
    <2>1. pc' \in [Callers -> Places]
      <3>1. Goes(c, "idle") \/ Goes(c, "finish")
        BY <1>24 DEF Writes
      <3> QED
        BY <3>1 DEF Goes, Places, TypeOK
    <2>2. control' \in [Gens -> Callers \cup {None}]
      BY <1>24 DEF Writes, Released, TypeOK
    <2> QED
      BY <1>0, <1>24, <2>1, <2>2 DEF TypeOK, Writes
  <1>25. ASSUME NEW c \in Callers, PromptFinishes(c) PROVE TypeOK'
    <2>1. pc' \in [Callers -> Places] /\ ok' \in [Callers -> BOOLEAN]
      BY <1>25, EndsTyped DEF PromptFinishes, TakesPrompts, IsUnchanged, TypeOK
    <2>2. prompting' \in [Gens -> BOOLEAN]
      BY <1>25 DEF PromptFinishes, TypeOK
    <2> QED
      BY <1>0, <1>25, <2>1, <2>2 DEF TypeOK, PromptFinishes
  <1>26. ASSUME NEW c \in Callers, NEW g \in Gens, Spawn(c, g) PROVE TypeOK'
    BY <1>0, <1>26 DEF TypeOK, Spawn, Goes, Places
  <1>27. ASSUME NEW c \in Callers, NEW l \in Leases, OpenTakes(c, l) PROVE TypeOK'
    <2>1. pc' \in [Callers -> Places]
      BY <1>27 DEF OpenTakes, Goes, Places, TypeOK
    <2>2. target[c] \in Gens
      BY <1>27 DEF OpenTakes, TargetKnown
    <2>3. /\ pres' \in [Gens -> {"dock", "launching", "terminal"}]
          /\ attachment' \in [Gens -> Leases \cup {None}]
      BY <1>27 DEF OpenTakes, TypeOK
    <2>4. /\ listener' \in [Leases -> {"none", "bound", "accepting", "accepted", "serving",
                                      "resetting", "done"}]
          /\ leaseGen' \in [Leases -> Gens]
          /\ lease' \in [Callers -> Leases \cup {None}]
      BY <1>27, <2>2 DEF OpenTakes, TypeOK
    <2>5. control' \in [Gens -> Callers \cup {None}]
      BY <1>27 DEF OpenTakes, TypeOK
    <2> QED
      BY <1>0, <1>27, <2>1, <2>2, <2>3, <2>4, <2>5 DEF TypeOK, OpenTakes
  <1>28. ASSUME NEW g \in Gens, GroupEnds(g) PROVE TypeOK'
    BY <1>0, <1>28 DEF TypeOK, GroupEnds
  <1>29. ASSUME NEW g \in Gens, PidRecycled(g) PROVE TypeOK'
    BY <1>0, <1>29 DEF TypeOK, PidRecycled
  <1>30. ASSUME NEW g \in Gens, WaiterReaps(g) PROVE TypeOK'
    BY <1>0, <1>30 DEF TypeOK, WaiterReaps
  <1>31. ASSUME NEW g \in Gens, WaiterKills(g) PROVE TypeOK'
    BY <1>0, <1>31 DEF TypeOK, WaiterKills
  <1>32. ASSUME NEW g \in Gens, WaiterConfirms(g) PROVE TypeOK'
    BY <1>0, <1>32 DEF TypeOK, WaiterConfirms
  <1>33. ASSUME NEW g \in Gens, WaiterPublishes(g) PROVE TypeOK'
    <2>1. waiter' \in [Gens -> {"none", "waiting", "reaped", "confirming", "clean", "failed",
                                "done"}]
      BY <1>33 DEF WaiterPublishes, TypeOK
    <2>2. cleaned' \in [Gens -> BOOLEAN]
      <3>1. \/ UNCHANGED cleaned
            \/ cleaned' = [cleaned EXCEPT ![g] = TRUE]
            \/ cleaned' = [cleaned EXCEPT ![g] = FALSE]
        BY <1>33 DEF WaiterPublishes
      <3> QED
        BY <3>1 DEF TypeOK
    <2>3. state' \in [Gens -> {"running", "exited", "error"}]
      BY <1>33 DEF WaiterPublishes, TypeOK
    <2> QED
      BY <1>0, <1>33, <2>1, <2>2, <2>3 DEF TypeOK, WaiterPublishes
  <1>34. ASSUME NEW g \in Gens, ReaderEnds(g) PROVE TypeOK'
    <2>1. external' \in [Gens -> Leases \cup {None}] /\ closed' \in [Gens -> BOOLEAN]
      BY <1>34 DEF ReaderEnds, TypeOK
    <2>2. reader' \in [Gens -> {"none", "reading", "look", "reset", "done"}]
      BY <1>34 DEF ReaderEnds, TypeOK
    <2>3. readerLease' \in [Gens -> Leases \cup {None}]
      BY <1>34 DEF ReaderEnds, TypeOK
    <2> QED
      BY <1>0, <1>34, <2>1, <2>2, <2>3 DEF TypeOK, ReaderEnds
  <1>35. ASSUME NEW g \in Gens, ReaderLooks(g) PROVE TypeOK'
    BY <1>0, <1>35 DEF TypeOK, ReaderLooks
  <1>36. ASSUME NEW g \in Gens, ReaderResets(g) PROVE TypeOK'
    <2>1. /\ pres' \in [Gens -> {"dock", "launching", "terminal"}]
          /\ attachment' \in [Gens -> Leases \cup {None}]
          /\ external' \in [Gens -> Leases \cup {None}]
      BY <1>36, ResetTyped DEF ReaderResets
    <2>2. /\ reader' \in [Gens -> {"none", "reading", "look", "reset", "done"}]
          /\ readerLease' \in [Gens -> Leases \cup {None}]
      BY <1>36 DEF ReaderResets, TypeOK
    <2> QED
      BY <1>0, <1>36, <2>1, <2>2 DEF TypeOK, ReaderResets
  <1>37. ASSUME NEW g \in Gens, ForwardFails(g) PROVE TypeOK'
    BY <1>0, <1>37 DEF TypeOK, ForwardFails
  <1>38. ASSUME NEW l \in Leases, Accepts(l) PROVE TypeOK'
    BY <1>0, <1>38 DEF TypeOK, Accepts, Listens
  <1>39. ASSUME NEW l \in Leases, GivesUp(l) PROVE TypeOK'
    BY <1>0, <1>39 DEF TypeOK, GivesUp, Listens
  <1>40. ASSUME NEW l \in Leases, Establishes(l) PROVE TypeOK'
    <2>1. /\ pres' \in [Gens -> {"dock", "launching", "terminal"}]
          /\ attachment' \in [Gens -> Leases \cup {None}]
          /\ external' \in [Gens -> Leases \cup {None}]
      <3>1. CASE UNCHANGED presentation
        BY <3>1 DEF TypeOK
      <3>2. CASE Outside(l)
        BY <3>2 DEF Outside, TypeOK
      <3> QED
        BY <1>40, <3>1, <3>2 DEF Establishes
    <2>2. listener' \in [Leases -> {"none", "bound", "accepting", "accepted", "serving",
                                   "resetting", "done"}]
      <3>1. Listens(l, "done") \/ Listens(l, "resetting") \/ Listens(l, "serving")
        BY <1>40 DEF Establishes, Outside
      <3> QED
        BY <3>1 DEF Listens, TypeOK
    <2> QED
      BY <1>0, <1>40, <2>1, <2>2 DEF TypeOK, Establishes
  <1>41. ASSUME NEW l \in Leases, Detaches(l) PROVE TypeOK'
    BY <1>0, <1>41 DEF TypeOK, Detaches, Listens
  <1>42. ASSUME NEW l \in Leases, ListenerResets(l) PROVE TypeOK'
    <2>1. leaseGen[l] \in Gens
      BY DEF TypeOK
    <2>2. /\ pres' \in [Gens -> {"dock", "launching", "terminal"}]
          /\ attachment' \in [Gens -> Leases \cup {None}]
          /\ external' \in [Gens -> Leases \cup {None}]
      BY <1>42, <2>1, ResetTyped DEF ListenerResets
    <2>3. listener' \in [Leases -> {"none", "bound", "accepting", "accepted", "serving",
                                   "resetting", "done"}]
      BY <1>42 DEF ListenerResets, Listens, TypeOK
    <2> QED
      BY <1>0, <1>42, <2>1, <2>2, <2>3 DEF TypeOK, ListenerResets
  <1>43. CASE UNCHANGED vars
    BY <1>0, <1>43 DEF TypeOK, vars
  <1> QED
    BY <1>1, <1>2, <1>3, <1>4, <1>5, <1>6, <1>7, <1>8, <1>9, <1>10, <1>11,
       <1>12, <1>13, <1>14, <1>15, <1>16, <1>17, <1>18, <1>19, <1>20, <1>21,
       <1>22, <1>23, <1>24, <1>25, <1>26, <1>27, <1>28, <1>29, <1>30, <1>31,
       <1>32, <1>33, <1>34, <1>35, <1>36, <1>37, <1>38, <1>39, <1>40, <1>41,
       <1>42, <1>43
    DEF Next, Caller, Create, Close, CloseAll, Uses, Waiter, Reader, Listener

-----------------------------------------------------------------------------
(* Where the callers go *)

(* Where a caller goes when a close of its has ended, and what that says. *)
LEMMA ClosedGoes ==
  ASSUME TypeOK, NEW c \in Callers, Closed(c) \/ NotClosed(c)
  PROVE  /\ \A d \in Callers \ {c} : pc'[d] = pc[d] /\ ok'[d] = ok[d]
         /\ pc'[c] \in {"idle", "reserve", "next"}
         /\ pc'[c] = "idle" => op[c] # "closeAll" \/ ~ok'[c]
         /\ ok'[c] => ok[c] /\ Closed(c)
  <1>1. CASE Closed(c)
    BY <1>1 DEF TypeOK, Closed, Goes
  <1>2. CASE NotClosed(c)
    BY <1>2 DEF TypeOK, NotClosed, Goes
  <1> QED
    BY <1>1, <1>2

\* Who moves, where from and where to; or only where it does not go.
Moves(c, from, to) ==
    /\ pc[c] \in from /\ pc'[c] \in to
    /\ \A d \in Callers \ {c} : pc'[d] = pc[d] /\ ok'[d] = ok[d]

Elsewhere(c, places) ==
    /\ pc'[c] \notin places
    /\ \A d \in Callers \ {c} : pc'[d] = pc[d] /\ ok'[d] = ok[d]

(* Where each operation of a caller takes it. *)
LEMMA CallerMoves ==
  ASSUME TypeOK, NEW c \in Callers
  PROVE  /\ Reserve(c) => Moves(c, {"reserve"}, {"idle", "resize", "spawn"})
         /\ SpawnFails(c) => Moves(c, {"spawn"}, {"idle"})
         /\ Complete(c) => Moves(c, {"complete"}, {"idle", "resize"})
         /\ Resize(c) => Moves(c, {"resize"}, {"idle"})
         /\ CloseLook(c) => Moves(c, {"look"}, {"idle", "reserve", "next", "control"})
         /\ CloseFindsOther(c) => Moves(c, {"control"}, {"idle", "reserve", "next"})
         /\ CloseEnded(c) => Moves(c, {"control"}, {"idle", "reserve", "next"})
         /\ CloseTakes(c) => Moves(c, {"control"}, {"hup"})
         /\ CloseSignals(c) => Moves(c, {"hup", "kill"}, {"wait", "confirm"})
         /\ CloseConfirmed(c) => Moves(c, {"wait", "confirm"}, {"remove"})
         /\ CloseTimesOut(c) => Moves(c, {"wait"}, {"kill"})
         /\ CloseGivesUp(c) => Moves(c, {"hup", "kill", "confirm"}, {"idle", "next"})
         /\ CloseRemoves(c) => Moves(c, {"remove"}, {"idle", "reserve", "next"})
         /\ Drain(c) => Moves(c, {"drain"}, {"next"})
         /\ CloseNext(c) => Moves(c, {"next"}, {"idle", "look"})
         /\ Seek(c) => Moves(c, {"seek"}, {"idle", "take"})
         /\ Refused(c) => Moves(c, {"take"}, {"idle"})
         /\ ReclaimTakes(c) => Moves(c, {"take"}, {"announce"})
         /\ Announces(c) => Moves(c, {"announce"}, {"idle", "launch"})
         /\ Launches(c) => Moves(c, {"launch"}, {"idle"})
         /\ InputTakes(c) => Moves(c, {"take"}, {"write"})
         /\ PromptTakes(c) => Moves(c, {"take"}, {"write"})
         /\ Writes(c) => Moves(c, {"write"}, {"idle", "finish"})
         /\ PromptFinishes(c) => Moves(c, {"finish"}, {"idle"})
  <1> USE DEF Moves, Goes
  <1>1. ASSUME Reserve(c) PROVE Moves(c, {"reserve"}, {"idle", "resize", "spawn"})
    BY <1>1 DEF TypeOK, Reserve, Ends, Existing, Reserved, caller
  <1>2. ASSUME SpawnFails(c) PROVE Moves(c, {"spawn"}, {"idle"})
    BY <1>2 DEF TypeOK, SpawnFails, Ends, caller
  <1>3. ASSUME Complete(c) PROVE Moves(c, {"complete"}, {"idle", "resize"})
    BY <1>3 DEF TypeOK, Complete, caller
  <1>4. ASSUME Resize(c) PROVE Moves(c, {"resize"}, {"idle"})
    BY <1>4 DEF TypeOK, Resize, Ends, caller
  <1>5. ASSUME CloseLook(c) PROVE Moves(c, {"look"}, {"idle", "reserve", "next", "control"})
    <2>1. CASE Closed(c) \/ NotClosed(c)
      BY <1>5, <2>1, ClosedGoes DEF CloseLook
    <2>2. CASE Goes(c, "control") /\ UNCHANGED ok
      BY <1>5, <2>2 DEF CloseLook, TypeOK
    <2> QED
      BY <1>5, <2>1, <2>2 DEF CloseLook
  <1>6. ASSUME CloseFindsOther(c) PROVE Moves(c, {"control"}, {"idle", "reserve", "next"})
    BY <1>6, ClosedGoes DEF CloseFindsOther
  <1>7. ASSUME CloseEnded(c) PROVE Moves(c, {"control"}, {"idle", "reserve", "next"})
    BY <1>7, ClosedGoes DEF CloseEnded
  <1>8. ASSUME CloseTakes(c) PROVE Moves(c, {"control"}, {"hup"})
    BY <1>8 DEF TypeOK, CloseTakes, caller
  <1>9. ASSUME CloseSignals(c) PROVE Moves(c, {"hup", "kill"}, {"wait", "confirm"})
    BY <1>9 DEF TypeOK, CloseSignals, caller
  <1>10. ASSUME CloseConfirmed(c) PROVE Moves(c, {"wait", "confirm"}, {"remove"})
    BY <1>10 DEF TypeOK, CloseConfirmed, caller
  <1>11. ASSUME CloseTimesOut(c) PROVE Moves(c, {"wait"}, {"kill"})
    BY <1>11 DEF TypeOK, CloseTimesOut, caller
  <1>12. ASSUME CloseGivesUp(c) PROVE Moves(c, {"hup", "kill", "confirm"}, {"idle", "next"})
    BY <1>12 DEF TypeOK, CloseGivesUp, CloseFails, NotClosed, caller
  <1>13. ASSUME CloseRemoves(c) PROVE Moves(c, {"remove"}, {"idle", "reserve", "next"})
    BY <1>13, ClosedGoes DEF CloseRemoves
  <1>14. ASSUME Drain(c) PROVE Moves(c, {"drain"}, {"next"})
    BY <1>14 DEF TypeOK, Drain, caller
  <1>15. ASSUME CloseNext(c) PROVE Moves(c, {"next"}, {"idle", "look"})
    BY <1>15 DEF TypeOK, CloseNext, caller
  <1>16. ASSUME Seek(c) PROVE Moves(c, {"seek"}, {"idle", "take"})
    BY <1>16 DEF TypeOK, Seek, Ends, caller
  <1>17. ASSUME Refused(c) PROVE Moves(c, {"take"}, {"idle"})
    BY <1>17 DEF TypeOK, Refused, Ends, caller
  <1>18. ASSUME ReclaimTakes(c) PROVE Moves(c, {"take"}, {"announce"})
    BY <1>18 DEF TypeOK, ReclaimTakes, caller
  <1>19. ASSUME Announces(c) PROVE Moves(c, {"announce"}, {"idle", "launch"})
    BY <1>19 DEF TypeOK, Announces, caller
  <1>20. ASSUME Launches(c) PROVE Moves(c, {"launch"}, {"idle"})
    BY <1>20 DEF TypeOK, Launches, Ends, caller
  <1>21. ASSUME InputTakes(c) PROVE Moves(c, {"take"}, {"write"})
    BY <1>21 DEF TypeOK, InputTakes, caller
  <1>22. ASSUME PromptTakes(c) PROVE Moves(c, {"take"}, {"write"})
    BY <1>22 DEF TypeOK, PromptTakes, caller
  <1>23. ASSUME Writes(c) PROVE Moves(c, {"write"}, {"idle", "finish"})
    BY <1>23 DEF TypeOK, Writes, caller
  <1>24. ASSUME PromptFinishes(c) PROVE Moves(c, {"finish"}, {"idle"})
    BY <1>24 DEF TypeOK, PromptFinishes, Ends, caller
  <1> QED
    BY <1>1, <1>2, <1>3, <1>4, <1>5, <1>6, <1>7, <1>8, <1>9, <1>10, <1>11, <1>12, <1>13, <1>14,
       <1>15, <1>16, <1>17, <1>18, <1>19, <1>20, <1>21, <1>22, <1>23, <1>24

(* What it leaves alone of the others, and of the registry. *)
LEMMA OthersRest ==
  ASSUME TypeOK, NEW c \in Callers
  PROVE  /\ CloseLook(c) => \A d \in Callers \ {c} : target'[d] = target[d]
         /\ CloseNext(c) => \A d \in Callers \ {c} : target'[d] = target[d] /\ on'[d] = on[d]
         /\ Seek(c) => \A d \in Callers \ {c} : target'[d] = target[d]
         /\ CloseEnded(c) \/ CloseRemoves(c) => \A i \in Ids : sess'[i] \in {sess[i], None}
  <1>1. ASSUME CloseLook(c) PROVE \A d \in Callers \ {c} : target'[d] = target[d]
    BY <1>1 DEF CloseLook, TypeOK
  <1>2. ASSUME CloseNext(c)
        PROVE  \A d \in Callers \ {c} : target'[d] = target[d] /\ on'[d] = on[d]
    BY <1>2 DEF CloseNext, TypeOK
  <1>3. ASSUME Seek(c) PROVE \A d \in Callers \ {c} : target'[d] = target[d]
    BY <1>3 DEF Seek, TypeOK
  <1>4. ASSUME CloseEnded(c) PROVE \A i \in Ids : sess'[i] \in {sess[i], None}
    BY <1>4 DEF CloseEnded, TypeOK
  <1>5. ASSUME CloseRemoves(c) PROVE \A i \in Ids : sess'[i] \in {sess[i], None}
    BY <1>5 DEF CloseRemoves, TypeOK
  <1> QED
    BY <1>1, <1>2, <1>3, <1>4, <1>5

-----------------------------------------------------------------------------
(* Operations, and what a caller has in hand *)

(* A caller is where its operation takes it. *)
LEMMA OpsMatchStep ==
  ASSUME TypeOK, OpsMatch, [Next]_vars
  PROVE  OpsMatch'
  <1> USE DEF registry, presentation, ends, gate, listeners, locks, caller, Spawning, Closers,
             Closes, Uses0
  <1>1. ASSUME NEW g \in Gens, GroupEnds(g) \/ PidRecycled(g) \/ WaiterReaps(g) \/
     WaiterKills(g) \/ WaiterConfirms(g) \/ WaiterPublishes(g) \/ ReaderEnds(g) \/
     ReaderLooks(g) \/ ReaderResets(g) \/ ForwardFails(g)
        PROVE  OpsMatch'
    <2>1. UNCHANGED <<pc, op, shuttingDown>>
      BY <1>1 DEF GroupEnds, PidRecycled, WaiterReaps, WaiterKills, WaiterConfirms,
         WaiterPublishes, ReaderEnds, ReaderLooks, ReaderResets, ForwardFails
    <2> QED
      BY <2>1 DEF OpsMatch
  <1>2. ASSUME NEW l \in Leases, Accepts(l) \/ GivesUp(l) \/ Establishes(l) \/ Detaches(l) \/
     ListenerResets(l)
        PROVE  OpsMatch'
    <2>1. UNCHANGED <<pc, op, shuttingDown>>
      BY <1>2 DEF Accepts, GivesUp, Establishes, Detaches, ListenerResets, Listens, Outside
    <2> QED
      BY <2>1 DEF OpsMatch
  <1>3. ASSUME NEW c \in Callers, NEW o \in AllOps, NEW i \in Ids, Calls(c, o, i)
        PROVE  OpsMatch'
    <2>1. CASE o = "create"
      BY <1>3, <2>1 DEF OpsMatch, TypeOK, Calls, Goes
    <2>2. CASE o \in {"close", "restart"}
      BY <1>3, <2>2 DEF OpsMatch, TypeOK, Calls, Goes
    <2>3. CASE o = "closeAll"
      <3>1. /\ pc' = [pc EXCEPT ![c] = "drain"] /\ op' = [op EXCEPT ![c] = "closeAll"]
            /\ shuttingDown'
        BY <1>3, <2>3 DEF Calls, Goes
      <3> QED
        BY <3>1 DEF OpsMatch, TypeOK
    <2>4. CASE o \in {"open", "reclaim", "prompt", "input"}
      BY <1>3, <2>4 DEF OpsMatch, TypeOK, Calls, Goes
    <2> QED
      BY <2>1, <2>2, <2>3, <2>4 DEF AllOps
  <1>4. ASSUME NEW c \in Callers, Reserve(c) PROVE OpsMatch'
    BY <1>4 DEF OpsMatch, TypeOK, Reserve, Ends, Existing, Reserved, Goes
  <1>5. ASSUME NEW c \in Callers, SpawnFails(c) PROVE OpsMatch'
    BY <1>5 DEF OpsMatch, TypeOK, SpawnFails, Ends, Goes
  <1>6. ASSUME NEW c \in Callers, NEW g \in Gens, Spawn(c, g) PROVE OpsMatch'
    BY <1>6 DEF OpsMatch, TypeOK, Spawn, Goes
  <1>7. ASSUME NEW c \in Callers, Complete(c) PROVE OpsMatch'
    BY <1>7 DEF OpsMatch, TypeOK, Complete, Goes
  <1>8. ASSUME NEW c \in Callers, Resize(c) PROVE OpsMatch'
    BY <1>8 DEF OpsMatch, TypeOK, Resize, Ends, Goes
  <1>9. ASSUME NEW c \in Callers, CloseLook(c) PROVE OpsMatch'
    BY <1>9 DEF OpsMatch, TypeOK, CloseLook, Closed, NotClosed, Goes
  <1>10. ASSUME NEW c \in Callers, CloseFindsOther(c) PROVE OpsMatch'
    BY <1>10 DEF OpsMatch, TypeOK, CloseFindsOther, Closed, NotClosed, Goes
  <1>11. ASSUME NEW c \in Callers, CloseEnded(c) PROVE OpsMatch'
    BY <1>11 DEF OpsMatch, TypeOK, CloseEnded, Closed, NotClosed, Goes
  <1>12. ASSUME NEW c \in Callers, CloseTakes(c) PROVE OpsMatch'
    BY <1>12 DEF OpsMatch, TypeOK, CloseTakes, Goes
  <1>13. ASSUME NEW c \in Callers, CloseSignals(c) PROVE OpsMatch'
    BY <1>13 DEF OpsMatch, TypeOK, CloseSignals, Goes
  <1>14. ASSUME NEW c \in Callers, CloseConfirmed(c) PROVE OpsMatch'
    BY <1>14 DEF OpsMatch, TypeOK, CloseConfirmed, Goes
  <1>15. ASSUME NEW c \in Callers, CloseTimesOut(c) PROVE OpsMatch'
    BY <1>15 DEF OpsMatch, TypeOK, CloseTimesOut, Goes
  <1>16. ASSUME NEW c \in Callers, CloseGivesUp(c) PROVE OpsMatch'
    BY <1>16 DEF OpsMatch, TypeOK, CloseGivesUp, NotClosed, Goes
  <1>17. ASSUME NEW c \in Callers, CloseRemoves(c) PROVE OpsMatch'
    BY <1>17 DEF OpsMatch, TypeOK, CloseRemoves, Closed, NotClosed, Goes
  <1>18. ASSUME NEW c \in Callers, Drain(c) PROVE OpsMatch'
    BY <1>18 DEF OpsMatch, TypeOK, Drain, Goes
  <1>19. ASSUME NEW c \in Callers, CloseNext(c) PROVE OpsMatch'
    BY <1>19 DEF OpsMatch, TypeOK, CloseNext, Goes
  <1>20. ASSUME NEW c \in Callers, Seek(c) PROVE OpsMatch'
    BY <1>20 DEF OpsMatch, TypeOK, Seek, Ends, Goes
  <1>21. ASSUME NEW c \in Callers, Refused(c) PROVE OpsMatch'
    BY <1>21 DEF OpsMatch, TypeOK, Refused, Ends, Goes
  <1>22. ASSUME NEW c \in Callers, NEW l \in Leases, OpenTakes(c, l) PROVE OpsMatch'
    BY <1>22 DEF OpsMatch, TypeOK, OpenTakes, Goes
  <1>23. ASSUME NEW c \in Callers, ReclaimTakes(c) PROVE OpsMatch'
    BY <1>23 DEF OpsMatch, TypeOK, ReclaimTakes, Goes
  <1>24. ASSUME NEW c \in Callers, Announces(c) PROVE OpsMatch'
    BY <1>24 DEF OpsMatch, TypeOK, Announces, Goes
  <1>25. ASSUME NEW c \in Callers, Launches(c) PROVE OpsMatch'
    BY <1>25 DEF OpsMatch, TypeOK, Launches, Ends, Goes
  <1>26. ASSUME NEW c \in Callers, InputTakes(c) PROVE OpsMatch'
    BY <1>26 DEF OpsMatch, TypeOK, InputTakes, Goes
  <1>27. ASSUME NEW c \in Callers, PromptTakes(c) PROVE OpsMatch'
    BY <1>27 DEF OpsMatch, TypeOK, PromptTakes, Goes
  <1>28. ASSUME NEW c \in Callers, Writes(c) PROVE OpsMatch'
    BY <1>28 DEF OpsMatch, TypeOK, Writes, Goes
  <1>29. ASSUME NEW c \in Callers, PromptFinishes(c) PROVE OpsMatch'
    BY <1>29 DEF OpsMatch, TypeOK, PromptFinishes, Ends, Goes
  <1>30. CASE UNCHANGED vars
    BY <1>30 DEF OpsMatch, vars
  <1> QED
    BY <1>1, <1>2, <1>3, <1>4, <1>5, <1>6, <1>7, <1>8, <1>9, <1>10, <1>11, <1>12, <1>13, <1>14,
       <1>15, <1>16, <1>17, <1>18, <1>19, <1>20, <1>21, <1>22, <1>23, <1>24, <1>25, <1>26,
       <1>27, <1>28, <1>29, <1>30
    DEF Next, Caller, Create, Close, CloseAll, Uses, Waiter, Reader, Listener

(* The generation in hand stays the one that was looked up or spawned. *)
LEMMA TargetKnownStep ==
  ASSUME TypeOK, OpsMatch, TargetKnown, RegisteredWaited, ReservedAlone, [Next]_vars
  PROVE  TargetKnown'
  <1> USE DEF registry, presentation, ends, gate, listeners, locks, caller, Closers
  <1>1. ASSUME NEW g \in Gens, ReaderEnds(g) \/ ReaderLooks(g) \/ ReaderResets(g) \/
     ForwardFails(g)
        PROVE  TargetKnown'
    <2>1. UNCHANGED <<pc, target, on, idOf, waiter, group>>
      BY <1>1 DEF ReaderEnds, ReaderLooks, ReaderResets, ForwardFails
    <2> QED
      BY <2>1 DEF TargetKnown
  <1>2. ASSUME NEW l \in Leases, Accepts(l) \/ GivesUp(l) \/ Establishes(l) \/ Detaches(l) \/
     ListenerResets(l)
        PROVE  TargetKnown'
    <2>1. UNCHANGED <<pc, target, on, idOf, waiter, group>>
      BY <1>2 DEF Accepts, GivesUp, Establishes, Detaches, ListenerResets, Listens, Outside
    <2> QED
      BY <2>1 DEF TargetKnown
  <1>3. ASSUME NEW c \in Callers, NEW o \in AllOps, NEW i \in Ids, Calls(c, o, i)
        PROVE  TargetKnown'
    BY <1>3 DEF TargetKnown, TypeOK, Calls, Goes
  <1>4. ASSUME NEW c \in Callers, Reserve(c) PROVE TargetKnown'
    BY <1>4 DEF TargetKnown, TypeOK, Reserve, Ends, Existing, Reserved, Goes
  <1>5. ASSUME NEW c \in Callers, SpawnFails(c) PROVE TargetKnown'
    BY <1>5 DEF TargetKnown, TypeOK, SpawnFails, Ends, Goes
  <1>6. ASSUME NEW c \in Callers, NEW g \in Gens, Spawn(c, g) PROVE TargetKnown'
    <2>1. waiter[g] = "none"
      BY <1>6 DEF Spawn, RegisteredWaited
    <2>2. pc[c] = "spawn" /\ \A d \in Callers \ {c} : pc'[d] = pc[d] /\ target'[d] = target[d]
      BY <1>6 DEF Spawn, Goes, TypeOK
    <2>3. pc'[c] = "complete" /\ target'[c] = g /\ idOf'[g] = on[c] /\ group'[g] = "alive"
      BY <1>6 DEF Spawn, Goes, TypeOK
    <2>4. \A d \in Callers \ {c} : pc[d] = "complete" => target[d] # g
      BY <1>6 DEF Spawn, TargetKnown
    <2> QED
      BY <1>6, <2>1, <2>2, <2>3, <2>4 DEF TargetKnown, TypeOK, Spawn
  <1>7. ASSUME NEW c \in Callers, Complete(c) PROVE TargetKnown'
    <2>1. pc[c] = "complete" /\ \A d \in Callers \ {c} : pc'[d] = pc[d]
      BY <1>7 DEF Complete, Goes, TypeOK
    <2>2. pc'[c] \in {"resize", "idle"}
      BY <1>7 DEF Complete, Goes, TypeOK
    <2>3. \A d \in Callers \ {c} : pc[d] = "complete" => target[d] # target[c]
      BY <2>1 DEF TargetKnown, ReservedAlone, Spawning
    <2>4. waiter' = [waiter EXCEPT ![target[c]] = "waiting"]
      BY <1>7 DEF Complete
    <2> QED
      BY <1>7, <2>1, <2>2, <2>3, <2>4 DEF TargetKnown, TypeOK, Complete
  <1>8. ASSUME NEW c \in Callers, Resize(c) PROVE TargetKnown'
    BY <1>8 DEF TargetKnown, TypeOK, Resize, Ends, Goes
  <1>9. ASSUME NEW c \in Callers, CloseLook(c) PROVE TargetKnown'
    <2>1. CASE (Closed(c) \/ NotClosed(c)) /\ UNCHANGED target
      <3>1. UNCHANGED <<on, idOf, waiter, group>>
        BY <1>9 DEF CloseLook
      <3>2. Elsewhere(c, Closers \cup {"look", "control", "complete", "take", "announce",
                                       "write", "finish"})
        BY <2>1, ClosedGoes DEF Elsewhere
      <3> QED
        BY <2>1, <3>1, <3>2 DEF Elsewhere, TargetKnown
    <2>2. CASE /\ sess[on[c]] # None /\ Goes(c, "control")
               /\ target' = [target EXCEPT ![c] = sess[on[c]]]
      BY <1>9, <2>2 DEF TargetKnown, RegisteredWaited, TypeOK, CloseLook, Goes
    <2> QED
      BY <1>9, <2>1, <2>2 DEF CloseLook
  <1>10. ASSUME NEW c \in Callers, CloseFindsOther(c) PROVE TargetKnown'
    BY <1>10 DEF TargetKnown, TypeOK, CloseFindsOther, IsUnchanged, Closed, NotClosed, Goes
  <1>11. ASSUME NEW c \in Callers, CloseEnded(c) PROVE TargetKnown'
    BY <1>11 DEF TargetKnown, TypeOK, CloseEnded, IsUnchanged, Closed, NotClosed, Goes
  <1>12. ASSUME NEW c \in Callers, CloseTakes(c) PROVE TargetKnown'
    BY <1>12 DEF TargetKnown, TypeOK, CloseTakes, IsUnchanged, Goes
  <1>13. ASSUME NEW c \in Callers, CloseSignals(c) PROVE TargetKnown'
    BY <1>13 DEF TargetKnown, TypeOK, CloseSignals, Goes
  <1>14. ASSUME NEW c \in Callers, CloseConfirmed(c) PROVE TargetKnown'
    BY <1>14 DEF TargetKnown, TypeOK, CloseConfirmed, IsUnchanged, Goes
  <1>15. ASSUME NEW c \in Callers, CloseTimesOut(c) PROVE TargetKnown'
    BY <1>15 DEF TargetKnown, TypeOK, CloseTimesOut, Goes
  <1>16. ASSUME NEW c \in Callers, CloseGivesUp(c) PROVE TargetKnown'
    BY <1>16 DEF TargetKnown, TypeOK, CloseGivesUp, NotClosed, Goes
  <1>17. ASSUME NEW c \in Callers, CloseRemoves(c) PROVE TargetKnown'
    BY <1>17 DEF TargetKnown, TypeOK, CloseRemoves, IsUnchanged, Closed, NotClosed, Goes
  <1>18. ASSUME NEW c \in Callers, Drain(c) PROVE TargetKnown'
    BY <1>18 DEF TargetKnown, TypeOK, Drain, Goes
  <1>19. ASSUME NEW c \in Callers, CloseNext(c) PROVE TargetKnown'
    BY <1>19 DEF TargetKnown, TypeOK, CloseNext, Goes
  <1>20. ASSUME NEW c \in Callers, Seek(c) PROVE TargetKnown'
    BY <1>20 DEF TargetKnown, TypeOK, Seek, Ends, Goes
  <1>21. ASSUME NEW c \in Callers, Refused(c) PROVE TargetKnown'
    BY <1>21 DEF TargetKnown, TypeOK, Refused, Ends, Goes
  <1>22. ASSUME NEW c \in Callers, NEW l \in Leases, OpenTakes(c, l) PROVE TargetKnown'
    BY <1>22 DEF TargetKnown, TypeOK, OpenTakes, IsUnchanged, Goes
  <1>23. ASSUME NEW c \in Callers, ReclaimTakes(c) PROVE TargetKnown'
    BY <1>23 DEF TargetKnown, TypeOK, ReclaimTakes, IsUnchanged, Goes
  <1>24. ASSUME NEW c \in Callers, Announces(c) PROVE TargetKnown'
    BY <1>24 DEF TargetKnown, TypeOK, Announces, Goes
  <1>25. ASSUME NEW c \in Callers, Launches(c) PROVE TargetKnown'
    BY <1>25 DEF TargetKnown, TypeOK, Launches, Ends, Goes
  <1>26. ASSUME NEW c \in Callers, InputTakes(c) PROVE TargetKnown'
    BY <1>26 DEF TargetKnown, TypeOK, InputTakes, IsUnchanged, Goes
  <1>27. ASSUME NEW c \in Callers, PromptTakes(c) PROVE TargetKnown'
    BY <1>27 DEF TargetKnown, TypeOK, PromptTakes, IsUnchanged, Goes
  <1>28. ASSUME NEW c \in Callers, Writes(c) PROVE TargetKnown'
    BY <1>28 DEF TargetKnown, TypeOK, Writes, Goes
  <1>29. ASSUME NEW c \in Callers, PromptFinishes(c) PROVE TargetKnown'
    BY <1>29 DEF TargetKnown, TypeOK, PromptFinishes, Ends, Goes, IsUnchanged
  <1>30. ASSUME NEW g \in Gens, GroupEnds(g) PROVE TargetKnown'
    BY <1>30 DEF TargetKnown, TypeOK, GroupEnds, Runs
  <1>31. ASSUME NEW g \in Gens, PidRecycled(g) PROVE TargetKnown'
    BY <1>31 DEF TargetKnown, TypeOK, PidRecycled
  <1>32. ASSUME NEW g \in Gens, WaiterReaps(g) PROVE TargetKnown'
    BY <1>32 DEF TargetKnown, TypeOK, WaiterReaps
  <1>33. ASSUME NEW g \in Gens, WaiterKills(g) PROVE TargetKnown'
    BY <1>33 DEF TargetKnown, TypeOK, WaiterKills
  <1>34. ASSUME NEW g \in Gens, WaiterConfirms(g) PROVE TargetKnown'
    BY <1>34 DEF TargetKnown, TypeOK, WaiterConfirms
  <1>35. ASSUME NEW g \in Gens, WaiterPublishes(g) PROVE TargetKnown'
    BY <1>35 DEF TargetKnown, TypeOK, WaiterPublishes, IsRegistered
  <1>36. CASE UNCHANGED vars
    BY <1>36 DEF TargetKnown, vars
  <1> QED
    BY <1>1, <1>2, <1>3, <1>4, <1>5, <1>6, <1>7, <1>8, <1>9, <1>10, <1>11, <1>12, <1>13, <1>14,
       <1>15, <1>16, <1>17, <1>18, <1>19, <1>20, <1>21, <1>22, <1>23, <1>24, <1>25, <1>26,
       <1>27, <1>28, <1>29, <1>30, <1>31, <1>32, <1>33, <1>34, <1>35, <1>36
    DEF Next, Caller, Create, Close, CloseAll, Uses, Waiter, Reader, Listener

(* An opening has its lease until it has launched. *)
LEMMA LeaseKnownStep ==
  ASSUME TypeOK, OpsMatch, LeaseKnown, [Next]_vars
  PROVE  LeaseKnown'
  <1> USE DEF registry, presentation, ends, gate, listeners, locks, caller
  <1>1. ASSUME NEW g \in Gens, GroupEnds(g) \/ PidRecycled(g) \/ WaiterReaps(g) \/
     WaiterKills(g) \/ WaiterConfirms(g) \/ WaiterPublishes(g) \/ ReaderEnds(g) \/
     ReaderLooks(g) \/ ReaderResets(g) \/ ForwardFails(g)
        PROVE  LeaseKnown'
    <2>1. UNCHANGED <<pc, op, lease>>
      BY <1>1 DEF GroupEnds, PidRecycled, WaiterReaps, WaiterKills, WaiterConfirms,
         WaiterPublishes, ReaderEnds, ReaderLooks, ReaderResets, ForwardFails
    <2> QED
      BY <2>1 DEF LeaseKnown
  <1>2. ASSUME NEW l \in Leases, Accepts(l) \/ GivesUp(l) \/ Establishes(l) \/ Detaches(l) \/
     ListenerResets(l)
        PROVE  LeaseKnown'
    <2>1. UNCHANGED <<pc, op, lease>>
      BY <1>2 DEF Accepts, GivesUp, Establishes, Detaches, ListenerResets, Listens, Outside
    <2> QED
      BY <2>1 DEF LeaseKnown
  <1>3. ASSUME NEW c \in Callers, NEW o \in AllOps, NEW i \in Ids, Calls(c, o, i)
        PROVE  LeaseKnown'
    BY <1>3 DEF LeaseKnown, TypeOK, Calls, Goes
  <1>4. ASSUME NEW c \in Callers, Reserve(c) PROVE LeaseKnown'
    BY <1>4 DEF LeaseKnown, TypeOK, Reserve, Ends, Existing, Reserved, Goes
  <1>5. ASSUME NEW c \in Callers, SpawnFails(c) PROVE LeaseKnown'
    BY <1>5 DEF LeaseKnown, TypeOK, SpawnFails, Ends, Goes
  <1>6. ASSUME NEW c \in Callers, NEW g \in Gens, Spawn(c, g) PROVE LeaseKnown'
    BY <1>6 DEF LeaseKnown, TypeOK, Spawn, Goes
  <1>7. ASSUME NEW c \in Callers, Complete(c) PROVE LeaseKnown'
    BY <1>7 DEF LeaseKnown, TypeOK, Complete, Goes
  <1>8. ASSUME NEW c \in Callers, Resize(c) PROVE LeaseKnown'
    BY <1>8 DEF LeaseKnown, TypeOK, Resize, Ends, Goes
  <1>9. ASSUME NEW c \in Callers, CloseLook(c) PROVE LeaseKnown'
    BY <1>9 DEF LeaseKnown, TypeOK, CloseLook, Closed, NotClosed, Goes
  <1>10. ASSUME NEW c \in Callers, CloseFindsOther(c) PROVE LeaseKnown'
    BY <1>10 DEF LeaseKnown, TypeOK, CloseFindsOther, Closed, NotClosed, Goes
  <1>11. ASSUME NEW c \in Callers, CloseEnded(c) PROVE LeaseKnown'
    BY <1>11 DEF LeaseKnown, TypeOK, CloseEnded, Closed, NotClosed, Goes
  <1>12. ASSUME NEW c \in Callers, CloseTakes(c) PROVE LeaseKnown'
    BY <1>12 DEF LeaseKnown, TypeOK, CloseTakes, Goes
  <1>13. ASSUME NEW c \in Callers, CloseSignals(c) PROVE LeaseKnown'
    BY <1>13 DEF LeaseKnown, TypeOK, CloseSignals, Goes
  <1>14. ASSUME NEW c \in Callers, CloseConfirmed(c) PROVE LeaseKnown'
    BY <1>14 DEF LeaseKnown, TypeOK, CloseConfirmed, Goes
  <1>15. ASSUME NEW c \in Callers, CloseTimesOut(c) PROVE LeaseKnown'
    BY <1>15 DEF LeaseKnown, TypeOK, CloseTimesOut, Goes
  <1>16. ASSUME NEW c \in Callers, CloseGivesUp(c) PROVE LeaseKnown'
    BY <1>16 DEF LeaseKnown, TypeOK, CloseGivesUp, NotClosed, Goes
  <1>17. ASSUME NEW c \in Callers, CloseRemoves(c) PROVE LeaseKnown'
    BY <1>17 DEF LeaseKnown, TypeOK, CloseRemoves, Closed, NotClosed, Goes
  <1>18. ASSUME NEW c \in Callers, Drain(c) PROVE LeaseKnown'
    BY <1>18 DEF LeaseKnown, TypeOK, Drain, Goes
  <1>19. ASSUME NEW c \in Callers, CloseNext(c) PROVE LeaseKnown'
    BY <1>19 DEF LeaseKnown, TypeOK, CloseNext, Goes
  <1>20. ASSUME NEW c \in Callers, Seek(c) PROVE LeaseKnown'
    BY <1>20 DEF LeaseKnown, TypeOK, Seek, Ends, Goes
  <1>21. ASSUME NEW c \in Callers, Refused(c) PROVE LeaseKnown'
    BY <1>21 DEF LeaseKnown, TypeOK, Refused, Ends, Goes
  <1>22. ASSUME NEW c \in Callers, NEW l \in Leases, OpenTakes(c, l) PROVE LeaseKnown'
    BY <1>22 DEF LeaseKnown, TypeOK, OpenTakes, Goes
  <1>23. ASSUME NEW c \in Callers, ReclaimTakes(c) PROVE LeaseKnown'
    BY <1>23 DEF LeaseKnown, TypeOK, ReclaimTakes, Goes
  <1>24. ASSUME NEW c \in Callers, Announces(c) PROVE LeaseKnown'
    BY <1>24 DEF LeaseKnown, TypeOK, Announces, Goes
  <1>25. ASSUME NEW c \in Callers, Launches(c) PROVE LeaseKnown'
    BY <1>25 DEF LeaseKnown, TypeOK, Launches, Ends, Goes
  <1>26. ASSUME NEW c \in Callers, InputTakes(c) PROVE LeaseKnown'
    BY <1>26 DEF LeaseKnown, TypeOK, InputTakes, Goes
  <1>27. ASSUME NEW c \in Callers, PromptTakes(c) PROVE LeaseKnown'
    BY <1>27 DEF LeaseKnown, TypeOK, PromptTakes, Goes
  <1>28. ASSUME NEW c \in Callers, Writes(c) PROVE LeaseKnown'
    BY <1>28 DEF LeaseKnown, TypeOK, Writes, Goes
  <1>29. ASSUME NEW c \in Callers, PromptFinishes(c) PROVE LeaseKnown'
    BY <1>29 DEF LeaseKnown, TypeOK, PromptFinishes, Ends, Goes
  <1>30. CASE UNCHANGED vars
    BY <1>30 DEF LeaseKnown, vars
  <1> QED
    BY <1>1, <1>2, <1>3, <1>4, <1>5, <1>6, <1>7, <1>8, <1>9, <1>10, <1>11, <1>12, <1>13, <1>14,
       <1>15, <1>16, <1>17, <1>18, <1>19, <1>20, <1>21, <1>22, <1>23, <1>24, <1>25, <1>26,
       <1>27, <1>28, <1>29, <1>30
    DEF Next, Caller, Create, Close, CloseAll, Uses, Waiter, Reader, Listener

-----------------------------------------------------------------------------
(* Reservations, and what is registered *)

(* Nobody else registers or reserves an id that is reserved. *)
LEMMA ReservedAloneStep ==
  ASSUME TypeOK, ReservedAlone, [Next]_vars
  PROVE  ReservedAlone'
  <1> USE DEF registry, presentation, ends, gate, listeners, locks, caller, Spawning
  <1>1. ASSUME NEW g \in Gens, GroupEnds(g) \/ PidRecycled(g) \/ WaiterReaps(g) \/
     WaiterKills(g) \/ WaiterConfirms(g) \/ WaiterPublishes(g) \/ ReaderEnds(g) \/
     ReaderLooks(g) \/ ReaderResets(g) \/ ForwardFails(g)
        PROVE  ReservedAlone'
    <2>1. UNCHANGED <<pc, on, creating, sess>>
      BY <1>1 DEF GroupEnds, PidRecycled, WaiterReaps, WaiterKills, WaiterConfirms,
         WaiterPublishes, ReaderEnds, ReaderLooks, ReaderResets, ForwardFails
    <2> QED
      BY <2>1 DEF ReservedAlone
  <1>2. ASSUME NEW l \in Leases, Accepts(l) \/ GivesUp(l) \/ Establishes(l) \/ Detaches(l) \/
     ListenerResets(l)
        PROVE  ReservedAlone'
    <2>1. UNCHANGED <<pc, on, creating, sess>>
      BY <1>2 DEF Accepts, GivesUp, Establishes, Detaches, ListenerResets, Listens, Outside
    <2> QED
      BY <2>1 DEF ReservedAlone
  <1>3. ASSUME NEW c \in Callers, Resize(c) \/ CloseLook(c) \/ CloseFindsOther(c) \/
     CloseEnded(c) \/ CloseTakes(c) \/ CloseSignals(c) \/ CloseConfirmed(c) \/ CloseTimesOut(c)
     \/ CloseGivesUp(c) \/ CloseRemoves(c) \/ Drain(c) \/ CloseNext(c) \/ Seek(c) \/ Refused(c)
     \/ ReclaimTakes(c) \/ Announces(c) \/ Launches(c) \/ InputTakes(c) \/ PromptTakes(c) \/
     Writes(c) \/ PromptFinishes(c)
        PROVE  ReservedAlone'
    <2>1. Elsewhere(c, Spawning)
      BY <1>3, CallerMoves DEF Moves, Elsewhere
    <2>2. \A d \in Callers \ {c} : on'[d] = on[d]
      BY <1>3, OthersRest DEF Resize, CloseLook, CloseFindsOther, CloseEnded, CloseTakes,
         CloseSignals, CloseConfirmed, CloseTimesOut, CloseGivesUp, CloseRemoves, Drain, Seek,
         Refused, ReclaimTakes, Announces, Launches, InputTakes, PromptTakes, Writes,
         PromptFinishes
    <2>3. \A i \in Ids : sess[i] = None => sess'[i] = None
      BY <1>3, OthersRest DEF Resize, CloseLook, CloseFindsOther, CloseTakes, CloseSignals,
         CloseConfirmed, CloseTimesOut, CloseGivesUp, Drain, CloseNext, Seek, Refused,
         ReclaimTakes, Announces, Launches, InputTakes, PromptTakes, Writes, PromptFinishes
    <2>4. \A d \in Callers : pc'[d] \in Spawning => pc[d] \in Spawning /\ on'[d] = on[d]
      BY <2>1, <2>2 DEF Elsewhere
    <2>5. UNCHANGED <<creating>>
      BY <1>3 DEF Resize, CloseLook, CloseFindsOther, CloseEnded, CloseTakes, CloseSignals,
         CloseConfirmed, CloseTimesOut, CloseGivesUp, CloseRemoves, Drain, CloseNext, Seek,
         Refused, ReclaimTakes, Announces, Launches, InputTakes, PromptTakes, Writes,
         PromptFinishes
    <2> QED
      BY <2>1, <2>2, <2>3, <2>4, <2>5 DEF ReservedAlone, TypeOK
  <1>4. ASSUME NEW c \in Callers, NEW o \in AllOps, NEW i \in Ids, Calls(c, o, i)
        PROVE  ReservedAlone'
    BY <1>4 DEF ReservedAlone, TypeOK, Calls, Goes
  <1>5. ASSUME NEW c \in Callers, Reserve(c) PROVE ReservedAlone'
    <2>1. CASE /\ UNCHANGED creating /\ pc'[c] \in {"idle", "resize"}
               /\ \A d \in Callers \ {c} : pc'[d] = pc[d]
      BY <1>5, <2>1 DEF ReservedAlone, TypeOK, Reserve
    <2>2. CASE Reserved(c) /\ ~Busy(on[c]) /\ sess[on[c]] = None
      <3>1. on[c] \notin creating
        BY <2>2 DEF Busy
      <3> QED
        BY <1>5, <2>2, <3>1 DEF ReservedAlone, TypeOK, Reserve, Reserved, Goes
    <2> QED
      BY <1>5, <2>1, <2>2 DEF Reserve, Ends, Existing, Goes, TypeOK
  <1>6. ASSUME NEW c \in Callers, SpawnFails(c) PROVE ReservedAlone'
    BY <1>6 DEF ReservedAlone, TypeOK, SpawnFails, Ends, Goes
  <1>7. ASSUME NEW c \in Callers, NEW g \in Gens, Spawn(c, g) PROVE ReservedAlone'
    BY <1>7 DEF ReservedAlone, TypeOK, Spawn, Goes
  <1>8. ASSUME NEW c \in Callers, Complete(c) PROVE ReservedAlone'
    BY <1>8 DEF ReservedAlone, TypeOK, Complete, Goes
  <1>9. ASSUME NEW c \in Callers, NEW l \in Leases, OpenTakes(c, l) PROVE ReservedAlone'
    BY <1>9 DEF ReservedAlone, TypeOK, OpenTakes, Goes
  <1>10. CASE UNCHANGED vars
    BY <1>10 DEF ReservedAlone, vars
  <1> QED
    BY <1>1, <1>2, <1>3, <1>4, <1>5, <1>6, <1>7, <1>8, <1>9, <1>10
    DEF Next, Caller, Create, Close, CloseAll, Uses, Waiter, Reader, Listener

(* What is registered keeps its id and its waiter. *)
LEMMA RegisteredWaitedStep ==
  ASSUME TypeOK, TargetKnown, RegisteredWaited, [Next]_vars
  PROVE  RegisteredWaited'
  <1> USE DEF registry, presentation, ends, gate, listeners, locks, caller
  <1>1. ASSUME NEW c \in Callers, NEW o \in AllOps, NEW i \in Ids, Calls(c, o, i)
        PROVE  RegisteredWaited'
    <2>1. UNCHANGED <<sess, idOf, waiter, group>>
      BY <1>1 DEF Calls
    <2> QED
      BY <2>1 DEF RegisteredWaited
  <1>2. ASSUME NEW c \in Callers, Reserve(c) \/ SpawnFails(c) \/ Resize(c) \/ CloseLook(c) \/
     CloseFindsOther(c) \/ CloseTakes(c) \/ CloseSignals(c) \/ CloseConfirmed(c) \/
     CloseTimesOut(c) \/ CloseGivesUp(c) \/ Drain(c) \/ CloseNext(c) \/ Seek(c) \/ Refused(c) \/
     ReclaimTakes(c) \/ Announces(c) \/ Launches(c) \/ InputTakes(c) \/ PromptTakes(c) \/
     Writes(c) \/ PromptFinishes(c)
        PROVE  RegisteredWaited'
    <2>1. UNCHANGED <<sess, idOf, waiter, group>>
      BY <1>2 DEF Reserve, SpawnFails, Resize, CloseLook, CloseFindsOther, CloseTakes,
         CloseSignals, CloseConfirmed, CloseTimesOut, CloseGivesUp, Drain, CloseNext, Seek,
         Refused, ReclaimTakes, Announces, Launches, InputTakes, PromptTakes, Writes,
         PromptFinishes
    <2> QED
      BY <2>1 DEF RegisteredWaited
  <1>3. ASSUME NEW c \in Callers, NEW l \in Leases, OpenTakes(c, l) PROVE RegisteredWaited'
    <2>1. UNCHANGED <<sess, idOf, waiter, group>>
      BY <1>3 DEF OpenTakes
    <2> QED
      BY <2>1 DEF RegisteredWaited
  <1>4. ASSUME NEW g \in Gens, ReaderEnds(g) \/ ReaderLooks(g) \/ ReaderResets(g) \/
     ForwardFails(g)
        PROVE  RegisteredWaited'
    <2>1. UNCHANGED <<sess, idOf, waiter, group>>
      BY <1>4 DEF ReaderEnds, ReaderLooks, ReaderResets, ForwardFails
    <2> QED
      BY <2>1 DEF RegisteredWaited
  <1>5. ASSUME NEW l \in Leases, Accepts(l) \/ GivesUp(l) \/ Establishes(l) \/ Detaches(l) \/
     ListenerResets(l)
        PROVE  RegisteredWaited'
    <2>1. UNCHANGED <<sess, idOf, waiter, group>>
      BY <1>5 DEF Accepts, GivesUp, Establishes, Detaches, ListenerResets, Listens, Outside
    <2> QED
      BY <2>1 DEF RegisteredWaited
  <1>6. ASSUME NEW c \in Callers, NEW g \in Gens, Spawn(c, g) PROVE RegisteredWaited'
    BY <1>6 DEF RegisteredWaited, TypeOK, Spawn
  <1>7. ASSUME NEW c \in Callers, Complete(c) PROVE RegisteredWaited'
    BY <1>7 DEF RegisteredWaited, TypeOK, TargetKnown, Complete
  <1>8. ASSUME NEW c \in Callers, CloseEnded(c) PROVE RegisteredWaited'
    BY <1>8 DEF RegisteredWaited, TypeOK, CloseEnded, IsUnchanged
  <1>9. ASSUME NEW c \in Callers, CloseRemoves(c) PROVE RegisteredWaited'
    BY <1>9 DEF RegisteredWaited, TypeOK, CloseRemoves, IsUnchanged
  <1>10. ASSUME NEW g \in Gens, GroupEnds(g) PROVE RegisteredWaited'
    BY <1>10 DEF RegisteredWaited, TypeOK, GroupEnds, Runs
  <1>11. ASSUME NEW g \in Gens, PidRecycled(g) PROVE RegisteredWaited'
    BY <1>11 DEF RegisteredWaited, TypeOK, PidRecycled
  <1>12. ASSUME NEW g \in Gens, WaiterReaps(g) PROVE RegisteredWaited'
    BY <1>12 DEF RegisteredWaited, TypeOK, WaiterReaps
  <1>13. ASSUME NEW g \in Gens, WaiterKills(g) PROVE RegisteredWaited'
    BY <1>13 DEF RegisteredWaited, TypeOK, WaiterKills
  <1>14. ASSUME NEW g \in Gens, WaiterConfirms(g) PROVE RegisteredWaited'
    BY <1>14 DEF RegisteredWaited, TypeOK, WaiterConfirms
  <1>15. ASSUME NEW g \in Gens, WaiterPublishes(g) PROVE RegisteredWaited'
    BY <1>15 DEF RegisteredWaited, TypeOK, WaiterPublishes, IsRegistered
  <1>16. CASE UNCHANGED vars
    BY <1>16 DEF RegisteredWaited, vars
  <1> QED
    BY <1>1, <1>2, <1>3, <1>4, <1>5, <1>6, <1>7, <1>8, <1>9, <1>10, <1>11, <1>12, <1>13, <1>14,
       <1>15, <1>16
    DEF Next, Caller, Create, Close, CloseAll, Uses, Waiter, Reader, Listener

-----------------------------------------------------------------------------
(* Process groups *)

(* The waiter, and a close, say of a group that it ended only when it has. *)
LEMMA EndsAreKnownStep ==
  ASSUME TypeOK, OpsMatch, TargetKnown, RegisteredWaited, NoOrphan, ClosingHeld, EndsAreKnown,
     [Next]_vars
  PROVE  EndsAreKnown'
  <1> USE DEF registry, presentation, ends, gate, listeners, locks, caller, Over, Closers
  <1>1. ASSUME NEW g \in Gens, ReaderEnds(g) \/ ReaderLooks(g) \/ ReaderResets(g) \/
     ForwardFails(g)
        PROVE  EndsAreKnown'
    <2>1. UNCHANGED <<group, waiter, cleaned, state, pc, op, ok, target>>
      BY <1>1 DEF ReaderEnds, ReaderLooks, ReaderResets, ForwardFails
    <2> QED
      BY <2>1 DEF EndsAreKnown
  <1>2. ASSUME NEW l \in Leases, Accepts(l) \/ GivesUp(l) \/ Establishes(l) \/ Detaches(l) \/
     ListenerResets(l)
        PROVE  EndsAreKnown'
    <2>1. UNCHANGED <<group, waiter, cleaned, state, pc, op, ok, target>>
      BY <1>2 DEF Accepts, GivesUp, Establishes, Detaches, ListenerResets, Listens, Outside
    <2> QED
      BY <2>1 DEF EndsAreKnown
  <1>3. ASSUME NEW c \in Callers, Reserve(c) \/ SpawnFails(c) \/ Resize(c) \/ Drain(c) \/
     CloseNext(c) \/ Seek(c) \/ Refused(c) \/ ReclaimTakes(c) \/ Announces(c) \/ Launches(c) \/
     InputTakes(c) \/ PromptTakes(c) \/ Writes(c) \/ PromptFinishes(c)
        PROVE  EndsAreKnown'
    <2>1. Elsewhere(c, {"remove"})
      BY <1>3, CallerMoves DEF Moves, Elsewhere
    <2>2. op[c] # "close"
      BY <1>3, CallerMoves DEF Moves, OpsMatch, Spawning, Uses0
    <2>3. \A d \in Callers \ {c} : target'[d] = target[d]
      BY <1>3, OthersRest DEF Reserve, SpawnFails, Resize, Drain, Refused, ReclaimTakes,
         Announces, Launches, InputTakes, PromptTakes, Writes, PromptFinishes
    <2>4. UNCHANGED <<group, waiter, cleaned, state, op>>
      BY <1>3 DEF Reserve, SpawnFails, Resize, Drain, CloseNext, Seek, Refused, ReclaimTakes,
         Announces, Launches, InputTakes, PromptTakes, Writes, PromptFinishes
    <2> QED
      BY <2>1, <2>2, <2>3, <2>4 DEF EndsAreKnown, Elsewhere
  <1>4. ASSUME NEW c \in Callers, NEW o \in AllOps, NEW i \in Ids, Calls(c, o, i)
        PROVE  EndsAreKnown'
    BY <1>4 DEF EndsAreKnown, TypeOK, Calls, Goes
  <1>5. ASSUME NEW c \in Callers, NEW g \in Gens, Spawn(c, g) PROVE EndsAreKnown'
    BY <1>5 DEF EndsAreKnown, TypeOK, Spawn, Goes
  <1>6. ASSUME NEW c \in Callers, Complete(c) PROVE EndsAreKnown'
    <2>1. Moves(c, {"complete"}, {"idle", "resize"})
      BY <1>6, CallerMoves
    <2>2. op[c] # "close"
      BY <1>6 DEF Complete, OpsMatch, Spawning
    <2>3. waiter'[target[c]] = "waiting" /\ \A g \in Gens \ {target[c]} : waiter'[g] = waiter[g]
      BY <1>6 DEF Complete, TypeOK, TargetKnown
    <2> QED
      BY <1>6, <2>1, <2>2, <2>3 DEF Moves, EndsAreKnown, TypeOK, Complete
  <1>7. ASSUME NEW c \in Callers, CloseLook(c) PROVE EndsAreKnown'
    <2>1. Moves(c, {"look"}, {"idle", "reserve", "next", "control"})
      BY <1>7, CallerMoves
    <2>2. \A d \in Callers \ {c} : target'[d] = target[d]
      BY <1>7 DEF CloseLook, TypeOK
    <2>3. pc'[c] = "idle" => target'[c] = None
      BY <1>7 DEF CloseLook, TypeOK, TargetKnown, Goes
    <2> QED
      BY <1>7, <2>1, <2>2, <2>3 DEF Moves, EndsAreKnown, TypeOK, CloseLook
  <1>8. ASSUME NEW c \in Callers, CloseFindsOther(c) PROVE EndsAreKnown'
    <2>1. Moves(c, {"control"}, {"idle", "reserve", "next"})
      BY <1>8, CallerMoves
    <2>2. Closed(c) => Over(target[c])
      <3>1. target[c] \in Gens /\ idOf[target[c]] = on[c] /\ waiter[target[c]] # "none"
        BY <1>8 DEF CloseFindsOther, TargetKnown
      <3>2. ~IsUnchanged(c)
        BY <1>8, ManagerAssumption DEF CloseFindsOther, ClosingHeld, IsUnchanged, TypeOK
      <3>3. ~Runs(target[c])
        BY <3>1, <3>2 DEF NoOrphan, IsUnchanged, IsRegistered, TargetKnown
      <3>4. group[target[c]] # "none"
        BY <3>1 DEF RegisteredWaited
      <3> QED
        BY <3>1, <3>3, <3>4 DEF Runs, TypeOK
    <2>3. ok'[c] => Closed(c)
      BY <1>8, ClosedGoes DEF CloseFindsOther
    <2> QED
      BY <1>8, <2>1, <2>2, <2>3 DEF Moves, EndsAreKnown, TypeOK, CloseFindsOther
  <1>9. ASSUME NEW c \in Callers, CloseEnded(c) PROVE EndsAreKnown'
    BY <1>9 DEF EndsAreKnown, TypeOK, CloseEnded, Closed, NotClosed, Goes
  <1>10. ASSUME NEW c \in Callers, CloseTakes(c) PROVE EndsAreKnown'
    BY <1>10 DEF EndsAreKnown, TypeOK, CloseTakes, Goes
  <1>11. ASSUME NEW c \in Callers, CloseSignals(c) PROVE EndsAreKnown'
    BY <1>11 DEF EndsAreKnown, TypeOK, CloseSignals, Goes
  <1>12. ASSUME NEW c \in Callers, CloseConfirmed(c) PROVE EndsAreKnown'
    <2>1. Over(target[c])
      BY <1>12 DEF CloseConfirmed, IsConfirmed, EndsAreKnown, TargetKnown
    <2> QED
      BY <1>12, <2>1 DEF Moves, EndsAreKnown, TypeOK, CloseConfirmed, Goes
  <1>13. ASSUME NEW c \in Callers, CloseTimesOut(c) PROVE EndsAreKnown'
    BY <1>13 DEF EndsAreKnown, TypeOK, CloseTimesOut, Goes
  <1>14. ASSUME NEW c \in Callers, CloseGivesUp(c) PROVE EndsAreKnown'
    BY <1>14 DEF EndsAreKnown, TypeOK, CloseGivesUp, NotClosed, Goes
  <1>15. ASSUME NEW c \in Callers, CloseRemoves(c) PROVE EndsAreKnown'
    BY <1>15 DEF EndsAreKnown, TypeOK, CloseRemoves, Closed, NotClosed, Goes
  <1>16. ASSUME NEW c \in Callers, NEW l \in Leases, OpenTakes(c, l) PROVE EndsAreKnown'
    BY <1>16 DEF EndsAreKnown, TypeOK, OpenTakes, Goes
  <1>17. ASSUME NEW g \in Gens, GroupEnds(g) PROVE EndsAreKnown'
    BY <1>17 DEF EndsAreKnown, TypeOK, GroupEnds, Runs
  <1>18. ASSUME NEW g \in Gens, PidRecycled(g) PROVE EndsAreKnown'
    BY <1>18 DEF EndsAreKnown, TypeOK, PidRecycled
  <1>19. ASSUME NEW g \in Gens, WaiterReaps(g) PROVE EndsAreKnown'
    BY <1>19 DEF EndsAreKnown, TypeOK, WaiterReaps
  <1>20. ASSUME NEW g \in Gens, WaiterKills(g) PROVE EndsAreKnown'
    BY <1>20 DEF EndsAreKnown, TypeOK, WaiterKills
  <1>21. ASSUME NEW g \in Gens, WaiterConfirms(g) PROVE EndsAreKnown'
    BY <1>21 DEF EndsAreKnown, TypeOK, WaiterConfirms
  <1>22. ASSUME NEW g \in Gens, WaiterPublishes(g) PROVE EndsAreKnown'
    <2>1. waiter' = [waiter EXCEPT ![g] = "done"] /\ UNCHANGED <<group, caller>>
      BY <1>22 DEF WaiterPublishes
    <2>2. CASE UNCHANGED <<cleaned, state>>
      BY <2>1, <2>2 DEF EndsAreKnown, TypeOK
    <2>3. CASE waiter[g] = "clean" /\ cleaned' = [cleaned EXCEPT ![g] = TRUE]
               /\ state' = [state EXCEPT ![g] = "exited"]
      BY <2>1, <2>3 DEF EndsAreKnown, TypeOK
    <2>4. CASE cleaned' = [cleaned EXCEPT ![g] = FALSE] /\ state' = [state EXCEPT ![g] = "error"]
      BY <2>1, <2>4 DEF EndsAreKnown, TypeOK
    <2> QED
      BY <1>22, <2>2, <2>3, <2>4 DEF WaiterPublishes
  <1>23. CASE UNCHANGED vars
    BY <1>23 DEF EndsAreKnown, vars
  <1> QED
    BY <1>1, <1>2, <1>3, <1>4, <1>5, <1>6, <1>7, <1>8, <1>9, <1>10, <1>11, <1>12, <1>13, <1>14,
       <1>15, <1>16, <1>17, <1>18, <1>19, <1>20, <1>21, <1>22, <1>23
    DEF Next, Caller, Create, Close, CloseAll, Uses, Waiter, Reader, Listener

(* A running group stays registered, or with the caller that spawned it. *)
LEMMA NoOrphanStep ==
  ASSUME TypeOK, TargetKnown, ReservedAlone, RegisteredWaited, EndsAreKnown, NoOrphan,
     [Next]_vars
  PROVE  NoOrphan'
  <1> USE DEF registry, presentation, ends, gate, listeners, locks, caller, Over, Closers
  <1>1. ASSUME NEW g \in Gens, WaiterReaps(g) \/ WaiterKills(g) \/ WaiterConfirms(g) \/
     WaiterPublishes(g) \/ ReaderEnds(g) \/ ReaderLooks(g) \/ ReaderResets(g) \/ ForwardFails(g)
        PROVE  NoOrphan'
    <2>1. UNCHANGED <<group, sess, idOf, pc, target>>
      BY <1>1 DEF WaiterReaps, WaiterKills, WaiterConfirms, WaiterPublishes, ReaderEnds,
         ReaderLooks, ReaderResets, ForwardFails
    <2> QED
      BY <2>1 DEF NoOrphan, IsRegistered, Runs
  <1>2. ASSUME NEW l \in Leases, Accepts(l) \/ GivesUp(l) \/ Establishes(l) \/ Detaches(l) \/
     ListenerResets(l)
        PROVE  NoOrphan'
    <2>1. UNCHANGED <<group, sess, idOf, pc, target>>
      BY <1>2 DEF Accepts, GivesUp, Establishes, Detaches, ListenerResets, Listens, Outside
    <2> QED
      BY <2>1 DEF NoOrphan, IsRegistered, Runs
  <1>3. ASSUME NEW c \in Callers, Reserve(c) \/ SpawnFails(c) \/ Resize(c) \/ CloseLook(c) \/
     CloseFindsOther(c) \/ CloseTakes(c) \/ CloseSignals(c) \/ CloseConfirmed(c) \/
     CloseTimesOut(c) \/ CloseGivesUp(c) \/ Drain(c) \/ CloseNext(c) \/ Seek(c) \/ Refused(c) \/
     ReclaimTakes(c) \/ Announces(c) \/ Launches(c) \/ InputTakes(c) \/ PromptTakes(c) \/
     Writes(c) \/ PromptFinishes(c)
        PROVE  NoOrphan'
    <2>1. pc[c] # "complete" /\ Elsewhere(c, {"complete"})
      BY <1>3, CallerMoves DEF Moves, Elsewhere
    <2>2. \A d \in Callers \ {c} : target'[d] = target[d]
      BY <1>3, OthersRest DEF Reserve, SpawnFails, Resize, CloseFindsOther, CloseTakes,
         CloseSignals, CloseConfirmed, CloseTimesOut, CloseGivesUp, Drain, Refused,
         ReclaimTakes, Announces, Launches, InputTakes, PromptTakes, Writes, PromptFinishes
    <2>3. UNCHANGED <<group, sess, idOf>>
      BY <1>3 DEF Reserve, SpawnFails, Resize, CloseLook, CloseFindsOther, CloseTakes,
         CloseSignals, CloseConfirmed, CloseTimesOut, CloseGivesUp, Drain, CloseNext, Seek,
         Refused, ReclaimTakes, Announces, Launches, InputTakes, PromptTakes, Writes,
         PromptFinishes
    <2> QED
      BY <2>1, <2>2, <2>3 DEF NoOrphan, IsRegistered, Runs, Elsewhere
  <1>4. ASSUME NEW c \in Callers, NEW o \in AllOps, NEW i \in Ids, Calls(c, o, i)
        PROVE  NoOrphan'
    BY <1>4 DEF NoOrphan, IsRegistered, Runs, TypeOK, Calls, Goes
  <1>5. ASSUME NEW c \in Callers, NEW g \in Gens, Spawn(c, g) PROVE NoOrphan'
    BY <1>5 DEF NoOrphan, IsRegistered, Runs, TypeOK, Spawn, Goes
  <1>6. ASSUME NEW c \in Callers, Complete(c) PROVE NoOrphan'
    <2>1. Moves(c, {"complete"}, {"idle", "resize"}) /\ UNCHANGED <<group, idOf, target>>
      BY <1>6, CallerMoves DEF Complete
    <2>2. sess[on[c]] = None /\ idOf[target[c]] = on[c] /\ target[c] \in Gens
      BY <1>6 DEF Complete, ReservedAlone, Spawning, TargetKnown
    <2>3. sess' = [sess EXCEPT ![on[c]] = target[c]]
      BY <1>6 DEF Complete
    <2> SUFFICES ASSUME NEW g \in Gens, Runs(g)'
                 PROVE  \/ IsRegistered(g)'
                        \/ \E d \in Callers : (pc[d] = "complete" /\ target[d] = g)'
      BY DEF NoOrphan
    <2>4. CASE IsRegistered(g)
      BY <2>1, <2>2, <2>3, <2>4, ManagerAssumption DEF IsRegistered, TypeOK
    <2>5. CASE g = target[c]
      BY <2>1, <2>2, <2>3, <2>5 DEF IsRegistered, TypeOK
    <2>6. ASSUME NEW d \in Callers \ {c}, pc[d] = "complete", target[d] = g
          PROVE  (pc[d] = "complete" /\ target[d] = g)'
      BY <2>1, <2>6 DEF Moves
    <2>7. Runs(g)
      BY <2>1 DEF Runs
    <2> QED
      BY <2>4, <2>5, <2>6, <2>7 DEF NoOrphan
  <1>7. ASSUME NEW c \in Callers, CloseEnded(c) PROVE NoOrphan'
    <2>1. Moves(c, {"control"}, {"idle", "reserve", "next"}) /\ UNCHANGED <<group, idOf, target>>
      BY <1>7, CallerMoves DEF CloseEnded
    <2>2. \A i \in Ids : sess'[i] = sess[i] \/ (Over(sess[i]) /\ sess[i] # None)
      BY <1>7 DEF CloseEnded, EndsAreKnown, TargetKnown, IsUnchanged, TypeOK
    <2> SUFFICES ASSUME NEW g \in Gens, Runs(g)'
                 PROVE  \/ IsRegistered(g)'
                        \/ \E d \in Callers : (pc[d] = "complete" /\ target[d] = g)'
      BY DEF NoOrphan
    <2>3. Runs(g) /\ ~Over(g)
      BY <2>1 DEF Runs
    <2>4. CASE IsRegistered(g)
      BY <2>1, <2>2, <2>3, <2>4 DEF IsRegistered, TypeOK
    <2>5. ASSUME NEW d \in Callers, pc[d] = "complete", target[d] = g
          PROVE  (pc[d] = "complete" /\ target[d] = g)'
      BY <2>1, <2>5 DEF Moves
    <2> QED
      BY <2>3, <2>4, <2>5 DEF NoOrphan
  <1>8. ASSUME NEW c \in Callers, CloseRemoves(c) PROVE NoOrphan'
    <2>1. Moves(c, {"remove"}, {"idle", "reserve", "next"}) /\ UNCHANGED <<group, idOf, target>>
      BY <1>8, CallerMoves DEF CloseRemoves
    <2>2. \A i \in Ids : sess'[i] = sess[i] \/ (Over(sess[i]) /\ sess[i] # None)
      BY <1>8 DEF CloseRemoves, EndsAreKnown, TargetKnown, IsUnchanged, TypeOK
    <2> SUFFICES ASSUME NEW g \in Gens, Runs(g)'
                 PROVE  \/ IsRegistered(g)'
                        \/ \E d \in Callers : (pc[d] = "complete" /\ target[d] = g)'
      BY DEF NoOrphan
    <2>3. Runs(g) /\ ~Over(g)
      BY <2>1 DEF Runs
    <2>4. CASE IsRegistered(g)
      BY <2>1, <2>2, <2>3, <2>4 DEF IsRegistered, TypeOK
    <2>5. ASSUME NEW d \in Callers, pc[d] = "complete", target[d] = g
          PROVE  (pc[d] = "complete" /\ target[d] = g)'
      BY <2>1, <2>5 DEF Moves
    <2> QED
      BY <2>3, <2>4, <2>5 DEF NoOrphan
  <1>9. ASSUME NEW c \in Callers, NEW l \in Leases, OpenTakes(c, l) PROVE NoOrphan'
    BY <1>9 DEF NoOrphan, IsRegistered, Runs, TypeOK, OpenTakes, Goes
  <1>10. ASSUME NEW g \in Gens, GroupEnds(g) PROVE NoOrphan'
    BY <1>10 DEF NoOrphan, IsRegistered, Runs, TypeOK, GroupEnds
  <1>11. ASSUME NEW g \in Gens, PidRecycled(g) PROVE NoOrphan'
    BY <1>11 DEF NoOrphan, IsRegistered, Runs, TypeOK, PidRecycled
  <1>12. CASE UNCHANGED vars
    BY <1>12 DEF NoOrphan, IsRegistered, Runs, vars
  <1> QED
    BY <1>1, <1>2, <1>3, <1>4, <1>5, <1>6, <1>7, <1>8, <1>9, <1>10, <1>11, <1>12
    DEF Next, Caller, Create, Close, CloseAll, Uses, Waiter, Reader, Listener

-----------------------------------------------------------------------------
(* Locks *)

(* A control lock is taken when free, and given back by who holds it. *)
LEMMA ControlHeldStep ==
  ASSUME TypeOK, TargetKnown, ControlHeld, [Next]_vars
  PROVE  ControlHeld'
  <1> USE DEF registry, presentation, ends, gate, listeners, locks, caller, Closers
  <1>1. ASSUME NEW g \in Gens, GroupEnds(g) \/ PidRecycled(g) \/ WaiterReaps(g) \/
     WaiterKills(g) \/ WaiterConfirms(g) \/ WaiterPublishes(g) \/ ReaderEnds(g) \/
     ReaderLooks(g) \/ ReaderResets(g) \/ ForwardFails(g)
        PROVE  ControlHeld'
    <2>1. UNCHANGED <<pc, op, control, target>>
      BY <1>1 DEF GroupEnds, PidRecycled, WaiterReaps, WaiterKills, WaiterConfirms,
         WaiterPublishes, ReaderEnds, ReaderLooks, ReaderResets, ForwardFails
    <2> QED
      BY <2>1 DEF ControlHeld, Holds
  <1>2. ASSUME NEW l \in Leases, Accepts(l) \/ GivesUp(l) \/ Establishes(l) \/ Detaches(l) \/
     ListenerResets(l)
        PROVE  ControlHeld'
    <2>1. UNCHANGED <<pc, op, control, target>>
      BY <1>2 DEF Accepts, GivesUp, Establishes, Detaches, ListenerResets, Listens, Outside
    <2> QED
      BY <2>1 DEF ControlHeld, Holds
  <1>3. ASSUME NEW c \in Callers, Reserve(c) \/ SpawnFails(c) \/ Complete(c) \/ Resize(c) \/
     CloseLook(c) \/ CloseFindsOther(c) \/ CloseEnded(c) \/ Drain(c) \/ CloseNext(c) \/ Seek(c)
     \/ Refused(c) \/ Launches(c) \/ PromptFinishes(c)
        PROVE  ControlHeld'
    <2>1. Elsewhere(c, Closers \cup {"announce", "write"})
      BY <1>3, CallerMoves DEF Moves, Elsewhere
    <2>2. \A d \in Callers \ {c} : target'[d] = target[d]
      BY <1>3, OthersRest DEF Reserve, SpawnFails, Complete, Resize, CloseFindsOther,
         CloseEnded, Drain, Refused, Launches, PromptFinishes
    <2>3. UNCHANGED <<op, control>>
      BY <1>3 DEF Reserve, SpawnFails, Complete, Resize, CloseLook, CloseFindsOther, CloseEnded,
         Drain, CloseNext, Seek, Refused, Launches, PromptFinishes
    <2> QED
      BY <2>1, <2>2, <2>3 DEF ControlHeld, Holds, Elsewhere
  <1>4. ASSUME NEW c \in Callers, NEW o \in AllOps, NEW i \in Ids, Calls(c, o, i)
        PROVE  ControlHeld'
    BY <1>4 DEF ControlHeld, Holds, TypeOK, Calls, Goes
  <1>5. ASSUME NEW c \in Callers, NEW g \in Gens, Spawn(c, g) PROVE ControlHeld'
    BY <1>5 DEF ControlHeld, Holds, TypeOK, Spawn, Goes
  <1>6. ASSUME NEW c \in Callers, CloseTakes(c) PROVE ControlHeld'
    <2>1. Moves(c, {"control"}, {"hup"})
      BY <1>6, CallerMoves DEF CloseTakes, Moves, Goes, TypeOK
    <2>2. /\ control' = [control EXCEPT ![target[c]] = c] /\ control[target[c]] = None
          /\ target[c] \in Gens /\ UNCHANGED <<op, target>>
      BY <1>6 DEF CloseTakes, TargetKnown
    <2>3. \A d \in Callers \ {c} : Holds(d)' => Holds(d)
      BY <2>1, <2>2 DEF Moves, Holds
    <2>4. \A d \in Callers \ {c} : Holds(d) => target[d] # target[c]
      BY <2>2, ManagerAssumption DEF ControlHeld
    <2> QED
      BY <2>2, <2>3, <2>4 DEF ControlHeld, TypeOK
  <1>7. ASSUME NEW c \in Callers, CloseSignals(c) PROVE ControlHeld'
    BY <1>7 DEF ControlHeld, Holds, TypeOK, CloseSignals, Goes
  <1>8. ASSUME NEW c \in Callers, CloseConfirmed(c) PROVE ControlHeld'
    BY <1>8 DEF ControlHeld, Holds, TypeOK, CloseConfirmed, Goes
  <1>9. ASSUME NEW c \in Callers, CloseTimesOut(c) PROVE ControlHeld'
    BY <1>9 DEF ControlHeld, Holds, TypeOK, CloseTimesOut, Goes
  <1>10. ASSUME NEW c \in Callers, CloseGivesUp(c) PROVE ControlHeld'
    <2>1. Moves(c, {"hup", "kill", "confirm"}, {"idle", "next"})
      BY <1>10, CallerMoves
    <2>2. control' = [control EXCEPT ![target[c]] = None] /\ UNCHANGED <<op, target>>
      BY <1>10 DEF CloseGivesUp, Released
    <2>3. Holds(c) /\ ~Holds(c)'
      BY <2>1, <2>2 DEF Moves, Holds
    <2>4. \A d \in Callers \ {c} : Holds(d)' => Holds(d)
      BY <2>1, <2>2 DEF Moves, Holds
    <2>5. \A d \in Callers \ {c} : Holds(d) => target[d] # target[c]
      BY <2>3 DEF ControlHeld
    <2> QED
      BY <2>2, <2>3, <2>4, <2>5 DEF ControlHeld, TypeOK
  <1>11. ASSUME NEW c \in Callers, CloseRemoves(c) PROVE ControlHeld'
    <2>1. Moves(c, {"remove"}, {"idle", "reserve", "next"})
      BY <1>11, CallerMoves
    <2>2. control' = [control EXCEPT ![target[c]] = None] /\ UNCHANGED <<op, target>>
      BY <1>11 DEF CloseRemoves, Released
    <2>3. Holds(c) /\ ~Holds(c)'
      BY <2>1, <2>2 DEF Moves, Holds
    <2>4. \A d \in Callers \ {c} : Holds(d)' => Holds(d)
      BY <2>1, <2>2 DEF Moves, Holds
    <2>5. \A d \in Callers \ {c} : Holds(d) => target[d] # target[c]
      BY <2>3 DEF ControlHeld
    <2> QED
      BY <2>2, <2>3, <2>4, <2>5 DEF ControlHeld, TypeOK
  <1>12. ASSUME NEW c \in Callers, NEW l \in Leases, OpenTakes(c, l) PROVE ControlHeld'
    <2>1. Moves(c, {"take"}, {"announce"})
      BY <1>12, CallerMoves DEF OpenTakes, Moves, Goes, TypeOK
    <2>2. /\ control' = [control EXCEPT ![target[c]] = c] /\ control[target[c]] = None
          /\ target[c] \in Gens /\ UNCHANGED <<op, target>>
      BY <1>12 DEF OpenTakes, TargetKnown
    <2>3. \A d \in Callers \ {c} : Holds(d)' => Holds(d)
      BY <2>1, <2>2 DEF Moves, Holds
    <2>4. \A d \in Callers \ {c} : Holds(d) => target[d] # target[c]
      BY <2>2, ManagerAssumption DEF ControlHeld
    <2> QED
      BY <2>2, <2>3, <2>4 DEF ControlHeld, TypeOK
  <1>13. ASSUME NEW c \in Callers, ReclaimTakes(c) PROVE ControlHeld'
    <2>1. Moves(c, {"take"}, {"announce"})
      BY <1>13, CallerMoves DEF ReclaimTakes, Moves, Goes, TypeOK
    <2>2. /\ control' = [control EXCEPT ![target[c]] = c] /\ control[target[c]] = None
          /\ target[c] \in Gens /\ UNCHANGED <<op, target>>
      BY <1>13 DEF ReclaimTakes, TargetKnown
    <2>3. \A d \in Callers \ {c} : Holds(d)' => Holds(d)
      BY <2>1, <2>2 DEF Moves, Holds
    <2>4. \A d \in Callers \ {c} : Holds(d) => target[d] # target[c]
      BY <2>2, ManagerAssumption DEF ControlHeld
    <2> QED
      BY <2>2, <2>3, <2>4 DEF ControlHeld, TypeOK
  <1>14. ASSUME NEW c \in Callers, Announces(c) PROVE ControlHeld'
    <2>1. Moves(c, {"announce"}, {"idle", "launch"})
      BY <1>14, CallerMoves
    <2>2. control' = [control EXCEPT ![target[c]] = None] /\ UNCHANGED <<op, target>>
      BY <1>14 DEF Announces, Released
    <2>3. Holds(c) /\ ~Holds(c)'
      BY <2>1, <2>2 DEF Moves, Holds
    <2>4. \A d \in Callers \ {c} : Holds(d)' => Holds(d)
      BY <2>1, <2>2 DEF Moves, Holds
    <2>5. \A d \in Callers \ {c} : Holds(d) => target[d] # target[c]
      BY <2>3 DEF ControlHeld
    <2> QED
      BY <2>2, <2>3, <2>4, <2>5 DEF ControlHeld, TypeOK
  <1>15. ASSUME NEW c \in Callers, InputTakes(c) PROVE ControlHeld'
    <2>1. Moves(c, {"take"}, {"write"})
      BY <1>15, CallerMoves DEF InputTakes, Moves, Goes, TypeOK
    <2>2. /\ control' = [control EXCEPT ![target[c]] = c] /\ control[target[c]] = None
          /\ target[c] \in Gens /\ UNCHANGED <<op, target>>
      BY <1>15 DEF InputTakes, TargetKnown
    <2>3. \A d \in Callers \ {c} : Holds(d)' => Holds(d)
      BY <2>1, <2>2 DEF Moves, Holds
    <2>4. \A d \in Callers \ {c} : Holds(d) => target[d] # target[c]
      BY <2>2, ManagerAssumption DEF ControlHeld
    <2> QED
      BY <2>2, <2>3, <2>4 DEF ControlHeld, TypeOK
  <1>16. ASSUME NEW c \in Callers, PromptTakes(c) PROVE ControlHeld'
    BY <1>16 DEF ControlHeld, Holds, TypeOK, PromptTakes, Goes
  <1>17. ASSUME NEW c \in Callers, Writes(c) PROVE ControlHeld'
    <2>1. Moves(c, {"write"}, {"idle", "finish"}) /\ UNCHANGED <<op, target>>
      BY <1>17, CallerMoves DEF Writes
    <2>2. \A d \in Callers \ {c} : Holds(d)' => Holds(d)
      BY <2>1 DEF Moves, Holds
    <2>3. ~Holds(c)'
      BY <2>1 DEF Moves, Holds
    <2>4. CASE UNCHANGED control
      BY <2>1, <2>2, <2>3, <2>4 DEF ControlHeld
    <2>5. CASE op[c] = "input" /\ Released(c)
      <3>1. \A d \in Callers \ {c} : Holds(d) => target[d] # target[c]
        BY <2>1, <2>5 DEF ControlHeld, Holds, Moves
      <3> QED
        BY <2>1, <2>2, <2>3, <2>5, <3>1 DEF ControlHeld, Released, TypeOK
    <2> QED
      BY <1>17, <2>4, <2>5 DEF Writes
  <1>18. CASE UNCHANGED vars
    BY <1>18 DEF ControlHeld, Holds, vars
  <1> QED
    BY <1>1, <1>2, <1>3, <1>4, <1>5, <1>6, <1>7, <1>8, <1>9, <1>10, <1>11, <1>12, <1>13, <1>14,
       <1>15, <1>16, <1>17, <1>18
    DEF Next, Caller, Create, Close, CloseAll, Uses, Waiter, Reader, Listener

(* A close under way keeps its session registered, and its lock. *)
LEMMA ClosingHeldStep ==
  ASSUME TypeOK, TargetKnown, ReservedAlone, RegisteredWaited, ControlHeld, ClosingHeld,
     [Next]_vars
  PROVE  ClosingHeld'
  <1> USE DEF registry, presentation, ends, gate, listeners, locks, caller, Closers
  <1>1. ASSUME NEW g \in Gens, GroupEnds(g) \/ PidRecycled(g) \/ WaiterReaps(g) \/
     WaiterKills(g) \/ WaiterConfirms(g) \/ WaiterPublishes(g) \/ ReaderEnds(g) \/
     ReaderLooks(g) \/ ReaderResets(g) \/ ForwardFails(g)
        PROVE  ClosingHeld'
    <2>1. UNCHANGED <<pc, control, target, closing, sess>>
      BY <1>1 DEF GroupEnds, PidRecycled, WaiterReaps, WaiterKills, WaiterConfirms,
         WaiterPublishes, ReaderEnds, ReaderLooks, ReaderResets, ForwardFails
    <2> QED
      BY <2>1 DEF ClosingHeld
  <1>2. ASSUME NEW l \in Leases, Accepts(l) \/ GivesUp(l) \/ Establishes(l) \/ Detaches(l) \/
     ListenerResets(l)
        PROVE  ClosingHeld'
    <2>1. UNCHANGED <<pc, control, target, closing, sess>>
      BY <1>2 DEF Accepts, GivesUp, Establishes, Detaches, ListenerResets, Listens, Outside
    <2> QED
      BY <2>1 DEF ClosingHeld
  <1>3. ASSUME NEW c \in Callers, Reserve(c) \/ SpawnFails(c) \/ Resize(c) \/ CloseLook(c) \/
     CloseFindsOther(c) \/ Drain(c) \/ CloseNext(c) \/ Seek(c) \/ Refused(c) \/ Launches(c) \/
     PromptTakes(c) \/ PromptFinishes(c)
        PROVE  ClosingHeld'
    <2>1. pc[c] \notin Closers /\ Elsewhere(c, {})
      BY <1>3, CallerMoves DEF Moves, Elsewhere
    <2>2. \A d \in Callers \ {c} : target'[d] = target[d]
      BY <1>3, OthersRest DEF Reserve, SpawnFails, Resize, CloseFindsOther, Drain, Refused,
         Launches, PromptTakes, PromptFinishes
    <2>3. UNCHANGED <<sess, closing, control>>
      BY <1>3 DEF Reserve, SpawnFails, Resize, CloseLook, CloseFindsOther, Drain, CloseNext,
         Seek, Refused, Launches, PromptTakes, PromptFinishes
    <2> QED
      BY <2>1, <2>2, <2>3 DEF ClosingHeld, Elsewhere
  <1>4. ASSUME NEW c \in Callers, NEW o \in AllOps, NEW i \in Ids, Calls(c, o, i)
        PROVE  ClosingHeld'
    BY <1>4 DEF ClosingHeld, TypeOK, Calls, Goes
  <1>5. ASSUME NEW c \in Callers, NEW g \in Gens, Spawn(c, g) PROVE ClosingHeld'
    BY <1>5 DEF ClosingHeld, TypeOK, Spawn, Goes
  <1>6. ASSUME NEW c \in Callers, Complete(c) PROVE ClosingHeld'
    <2>1. Moves(c, {"complete"}, {"idle", "resize"}) /\ UNCHANGED <<closing, control, target>>
      BY <1>6, CallerMoves DEF Complete
    <2>2. \A i \in Ids : sess[i] # None => sess'[i] = sess[i]
      BY <1>6 DEF Complete, ReservedAlone, Spawning, TypeOK
    <2> QED
      BY <2>1, <2>2 DEF ClosingHeld, Moves
  <1>7. ASSUME NEW c \in Callers, CloseEnded(c) PROVE ClosingHeld'
    <2>1. /\ Moves(c, {"control"}, {"idle", "reserve", "next"})
          /\ UNCHANGED <<closing, control, target>>
      BY <1>7, CallerMoves DEF CloseEnded
    <2>2. \A i \in Ids : closing[i] # None => sess'[i] = sess[i]
      BY <1>7 DEF CloseEnded, TypeOK
    <2> QED
      BY <2>1, <2>2 DEF ClosingHeld, Moves
  <1>8. ASSUME NEW c \in Callers, CloseTakes(c) PROVE ClosingHeld'
    <2>1. Moves(c, {"control"}, {"hup"})
      BY <1>8, CallerMoves
    <2>2. /\ control' = [control EXCEPT ![target[c]] = c] /\ control[target[c]] = None
          /\ closing' = [closing EXCEPT ![on[c]] = target[c]] /\ sess[on[c]] = target[c]
          /\ target[c] \in Gens /\ UNCHANGED <<sess, target>>
      BY <1>8 DEF CloseTakes, TargetKnown, IsUnchanged
    <2>3. \A i \in Ids : closing[i] # None => closing[i] # target[c]
      BY <2>2, ManagerAssumption DEF ClosingHeld
    <2> QED
      BY <2>1, <2>2, <2>3 DEF ClosingHeld, Moves, TypeOK
  <1>9. ASSUME NEW c \in Callers, CloseSignals(c) PROVE ClosingHeld'
    BY <1>9 DEF ClosingHeld, TypeOK, CloseSignals, Goes
  <1>10. ASSUME NEW c \in Callers, CloseConfirmed(c) PROVE ClosingHeld'
    BY <1>10 DEF ClosingHeld, TypeOK, CloseConfirmed, Goes
  <1>11. ASSUME NEW c \in Callers, CloseTimesOut(c) PROVE ClosingHeld'
    BY <1>11 DEF ClosingHeld, TypeOK, CloseTimesOut, Goes
  <1>12. ASSUME NEW c \in Callers, CloseGivesUp(c) PROVE ClosingHeld'
    <2>1. Moves(c, {"hup", "kill", "confirm"}, {"idle", "next"}) /\ UNCHANGED <<sess, target>>
      BY <1>12, CallerMoves DEF CloseGivesUp
    <2>2. /\ closing' = [closing EXCEPT ![on[c]] = None]
          /\ control' = [control EXCEPT ![target[c]] = None]
      BY <1>12 DEF CloseGivesUp, Released
    <2>3. \A i \in Ids \ {on[c]} : closing[i] # None => closing[i] # target[c]
      BY <2>1 DEF ClosingHeld, RegisteredWaited, TargetKnown, Moves
    <2>4. \A i \in Ids \ {on[c]} : closing[i] # None => control[closing[i]] # c
      BY <2>3 DEF ClosingHeld
    <2> QED
      BY <2>1, <2>2, <2>3, <2>4 DEF ClosingHeld, Moves, TypeOK
  <1>13. ASSUME NEW c \in Callers, CloseRemoves(c) PROVE ClosingHeld'
    <2>1. Moves(c, {"remove"}, {"idle", "reserve", "next"}) /\ UNCHANGED target
      BY <1>13, CallerMoves DEF CloseRemoves
    <2>2. control' = [control EXCEPT ![target[c]] = None]
      BY <1>13 DEF CloseRemoves, Released
    <2>3. \A i \in Ids : closing'[i] # None => closing'[i] = closing[i] /\ closing[i] # target[c]
      <3>1. closing'[on[c]] # None => closing'[on[c]] = closing[on[c]] /\ closing[on[c]] # target[c]
        <4>1. on[c] \in Ids /\ closing \in [Ids -> Gens \cup {None}]
          BY DEF TypeOK
        <4>2. closing'[on[c]] = IF closing[on[c]] = target[c] THEN None ELSE closing[on[c]]
          BY <1>13, <4>1 DEF CloseRemoves
        <4> QED
          BY <4>2
      <3>2. \A i \in Ids \ {on[c]} : closing'[i] = closing[i]
        BY <1>13 DEF CloseRemoves, TypeOK
      <3>3. \A i \in Ids \ {on[c]} : closing[i] # None => closing[i] # target[c]
        BY <2>1 DEF ClosingHeld, RegisteredWaited, TargetKnown, Moves
      <3> QED
        BY <3>1, <3>2, <3>3
    <2>4. \A i \in Ids : closing'[i] # None => sess'[i] = sess[i]
      BY <1>13, <2>3 DEF CloseRemoves, ClosingHeld, IsUnchanged, TypeOK
    <2>5. \A i \in Ids : closing'[i] # None => control[closing[i]] # c
      BY <2>3 DEF ClosingHeld
    <2> QED
      BY <2>1, <2>2, <2>3, <2>4, <2>5 DEF ClosingHeld, Moves, TypeOK
  <1>14. ASSUME NEW c \in Callers, NEW l \in Leases, OpenTakes(c, l) PROVE ClosingHeld'
    <2>1. Moves(c, {"take"}, {"announce"})
      BY <1>14, CallerMoves DEF OpenTakes, Moves, Goes, TypeOK
    <2>2. /\ control' = [control EXCEPT ![target[c]] = c] /\ control[target[c]] = None
          /\ target[c] \in Gens /\ UNCHANGED <<sess, closing, target>>
      BY <1>14 DEF OpenTakes, TargetKnown
    <2>3. \A i \in Ids : closing[i] # None => closing[i] # target[c]
      BY <2>2, ManagerAssumption DEF ClosingHeld
    <2> QED
      BY <2>1, <2>2, <2>3 DEF ClosingHeld, Moves, TypeOK
  <1>15. ASSUME NEW c \in Callers, ReclaimTakes(c) PROVE ClosingHeld'
    <2>1. Moves(c, {"take"}, {"announce"})
      BY <1>15, CallerMoves DEF ReclaimTakes, Moves, Goes, TypeOK
    <2>2. /\ control' = [control EXCEPT ![target[c]] = c] /\ control[target[c]] = None
          /\ target[c] \in Gens /\ UNCHANGED <<sess, closing, target>>
      BY <1>15 DEF ReclaimTakes, TargetKnown
    <2>3. \A i \in Ids : closing[i] # None => closing[i] # target[c]
      BY <2>2, ManagerAssumption DEF ClosingHeld
    <2> QED
      BY <2>1, <2>2, <2>3 DEF ClosingHeld, Moves, TypeOK
  <1>16. ASSUME NEW c \in Callers, Announces(c) PROVE ClosingHeld'
    <2>1. Moves(c, {"announce"}, {"idle", "launch"}) /\ UNCHANGED <<sess, closing, target>>
      BY <1>16, CallerMoves DEF Announces
    <2>2. control' = [control EXCEPT ![target[c]] = None]
      BY <1>16 DEF Announces, Released
    <2>3. \A i \in Ids : closing[i] # None => closing[i] # target[c]
      BY <2>1 DEF ClosingHeld, ControlHeld, Holds, Moves
    <2> QED
      BY <2>1, <2>2, <2>3 DEF ClosingHeld, Moves, TypeOK
  <1>17. ASSUME NEW c \in Callers, InputTakes(c) PROVE ClosingHeld'
    <2>1. Moves(c, {"take"}, {"write"})
      BY <1>17, CallerMoves DEF InputTakes, Moves, Goes, TypeOK
    <2>2. /\ control' = [control EXCEPT ![target[c]] = c] /\ control[target[c]] = None
          /\ target[c] \in Gens /\ UNCHANGED <<sess, closing, target>>
      BY <1>17 DEF InputTakes, TargetKnown
    <2>3. \A i \in Ids : closing[i] # None => closing[i] # target[c]
      BY <2>2, ManagerAssumption DEF ClosingHeld
    <2> QED
      BY <2>1, <2>2, <2>3 DEF ClosingHeld, Moves, TypeOK
  <1>18. ASSUME NEW c \in Callers, Writes(c) PROVE ClosingHeld'
    <2>1. Moves(c, {"write"}, {"idle", "finish"}) /\ UNCHANGED <<sess, closing, target>>
      BY <1>18, CallerMoves DEF Writes
    <2>2. CASE UNCHANGED control
      BY <2>1, <2>2 DEF ClosingHeld, Moves
    <2>3. CASE op[c] = "input" /\ Released(c)
      <3>1. \A i \in Ids : closing[i] # None => closing[i] # target[c]
        BY <2>1, <2>3 DEF ClosingHeld, ControlHeld, Holds, Moves
      <3> QED
        BY <2>1, <2>3, <3>1 DEF ClosingHeld, Moves, Released, TypeOK
    <2> QED
      BY <1>18, <2>2, <2>3 DEF Writes
  <1>19. CASE UNCHANGED vars
    BY <1>19 DEF ClosingHeld, vars
  <1> QED
    BY <1>1, <1>2, <1>3, <1>4, <1>5, <1>6, <1>7, <1>8, <1>9, <1>10, <1>11, <1>12, <1>13, <1>14,
       <1>15, <1>16, <1>17, <1>18, <1>19
    DEF Next, Caller, Create, Close, CloseAll, Uses, Waiter, Reader, Listener

(* A prompt's flag stays up until it is written, and nobody writes under it. *)
LEMMA PromptsFlaggedStep ==
  ASSUME TypeOK, OpsMatch, TargetKnown, ControlHeld, PromptsFlagged, [Next]_vars
  PROVE  PromptsFlagged'
  <1> USE DEF registry, presentation, ends, gate, listeners, locks, caller
  <1>1. ASSUME NEW g \in Gens, GroupEnds(g) \/ PidRecycled(g) \/ WaiterReaps(g) \/
     WaiterKills(g) \/ WaiterConfirms(g) \/ WaiterPublishes(g) \/ ReaderEnds(g) \/
     ReaderLooks(g) \/ ReaderResets(g) \/ ForwardFails(g)
        PROVE  PromptsFlagged'
    <2>1. UNCHANGED <<pc, op, prompting, target>>
      BY <1>1 DEF GroupEnds, PidRecycled, WaiterReaps, WaiterKills, WaiterConfirms,
         WaiterPublishes, ReaderEnds, ReaderLooks, ReaderResets, ForwardFails
    <2> QED
      BY <2>1 DEF PromptsFlagged
  <1>2. ASSUME NEW l \in Leases, Accepts(l) \/ GivesUp(l) \/ Establishes(l) \/ Detaches(l) \/
     ListenerResets(l)
        PROVE  PromptsFlagged'
    <2>1. UNCHANGED <<pc, op, prompting, target>>
      BY <1>2 DEF Accepts, GivesUp, Establishes, Detaches, ListenerResets, Listens, Outside
    <2> QED
      BY <2>1 DEF PromptsFlagged
  <1>3. ASSUME NEW c \in Callers, Reserve(c) \/ SpawnFails(c) \/ Complete(c) \/ Resize(c) \/
     CloseLook(c) \/ CloseFindsOther(c) \/ CloseEnded(c) \/ CloseTakes(c) \/ CloseSignals(c) \/
     CloseConfirmed(c) \/ CloseTimesOut(c) \/ CloseGivesUp(c) \/ CloseRemoves(c) \/ Drain(c) \/
     CloseNext(c) \/ Seek(c) \/ Refused(c) \/ ReclaimTakes(c) \/ Announces(c) \/ Launches(c)
        PROVE  PromptsFlagged'
    <2>1. Elsewhere(c, {"write", "finish"})
      BY <1>3, CallerMoves DEF Moves, Elsewhere
    <2>2. \A d \in Callers \ {c} : target'[d] = target[d]
      BY <1>3, OthersRest DEF Reserve, SpawnFails, Complete, Resize, CloseFindsOther,
         CloseEnded, CloseTakes, CloseSignals, CloseConfirmed, CloseTimesOut, CloseGivesUp,
         CloseRemoves, Drain, Refused, ReclaimTakes, Announces, Launches
    <2>3. UNCHANGED <<op, prompting>>
      BY <1>3 DEF Reserve, SpawnFails, Complete, Resize, CloseLook, CloseFindsOther, CloseEnded,
         CloseTakes, CloseSignals, CloseConfirmed, CloseTimesOut, CloseGivesUp, CloseRemoves,
         Drain, CloseNext, Seek, Refused, ReclaimTakes, Announces, Launches
    <2> QED
      BY <2>1, <2>2, <2>3 DEF PromptsFlagged, Elsewhere
  <1>4. ASSUME NEW c \in Callers, NEW o \in AllOps, NEW i \in Ids, Calls(c, o, i)
        PROVE  PromptsFlagged'
    BY <1>4 DEF PromptsFlagged, TypeOK, Calls, Goes
  <1>5. ASSUME NEW c \in Callers, NEW g \in Gens, Spawn(c, g) PROVE PromptsFlagged'
    BY <1>5 DEF PromptsFlagged, TypeOK, Spawn, Goes
  <1>6. ASSUME NEW c \in Callers, NEW l \in Leases, OpenTakes(c, l) PROVE PromptsFlagged'
    BY <1>6 DEF PromptsFlagged, TypeOK, OpenTakes, Goes
  <1>7. ASSUME NEW c \in Callers, InputTakes(c) PROVE PromptsFlagged'
    <2>1. Moves(c, {"take"}, {"write"}) /\ op[c] = "input" /\ UNCHANGED <<op, prompting, target>>
      BY <1>7, CallerMoves DEF InputTakes
    <2>2. \A d \in Callers \ {c} : pc[d] \in {"write", "finish"} => target[d] # target[c]
      BY <1>7, ManagerAssumption
      DEF InputTakes, CanInput, PromptsFlagged, ControlHeld, Holds, OpsMatch, TypeOK
    <2> QED
      BY <2>1, <2>2 DEF Moves, PromptsFlagged
  <1>8. ASSUME NEW c \in Callers, PromptTakes(c) PROVE PromptsFlagged'
    <2>1. Moves(c, {"take"}, {"write"}) /\ UNCHANGED <<op, target>>
      BY <1>8, CallerMoves DEF PromptTakes
    <2>2. \A d \in Callers \ {c} : pc[d] \in {"write", "finish"} => target[d] # target[c]
      BY <1>8, ManagerAssumption
      DEF PromptTakes, CanPrompt, PromptsFlagged, ControlHeld, Holds, OpsMatch, TypeOK
    <2>3. prompting' = [prompting EXCEPT ![target[c]] = TRUE] /\ target[c] \in Gens
      BY <1>8 DEF PromptTakes, TargetKnown
    <2>4. prompting'[target[c]] /\ \A g \in Gens : prompting[g] => prompting'[g]
      BY <2>3 DEF TypeOK
    <2>5. \A d \in Callers : pc[d] \in {"write", "finish"} => target[d] \in Gens
      BY DEF TargetKnown
    <2> QED
      BY <2>1, <2>2, <2>4, <2>5 DEF Moves, PromptsFlagged
  <1>9. ASSUME NEW c \in Callers, Writes(c) PROVE PromptsFlagged'
    <2>1. Moves(c, {"write"}, {"idle", "finish"}) /\ UNCHANGED <<op, prompting, target>>
      BY <1>9, CallerMoves DEF Writes
    <2> QED
      BY <2>1 DEF Moves, PromptsFlagged
  <1>10. ASSUME NEW c \in Callers, PromptFinishes(c) PROVE PromptsFlagged'
    <2>1. Moves(c, {"finish"}, {"idle"}) /\ UNCHANGED <<op, target>>
      BY <1>10, CallerMoves DEF PromptFinishes
    <2>2. \A g \in Gens \ {target[c]} : prompting'[g] = prompting[g]
      BY <1>10 DEF PromptFinishes, TypeOK
    <2>3. \A d \in Callers \ {c} : pc[d] \in {"write", "finish"} =>
             target[d] \in Gens \ {target[c]}
      BY <2>1 DEF TargetKnown, PromptsFlagged, Moves
    <2> QED
      BY <2>1, <2>2, <2>3 DEF Moves, PromptsFlagged
  <1>11. CASE UNCHANGED vars
    BY <1>11 DEF PromptsFlagged, vars
  <1> QED
    BY <1>1, <1>2, <1>3, <1>4, <1>5, <1>6, <1>7, <1>8, <1>9, <1>10, <1>11
    DEF Next, Caller, Create, Close, CloseAll, Uses, Waiter, Reader, Listener

-----------------------------------------------------------------------------
(* Presentation *)

(* A session that is revoked is back in the dock. *)
LEMMA RevokeLeased ==
  ASSUME TypeOK, LeasedOutside, NEW g \in Gens, Revoke(g)
  PROVE  LeasedOutside'
  BY DEF TypeOK, LeasedOutside, Revoke

LEMMA ResetLeased ==
  ASSUME TypeOK, LeasedOutside, NEW g \in Gens, NEW l, Reset(g, l)
  PROVE  LeasedOutside'
  BY RevokeLeased DEF Reset, LeasedOutside, presentation

(* The presentation follows the attachment. *)
LEMMA LeasedOutsideStep ==
  ASSUME TypeOK, OpsMatch, TargetKnown, LeaseKnown, LeasedOutside, [Next]_vars
  PROVE  LeasedOutside'
  <1> USE DEF registry, presentation, ends, gate, listeners, locks, caller
  <1>1. ASSUME NEW c \in Callers, NEW o \in AllOps, NEW i \in Ids, Calls(c, o, i)
        PROVE  LeasedOutside'
    <2>1. UNCHANGED <<pres, attachment>>
      BY <1>1 DEF Calls
    <2> QED
      BY <2>1 DEF LeasedOutside
  <1>2. ASSUME NEW c \in Callers, Reserve(c) \/ SpawnFails(c) \/ Complete(c) \/ Resize(c) \/
     CloseLook(c) \/ CloseFindsOther(c) \/ CloseSignals(c) \/ CloseConfirmed(c) \/
     CloseTimesOut(c) \/ CloseGivesUp(c) \/ CloseRemoves(c) \/ Drain(c) \/ CloseNext(c) \/
     Seek(c) \/ Refused(c) \/ Announces(c) \/ InputTakes(c) \/ PromptTakes(c) \/ Writes(c) \/
     PromptFinishes(c)
        PROVE  LeasedOutside'
    <2>1. UNCHANGED <<pres, attachment>>
      BY <1>2 DEF Reserve, SpawnFails, Complete, Resize, CloseLook, CloseFindsOther,
         CloseSignals, CloseConfirmed, CloseTimesOut, CloseGivesUp, CloseRemoves, Drain,
         CloseNext, Seek, Refused, Announces, InputTakes, PromptTakes, Writes, PromptFinishes
    <2> QED
      BY <2>1 DEF LeasedOutside
  <1>3. ASSUME NEW c \in Callers, NEW g \in Gens, Spawn(c, g) PROVE LeasedOutside'
    <2>1. UNCHANGED <<pres, attachment>>
      BY <1>3 DEF Spawn
    <2> QED
      BY <2>1 DEF LeasedOutside
  <1>4. ASSUME NEW g \in Gens, GroupEnds(g) \/ PidRecycled(g) \/ WaiterReaps(g) \/
     WaiterKills(g) \/ WaiterConfirms(g) \/ WaiterPublishes(g) \/ ReaderEnds(g) \/
     ReaderLooks(g) \/ ForwardFails(g)
        PROVE  LeasedOutside'
    <2>1. UNCHANGED <<pres, attachment>>
      BY <1>4 DEF GroupEnds, PidRecycled, WaiterReaps, WaiterKills, WaiterConfirms,
         WaiterPublishes, ReaderEnds, ReaderLooks, ForwardFails
    <2> QED
      BY <2>1 DEF LeasedOutside
  <1>5. ASSUME NEW l \in Leases, Accepts(l) \/ GivesUp(l) \/ Detaches(l) PROVE LeasedOutside'
    <2>1. UNCHANGED <<pres, attachment>>
      BY <1>5 DEF Accepts, GivesUp, Detaches, Listens
    <2> QED
      BY <2>1 DEF LeasedOutside
  <1>6. ASSUME NEW c \in Callers, CloseEnded(c) PROVE LeasedOutside'
    BY <1>6, RevokeLeased DEF CloseEnded, TargetKnown
  <1>7. ASSUME NEW c \in Callers, CloseTakes(c) PROVE LeasedOutside'
    BY <1>7, RevokeLeased DEF CloseTakes, TargetKnown
  <1>8. ASSUME NEW c \in Callers, NEW l \in Leases, OpenTakes(c, l) PROVE LeasedOutside'
    BY <1>8, ManagerAssumption DEF LeasedOutside, TypeOK, OpenTakes
  <1>9. ASSUME NEW c \in Callers, ReclaimTakes(c) PROVE LeasedOutside'
    BY <1>9, RevokeLeased DEF ReclaimTakes, TargetKnown
  <1>10. ASSUME NEW c \in Callers, Launches(c) PROVE LeasedOutside'
    <2>1. lease[c] \in Leases
      BY <1>10 DEF Launches, LeaseKnown, OpsMatch
    <2>2. leaseGen[lease[c]] \in Gens
      BY <2>1 DEF TypeOK
    <2> QED
      BY <1>10, <2>2, ResetLeased DEF Launches, LeasedOutside
  <1>11. ASSUME NEW g \in Gens, ReaderResets(g) PROVE LeasedOutside'
    BY <1>11, ResetLeased DEF ReaderResets
  <1>12. ASSUME NEW l \in Leases, Establishes(l) PROVE LeasedOutside'
    <2>1. CASE UNCHANGED presentation
      BY <2>1 DEF LeasedOutside
    <2>2. CASE Outside(l) /\ attachment[leaseGen[l]] = l
      BY <2>2, ManagerAssumption DEF LeasedOutside, TypeOK, Outside
    <2> QED
      BY <1>12, <2>1, <2>2 DEF Establishes
  <1>13. ASSUME NEW l \in Leases, ListenerResets(l) PROVE LeasedOutside'
    BY <1>13, ResetLeased DEF ListenerResets, TypeOK
  <1>14. CASE UNCHANGED vars
    BY <1>14 DEF LeasedOutside, vars
  <1> QED
    BY <1>1, <1>2, <1>3, <1>4, <1>5, <1>6, <1>7, <1>8, <1>9, <1>10, <1>11, <1>12, <1>13, <1>14
    DEF Next, Caller, Create, Close, CloseAll, Uses, Waiter, Reader, Listener

(* A lease that is taken off leaves nothing forwarded. *)
LEMMA RevokeKnown ==
  ASSUME TypeOK, ReaderKnows, NEW h \in Gens, Revoke(h),
         UNCHANGED <<waiter, idOf, gate>>,
         \A i \in Ids : sess'[i] = sess[i] \/ sess'[i] = None
  PROVE  ReaderKnows'
  <1>1. /\ attachment' = [attachment EXCEPT ![h] = None]
        /\ external'[h] = None
        /\ \A g \in Gens \ {h} : external'[g] = external[g]
    BY DEF Revoke, ReaderKnows, TypeOK
  <1>2. \A g \in Gens : IsRegistered(g)' => IsRegistered(g)
    BY ManagerAssumption DEF IsRegistered, TypeOK
  <1> QED
    BY <1>1, <1>2 DEF ReaderKnows, gate, TypeOK

LEMMA ResetKnown ==
  ASSUME TypeOK, ReaderKnows, NEW h \in Gens, NEW l, Reset(h, l),
         UNCHANGED <<sess, waiter, idOf, gate>>
  PROVE  ReaderKnows'
  <1>1. CASE Revoke(h)
    BY <1>1, RevokeKnown
  <1>2. CASE UNCHANGED presentation
    BY <1>2 DEF ReaderKnows, IsRegistered, presentation, gate
  <1> QED
    BY <1>1, <1>2 DEF Reset

(* What is forwarded is of the attached lease; a reader that is done left none. *)
LEMMA ReaderKnowsStep ==
  ASSUME TypeOK, OpsMatch, TargetKnown, LeaseKnown, RegisteredWaited, ReaderKnows, [Next]_vars
  PROVE  ReaderKnows'
  <1> USE DEF registry, presentation, ends, gate, listeners, locks, caller
  <1>1. ASSUME NEW c \in Callers, NEW o \in AllOps, NEW i \in Ids, Calls(c, o, i)
        PROVE  ReaderKnows'
    <2>1. UNCHANGED <<external, attachment, waiter, reader, closed, readerLease, sess, idOf>>
      BY <1>1 DEF Calls
    <2> QED
      BY <2>1 DEF ReaderKnows, IsRegistered
  <1>2. ASSUME NEW c \in Callers, Reserve(c) \/ SpawnFails(c) \/ Resize(c) \/ CloseLook(c) \/
     CloseFindsOther(c) \/ CloseSignals(c) \/ CloseConfirmed(c) \/ CloseTimesOut(c) \/
     CloseGivesUp(c) \/ Drain(c) \/ CloseNext(c) \/ Seek(c) \/ Refused(c) \/ Announces(c) \/
     InputTakes(c) \/ PromptTakes(c) \/ Writes(c) \/ PromptFinishes(c)
        PROVE  ReaderKnows'
    <2>1. UNCHANGED <<external, attachment, waiter, reader, closed, readerLease, sess, idOf>>
      BY <1>2 DEF Reserve, SpawnFails, Resize, CloseLook, CloseFindsOther, CloseSignals,
         CloseConfirmed, CloseTimesOut, CloseGivesUp, Drain, CloseNext, Seek, Refused,
         Announces, InputTakes, PromptTakes, Writes, PromptFinishes
    <2> QED
      BY <2>1 DEF ReaderKnows, IsRegistered
  <1>3. ASSUME NEW g \in Gens, GroupEnds(g) \/ PidRecycled(g) PROVE ReaderKnows'
    <2>1. UNCHANGED <<external, attachment, waiter, reader, closed, readerLease, sess, idOf>>
      BY <1>3 DEF GroupEnds, PidRecycled
    <2> QED
      BY <2>1 DEF ReaderKnows, IsRegistered
  <1>4. ASSUME NEW l \in Leases, Accepts(l) \/ GivesUp(l) \/ Detaches(l) PROVE ReaderKnows'
    <2>1. UNCHANGED <<external, attachment, waiter, reader, closed, readerLease, sess, idOf>>
      BY <1>4 DEF Accepts, GivesUp, Detaches, Listens
    <2> QED
      BY <2>1 DEF ReaderKnows, IsRegistered
  <1>5. ASSUME NEW c \in Callers, NEW g \in Gens, Spawn(c, g) PROVE ReaderKnows'
    BY <1>5 DEF ReaderKnows, IsRegistered, TypeOK, Spawn
  <1>6. ASSUME NEW c \in Callers, Complete(c) PROVE ReaderKnows'
    <2>1. /\ UNCHANGED <<presentation, reader, closed, readerLease, idOf>>
          /\ sess' = [sess EXCEPT ![on[c]] = target[c]]
          /\ waiter' = [waiter EXCEPT ![target[c]] = "waiting"]
          /\ target[c] \in Gens /\ idOf[target[c]] = on[c] /\ waiter[target[c]] = "none"
      BY <1>6 DEF Complete, TargetKnown
    <2>2. attachment[target[c]] = None
      BY <2>1 DEF ReaderKnows
    <2>3. \A g \in Gens \ {target[c]} : IsRegistered(g)' => IsRegistered(g)
      BY <2>1 DEF IsRegistered, TypeOK
    <2> QED
      BY <2>1, <2>2, <2>3 DEF ReaderKnows, TypeOK
  <1>7. ASSUME NEW c \in Callers, CloseEnded(c) PROVE ReaderKnows'
    <2>1. target[c] \in Gens /\ Revoke(target[c]) /\ UNCHANGED <<waiter, idOf, gate>>
      BY <1>7 DEF CloseEnded, TargetKnown
    <2>2. \A i \in Ids : sess'[i] = sess[i] \/ sess'[i] = None
      BY <1>7 DEF CloseEnded, TypeOK
    <2> QED
      BY <2>1, <2>2, RevokeKnown
  <1>8. ASSUME NEW c \in Callers, CloseTakes(c) PROVE ReaderKnows'
    <2>1. target[c] \in Gens /\ Revoke(target[c]) /\ UNCHANGED <<sess, waiter, idOf, gate>>
      BY <1>8 DEF CloseTakes, TargetKnown
    <2> QED
      BY <2>1, RevokeKnown
  <1>9. ASSUME NEW c \in Callers, CloseRemoves(c) PROVE ReaderKnows'
    <2>1. UNCHANGED <<presentation, reader, closed, readerLease, waiter, idOf>>
      BY <1>9 DEF CloseRemoves
    <2>2. \A i \in Ids : sess'[i] = sess[i] \/ sess'[i] = None
      BY <1>9 DEF CloseRemoves, TypeOK
    <2> QED
      BY <2>1, <2>2, ManagerAssumption DEF ReaderKnows, IsRegistered, TypeOK
  <1>10. ASSUME NEW c \in Callers, NEW l \in Leases, OpenTakes(c, l) PROVE ReaderKnows'
    <2>1. /\ UNCHANGED <<sess, external, reader, closed, readerLease, waiter, idOf>>
          /\ attachment' = [attachment EXCEPT ![target[c]] = l]
          /\ target[c] \in Gens /\ attachment[target[c]] = None /\ ~closed[target[c]]
          /\ sess[on[c]] = target[c]
      BY <1>10 DEF OpenTakes, CanOpen, IsLaunchable, IsUnchanged, TargetKnown
    <2>2. waiter[target[c]] # "none" /\ external[target[c]] = None
      BY <2>1, ManagerAssumption DEF RegisteredWaited, ReaderKnows, TypeOK
    <2>3. reader[target[c]] \notin {"look", "reset", "done"}
      BY <2>1 DEF ReaderKnows
    <2> QED
      BY <2>1, <2>2, <2>3 DEF ReaderKnows, IsRegistered, TypeOK
  <1>11. ASSUME NEW c \in Callers, ReclaimTakes(c) PROVE ReaderKnows'
    <2>1. target[c] \in Gens /\ Revoke(target[c]) /\ UNCHANGED <<sess, waiter, idOf, gate>>
      BY <1>11 DEF ReclaimTakes, TargetKnown
    <2> QED
      BY <2>1, RevokeKnown
  <1>12. ASSUME NEW c \in Callers, Launches(c) PROVE ReaderKnows'
    <2>1. lease[c] \in Leases /\ UNCHANGED <<sess, waiter, idOf, gate>>
      BY <1>12 DEF Launches, LeaseKnown, OpsMatch
    <2>2. leaseGen[lease[c]] \in Gens
      BY <2>1 DEF TypeOK
    <2>3. CASE UNCHANGED presentation
      BY <2>1, <2>3 DEF ReaderKnows, IsRegistered
    <2>4. CASE Reset(leaseGen[lease[c]], lease[c])
      BY <2>1, <2>2, <2>4, ResetKnown
    <2> QED
      BY <1>12, <2>3, <2>4 DEF Launches
  <1>13. ASSUME NEW g \in Gens, WaiterReaps(g) PROVE ReaderKnows'
    BY <1>13 DEF ReaderKnows, IsRegistered, TypeOK, WaiterReaps
  <1>14. ASSUME NEW g \in Gens, WaiterKills(g) PROVE ReaderKnows'
    BY <1>14 DEF ReaderKnows, IsRegistered, TypeOK, WaiterKills
  <1>15. ASSUME NEW g \in Gens, WaiterConfirms(g) PROVE ReaderKnows'
    BY <1>15 DEF ReaderKnows, IsRegistered, TypeOK, WaiterConfirms
  <1>16. ASSUME NEW g \in Gens, WaiterPublishes(g) PROVE ReaderKnows'
    BY <1>16 DEF ReaderKnows, IsRegistered, TypeOK, WaiterPublishes
  <1>17. ASSUME NEW g \in Gens, ReaderEnds(g) PROVE ReaderKnows'
    BY <1>17 DEF ReaderKnows, IsRegistered, TypeOK, ReaderEnds
  <1>18. ASSUME NEW g \in Gens, ReaderLooks(g) PROVE ReaderKnows'
    BY <1>18 DEF ReaderKnows, IsRegistered, TypeOK, ReaderLooks
  <1>19. ASSUME NEW g \in Gens, ReaderResets(g) PROVE ReaderKnows'
    BY <1>19 DEF ReaderKnows, IsRegistered, TypeOK, ReaderResets, Reset, Revoke
  <1>20. ASSUME NEW g \in Gens, ForwardFails(g) PROVE ReaderKnows'
    BY <1>20 DEF ReaderKnows, IsRegistered, TypeOK, ForwardFails
  <1>21. ASSUME NEW l \in Leases, Establishes(l) PROVE ReaderKnows'
    BY <1>21 DEF ReaderKnows, IsRegistered, TypeOK, Establishes, Listens, Outside
  <1>22. ASSUME NEW l \in Leases, ListenerResets(l) PROVE ReaderKnows'
    <2>1. leaseGen[l] \in Gens /\ UNCHANGED <<sess, waiter, idOf, gate>> /\ Reset(leaseGen[l], l)
      BY <1>22 DEF ListenerResets, TypeOK
    <2> QED
      BY <2>1, ResetKnown
  <1>23. CASE UNCHANGED vars
    BY <1>23 DEF ReaderKnows, IsRegistered, vars
  <1> QED
    BY <1>1, <1>2, <1>3, <1>4, <1>5, <1>6, <1>7, <1>8, <1>9, <1>10, <1>11, <1>12, <1>13, <1>14,
       <1>15, <1>16, <1>17, <1>18, <1>19, <1>20, <1>21, <1>22, <1>23
    DEF Next, Caller, Create, Close, CloseAll, Uses, Waiter, Reader, Listener

\* What takes the lease off a session: the lease itself, its reader or its
\* caller, or a reclaim or a close of that session.
LossOf(h) ==
    \/ \E l \in Leases : listener[l] # listener'[l] /\ l = attachment[h]
    \/ readerLease[h] = attachment[h]
    \/ \E c \in Callers : pc[c] # pc'[c] /\
          \/ pc[c] = "launch" /\ lease[c] = attachment[h]
          \/ pc[c] \in {"take", "control"} /\ target[c] = h

(* Only the session that is revoked, or of the lease that is reset, loses it. *)
LEMMA RevokeLoses ==
  ASSUME TypeOK, NEW g \in Gens, Revoke(g), NEW h \in Gens, attachment'[h] # attachment[h]
  PROVE  h = g
  BY DEF Revoke, TypeOK

LEMMA ResetLoses ==
  ASSUME TypeOK, NEW g \in Gens, NEW l, Reset(g, l), NEW h \in Gens,
         attachment'[h] # attachment[h]
  PROVE  h = g /\ attachment[h] = l
  BY RevokeLoses DEF Reset, presentation

(* Each step that takes a lease off a session has its reason. *)
LEMMA StaleStep ==
  ASSUME TypeOK, OpsMatch, TargetKnown, LeaseKnown, [Next]_vars,
         NEW h \in Gens, attachment[h] # None, attachment'[h] # attachment[h]
  PROVE  LossOf(h)
  <1> USE DEF LossOf, registry, presentation, ends, gate, listeners, locks, caller
  <1>1. ASSUME NEW c \in Callers, NEW o \in AllOps, NEW i \in Ids, Calls(c, o, i)
        PROVE  LossOf(h)
    <2>1. UNCHANGED <<attachment>>
      BY <1>1 DEF Calls
    <2> QED
      BY <2>1
  <1>2. ASSUME NEW c \in Callers, Reserve(c) \/ SpawnFails(c) \/ Complete(c) \/ Resize(c) \/
     CloseLook(c) \/ CloseFindsOther(c) \/ CloseSignals(c) \/ CloseConfirmed(c) \/
     CloseTimesOut(c) \/ CloseGivesUp(c) \/ CloseRemoves(c) \/ Drain(c) \/ CloseNext(c) \/
     Seek(c) \/ Refused(c) \/ Announces(c) \/ InputTakes(c) \/ PromptTakes(c) \/ Writes(c) \/
     PromptFinishes(c)
        PROVE  LossOf(h)
    <2>1. UNCHANGED <<attachment>>
      BY <1>2 DEF Reserve, SpawnFails, Complete, Resize, CloseLook, CloseFindsOther,
         CloseSignals, CloseConfirmed, CloseTimesOut, CloseGivesUp, CloseRemoves, Drain,
         CloseNext, Seek, Refused, Announces, InputTakes, PromptTakes, Writes, PromptFinishes
    <2> QED
      BY <2>1
  <1>3. ASSUME NEW c \in Callers, NEW g \in Gens, Spawn(c, g) PROVE LossOf(h)
    <2>1. UNCHANGED <<attachment>>
      BY <1>3 DEF Spawn
    <2> QED
      BY <2>1
  <1>4. ASSUME NEW g \in Gens, GroupEnds(g) \/ PidRecycled(g) \/ WaiterReaps(g) \/
     WaiterKills(g) \/ WaiterConfirms(g) \/ WaiterPublishes(g) \/ ReaderEnds(g) \/
     ReaderLooks(g) \/ ForwardFails(g)
        PROVE  LossOf(h)
    <2>1. UNCHANGED <<attachment>>
      BY <1>4 DEF GroupEnds, PidRecycled, WaiterReaps, WaiterKills, WaiterConfirms,
         WaiterPublishes, ReaderEnds, ReaderLooks, ForwardFails
    <2> QED
      BY <2>1
  <1>5. ASSUME NEW l \in Leases, Accepts(l) \/ GivesUp(l) \/ Establishes(l) \/ Detaches(l)
        PROVE  LossOf(h)
    <2>1. UNCHANGED <<attachment>>
      BY <1>5 DEF Accepts, GivesUp, Establishes, Detaches, Listens, Outside
    <2> QED
      BY <2>1
  <1>6. ASSUME NEW c \in Callers, CloseEnded(c) PROVE LossOf(h)
    <2>1. target[c] \in Gens /\ Revoke(target[c])
      BY <1>6 DEF CloseEnded, TargetKnown
    <2>2. h = target[c]
      BY <2>1, RevokeLoses
    <2>3. pc[c] \in {"take", "control"} /\ pc'[c] # pc[c]
      BY <1>6, CallerMoves DEF CloseEnded, Moves
    <2> QED
      BY <2>2, <2>3
  <1>7. ASSUME NEW c \in Callers, CloseTakes(c) PROVE LossOf(h)
    <2>1. target[c] \in Gens /\ Revoke(target[c])
      BY <1>7 DEF CloseTakes, TargetKnown
    <2>2. h = target[c]
      BY <2>1, RevokeLoses
    <2>3. pc[c] \in {"take", "control"} /\ pc'[c] # pc[c]
      BY <1>7, CallerMoves DEF CloseTakes, Moves
    <2> QED
      BY <2>2, <2>3
  <1>8. ASSUME NEW c \in Callers, NEW l \in Leases, OpenTakes(c, l) PROVE LossOf(h)
    <2>1. attachment' = [attachment EXCEPT ![target[c]] = l] /\ attachment[target[c]] = None
      BY <1>8 DEF OpenTakes, CanOpen, IsLaunchable
    <2> QED
      BY <2>1 DEF TypeOK
  <1>9. ASSUME NEW c \in Callers, ReclaimTakes(c) PROVE LossOf(h)
    <2>1. target[c] \in Gens /\ Revoke(target[c])
      BY <1>9 DEF ReclaimTakes, TargetKnown
    <2>2. h = target[c]
      BY <2>1, RevokeLoses
    <2>3. pc[c] \in {"take", "control"} /\ pc'[c] # pc[c]
      BY <1>9, CallerMoves DEF ReclaimTakes, Moves
    <2> QED
      BY <2>2, <2>3
  <1>10. ASSUME NEW c \in Callers, Launches(c) PROVE LossOf(h)
    <2>1. lease[c] \in Leases
      BY <1>10 DEF Launches, LeaseKnown, OpsMatch
    <2>2. leaseGen[lease[c]] \in Gens
      BY <2>1 DEF TypeOK
    <2>3. Reset(leaseGen[lease[c]], lease[c])
      BY <1>10 DEF Launches
    <2>4. lease[c] = attachment[h]
      BY <2>2, <2>3, ResetLoses
    <2>5. pc[c] = "launch" /\ pc'[c] # pc[c]
      BY <1>10, CallerMoves DEF Launches, Moves
    <2> QED
      BY <2>4, <2>5
  <1>11. ASSUME NEW g \in Gens, ReaderResets(g) PROVE LossOf(h)
    <2>1. h = g /\ attachment[h] = readerLease[g]
      BY <1>11, ResetLoses DEF ReaderResets
    <2> QED
      BY <2>1
  <1>12. ASSUME NEW l \in Leases, ListenerResets(l) PROVE LossOf(h)
    <2>1. leaseGen[l] \in Gens
      BY DEF TypeOK
    <2>2. attachment[h] = l
      BY <1>12, <2>1, ResetLoses DEF ListenerResets
    <2>3. listener'[l] # listener[l]
      BY <1>12 DEF ListenerResets, Listens, TypeOK
    <2> QED
      BY <2>2, <2>3
  <1>13. CASE UNCHANGED vars
    BY <1>13 DEF vars
  <1> QED
    BY <1>1, <1>2, <1>3, <1>4, <1>5, <1>6, <1>7, <1>8, <1>9, <1>10, <1>11, <1>12, <1>13
    DEF Next, Caller, Create, Close, CloseAll, Uses, Waiter, Reader, Listener

-----------------------------------------------------------------------------
(* Shutdown *)

(* The other walks are not disturbed by what a caller that spawns nothing does. *)
LEMMA OthersWalk ==
  ASSUME TypeOK, WalkCovers, NEW c \in Callers, Elsewhere(c, Spawning),
         UNCHANGED <<group, idOf, op, left, on>>,
         \A d \in Callers \ {c} : target'[d] = target[d],
         \A i \in Ids : sess'[i] = sess[i] \/ sess'[i] = None
  PROVE  \A d \in Callers \ {c} : Walks(d)' => Covered(d)'
  <1> SUFFICES ASSUME NEW d \in Callers \ {c}, Walks(d)' PROVE Covered(d)'
    OBVIOUS
  <1>1. Walks(d) /\ Covered(d)
    BY DEF Walks, WalkCovers, Elsewhere
  <1>2. \A e \in Callers : pc'[e] \notin Spawning
    BY <1>1 DEF Covered, Elsewhere
  <1>3. sess'[on[d]] \in {sess[on[d]], None}
    BY DEF TypeOK
  <1> QED
    BY <1>1, <1>2, <1>3 DEF Covered, Elsewhere, Runs

(* A close that succeeds in a walk leaves nothing of its id running. *)
LEMMA ClosedWalks ==
  ASSUME TypeOK, NoOrphan, WalkCovers, NEW c \in Callers, pc[c] \in Closes,
         Closed(c) \/ NotClosed(c),
         UNCHANGED <<group, idOf, op, left, on, target>>,
         \A i \in Ids : sess'[i] = sess[i] \/ sess'[i] = None,
         Walks(c) /\ ok'[c] => sess[on[c]] = None \/ Over(sess[on[c]])
  PROVE  WalkCovers'
  <1>1. Elsewhere(c, Spawning)
    BY ClosedGoes DEF Elsewhere, Spawning
  <1>2. \A d \in Callers \ {c} : Walks(d)' => Covered(d)'
    BY <1>1, OthersWalk
  <1>3. ASSUME Walks(c)' PROVE Covered(c)'
    <2>1. Walks(c) /\ Covered(c) /\ (sess[on[c]] = None \/ Over(sess[on[c]]))
      BY <1>3, ClosedGoes DEF Walks, WalkCovers, Closes, Closers
    <2>2. \A g \in Gens : Runs(g) => IsRegistered(g)
      BY <2>1 DEF NoOrphan, Covered, Spawning
    <2>3. \A g \in Gens : Runs(g) => idOf[g] # on[c]
      BY <2>1, <2>2, ManagerAssumption DEF IsRegistered, Runs, Over, TypeOK
    <2>4. \A d \in Callers : pc'[d] \notin Spawning
      BY <1>1, <2>1 DEF Covered, Elsewhere
    <2>5. pc'[c] \in {"reserve", "next"}
      BY <1>3, ClosedGoes DEF Walks
    <2> QED
      BY <2>1, <2>3, <2>4, <2>5 DEF Covered, Runs, Closers
  <1> QED
    BY <1>2, <1>3 DEF WalkCovers

(* close_all misses no group that runs. *)
LEMMA WalkCoversStep ==
  ASSUME TypeOK, OpsMatch, TargetKnown, ReservedAlone, RegisteredWaited, EndsAreKnown, NoOrphan,
     ClosingHeld, WalkCovers, [Next]_vars
  PROVE  WalkCovers'
  <1> USE DEF registry, presentation, ends, gate, listeners, locks, caller, Spawning, Closers,
             Closes, Over
  <1>1. ASSUME NEW g \in Gens, WaiterReaps(g) \/ WaiterKills(g) \/ WaiterConfirms(g) \/
     WaiterPublishes(g) \/ ReaderEnds(g) \/ ReaderLooks(g) \/ ReaderResets(g) \/ ForwardFails(g)
        PROVE  WalkCovers'
    <2>1. UNCHANGED <<pc, op, ok, left, group, idOf, on, sess, target>>
      BY <1>1 DEF WaiterReaps, WaiterKills, WaiterConfirms, WaiterPublishes, ReaderEnds,
         ReaderLooks, ReaderResets, ForwardFails
    <2> QED
      BY <2>1 DEF WalkCovers, Walks, Covered, Runs
  <1>2. ASSUME NEW l \in Leases, Accepts(l) \/ GivesUp(l) \/ Establishes(l) \/ Detaches(l) \/
     ListenerResets(l)
        PROVE  WalkCovers'
    <2>1. UNCHANGED <<pc, op, ok, left, group, idOf, on, sess, target>>
      BY <1>2 DEF Accepts, GivesUp, Establishes, Detaches, ListenerResets, Listens, Outside
    <2> QED
      BY <2>1 DEF WalkCovers, Walks, Covered, Runs
  <1>3. ASSUME NEW c \in Callers, SpawnFails(c) \/ Resize(c) \/ Seek(c) \/ Refused(c) \/
     ReclaimTakes(c) \/ Announces(c) \/ Launches(c) \/ InputTakes(c) \/ PromptTakes(c) \/
     Writes(c) \/ PromptFinishes(c)
        PROVE  WalkCovers'
    <2>1. Elsewhere(c, Spawning)
      BY <1>3, CallerMoves DEF Moves, Elsewhere
    <2>2. op[c] # "closeAll"
      BY <1>3, CallerMoves DEF Moves, OpsMatch, Uses0
    <2>3. \A d \in Callers \ {c} : target'[d] = target[d]
      BY <1>3, OthersRest DEF SpawnFails, Resize, Refused, ReclaimTakes, Announces, Launches,
         InputTakes, PromptTakes, Writes, PromptFinishes
    <2>4. UNCHANGED <<sess, group, idOf, op, left, on>>
      BY <1>3 DEF SpawnFails, Resize, Seek, Refused, ReclaimTakes, Announces, Launches,
         InputTakes, PromptTakes, Writes, PromptFinishes
    <2> QED
      BY <2>1, <2>2, <2>3, <2>4, OthersWalk DEF WalkCovers, Walks
  <1>4. ASSUME NEW c \in Callers, NEW o \in AllOps, NEW i \in Ids, Calls(c, o, i)
        PROVE  WalkCovers'
    BY <1>4 DEF WalkCovers, Walks, Covered, Runs, TypeOK, Calls, Goes
  <1>5. ASSUME NEW c \in Callers, Reserve(c) PROVE WalkCovers'
    <2>1. Moves(c, {"reserve"}, {"idle", "resize", "spawn"})
      BY <1>5, CallerMoves
    <2>2. op[c] # "closeAll"
      BY <2>1 DEF Moves, OpsMatch
    <2>3. shuttingDown => pc'[c] # "spawn"
      BY <1>5 DEF Reserve, Ends, Goes, TypeOK
    <2>4. \A d \in Callers : op[d] = "closeAll" => shuttingDown
      BY DEF OpsMatch
    <2>5. UNCHANGED <<sess, group, idOf, op, on, target, left>>
      BY <1>5 DEF Reserve
    <2> QED
      BY <2>1, <2>2, <2>3, <2>4, <2>5 DEF Moves, WalkCovers, Walks, Covered, Runs
  <1>6. ASSUME NEW c \in Callers, NEW g \in Gens, Spawn(c, g) PROVE WalkCovers'
    BY <1>6 DEF WalkCovers, Walks, Covered, Runs, TypeOK, Spawn, Goes
  <1>7. ASSUME NEW c \in Callers, Complete(c) PROVE WalkCovers'
    BY <1>7 DEF WalkCovers, Walks, Covered, Runs, TypeOK, Complete, Goes
  <1>8. ASSUME NEW c \in Callers, CloseLook(c) PROVE WalkCovers'
    <2>1. UNCHANGED <<sess, group, idOf, op, left, on>>
      BY <1>8 DEF CloseLook
    <2>2. CASE (Closed(c) \/ NotClosed(c)) /\ UNCHANGED target
      <3>1. ok'[c] => sess[on[c]] = None
        BY <1>8, <2>2, ClosedGoes DEF CloseLook, NotClosed, Goes, TypeOK
      <3> QED
        BY <1>8, <2>1, <2>2, <3>1, ClosedWalks DEF CloseLook
    <2>3. CASE Goes(c, "control") /\ UNCHANGED ok /\ target' = [target EXCEPT ![c] = sess[on[c]]]
      <3>1. Moves(c, {"look"}, {"control"})
        BY <1>8, <2>3 DEF CloseLook, Goes, Moves, TypeOK
      <3>2. \A d \in Callers \ {c} : target'[d] = target[d]
        BY <2>3 DEF TypeOK
      <3>3. \A d \in Callers \ {c} : Walks(d)' => Covered(d)'
        <4>1. Elsewhere(c, Spawning)
          BY <3>1 DEF Moves, Elsewhere
        <4> QED
          BY <2>1, <3>2, <4>1, OthersWalk
      <3>4. Walks(c)' => Covered(c)'
        BY <2>1, <2>3, <3>1 DEF WalkCovers, Walks, Covered, Moves, Runs, TypeOK
      <3> QED
        BY <3>3, <3>4 DEF WalkCovers
    <2> QED
      BY <1>8, <2>2, <2>3 DEF CloseLook
  <1>9. ASSUME NEW c \in Callers, CloseFindsOther(c) PROVE WalkCovers'
    <2>1. UNCHANGED <<group, idOf, op, left, on, target>> /\ UNCHANGED sess
      BY <1>9 DEF CloseFindsOther
    <2>2. Walks(c) => sess[on[c]] = None
      <3>1. Walks(c) => sess[on[c]] \in {None, target[c]}
        BY <1>9 DEF WalkCovers, Covered, CloseFindsOther
      <3>2. ~IsUnchanged(c)
        BY <1>9, ManagerAssumption DEF CloseFindsOther, ClosingHeld, IsUnchanged, TypeOK
      <3> QED
        BY <3>1, <3>2 DEF IsUnchanged
    <2> QED
      BY <1>9, <2>1, <2>2, ClosedWalks DEF CloseFindsOther
  <1>10. ASSUME NEW c \in Callers, CloseEnded(c) PROVE WalkCovers'
    <2>1. UNCHANGED <<group, idOf, op, left, on, target>>
      BY <1>10 DEF CloseEnded
    <2>2. \A i \in Ids : sess'[i] = sess[i] \/ sess'[i] = None
      BY <1>10 DEF CloseEnded, TypeOK
    <2>3. ok'[c] => Over(sess[on[c]])
      BY <1>10 DEF CloseEnded, NotClosed, EndsAreKnown, TargetKnown, IsUnchanged, TypeOK
    <2> QED
      BY <1>10, <2>1, <2>2, <2>3, ClosedWalks DEF CloseEnded
  <1>11. ASSUME NEW c \in Callers, CloseTakes(c) PROVE WalkCovers'
    BY <1>11 DEF WalkCovers, Walks, Covered, Runs, TypeOK, CloseTakes, Goes
  <1>12. ASSUME NEW c \in Callers, CloseSignals(c) PROVE WalkCovers'
    BY <1>12 DEF WalkCovers, Walks, Covered, Runs, TypeOK, CloseSignals, Goes
  <1>13. ASSUME NEW c \in Callers, CloseConfirmed(c) PROVE WalkCovers'
    BY <1>13 DEF WalkCovers, Walks, Covered, Runs, TypeOK, CloseConfirmed, Goes
  <1>14. ASSUME NEW c \in Callers, CloseTimesOut(c) PROVE WalkCovers'
    BY <1>14 DEF WalkCovers, Walks, Covered, Runs, TypeOK, CloseTimesOut, Goes
  <1>15. ASSUME NEW c \in Callers, CloseGivesUp(c) PROVE WalkCovers'
    BY <1>15 DEF WalkCovers, Walks, Covered, Runs, TypeOK, CloseGivesUp, NotClosed, Goes
  <1>16. ASSUME NEW c \in Callers, CloseRemoves(c) PROVE WalkCovers'
    <2>1. UNCHANGED <<group, idOf, op, left, on, target>>
      BY <1>16 DEF CloseRemoves
    <2>2. \A i \in Ids : sess'[i] = sess[i] \/ sess'[i] = None
      BY <1>16 DEF CloseRemoves, TypeOK
    <2>3. ok'[c] => Over(sess[on[c]])
      BY <1>16 DEF CloseRemoves, NotClosed, EndsAreKnown, IsUnchanged, TypeOK
    <2> QED
      BY <1>16, <2>1, <2>2, <2>3, ClosedWalks DEF CloseRemoves
  <1>17. ASSUME NEW c \in Callers, Drain(c) PROVE WalkCovers'
    <2>1. Moves(c, {"drain"}, {"next"}) /\ UNCHANGED <<sess, group, idOf, op, on, target>>
      BY <1>17, CallerMoves DEF Drain
    <2>2. \A d \in Callers : pc[d] \notin Spawning /\ pc'[d] \notin Spawning
      BY <1>17, <2>1 DEF Drain, ReservedAlone, Moves
    <2>3. left' = [left EXCEPT ![c] = {i \in Ids : sess[i] # None}]
      BY <1>17 DEF Drain
    <2>4. \A g \in Gens : Runs(g) => idOf[g] \in left'[c]
      BY <2>2, <2>3, ManagerAssumption DEF NoOrphan, IsRegistered, TypeOK
    <2>5. \A d \in Callers \ {c} : Walks(d)' => Covered(d)'
      BY <2>1, <2>2, <2>3 DEF WalkCovers, Walks, Covered, Moves, Runs, TypeOK
    <2>6. Covered(c)'
      BY <2>1, <2>2, <2>4 DEF Covered, Moves, Runs
    <2> QED
      BY <2>5, <2>6 DEF WalkCovers
  <1>18. ASSUME NEW c \in Callers, CloseNext(c) PROVE WalkCovers'
    BY <1>18 DEF WalkCovers, Walks, Covered, Runs, TypeOK, CloseNext, Goes
  <1>19. ASSUME NEW c \in Callers, NEW l \in Leases, OpenTakes(c, l) PROVE WalkCovers'
    BY <1>19 DEF WalkCovers, Walks, Covered, Runs, TypeOK, OpenTakes, Goes
  <1>20. ASSUME NEW g \in Gens, GroupEnds(g) PROVE WalkCovers'
    BY <1>20 DEF WalkCovers, Walks, Covered, Runs, TypeOK, GroupEnds
  <1>21. ASSUME NEW g \in Gens, PidRecycled(g) PROVE WalkCovers'
    BY <1>21 DEF WalkCovers, Walks, Covered, Runs, TypeOK, PidRecycled
  <1>22. CASE UNCHANGED vars
    BY <1>22 DEF WalkCovers, Walks, Covered, Runs, vars
  <1> QED
    BY <1>1, <1>2, <1>3, <1>4, <1>5, <1>6, <1>7, <1>8, <1>9, <1>10, <1>11, <1>12, <1>13, <1>14,
       <1>15, <1>16, <1>17, <1>18, <1>19, <1>20, <1>21, <1>22
    DEF Next, Caller, Create, Close, CloseAll, Uses, Waiter, Reader, Listener

-----------------------------------------------------------------------------
(* The invariant *)

LEMMA IInvInit == Init => IInv
  <1> SUFFICES ASSUME Init PROVE IInv
    OBVIOUS
  <1> USE ManagerAssumption
  <1>1. TypeOK
    BY TypeInit
  <1>2. \A c \in Callers : pc[c] = "idle" /\ op[c] = "create" /\ ~ok[c] /\ target[c] = None
    BY DEF Init
  <1>3. OpsMatch /\ TargetKnown /\ LeaseKnown
    BY <1>2 DEF OpsMatch, TargetKnown, LeaseKnown, Spawning, Closers, Closes, Uses0
  <1>4. ReservedAlone /\ ControlHeld /\ PromptsFlagged
    BY <1>2 DEF ReservedAlone, ControlHeld, Holds, PromptsFlagged, Spawning, Closers
  <1>5. RegisteredWaited /\ ClosingHeld /\ NoOrphan
    BY DEF Init, RegisteredWaited, ClosingHeld, NoOrphan, Runs
  <1>6. EndsAreKnown
    BY <1>2 DEF Init, EndsAreKnown
  <1>7. LeasedOutside /\ ReaderKnows
    BY DEF Init, LeasedOutside, ReaderKnows
  <1>8. WalkCovers
    BY <1>2 DEF WalkCovers, Walks
  <1> QED
    BY <1>1, <1>3, <1>4, <1>5, <1>6, <1>7, <1>8 DEF IInv

LEMMA IInvStep == IInv /\ [Next]_vars => IInv'
  <1> SUFFICES ASSUME IInv, [Next]_vars PROVE IInv'
    OBVIOUS
  <1>1. TypeOK' /\ OpsMatch' /\ TargetKnown' /\ LeaseKnown'
    BY TypeStep, OpsMatchStep, TargetKnownStep, LeaseKnownStep DEF IInv
  <1>2. ReservedAlone' /\ RegisteredWaited' /\ EndsAreKnown' /\ NoOrphan'
    BY ReservedAloneStep, RegisteredWaitedStep, EndsAreKnownStep, NoOrphanStep DEF IInv
  <1>3. ControlHeld' /\ ClosingHeld' /\ PromptsFlagged'
    BY ControlHeldStep, ClosingHeldStep, PromptsFlaggedStep DEF IInv
  <1>4. LeasedOutside' /\ ReaderKnows' /\ WalkCovers'
    BY LeasedOutsideStep, ReaderKnowsStep, WalkCoversStep DEF IInv
  <1> QED
    BY <1>1, <1>2, <1>3, <1>4 DEF IInv

\* The registry's strengthened invariant holds throughout: what each caller,
\* waiter, reader and listener knows of the sessions is so.
THEOREM Invariant == Spec => []IInv
  <1>1. Init => IInv
    BY IInvInit
  <1>2. IInv /\ [Next]_vars => IInv'
    BY IInvStep
  <1> QED
    BY <1>1, <1>2, PTL DEF Spec

\* Every variable of the registry keeps its type.
THEOREM TypesCorrect == Spec => []TypeOK
  <1>1. IInv => TypeOK
    BY DEF IInv
  <1> QED
    BY <1>1, Invariant, PTL

\* close_session, restart_session and the waiters lose no running group.
THEOREM RunningIsRegistered == Spec => []NoOrphan
  <1>1. IInv => NoOrphan
    BY DEF IInv
  <1> QED
    BY <1>1, Invariant, PTL

\* A session said to be cleaned up is: no waiter publishes over a successor.
THEOREM EndsAreTrue == Spec => []StateTruthful
  <1>1. IInv => StateTruthful
    BY DEF IInv, TypeOK, EndsAreKnown, StateTruthful, Over, Runs
  <1> QED
    BY <1>1, Invariant, PTL

\* A close_session that succeeds has ended the group it found.
THEOREM ClosedIsGone == Spec => []CloseMeansGone
  <1>1. IInv => CloseMeansGone
    BY DEF IInv, EndsAreKnown, CloseMeansGone, Over, Runs
  <1> QED
    BY <1>1, Invariant, PTL

\* A close_all that succeeds leaves nothing running, and nothing to start.
THEOREM ShutdownIsComplete == Spec => []ShutdownComplete
  <1>1. IInv => ShutdownComplete
    BY DEF IInv, WalkCovers, Walks, Covered, ShutdownComplete, Spawning, Closes, Closers
  <1> QED
    BY <1>1, Invariant, PTL

\* Outside the dock is under a lease: revoke_external_attachment, and what
\* opens and establishes.
THEOREM OutsideIsLeased == Spec => []LeasedOutside
  <1>1. IInv => LeasedOutside
    BY DEF IInv
  <1> QED
    BY <1>1, Invariant, PTL

\* write_input, insert_agent_prompt and the listener's input exclude each other.
THEOREM WritersExclude == Spec => []OneWriter
  <1>1. ASSUME IInv PROVE OneWriter
    <2>1. ASSUME NEW c \in Callers, NEW d \in Callers, c # d, pc[c] = "write", pc[d] = "write"
          PROVE  target[c] # target[d]
      BY <1>1, <2>1 DEF IInv, PromptsFlagged
    <2>2. ASSUME NEW l \in Leases, NEW c \in Callers, ExternalWrites(l), pc[c] = "write"
          PROVE  target[c] # leaseGen[l]
      <3>1. op[c] \in {"prompt", "input"}
        BY <1>1, <2>2 DEF IInv, OpsMatch
      <3>2. control[target[c]] # None \/ prompting[target[c]]
        BY <1>1, <2>2, <3>1, ManagerAssumption
        DEF IInv, ControlHeld, Holds, PromptsFlagged
      <3> QED
        BY <2>2, <3>2 DEF ExternalWrites
    <2> QED
      BY <2>1, <2>2 DEF OneWriter
  <1> QED
    BY <1>1, Invariant, PTL

\* Once its reader is done, an ended session is back in the dock.
THEOREM EndedIsInDock == Spec => []EndedNotOutside
  <1>1. IInv => EndedNotOutside
    BY DEF IInv, ReaderKnows, LeasedOutside, EndedNotOutside
  <1> QED
    BY <1>1, Invariant, PTL

\* A lease that is over never resets what the next one established.
THEOREM StaleLeavesAlone == Spec => StaleNeverResets
  <1>1. ASSUME IInv, [Next]_vars
        PROVE  [\A g \in Gens :
                  (attachment[g] # None /\ attachment'[g] # attachment[g]) => LossOf(g)]_vars
    BY <1>1, StaleStep DEF IInv
  <1>2. (\A g \in Gens : (attachment[g] # None /\ attachment'[g] # attachment[g]) => LossOf(g))
          => (\A g \in Gens :
          (attachment[g] # None /\ attachment'[g] # attachment[g]) =>
            \/ \E l \in Leases : listener[l] # listener'[l] /\ l = attachment[g]
            \/ readerLease[g] = attachment[g]
            \/ \E c \in Callers : pc[c] # pc'[c] /\
                  \/ pc[c] = "launch" /\ lease[c] = attachment[g]
                  \/ pc[c] \in {"take", "control"} /\ target[c] = g)
    BY DEF LossOf
  <1> QED
    BY <1>1, <1>2, Invariant, PTL DEF Spec, StaleNeverResets
=============================================================================
