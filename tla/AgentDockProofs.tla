--------------------------- MODULE AgentDockProofs ---------------------------
(***************************************************************************)
(* Proofs about the tabs of the agent dock: for any number of sessions,    *)
(* creates and requests and any order of answers, events and lists, tabs   *)
(* keep their order, what is closed stays closed, a command is typed once, *)
(* a background task is never brought to the front, and once nothing is on *)
(* its way live sessions are tabs that show where they are.                *)
(*                                                                         *)
(* The argument.  A create has its session to itself (CreatesApart).  A    *)
(* tab has a place and a state (TabsHave), and only its own close takes it *)
(* away, so a request always finds it (RequestsHaveTab), a closed tab is   *)
(* one whose close is under way (ClosingKnown), and a created one is a tab *)
(* until then (CreatedHaveTab).  Of a session no event was missed of, the  *)
(* last event on its way says where it is, or else the last one heard did  *)
(* (EventsTell), and an answer that is shown has no event after its        *)
(* request, so that the event of what it asked for is on its way           *)
(* (AnswersKnow).                                                          *)
(***************************************************************************)
EXTENDS AgentDock, FiniteSetTheorems, TLAPS

\* A create has its session to itself.
CreatesApart ==
    /\ \A c \in Creates :
          /\ create[c].ok => create[c].pc = "done" /\ create[c].id # None
          /\ create[c].pc \in {"idle", "sent", "refused"} => create[c].id = None
          /\ create[c].pc = "made" => create[c].id # None
          /\ create[c].id # None => session[create[c].id] # None
    /\ \A c, d \in Creates :
          (c # d /\ create[c].id # None) => create[c].id # create[d].id

\* An opening command that is unclaimed is one of a create, and not typed yet.
CommandsKnown ==
    \A i \in initialInput :
        typed[i] = 0 /\ \E c \in load.commands \cap Creates : create[c].ok /\ create[c].id = i

\* The answer to the list has live sessions only, each once.
ListKnown ==
    hydration = "read" =>
        /\ listing \in Listing
        /\ \A n \in DOMAIN listing.ids : listing.snap[listing.ids[n]] \in Snapshot
        /\ \A m, n \in DOMAIN listing.ids : m # n => listing.ids[m] # listing.ids[n]

\* A tab has a place and a state.
TabsHave == \A i \in Ids : HasTab(i) => order[i] # None /\ task[i] # None

\* A request is made for a tab, which it keeps.
RequestsHaveTab == \A i \in Ids : request[i] # None => HasTab(i)

\* A close under way is one of an id that is closed, and no other tab is.
ClosingKnown ==
    \A i \in Ids :
        /\ (request[i] # None /\ request[i].kind = "close") => i \in closedIds
        /\ (i \in closedIds /\ HasTab(i)) => request[i] # None /\ request[i].kind = "close"

\* What a create has made is a tab until it is closed.
CreatedHaveTab ==
    \A c \in Creates : create[c].ok => HasTab(create[c].id) \/ create[c].id \in closedIds

\* An event of this session is on its way.
Coming(i) == \E n \in DOMAIN events : events[n].id = i

IsLastOf(n, i) ==
    /\ n \in DOMAIN events /\ events[n].id = i
    /\ \A m \in DOMAIN events : m > n => events[m].id # i

\* What is live is a tab, or an event will make it one.
EventsReach ==
    stream # "off" =>
        \A i \in Live \ (missed \cup closedIds) : HasTab(i) \/ Coming(i)

\* Where a session is, the last event on its way says; or the last one heard
\* has said, and the tab shows it.
EventsTell ==
    stream # "off" =>
        \A i \in Live \ missed :
            /\ \A n \in DOMAIN events : IsLastOf(n, i) => events[n].snap.pres = session[i].pres
            /\ ~Coming(i) => latest[i] # None /\ latest[i].pres = session[i].pres
            /\ (~Coming(i) /\ i \notin overwritten /\ HasTab(i))
                  => task[i].snap.pres = session[i].pres

\* A move that was served, and of which no event was heard, is still announced.
AnswersKnow ==
    \A i \in Ids : request[i] # None =>
        /\ request[i].rev <= revision[i]
        /\ (request[i].kind = "present" /\ request[i].pc = "served" /\ stream # "off"
              /\ i \in Live \ missed /\ request[i].rev = revision[i]) => Coming(i)

CreatesInv == CreatesApart /\ CommandsKnown /\ TypedOnce
RowsInv == TabsHave /\ TabsInOrder /\ RequestsHaveTab /\ ClosingKnown /\ CreatedHaveTab
EventsInv == EventsReach /\ EventsTell /\ AnswersKnow

IInv == TypeOK /\ CreatesInv /\ ListKnown /\ RowsInv /\ EventsInv
-----------------------------------------------------------------------------
(* Rows: the operators on sequences *)

\* A strict order that is total on S.
IsOrderOf(S, precedes) ==
    /\ \A m \in S : <<m, m>> \notin precedes
    /\ \A m, n, p \in S : (<<m, n>> \in precedes /\ <<n, p>> \in precedes) => <<m, p>> \in precedes
    /\ \A m, n \in S : m # n => <<m, n>> \in precedes \/ <<n, m>> \in precedes

\* Enumerate lists a finite set, each member once, in its order.
LEMMA EnumerateIs ==
    ASSUME NEW S, IsFiniteSet(S), NEW precedes, IsOrderOf(S, precedes)
    PROVE  LET at == Enumerate(S, precedes) IN
           /\ Cardinality(S) \in Nat
           /\ DOMAIN at = 1 .. Cardinality(S)
           /\ \A k \in DOMAIN at : at[k] \in S
           /\ \A n \in S : \E k \in DOMAIN at : at[k] = n
           /\ \A k, l \in DOMAIN at : k < l => <<at[k], at[l]>> \in precedes
  <1> DEFINE Ahead(n) == {m \in S : <<m, n>> \in precedes}
             Rank(n) == Cardinality(Ahead(n))
             at == Enumerate(S, precedes)
             Card == Cardinality(S)
  <1>1. Card \in Nat
    BY FS_CardinalityType
  <1>2. \A n \in S : IsFiniteSet(Ahead(n)) /\ Rank(n) \in Nat
    BY FS_Subset, FS_CardinalityType
  <1>3. \A n \in S : Rank(n) \in Nat
    BY <1>2
  <1>4. ASSUME NEW m \in S, NEW n \in S, <<m, n>> \in precedes
        PROVE  Rank(m) < Rank(n)
    <2>1. Ahead(m) \subseteq Ahead(n) /\ m \in Ahead(n) /\ m \notin Ahead(m)
      BY <1>4 DEF IsOrderOf
    <2>2. Rank(m) <= Rank(n) /\ (Rank(n) = Rank(m) => Ahead(n) = Ahead(m))
      BY <1>2, <2>1, FS_Subset
    <2> HIDE DEF Rank, Ahead
    <2> QED
      BY <1>2, <2>1, <2>2
  <1>5. \A n \in S : Rank(n) + 1 \in 1 .. Card
    <2> TAKE n \in S
    <2>1. Ahead(n) \subseteq S /\ n \notin Ahead(n)
      BY DEF IsOrderOf
    <2>2. Rank(n) <= Card /\ (Card = Rank(n) => S = Ahead(n))
      BY <2>1, FS_Subset
    <2> HIDE DEF Rank, Ahead, Card
    <2> QED
      BY <1>1, <1>2, <2>1, <2>2
  <1> DEFINE f == [n \in S |-> Rank(n) + 1]
  <1>6. f \in Injection(S, 1 .. Card)
    <2>1. f \in [S -> 1 .. Card]
      BY <1>5
    <2>2. ASSUME NEW m \in S, NEW n \in S, m # n PROVE f[m] # f[n]
      <3>1. Rank(m) < Rank(n) \/ Rank(n) < Rank(m)
        BY <1>4, <2>2 DEF IsOrderOf
      <3>2. f[m] = Rank(m) + 1 /\ f[n] = Rank(n) + 1
        OBVIOUS
      <3> HIDE DEF Rank, f
      <3> QED
        BY <1>3, <3>1, <3>2
    <2> QED
      BY <2>1, <2>2 DEF Injection, IsInjective
  <1>7. \A k \in 1 .. Card : \E n \in S : f[n] = k
    <2>1. IsFiniteSet(1 .. Card) /\ Cardinality(1 .. Card) = Card
      <3> HIDE DEF Card
      <3> QED
        BY <1>1, FS_Interval
    <2>2. f \in Surjection(S, 1 .. Card)
      BY <1>6, <2>1, FS_Injection
    <2> QED
      BY <2>2 DEF Surjection
  <1>8. \A k \in 1 .. Card : at[k] = CHOOSE n \in S : Rank(n) = k - 1
    BY DEF Enumerate
  <1>9. DOMAIN at = 1 .. Card
    BY DEF Enumerate
  <1> HIDE DEF Rank, Card, at
  <1>10. \A k \in 1 .. Card : at[k] \in S /\ Rank(at[k]) + 1 = k
    <2> TAKE k \in 1 .. Card
    <2>1. PICK n \in S : Rank(n) + 1 = k
      BY <1>7
    <2>2. Rank(n) = k - 1
      BY <1>3, <2>1
    <2>3. at[k] \in S /\ Rank(at[k]) = k - 1
      BY <1>8, <2>1, <2>2
    <2> QED
      BY <1>1, <2>3
  <1>11. \A n \in S : \E k \in 1 .. Card : at[k] = n
    <2> TAKE n \in S
    <2>1. Rank(n) + 1 \in 1 .. Card
      BY <1>5
    <2>2. at[Rank(n) + 1] \in S /\ Rank(at[Rank(n) + 1]) + 1 = Rank(n) + 1
      BY <1>10, <2>1
    <2>3. at[Rank(n) + 1] # n => Rank(at[Rank(n) + 1]) < Rank(n) \/ Rank(n) < Rank(at[Rank(n) + 1])
      BY <1>4, <2>2 DEF IsOrderOf
    <2> QED
      BY <1>3, <2>1, <2>2, <2>3
  <1>12. ASSUME NEW k \in 1 .. Card, NEW l \in 1 .. Card, k < l
         PROVE  <<at[k], at[l]>> \in precedes
    <2>1. at[k] \in S /\ at[l] \in S /\ Rank(at[k]) + 1 = k /\ Rank(at[l]) + 1 = l
      BY <1>10
    <2>2. at[k] # at[l] /\ ~(Rank(at[l]) < Rank(at[k]))
      BY <1>1, <1>3, <1>12, <2>1
    <2> QED
      BY <1>4, <2>1, <2>2 DEF IsOrderOf
  <1> QED
    BY <1>1, <1>9, <1>10, <1>11, <1>12 DEF Card, at

\* A row of sessions, each at most once.
IsRow(ts) == ts \in Seq(Ids) /\ \A m, n \in DOMAIN ts : m # n => ts[m] # ts[n]

\* The order of places is total.
LEMMA BeforeIsWeak ==
    ASSUME NEW o, NEW i, NEW j, NEW l, o[i] \in Order, o[j] \in Order, o[l] \in Order
    PROVE  /\ ~Before(o, i, i)
           /\ Before(o, i, j) => ~Before(o, j, i)
           /\ Before(o, i, l) => Before(o, i, j) \/ Before(o, j, l)
  BY DEF Before, Order

\* sortTasks: the same tabs, none before one that goes before it.
LEMMA SortTasksIs ==
    ASSUME NEW ts \in Seq(Ids), NEW o, \A n \in DOMAIN ts : o[ts[n]] \in Order
    PROVE  LET sorted == SortTasks(ts, o) IN
           /\ sorted \in Seq(Ids)
           /\ ToSet(sorted) = ToSet(ts)
           /\ IsRow(ts) => IsRow(sorted)
           /\ \A m, n \in DOMAIN sorted : m < n => ~Before(o, sorted[n], sorted[m])
  <1> DEFINE places == DOMAIN ts
             first(m, n) == Before(o, ts[m], ts[n]) \/ (m < n /\ ~Before(o, ts[n], ts[m]))
             precedes == {p \in places \X places : first(p[1], p[2])}
             at == Enumerate(places, precedes)
             sorted == SortTasks(ts, o)
  <1>1. places = 1 .. Len(ts) /\ Len(ts) \in Nat /\ \A n \in places : ts[n] \in Ids
    OBVIOUS
  <1>2. IsFiniteSet(places) /\ Cardinality(places) = Len(ts)
    BY <1>1, FS_Interval
  <1>3. \A m, n \in places : <<m, n>> \in precedes <=> first(m, n)
    OBVIOUS
  <1>4. IsOrderOf(places, precedes)
    <2>1. \A m \in places : ~first(m, m)
      BY <1>1, BeforeIsWeak
    <2>2. ASSUME NEW m \in places, NEW n \in places, NEW p \in places, first(m, n), first(n, p)
          PROVE  first(m, p)
      <3>1. o[ts[m]] \in Order /\ o[ts[n]] \in Order /\ o[ts[p]] \in Order
        OBVIOUS
      <3>2. /\ Before(o, ts[m], ts[n]) => Before(o, ts[m], ts[p]) \/ Before(o, ts[p], ts[n])
            /\ Before(o, ts[n], ts[p]) => Before(o, ts[n], ts[m]) \/ Before(o, ts[m], ts[p])
            /\ Before(o, ts[p], ts[m]) => Before(o, ts[p], ts[n]) \/ Before(o, ts[n], ts[m])
            /\ Before(o, ts[m], ts[n]) => ~Before(o, ts[n], ts[m])
            /\ Before(o, ts[n], ts[p]) => ~Before(o, ts[p], ts[n])
        BY <3>1, BeforeIsWeak
      <3> QED
        BY <1>1, <2>2, <3>2
    <2>3. \A m, n \in places : m # n => first(m, n) \/ first(n, m)
      BY <1>1
    <2> HIDE DEF places, first, precedes
    <2> QED
      BY <1>3, <2>1, <2>2, <2>3 DEF IsOrderOf
  <1>5. /\ DOMAIN at = 1 .. Len(ts)
        /\ \A k \in 1 .. Len(ts) : at[k] \in places
        /\ \A n \in places : \E k \in 1 .. Len(ts) : at[k] = n
        /\ \A k, l \in 1 .. Len(ts) : k < l => <<at[k], at[l]>> \in precedes
    <2> HIDE DEF places, precedes
    <2> QED
      BY <1>2, <1>4, EnumerateIs
  <1>6. sorted = [k \in places |-> ts[at[k]]]
    BY DEF SortTasks
  <1> HIDE DEF at, precedes, sorted
  <1>7. sorted \in Seq(Ids) /\ DOMAIN sorted = 1 .. Len(ts)
    BY <1>1, <1>5, <1>6
  <1>8. ToSet(sorted) = ToSet(ts)
    BY <1>1, <1>5, <1>6, <1>7 DEF ToSet
  <1>9. ASSUME NEW k \in 1 .. Len(ts), NEW l \in 1 .. Len(ts), k < l
        PROVE  /\ ~Before(o, sorted[l], sorted[k])
               /\ IsRow(ts) => sorted[k] # sorted[l]
    <2>1. at[k] \in places /\ at[l] \in places /\ first(at[k], at[l]) /\ ~first(at[k], at[k])
      BY <1>3, <1>4, <1>5, <1>9 DEF IsOrderOf
    <2>2. o[ts[at[k]]] \in Order /\ o[ts[at[l]]] \in Order
      BY <2>1
    <2>3. ~Before(o, ts[at[l]], ts[at[k]])
      BY <2>1, <2>2, BeforeIsWeak
    <2> QED
      BY <1>1, <1>6, <2>1, <2>3 DEF IsRow
  <1>10. IsRow(ts) => IsRow(sorted)
    BY <1>1, <1>7, <1>9 DEF IsRow
  <1> QED
    BY <1>1, <1>7, <1>8, <1>9, <1>10 DEF sorted

\* filter: what is left stands as it stood.
LEMMA WithoutIs ==
    ASSUME NEW ts \in Seq(Ids), NEW ids
    PROVE  LET rest == Without(ts, ids) IN
           /\ rest \in Seq(Ids)
           /\ ToSet(rest) = ToSet(ts) \ ids
           /\ IsRow(ts) => IsRow(rest)
           /\ \A m, n \in DOMAIN rest : m < n =>
                 \E p, q \in DOMAIN ts : p < q /\ rest[m] = ts[p] /\ rest[n] = ts[q]
  <1> DEFINE kept == {n \in DOMAIN ts : ts[n] \notin ids}
             precedes == {p \in kept \X kept : p[1] < p[2]}
             at == Enumerate(kept, precedes)
             rest == Without(ts, ids)
  <1>1. DOMAIN ts = 1 .. Len(ts) /\ Len(ts) \in Nat /\ \A n \in DOMAIN ts : ts[n] \in Ids
    OBVIOUS
  <1>2. IsFiniteSet(kept)
    <2>1. IsFiniteSet(DOMAIN ts)
      BY <1>1, FS_Interval
    <2> QED
      BY <2>1, FS_Subset
  <1>3. \A m, n \in kept : <<m, n>> \in precedes <=> m < n
    OBVIOUS
  <1>4. \A n \in kept : n \in Nat /\ n \in DOMAIN ts /\ ts[n] \notin ids
    BY <1>1
  <1>5. IsOrderOf(kept, precedes)
    <2> HIDE DEF kept, precedes
    <2> QED
      BY <1>3, <1>4 DEF IsOrderOf
  <1>6. /\ Cardinality(kept) \in Nat
        /\ DOMAIN at = 1 .. Cardinality(kept)
        /\ \A k \in DOMAIN at : at[k] \in kept
        /\ \A n \in kept : \E k \in DOMAIN at : at[k] = n
        /\ \A k, l \in DOMAIN at : k < l => <<at[k], at[l]>> \in precedes
    <2> HIDE DEF kept, precedes
    <2> QED
      BY <1>2, <1>5, EnumerateIs
  <1>7. rest = [k \in DOMAIN at |-> ts[at[k]]]
    BY DEF Without
  <1>8. \A n \in DOMAIN ts : ts[n] \notin ids => n \in kept
    OBVIOUS
  <1> HIDE DEF at, precedes, rest, kept
  <1>9. rest \in Seq(Ids) /\ DOMAIN rest = DOMAIN at
    BY <1>1, <1>4, <1>6, <1>7
  <1>10. ToSet(rest) = ToSet(ts) \ ids
    BY <1>4, <1>6, <1>7, <1>8, <1>9 DEF ToSet
  <1>11. \A k, l \in DOMAIN rest : k < l =>
             at[k] \in DOMAIN ts /\ at[l] \in DOMAIN ts /\ at[k] < at[l]
                /\ rest[k] = ts[at[k]] /\ rest[l] = ts[at[l]]
    BY <1>3, <1>4, <1>6, <1>7, <1>9
  <1>12. IsRow(ts) => IsRow(rest)
    <2> SUFFICES ASSUME IsRow(ts), NEW k \in DOMAIN rest, NEW l \in DOMAIN rest, k < l
                 PROVE  rest[k] # rest[l]
      BY <1>6, <1>9 DEF IsRow
    <2> QED
      BY <1>1, <1>11 DEF IsRow
  <1> QED
    BY <1>9, <1>10, <1>11, <1>12 DEF rest

\* The least of some natural numbers.
LEMMA LeastExists ==
    ASSUME NEW n \in Nat, NEW S \in SUBSET (1 .. n), S # {}
    PROVE  \E m \in S : \A l \in S : m <= l
  <1> DEFINE precedes == {p \in S \X S : p[1] < p[2]}
             at == Enumerate(S, precedes)
  <1>1. IsFiniteSet(S) /\ S \subseteq Nat
    <2>1. IsFiniteSet(1 .. n)
      BY FS_Interval
    <2>2. S \in SUBSET (1 .. n)
      OBVIOUS
    <2>3. IsFiniteSet(S)
      BY <2>1, <2>2, FS_Subset
    <2> QED
      BY <2>2, <2>3
  <1>2. \A m, l \in S : <<m, l>> \in precedes <=> m < l
    OBVIOUS
  <1>3. IsOrderOf(S, precedes)
    <2> HIDE DEF precedes
    <2> QED
      BY <1>1, <1>2 DEF IsOrderOf
  <1> HIDE DEF precedes
  <1>4. /\ Cardinality(S) \in Nat
        /\ DOMAIN at = 1 .. Cardinality(S)
        /\ \A k \in DOMAIN at : at[k] \in S
        /\ \A m \in S : \E k \in DOMAIN at : at[k] = m
        /\ \A k, l \in DOMAIN at : k < l => <<at[k], at[l]>> \in precedes
    BY <1>1, <1>3, EnumerateIs
  <1> HIDE DEF at
  <1>5. 1 \in DOMAIN at
    <2>1. PICK m \in S : TRUE
      OBVIOUS
    <2>2. PICK k \in DOMAIN at : at[k] = m
      BY <1>4
    <2> QED
      BY <1>4, <2>2
  <1>6. \A l \in S : at[1] <= l
    <2> TAKE l \in S
    <2>1. PICK k \in DOMAIN at : at[k] = l
      BY <1>4
    <2>2. k = 1 \/ 1 < k
      BY <1>4, <2>1
    <2>3. at[1] \in S /\ at[1] \in Nat
      BY <1>1, <1>4, <1>5
    <2>4. CASE k = 1
      BY <2>1, <2>3, <2>4
    <2>5. CASE 1 < k
      <3>1. <<at[1], at[k]>> \in precedes
        BY <1>4, <1>5, <2>5
      <3>2. at[1] < l
        BY <1>2, <2>1, <2>3, <3>1
      <3> QED
        BY <1>1, <2>3, <3>2
    <2> QED
      BY <2>2, <2>4, <2>5
  <1> QED
    BY <1>4, <1>5, <1>6

\* activateFirstAttached leaves the choice, or takes an attached tab.
LEMMA ActivateIs ==
    ASSUME NEW now, NEW ts \in Seq(Ids), NEW o, NEW pending
    PROVE  LET chosen == ActivateFirstAttached(now, ts, o, pending) IN
           \/ chosen = now
           \/ \E n \in DOMAIN ts : chosen = ts[n] /\ o[ts[n]].group = "attached"
  <1> DEFINE attached == {n \in DOMAIN ts : ts[n] \notin closedIds /\ o[ts[n]].group = "attached"}
  <1>1. CASE now # None \/ pending # {} \/ attached = {}
    BY <1>1 DEF ActivateFirstAttached
  <1>2. CASE ~(now # None \/ pending # {} \/ attached = {})
    <2>1. attached \in SUBSET (1 .. Len(ts)) /\ Len(ts) \in Nat
      OBVIOUS
    <2>2. \E n \in attached : \A m \in attached : n <= m
      <3> HIDE DEF attached
      <3> QED
        BY <1>2, <2>1, LeastExists
    <2> DEFINE least == CHOOSE n \in attached : \A m \in attached : n <= m
    <2>3. least \in attached
      <3> HIDE DEF attached
      <3> QED
        BY <2>2
    <2>4. ActivateFirstAttached(now, ts, o, pending) = ts[least]
      BY <1>2 DEF ActivateFirstAttached
    <2> HIDE DEF least
    <2> QED
      BY <2>3, <2>4
  <1> QED
    BY <1>1, <1>2

\* What the daemon lists: the live sessions, each once.
LEMMA LiveRows ==
    ASSUME NEW s \in SetToSeqs(Live)
    PROVE  IsRow(s) /\ ToSet(s) = Live
  <1>1. IsFiniteSet(Live) /\ Live \subseteq Ids
    BY NoneAssumption, FS_Subset DEF Live
  <1>2. Cardinality(Live) \in Nat
    BY <1>1, FS_CardinalityType
  <1> DEFINE places == 1 .. Cardinality(Live)
  <1>3. s \in [places -> Live] /\ \A m, n \in places : m # n => s[m] # s[n]
    BY DEF SetToSeqs
  <1>4. s \in Injection(places, Live)
    BY <1>3 DEF Injection, IsInjective
  <1>5. IsFiniteSet(places) /\ Cardinality(places) = Cardinality(Live)
    <2> DEFINE card == Cardinality(Live)
    <2> HIDE DEF card
    <2>1. card \in Nat
      BY <1>2 DEF card
    <2>2. IsFiniteSet(1 .. card) /\ Cardinality(1 .. card) = card
      BY <2>1, FS_Interval
    <2> QED
      BY <2>2 DEF card
  <1>6. s \in Surjection(places, Live)
    BY <1>1, <1>4, <1>5, FS_Injection
  <1>7. s \in Seq(Ids) /\ DOMAIN s = places
    BY <1>1, <1>2, <1>3
  <1>8. ToSet(s) = Live
    BY <1>3, <1>6, <1>7 DEF ToSet, Surjection
  <1> QED
    BY <1>3, <1>7, <1>8 DEF IsRow

LEMMA RowHas ==
    ASSUME NEW ts \in Seq(Ids)
    PROVE  ToSet(ts) \subseteq Ids /\ ToSet(ts) = {ts[n] : n \in 1 .. Len(ts)}
  BY DEF ToSet

LEMMA AppendHas ==
    ASSUME NEW ts \in Seq(Ids), NEW i \in Ids
    PROVE  /\ Append(ts, i) \in Seq(Ids) /\ ToSet(Append(ts, i)) = ToSet(ts) \cup {i}
           /\ (IsRow(ts) /\ i \notin ToSet(ts)) => IsRow(Append(ts, i))
  <1> DEFINE row == Append(ts, i)
  <1>1. row \in Seq(Ids) /\ Len(row) = Len(ts) + 1 /\ Len(ts) \in Nat
    OBVIOUS
  <1>2. \A n \in 1 .. Len(ts) : row[n] = ts[n]
    OBVIOUS
  <1>3. row[Len(ts) + 1] = i
    OBVIOUS
  <1>4. DOMAIN row = 1 .. Len(ts) + 1 /\ DOMAIN ts = 1 .. Len(ts)
    BY <1>1
  <1> HIDE DEF row
  <1>5. \A n \in DOMAIN row : n \in 1 .. Len(ts) \/ n = Len(ts) + 1
    BY <1>1, <1>4
  <1>6. 1 .. Len(ts) \subseteq DOMAIN row /\ Len(ts) + 1 \in DOMAIN row
    BY <1>1, <1>4
  <1>7. ToSet(row) = ToSet(ts) \cup {i}
    BY <1>2, <1>3, <1>4, <1>5, <1>6 DEF ToSet
  <1>8. (IsRow(ts) /\ i \notin ToSet(ts)) => IsRow(row)
    BY <1>1, <1>2, <1>3, <1>4, <1>5 DEF IsRow, ToSet
  <1> QED
    BY <1>1, <1>7, <1>8 DEF row

LEMMA ConcatHas ==
    ASSUME NEW ts \in Seq(Ids), NEW us \in Seq(Ids)
    PROVE  /\ ts \o us \in Seq(Ids) /\ ToSet(ts \o us) = ToSet(ts) \cup ToSet(us)
           /\ (IsRow(ts) /\ IsRow(us) /\ ToSet(ts) \cap ToSet(us) = {}) => IsRow(ts \o us)
  <1> DEFINE row == ts \o us
  <1>1. row \in Seq(Ids) /\ Len(row) = Len(ts) + Len(us) /\ Len(ts) \in Nat /\ Len(us) \in Nat
    OBVIOUS
  <1>2. \A n \in 1 .. Len(ts) : row[n] = ts[n]
    OBVIOUS
  <1>3. \A n \in 1 .. Len(us) : row[Len(ts) + n] = us[n]
    OBVIOUS
  <1>4. DOMAIN row = 1 .. Len(ts) + Len(us) /\ DOMAIN ts = 1 .. Len(ts) /\ DOMAIN us = 1 .. Len(us)
    BY <1>1
  <1> HIDE DEF row
  <1>5. ASSUME NEW n \in DOMAIN row
        PROVE  \/ n \in DOMAIN ts /\ row[n] = ts[n]
               \/ n - Len(ts) \in DOMAIN us /\ row[n] = us[n - Len(ts)]
    <2>1. n \in 1 .. Len(ts) \/ n - Len(ts) \in 1 .. Len(us)
      BY <1>1, <1>4
    <2>2. n - Len(ts) \in 1 .. Len(us) => row[Len(ts) + (n - Len(ts))] = us[n - Len(ts)]
      BY <1>3
    <2>3. Len(ts) + (n - Len(ts)) = n
      BY <1>1, <1>4
    <2> QED
      BY <1>2, <1>4, <2>1, <2>2, <2>3
  <1>6. /\ \A n \in DOMAIN ts : n \in DOMAIN row /\ row[n] = ts[n]
        /\ \A n \in DOMAIN us : Len(ts) + n \in DOMAIN row /\ row[Len(ts) + n] = us[n]
    BY <1>1, <1>2, <1>3, <1>4
  <1>7. ToSet(row) = ToSet(ts) \cup ToSet(us)
    <2>1. ToSet(row) \subseteq ToSet(ts) \cup ToSet(us)
      BY <1>5 DEF ToSet
    <2>2. ToSet(ts) \subseteq ToSet(row) /\ ToSet(us) \subseteq ToSet(row)
      BY <1>6 DEF ToSet
    <2> QED
      BY <2>1, <2>2
  <1>8. ASSUME IsRow(ts), IsRow(us), ToSet(ts) \cap ToSet(us) = {} PROVE IsRow(row)
    <2> SUFFICES ASSUME NEW m \in DOMAIN row, NEW n \in DOMAIN row, m # n, row[m] = row[n]
                 PROVE  FALSE
      BY <1>1 DEF IsRow
    <2>1. \A k \in DOMAIN ts : ts[k] \in ToSet(ts)
      BY DEF ToSet
    <2>2. \A k \in DOMAIN us : us[k] \in ToSet(us)
      BY DEF ToSet
    <2>3. CASE m \in DOMAIN ts /\ row[m] = ts[m] /\ n \in DOMAIN ts /\ row[n] = ts[n]
      BY <1>8, <2>3 DEF IsRow
    <2>4. CASE /\ m - Len(ts) \in DOMAIN us /\ row[m] = us[m - Len(ts)]
               /\ n - Len(ts) \in DOMAIN us /\ row[n] = us[n - Len(ts)]
      <3>1. m - Len(ts) # n - Len(ts)
        BY <1>1, <1>4
      <3> QED
        BY <1>8, <2>4, <3>1 DEF IsRow
    <2> QED
      BY <1>5, <1>8, <2>1, <2>2, <2>3, <2>4
  <1> QED
    BY <1>1, <1>7, <1>8 DEF row

-----------------------------------------------------------------------------
(* Types *)

LEMMA LoadType ==
    ASSUME TypeOK
    PROVE  /\ load.creates \subseteq Creates /\ load.commands \subseteq Creates
           /\ load.kinds \subseteq {"present", "rename", "stop", "close", "pick"}
  BY DockAssumption DEF TypeOK

LEMMA SnapshotFacts ==
    /\ Fresh \in Snapshot /\ Fresh # None /\ Fresh # Gone /\ Gone # None
    /\ \A snap \in Snapshot : snap # None /\ snap # Gone
    /\ \A snap \in Snapshot : Flipped(snap) \in Snapshot
    /\ \A snap \in Snapshot, to \in Snapshot :
          /\ [snap EXCEPT !.pres = to.pres] \in Snapshot
          /\ [snap EXCEPT !.label = to.label] \in Snapshot
          /\ [snap EXCEPT !.label = 1 - @] \in Snapshot
  <1>1. Fresh \in Snapshot
    BY DEF Fresh, Snapshot
  <1>2. \A snap \in Snapshot : snap # Gone
    BY DEF Gone, Snapshot
  <1>3. \A snap \in Snapshot : Flipped(snap) \in Snapshot
    BY DEF Flipped, Snapshot
  <1>4. \A snap \in Snapshot, to \in Snapshot :
          /\ [snap EXCEPT !.pres = to.pres] \in Snapshot
          /\ [snap EXCEPT !.label = to.label] \in Snapshot
    BY DEF Snapshot
  <1>5. \A snap \in Snapshot : [snap EXCEPT !.label = 1 - @] \in Snapshot
    BY DEF Snapshot
  <1> QED
    BY <1>1, <1>2, <1>3, <1>4, <1>5, NoneAssumption

LEMMA LiveHasSnapshot ==
    ASSUME TypeOK
    PROVE  /\ Live = {i \in Ids : session[i] \in Snapshot}
           /\ \A i \in Live : session[i] # None /\ session[i] # Gone
  BY SnapshotFacts DEF TypeOK, Live

\* The rows the dock keeps.
LEMMA TabsAreIds ==
    ASSUME TypeOK
    PROVE  /\ tabs \in Seq(Ids) /\ ToSet(tabs) \subseteq Ids
           /\ \A n \in DOMAIN tabs : tabs[n] \in Ids /\ HasTab(tabs[n])
           /\ \A i : HasTab(i) => \E n \in DOMAIN tabs : tabs[n] = i
  BY RowHas DEF TypeOK, HasTab, ToSet

LEMMA EmitTypes ==
    ASSUME TypeOK, NEW i \in Ids, NEW snap \in Snapshot, Emit(i, snap)
    PROVE  events' \in Seq(Event) /\ missed' \subseteq Ids /\ stream' = stream
  <1>1. [id |-> i, snap |-> snap] \in Event
    BY DEF Event
  <1> QED
    BY <1>1 DEF TypeOK, Emit

LEMMA BecomesTypes ==
    ASSUME TypeOK, NEW i \in Ids, NEW snap \in Snapshot \cup {Gone},
           \/ snap \in Snapshot /\ Becomes(i, snap)
           \/ BecomesQuietly(i, snap)
    PROVE  /\ session' \in [Ids -> Snapshot \cup {None, Gone}]
           /\ events' \in Seq(Event) /\ missed' \subseteq Ids /\ stream' = stream
  BY EmitTypes DEF TypeOK, Becomes, BecomesQuietly

LEMMA InitTypes == Init => TypeOK
  <1> SUFFICES ASSUME Init PROVE TypeOK
    OBVIOUS
  <1>1. session \in [Ids -> Snapshot \cup {None, Gone}]
    BY SnapshotFacts DEF Init
  <1>2. create \in [Creates -> Create]
    BY DEF Init, Create
  <1>3. /\ task \in [Ids -> Task \cup {None}] /\ order \in [Ids -> Order \cup {None}]
        /\ revision \in [Ids -> Nat] /\ latest \in [Ids -> Snapshot \cup {None}]
        /\ request \in [Ids -> Request \cup {None}] /\ typed \in [Ids -> 0 .. 1]
    BY DEF Init
  <1>4. events \in Seq(Event) /\ tabs \in Seq(Ids)
    BY DEF Init
  <1>5. /\ stream \in {"off", "listed", "on"} /\ hydration \in {"asked", "read", "settled"}
        /\ listing = None /\ active \in Ids \cup {Compose, None} /\ load \in Loads
        /\ sequence \in Nat /\ latestForeground \in Nat
    BY DEF Init
  <1>6. /\ closedIds \subseteq Ids /\ initialInput \subseteq Ids
        /\ missed \subseteq Ids /\ overwritten \subseteq Ids
    BY DEF Init
  <1> QED
    BY <1>1, <1>2, <1>3, <1>4, <1>5, <1>6 DEF TypeOK

\* The daemon's steps, and what other front ends do.
LEMMA StreamTypes == ASSUME TypeOK, load' = load, StreamLists \/ StreamSubscribes PROVE TypeOK'
  <1>1. CASE StreamLists
    <2>1. PICK s \in SetToSeqs(Live) : events' = [n \in DOMAIN s |-> [id |-> s[n], snap |-> session[s[n]]]]
      BY <1>1 DEF StreamLists
    <2>2. s \in Seq(Ids) /\ ToSet(s) = Live
      BY LiveRows DEF IsRow
    <2>3. \A n \in DOMAIN s : s[n] \in Ids /\ session[s[n]] \in Snapshot
      BY <2>2, LiveHasSnapshot DEF ToSet
    <2>4. \A n \in DOMAIN s : [id |-> s[n], snap |-> session[s[n]]] \in Event
      BY <2>3 DEF Event
    <2>5. events' \in Seq(Event)
      BY <2>1, <2>2, <2>4
    <2> QED
      BY <1>1, <2>5 DEF TypeOK, StreamLists, list, shown, calls, counters, history
  <1>2. CASE StreamSubscribes
    BY <1>2 DEF TypeOK, StreamSubscribes, list, shown, calls, counters, history
  <1> QED
    BY <1>1, <1>2

LEMMA ElsewhereTypes == ASSUME TypeOK, load' = load, Elsewhere PROVE TypeOK'
  <1>1. PICK i \in Ids : \/ Becomes(i, Fresh)
                         \/ i \in Live /\ Becomes(i, Flipped(session[i]))
                         \/ BecomesQuietly(i, Gone)
    BY DEF Elsewhere
  <1>2. i \in Live => Flipped(session[i]) \in Snapshot
    BY LiveHasSnapshot, SnapshotFacts
  <1>3. /\ session' \in [Ids -> Snapshot \cup {None, Gone}]
        /\ events' \in Seq(Event) /\ missed' \subseteq Ids /\ stream' = stream
    BY <1>1, <1>2, SnapshotFacts, BecomesTypes
  <1> QED
    BY <1>3 DEF TypeOK, Elsewhere, list, shown, calls, history

LEMMA ListReadTypes == ASSUME TypeOK, load' = load, ListRead PROVE TypeOK'
  <1>1. PICK s \in SetToSeqs(Live) : listing' = [ids |-> s, snap |-> session]
    BY DEF ListRead
  <1>2. s \in Seq(Ids)
    BY LiveRows DEF IsRow
  <1>3. listing' \in Listing
    BY <1>1, <1>2 DEF TypeOK, Listing
  <1> QED
    BY <1>3 DEF TypeOK, ListRead, daemon, shown, calls, counters, history

LEMMA CreateServedTypes ==
    ASSUME TypeOK, load' = load, NEW c \in Creates, CreateServed(c) \/ CreateRefused(c)
    PROVE  TypeOK'
  <1>1. CASE CreateServed(c)
    <2>1. PICK i \in Ids : /\ Becomes(i, Fresh)
                           /\ create' = [create EXCEPT ![c].pc = "made", ![c].id = i]
      BY <1>1 DEF CreateServed
    <2>2. /\ session' \in [Ids -> Snapshot \cup {None, Gone}]
          /\ events' \in Seq(Event) /\ missed' \subseteq Ids /\ stream' = stream
      BY <2>1, SnapshotFacts, BecomesTypes
    <2>3. create' \in [Creates -> Create]
      <3>1. create[c] \in Create
        BY DEF TypeOK
      <3>2. [create[c] EXCEPT !.pc = "made", !.id = i] \in Create
        BY <3>1 DEF Create
      <3>3. create' = [create EXCEPT ![c] = [create[c] EXCEPT !.pc = "made", !.id = i]]
        BY <2>1, <3>1 DEF TypeOK, Create
      <3> QED
        BY <3>2, <3>3 DEF TypeOK
    <2> QED
      BY <1>1, <2>2, <2>3 DEF TypeOK, CreateServed, list, shown, counters, history
  <1>2. CASE CreateRefused(c)
    <2>1. create' \in [Creates -> Create]
      BY <1>2 DEF TypeOK, CreateRefused, Create
    <2> QED
      BY <1>2, <2>1 DEF TypeOK, CreateRefused, daemon, list, shown, history
  <1> QED
    BY <1>1, <1>2

\* What a request does to a session, and what is answered.
Answer(i) ==
    CASE request[i].kind = "present" -> [session[i] EXCEPT !.pres = request[i].to.pres]
      [] request[i].kind = "rename" -> [session[i] EXCEPT !.label = request[i].to.label]
      [] OTHER -> request[i].to

\* A request is served, or refused when the session is gone.
LEMMA ServedIs ==
    ASSUME TypeOK, NEW i \in Ids, RequestServed(i)
    PROVE  /\ request[i] # None /\ request[i] \in Request /\ request[i].pc = "sent"
           /\ \/ /\ i \notin Live
                 /\ request' = [request EXCEPT ![i].pc = "refused"] /\ UNCHANGED daemon
              \/ /\ i \in Live /\ Answer(i) \in Snapshot
                 /\ request' = [request EXCEPT ![i].pc = "served", ![i].to = Answer(i)]
                 /\ \/ request[i].kind = "present" /\ Becomes(i, Answer(i))
                    \/ request[i].kind = "rename" /\ BecomesQuietly(i, Answer(i))
                    \/ request[i].kind \in {"stop", "close"} /\ BecomesQuietly(i, Gone)
  <1>1. request[i] # None /\ request[i] \in Request /\ request[i].pc = "sent"
    BY DEF RequestServed, TypeOK
  <1>2. request[i].to \in Snapshot /\ request[i].kind \in {"present", "rename", "stop", "close"}
    BY <1>1 DEF Request
  <1>3. CASE i \notin Live
    BY <1>1, <1>3 DEF RequestServed
  <1>4. CASE i \in Live
    <2>1. session[i] \in Snapshot
      BY <1>4, LiveHasSnapshot
    <2>2. Answer(i) \in Snapshot
      BY <1>2, <2>1, SnapshotFacts DEF Answer
    <2>3. request' = [request EXCEPT ![i].pc = "served", ![i].to = Answer(i)]
      BY <1>4 DEF RequestServed, Answer
    <2>4. \/ request[i].kind = "present" /\ Becomes(i, Answer(i))
          \/ request[i].kind = "rename" /\ BecomesQuietly(i, Answer(i))
          \/ request[i].kind \in {"stop", "close"} /\ BecomesQuietly(i, Gone)
      BY <1>2, <1>4 DEF RequestServed, Answer
    <2> QED
      BY <1>1, <1>4, <2>2, <2>3, <2>4
  <1> QED
    BY <1>3, <1>4

LEMMA RequestServedTypes == ASSUME TypeOK, load' = load, NEW i \in Ids, RequestServed(i) PROVE TypeOK'
  <1>1. request[i] \in Request
    BY ServedIs
  <1>2. CASE i \notin Live
    <2>1. request' = [request EXCEPT ![i].pc = "refused"] /\ UNCHANGED daemon
      BY <1>2, ServedIs
    <2>2. request' \in [Ids -> Request \cup {None}]
      BY <1>1, <2>1 DEF TypeOK, Request
    <2> QED
      BY <2>1, <2>2 DEF TypeOK, RequestServed, daemon, list, shown, calls, counters, history
  <1>3. CASE i \in Live
    <2>1. /\ Answer(i) \in Snapshot
          /\ request' = [request EXCEPT ![i].pc = "served", ![i].to = Answer(i)]
          /\ Becomes(i, Answer(i)) \/ BecomesQuietly(i, Answer(i)) \/ BecomesQuietly(i, Gone)
      BY <1>3, ServedIs
    <2>2. request' \in [Ids -> Request \cup {None}]
      BY <1>1, <2>1 DEF TypeOK, Request
    <2>3. /\ session' \in [Ids -> Snapshot \cup {None, Gone}]
          /\ events' \in Seq(Event) /\ missed' \subseteq Ids /\ stream' = stream
      BY <2>1, BecomesTypes
    <2> QED
      BY <2>2, <2>3 DEF TypeOK, RequestServed, list, shown, calls, counters, history
  <1> QED
    BY <1>2, <1>3

-----------------------------------------------------------------------------
(* What a step does to the row of tabs *)

LEMMA TabsRow == ASSUME TypeOK, TabsInOrder PROVE IsRow(tabs)
  <1>1. DOMAIN tabs = 1 .. Len(tabs) /\ Len(tabs) \in Nat
    BY DEF TypeOK
  <1>2. \A m, n \in DOMAIN tabs : m # n => m < n \/ n < m
    BY <1>1
  <1> QED
    BY <1>2 DEF TabsInOrder, IsRow, TypeOK

\* A tab has a place and a state, with their types.
LEMMA TabTypes ==
    ASSUME TypeOK, TabsHave, NEW i, HasTab(i)
    PROVE  i \in Ids /\ order[i] \in Order /\ task[i] \in Task /\ task[i].snap \in Snapshot
  <1>1. i \in Ids
    BY TabsAreIds
  <1>2. order[i] \in Order /\ task[i] \in Task
    BY <1>1 DEF TabsHave, TypeOK
  <1> QED
    BY <1>1, <1>2 DEF Task

\* What leaves when a tab goes.
LEMMA RemovedIs ==
    ASSUME TypeOK, TabsInOrder, NEW i \in Ids, request[i] # None, Removed(i)
    PROVE  /\ IsRow(tabs') /\ ToSet(tabs') = ToSet(tabs) \ {i}
           /\ \A m, n \in DOMAIN tabs' : m < n => ~Before(order, tabs'[n], tabs'[m])
           /\ order' = [order EXCEPT ![i] = None] /\ order' \in [Ids -> Order \cup {None}]
           /\ task' = [task EXCEPT ![i] = None] /\ task' \in [Ids -> Task \cup {None}]
           /\ initialInput' = initialInput \ {i}
           /\ active' \in Ids \cup {Compose, None}
  <1>1. IsRow(tabs) /\ tabs \in Seq(Ids)
    BY TabsRow DEF TypeOK
  <1>2. tabs' = Without(tabs, {i})
    BY DEF Removed
  <1>3. /\ IsRow(tabs') /\ ToSet(tabs') = ToSet(tabs) \ {i}
        /\ \A m, n \in DOMAIN tabs' : m < n =>
              \E p, q \in DOMAIN tabs : p < q /\ tabs'[m] = tabs[p] /\ tabs'[n] = tabs[q]
    <2> DEFINE ids == {i}
               row == Without(tabs, ids)
    <2> HIDE DEF ids
    <2>1. /\ IsRow(row) /\ ToSet(row) = ToSet(tabs) \ ids
          /\ \A m, n \in DOMAIN row : m < n =>
                \E p, q \in DOMAIN tabs : p < q /\ row[m] = tabs[p] /\ row[n] = tabs[q]
      BY <1>1, WithoutIs
    <2> HIDE DEF row
    <2>2. tabs' = row
      BY <1>2 DEF row, ids
    <2> QED
      BY <2>1, <2>2 DEF ids
  <1>4. \A m, n \in DOMAIN tabs' : m < n => ~Before(order, tabs'[n], tabs'[m])
    BY <1>3 DEF TabsInOrder
  <1>5. request[i].next \in Ids \cup {Compose, None}
    BY DEF TypeOK, Request
  <1> QED
    BY <1>3, <1>4, <1>5 DEF Removed, TypeOK

\* What the list adds: its sessions that are not closed, behind nothing.
LEMMA ListArrivesIs ==
    ASSUME TypeOK, ListKnown, TabsHave, TabsInOrder, ListArrives
    PROVE  /\ IsRow(tabs') /\ ToSet(tabs) \subseteq ToSet(tabs')
           /\ \A i \in Ids \ ToSet(tabs) : i \in ToSet(tabs') => i \notin closedIds
           /\ \A m, n \in DOMAIN tabs' : m < n => ~Before(order', tabs'[n], tabs'[m])
           /\ order' \in [Ids -> Order \cup {None}] /\ task' \in [Ids -> Task \cup {None}]
           /\ \A i \in ToSet(tabs') : order'[i] # None /\ task'[i] # None
           /\ \A i \in Ids : order[i] # None => order'[i] = order[i]
           /\ \A i \in Ids : order'[i] = order[i] \/ order'[i].group = "attached"
           /\ \A i \in ToSet(tabs') :
                 \/ HasTab(i) /\ task'[i] = task[i]
                 \/ latest[i] # None => task'[i].snap.pres = latest[i].pres
           /\ \/ active' = active
              \/ \E i \in ToSet(tabs') : active' = i /\ order'[i].group = "attached"
  <1> DEFINE attached == Without(listing.ids, closedIds)
             said(i) == IF latest[i] # None THEN latest[i] ELSE listing.snap[i]
             place(i) == [group |-> "attached",
                          index |-> (CHOOSE n \in DOMAIN attached : attached[n] = i) - 1]
             rest == Without(tabs, ToSet(attached))
             row == attached \o rest
  <1>1. /\ order' = [i \in Ids |-> IF i \in ToSet(attached) /\ order[i] = None THEN place(i) ELSE order[i]]
        /\ tabs' = SortTasks(row, order')
        /\ task' = [i \in Ids |->
                      IF i \notin ToSet(attached) THEN task[i]
                      ELSE IF HasTab(i)
                      THEN [snap |-> [said(i) EXCEPT !.label = task[i].snap.label], state |-> "running"]
                      ELSE [snap |-> said(i), state |-> "running"]]
        /\ active' = ActivateFirstAttached(active, tabs', order', Pending)
    BY DEF ListArrives
  <1>2. /\ listing.ids \in Seq(Ids) /\ IsRow(listing.ids)
        /\ \A n \in DOMAIN listing.ids : listing.snap[listing.ids[n]] \in Snapshot
    BY DEF ListArrives, ListKnown, Listing, IsRow
  <1>3. /\ attached \in Seq(Ids) /\ IsRow(attached)
        /\ ToSet(attached) = ToSet(listing.ids) \ closedIds /\ ToSet(attached) \subseteq Ids
    BY <1>2, WithoutIs, RowHas
  <1>4. rest \in Seq(Ids) /\ IsRow(rest) /\ ToSet(rest) = ToSet(tabs) \ ToSet(attached)
    BY TabsRow, WithoutIs DEF TypeOK
  <1> HIDE DEF attached, rest
  <1>5. row \in Seq(Ids) /\ IsRow(row) /\ ToSet(row) = ToSet(attached) \cup ToSet(tabs)
    BY <1>3, <1>4, ConcatHas
  <1>6. \A i \in ToSet(attached) : place(i) \in Order
    <2> TAKE i \in ToSet(attached)
    <2> DEFINE at == CHOOSE n \in DOMAIN attached : attached[n] = i
    <2>1. at \in DOMAIN attached
      BY DEF ToSet
    <2>2. at - 1 \in Nat
      <3> HIDE DEF at
      <3> QED
        BY <1>3, <2>1
    <2> HIDE DEF at
    <2> QED
      BY <2>2 DEF Order, at
  <1>7. \A i \in ToSet(attached) : said(i) \in Snapshot
    BY <1>2, <1>3 DEF TypeOK, ToSet
  <1> HIDE DEF place, said, row
  <1>8. /\ order' \in [Ids -> Order \cup {None}]
        /\ \A i \in Ids : order[i] # None => order'[i] = order[i]
        /\ \A i \in ToSet(row) : order'[i] \in Order
    <2>1. \A i \in ToSet(row) : i \in Ids /\ (i \notin ToSet(attached) => order[i] # None)
      BY <1>5, RowHas, TabsAreIds DEF TabsHave, HasTab
    <2> QED
      BY <1>1, <1>6, <2>1 DEF TypeOK
  <1>9. \A i \in Ids : order'[i] = order[i] \/ order'[i].group = "attached"
    BY <1>1 DEF place
  <1>10. /\ tabs' \in Seq(Ids) /\ IsRow(tabs') /\ ToSet(tabs') = ToSet(row)
         /\ \A m, n \in DOMAIN tabs' : m < n => ~Before(order', tabs'[n], tabs'[m])
    <2>1. \A n \in DOMAIN row : order'[row[n]] \in Order
      BY <1>8 DEF ToSet
    <2> DEFINE sorted == SortTasks(row, order')
    <2>2. /\ sorted \in Seq(Ids) /\ IsRow(sorted) /\ ToSet(sorted) = ToSet(row)
          /\ \A m, n \in DOMAIN sorted : m < n => ~Before(order', sorted[n], sorted[m])
      BY <1>5, <2>1, SortTasksIs
    <2> HIDE DEF sorted
    <2>3. tabs' = sorted
      BY <1>1 DEF sorted
    <2> QED
      BY <2>2, <2>3
  <1>11. \A i \in ToSet(attached) :
            /\ i \in Ids /\ task'[i] \in Task /\ task'[i] # None
            /\ latest[i] # None => task'[i].snap.pres = latest[i].pres
    <2> TAKE i \in ToSet(attached)
    <2>1. i \in Ids /\ said(i) \in Snapshot /\ (latest[i] # None => said(i) = latest[i])
      BY <1>3, <1>7 DEF said
    <2>2. CASE HasTab(i)
      <3>1. task[i].snap \in Snapshot
        BY <2>2, TabTypes
      <3> DEFINE snap == [said(i) EXCEPT !.label = task[i].snap.label]
      <3>2. task'[i] = [snap |-> snap, state |-> "running"]
        BY <1>1, <2>1, <2>2
      <3>3. snap \in Snapshot
        BY <2>1, <3>1, SnapshotFacts
      <3>4. snap.pres = said(i).pres
        BY <2>1 DEF Snapshot
      <3> HIDE DEF snap
      <3>5. task'[i] \in Task
        BY <3>2, <3>3 DEF Task
      <3>6. task'[i].snap.pres = said(i).pres /\ task'[i] # None
        BY <3>2, <3>5, <3>4, NoneAssumption
      <3> QED
        BY <2>1, <3>5, <3>6
    <2>3. CASE ~HasTab(i)
      <3>1. task'[i] = [snap |-> said(i), state |-> "running"]
        BY <1>1, <2>1, <2>3
      <3>2. task'[i] \in Task
        BY <2>1, <3>1 DEF Task
      <3> QED
        BY <2>1, <3>1, <3>2, NoneAssumption
    <2> QED
      BY <2>2, <2>3
  <1>12. \A i \in Ids : i \notin ToSet(attached) => task'[i] = task[i]
    BY <1>1
  <1>13. task' \in [Ids -> Task \cup {None}]
    <2>1. task' = [i \in Ids |-> task'[i]]
      BY <1>1
    <2>2. \A i \in Ids : task'[i] \in Task \cup {None}
      BY <1>11, <1>12 DEF TypeOK
    <2> QED
      BY <2>1, <2>2
  <1>14. \A i \in ToSet(tabs') : /\ i \in Ids /\ order'[i] # None /\ task'[i] # None
                                 /\ \/ HasTab(i) /\ task'[i] = task[i]
                                    \/ latest[i] # None => task'[i].snap.pres = latest[i].pres
    <2>1. \A i \in ToSet(row) : i \in Ids /\ order'[i] # None
      BY <1>5, <1>8, RowHas, NoneAssumption
    <2>2. \A i \in ToSet(row) \ ToSet(attached) : HasTab(i) /\ task'[i] = task[i] /\ task[i] # None
      BY <1>5, <1>12, <2>1 DEF HasTab, TabsHave
    <2> QED
      BY <1>10, <1>11, <2>1, <2>2
  <1>15. \/ active' = active
         \/ \E i \in ToSet(tabs') : active' = i /\ order'[i].group = "attached"
    <2> DEFINE chosen == ActivateFirstAttached(active, tabs', order', Pending)
    <2>1. \/ chosen = active
          \/ \E n \in DOMAIN tabs' : chosen = tabs'[n] /\ order'[tabs'[n]].group = "attached"
      BY <1>10, ActivateIs
    <2> HIDE DEF chosen
    <2>2. active' = chosen
      BY <1>1 DEF chosen
    <2> QED
      BY <2>1, <2>2 DEF ToSet
  <1> QED
    BY <1>3, <1>5, <1>8, <1>9, <1>10, <1>13, <1>14, <1>15

\* What an event adds: a tab of its session, unless the dock closes it.
LEMMA EventArrivesIs ==
    ASSUME TypeOK, TabsHave, TabsInOrder, NEW e \in Event, e = Head(events), EventArrives
    PROVE  /\ IsRow(tabs')
           /\ ToSet(tabs') = IF e.id \in closedIds THEN ToSet(tabs) ELSE ToSet(tabs) \cup {e.id}
           /\ \A m, n \in DOMAIN tabs' : m < n => ~Before(order', tabs'[n], tabs'[m])
           /\ order' \in [Ids -> Order \cup {None}] /\ task' \in [Ids -> Task \cup {None}]
           /\ \A i \in ToSet(tabs') : order'[i] # None /\ task'[i] # None
           /\ \A i \in Ids : order[i] # None => order'[i] = order[i]
           /\ \A i \in Ids : i # e.id => task'[i] = task[i]
           /\ HasTab(e.id)' => task'[e.id].snap = e.snap
  <1> DEFINE place == [group |-> "attached", index |-> Cardinality(Orders(order))]
             o == IF order[e.id] # None THEN order ELSE [order EXCEPT ![e.id] = place]
             shows == [snap |-> e.snap, state |-> "running"]
             row == Append(tabs, e.id)
  <1>1. e.id \in Ids /\ e.snap \in Snapshot /\ IsRow(tabs) /\ tabs \in Seq(Ids)
    BY TabsRow DEF Event, TypeOK
  <1>2. place \in Order
    <2>1. IsFiniteSet(Orders(order))
      BY NoneAssumption, FS_Subset DEF Orders
    <2>2. Cardinality(Orders(order)) \in Nat
      BY <2>1, FS_CardinalityType
    <2> QED
      BY <2>2 DEF Order
  <1>3. shows \in Task /\ shows # None
    BY <1>1, NoneAssumption DEF Task
  <1>4. /\ IF HasTab(e.id) \/ e.id \notin closedIds
           THEN task' = [task EXCEPT ![e.id] = shows] ELSE task' = task
        /\ IF ~HasTab(e.id) /\ e.id \notin closedIds
           THEN order' = o /\ tabs' = SortTasks(row, o)
           ELSE tabs' = tabs /\ order' = order
    BY DEF EventArrives
  <1> HIDE DEF place, shows
  <1>5. /\ task' \in [Ids -> Task \cup {None}]
        /\ \A i \in Ids : i # e.id => task'[i] = task[i]
        /\ HasTab(e.id) \/ e.id \notin closedIds => task'[e.id] = shows
    BY <1>1, <1>3, <1>4 DEF TypeOK
  <1>6. shows.snap = e.snap
    BY DEF shows
  <1>7. CASE ~HasTab(e.id) /\ e.id \notin closedIds
    <2>1. /\ o \in [Ids -> Order \cup {None}] /\ o[e.id] # None
          /\ \A i \in Ids : order[i] # None => o[i] = order[i]
      BY <1>1, <1>2, NoneAssumption DEF TypeOK
    <2> HIDE DEF o
    <2>2. row \in Seq(Ids) /\ IsRow(row) /\ ToSet(row) = ToSet(tabs) \cup {e.id}
      BY <1>1, <1>7, AppendHas DEF HasTab
    <2> HIDE DEF row
    <2>3. \A i \in ToSet(row) : i \in Ids /\ o[i] \in Order /\ task'[i] # None
      BY <1>1, <1>3, <1>5, <1>7, <2>1, <2>2, TabsAreIds DEF TabsHave, HasTab
    <2>4. \A n \in DOMAIN row : o[row[n]] \in Order
      BY <2>3 DEF ToSet
    <2>5. /\ IsRow(tabs') /\ ToSet(tabs') = ToSet(row) /\ order' = o
          /\ \A m, n \in DOMAIN tabs' : m < n => ~Before(o, tabs'[n], tabs'[m])
      BY <1>4, <1>7, <2>2, <2>4, SortTasksIs
    <2> QED
      BY <1>5, <1>6, <1>7, <2>1, <2>2, <2>3, <2>5, NoneAssumption
  <1>8. CASE ~(~HasTab(e.id) /\ e.id \notin closedIds)
    <2>1. tabs' = tabs /\ order' = order
      BY <1>4, <1>8
    <2>2. \A m, n \in DOMAIN tabs : m < n => ~Before(order, tabs[n], tabs[m])
      BY DEF TabsInOrder
    <2>3. \A i \in ToSet(tabs) : i \in Ids /\ order[i] # None /\ task[i] # None
      BY TabsAreIds DEF TabsHave, HasTab
    <2>4. \A i \in ToSet(tabs) : task'[i] # None
      BY <1>3, <1>5, <2>3 DEF HasTab
    <2>5. HasTab(e.id)' <=> HasTab(e.id)
      BY <2>1 DEF HasTab
    <2>6. e.id \notin closedIds => e.id \in ToSet(tabs)
      BY <1>8 DEF HasTab
    <2> QED
      BY <1>1, <1>5, <1>6, <2>1, <2>2, <2>3, <2>4, <2>5, <2>6 DEF TypeOK
  <1> QED
    BY <1>7, <1>8

\* What the choice of a tab comes to when a create ends.
LEMMA CreateEndsIs ==
    ASSUME NEW c, NEW now, NEW ts \in Seq(Ids), NEW o, CreateEnds(c, now, ts, o)
    PROVE  active' = now \/ \E i \in ToSet(ts) : active' = i /\ o[i].group = "attached"
  <1> DEFINE pending == Pending \ {c}
             chosen == ActivateFirstAttached(now, ts, o, pending)
  <1> HIDE DEF pending
  <1>1. \/ chosen = now
        \/ \E n \in DOMAIN ts : chosen = ts[n] /\ o[ts[n]].group = "attached"
    BY ActivateIs
  <1> HIDE DEF chosen
  <1>2. active' = chosen
    BY DEF CreateEnds, chosen, pending
  <1> QED
    BY <1>1, <1>2 DEF ToSet

\* What the answer of a create adds: its tab, among the created ones, unless it
\* has been closed.
LEMMA CreateAnsweredIs ==
    ASSUME TypeOK, CreatesApart, TabsHave, TabsInOrder, NEW c \in Creates, CreateAnswered(c)
    PROVE  LET i == create[c].id IN
           /\ create[c].pc = "made" /\ i \in Ids
           /\ \/ i \in closedIds /\ UNCHANGED <<initialInput, shown, overwritten>>
              \/ /\ i \notin closedIds
                 /\ IsRow(tabs') /\ ToSet(tabs') = ToSet(tabs) \cup {i}
                 /\ \A m, n \in DOMAIN tabs' : m < n => ~Before(order', tabs'[n], tabs'[m])
                 /\ order' = [order EXCEPT ![i] = [group |-> "created", index |-> create[c].seq]]
                 /\ order' \in [Ids -> Order \cup {None}]
                 /\ task' = [task EXCEPT ![i] = [snap |-> Fresh, state |-> "running"]]
                 /\ task' \in [Ids -> Task \cup {None}]
                 /\ \A j \in ToSet(tabs') : order'[j] # None /\ task'[j] # None
                 /\ initialInput' = IF c \in load.commands THEN initialInput \cup {i} ELSE initialInput
                 /\ Overwritten(i, Fresh)
           /\ \/ active' = active
              \/ active' = i /\ c \notin load.background
              \/ \E j \in ToSet(tabs') : active' = j /\ order'[j].group = "attached"
  <1> DEFINE i == create[c].id
             place == [group |-> "created", index |-> create[c].seq]
             shows == [snap |-> Fresh, state |-> "running"]
             now == IF c \notin load.background /\ latestForeground = create[c].seq THEN i ELSE active
  <1>1. create[c].pc = "made" /\ i \in Ids /\ create[c].seq \in Nat
    BY DEF CreateAnswered, CreatesApart, TypeOK, Create
  <1>2. tabs \in Seq(Ids) /\ IsRow(tabs)
    BY TabsRow DEF TypeOK
  <1>3. CASE i \in closedIds
    <2>1. CreateEnds(c, active, tabs, order) /\ UNCHANGED <<initialInput, shown, overwritten>>
      BY <1>3 DEF CreateAnswered, NotCreated
    <2>2. active' = active \/ \E j \in ToSet(tabs) : active' = j /\ order[j].group = "attached"
      BY <1>2, <2>1, CreateEndsIs
    <2>3. tabs' = tabs /\ order' = order
      BY <2>1 DEF shown
    <2> QED
      BY <1>1, <1>3, <2>1, <2>2, <2>3
  <1>4. CASE i \notin closedIds
    <2> DEFINE ids == {i}
               rest == Without(tabs, ids)
               row == Append(rest, i)
    <2>1. /\ order' = [order EXCEPT ![i] = place]
          /\ tabs' = SortTasks(row, order')
          /\ task' = [task EXCEPT ![i] = shows]
          /\ initialInput' = IF c \in load.commands THEN initialInput \cup {i} ELSE initialInput
          /\ Overwritten(i, Fresh)
          /\ CreateEnds(c, now, tabs', order')
      BY <1>4 DEF CreateAnswered, Created, Reordered, WithTab
    <2> HIDE DEF ids
    <2>2. rest \in Seq(Ids) /\ IsRow(rest) /\ ToSet(rest) = ToSet(tabs) \ ids
      BY <1>2, WithoutIs
    <2> HIDE DEF rest
    <2>3. i \notin ToSet(rest) /\ ToSet(rest) \cup {i} = ToSet(tabs) \cup {i}
      BY <2>2 DEF ids
    <2> HIDE DEF i
    <2>4. row \in Seq(Ids) /\ IsRow(row) /\ ToSet(row) = ToSet(tabs) \cup {i}
      BY <1>1, <2>2, <2>3, AppendHas
    <2> HIDE DEF row
    <2>5. place \in Order /\ shows \in Task
      BY <1>1, SnapshotFacts DEF Order, Task, i
    <2> HIDE DEF place, shows
    <2>6. /\ order' \in [Ids -> Order \cup {None}] /\ order'[i] = place
          /\ task' \in [Ids -> Task \cup {None}] /\ task'[i] = shows
          /\ \A j \in Ids : j # i => order'[j] = order[j] /\ task'[j] = task[j]
      BY <1>1, <2>1, <2>5 DEF TypeOK
    <2>7. \A j \in ToSet(row) : j \in Ids /\ order'[j] \in Order /\ order'[j] # None /\ task'[j] # None
      BY <1>1, <2>4, <2>5, <2>6, TabTypes, NoneAssumption DEF HasTab
    <2>8. \A n \in DOMAIN row : order'[row[n]] \in Order
      BY <2>7 DEF ToSet
    <2> DEFINE sorted == SortTasks(row, order')
    <2>9. /\ sorted \in Seq(Ids) /\ IsRow(sorted) /\ ToSet(sorted) = ToSet(row)
          /\ \A m, n \in DOMAIN sorted : m < n => ~Before(order', sorted[n], sorted[m])
      BY <2>4, <2>8, SortTasksIs
    <2> HIDE DEF sorted
    <2>10. tabs' = sorted
      BY <2>1 DEF sorted
    <2>11. active' = now \/ \E j \in ToSet(tabs') : active' = j /\ order'[j].group = "attached"
      BY <2>1, <2>9, <2>10, CreateEndsIs
    <2>12. \/ now = active
           \/ now = i /\ c \notin load.background
      <3>1. CASE c \notin load.background /\ latestForeground = create[c].seq
        BY <3>1
      <3>2. CASE ~(c \notin load.background /\ latestForeground = create[c].seq)
        BY <3>2
      <3> QED
        BY <3>1, <3>2
    <2> HIDE DEF now
    <2>13. \/ active' = active
           \/ active' = i /\ c \notin load.background
           \/ \E j \in ToSet(tabs') : active' = j /\ order'[j].group = "attached"
      BY <2>11, <2>12
    <2> QED
      BY <1>1, <1>4, <2>1, <2>4, <2>6, <2>7, <2>9, <2>10, <2>13 DEF i, place, shows
  <1> QED
    BY <1>3, <1>4

-----------------------------------------------------------------------------
(* Types of the steps that meet tabs *)

LEMMA ListArrivesTypes ==
    ASSUME TypeOK, ListKnown, TabsHave, TabsInOrder, load' = load, ListArrives
    PROVE  TypeOK'
  <1>1. /\ IsRow(tabs')
        /\ order' \in [Ids -> Order \cup {None}] /\ task' \in [Ids -> Task \cup {None}]
        /\ active' = active \/ \E i \in ToSet(tabs') : active' = i
    BY ListArrivesIs
  <1>2. tabs' \in Seq(Ids) /\ active' \in Ids \cup {Compose, None}
    BY <1>1, RowHas DEF IsRow, TypeOK
  <1> QED
    BY <1>1, <1>2 DEF TypeOK, ListArrives, daemon, calls, counters, history

LEMMA HeadFacts ==
    ASSUME TypeOK, events # <<>>
    PROVE  /\ Head(events) \in Event /\ Tail(events) \in Seq(Event)
           /\ Head(events) = events[1] /\ 1 \in DOMAIN events
           /\ Len(Tail(events)) = Len(events) - 1 /\ Len(events) \in Nat /\ Len(events) > 0
           /\ \A n \in 1 .. Len(events) - 1 : Tail(events)[n] = events[n + 1]
  BY DEF TypeOK

LEMMA EventArrivesTypes ==
    ASSUME TypeOK, TabsHave, TabsInOrder, load' = load, EventArrives
    PROVE  TypeOK'
  <1> DEFINE e == Head(events)
  <1>1. e \in Event /\ Tail(events) \in Seq(Event)
    BY HeadFacts DEF EventArrives
  <1>2. e.id \in Ids /\ e.snap \in Snapshot
    BY <1>1 DEF Event
  <1>3. /\ IsRow(tabs')
        /\ order' \in [Ids -> Order \cup {None}] /\ task' \in [Ids -> Task \cup {None}]
    BY <1>1, EventArrivesIs
  <1>4. /\ events' = Tail(events) /\ revision' = [revision EXCEPT ![e.id] = @ + 1]
        /\ latest' = [latest EXCEPT ![e.id] = e.snap] /\ overwritten' = overwritten \ {e.id}
    BY DEF EventArrives
  <1> HIDE DEF e
  <1>5. /\ revision' \in [Ids -> Nat] /\ latest' \in [Ids -> Snapshot \cup {None}]
        /\ overwritten' \subseteq Ids /\ events' \in Seq(Event)
    BY <1>1, <1>2, <1>4 DEF TypeOK
  <1> QED
    BY <1>3, <1>5 DEF TypeOK, EventArrives, IsRow, list, calls, counters

LEMMA CallCreateTypes ==
    ASSUME TypeOK, load' = load, NEW c \in Creates, CallCreate(c)
    PROVE  TypeOK'
  <1>1. create[c] \in Create /\ sequence + 1 \in Nat
    BY DEF TypeOK
  <1> DEFINE call == [create[c] EXCEPT !.pc = "sent", !.seq = sequence + 1]
  <1>2. call \in Create
    BY <1>1 DEF Create
  <1>3. create' = [create EXCEPT ![c] = call]
    BY <1>1 DEF CallCreate, TypeOK, Create
  <1> HIDE DEF call
  <1>4. create' \in [Creates -> Create]
    BY <1>2, <1>3 DEF TypeOK
  <1>5. sequence' \in Nat /\ latestForeground' \in Nat
    BY DEF CallCreate, TypeOK
  <1> QED
    BY <1>4, <1>5 DEF TypeOK, CallCreate, daemon, list, shown, counters, history

\* The record of a create that has ended.
LEMMA EndedIs ==
    ASSUME TypeOK, NEW c \in Creates, NEW ok \in BOOLEAN,
           create' = [create EXCEPT ![c].pc = "done", ![c].ok = ok]
    PROVE  /\ create' \in [Creates -> Create]
           /\ create'[c].pc = "done" /\ create'[c].ok = ok
           /\ create'[c].id = create[c].id /\ create'[c].seq = create[c].seq
           /\ \A d \in Creates : d # c => create'[d] = create[d]
  <1>1. create[c] \in Create
    BY DEF TypeOK
  <1> DEFINE ended == [create[c] EXCEPT !.pc = "done", !.ok = ok]
  <1>2. /\ ended \in Create /\ ended.pc = "done" /\ ended.ok = ok
        /\ ended.id = create[c].id /\ ended.seq = create[c].seq
    BY <1>1 DEF Create
  <1>3. create' = [create EXCEPT ![c] = ended]
    BY <1>1 DEF TypeOK, Create
  <1> HIDE DEF ended
  <1> QED
    BY <1>2, <1>3 DEF TypeOK

LEMMA CreateAnsweredTypes ==
    ASSUME TypeOK, CreatesApart, TabsHave, TabsInOrder, load' = load,
           NEW c \in Creates, CreateAnswered(c)
    PROVE  TypeOK'
  <1>1. create' \in [Creates -> Create]
    <2>1. create' = [create EXCEPT ![c].pc = "done", ![c].ok = (create[c].id \notin closedIds)]
      BY DEF CreateAnswered
    <2> QED
      BY <2>1, EndedIs
  <1> DEFINE i == create[c].id
  <1>2. i \in Ids
    BY CreateAnsweredIs
  <1>3. \/ UNCHANGED <<initialInput, shown, overwritten>>
        \/ /\ IsRow(tabs')
           /\ order' \in [Ids -> Order \cup {None}] /\ task' \in [Ids -> Task \cup {None}]
           /\ initialInput' \in {initialInput, initialInput \cup {i}}
           /\ Overwritten(i, Fresh)
    BY CreateAnsweredIs
  <1>4. /\ tabs' \in Seq(Ids)
        /\ order' \in [Ids -> Order \cup {None}] /\ task' \in [Ids -> Task \cup {None}]
        /\ initialInput' \subseteq Ids /\ overwritten' \subseteq Ids
    BY <1>2, <1>3 DEF TypeOK, shown, IsRow, Overwritten
  <1>5. active' \in Ids \cup {Compose, None}
    <2>1. \/ active' = active
          \/ active' = i
          \/ \E j \in ToSet(tabs') : active' = j
      BY CreateAnsweredIs
    <2> QED
      BY <1>2, <1>4, <2>1, RowHas DEF TypeOK
  <1> QED
    BY <1>1, <1>4, <1>5 DEF TypeOK, CreateAnswered, daemon, list, counters

LEMMA CreateFailsTypes ==
    ASSUME TypeOK, load' = load, NEW c \in Creates, CreateFails(c)
    PROVE  TypeOK'
  <1>1. create' \in [Creates -> Create]
    <2>1. create[c] \in Create /\ create' = [create EXCEPT ![c].pc = "done"]
      BY DEF CreateFails, TypeOK
    <2> QED
      BY <2>1 DEF TypeOK, Create
  <1>2. active' \in Ids \cup {Compose, None}
    <2>1. CreateEnds(c, active, tabs, order) /\ tabs \in Seq(Ids)
      BY DEF CreateFails, TypeOK
    <2>2. active' = active \/ \E j \in ToSet(tabs) : active' = j
      BY <2>1, CreateEndsIs
    <2> QED
      BY <2>2, TabsAreIds DEF TypeOK
  <1> QED
    BY <1>1, <1>2 DEF TypeOK, CreateFails, daemon, list, shown, history

LEMMA ListFailsTypes == ASSUME TypeOK, load' = load, ListFails PROVE TypeOK'
  BY DEF TypeOK, ListFails, daemon, shown, calls, history

\* A request on its way, and one that is made.
LEMMA RequestFacts ==
    ASSUME TypeOK, NEW i \in Ids, request[i] # None
    PROVE  /\ request[i] \in Request /\ request[i].to \in Snapshot /\ request[i].rev \in Nat
           /\ request[i].next \in Ids \cup {Compose, None}
           /\ request[i].kind \in {"present", "rename", "stop", "close"}
           /\ request[i].pc \in {"sent", "served", "refused"}
  BY DEF TypeOK, Request

LEMMA AsksIs ==
    ASSUME TypeOK, NEW i, NEW kind, NEW to \in Snapshot, NEW next \in Ids \cup {Compose, None},
           kind \in {"present", "rename", "stop", "close"}, Asks(i, kind, to, next)
    PROVE  /\ i \in Ids /\ HasTab(i) /\ request[i] = None
           /\ request' \in [Ids -> Request \cup {None}]
           /\ request'[i] # None
           /\ request'[i].kind = kind /\ request'[i].pc = "sent" /\ request'[i].rev = revision[i]
           /\ \A j \in Ids : j # i => request'[j] = request[j]
  <1> DEFINE made == [kind |-> kind, pc |-> "sent", to |-> to, rev |-> revision[i], next |-> next]
  <1>1. i \in Ids /\ HasTab(i) /\ request[i] = None
    BY TabsAreIds DEF Asks
  <1>2. made \in Request
    BY <1>1 DEF Request, TypeOK
  <1>3. request' = [request EXCEPT ![i] = made]
    BY DEF Asks
  <1>4. made.kind = kind /\ made.pc = "sent" /\ made.rev = revision[i]
    OBVIOUS
  <1> HIDE DEF made
  <1>5. request'[i] = made
    BY <1>1, <1>3 DEF TypeOK
  <1> QED
    BY <1>1, <1>2, <1>3, <1>4, <1>5, NoneAssumption DEF TypeOK

LEMMA ReplacementIs ==
    ASSUME TypeOK, NEW i, HasTab(i)
    PROVE  Replacement(i) \in Ids \cup {Compose, None}
  <1> DEFINE ids == {i}
             remaining == Without(tabs, ids)
             at == CHOOSE n \in DOMAIN tabs : tabs[n] = i
  <1> HIDE DEF ids
  <1>1. remaining \in Seq(Ids)
    BY WithoutIs DEF TypeOK
  <1>2. at \in 1 .. Len(tabs)
    <2>1. at \in DOMAIN tabs
      BY DEF HasTab, ToSet
    <2> QED
      BY <2>1 DEF TypeOK
  <1>3. Replacement(i) = IF remaining = <<>> THEN (IF active = Compose THEN Compose ELSE None)
                         ELSE remaining[IF at <= Len(remaining) THEN at ELSE Len(remaining)]
    BY DEF Replacement, ids
  <1> HIDE DEF remaining, at
  <1>4. ASSUME remaining # <<>>
        PROVE  remaining[IF at <= Len(remaining) THEN at ELSE Len(remaining)] \in Ids
    <2>1. Len(remaining) \in Nat /\ Len(remaining) >= 1
      BY <1>1, <1>4
    <2>2. (IF at <= Len(remaining) THEN at ELSE Len(remaining)) \in 1 .. Len(remaining)
      BY <1>2, <2>1
    <2> QED
      BY <1>1, <2>2
  <1> QED
    BY <1>3, <1>4

\* The person asks; a rename is shown at once.
LEMMA AskTypes ==
    ASSUME TypeOK, TabsHave, load' = load, NEW i \in Ids,
           AskPresentation(i) \/ AskRename(i) \/ AskStop(i) \/ AskClose(i)
    PROVE  /\ TypeOK'
           /\ HasTab(i) /\ request[i] = None
           /\ request'[i] # None /\ request'[i].pc = "sent" /\ request'[i].rev = revision[i]
           /\ \A j \in Ids : j # i => request'[j] = request[j]
           /\ \/ request'[i].kind = "close" /\ closedIds' = closedIds \cup {i}
              \/ request'[i].kind # "close" /\ closedIds' = closedIds
           /\ \A j \in Ids : \/ task'[j] = task[j]
                             \/ task'[j] # None /\ task'[j].snap.pres = task[j].snap.pres
  <1>1. task[i] \in Task /\ task[i].snap \in Snapshot /\ HasTab(i)
    <2>1. HasTab(i)
      BY DEF AskPresentation, AskRename, AskStop, AskClose
    <2> QED
      BY <2>1, TabTypes
  <1> DEFINE Made(kind) ==
               /\ request[i] = None
               /\ request' \in [Ids -> Request \cup {None}]
               /\ request'[i] # None
               /\ request'[i].kind = kind /\ request'[i].pc = "sent" /\ request'[i].rev = revision[i]
               /\ \A j \in Ids : j # i => request'[j] = request[j]
  <1>2. CASE AskPresentation(i)
    <2>1. Made("present")
      <3>1. Flipped(task[i].snap) \in Snapshot
        BY <1>1, SnapshotFacts
      <3> QED
        BY <1>2, <3>1, AsksIs DEF AskPresentation
    <2> QED
      BY <1>1, <1>2, <2>1 DEF TypeOK, AskPresentation, daemon, list, shown, calls, history
  <1>3. CASE AskRename(i)
    <2> DEFINE to == [task[i].snap EXCEPT !.label = 1 - @]
               shows == [task[i] EXCEPT !.snap = to]
    <2>1. to \in Snapshot /\ to.pres = task[i].snap.pres
      BY <1>1 DEF Snapshot
    <2>2. Asks(i, "rename", to, None) /\ task' = [task EXCEPT ![i].snap = to]
      BY <1>3 DEF AskRename
    <2> HIDE DEF to
    <2>3. Made("rename")
      BY <2>1, <2>2, AsksIs
    <2>4. shows \in Task /\ shows # None /\ shows.snap.pres = task[i].snap.pres
      BY <1>1, <2>1, NoneAssumption DEF Task
    <2>5. task' = [task EXCEPT ![i] = shows]
      BY <1>1, <2>2 DEF TypeOK, Task
    <2> HIDE DEF shows
    <2>6. /\ task' \in [Ids -> Task \cup {None}]
          /\ \A j \in Ids : \/ task'[j] = task[j]
                            \/ task'[j] # None /\ task'[j].snap.pres = task[j].snap.pres
      BY <2>4, <2>5 DEF TypeOK
    <2> QED
      BY <1>1, <1>3, <2>3, <2>6 DEF TypeOK, AskRename, daemon, list, calls, history
  <1>4. CASE AskStop(i)
    <2>1. Made("stop")
      BY <1>1, <1>4, AsksIs DEF AskStop
    <2> QED
      BY <1>1, <1>4, <2>1 DEF TypeOK, AskStop, daemon, list, shown, calls, history
  <1>5. CASE AskClose(i)
    <2>1. Made("close")
      BY <1>1, <1>5, AsksIs, ReplacementIs DEF AskClose
    <2>2. /\ closedIds' = closedIds \cup {i} /\ closedIds' \subseteq Ids
          /\ task' = task /\ tabs' = tabs /\ order' = order
      BY <1>5 DEF AskClose, TypeOK, shown
    <2>3. TypeOK'
      BY <1>5, <2>1, <2>2 DEF TypeOK, AskClose, daemon, list, calls, history
    <2>4. \A j \in Ids : task'[j] = task[j]
      BY <2>2
    <2>5. request'[i].kind = "close" /\ closedIds' = closedIds \cup {i}
      BY <2>1, <2>2
    <2> QED
      BY <1>1, <2>1, <2>3, <2>4, <2>5
  <1> QED
    BY <1>2, <1>3, <1>4, <1>5

\* The answers of a presentation, a rename and a stop: what the tab shows.
LEMMA AnsweredTypes ==
    ASSUME TypeOK, TabsHave, RequestsHaveTab, load' = load, NEW i \in Ids,
           PresentationAnswered(i) \/ RenameAnswered(i) \/ StopAnswered(i)
    PROVE  /\ TypeOK'
           /\ request[i] # None /\ request[i].kind # "close" /\ request[i].pc = "served"
           /\ request' = [request EXCEPT ![i] = None]
           /\ task[i] \in Task
           /\ \A j \in Ids : j # i => task'[j] = task[j]
           /\ task'[i] # None /\ task'[i].snap \in {task[i].snap, request[i].to}
  <1>1. /\ request[i] # None /\ request[i].kind # "close" /\ request[i].pc = "served"
        /\ request' = [request EXCEPT ![i] = None]
    BY DEF PresentationAnswered, RenameAnswered, StopAnswered
  <1>2. request[i].to \in Snapshot /\ task[i] \in Task /\ HasTab(i)
    BY <1>1, RequestFacts, TabTypes DEF RequestsHaveTab
  <1>3. request' \in [Ids -> Request \cup {None}]
    BY <1>1 DEF TypeOK
  <1> DEFINE shows == [task[i] EXCEPT !.snap = request[i].to, !.state = "running"]
             stopped == [task[i] EXCEPT !.state = "exited"]
  <1>4. /\ shows \in Task /\ shows.snap = request[i].to
        /\ stopped \in Task /\ stopped.snap = task[i].snap
    BY <1>2 DEF Task
  <1>5. task' = task \/ task' = [task EXCEPT ![i] = shows] \/ task' = [task EXCEPT ![i] = stopped]
    <2>1. task \in [Ids -> Task \cup {None}]
      BY DEF TypeOK
    <2>2. ASSUME task' = [task EXCEPT ![i].snap = request[i].to, ![i].state = "running"]
          PROVE  task' = [task EXCEPT ![i] = shows]
      BY <1>2, <2>1, <2>2 DEF Task
    <2>3. ASSUME task' = [task EXCEPT ![i].state = "exited"]
          PROVE  task' = [task EXCEPT ![i] = stopped]
      BY <1>2, <2>1, <2>3 DEF Task
    <2> QED
      BY <2>2, <2>3 DEF PresentationAnswered, RenameAnswered, StopAnswered
  <1> HIDE DEF shows, stopped
  <1>6. /\ task' \in [Ids -> Task \cup {None}]
        /\ \A j \in Ids : j # i => task'[j] = task[j]
        /\ task'[i] # None /\ task'[i].snap \in {task[i].snap, request[i].to}
    <2>1. task \in [Ids -> Task \cup {None}] /\ task[i] # None
      BY <1>2, NoneAssumption DEF TypeOK
    <2>2. shows # None /\ stopped # None
      BY <1>4, NoneAssumption
    <2>3. CASE task' = task
      BY <2>1, <2>3
    <2>4. CASE task' = [task EXCEPT ![i] = shows]
      BY <1>4, <2>1, <2>2, <2>4
    <2>5. CASE task' = [task EXCEPT ![i] = stopped]
      BY <1>4, <2>1, <2>2, <2>5
    <2> QED
      BY <1>5, <2>3, <2>4, <2>5
  <1>7. overwritten' \subseteq Ids
    BY DEF TypeOK, PresentationAnswered, RenameAnswered, StopAnswered, Overwritten, history
  <1>8. TypeOK'
    <2>1. UNCHANGED <<daemon, list, tabs, order, active, closedIds, revision, latest,
                      initialInput, calls, typed>>
      BY DEF PresentationAnswered, RenameAnswered, StopAnswered, history
    <2> QED
      BY <1>3, <1>6, <1>7, <2>1 DEF TypeOK, daemon, list, calls
  <1> QED
    BY <1>1, <1>2, <1>6, <1>8

LEMMA CloseAnsweredTypes ==
    ASSUME TypeOK, TabsInOrder, load' = load, NEW i \in Ids, CloseAnswered(i)
    PROVE  TypeOK'
  <1>1. Removed(i) /\ request[i] # None /\ request' = [request EXCEPT ![i] = None]
    BY DEF CloseAnswered
  <1>2. /\ IsRow(tabs')
        /\ order' \in [Ids -> Order \cup {None}] /\ task' \in [Ids -> Task \cup {None}]
        /\ initialInput' = initialInput \ {i} /\ active' \in Ids \cup {Compose, None}
    BY <1>1, RemovedIs
  <1>3. request' \in [Ids -> Request \cup {None}] /\ initialInput' \subseteq Ids
    BY <1>1, <1>2 DEF TypeOK
  <1> QED
    BY <1>2, <1>3 DEF TypeOK, CloseAnswered, IsRow, daemon, list, calls, counters, history

\* A request that fails takes the tab away, or leaves where it shows the session.
LEMMA RequestFailsTypes ==
    ASSUME TypeOK, TabsHave, TabsInOrder, RequestsHaveTab, load' = load,
           NEW i \in Ids, RequestFails(i)
    PROVE  /\ TypeOK'
           /\ request[i] # None /\ request' = [request EXCEPT ![i] = None]
           /\ \/ request[i].kind = "close" /\ Removed(i) /\ closedIds' = closedIds
              \/ /\ UNCHANGED <<tabs, order, initialInput, active>>
                 /\ closedIds' = IF request[i].kind = "close" THEN closedIds \ {i} ELSE closedIds
                 /\ \A j \in Ids : \/ task'[j] = task[j]
                                   \/ task'[j] # None /\ task'[j].snap.pres = task[j].snap.pres
  <1>1. request[i] # None /\ request' = [request EXCEPT ![i] = None]
    BY DEF RequestFails
  <1>2. task[i] \in Task /\ task[i].snap \in Snapshot
    BY <1>1, TabTypes DEF RequestsHaveTab
  <1>3. request' \in [Ids -> Request \cup {None}]
    BY <1>1 DEF TypeOK
  <1>4. CASE request[i].kind = "close" /\ task[i].state = "exited"
    <2>1. Removed(i) /\ closedIds' = closedIds
      BY <1>4 DEF RequestFails
    <2>2. /\ IsRow(tabs')
          /\ order' \in [Ids -> Order \cup {None}] /\ task' \in [Ids -> Task \cup {None}]
          /\ initialInput' = initialInput \ {i} /\ active' \in Ids \cup {Compose, None}
      BY <1>1, <2>1, RemovedIs
    <2>3. TypeOK'
      BY <1>3, <2>1, <2>2 DEF TypeOK, RequestFails, IsRow, daemon, list, calls, history
    <2> QED
      BY <1>1, <1>4, <2>1, <2>3
  <1>5. CASE ~(request[i].kind = "close" /\ task[i].state = "exited")
    <2> DEFINE back == [task[i].snap EXCEPT !.label = 1 - @]
               shows == [task[i] EXCEPT !.snap = back]
    <2>1. /\ UNCHANGED <<tabs, order, initialInput, active>>
          /\ closedIds' = IF request[i].kind = "close" THEN closedIds \ {i} ELSE closedIds
          /\ task' = task \/ task' = [task EXCEPT ![i].snap.label = 1 - @]
      BY <1>5 DEF RequestFails
    <2>2. back \in Snapshot /\ back.pres = task[i].snap.pres
      BY <1>2 DEF Snapshot
    <2>3. task' = task \/ task' = [task EXCEPT ![i] = shows]
      BY <1>2, <2>1 DEF TypeOK, Task, Snapshot
    <2> HIDE DEF back
    <2>4. shows \in Task /\ shows # None /\ shows.snap.pres = task[i].snap.pres
      BY <1>2, <2>2, NoneAssumption DEF Task
    <2> HIDE DEF shows
    <2>5. /\ task' \in [Ids -> Task \cup {None}]
          /\ \A j \in Ids : \/ task'[j] = task[j]
                            \/ task'[j] # None /\ task'[j].snap.pres = task[j].snap.pres
      BY <2>3, <2>4 DEF TypeOK
    <2>6. TypeOK'
      BY <1>3, <2>1, <2>5 DEF TypeOK, RequestFails, daemon, list, calls, history
    <2> QED
      BY <1>1, <2>1, <2>5, <2>6
  <1> QED
    BY <1>4, <1>5

\* The viewports, and the person.
LEMMA ClaimsTypes ==
    ASSUME TypeOK, CommandsKnown, load' = load, NEW i \in Ids, Claims(i)
    PROVE  TypeOK'
  <1>1. typed[i] = 0 /\ typed' = [typed EXCEPT ![i] = typed[i] + 1]
    BY DEF Claims, CommandsKnown
  <1>2. typed' \in [Ids -> 0 .. 1]
    BY <1>1 DEF TypeOK
  <1> QED
    BY <1>2 DEF TypeOK, Claims, daemon, list, shown, calls, counters

LEMMA SocketClosesTypes ==
    ASSUME TypeOK, TabsHave, load' = load, NEW i \in Ids, SocketCloses(i)
    PROVE  /\ TypeOK'
           /\ \A j \in Ids : \/ task'[j] = task[j]
                             \/ task'[j] # None /\ task'[j].snap.pres = task[j].snap.pres
  <1>1. task[i] \in Task /\ task' = [task EXCEPT ![i].state = "exited"]
    BY TabTypes DEF SocketCloses, IsMounted
  <1> DEFINE shows == [task[i] EXCEPT !.state = "exited"]
  <1>2. shows \in Task /\ shows # None /\ shows.snap = task[i].snap
    BY <1>1, NoneAssumption DEF Task
  <1>3. task' = [task EXCEPT ![i] = shows]
    BY <1>1 DEF TypeOK, Task
  <1> HIDE DEF shows
  <1>4. /\ task' \in [Ids -> Task \cup {None}]
        /\ \A j \in Ids : \/ task'[j] = task[j]
                          \/ task'[j] # None /\ task'[j].snap.pres = task[j].snap.pres
    BY <1>2, <1>3 DEF TypeOK
  <1> QED
    BY <1>4 DEF TypeOK, SocketCloses, daemon, list, calls, counters, history

LEMMA ActivateTypes == ASSUME TypeOK, load' = load, Activate PROVE TypeOK'
  <1>1. active' \in Ids \cup {Compose, None}
    BY TabsAreIds DEF Activate
  <1> QED
    BY <1>1 DEF TypeOK, Activate, daemon, list, shown, calls, history

-----------------------------------------------------------------------------
(* What keeps each part of the invariant *)

LEMMA CreatesKept ==
    ASSUME TypeOK, CreatesInv, create' = create, load' = load, typed' = typed,
           initialInput' \subseteq initialInput,
           \A i \in Ids : session[i] # None => session'[i] # None
    PROVE  CreatesInv'
  <1>1. CreatesApart'
    BY DEF CreatesInv, CreatesApart, TypeOK, Create
  <1>2. CommandsKnown' /\ TypedOnce'
    BY DEF CreatesInv, CommandsKnown, TypedOnce
  <1> QED
    BY <1>1, <1>2 DEF CreatesInv

\* The tabs stay, and so does what was created; closes and what is closed agree.
LEMMA RowsKept ==
    ASSUME TypeOK, RowsInv, tabs' = tabs, order' = order,
           \A c \in Creates : create'[c].ok =>
              create[c].ok /\ create'[c].id = create[c].id /\ create'[c].seq = create[c].seq,
           \A i \in Ids : task'[i] = task[i] \/ task'[i] # None,
           \A i \in Ids : request'[i] # None => HasTab(i),
           \A i \in Ids : (request'[i] # None /\ request'[i].kind = "close") => i \in closedIds',
           \A i \in Ids : (i \in closedIds' /\ HasTab(i)) => request'[i] # None /\ request'[i].kind = "close",
           \A i \in closedIds : HasTab(i) \/ i \in closedIds'
    PROVE  RowsInv'
  <1>1. \A i : HasTab(i)' <=> HasTab(i)
    BY DEF HasTab
  <1>2. TabsHave'
    BY <1>1 DEF RowsInv, TabsHave
  <1>3. TabsInOrder'
    <2>1. \A m, n \in DOMAIN tabs : m < n => tabs[m] # tabs[n] /\ ~Before(order, tabs[n], tabs[m])
      BY DEF RowsInv, TabsInOrder
    <2>2. ASSUME NEW c \in Creates, create'[c].ok, create'[c].id \in ToSet(tabs')
          PROVE  order'[create'[c].id] = [group |-> "created", index |-> create'[c].seq]
      BY <2>2 DEF RowsInv, TabsInOrder, HasTab
    <2> QED
      BY <2>1, <2>2 DEF TabsInOrder, HasTab
  <1>4. RequestsHaveTab' /\ ClosingKnown'
    BY <1>1 DEF RequestsHaveTab, ClosingKnown
  <1>5. CreatedHaveTab'
    BY <1>1 DEF RowsInv, CreatedHaveTab
  <1> QED
    BY <1>2, <1>3, <1>4, <1>5 DEF RowsInv

LEMMA RowsSame ==
    ASSUME TypeOK, RowsInv, UNCHANGED <<tabs, order, closedIds, request>>,
           \A c \in Creates : create'[c].ok =>
              create[c].ok /\ create'[c].id = create[c].id /\ create'[c].seq = create[c].seq,
           \A i \in Ids : task'[i] = task[i] \/ task'[i] # None
    PROVE  RowsInv'
  <1>1. RequestsHaveTab /\ ClosingKnown
    BY DEF RowsInv
  <1> QED
    BY <1>1, RowsKept DEF RequestsHaveTab, ClosingKnown

\* Tabs are added for sessions that are not closed, and each keeps its place.
LEMMA RowsGrow ==
    ASSUME TypeOK, RowsInv, UNCHANGED <<create, closedIds, request>>,
           IsRow(tabs'), ToSet(tabs) \subseteq ToSet(tabs'),
           \A i \in Ids \ ToSet(tabs) : i \in ToSet(tabs') => i \notin closedIds,
           \A m, n \in DOMAIN tabs' : m < n => ~Before(order', tabs'[n], tabs'[m]),
           \A i \in ToSet(tabs') : order'[i] # None /\ task'[i] # None,
           \A i \in Ids : order[i] # None => order'[i] = order[i]
    PROVE  RowsInv'
  <1>1. \A i : (HasTab(i) => HasTab(i)') /\ (HasTab(i)' => i \in Ids)
    BY RowHas DEF HasTab, IsRow
  <1>2. \A i \in Ids : HasTab(i)' /\ ~HasTab(i) => i \notin closedIds
    BY DEF HasTab
  <1>3. TabsHave'
    BY DEF TabsHave, HasTab
  <1>4. TabsInOrder'
    <2>1. \A m, n \in DOMAIN tabs' : m < n => tabs'[m] # tabs'[n]
      BY DEF IsRow
    <2>2. ASSUME NEW c \in Creates, create[c].ok, HasTab(create[c].id)'
          PROVE  order'[create[c].id] = [group |-> "created", index |-> create[c].seq]
      <3>1. create[c].id \in Ids
        BY <1>1, <2>2
      <3>2. HasTab(create[c].id)
        BY <1>2, <2>2, <3>1 DEF RowsInv, CreatedHaveTab
      <3>3. order[create[c].id] = [group |-> "created", index |-> create[c].seq]
        BY <2>2, <3>2 DEF RowsInv, TabsInOrder
      <3> QED
        BY <3>1, <3>2, <3>3 DEF RowsInv, TabsHave
    <2> QED
      BY <2>1, <2>2 DEF TabsInOrder
  <1>5. RequestsHaveTab' /\ ClosingKnown' /\ CreatedHaveTab'
    BY <1>1, <1>2 DEF RowsInv, RequestsHaveTab, ClosingKnown, CreatedHaveTab
  <1> QED
    BY <1>3, <1>4, <1>5 DEF RowsInv

\* The tab whose close is under way goes.
LEMMA RowsShrink ==
    ASSUME TypeOK, RowsInv, NEW i \in Ids, Removed(i), UNCHANGED <<create, closedIds>>,
           request[i] # None, request[i].kind = "close", request' = [request EXCEPT ![i] = None]
    PROVE  /\ RowsInv' /\ i \in closedIds
           /\ \A j : HasTab(j)' <=> HasTab(j) /\ j # i
           /\ \A j \in Ids : j # i => task'[j] = task[j]
  <1>1. /\ IsRow(tabs') /\ ToSet(tabs') = ToSet(tabs) \ {i}
        /\ \A m, n \in DOMAIN tabs' : m < n => ~Before(order, tabs'[n], tabs'[m])
        /\ order' = [order EXCEPT ![i] = None]
        /\ task' = [task EXCEPT ![i] = None]
    BY RemovedIs DEF RowsInv
  <1>2. \A j : HasTab(j)' <=> HasTab(j) /\ j # i
    BY <1>1 DEF HasTab
  <1>3. \A j \in Ids : j # i => order'[j] = order[j] /\ task'[j] = task[j] /\ request'[j] = request[j]
    BY <1>1 DEF TypeOK
  <1>4. request'[i] = None /\ i \in closedIds
    BY DEF TypeOK, RowsInv, ClosingKnown
  <1>5. TabsHave'
    BY <1>2, <1>3 DEF RowsInv, TabsHave
  <1>6. TabsInOrder'
    <2>1. \A n \in DOMAIN tabs' : tabs'[n] \in ToSet(tabs') /\ tabs'[n] \in Ids
      BY <1>1 DEF IsRow, ToSet
    <2>2. \A n \in DOMAIN tabs' : order'[tabs'[n]] = order[tabs'[n]]
      BY <1>1, <1>3, <2>1
    <2>3. \A m, n \in DOMAIN tabs' : m < n => tabs'[m] # tabs'[n] /\ ~Before(order', tabs'[n], tabs'[m])
      BY <1>1, <2>2 DEF IsRow, Before
    <2>4. ASSUME NEW c \in Creates, create[c].ok, HasTab(create[c].id)'
          PROVE  order'[create[c].id] = [group |-> "created", index |-> create[c].seq]
      <3>1. HasTab(create[c].id) /\ create[c].id # i /\ create[c].id \in Ids
        BY <1>2, <2>4, TabsAreIds
      <3> QED
        BY <1>3, <2>4, <3>1 DEF RowsInv, TabsInOrder
    <2> QED
      BY <2>3, <2>4 DEF TabsInOrder
  <1>7. RequestsHaveTab' /\ ClosingKnown' /\ CreatedHaveTab'
    BY <1>2, <1>3, <1>4 DEF RowsInv, RequestsHaveTab, ClosingKnown, CreatedHaveTab
  <1> QED
    BY <1>2, <1>3, <1>4, <1>5, <1>6, <1>7 DEF RowsInv

\* No event is sent or heard: what a tab comes to show is what the last event
\* said, or an answer with an event still on its way.
LEMMA EventsKept ==
    ASSUME TypeOK, EventsInv, UNCHANGED <<daemon, latest, revision>>,
           overwritten \subseteq overwritten',
           \A i \in Ids \ closedIds' : i \in closedIds \/ HasTab(i) => HasTab(i)',
           \A i \in Ids : HasTab(i)' =>
              \/ HasTab(i) /\ task'[i] = task[i]
              \/ HasTab(i) /\ task'[i].snap.pres = task[i].snap.pres
              \/ i \in overwritten'
              \/ latest[i] # None => task'[i].snap.pres = latest[i].pres
              \/ (stream # "off" /\ i \in Live \ missed) => Coming(i),
           \A i \in Ids : request'[i] # None =>
              request'[i] = request[i] \/ (request'[i].pc # "served" /\ request'[i].rev <= revision[i])
    PROVE  EventsInv'
  <1>1. /\ UNCHANGED <<session, stream, events, missed>>
        /\ Live' = Live
        /\ \A i : Coming(i)' <=> Coming(i)
        /\ \A n, i : IsLastOf(n, i)' <=> IsLastOf(n, i)
    BY DEF daemon, Live, Coming, IsLastOf
  <1>2. Live \subseteq Ids
    BY DEF Live
  <1>3. EventsReach'
    BY <1>1, <1>2 DEF EventsInv, EventsReach
  <1>4. EventsTell'
    <2> SUFFICES ASSUME stream # "off", NEW i \in Live \ missed
                 PROVE  /\ \A n \in DOMAIN events : IsLastOf(n, i) => events[n].snap.pres = session[i].pres
                        /\ ~Coming(i) => latest[i] # None /\ latest[i].pres = session[i].pres
                        /\ (~Coming(i) /\ i \notin overwritten' /\ HasTab(i)')
                              => task'[i].snap.pres = session[i].pres
      BY <1>1 DEF EventsTell
    <2>1. /\ \A n \in DOMAIN events : IsLastOf(n, i) => events[n].snap.pres = session[i].pres
          /\ ~Coming(i) => latest[i] # None /\ latest[i].pres = session[i].pres
          /\ (~Coming(i) /\ i \notin overwritten /\ HasTab(i))
                => task[i].snap.pres = session[i].pres
      BY DEF EventsInv, EventsTell
    <2>2. (~Coming(i) /\ i \notin overwritten' /\ HasTab(i)') => task'[i].snap.pres = session[i].pres
      BY <1>2, <2>1
    <2> QED
      BY <2>1, <2>2
  <1>5. AnswersKnow'
    BY <1>1 DEF EventsInv, AnswersKnow
  <1> QED
    BY <1>3, <1>4, <1>5 DEF EventsInv

-----------------------------------------------------------------------------
(* One lemma for each step *)

LEMMA StreamListsKeeps == ASSUME IInv, load' = load, StreamLists PROVE IInv'
  <1> USE DEF IInv
  <1>1. TypeOK'
    BY StreamTypes
  <1>2. CreatesInv' /\ ListKnown' /\ RowsInv'
    <2>1. UNCHANGED <<list, shown, calls, typed, initialInput, closedIds, request, session>>
      BY DEF StreamLists, history
    <2> QED
      BY <2>1, CreatesKept, RowsSame DEF list, shown, calls, ListKnown
  <1>3. EventsInv'
    <2>1. PICK s \in SetToSeqs(Live) : events' = [n \in DOMAIN s |-> [id |-> s[n], snap |-> session[s[n]]]]
      BY DEF StreamLists
    <2>2. ToSet(s) = Live
      BY LiveRows
    <2>3. UNCHANGED <<session, missed, tabs, task, closedIds, latest, overwritten, revision, request>>
      BY DEF StreamLists, shown, history
    <2>4. \A i \in Live : Coming(i)'
      BY <2>1, <2>2 DEF Coming, ToSet
    <2>5. \A n \in DOMAIN events' : events'[n].snap = session[events'[n].id]
      BY <2>1
    <2>6. Live' = Live /\ Live \subseteq Ids
      BY <2>3 DEF Live
    <2>7. EventsReach' /\ EventsTell' /\ AnswersKnow'
      <3>1. EventsReach'
        BY <2>4, <2>6, <2>3 DEF EventsReach
      <3>2. EventsTell'
        BY <2>3, <2>4, <2>5, <2>6 DEF EventsTell, IsLastOf
      <3>3. AnswersKnow'
        BY <2>3, <2>4, <2>6 DEF EventsInv, AnswersKnow
      <3> QED
        BY <3>1, <3>2, <3>3
    <2> QED
      BY <2>7 DEF EventsInv
  <1> QED
    BY <1>1, <1>2, <1>3

LEMMA StreamSubscribesKeeps == ASSUME IInv, load' = load, StreamSubscribes PROVE IInv'
  <1> USE DEF IInv
  <1>1. TypeOK'
    BY StreamTypes
  <1>2. UNCHANGED <<session, events, missed, list, shown, closedIds, latest, overwritten, revision,
                    request, calls, typed, initialInput>>
    BY DEF StreamSubscribes, history
  <1>3. CreatesInv' /\ ListKnown' /\ RowsInv'
    BY <1>2, CreatesKept, RowsSame DEF list, shown, calls, ListKnown
  <1>4. EventsInv'
    <2>1. stream = "listed"
      BY DEF StreamSubscribes
    <2>2. /\ Live' = Live
          /\ \A i : Coming(i)' <=> Coming(i)
          /\ \A i : HasTab(i)' <=> HasTab(i)
          /\ \A n, i : IsLastOf(n, i)' <=> IsLastOf(n, i)
      BY <1>2 DEF Live, Coming, HasTab, IsLastOf, shown
    <2> QED
      BY <1>2, <2>1, <2>2 DEF EventsInv, EventsReach, EventsTell, AnswersKnow, shown
  <1> QED
    BY <1>1, <1>3, <1>4

LEMMA ListReadKeeps == ASSUME IInv, load' = load, ListRead PROVE IInv'
  <1> USE DEF IInv
  <1>1. TypeOK'
    BY ListReadTypes
  <1>2. UNCHANGED <<daemon, shown, closedIds, latest, overwritten, revision, request, calls, typed,
                    initialInput>>
    BY DEF ListRead, history
  <1>3. CreatesInv' /\ RowsInv'
    BY <1>2, CreatesKept, RowsSame DEF daemon, shown, calls
  <1>4. EventsInv'
    BY <1>2, EventsKept DEF HasTab, shown
  <1>5. ListKnown'
    <2>1. PICK s \in SetToSeqs(Live) : listing' = [ids |-> s, snap |-> session]
      BY DEF ListRead
    <2>2. IsRow(s) /\ ToSet(s) = Live
      BY LiveRows
    <2>3. \A n \in DOMAIN s : session[s[n]] \in Snapshot
      BY <2>2, LiveHasSnapshot DEF ToSet
    <2>4. listing' \in Listing
      BY <2>1, <2>2 DEF IsRow, Listing, TypeOK
    <2> QED
      BY <2>1, <2>2, <2>3, <2>4 DEF ListKnown, IsRow
  <1> QED
    BY <1>1, <1>3, <1>4, <1>5

LEMMA ListArrivesKeeps == ASSUME IInv, load' = load, ListArrives PROVE IInv'
  <1> USE DEF IInv
  <1>1. TypeOK'
    BY ListArrivesTypes DEF RowsInv
  <1>2. /\ UNCHANGED <<daemon, closedIds, latest, overwritten, revision, request, create, typed,
                       initialInput>>
        /\ hydration' = "settled"
    BY DEF ListArrives, history, calls
  <1>3. /\ IsRow(tabs') /\ ToSet(tabs) \subseteq ToSet(tabs')
        /\ \A i \in Ids \ ToSet(tabs) : i \in ToSet(tabs') => i \notin closedIds
        /\ \A m, n \in DOMAIN tabs' : m < n => ~Before(order', tabs'[n], tabs'[m])
        /\ \A i \in ToSet(tabs') : order'[i] # None /\ task'[i] # None
        /\ \A i \in Ids : order[i] # None => order'[i] = order[i]
        /\ \A i \in ToSet(tabs') :
              \/ HasTab(i) /\ task'[i] = task[i]
              \/ latest[i] # None => task'[i].snap.pres = latest[i].pres
    BY ListArrivesIs DEF RowsInv
  <1>4. CreatesInv' /\ ListKnown'
    BY <1>2, CreatesKept DEF daemon, ListKnown
  <1>5. RowsInv'
    BY <1>2, <1>3, RowsGrow
  <1>6. EventsInv'
    <2>1. \A i \in Ids \ closedIds' : i \in closedIds \/ HasTab(i) => HasTab(i)'
      BY <1>2, <1>3 DEF HasTab
    <2>2. \A i \in Ids : HasTab(i)' =>
              \/ HasTab(i) /\ task'[i] = task[i]
              \/ latest[i] # None => task'[i].snap.pres = latest[i].pres
      BY <1>3 DEF HasTab
    <2> QED
      BY <1>2, <2>1, <2>2, EventsKept
  <1> QED
    BY <1>1, <1>4, <1>5, <1>6

LEMMA ListFailsKeeps == ASSUME IInv, load' = load, ListFails PROVE IInv'
  <1> USE DEF IInv
  <1>1. TypeOK'
    BY ListFailsTypes
  <1>2. /\ UNCHANGED <<daemon, shown, closedIds, latest, overwritten, revision, request, calls,
                       typed, initialInput>>
        /\ hydration' = "settled"
    BY DEF ListFails, history
  <1>3. CreatesInv' /\ RowsInv' /\ ListKnown'
    BY <1>2, CreatesKept, RowsSame DEF daemon, shown, calls, ListKnown
  <1>4. EventsInv'
    BY <1>2, EventsKept DEF HasTab, shown
  <1> QED
    BY <1>1, <1>3, <1>4

LEMMA CallCreateKeeps == ASSUME IInv, load' = load, NEW c \in Creates, CallCreate(c) PROVE IInv'
  <1> USE DEF IInv
  <1>1. TypeOK'
    BY CallCreateTypes
  <1>2. UNCHANGED <<daemon, list, shown, closedIds, latest, overwritten, revision, request, typed,
                    initialInput>>
    BY DEF CallCreate, history
  <1>3. /\ create[c].pc = "idle" /\ create'[c].pc = "sent" /\ create'[c].id = create[c].id
        /\ create'[c].ok = create[c].ok
        /\ \A d \in Creates : d # c => create'[d] = create[d]
    BY DEF CallCreate, TypeOK, Create
  <1>4. ~create[c].ok /\ create[c].id = None
    BY <1>3 DEF CreatesInv, CreatesApart
  <1>5. CreatesInv'
    <2>1. CreatesApart'
      BY <1>2, <1>3, <1>4 DEF CreatesInv, CreatesApart, daemon
    <2>2. CommandsKnown' /\ TypedOnce'
      BY <1>2, <1>3, <1>4, LoadType DEF CreatesInv, CommandsKnown, TypedOnce
    <2> QED
      BY <2>1, <2>2 DEF CreatesInv
  <1>6. RowsInv'
    BY <1>2, <1>3, <1>4, RowsSame DEF shown
  <1>7. EventsInv' /\ ListKnown'
    BY <1>2, EventsKept DEF HasTab, shown, list, ListKnown
  <1> QED
    BY <1>1, <1>5, <1>6, <1>7

LEMMA CreateRefusedKeeps == ASSUME IInv, load' = load, NEW c \in Creates, CreateRefused(c) PROVE IInv'
  <1> USE DEF IInv
  <1>1. TypeOK'
    BY CreateServedTypes
  <1>2. UNCHANGED <<daemon, list, shown, closedIds, latest, overwritten, revision, request, typed,
                    initialInput>>
    BY DEF CreateRefused, history
  <1>3. /\ create[c].pc = "sent" /\ create'[c].pc = "refused" /\ create'[c].id = create[c].id
        /\ create'[c].ok = create[c].ok
        /\ \A d \in Creates : d # c => create'[d] = create[d]
    BY DEF CreateRefused, TypeOK, Create
  <1>4. ~create[c].ok /\ create[c].id = None
    BY <1>3 DEF CreatesInv, CreatesApart
  <1>5. CreatesInv'
    <2>1. CreatesApart'
      BY <1>2, <1>3, <1>4 DEF CreatesInv, CreatesApart, daemon
    <2>2. CommandsKnown' /\ TypedOnce'
      BY <1>2, <1>3, <1>4, LoadType DEF CreatesInv, CommandsKnown, TypedOnce
    <2> QED
      BY <2>1, <2>2 DEF CreatesInv
  <1>6. RowsInv'
    BY <1>2, <1>3, <1>4, RowsSame DEF shown
  <1>7. EventsInv' /\ ListKnown'
    BY <1>2, EventsKept DEF HasTab, shown, list, ListKnown
  <1> QED
    BY <1>1, <1>5, <1>6, <1>7

LEMMA CreateFailsKeeps == ASSUME IInv, load' = load, NEW c \in Creates, CreateFails(c) PROVE IInv'
  <1> USE DEF IInv
  <1>1. TypeOK'
    BY CreateFailsTypes
  <1>2. UNCHANGED <<daemon, list, shown, closedIds, latest, overwritten, revision, request, typed,
                    initialInput>>
    BY DEF CreateFails, history
  <1>3. /\ create[c].pc \in {"refused", "made"} /\ create'[c].pc = "done"
        /\ create'[c].id = create[c].id /\ create'[c].ok = create[c].ok
        /\ \A d \in Creates : d # c => create'[d] = create[d]
    BY DEF CreateFails, TypeOK, Create
  <1>4. ~create[c].ok
    BY <1>3 DEF CreatesInv, CreatesApart
  <1>5. CreatesInv'
    <2>1. CreatesApart'
      BY <1>2, <1>3, <1>4 DEF CreatesInv, CreatesApart, daemon
    <2>2. CommandsKnown' /\ TypedOnce'
      BY <1>2, <1>3, <1>4, LoadType DEF CreatesInv, CommandsKnown, TypedOnce
    <2> QED
      BY <2>1, <2>2 DEF CreatesInv
  <1>6. RowsInv'
    BY <1>2, <1>3, <1>4, RowsSame DEF shown
  <1>7. EventsInv' /\ ListKnown'
    BY <1>2, EventsKept DEF HasTab, shown, list, ListKnown
  <1> QED
    BY <1>1, <1>5, <1>6, <1>7

\* A change that is emitted: its event is the last of its session, or missed.
LEMMA EmittedKeeps ==
    ASSUME TypeOK, EventsInv, NEW i \in Ids, NEW snap \in Snapshot, Becomes(i, snap),
           UNCHANGED <<tabs, task, closedIds, latest, overwritten, revision>>,
           \A j \in Ids : request'[j] # None =>
              /\ request[j] # None /\ request'[j].rev = request[j].rev
              /\ j = i \/ request'[j] = request[j]
    PROVE  EventsInv'
  <1> DEFINE e == [id |-> i, snap |-> snap]
  <1>1. /\ session' = [session EXCEPT ![i] = snap] /\ stream' = stream
        /\ events' = IF stream = "on" THEN Append(events, e) ELSE events
        /\ missed' = IF stream = "listed" THEN missed \cup {i} ELSE missed
    BY DEF Becomes, Emit
  <1>2. /\ session'[i] = snap /\ \A j \in Ids : j # i => session'[j] = session[j]
        /\ \A j \in Ids : j # i => (j \in Live' <=> j \in Live)
        /\ Live' \subseteq Ids /\ Live \subseteq Ids
    BY <1>1 DEF TypeOK, Live
  <1>3. \A j : HasTab(j)' <=> HasTab(j)
    BY DEF HasTab
  <1>4. CASE stream = "on"
    <2>1. /\ events' = Append(events, e) /\ missed' = missed
          /\ Len(events) \in Nat /\ DOMAIN events = 1 .. Len(events)
      BY <1>1, <1>4 DEF TypeOK
    <2>2. /\ DOMAIN events' = 1 .. Len(events) + 1
          /\ \A n \in 1 .. Len(events) : events'[n] = events[n]
          /\ events'[Len(events) + 1] = e
      BY <2>1 DEF TypeOK
    <2>3. Coming(i)' /\ \A n \in DOMAIN events' : IsLastOf(n, i)' => n = Len(events) + 1
      BY <2>1, <2>2 DEF Coming, IsLastOf
    <2>4. \A j \in Ids : j # i =>
             /\ Coming(j)' <=> Coming(j)
             /\ \A n : IsLastOf(n, j)' => IsLastOf(n, j) /\ events'[n] = events[n]
      BY <2>1, <2>2 DEF Coming, IsLastOf
    <2>5. EventsReach'
      BY <1>1, <1>2, <1>3, <1>4, <2>1, <2>3, <2>4 DEF EventsInv, EventsReach
    <2>6. EventsTell'
      <3> SUFFICES ASSUME NEW j \in (Live \ missed)'
                   PROVE  /\ \A n \in DOMAIN events' : IsLastOf(n, j)' => events'[n].snap.pres = session'[j].pres
                          /\ ~Coming(j)' => latest[j] # None /\ latest[j].pres = session'[j].pres
                          /\ (~Coming(j)' /\ j \notin overwritten /\ HasTab(j)')
                                => task[j].snap.pres = session'[j].pres
        BY DEF EventsTell
      <3>1. CASE j = i
        BY <1>2, <2>2, <2>3, <3>1
      <3>2. CASE j # i
        <4>1. j \in Live \ missed /\ j \in Ids /\ session'[j] = session[j] /\ stream # "off"
          BY <1>2, <1>4, <2>1, <3>2
        <4>2. \A n \in DOMAIN events' : IsLastOf(n, j)' => n \in DOMAIN events
          BY <2>4, <3>2, <4>1 DEF IsLastOf
        <4> QED
          BY <1>3, <2>4, <3>2, <4>1, <4>2 DEF EventsInv, EventsTell
      <3> QED
        BY <3>1, <3>2
    <2>7. AnswersKnow'
      BY <1>1, <1>2, <1>4, <2>1, <2>3, <2>4 DEF EventsInv, AnswersKnow
    <2> QED
      BY <2>5, <2>6, <2>7 DEF EventsInv
  <1>5. CASE stream # "on"
    <2>1. events' = events /\ missed \subseteq missed' /\ (stream # "off" => i \in missed')
      BY <1>1, <1>5 DEF TypeOK
    <2>2. \A j : (Coming(j)' <=> Coming(j)) /\ \A n : IsLastOf(n, j)' <=> IsLastOf(n, j)
      BY <2>1 DEF Coming, IsLastOf
    <2>3. stream # "off" => \A j \in (Live \ missed)' : j # i /\ j \in Live \ missed /\ session'[j] = session[j]
      BY <1>2, <2>1
    <2>4. EventsReach' /\ EventsTell'
      <3>1. EventsReach'
        BY <1>1, <1>3, <2>1, <2>2, <2>3 DEF EventsInv, EventsReach
      <3>2. EventsTell'
        <4> SUFFICES ASSUME stream' # "off", NEW j \in (Live \ missed)'
                     PROVE  /\ \A n \in DOMAIN events' : IsLastOf(n, j)' => events'[n].snap.pres = session'[j].pres
                            /\ ~Coming(j)' => latest'[j] # None /\ latest'[j].pres = session'[j].pres
                            /\ (~Coming(j)' /\ j \notin overwritten' /\ HasTab(j)')
                                  => task'[j].snap.pres = session'[j].pres
          BY DEF EventsTell
        <4>1. stream # "off" /\ j \in Live \ missed /\ session'[j] = session[j]
          BY <1>1, <2>3
        <4>2. /\ \A n \in DOMAIN events : IsLastOf(n, j) => events[n].snap.pres = session[j].pres
              /\ ~Coming(j) => latest[j] # None /\ latest[j].pres = session[j].pres
              /\ (~Coming(j) /\ j \notin overwritten /\ HasTab(j)) => task[j].snap.pres = session[j].pres
          BY <4>1 DEF EventsInv, EventsTell
        <4>3. (Coming(j)' <=> Coming(j)) /\ (HasTab(j)' <=> HasTab(j)) /\ \A n : IsLastOf(n, j)' <=> IsLastOf(n, j)
          BY <1>3, <2>2
        <4> QED
          BY <2>1, <4>1, <4>2, <4>3
      <3> QED
        BY <3>1, <3>2
    <2>5. AnswersKnow'
      BY <1>1, <2>2, <2>3 DEF EventsInv, AnswersKnow
    <2> QED
      BY <2>4, <2>5 DEF EventsInv
  <1> QED
    BY <1>4, <1>5

\* One that is not emitted: the session is gone, or stays where it is.
LEMMA QuietKeeps ==
    ASSUME TypeOK, EventsInv, NEW i \in Live, NEW snap, BecomesQuietly(i, snap),
           snap = Gone \/ (snap \in Snapshot /\ snap.pres = session[i].pres),
           UNCHANGED <<tabs, task, closedIds, latest, overwritten, revision>>,
           \A j \in Ids : request'[j] # None =>
              /\ request[j] # None /\ request'[j].rev = request[j].rev
              /\ request'[j] = request[j] \/ request'[j].kind # "present" \/ j \notin Live'
    PROVE  EventsInv'
  <1>1. /\ session' = [session EXCEPT ![i] = snap] /\ UNCHANGED <<stream, events, missed>>
    BY DEF BecomesQuietly
  <1>2. /\ Live' \subseteq Live /\ Live \subseteq Ids
        /\ \A j \in Live' : session'[j].pres = session[j].pres
    BY <1>1, LiveHasSnapshot DEF TypeOK, Live
  <1>3. /\ \A j : HasTab(j)' <=> HasTab(j)
        /\ \A j : (Coming(j)' <=> Coming(j)) /\ \A n : IsLastOf(n, j)' <=> IsLastOf(n, j)
    BY <1>1 DEF HasTab, Coming, IsLastOf
  <1>4. EventsReach' /\ EventsTell' /\ AnswersKnow'
    BY <1>1, <1>2, <1>3 DEF EventsInv, EventsReach, EventsTell, AnswersKnow
  <1> QED
    BY <1>4 DEF EventsInv

LEMMA ElsewhereKeeps == ASSUME IInv, load' = load, Elsewhere PROVE IInv'
  <1> USE DEF IInv
  <1>1. TypeOK'
    BY ElsewhereTypes
  <1>2. UNCHANGED <<list, shown, closedIds, latest, overwritten, revision, request, calls, typed,
                    initialInput>>
    BY DEF Elsewhere, history
  <1>3. PICK i \in Ids : \/ Becomes(i, Fresh)
                         \/ i \in Live /\ Becomes(i, Flipped(session[i]))
                         \/ i \in Live /\ BecomesQuietly(i, Gone)
    BY DEF Elsewhere
  <1>4. i \in Live => Flipped(session[i]) \in Snapshot
    BY LiveHasSnapshot, SnapshotFacts
  <1>5. \A j \in Ids : session[j] # None => session'[j] # None
    <2>1. \E snap \in Snapshot \cup {Gone} : session' = [session EXCEPT ![i] = snap]
      BY <1>3, <1>4, SnapshotFacts DEF Becomes, BecomesQuietly
    <2> QED
      BY <2>1, SnapshotFacts DEF TypeOK
  <1>6. CreatesInv' /\ RowsInv' /\ ListKnown'
    BY <1>2, <1>5, CreatesKept, RowsSame DEF list, shown, calls, ListKnown
  <1>7. EventsInv'
    BY <1>2, <1>3, <1>4, SnapshotFacts, EmittedKeeps, QuietKeeps DEF shown
  <1> QED
    BY <1>1, <1>6, <1>7

LEMMA CreateServedKeeps == ASSUME IInv, load' = load, NEW c \in Creates, CreateServed(c) PROVE IInv'
  <1> USE DEF IInv
  <1>1. TypeOK'
    BY CreateServedTypes
  <1>2. UNCHANGED <<list, shown, closedIds, latest, overwritten, revision, request, typed,
                    initialInput>>
    BY DEF CreateServed, history
  <1>3. PICK i \in Ids : /\ IsNext(i) /\ Becomes(i, Fresh)
                         /\ create' = [create EXCEPT ![c].pc = "made", ![c].id = i]
    BY DEF CreateServed
  <1>4. /\ create[c].pc = "sent" /\ create'[c].pc = "made" /\ create'[c].id = i
        /\ create'[c].ok = create[c].ok
        /\ \A d \in Creates : d # c => create'[d] = create[d]
    BY <1>3 DEF CreateServed, TypeOK, Create
  <1>5. ~create[c].ok /\ create[c].id = None
    BY <1>4 DEF CreatesInv, CreatesApart
  <1>6. /\ session[i] = None /\ session'[i] = Fresh
        /\ \A j \in Ids : session[j] # None => session'[j] # None
    BY <1>3, SnapshotFacts DEF IsNext, Becomes, TypeOK
  <1>7. CreatesInv'
    <2>1. \A d \in Creates : create[d].id \in Ids \cup {None} /\ create[d].id # i
      BY <1>6, NoneAssumption DEF CreatesInv, CreatesApart, TypeOK, Create
    <2>2. i # None
      BY NoneAssumption
    <2>3. CreatesApart'
      <3>1. \A d \in Creates :
              /\ create'[d].ok => create'[d].pc = "done" /\ create'[d].id # None
              /\ create'[d].pc \in {"idle", "sent", "refused"} => create'[d].id = None
              /\ create'[d].pc = "made" => create'[d].id # None
              /\ create'[d].id # None => session'[create'[d].id] # None
        BY <1>4, <1>5, <1>6, <2>1, <2>2, SnapshotFacts DEF CreatesInv, CreatesApart
      <3>2. \A a, d \in Creates : (a # d /\ create'[a].id # None) => create'[a].id # create'[d].id
        BY <1>4, <2>1, <2>2 DEF CreatesInv, CreatesApart
      <3> QED
        BY <3>1, <3>2 DEF CreatesApart
    <2>4. CommandsKnown' /\ TypedOnce'
      BY <1>2, <1>4, <1>5, LoadType DEF CreatesInv, CommandsKnown, TypedOnce
    <2> QED
      BY <2>3, <2>4 DEF CreatesInv
  <1>8. RowsInv' /\ ListKnown'
    BY <1>2, <1>4, <1>5, RowsSame DEF shown, list, ListKnown
  <1>9. EventsInv'
    BY <1>2, <1>3, SnapshotFacts, EmittedKeeps DEF shown
  <1> QED
    BY <1>1, <1>7, <1>8, <1>9

LEMMA RequestServedKeeps == ASSUME IInv, load' = load, NEW i \in Ids, RequestServed(i) PROVE IInv'
  <1> USE DEF IInv
  <1>1. TypeOK'
    BY RequestServedTypes
  <1>2. UNCHANGED <<list, shown, closedIds, latest, overwritten, revision, calls, typed,
                    initialInput>>
    BY DEF RequestServed, history
  <1>3. /\ request[i] # None /\ request[i] \in Request /\ request[i].pc = "sent"
        /\ \/ /\ i \notin Live
              /\ request' = [request EXCEPT ![i].pc = "refused"] /\ UNCHANGED daemon
           \/ /\ i \in Live /\ Answer(i) \in Snapshot
              /\ request' = [request EXCEPT ![i].pc = "served", ![i].to = Answer(i)]
              /\ \/ request[i].kind = "present" /\ Becomes(i, Answer(i))
                 \/ request[i].kind = "rename" /\ BecomesQuietly(i, Answer(i))
                 \/ request[i].kind \in {"stop", "close"} /\ BecomesQuietly(i, Gone)
    BY ServedIs
  <1>4. /\ request'[i] # None /\ request'[i].kind = request[i].kind /\ request'[i].rev = request[i].rev
        /\ i \notin Live => request'[i].pc = "refused"
        /\ \A j \in Ids : j # i => request'[j] = request[j]
    <2>1. request'[i] # None
      <3>1. /\ [request[i] EXCEPT !.pc = "refused"] \in Request
            /\ Answer(i) \in Snapshot => [request[i] EXCEPT !.pc = "served", !.to = Answer(i)] \in Request
        BY <1>3 DEF Request
      <3>2. \/ request' = [request EXCEPT ![i] = [request[i] EXCEPT !.pc = "refused"]]
            \/ /\ Answer(i) \in Snapshot
               /\ request' = [request EXCEPT ![i] = [request[i] EXCEPT !.pc = "served", !.to = Answer(i)]]
        BY <1>3 DEF TypeOK, Request
      <3>3. request'[i] \in Request
        BY <3>1, <3>2 DEF TypeOK
      <3> QED
        BY <3>3, NoneAssumption
    <2> QED
      BY <1>3, <2>1 DEF TypeOK, Request
  <1>5. \A j \in Ids : session[j] # None => session'[j] # None
    <2>1. \/ session' = session
          \/ \E snap \in Snapshot \cup {Gone} : session' = [session EXCEPT ![i] = snap]
      BY <1>3 DEF Becomes, BecomesQuietly, daemon
    <2> QED
      BY <2>1, SnapshotFacts DEF TypeOK
  <1>6. CreatesInv' /\ ListKnown'
    BY <1>2, <1>5, CreatesKept DEF list, calls, ListKnown
  <1>7. RowsInv'
    <2>1. RequestsHaveTab /\ ClosingKnown
      BY DEF RowsInv
    <2>2. /\ \A j \in Ids : request'[j] # None => HasTab(j)
          /\ \A j \in Ids : (request'[j] # None /\ request'[j].kind = "close") => j \in closedIds'
          /\ \A j \in Ids : (j \in closedIds' /\ HasTab(j)) => request'[j] # None /\ request'[j].kind = "close"
      BY <1>2, <1>3, <1>4, <2>1 DEF RequestsHaveTab, ClosingKnown
    <2> QED
      BY <1>2, <2>2, RowsKept DEF shown, calls
  <1>8. EventsInv'
    <2>1. CASE i \notin Live
      BY <1>2, <1>3, <1>4, <2>1, EventsKept DEF HasTab, shown, EventsInv, AnswersKnow
    <2>2. CASE i \in Live /\ request[i].kind = "present" /\ Becomes(i, Answer(i))
      BY <1>2, <1>3, <1>4, <2>2, EmittedKeeps DEF shown
    <2>3. CASE i \in Live /\ request[i].kind = "rename" /\ BecomesQuietly(i, Answer(i))
      <3>1. Answer(i).pres = session[i].pres
        BY <2>3, LiveHasSnapshot DEF Answer, Snapshot
      <3> QED
        BY <1>2, <1>3, <1>4, <2>3, <3>1, QuietKeeps DEF shown
    <2>4. CASE i \in Live /\ request[i].kind \in {"stop", "close"} /\ BecomesQuietly(i, Gone)
      BY <1>2, <1>3, <1>4, <2>4, QuietKeeps DEF shown
    <2> QED
      BY <1>3, <2>1, <2>2, <2>3, <2>4
  <1> QED
    BY <1>1, <1>6, <1>7, <1>8

LEMMA EventArrivesKeeps == ASSUME IInv, load' = load, EventArrives PROVE IInv'
  <1> USE DEF IInv
  <1>1. PICK e \in Event, i \in Ids : e = Head(events) /\ i = e.id
    <2>1. Head(events) \in Event
      BY HeadFacts DEF EventArrives
    <2> QED
      BY <2>1 DEF Event
  <1>2. TypeOK'
    BY EventArrivesTypes DEF RowsInv
  <1>3. /\ UNCHANGED <<session, stream, missed, list, closedIds, request, create, typed, initialInput>>
        /\ events' = Tail(events) /\ revision' = [revision EXCEPT ![i] = @ + 1]
        /\ latest' = [latest EXCEPT ![i] = e.snap] /\ overwritten' = overwritten \ {i}
    BY <1>1 DEF EventArrives, calls
  <1>4. /\ e \in Event /\ e = events[1] /\ 1 \in DOMAIN events
        /\ Len(Tail(events)) = Len(events) - 1 /\ Len(events) \in Nat /\ Len(events) > 0
        /\ \A n \in 1 .. Len(events) - 1 : Tail(events)[n] = events[n + 1]
        /\ Tail(events) \in Seq(Event)
    BY <1>1, HeadFacts DEF EventArrives
  <1>5. i \in Ids /\ e.snap \in Snapshot
    BY <1>4 DEF Event
  <1>6. /\ IsRow(tabs')
        /\ ToSet(tabs') = IF i \in closedIds THEN ToSet(tabs) ELSE ToSet(tabs) \cup {i}
        /\ \A m, n \in DOMAIN tabs' : m < n => ~Before(order', tabs'[n], tabs'[m])
        /\ \A j \in ToSet(tabs') : order'[j] # None /\ task'[j] # None
        /\ \A j \in Ids : order[j] # None => order'[j] = order[j]
        /\ \A j \in Ids : j # i => task'[j] = task[j]
        /\ HasTab(i)' => task'[i].snap = e.snap
    BY <1>1, EventArrivesIs DEF RowsInv
  <1>7. CreatesInv' /\ ListKnown'
    BY <1>3, CreatesKept DEF list, ListKnown
  <1>8. RowsInv'
    <2>1. ToSet(tabs) \subseteq ToSet(tabs')
      BY <1>6
    <2>2. \A j \in Ids \ ToSet(tabs) : j \in ToSet(tabs') => j \notin closedIds
      BY <1>6
    <2> QED
      BY <1>3, <1>6, <2>1, <2>2, RowsGrow
  <1>9. /\ Live' = Live /\ Live \subseteq Ids
        /\ DOMAIN events = 1 .. Len(events) /\ DOMAIN events' = 1 .. Len(events) - 1
        /\ \A n \in DOMAIN events' : n + 1 \in DOMAIN events /\ events'[n] = events[n + 1]
    BY <1>3, <1>4 DEF Live, TypeOK
  <1>10. events[1].id = i
    BY <1>1, <1>4
  <1>11. \A j : Coming(j) <=> Coming(j)' \/ j = i
    <2>1. \A n \in DOMAIN events : n = 1 \/ (n - 1 \in DOMAIN events' /\ events[n] = events'[n - 1])
      BY <1>4, <1>9
    <2> QED
      BY <1>4, <1>9, <1>10, <2>1 DEF Coming
  <1>12. \A n \in DOMAIN events' : \A j : IsLastOf(n, j)' => IsLastOf(n + 1, j)
    <2> SUFFICES ASSUME NEW n \in DOMAIN events', NEW j, IsLastOf(n, j)'
                 PROVE  IsLastOf(n + 1, j)
      OBVIOUS
    <2>1. n + 1 \in DOMAIN events /\ events[n + 1].id = j
      BY <1>9 DEF IsLastOf
    <2>2. ASSUME NEW m \in DOMAIN events, m > n + 1 PROVE events[m].id # j
      <3>1. m - 1 \in DOMAIN events' /\ m - 1 > n /\ (m - 1) + 1 = m
        BY <1>4, <1>9, <2>2
      <3>2. events'[m - 1].id # j
        BY <3>1 DEF IsLastOf
      <3>3. events'[m - 1] = events[(m - 1) + 1]
        BY <1>9, <3>1
      <3> QED
        BY <3>1, <3>2, <3>3
    <2> QED
      BY <2>1, <2>2 DEF IsLastOf
  <1>13. ~Coming(i)' => IsLastOf(1, i)
    <2>1. \A m \in DOMAIN events : m > 1 => (m - 1 \in DOMAIN events' /\ events[m] = events'[m - 1])
      BY <1>4, <1>9
    <2>2. ASSUME NEW m \in DOMAIN events, m > 1, events[m].id = i PROVE Coming(i)'
      BY <2>1, <2>2 DEF Coming
    <2> QED
      BY <1>4, <1>10, <2>2 DEF IsLastOf
  <1>14. EventsReach'
    <2>1. \A j \in Live \ (missed \cup closedIds) : HasTab(j)' \/ Coming(j)' \/ stream = "off"
      BY <1>6, <1>11 DEF EventsInv, EventsReach, HasTab
    <2> QED
      BY <1>3, <1>9, <2>1 DEF EventsReach
  <1>15. EventsTell'
    <2> SUFFICES ASSUME stream # "off", NEW j \in Live \ missed
                 PROVE  /\ \A n \in DOMAIN events' : IsLastOf(n, j)' => events'[n].snap.pres = session[j].pres
                        /\ ~Coming(j)' => latest'[j] # None /\ latest'[j].pres = session[j].pres
                        /\ (~Coming(j)' /\ j \notin overwritten' /\ HasTab(j)')
                              => task'[j].snap.pres = session[j].pres
      BY <1>3, <1>9 DEF EventsTell
    <2>1. /\ \A n \in DOMAIN events : IsLastOf(n, j) => events[n].snap.pres = session[j].pres
          /\ ~Coming(j) => latest[j] # None /\ latest[j].pres = session[j].pres
          /\ (~Coming(j) /\ j \notin overwritten /\ HasTab(j)) => task[j].snap.pres = session[j].pres
      BY DEF EventsInv, EventsTell
    <2>2. \A n \in DOMAIN events' : IsLastOf(n, j)' => events'[n].snap.pres = session[j].pres
      BY <1>9, <1>12, <2>1
    <2>3. CASE j = i
      <3>1. latest'[i] = e.snap /\ e.snap # None
        BY <1>3, <1>5, SnapshotFacts DEF TypeOK
      <3>2. ~Coming(i)' => e.snap.pres = session[i].pres
        BY <1>4, <1>13, <2>1, <2>3
      <3>3. HasTab(i)' => task'[i].snap = e.snap
        BY <1>6
      <3>4. (~Coming(i)' /\ HasTab(i)') => task'[i].snap.pres = session[i].pres
        BY <3>2, <3>3
      <3>5. ~Coming(i)' => latest'[i] # None /\ latest'[i].pres = session[i].pres
        BY <3>1, <3>2
      <3> QED
        BY <2>2, <2>3, <3>4, <3>5
    <2>4. CASE j # i
      <3>1. j \in Ids /\ latest'[j] = latest[j] /\ task'[j] = task[j]
        BY <1>3, <1>5, <1>6, <1>9, <2>4 DEF TypeOK
      <3>2. (HasTab(j)' => HasTab(j)) /\ (Coming(j) => Coming(j)') /\ (j \notin overwritten' => j \notin overwritten)
        BY <1>3, <1>6, <1>11, <2>4 DEF HasTab
      <3> QED
        BY <2>1, <2>2, <3>1, <3>2
    <2> QED
      BY <2>3, <2>4
  <1>16. AnswersKnow'
    <2> SUFFICES ASSUME NEW j \in Ids, request[j] # None
                 PROVE  /\ request[j].rev <= revision'[j]
                        /\ (request[j].kind = "present" /\ request[j].pc = "served" /\ stream # "off"
                              /\ j \in Live \ missed /\ request[j].rev = revision'[j]) => Coming(j)'
      BY <1>3, <1>9 DEF AnswersKnow
    <2>1. /\ request[j].rev <= revision[j]
          /\ (request[j].kind = "present" /\ request[j].pc = "served" /\ stream # "off"
                /\ j \in Live \ missed /\ request[j].rev = revision[j]) => Coming(j)
      BY DEF EventsInv, AnswersKnow
    <2>2. request[j].rev \in Nat /\ revision[j] \in Nat
      BY RequestFacts DEF TypeOK
    <2>3. CASE j = i
      <3>1. revision'[j] = revision[j] + 1
        BY <1>3, <1>5, <2>3 DEF TypeOK
      <3> QED
        BY <2>1, <2>2, <3>1
    <2>4. CASE j # i
      <3>1. revision'[j] = revision[j] /\ (Coming(j) => Coming(j)')
        BY <1>3, <1>5, <1>11, <2>4 DEF TypeOK
      <3> QED
        BY <2>1, <3>1
    <2> QED
      BY <2>3, <2>4
  <1> QED
    BY <1>2, <1>7, <1>8, <1>14, <1>15, <1>16 DEF EventsInv

LEMMA CreateAnsweredKeeps == ASSUME IInv, load' = load, NEW c \in Creates, CreateAnswered(c) PROVE IInv'
  <1> USE DEF IInv
  <1> DEFINE i == create[c].id
             shows == [snap |-> Fresh, state |-> "running"]
             place == [group |-> "created", index |-> create[c].seq]
  <1>1. TypeOK'
    BY CreateAnsweredTypes DEF CreatesInv, RowsInv
  <1>2. UNCHANGED <<daemon, list, closedIds, latest, revision, request, typed>>
    BY DEF CreateAnswered
  <1>3. /\ create[c].pc = "made" /\ i \in Ids
        /\ create'[c].pc = "done" /\ create'[c].id = i /\ create'[c].seq = create[c].seq
        /\ create'[c].ok = (i \notin closedIds)
        /\ \A d \in Creates : d # c => create'[d] = create[d]
    <2>1. create' = [create EXCEPT ![c].pc = "done", ![c].ok = (i \notin closedIds)]
      BY DEF CreateAnswered
    <2>2. create[c].pc = "made" /\ i \in Ids
      BY CreateAnsweredIs DEF CreatesInv, RowsInv
    <2> QED
      BY <2>1, <2>2, EndedIs
  <1>4. \/ i \in closedIds /\ UNCHANGED <<initialInput, shown, overwritten>>
        \/ /\ i \notin closedIds
           /\ IsRow(tabs') /\ ToSet(tabs') = ToSet(tabs) \cup {i}
           /\ \A m, n \in DOMAIN tabs' : m < n => ~Before(order', tabs'[n], tabs'[m])
           /\ order' = [order EXCEPT ![i] = place]
           /\ task' = [task EXCEPT ![i] = shows]
           /\ \A j \in ToSet(tabs') : order'[j] # None /\ task'[j] # None
           /\ initialInput' = IF c \in load.commands THEN initialInput \cup {i} ELSE initialInput
           /\ Overwritten(i, Fresh)
    BY CreateAnsweredIs DEF CreatesInv, RowsInv
  <1> HIDE DEF i
  <1>5. i # None /\ ~create[c].ok /\ \A d \in Creates : d # c => create[d].id # i
    BY <1>3, NoneAssumption DEF CreatesInv, CreatesApart, i
  <1>6. CreatesApart'
    <2>1. create[c].id = i /\ \A d \in Creates : create'[d].id = create[d].id
      BY <1>3 DEF i
    <2>2. \A d \in Creates :
            /\ create'[d].ok => create'[d].pc = "done" /\ create'[d].id # None
            /\ create'[d].pc \in {"idle", "sent", "refused"} => create'[d].id = None
            /\ create'[d].pc = "made" => create'[d].id # None
            /\ create'[d].id # None => session'[create'[d].id] # None
      BY <1>2, <1>3, <1>5, <2>1 DEF CreatesInv, CreatesApart, daemon
    <2>3. \A a, d \in Creates : (a # d /\ create'[a].id # None) => create'[a].id # create'[d].id
      BY <2>1 DEF CreatesInv, CreatesApart
    <2> QED
      BY <2>2, <2>3 DEF CreatesApart
  <1>7. TypedOnce'
    BY <1>2, <1>3, <1>5, LoadType DEF CreatesInv, TypedOnce
  <1>8. typed[i] = 0
    <2>1. ASSUME typed[i] > 0 PROVE FALSE
      <3>1. PICK d \in load.commands : create[d].ok /\ create[d].id = i
        BY <1>3, <2>1 DEF CreatesInv, TypedOnce
      <3> QED
        BY <1>5, <3>1, LoadType
    <2> QED
      BY <1>3, <2>1 DEF TypeOK
  <1>9. CommandsKnown'
    <2> SUFFICES ASSUME NEW j \in initialInput'
                 PROVE  typed[j] = 0 /\ \E d \in load.commands \cap Creates : create'[d].ok /\ create'[d].id = j
      BY <1>2 DEF CommandsKnown
    <2>1. CASE j \in initialInput
      <3>1. PICK d \in load.commands \cap Creates : create[d].ok /\ create[d].id = j
        BY <2>1 DEF CreatesInv, CommandsKnown
      <3>2. create'[d] = create[d]
        BY <1>3, <1>5, <3>1
      <3> QED
        BY <2>1, <3>1, <3>2 DEF CreatesInv, CommandsKnown
    <2>2. CASE j \notin initialInput
      <3>1. j = i /\ i \notin closedIds /\ c \in load.commands
        BY <1>4, <2>2
      <3> QED
        BY <1>3, <1>8, <3>1
    <2> QED
      BY <2>1, <2>2
  <1>10. RowsInv'
    <2>1. CASE i \in closedIds
      BY <1>2, <1>3, <1>4, <2>1, RowsSame DEF shown, i
    <2>2. CASE i \notin closedIds
      <3>1. /\ IsRow(tabs') /\ ToSet(tabs') = ToSet(tabs) \cup {i}
            /\ \A m, n \in DOMAIN tabs' : m < n => ~Before(order', tabs'[n], tabs'[m])
            /\ order' = [order EXCEPT ![i] = place]
            /\ \A j \in ToSet(tabs') : order'[j] # None /\ task'[j] # None
        BY <1>4, <2>2
      <3>2. order'[i] = place /\ \A j \in Ids : j # i => order'[j] = order[j]
        BY <1>3, <3>1 DEF TypeOK
      <3>3. \A j : HasTab(j)' <=> HasTab(j) \/ j = i
        BY <3>1 DEF HasTab
      <3>4. TabsHave'
        BY <3>1 DEF TabsHave, HasTab
      <3>5. TabsInOrder'
        <4>1. \A m, n \in DOMAIN tabs' : m < n => tabs'[m] # tabs'[n]
          BY <3>1 DEF IsRow
        <4>2. ASSUME NEW d \in Creates, create'[d].ok, create'[d].id \in ToSet(tabs')
              PROVE  order'[create'[d].id] = [group |-> "created", index |-> create'[d].seq]
          <5>1. CASE d = c
            BY <1>3, <3>2, <5>1 DEF place
          <5>2. CASE d # c
            <6>1. create'[d] = create[d] /\ create[d].id # i
              BY <1>3, <1>5, <5>2
            <6>2. HasTab(create[d].id) /\ create[d].id \in Ids
              BY <3>1, <4>2, <6>1, TabsAreIds DEF HasTab
            <6> QED
              BY <3>2, <4>2, <6>1, <6>2 DEF RowsInv, TabsInOrder
          <5> QED
            BY <5>1, <5>2
        <4> QED
          BY <3>1, <4>1, <4>2 DEF TabsInOrder, HasTab
      <3>6. RequestsHaveTab' /\ ClosingKnown'
        BY <1>2, <2>2, <3>3 DEF RowsInv, RequestsHaveTab, ClosingKnown
      <3>7. CreatedHaveTab'
        <4>1. \A d \in Creates : create'[d].ok => create'[d].id \in ToSet(tabs') \/ create'[d].id \in closedIds
          BY <1>3, <3>1 DEF RowsInv, CreatedHaveTab, HasTab
        <4> QED
          BY <1>2, <4>1 DEF CreatedHaveTab, HasTab
      <3> QED
        BY <3>4, <3>5, <3>6, <3>7 DEF RowsInv
    <2> QED
      BY <2>1, <2>2
  <1>11. EventsInv' /\ ListKnown'
    <2>1. overwritten \subseteq overwritten'
      BY <1>4 DEF Overwritten
    <2>2. \A j \in Ids \ closedIds' : j \in closedIds \/ HasTab(j) => HasTab(j)'
      BY <1>2, <1>4 DEF HasTab, shown
    <2>3. \A j \in Ids : HasTab(j)' =>
              \/ HasTab(j) /\ task'[j] = task[j]
              \/ j \in overwritten'
              \/ latest[j] # None => task'[j].snap.pres = latest[j].pres
      <3>1. CASE i \in closedIds
        BY <1>4, <3>1 DEF HasTab, shown
      <3>2. CASE i \notin closedIds
        <4>1. /\ ToSet(tabs') = ToSet(tabs) \cup {i} /\ task'[i] = shows
              /\ \A j \in Ids : j # i => task'[j] = task[j]
          BY <1>3, <1>4, <3>2 DEF TypeOK
        <4>2. i \in overwritten' \/ (latest[i] # None => task'[i].snap.pres = latest[i].pres)
          BY <1>4, <3>2, <4>1 DEF Overwritten, shows
        <4> QED
          BY <4>1, <4>2 DEF HasTab
      <3> QED
        BY <3>1, <3>2
    <2> QED
      BY <1>2, <2>1, <2>2, <2>3, EventsKept DEF list, ListKnown
  <1> QED
    BY <1>1, <1>6, <1>7, <1>9, <1>10, <1>11 DEF CreatesInv

LEMMA AskKeeps ==
    ASSUME IInv, load' = load, NEW i \in Ids,
           AskPresentation(i) \/ AskRename(i) \/ AskStop(i) \/ AskClose(i)
    PROVE  IInv'
  <1> USE DEF IInv
  <1>1. /\ TypeOK'
        /\ HasTab(i) /\ request[i] = None
        /\ request'[i] # None /\ request'[i].pc = "sent" /\ request'[i].rev = revision[i]
        /\ \A j \in Ids : j # i => request'[j] = request[j]
        /\ \/ request'[i].kind = "close" /\ closedIds' = closedIds \cup {i}
           \/ request'[i].kind # "close" /\ closedIds' = closedIds
        /\ \A j \in Ids : \/ task'[j] = task[j]
                          \/ task'[j] # None /\ task'[j].snap.pres = task[j].snap.pres
    BY AskTypes DEF RowsInv
  <1>2. UNCHANGED <<daemon, list, tabs, order, latest, overwritten, revision, calls, typed, initialInput>>
    BY DEF AskPresentation, AskRename, AskStop, AskClose, shown, history
  <1>3. CreatesInv' /\ ListKnown'
    BY <1>2, CreatesKept DEF daemon, calls, list, ListKnown
  <1>4. RowsInv'
    <2>1. /\ \A j \in Ids : request'[j] # None => HasTab(j)
          /\ \A j \in Ids : (request'[j] # None /\ request'[j].kind = "close") => j \in closedIds'
          /\ \A j \in Ids : (j \in closedIds' /\ HasTab(j)) => request'[j] # None /\ request'[j].kind = "close"
      BY <1>1 DEF RowsInv, RequestsHaveTab, ClosingKnown
    <2>2. closedIds \subseteq closedIds'
      BY <1>1
    <2> QED
      BY <1>1, <1>2, <2>1, <2>2, RowsKept DEF calls
  <1>5. EventsInv'
    <2>1. revision[i] <= revision[i]
      BY DEF TypeOK
    <2>2. \A j : HasTab(j)' <=> HasTab(j)
      BY <1>2 DEF HasTab
    <2>3. \A j \in Ids : request'[j] # None =>
              request'[j] = request[j] \/ (request'[j].pc # "served" /\ request'[j].rev <= revision[j])
      BY <1>1, <2>1
    <2>4. \A j \in Ids \ closedIds' : j \in closedIds \/ HasTab(j) => HasTab(j)'
      BY <1>1, <2>2
    <2>5. \A j \in Ids : HasTab(j)' =>
              \/ HasTab(j) /\ task'[j] = task[j]
              \/ HasTab(j) /\ task'[j].snap.pres = task[j].snap.pres
      BY <1>1, <2>2
    <2> QED
      BY <1>2, <2>3, <2>4, <2>5, EventsKept
  <1> QED
    BY <1>1, <1>3, <1>4, <1>5

LEMMA AnsweredKeeps ==
    ASSUME IInv, load' = load, NEW i \in Ids,
           PresentationAnswered(i) \/ RenameAnswered(i) \/ StopAnswered(i)
    PROVE  IInv'
  <1> USE DEF IInv
  <1>1. /\ TypeOK'
        /\ request[i] # None /\ request[i].kind # "close" /\ request[i].pc = "served"
        /\ request' = [request EXCEPT ![i] = None]
        /\ task[i] \in Task
        /\ \A j \in Ids : j # i => task'[j] = task[j]
        /\ task'[i] # None /\ task'[i].snap \in {task[i].snap, request[i].to}
    BY AnsweredTypes DEF RowsInv
  <1>2. /\ UNCHANGED <<daemon, list, tabs, order, closedIds, latest, revision, calls, typed, initialInput>>
        /\ overwritten \subseteq overwritten'
    BY DEF PresentationAnswered, RenameAnswered, StopAnswered, Overwritten, history
  <1>3. request'[i] = None /\ \A j \in Ids : j # i => request'[j] = request[j]
    BY <1>1 DEF TypeOK
  <1>4. CreatesInv' /\ ListKnown'
    BY <1>2, CreatesKept DEF daemon, calls, list, ListKnown
  <1>5. RowsInv'
    <2>1. HasTab(i) /\ i \notin closedIds
      BY <1>1 DEF RowsInv, RequestsHaveTab, ClosingKnown
    <2>2. /\ \A j \in Ids : request'[j] # None => HasTab(j)
          /\ \A j \in Ids : (request'[j] # None /\ request'[j].kind = "close") => j \in closedIds'
          /\ \A j \in Ids : (j \in closedIds' /\ HasTab(j)) => request'[j] # None /\ request'[j].kind = "close"
      BY <1>2, <1>3, <2>1 DEF RowsInv, RequestsHaveTab, ClosingKnown
    <2>3. \A j \in Ids : task'[j] = task[j] \/ task'[j] # None
      BY <1>1
    <2> QED
      BY <1>2, <2>2, <2>3, RowsKept DEF calls
  <1>6. EventsInv'
    <2>1. \A j : HasTab(j)' <=> HasTab(j)
      BY <1>2 DEF HasTab
    <2>2. \/ task'[i].snap.pres = task[i].snap.pres
          \/ i \in overwritten'
          \/ latest[i] # None => task'[i].snap.pres = latest[i].pres
          \/ (stream # "off" /\ i \in Live \ missed) => Coming(i)
      <3>1. CASE PresentationAnswered(i) /\ HasTab(i) /\ revision[i] = request[i].rev
        BY <1>1, <3>1 DEF PresentationAnswered, EventsInv, AnswersKnow
      <3>2. CASE PresentationAnswered(i) /\ ~(HasTab(i) /\ revision[i] = request[i].rev)
        BY <3>2 DEF PresentationAnswered
      <3>3. CASE RenameAnswered(i)
        <4>1. task'[i].snap = request[i].to
          BY <1>1, <3>3 DEF RenameAnswered, TypeOK, Task
        <4>2. Overwritten(i, request[i].to)
          BY <3>3 DEF RenameAnswered
        <4> QED
          BY <4>1, <4>2 DEF Overwritten
      <3>4. CASE StopAnswered(i)
        BY <1>1, <3>4 DEF StopAnswered, TypeOK, Task
      <3> QED
        BY <3>1, <3>2, <3>3, <3>4
    <2>3. HasTab(i)
      BY <1>1 DEF RowsInv, RequestsHaveTab
    <2> QED
      BY <1>1, <1>2, <1>3, <2>1, <2>2, <2>3, EventsKept
  <1> QED
    BY <1>1, <1>4, <1>5, <1>6

\* The tab goes with the answer of its close, or with its failure when exited.
LEMMA RemovedKeeps ==
    ASSUME IInv, TypeOK', load' = load, NEW i \in Ids, Removed(i),
           request[i] # None, request[i].kind = "close", request' = [request EXCEPT ![i] = None],
           UNCHANGED <<daemon, list, closedIds, revision, latest, calls, history>>
    PROVE  IInv'
  <1> USE DEF IInv
  <1>1. /\ RowsInv' /\ i \in closedIds
        /\ \A j : HasTab(j)' <=> HasTab(j) /\ j # i
        /\ \A j \in Ids : j # i => task'[j] = task[j]
    BY RowsShrink DEF calls
  <1>2. request'[i] = None /\ \A j \in Ids : j # i => request'[j] = request[j]
    BY DEF TypeOK
  <1>3. CreatesInv' /\ ListKnown'
    BY CreatesKept DEF daemon, calls, list, history, ListKnown, Removed
  <1>4. EventsInv'
    <2>1. overwritten' = overwritten
      BY DEF history
    <2>2. \A j \in Ids \ closedIds' : j \in closedIds \/ HasTab(j) => HasTab(j)'
      BY <1>1
    <2>3. \A j \in Ids : HasTab(j)' => HasTab(j) /\ task'[j] = task[j]
      BY <1>1
    <2>4. \A j \in Ids : request'[j] # None => request'[j] = request[j]
      BY <1>2
    <2> QED
      BY <2>1, <2>2, <2>3, <2>4, EventsKept
  <1> QED
    BY <1>1, <1>3, <1>4

LEMMA CloseAnsweredKeeps == ASSUME IInv, load' = load, NEW i \in Ids, CloseAnswered(i) PROVE IInv'
  <1>1. TypeOK'
    BY CloseAnsweredTypes DEF IInv, RowsInv
  <1> QED
    BY <1>1, RemovedKeeps DEF CloseAnswered

LEMMA RequestFailsKeeps == ASSUME IInv, load' = load, NEW i \in Ids, RequestFails(i) PROVE IInv'
  <1> USE DEF IInv
  <1>1. /\ TypeOK'
        /\ request[i] # None /\ request' = [request EXCEPT ![i] = None]
        /\ \/ request[i].kind = "close" /\ Removed(i) /\ closedIds' = closedIds
           \/ /\ UNCHANGED <<tabs, order, initialInput, active>>
              /\ closedIds' = IF request[i].kind = "close" THEN closedIds \ {i} ELSE closedIds
              /\ \A j \in Ids : \/ task'[j] = task[j]
                                \/ task'[j] # None /\ task'[j].snap.pres = task[j].snap.pres
    BY RequestFailsTypes DEF RowsInv
  <1>2. UNCHANGED <<daemon, list, revision, latest, calls, history>>
    BY DEF RequestFails
  <1>3. CASE request[i].kind = "close" /\ Removed(i) /\ closedIds' = closedIds
    BY <1>1, <1>2, <1>3, RemovedKeeps
  <1>4. CASE /\ UNCHANGED <<tabs, order, initialInput, active>>
             /\ closedIds' = IF request[i].kind = "close" THEN closedIds \ {i} ELSE closedIds
             /\ \A j \in Ids : \/ task'[j] = task[j]
                               \/ task'[j] # None /\ task'[j].snap.pres = task[j].snap.pres
    <2>1. request'[i] = None /\ \A j \in Ids : j # i => request'[j] = request[j]
      BY <1>1 DEF TypeOK
    <2>2. CreatesInv' /\ ListKnown'
      BY <1>2, <1>4, CreatesKept DEF daemon, calls, list, history, ListKnown
    <2>3. HasTab(i) /\ i \notin closedIds'
      BY <1>1, <1>4 DEF RowsInv, RequestsHaveTab, ClosingKnown
    <2>4. RowsInv'
      <3>1. /\ \A j \in Ids : request'[j] # None => HasTab(j)
            /\ \A j \in Ids : (request'[j] # None /\ request'[j].kind = "close") => j \in closedIds'
            /\ \A j \in Ids : (j \in closedIds' /\ HasTab(j)) => request'[j] # None /\ request'[j].kind = "close"
        BY <1>4, <2>1, <2>3 DEF RowsInv, RequestsHaveTab, ClosingKnown
      <3>2. \A j \in closedIds : HasTab(j) \/ j \in closedIds'
        BY <1>4, <2>3
      <3>3. \A j \in Ids : task'[j] = task[j] \/ task'[j] # None
        BY <1>4
      <3> QED
        BY <1>2, <1>4, <3>1, <3>2, <3>3, RowsKept DEF calls
    <2>5. EventsInv'
      <3>1. \A j : HasTab(j)' <=> HasTab(j)
        BY <1>4 DEF HasTab
      <3>2. \A j \in Ids \ closedIds' : j \in closedIds \/ HasTab(j) => HasTab(j)'
        BY <1>4, <2>3, <3>1
      <3>3. \A j \in Ids : HasTab(j)' =>
                \/ HasTab(j) /\ task'[j] = task[j]
                \/ HasTab(j) /\ task'[j].snap.pres = task[j].snap.pres
        BY <1>4, <3>1
      <3>4. \A j \in Ids : request'[j] # None => request'[j] = request[j]
        BY <2>1
      <3> QED
        BY <1>2, <3>2, <3>3, <3>4, EventsKept DEF history
    <2> QED
      BY <1>1, <2>2, <2>4, <2>5
  <1> QED
    BY <1>1, <1>3, <1>4

LEMMA ClaimsKeeps == ASSUME IInv, load' = load, NEW i \in Ids, Claims(i) PROVE IInv'
  <1> USE DEF IInv
  <1>1. TypeOK'
    BY ClaimsTypes DEF CreatesInv
  <1>2. UNCHANGED <<daemon, list, shown, closedIds, latest, overwritten, revision, request, calls>>
    BY DEF Claims
  <1>3. /\ i \in initialInput /\ initialInput' = initialInput \ {i}
        /\ typed'[i] = typed[i] + 1 /\ \A j \in Ids : j # i => typed'[j] = typed[j]
    BY DEF Claims, TypeOK
  <1>4. typed[i] = 0 /\ \E c \in load.commands \cap Creates : create[c].ok /\ create[c].id = i
    BY <1>3 DEF CreatesInv, CommandsKnown
  <1>5. CreatesInv'
    <2>1. CreatesApart'
      BY <1>2 DEF CreatesInv, CreatesApart, calls, daemon
    <2>2. CommandsKnown'
      BY <1>2, <1>3 DEF CreatesInv, CommandsKnown, calls, TypeOK
    <2>3. TypedOnce'
      BY <1>2, <1>3, <1>4 DEF CreatesInv, TypedOnce, calls
    <2> QED
      BY <2>1, <2>2, <2>3 DEF CreatesInv
  <1>6. RowsInv' /\ ListKnown'
    BY <1>2, RowsSame DEF shown, calls, list, ListKnown
  <1>7. EventsInv'
    BY <1>2, EventsKept DEF HasTab, shown
  <1> QED
    BY <1>1, <1>5, <1>6, <1>7

LEMMA SocketClosesKeeps == ASSUME IInv, load' = load, NEW i \in Ids, SocketCloses(i) PROVE IInv'
  <1> USE DEF IInv
  <1>1. /\ TypeOK'
        /\ \A j \in Ids : \/ task'[j] = task[j]
                          \/ task'[j] # None /\ task'[j].snap.pres = task[j].snap.pres
    BY SocketClosesTypes DEF RowsInv
  <1>2. UNCHANGED <<daemon, list, tabs, order, closedIds, latest, overwritten, revision, request,
                    calls, typed, initialInput>>
    BY DEF SocketCloses, history
  <1>3. CreatesInv' /\ RowsInv' /\ ListKnown'
    BY <1>1, <1>2, CreatesKept, RowsSame DEF daemon, calls, list, ListKnown
  <1>4. EventsInv'
    BY <1>1, <1>2, EventsKept DEF HasTab
  <1> QED
    BY <1>1, <1>3, <1>4

LEMMA ActivateKeeps == ASSUME IInv, load' = load, Activate PROVE IInv'
  <1> USE DEF IInv
  <1>1. TypeOK'
    BY ActivateTypes
  <1>2. UNCHANGED <<daemon, list, shown, closedIds, latest, overwritten, revision, request, calls,
                    typed, initialInput>>
    BY DEF Activate, history
  <1>3. CreatesInv' /\ RowsInv' /\ ListKnown'
    BY <1>2, CreatesKept, RowsSame DEF daemon, shown, calls, list, ListKnown
  <1>4. EventsInv'
    BY <1>2, EventsKept DEF HasTab, shown
  <1> QED
    BY <1>1, <1>3, <1>4

-----------------------------------------------------------------------------
(* The theorems *)

LEMMA InitHolds == Init => IInv
  <1> SUFFICES ASSUME Init PROVE IInv
    OBVIOUS
  <1>1. TypeOK
    BY InitTypes
  <1>2. \A i : ~HasTab(i)
    BY DEF Init, HasTab, ToSet
  <1>3. CreatesInv
    <2>1. \A c \in Creates : create[c].pc = "idle" /\ ~create[c].ok /\ create[c].id = None
      BY DEF Init
    <2>2. initialInput = {} /\ \A i \in Ids : typed[i] = 0
      BY DEF Init
    <2> QED
      BY <2>1, <2>2 DEF CreatesInv, CreatesApart, CommandsKnown, TypedOnce
  <1>4. ListKnown
    BY DEF Init, ListKnown
  <1>5. RowsInv
    <2>1. /\ tabs = <<>> /\ closedIds = {} /\ \A i \in Ids : request[i] = None
          /\ \A c \in Creates : ~create[c].ok
      BY DEF Init
    <2>2. TabsInOrder
      BY <1>2, <2>1 DEF TabsInOrder
    <2> QED
      BY <1>2, <2>1, <2>2 DEF RowsInv, TabsHave, RequestsHaveTab, ClosingKnown, CreatedHaveTab
  <1>6. EventsInv
    BY DEF Init, EventsInv, EventsReach, EventsTell, AnswersKnow
  <1> QED
    BY <1>1, <1>3, <1>4, <1>5, <1>6 DEF IInv

LEMMA NextKeeps == IInv /\ [Next]_vars => IInv'
  <1> SUFFICES ASSUME IInv, [Next]_vars PROVE IInv'
    OBVIOUS
  <1>1. CASE Next
    <2>1. load' = load
      BY <1>1 DEF Next
    <2>2. CASE StreamLists \/ StreamSubscribes \/ EventArrives
      BY <2>1, <2>2, StreamListsKeeps, StreamSubscribesKeeps, EventArrivesKeeps
    <2>3. CASE ListRead \/ ListArrives \/ ListFails
      BY <2>1, <2>3, ListReadKeeps, ListArrivesKeeps, ListFailsKeeps
    <2>4. CASE Elsewhere
      BY <2>1, <2>4, ElsewhereKeeps
    <2>5. ASSUME NEW c \in Creates,
                 CallCreate(c) \/ CreateServed(c) \/ CreateRefused(c) \/ CreateAnswered(c) \/ CreateFails(c)
          PROVE  IInv'
      BY <2>1, <2>5, CallCreateKeeps, CreateServedKeeps, CreateRefusedKeeps, CreateAnsweredKeeps,
         CreateFailsKeeps
    <2>6. ASSUME NEW i \in Ids, AskPresentation(i) \/ AskRename(i) \/ AskStop(i) \/ AskClose(i)
          PROVE  IInv'
      BY <2>1, <2>6, AskKeeps
    <2>7. ASSUME NEW i \in Ids,
                 \/ RequestServed(i)
                 \/ PresentationAnswered(i) \/ RenameAnswered(i) \/ StopAnswered(i)
                 \/ CloseAnswered(i) \/ RequestFails(i)
          PROVE  IInv'
      BY <2>1, <2>7, RequestServedKeeps, AnsweredKeeps, CloseAnsweredKeeps, RequestFailsKeeps
    <2>8. ASSUME NEW i \in Ids, Claims(i) \/ SocketCloses(i) PROVE IInv'
      BY <2>1, <2>8, ClaimsKeeps, SocketClosesKeeps
    <2>9. CASE Activate
      BY <2>1, <2>9, ActivateKeeps
    <2> QED
      BY <1>1, <2>2, <2>3, <2>4, <2>5, <2>6, <2>7, <2>8, <2>9 DEF Next
  <1>2. CASE UNCHANGED vars
    <2>1. UNCHANGED <<daemon, list, shown, active, closedIds, revision, latest, initialInput, calls,
                      request, counters, load, history>>
      BY <1>2 DEF vars
    <2>2. UNCHANGED <<session, stream, events, missed, hydration, listing, tabs, task, order, create,
                      sequence, latestForeground, typed, overwritten>>
      BY <2>1 DEF daemon, list, shown, calls, history
    <2>3. TypeOK'
      BY <2>1, <2>2 DEF IInv, TypeOK
    <2>4. CreatesInv' /\ ListKnown' /\ RowsInv'
      BY <2>1, <2>2, CreatesKept, RowsSame DEF IInv, ListKnown
    <2>5. EventsInv'
      BY <2>1, <2>2, EventsKept DEF IInv, HasTab
    <2> QED
      BY <2>3, <2>4, <2>5 DEF IInv
  <1> QED
    BY <1>1, <1>2

\* The inductive invariant holds in every reachable state.
THEOREM Invariant == Spec => []IInv
  BY InitHolds, NextKeeps, PTL DEF Spec

\* The state of the dock and of the daemon keeps its types: the rows, the
\* revisions and the answers of use-agent-terminal-tasks.ts.
THEOREM TypesCorrect == Spec => []TypeOK
  <1>1. IInv => TypeOK
    BY DEF IInv
  <1> QED
    BY <1>1, Invariant, PTL

\* A tab appears once, attached tabs stand before created ones and those in the
\* order of their calls, whatever order answers, events and lists come in: what
\* runCreate's sequence and sortTasks are for.
THEOREM TabsStandInOrder == Spec => []TabsInOrder
  <1>1. IInv => TabsInOrder
    BY DEF IInv, RowsInv
  <1> QED
    BY <1>1, Invariant, PTL

\* The opening command of a shell is typed at most once, in the shell whose
\* create asked for it: claimInitialInput gives it out once.
THEOREM CommandsTypedOnce == Spec => []TypedOnce
  <1>1. IInv => TypedOnce
    BY DEF IInv, CreatesInv
  <1> QED
    BY <1>1, Invariant, PTL

\* What the dock closes has no tab once the close is over: closedIdsRef keeps
\* out the answer of its create, a late event and a late list.
THEOREM ClosedHasNoTab == Spec => []ClosedStaysClosed
  <1>1. IInv => ClosedStaysClosed
    BY DEF IInv, RowsInv, TypeOK, ClosingKnown, ClosedStaysClosed
  <1> QED
    BY <1>1, Invariant, PTL

\* Once nothing is on its way every live session is a tab, but for those the
\* dock closes and those the stream has missed: the list and the events reach
\* them all together, in whatever order.
THEOREM SessionsSeen == Spec => []NoSessionUnseen
  <1>1. IInv => NoSessionUnseen
    BY DEF IInv, EventsInv, EventsReach, IsQuiet, Coming, NoSessionUnseen
  <1> QED
    BY <1>1, Invariant, PTL

\* Once nothing is on its way a tab shows where its session is, unless an event
\* was missed or an answer that no revision guards came after it: what the
\* presentationEventRevisions of runPresentationAction are for.
THEOREM PresentationsCurrent == Spec => []PresentationCurrent
  <1>1. IInv => PresentationCurrent
    BY DEF IInv, EventsInv, EventsTell, IsQuiet, Coming, PresentationCurrent, Live
  <1> QED
    BY <1>1, Invariant, PTL

\* A create that has its session keeps it.
LEMMA CreateIdStays ==
    ASSUME IInv, Next, NEW c \in Creates, create[c].id # None
    PROVE  create'[c].id = create[c].id
  <1> USE DEF IInv
  <1>1. ASSUME NEW d \in Creates, CreateServed(d) PROVE create'[c].id = create[c].id
    <2>1. d # c
      BY <1>1 DEF CreateServed, CreatesInv, CreatesApart
    <2> QED
      BY <1>1, <2>1 DEF CreateServed, TypeOK, Create
  <1>2. ASSUME NEW d \in Creates, CallCreate(d) \/ CreateRefused(d) \/ CreateAnswered(d) \/ CreateFails(d)
        PROVE  create'[c].id = create[c].id
    <2>1. CASE CallCreate(d)
      BY <2>1 DEF CallCreate, TypeOK, Create
    <2>2. CASE CreateRefused(d)
      BY <2>2 DEF CreateRefused, TypeOK, Create
    <2>3. CASE CreateAnswered(d)
      <3>1. create' = [create EXCEPT ![d].pc = "done", ![d].ok = (create[d].id \notin closedIds)]
        BY <2>3 DEF CreateAnswered
      <3> QED
        BY <3>1, EndedIs
    <2>4. CASE CreateFails(d)
      BY <2>4 DEF CreateFails, TypeOK, Create
    <2> QED
      BY <1>2, <2>1, <2>2, <2>3, <2>4
  <1>3. ASSUME \A d \in Creates : ~(\/ CallCreate(d) \/ CreateServed(d) \/ CreateRefused(d)
                                     \/ CreateAnswered(d) \/ CreateFails(d))
        PROVE  create' = create
    <2>1. CASE \/ StreamLists \/ StreamSubscribes \/ EventArrives \/ ListRead \/ ListArrives \/ ListFails
               \/ Elsewhere \/ Activate
      BY <2>1 DEF StreamLists, StreamSubscribes, EventArrives, ListRead, ListArrives, ListFails,
                  Elsewhere, Activate, calls
    <2>2. ASSUME NEW i \in Ids,
                 \/ AskPresentation(i) \/ AskRename(i) \/ AskStop(i) \/ AskClose(i) \/ RequestServed(i)
                 \/ PresentationAnswered(i) \/ RenameAnswered(i) \/ StopAnswered(i)
                 \/ CloseAnswered(i) \/ RequestFails(i) \/ Claims(i) \/ SocketCloses(i)
          PROVE  create' = create
      BY <2>2 DEF AskPresentation, AskRename, AskStop, AskClose, RequestServed, PresentationAnswered,
                  RenameAnswered, StopAnswered, CloseAnswered, RequestFails, Claims, SocketCloses, calls
    <2> QED
      BY <1>3, <2>1, <2>2 DEF Next
  <1> QED
    BY <1>1, <1>2, <1>3

\* What a step may bring to the front.
LEMMA FrontIs ==
    ASSUME IInv, IInv', Next, active' # active,
           ~Activate, \A i \in Ids : ~(request[i] # None /\ request'[i] = None)
    PROVE  \/ \E i \in ToSet(tabs') : active' = i /\ order'[i].group = "attached"
           \/ \E c \in Creates \ load.background : create[c].id \in Ids /\ active' = create[c].id
  <1> USE DEF IInv
  <1>1. CASE ListArrives
    BY <1>1, ListArrivesIs DEF RowsInv
  <1>2. ASSUME NEW c \in Creates, CreateAnswered(c)
        PROVE  \/ \E i \in ToSet(tabs') : active' = i /\ order'[i].group = "attached"
               \/ c \notin load.background /\ create[c].id \in Ids /\ active' = create[c].id
    BY <1>2, CreateAnsweredIs DEF CreatesInv, RowsInv
  <1>3. ASSUME NEW c \in Creates, CreateFails(c)
        PROVE  \E i \in ToSet(tabs') : active' = i /\ order'[i].group = "attached"
    <2>1. CreateEnds(c, active, tabs, order) /\ tabs' = tabs /\ order' = order /\ tabs \in Seq(Ids)
      BY <1>3 DEF CreateFails, shown, TypeOK
    <2> QED
      BY <2>1, CreateEndsIs
  <1>4. ASSUME NEW i \in Ids, CloseAnswered(i) \/ RequestFails(i) PROVE FALSE
    <2>1. request[i] # None /\ request' = [request EXCEPT ![i] = None]
      BY <1>4 DEF CloseAnswered, RequestFails
    <2> QED
      BY <2>1 DEF TypeOK
  <1>5. CASE StreamLists \/ StreamSubscribes \/ EventArrives \/ ListRead \/ ListFails \/ Elsewhere
    BY <1>5 DEF StreamLists, StreamSubscribes, EventArrives, ListRead, ListFails, Elsewhere
  <1>6. ASSUME NEW c \in Creates, CallCreate(c) \/ CreateServed(c) \/ CreateRefused(c) PROVE FALSE
    BY <1>6 DEF CallCreate, CreateServed, CreateRefused
  <1>7. ASSUME NEW i \in Ids,
               \/ AskPresentation(i) \/ AskRename(i) \/ AskStop(i) \/ AskClose(i) \/ RequestServed(i)
               \/ PresentationAnswered(i) \/ RenameAnswered(i) \/ StopAnswered(i)
               \/ Claims(i) \/ SocketCloses(i)
        PROVE  FALSE
    BY <1>7 DEF AskPresentation, AskRename, AskStop, AskClose, RequestServed, PresentationAnswered,
                RenameAnswered, StopAnswered, Claims, SocketCloses
  <1> QED
    BY <1>1, <1>2, <1>3, <1>4, <1>5, <1>6, <1>7 DEF Next

\* A task created in the background comes to the front by the person or by the
\* close of the tab in front, never by an answer, an event or a list: what
\* latestForegroundSequence and activateFirstAttached see to.
THEOREM BackgroundTasksStay == Spec => BackgroundStays
  <1>1. ASSUME IInv, IInv', [Next]_vars, NEW c \in load.background,
               create[c].id # None, active' = create[c].id, active # active', create'[c].ok,
               ~Activate, \A i \in Ids : ~(request[i] # None /\ request'[i] = None)
        PROVE  FALSE
    <2>1. c \in Creates
      BY <1>1, DockAssumption DEF IInv, TypeOK
    <2>2. Next
      BY <1>1 DEF vars
    <2>3. CASE \E i \in ToSet(tabs') : active' = i /\ order'[i].group = "attached"
      <3>1. create'[c].id = create[c].id
        BY <1>1, <2>1, <2>2, CreateIdStays
      <3>2. create'[c].ok /\ create'[c].id \in ToSet(tabs') /\ order'[create'[c].id].group = "attached"
        BY <1>1, <2>3, <3>1
      <3>3. order'[create'[c].id] = [group |-> "created", index |-> create'[c].seq]
        BY <1>1, <2>1, <3>2 DEF IInv, RowsInv, TabsInOrder, HasTab
      <3> QED
        BY <3>2, <3>3
    <2>4. CASE \E d \in Creates \ load.background : create[d].id \in Ids /\ active' = create[d].id
      BY <1>1, <2>1, <2>4 DEF IInv, CreatesInv, CreatesApart
    <2> QED
      BY <1>1, <2>2, <2>3, <2>4, FrontIs
  <1>2. IInv /\ IInv' /\ [Next]_vars =>
          [ \A c \in load.background :
              (create[c].id # None /\ active' = create[c].id /\ active # active' /\ create'[c].ok)
                => \/ Activate
                   \/ \E i \in Ids : request[i] # None /\ request'[i] = None ]_vars
    BY <1>1
  <1> QED
    BY <1>2, Invariant, PTL DEF Spec, BackgroundStays
=============================================================================
