------------------------------ MODULE FleetProofs ------------------------------
(***************************************************************************)
(* The fleet service: its vehicles and trailers, and its calls of other    *)
(* services.                                                               *)
(*                                                                         *)
(* For any assets, requests, trips and instants, the events of an asset    *)
(* tell its whole life in order, one spec version is in force at a time,   *)
(* and no trip takes up an asset after a hard delete has found nothing that*)
(* refers to it.  Whoever writes a row holds its lock, an id under creation*)
(* is nobody else's, and what a hard delete is about was deleted before.   *)
(*                                                                         *)
(* For any tasks, thresholds and times, the state of a breaker agrees with *)
(* its count, and the lock of the token cache lets one task renew the token*)
(* for all who found it old.                                               *)
(***************************************************************************)
EXTENDS FleetAssets, ServiceCalls, FiniteSetTheorems, TLAPS

\* What a request may be at, and which of them hold the row lock.
Writes == {"patch", "deactivate", "reactivate", "softDelete", "addSpec"}
Works ==
    {Idle}
        \cup [op: {"create"}, asset: Assets, key: Keys, plate: Plates, from: Instants \cup {Forever}]
        \cup [op: {"get"}, asset: Assets, seen: Nat, stream: Nat]
        \cup [op: {"patch"}, asset: Assets, seen: Nat, plate: Plates]
        \cup [op: {"deactivate", "reactivate", "softDelete"}, asset: Assets, seen: Nat]
        \cup [op: {"addSpec"}, asset: Assets]
        \cup [op: {"hardDelete"}, asset: Assets, seen: Nat, at: {"checked", "unreferenced"}]

Masters == [state: States, kind: Kinds, status: Statuses, version: Nat, stream: Nat, plate: Plates \cup {Nothing}]
Announced == [event: {"master", "spec", "tombstone"}, version: Nat]

FleetTypes ==
    /\ asset \in [Assets -> Masters]
    /\ specs \in SpecTables
    /\ log \in [Assets -> Seq(Announced)]
    /\ settled \in [Assets -> SUBSET Nat]
    /\ sending \in [Assets -> SUBSET Nat]
    /\ since \in [Assets -> SUBSET {"claim", "echo"}]
    /\ rowLock \in [Assets -> Requests \cup {Nothing}]
    /\ req \in [Requests -> Works]
    /\ trip \in [Trips -> [at: {"none", "validated", "active"}, uses: SUBSET Assets, late: SUBSET Assets]]

\* A request that writes a row holds its lock, and the row is live.
WritersInv ==
    \A p \in Requests : req[p].op \in Writes =>
        rowLock[req[p].asset] = p /\ asset[req[p].asset].state = "live"

\* An id under creation is nobody else's.
CreatorsInv ==
    \A p \in Requests : req[p].op = "create" =>
        /\ asset[req[p].asset].state = "none"
        /\ \A q \in Requests \ {p} : req[q] # Idle => req[q].asset # req[p].asset

\* What a hard delete is about has been soft-deleted, so that no trip can be late.
DeletersInv ==
    \A p \in Requests : req[p].op = "hardDelete" => asset[req[p].asset].state \in {"softDeleted", "gone"}
LateInv == \A t \in Trips : trip[t].late = {}

\* The events of one asset.
Of(history, event) == {i \in DOMAIN history : history[i].event = event}
Life(row, history) ==
    /\ {history[i].version : i \in Of(history, "master")} = 1 .. row.version
    /\ \A i, j \in Of(history, "master") : i < j => history[i].version < history[j].version
    /\ row.state = "none" => row.version = 0
    /\ row.state # "gone" => Of(history, "tombstone") = {}
    /\ row.state = "gone" => Of(history, "tombstone") = {Len(history)}
LifeInv == \A a \in Assets : Life(asset[a], log[a])

\* The events of one asset that are settled or in the relay's hands.  Once the asset is
\* gone, its tombstone alone is open until the next claim.
Queue(row, history, done, taken, after) ==
    /\ done \cup taken \subseteq 1 .. Len(history)
    /\ row.state = "gone" /\ "claim" \notin after =>
          done = 1 .. (Len(history) - 1) /\ Len(history) \notin taken
QueueInv == \A a \in Assets : Queue(asset[a], log[a], settled[a], sending[a], since[a])

\* The spec versions of one asset: windows that are disjoint, without a gap between the
\* first of them and the end of time.
Covering(history) ==
    history # <<>> =>
        /\ \A i \in DOMAIN history : history[i].from < history[i].to
        /\ \A i, j \in DOMAIN history : i # j => ~Meet(history[i], history[j])
        /\ \E i \in DOMAIN history : history[i].to = Forever
        /\ \A at \in Nat : history[1].from <= at /\ at < Forever =>
              \E i \in DOMAIN history : history[i].from <= at /\ at < history[i].to
CoveringInv == \A a \in Assets : Covering(specs[a])

FleetInv ==
    FleetTypes /\ WritersInv /\ CreatorsInv /\ DeletersInv /\ LateInv /\ LifeInv /\ QueueInv /\ CoveringInv

-----------------------------------------------------------------------------
(* The events of an asset.                                                 *)

LEMMA OfAppended ==
    ASSUME NEW history \in Seq(Announced), NEW e \in Announced, NEW event
    PROVE  LET n == Len(history)
               longer == Append(history, e)
           IN  /\ n \in Nat /\ longer \in Seq(Announced) /\ Len(longer) = n + 1 /\ longer[n + 1] = e
               /\ \A i \in DOMAIN history : i \in 1 .. n /\ longer[i] = history[i]
               /\ Of(longer, event) = IF e.event = event THEN Of(history, event) \cup {n + 1} ELSE Of(history, event)
<1> DEFINE n == Len(history)
           longer == Append(history, e)
<1>1. n \in Nat /\ DOMAIN history = 1 .. n /\ DOMAIN longer = 1 .. (n + 1)
    OBVIOUS
<1>2. /\ longer \in Seq(Announced) /\ Len(longer) = n + 1 /\ longer[n + 1] = e
      /\ \A i \in 1 .. n : longer[i] = history[i]
    OBVIOUS
<1> HIDE DEF longer, n
<1>3. ASSUME NEW i PROVE i \in Of(longer, event) <=>
                            i \in Of(history, event) \/ (i = n + 1 /\ e.event = event)
    BY <1>1, <1>2 DEF Of
<1>4. Of(longer, event) = IF e.event = event THEN Of(history, event) \cup {n + 1} ELSE Of(history, event)
    BY <1>3
<1> QED BY <1>1, <1>2, <1>4 DEF n, longer

\* A change of the master row announces the version it makes.
LEMMA LifeChanges ==
    ASSUME NEW row \in Masters, NEW new \in Masters, NEW history \in Seq(Announced),
           Life(row, history), row.state # "gone", new.state \in {"live", "softDeleted"},
           new.version = row.version + 1
    PROVE  Life(new, Append(history, [event |-> "master", version |-> new.version]))
<1> DEFINE e == [event |-> "master", version |-> new.version]
           longer == Append(history, e)
           l == Len(history)
           old == Of(history, "master")
<1>1. e \in Announced /\ e.event = "master" /\ e.version = row.version + 1 /\ row.version \in Nat
    BY DEF Announced, Masters
<1>2. /\ l \in Nat /\ Len(longer) = l + 1 /\ longer[l + 1] = e
      /\ \A i \in DOMAIN history : i \in 1 .. l /\ longer[i] = history[i]
      /\ Of(longer, "master") = old \cup {l + 1} /\ Of(longer, "tombstone") = Of(history, "tombstone")
    BY <1>1, OfAppended
<1>3. /\ {history[i].version : i \in old} = 1 .. row.version
      /\ \A i, j \in old : i < j => history[i].version < history[j].version
      /\ old \subseteq DOMAIN history /\ Of(history, "tombstone") = {}
    BY DEF Life, Of
<1> HIDE DEF e, longer, l, old
<1>4. \A i \in old : i \in 1 .. l /\ longer[i].version = history[i].version
    BY <1>2, <1>3
<1>5. {longer[i].version : i \in old \cup {l + 1}} = 1 .. new.version
    <2>1. {longer[i].version : i \in old} = 1 .. row.version
        BY <1>3, <1>4
    <2>2. {longer[i].version : i \in old \cup {l + 1}} = {longer[i].version : i \in old} \cup {row.version + 1}
        BY <1>1, <1>2
    <2>3. 1 .. (row.version + 1) = (1 .. row.version) \cup {row.version + 1}
        BY <1>1
    <2> QED BY <2>1, <2>2, <2>3
<1>6. \A i, j \in old \cup {l + 1} : i < j => longer[i].version < longer[j].version
    <2> SUFFICES ASSUME NEW i \in old \cup {l + 1}, NEW j \in old \cup {l + 1}, i < j
                 PROVE  longer[i].version < longer[j].version
        OBVIOUS
    <2>1. CASE i \in old /\ j \in old
        BY <1>3, <1>4, <2>1
    <2>2. CASE i \in old /\ j = l + 1
        <3>1. history[i].version \in 1 .. row.version
            BY <1>3, <2>2
        <3> QED BY <1>1, <1>2, <1>4, <2>2, <3>1
    <2>3. CASE i = l + 1
        BY <1>2, <1>4, <2>3
    <2> QED BY <2>1, <2>2, <2>3
<1>7. Life(new, longer)
    BY <1>2, <1>3, <1>5, <1>6 DEF Life
<1> QED BY <1>7 DEF longer, e

\* Any other event leaves the versions of the master as they are.
LEMMA MastersKept ==
    ASSUME NEW row, NEW history \in Seq(Announced), Life(row, history),
           NEW e \in Announced, e.event # "master"
    PROVE  LET longer == Append(history, e)
           IN  /\ {longer[i].version : i \in Of(longer, "master")} = 1 .. row.version
               /\ \A i, j \in Of(longer, "master") : i < j => longer[i].version < longer[j].version
<1> DEFINE longer == Append(history, e)
<1>1. Of(longer, "master") = Of(history, "master") /\ \A i \in DOMAIN history : longer[i] = history[i]
    BY OfAppended
<1>2. Of(history, "master") \subseteq DOMAIN history
    BY DEF Of
<1> HIDE DEF longer
<1>3. \A i \in Of(history, "master") : longer[i] = history[i]
    BY <1>1, <1>2
<1>4. /\ {history[i].version : i \in Of(history, "master")} = 1 .. row.version
      /\ \A i, j \in Of(history, "master") : i < j => history[i].version < history[j].version
    BY DEF Life
<1>5. {longer[i].version : i \in Of(history, "master")} = {history[i].version : i \in Of(history, "master")}
    BY <1>3
<1>6. /\ {longer[i].version : i \in Of(longer, "master")} = 1 .. row.version
      /\ \A i, j \in Of(longer, "master") : i < j => longer[i].version < longer[j].version
    BY <1>1, <1>3, <1>4, <1>5
<1> QED BY <1>6 DEF longer

LEMMA LifeOfSpec ==
    ASSUME NEW row \in Masters, NEW new \in Masters, NEW history \in Seq(Announced),
           Life(row, history), row.state = "live", new.state = "live", new.version = row.version
    PROVE  Life(new, Append(history, [event |-> "spec", version |-> row.version]))
<1> DEFINE e == [event |-> "spec", version |-> row.version]
           longer == Append(history, e)
<1>1. e \in Announced /\ e.event # "master" /\ e.event # "tombstone"
    BY DEF Announced, Masters
<1>2. /\ {longer[i].version : i \in Of(longer, "master")} = 1 .. row.version
      /\ \A i, j \in Of(longer, "master") : i < j => longer[i].version < longer[j].version
    BY <1>1, MastersKept
<1>3. Len(longer) = Len(history) + 1 /\ Len(history) \in Nat /\ Of(longer, "tombstone") = Of(history, "tombstone")
    BY <1>1, OfAppended
<1> HIDE DEF longer, e
<1>4. Of(history, "tombstone") = {}
    BY <1>3 DEF Life
<1>5. Life(new, longer)
    BY <1>2, <1>3, <1>4 DEF Life
<1> QED BY <1>5 DEF longer, e

\* A tombstone is the last event.
LEMMA LifeEnds ==
    ASSUME NEW row \in Masters, NEW new \in Masters, NEW history \in Seq(Announced),
           Life(row, history), row.state # "gone", new.state = "gone", new.version = row.version
    PROVE  Life(new, Append(history, [event |-> "tombstone", version |-> row.version]))
<1> DEFINE e == [event |-> "tombstone", version |-> row.version]
           longer == Append(history, e)
<1>1. e \in Announced /\ e.event = "tombstone"
    BY DEF Announced, Masters
<1>2. /\ {longer[i].version : i \in Of(longer, "master")} = 1 .. row.version
      /\ \A i, j \in Of(longer, "master") : i < j => longer[i].version < longer[j].version
    BY <1>1, MastersKept
<1>3. /\ Len(longer) = Len(history) + 1 /\ Len(history) \in Nat
      /\ Of(longer, "tombstone") = Of(history, "tombstone") \cup {Len(history) + 1}
    BY <1>1, OfAppended
<1> HIDE DEF longer, e
<1>4. Of(history, "tombstone") = {}
    BY DEF Life
<1>5. Life(new, longer)
    BY <1>2, <1>3, <1>4 DEF Life
<1> QED BY <1>5 DEF longer, e

\* What is announced of an asset that stays waits behind the rest.
LEMMA QueueGrows ==
    ASSUME NEW row, NEW new, NEW history \in Seq(Announced), NEW e \in Announced, NEW done, NEW taken, NEW after,
           Queue(row, history, done, taken, after), new.state # "gone"
    PROVE  Queue(new, Append(history, e), done, taken, after)
<1>1. Len(history) \in Nat /\ Len(Append(history, e)) = Len(history) + 1
    BY OfAppended
<1> QED BY <1>1 DEF Queue

\* The dead-lettering of a hard delete leaves nothing before the tombstone.
LEMMA QueueEnds ==
    ASSUME NEW row, NEW new, NEW history \in Seq(Announced), NEW e \in Announced, NEW done, NEW taken, NEW after,
           Queue(row, history, done, taken, after)
    PROVE  Queue(new, Append(history, e), DOMAIN history, taken, after)
<1>1. Len(history) \in Nat /\ Len(Append(history, e)) = Len(history) + 1 /\ DOMAIN history = 1 .. Len(history)
    BY OfAppended
<1> QED BY <1>1 DEF Queue

\* A spec version closes the one before, so that no gap opens.
LEMMA CoveringGrows ==
    ASSUME NEW history \in Seq(Windows), Covering(history), NEW from \in Instants,
           SpecConstraints(Append(CloseCurrentSpec(history, from), [from |-> from, to |-> Forever]))
    PROVE  LET longer == Append(CloseCurrentSpec(history, from), [from |-> from, to |-> Forever])
           IN  longer \in Seq(Windows) /\ Covering(longer)
<1> DEFINE closed == CloseCurrentSpec(history, from)
           new == [from |-> from, to |-> Forever]
           longer == Append(closed, new)
           l == Len(history)
<1>1. /\ l \in Nat /\ DOMAIN history = 1 .. l
      /\ \A i \in 1 .. l : history[i] \in Windows
      /\ from \in Nat /\ Forever \in Nat /\ from < Forever
    BY FleetAssumption
<1>2. /\ closed \in Seq(Windows) /\ Len(closed) = l
      /\ \A i \in 1 .. l : /\ closed[i].from = history[i].from
                            /\ closed[i].to = IF history[i].to = Forever THEN from ELSE history[i].to
    <2>1. closed = [i \in 1 .. l |-> IF history[i].to = Forever THEN [history[i] EXCEPT !.to = from] ELSE history[i]]
        BY <1>1 DEF CloseCurrentSpec
    <2>2. \A i \in 1 .. l : closed[i] \in Windows
        BY <1>1, <2>1 DEF Windows
    <2>3. \A i \in 1 .. l : /\ closed[i].from = history[i].from
                            /\ closed[i].to = IF history[i].to = Forever THEN from ELSE history[i].to
        BY <1>1, <2>1 DEF Windows
    <2>4. DOMAIN closed = 1 .. l
        BY <2>1
    <2> HIDE DEF closed
    <2>5. closed \in [1 .. l -> Windows]
        BY <2>1, <2>2, <2>4
    <2> QED BY <1>1, <2>3, <2>5
<1>3. new \in Windows
    BY DEF Windows
<1> HIDE DEF closed
<1>4. /\ longer \in Seq(Windows) /\ Len(longer) = l + 1 /\ longer[l + 1] = new
      /\ DOMAIN longer = 1 .. (l + 1) /\ \A i \in 1 .. l : longer[i] = closed[i]
    BY <1>1, <1>2, <1>3
<1>5. /\ \A i \in DOMAIN longer : longer[i].from < longer[i].to
      /\ \A i, j \in DOMAIN longer : i # j => ~Meet(longer[i], longer[j])
    BY DEF SpecConstraints, closed
<1> HIDE DEF longer
<1>6. l + 1 \in DOMAIN longer /\ longer[l + 1].from = from /\ longer[l + 1].to = Forever
    BY <1>1, <1>4
<1>7. ASSUME NEW at \in Nat, longer[1].from <= at, at < Forever
      PROVE  \E i \in DOMAIN longer : longer[i].from <= at /\ at < longer[i].to
    <2>1. CASE from <= at
        BY <1>6, <1>7, <2>1
    <2>2. CASE at < from
        <3>1. l # 0
            BY <1>4, <1>6, <1>7, <1>1, <2>2
        <3>2. history # <<>> /\ 1 \in 1 .. l /\ history[1].from = longer[1].from
            BY <1>1, <1>2, <1>4, <3>1
        <3>3. PICK i \in 1 .. l : history[i].from <= at /\ at < history[i].to
            BY <1>1, <1>7, <3>2 DEF Covering
        <3>4. longer[i].from <= at /\ at < longer[i].to
            BY <1>2, <1>4, <2>2, <3>3
        <3> QED BY <1>1, <1>4, <3>4
    <2> QED BY <1>1, <2>1, <2>2
<1>8. Covering(longer)
    BY <1>5, <1>6, <1>7 DEF Covering
<1> QED BY <1>4, <1>8 DEF longer, closed

-----------------------------------------------------------------------------
(* The requests of the fleet.                                              *)

LEMMA WorkFields ==
    ASSUME FleetTypes, NEW p \in Requests
    PROVE  /\ req[p] \in Works
           /\ req[p] # Idle => req[p].op # "idle" /\ req[p].asset \in Assets
           /\ req[p].op \in Writes \cup {"create", "get", "hardDelete"} => req[p] # Idle
           /\ req[p].op = "create" =>
                 req[p].plate \in Plates /\ req[p].from \in Instants \cup {Forever}
           /\ req[p].op \in {"get", "hardDelete"} => req[p].seen \in Nat
           /\ req[p].op = "get" => req[p].stream \in Nat
           /\ req[p].op = "patch" => req[p].plate \in Plates
<1>1. req[p] \in Works
    BY DEF FleetTypes
<1> QED BY <1>1 DEF Works, Idle, Writes

\* A step of a request that writes nothing yet: it may take a row lock that is free.
LEMMA NothingWritten ==
    ASSUME FleetInv, NEW p \in Requests, NEW work \in Works, req' = [req EXCEPT ![p] = work],
           UNCHANGED <<asset, specs, log, relay, trip>>,
           rowLock' \in [Assets -> Requests \cup {Nothing}],
           \A a \in Assets : rowLock[a] \in Requests \ {p} => rowLock'[a] = rowLock[a],
           work # Idle => \A q \in Requests \ {p} : req[q].op = "create" => req[q].asset # work.asset,
           work.op \in Writes => rowLock'[work.asset] = p /\ asset[work.asset].state = "live",
           work.op = "create" => /\ asset[work.asset].state = "none"
                                 /\ \A q \in Requests \ {p} : req[q] # Idle => req[q].asset # work.asset,
           work.op = "hardDelete" => asset[work.asset].state \in {"softDeleted", "gone"}
    PROVE  FleetInv'
<1>1. /\ req' \in [Requests -> Works] /\ req'[p] = work
      /\ \A q \in Requests \ {p} : req'[q] = req[q] /\ req[q] \in Works
    BY DEF FleetInv, FleetTypes
<1>2. FleetTypes'
    BY <1>1 DEF FleetInv, FleetTypes, relay
<1>3. WritersInv'
    <2> SUFFICES ASSUME NEW q \in Requests, req'[q].op \in Writes
                 PROVE  rowLock'[req'[q].asset] = q /\ asset[req'[q].asset].state = "live"
        BY DEF WritersInv, Writes
    <2>1. CASE q = p
        BY <1>1, <2>1
    <2>2. CASE q # p
        <3>1. /\ req'[q] = req[q] /\ req[q].asset \in Assets
              /\ rowLock[req[q].asset] = q /\ asset[req[q].asset].state = "live"
            BY <1>1, <2>2, WorkFields DEF FleetInv, WritersInv
        <3> QED BY <2>2, <3>1
    <2> QED BY <2>1, <2>2
<1>4. CreatorsInv'
    <2> SUFFICES ASSUME NEW q \in Requests, req'[q].op = "create"
                 PROVE  /\ asset[req'[q].asset].state = "none"
                        /\ \A r \in Requests \ {q} : req'[r] # Idle => req'[r].asset # req'[q].asset
        BY DEF CreatorsInv, Idle
    <2>1. CASE q = p
        BY <1>1, <2>1
    <2>2. CASE q # p
        <3>1. /\ req'[q] = req[q] /\ asset[req[q].asset].state = "none"
              /\ \A r \in Requests \ {q} : req[r] # Idle => req[r].asset # req[q].asset
            BY <1>1, <2>2 DEF FleetInv, CreatorsInv
        <3>2. work # Idle => work.asset # req[q].asset
            BY <1>1, <2>2
        <3> QED BY <1>1, <3>1, <3>2
    <2> QED BY <2>1, <2>2
<1>5. DeletersInv'
    BY <1>1 DEF FleetInv, DeletersInv
<1>6. LateInv' /\ LifeInv' /\ QueueInv' /\ CoveringInv'
    BY DEF FleetInv, LateInv, LifeInv, Life, Of, QueueInv, Queue, relay, CoveringInv, Covering, Meet
<1> QED BY <1>2, <1>3, <1>4, <1>5, <1>6 DEF FleetInv

LEMMA FinishOfFleet ==
    ASSUME FleetTypes, NEW p \in Requests, Finish(p)
    PROVE  /\ req' = [req EXCEPT ![p] = Idle] /\ Idle \in Works
           /\ rowLock' \in [Assets -> Requests \cup {Nothing}]
           /\ \A a \in Assets : rowLock[a] # p => rowLock'[a] = rowLock[a]
BY DEF Finish, Put, FleetTypes, Works

\* A commit: one asset changes, and what the others rely on stays.
LEMMA AssetWritten ==
    ASSUME FleetInv, NEW p \in Requests, req[p] # Idle, NEW row \in Masters,
           asset' = [asset EXCEPT ![req[p].asset] = row],
           Finish(p), UNCHANGED trip,
           specs' \in SpecTables, log' \in [Assets -> Seq(Announced)], settled' \in [Assets -> SUBSET Nat],
           UNCHANGED <<sending, since>>,
           \A b \in Assets \ {req[p].asset} :
              specs'[b] = specs[b] /\ log'[b] = log[b] /\ settled'[b] = settled[b],
           \A q \in Requests \ {p} : req[q].op \in Writes => req[q].asset # req[p].asset,
           asset[req[p].asset].state \in {"softDeleted", "gone"} => row.state \in {"softDeleted", "gone"},
           Life(row, log'[req[p].asset]),
           Queue(row, log'[req[p].asset], settled'[req[p].asset], sending[req[p].asset], since[req[p].asset]),
           Covering(specs'[req[p].asset])
    PROVE  FleetInv'
<1> DEFINE a == req[p].asset
<1>1. a \in Assets
    BY WorkFields DEF FleetInv
<1>2. /\ asset' \in [Assets -> Masters] /\ asset'[a] = row
      /\ \A b \in Assets \ {a} : asset'[b] = asset[b]
    BY <1>1 DEF FleetInv, FleetTypes
<1>3. /\ req' \in [Requests -> Works] /\ req'[p] = Idle
      /\ \A q \in Requests \ {p} : req'[q] = req[q] /\ req[q] \in Works
      /\ rowLock' \in [Assets -> Requests \cup {Nothing}]
      /\ \A b \in Assets : rowLock[b] # p => rowLock'[b] = rowLock[b]
    BY FinishOfFleet DEF FleetInv, FleetTypes
<1>4. Idle.op = "idle"
    BY DEF Idle
<1>5. FleetTypes'
    BY <1>2, <1>3 DEF FleetInv, FleetTypes
<1>6. WritersInv'
    <2> SUFFICES ASSUME NEW q \in Requests, req'[q].op \in Writes
                 PROVE  rowLock'[req'[q].asset] = q /\ asset'[req'[q].asset].state = "live"
        BY DEF WritersInv, Writes
    <2>1. q # p
        BY <1>3, <1>4 DEF Writes
    <2>2. /\ req'[q] = req[q] /\ req[q].asset \in Assets /\ req[q].asset # a
          /\ rowLock[req[q].asset] = q /\ asset[req[q].asset].state = "live"
        BY <1>3, <2>1, WorkFields DEF FleetInv, WritersInv
    <2> QED BY <1>2, <1>3, <2>1, <2>2
<1>7. CreatorsInv'
    <2> SUFFICES ASSUME NEW q \in Requests, req'[q].op = "create"
                 PROVE  /\ asset'[req'[q].asset].state = "none"
                        /\ \A r \in Requests \ {q} : req'[r] # Idle => req'[r].asset # req'[q].asset
        BY DEF CreatorsInv, Idle
    <2>1. q # p
        BY <1>3, <1>4
    <2>2. /\ req'[q] = req[q] /\ asset[req[q].asset].state = "none" /\ req[q].asset \in Assets
          /\ \A r \in Requests \ {q} : req[r] # Idle => req[r].asset # req[q].asset
        BY <1>3, <2>1, WorkFields DEF FleetInv, CreatorsInv
    <2>3. req[q].asset # a
        BY <2>1, <2>2
    <2> QED BY <1>2, <1>3, <2>2, <2>3
<1>8. DeletersInv'
    <2> SUFFICES ASSUME NEW q \in Requests, req'[q].op = "hardDelete"
                 PROVE  asset'[req'[q].asset].state \in {"softDeleted", "gone"}
        BY DEF DeletersInv
    <2>1. q # p
        BY <1>3, <1>4
    <2>2. req'[q] = req[q] /\ req[q].asset \in Assets /\ asset[req[q].asset].state \in {"softDeleted", "gone"}
        BY <1>3, <2>1, WorkFields DEF FleetInv, DeletersInv
    <2> QED BY <1>2, <2>2
<1>9. LateInv'
    BY DEF FleetInv, LateInv
<1>10. LifeInv'
    <2> SUFFICES ASSUME NEW b \in Assets PROVE Life(asset'[b], log'[b])
        BY DEF LifeInv, Life, Of
    <2> QED BY <1>2 DEF FleetInv, LifeInv
<1>11. QueueInv'
    <2> SUFFICES ASSUME NEW b \in Assets PROVE Queue(asset'[b], log'[b], settled'[b], sending'[b], since'[b])
        BY DEF QueueInv, Queue
    <2> QED BY <1>2 DEF FleetInv, QueueInv
<1>12. CoveringInv'
    <2> SUFFICES ASSUME NEW b \in Assets PROVE Covering(specs'[b])
        BY DEF CoveringInv, Covering, Meet
    <2> QED BY DEF FleetInv, CoveringInv
<1> QED BY <1>5, <1>6, <1>7, <1>8, <1>9, <1>10, <1>11, <1>12 DEF FleetInv

\* What an announcement leaves of the other assets' events.
LEMMA AnnounceFields ==
    ASSUME FleetTypes, NEW a \in Assets, NEW event \in {"master", "spec", "tombstone"}, NEW version \in Nat,
           Announce(a, event, version)
    PROVE  /\ log' \in [Assets -> Seq(Announced)]
           /\ log'[a] = Append(log[a], [event |-> event, version |-> version])
           /\ \A b \in Assets \ {a} : log'[b] = log[b]
<1>1. [event |-> event, version |-> version] \in Announced
    BY DEF Announced
<1>2. Append(log[a], [event |-> event, version |-> version]) \in Seq(Announced)
    BY <1>1 DEF FleetTypes
<1> QED BY <1>2 DEF FleetTypes, Announce

LEMMA BeginCreationKeeps ==
    ASSUME FleetInv, NEW p \in Requests, NEW kind \in Kinds, BeginCreation(p, kind)
    PROVE  FleetInv'
<1>1. PICK a \in Assets, key \in Keys, plate \in Plates, from \in Instants \cup {Forever} :
         /\ asset[a].state = "none" /\ \A r \in Requests : req[r] # Idle => req[r].asset # a
         /\ req' = [req EXCEPT ![p] = [op |-> "create", asset |-> a, key |-> key, plate |-> plate, from |-> from]]
         /\ UNCHANGED <<asset, specs, log, relay, record, rowLock, trip>>
    BY DEF BeginCreation, Put
<1> DEFINE work == [op |-> "create", asset |-> a, key |-> key, plate |-> plate, from |-> from]
<1>2. work \in Works /\ work.op = "create" /\ work.asset = a
    BY DEF Works
<1>3. \A q \in Requests : req[q].op = "create" => req[q] # Idle
    BY DEF Idle
<1>4. req' = [req EXCEPT ![p] = work]
    BY <1>1
<1> HIDE DEF work
<1>5. /\ rowLock' \in [Assets -> Requests \cup {Nothing}] /\ asset[work.asset].state = "none"
      /\ UNCHANGED <<asset, specs, log, relay, rowLock, trip>>
    BY <1>1, <1>2 DEF FleetInv, FleetTypes
<1>6. \A q \in Requests \ {p} : /\ req[q] # Idle => req[q].asset # work.asset
                                /\ req[q].op = "create" => req[q].asset # work.asset
    BY <1>1, <1>2, <1>3
<1>7. work.op \notin Writes /\ work.op # "hardDelete"
    BY <1>2 DEF Writes
<1> QED BY <1>2, <1>4, <1>5, <1>6, <1>7, NothingWritten

LEMMA CommitCreationKeeps ==
    ASSUME FleetInv, NEW p \in Requests, NEW kind \in Kinds, CommitCreation(p, kind)
    PROVE  FleetInv'
<1> DEFINE a == req[p].asset
           from == req[p].from
           row == [state |-> "live", kind |-> kind, status |-> "ACTIVE", version |-> 1,
                   stream |-> IF from = Forever THEN 0 ELSE 1, plate |-> req[p].plate]
<1>1. /\ req[p].op = "create" /\ asset' = [asset EXCEPT ![a] = row]
      /\ specs' = IF from = Forever THEN specs ELSE [specs EXCEPT ![a] = <<[from |-> from, to |-> Forever]>>]
      /\ Announce(a, "master", 1) /\ Finish(p) /\ UNCHANGED <<relay, trip>>
    BY DEF CommitCreation
<1>2. a \in Assets /\ req[p] # Idle /\ req[p].plate \in Plates /\ from \in Instants \cup {Forever}
    BY <1>1, WorkFields DEF FleetInv, Writes
<1>3. asset[a].state = "none" /\ \A q \in Requests \ {p} : req[q] # Idle => req[q].asset # a
    BY <1>1 DEF FleetInv, CreatorsInv
<1>4. \A q \in Requests : req[q].op \in Writes => req[q] # Idle
    BY DEF Writes, Idle
<1>5. /\ asset[a] \in Masters /\ specs[a] \in Seq(Windows) /\ log[a] \in Seq(Announced)
      /\ Life(asset[a], log[a]) /\ asset[a].version = 0 /\ Covering(specs[a])
    BY <1>2, <1>3 DEF FleetInv, FleetTypes, SpecTables, LifeInv, Life, CoveringInv
<1>6. row \in Masters /\ row.state = "live" /\ row.version = 1
    BY <1>2 DEF Masters, States, Statuses, Kinds
<1> HIDE DEF row, a, from
<1>7. /\ log' \in [Assets -> Seq(Announced)] /\ log'[a] = Append(log[a], [event |-> "master", version |-> 1])
      /\ \A b \in Assets \ {a} : log'[b] = log[b]
    BY <1>1, <1>2, AnnounceFields DEF FleetInv
<1>8. Life(row, log'[a]) /\ Queue(row, log'[a], settled'[a], sending[a], since[a])
    <2>1. row.version = asset[a].version + 1
        BY <1>5, <1>6
    <2>2. Queue(asset[a], log[a], settled[a], sending[a], since[a]) /\ UNCHANGED settled
        BY <1>1, <1>2 DEF FleetInv, QueueInv, relay
    <2>3. [event |-> "master", version |-> 1] \in Announced
        BY DEF Announced
    <2>4. Queue(row, log'[a], settled'[a], sending[a], since[a])
        BY <1>5, <1>6, <1>7, <2>2, <2>3, QueueGrows
    <2> QED BY <1>1, <1>3, <1>5, <1>6, <1>7, <2>1, <2>4, LifeChanges
<1>9. specs' \in SpecTables /\ Covering(specs'[a]) /\ \A b \in Assets \ {a} : specs'[b] = specs[b]
    <2>1. CASE from = Forever
        BY <1>1, <1>5, <2>1 DEF FleetInv, FleetTypes
    <2>2. CASE from # Forever
        <3> DEFINE window == [from |-> from, to |-> Forever]
        <3>1. window \in Windows /\ window.from = from /\ window.to = Forever /\ from < Forever /\ from \in Nat
            BY <1>2, <2>2, FleetAssumption DEF Windows
        <3>2. specs' = [specs EXCEPT ![a] = <<window>>]
            BY <1>1, <2>2
        <3> HIDE DEF window
        <3>3. <<window>> \in Seq(Windows) /\ DOMAIN <<window>> = {1} /\ <<window>>[1] = window
            BY <3>1
        <3>4. Covering(<<window>>)
            BY <3>1, <3>3 DEF Covering
        <3> QED BY <1>2, <3>2, <3>3, <3>4 DEF FleetInv, FleetTypes, SpecTables
    <2> QED BY <2>1, <2>2
<1>10. settled' \in [Assets -> SUBSET Nat] /\ UNCHANGED <<settled, sending, since>> /\ UNCHANGED trip
    BY <1>1 DEF FleetInv, FleetTypes, relay
<1>11. asset' = [asset EXCEPT ![req[p].asset] = row] /\ a = req[p].asset
    BY <1>1 DEF a
<1> HIDE DEF a
<1>12. \A q \in Requests \ {p} : req[q].op \in Writes => req[q].asset # a
    BY <1>3, <1>4
<1> QED BY <1>1, <1>2, <1>3, <1>6, <1>7, <1>8, <1>9, <1>10, <1>11, <1>12, AssetWritten

LEMMA GetKeeps ==
    ASSUME FleetInv, NEW p \in Requests, NEW kind \in Kinds, Get(p, kind)
    PROVE  FleetInv'
<1>1. PICK a \in OfKind(kind) : req' = [req EXCEPT ![p] = Detail(a)]
    BY DEF Get, Put
<1>2. a \in Assets /\ asset[a].state # "none" /\ asset[a] \in Masters
    BY DEF OfKind, Exists, FleetInv, FleetTypes
<1>3. Detail(a) \in Works /\ Detail(a).op = "get" /\ Detail(a).asset = a
    BY <1>2 DEF Detail, Works, Masters
<1>4. \A q \in Requests \ {p} : req[q].op = "create" => req[q].asset # a
    BY <1>2 DEF FleetInv, CreatorsInv
<1>5. rowLock' \in [Assets -> Requests \cup {Nothing}] /\ UNCHANGED <<asset, specs, log, relay, rowLock, trip>>
    BY DEF Get, FleetInv, FleetTypes
<1> QED BY <1>1, <1>3, <1>4, <1>5, NothingWritten DEF Writes

\* The lock under which an asset is written.
LEMMA LockKeeps ==
    ASSUME FleetInv, NEW p \in Requests, req[p].op = "get", asset[req[p].asset].state = "live", LockRow(p),
           NEW work \in Works, work.op \in Writes, work.asset = req[p].asset, Put(p, work)
    PROVE  FleetInv'
<1>1. req[p] # Idle /\ work.asset \in Assets
    BY WorkFields DEF FleetInv, Writes
<1>2. /\ rowLock[work.asset] = Nothing /\ rowLock' = [rowLock EXCEPT ![work.asset] = p]
      /\ req' = [req EXCEPT ![p] = work] /\ UNCHANGED <<asset, specs, log, relay, trip>>
    BY DEF LockRow, Put
<1>3. /\ rowLock' \in [Assets -> Requests \cup {Nothing}] /\ rowLock'[work.asset] = p
      /\ \A a \in Assets : rowLock[a] \in Requests \ {p} => rowLock'[a] = rowLock[a]
    BY <1>1, <1>2, FleetAssumption DEF FleetInv, FleetTypes
<1>4. \A q \in Requests \ {p} : req[q].op = "create" => req[q].asset # work.asset
    BY <1>1 DEF FleetInv, CreatorsInv
<1> QED BY <1>2, <1>3, <1>4, NothingWritten DEF Writes

\* A change of the master row under its lock.
LEMMA ChangeKeeps ==
    ASSUME FleetInv, NEW p \in Requests, req[p].op \in Writes, NEW new \in Masters,
           new.version = asset[req[p].asset].version, new.state \in {"live", "softDeleted"}, Change(p, new)
    PROVE  FleetInv'
<1> DEFINE a == req[p].asset
           row == [new EXCEPT !.version = @ + 1]
<1>1. /\ asset' = [asset EXCEPT ![a] = row] /\ Announce(a, "master", row.version) /\ Finish(p)
      /\ UNCHANGED <<specs, relay, record, trip>>
    BY DEF Change
<1>2. a \in Assets /\ req[p] # Idle /\ rowLock[a] = p /\ asset[a].state = "live"
    BY WorkFields DEF FleetInv, WritersInv
<1>3. \A q \in Requests \ {p} : req[q].op \in Writes => req[q].asset # a
    BY <1>2 DEF FleetInv, WritersInv
<1>4. row \in Masters /\ row.version = asset[a].version + 1 /\ row.state \in {"live", "softDeleted"}
    BY DEF Masters
<1>5. /\ asset[a] \in Masters /\ log[a] \in Seq(Announced)
      /\ Life(asset[a], log[a]) /\ Covering(specs[a]) /\ row.version \in Nat
    BY <1>2, <1>4 DEF FleetInv, FleetTypes, LifeInv, CoveringInv, Masters
<1> HIDE DEF row, a
<1>6. /\ log' \in [Assets -> Seq(Announced)]
      /\ log'[a] = Append(log[a], [event |-> "master", version |-> row.version])
      /\ \A b \in Assets \ {a} : log'[b] = log[b]
    BY <1>1, <1>2, <1>5, AnnounceFields DEF FleetInv
<1>7. Life(row, log'[a]) /\ Queue(row, log'[a], settled'[a], sending[a], since[a])
    <2>1. Queue(asset[a], log[a], settled[a], sending[a], since[a]) /\ UNCHANGED settled
        BY <1>1, <1>2 DEF FleetInv, QueueInv, relay
    <2>2. [event |-> "master", version |-> row.version] \in Announced
        BY <1>5 DEF Announced
    <2>3. Queue(row, log'[a], settled'[a], sending[a], since[a])
        BY <1>4, <1>5, <1>6, <2>1, <2>2, QueueGrows
    <2> QED BY <1>1, <1>2, <1>4, <1>5, <1>6, <2>3, LifeChanges
<1>8. specs' \in SpecTables /\ settled' \in [Assets -> SUBSET Nat] /\ UNCHANGED <<specs, settled, sending, since, trip>>
    BY <1>1 DEF FleetInv, FleetTypes, relay
<1>9. a = req[p].asset
    BY DEF a
<1> QED BY <1>1, <1>2, <1>3, <1>4, <1>5, <1>6, <1>7, <1>8, <1>9, AssetWritten, ZenonT(30)

LEMMA PatchKeeps ==
    ASSUME FleetInv, NEW p \in Requests, NEW kind \in Kinds, Patch(p, kind)
    PROVE  FleetInv'
<1>1. CASE Begin(p, kind) /\ \E plate \in Plates :
              Put(p, [op |-> "patch", asset |-> req[p].asset, seen |-> req[p].seen, plate |-> plate])
    <2>1. PICK plate \in Plates :
             Put(p, [op |-> "patch", asset |-> req[p].asset, seen |-> req[p].seen, plate |-> plate])
        BY <1>1
    <2>2. req[p].op = "get" /\ asset[req[p].asset].state = "live" /\ LockRow(p)
        BY <1>1 DEF Begin
    <2> DEFINE work == [op |-> "patch", asset |-> req[p].asset, seen |-> req[p].seen, plate |-> plate]
    <2>3. work \in Works /\ work.op \in Writes /\ work.asset = req[p].asset /\ Put(p, work)
        BY <2>1, <2>2, WorkFields DEF FleetInv, Works, Writes
    <2> HIDE DEF work
    <2> QED BY <2>2, <2>3, LockKeeps
<1>2. CASE Locked(p, kind, "patch") /\ Change(p, [asset[req[p].asset] EXCEPT !.plate = req[p].plate])
    <2>1. req[p].op \in Writes /\ req[p].asset \in Assets /\ req[p].plate \in Plates
        BY <1>2, WorkFields DEF Locked, Writes, FleetInv
    <2>2. asset[req[p].asset] \in Masters /\ asset[req[p].asset].state = "live"
        BY <2>1 DEF FleetInv, FleetTypes, WritersInv
    <2> DEFINE new == [asset[req[p].asset] EXCEPT !.plate = req[p].plate]
    <2>3. new \in Masters /\ new.version = asset[req[p].asset].version /\ new.state = "live" /\ Change(p, new)
        BY <1>2, <2>1, <2>2 DEF Masters
    <2> HIDE DEF new
    <2> QED BY <2>1, <2>3, ChangeKeeps
<1> QED BY <1>1, <1>2 DEF Patch

LEMMA TransitionKeeps ==
    ASSUME FleetInv, NEW p \in Requests, NEW kind \in Kinds, NEW op \in {"deactivate", "reactivate"},
           NEW source \in Statuses, NEW target \in Statuses, Transition(p, kind, op, source, target)
    PROVE  FleetInv'
<1>1. CASE Begin(p, kind) /\ Put(p, [op |-> op, asset |-> req[p].asset, seen |-> req[p].seen])
    <2>1. req[p].op = "get" /\ asset[req[p].asset].state = "live" /\ LockRow(p)
        BY <1>1 DEF Begin
    <2> DEFINE work == [op |-> op, asset |-> req[p].asset, seen |-> req[p].seen]
    <2>2. work \in Works /\ work.op \in Writes /\ work.asset = req[p].asset /\ Put(p, work)
        BY <1>1, <2>1, WorkFields DEF FleetInv, Works, Writes
    <2> HIDE DEF work
    <2> QED BY <2>1, <2>2, LockKeeps
<1>2. CASE Locked(p, kind, op) /\ Change(p, [asset[req[p].asset] EXCEPT !.status = target])
    <2>1. req[p].op \in Writes /\ req[p].asset \in Assets
        BY <1>2, WorkFields DEF Locked, Writes, FleetInv
    <2>2. asset[req[p].asset] \in Masters /\ asset[req[p].asset].state = "live"
        BY <2>1 DEF FleetInv, FleetTypes, WritersInv
    <2> DEFINE new == [asset[req[p].asset] EXCEPT !.status = target]
    <2>3. new \in Masters /\ new.version = asset[req[p].asset].version /\ new.state = "live" /\ Change(p, new)
        BY <1>2, <2>1, <2>2 DEF Masters
    <2> HIDE DEF new
    <2> QED BY <2>1, <2>3, ChangeKeeps
<1> QED BY <1>1, <1>2 DEF Transition

LEMMA SoftDeleteKeeps ==
    ASSUME FleetInv, NEW p \in Requests, NEW kind \in Kinds, SoftDelete(p, kind)
    PROVE  FleetInv'
<1>1. CASE Begin(p, kind) /\ Put(p, [op |-> "softDelete", asset |-> req[p].asset, seen |-> req[p].seen])
    <2>1. req[p].op = "get" /\ asset[req[p].asset].state = "live" /\ LockRow(p)
        BY <1>1 DEF Begin
    <2> DEFINE work == [op |-> "softDelete", asset |-> req[p].asset, seen |-> req[p].seen]
    <2>2. work \in Works /\ work.op \in Writes /\ work.asset = req[p].asset /\ Put(p, work)
        BY <1>1, <2>1, WorkFields DEF FleetInv, Works, Writes
    <2> HIDE DEF work
    <2> QED BY <2>1, <2>2, LockKeeps
<1>2. CASE Locked(p, kind, "softDelete") /\ Change(p, [asset[req[p].asset] EXCEPT !.state = "softDeleted"])
    <2>1. req[p].op \in Writes /\ req[p].asset \in Assets
        BY <1>2, WorkFields DEF Locked, Writes, FleetInv
    <2>2. asset[req[p].asset] \in Masters
        BY <2>1 DEF FleetInv, FleetTypes
    <2> DEFINE new == [asset[req[p].asset] EXCEPT !.state = "softDeleted"]
    <2>3. /\ new \in Masters /\ new.version = asset[req[p].asset].version
          /\ new.state = "softDeleted" /\ Change(p, new)
        BY <1>2, <2>1, <2>2 DEF Masters, States
    <2> HIDE DEF new
    <2> QED BY <2>1, <2>3, ChangeKeeps
<1> QED BY <1>1, <1>2 DEF SoftDelete

LEMMA AddSpecKeeps ==
    ASSUME FleetInv, NEW p \in Requests, NEW kind \in Kinds, AddSpec(p, kind)
    PROVE  FleetInv'
<1>1. CASE /\ req[p].op = "get" /\ Selectable(req[p].asset) /\ LockRow(p)
           /\ Put(p, [op |-> "addSpec", asset |-> req[p].asset])
    <2> DEFINE work == [op |-> "addSpec", asset |-> req[p].asset]
    <2>1. work \in Works /\ work.op \in Writes /\ work.asset = req[p].asset /\ Put(p, work)
        BY <1>1, WorkFields DEF FleetInv, Works, Writes
    <2> HIDE DEF work
    <2> QED BY <1>1, <2>1, LockKeeps DEF Selectable
<1>2. ASSUME Locked(p, kind, "addSpec"), NEW from \in Instants,
             SpecConstraints(Append(CloseCurrentSpec(specs[req[p].asset], from), [from |-> from, to |-> Forever])),
             specs' = [specs EXCEPT ![req[p].asset] =
                          Append(CloseCurrentSpec(specs[req[p].asset], from), [from |-> from, to |-> Forever])],
             asset' = [asset EXCEPT ![req[p].asset].stream = @ + 1],
             Announce(req[p].asset, "spec", asset[req[p].asset].version),
             Finish(p), UNCHANGED <<relay, record, trip>>
      PROVE  FleetInv'
    <2> DEFINE a == req[p].asset
               row == [asset[a] EXCEPT !.stream = @ + 1]
               history == Append(CloseCurrentSpec(specs[a], from), [from |-> from, to |-> Forever])
    <2>1. a \in Assets /\ req[p] # Idle /\ rowLock[a] = p /\ asset[a].state = "live"
        BY <1>2, WorkFields DEF Locked, Writes, FleetInv, WritersInv
    <2>2. \A q \in Requests \ {p} : req[q].op \in Writes => req[q].asset # a
        BY <2>1 DEF FleetInv, WritersInv
    <2>3. /\ asset[a] \in Masters /\ log[a] \in Seq(Announced)
          /\ specs[a] \in Seq(Windows)
          /\ Life(asset[a], log[a]) /\ Covering(specs[a]) /\ asset[a].version \in Nat
        BY <2>1 DEF FleetInv, FleetTypes, SpecTables, LifeInv, CoveringInv, Masters
    <2>4. row \in Masters /\ row.version = asset[a].version /\ row.state = "live"
        <3>1. asset[a] \in Masters /\ asset[a].state = "live" /\ asset[a].stream + 1 \in Nat
            BY <2>1, <2>3 DEF Masters
        <3> HIDE DEF a
        <3> QED BY <3>1 DEF Masters
    <2>5. history \in Seq(Windows) /\ Covering(history)
        BY <1>2, <2>3, CoveringGrows
    <2>6. asset' = [asset EXCEPT ![a] = row] /\ specs' = [specs EXCEPT ![a] = history] /\ a = req[p].asset
        BY <1>2
    <2>7. Announce(a, "spec", asset[a].version)
        BY <1>2
    <2> HIDE DEF row, history, a
    <2>8. /\ log' \in [Assets -> Seq(Announced)]
          /\ log'[a] = Append(log[a], [event |-> "spec", version |-> asset[a].version])
          /\ \A b \in Assets \ {a} : log'[b] = log[b]
        BY <2>1, <2>3, <2>7, AnnounceFields DEF FleetInv
    <2>9. Life(row, log'[a]) /\ Queue(row, log'[a], settled'[a], sending[a], since[a])
        <3>1. Queue(asset[a], log[a], settled[a], sending[a], since[a]) /\ UNCHANGED settled
            BY <1>2, <2>1 DEF FleetInv, QueueInv, relay
        <3>2. [event |-> "spec", version |-> asset[a].version] \in Announced
            BY <2>3 DEF Announced
        <3>3. Queue(row, log'[a], settled'[a], sending[a], since[a])
            BY <2>3, <2>4, <2>8, <3>1, <3>2, QueueGrows
        <3> QED BY <1>2, <2>1, <2>3, <2>4, <2>8, <3>3, LifeOfSpec
    <2>10. /\ specs' \in SpecTables /\ Covering(specs'[a])
           /\ \A b \in Assets \ {a} : specs'[b] = specs[b]
        BY <2>1, <2>5, <2>6 DEF FleetInv, FleetTypes, SpecTables
    <2>11. settled' \in [Assets -> SUBSET Nat] /\ UNCHANGED <<settled, sending, since, trip>> /\ Finish(p)
        BY <1>2 DEF FleetInv, FleetTypes, relay
    <2>12. \A b \in Assets \ {a} : specs'[b] = specs[b] /\ log'[b] = log[b] /\ settled'[b] = settled[b]
        BY <2>8, <2>10, <2>11
    <2>13. /\ asset' = [asset EXCEPT ![a] = row] /\ row \in Masters /\ a = req[p].asset
           /\ asset[a].state \in {"softDeleted", "gone"} => row.state \in {"softDeleted", "gone"}
           /\ UNCHANGED <<sending, since, trip>> /\ Finish(p) /\ req[p] # Idle
        BY <2>1, <2>4, <2>6, <2>11
    <2>14. /\ specs' \in SpecTables /\ log' \in [Assets -> Seq(Announced)] /\ settled' \in [Assets -> SUBSET Nat]
           /\ Covering(specs'[a])
        BY <2>8, <2>10, <2>11
    <2> QED BY <2>2, <2>9, <2>12, <2>13, <2>14, AssetWritten
<1> QED BY <1>1, <1>2 DEF AddSpec

LEMMA HardDeleteOfAsset ==
    ASSUME FleetInv, NEW p \in Requests, NEW kind \in Kinds, HardDelete(p, kind)
    PROVE  FleetInv'
<1> DEFINE a == req[p].asset
           work(at) == [op |-> "hardDelete", asset |-> a, seen |-> req[p].seen, at |-> at]
<1>1. req[p].op \in {"get", "hardDelete"} /\ req[p] # Idle /\ a \in Assets /\ req[p].seen \in Nat
    BY WorkFields DEF HardDelete, FleetInv
<1>2. ASSUME NEW at \in {"checked", "unreferenced"}, Put(p, work(at)),
             asset[a].state \in {"softDeleted", "gone"},
             UNCHANGED <<asset, specs, log, relay, record, rowLock, trip>>
      PROVE  FleetInv'
    <2>1. work(at) \in Works /\ work(at).op = "hardDelete" /\ work(at).asset = a
        BY <1>1 DEF Works
    <2>2. req' = [req EXCEPT ![p] = work(at)] /\ rowLock' \in [Assets -> Requests \cup {Nothing}]
        BY <1>2 DEF Put, FleetInv, FleetTypes
    <2>3. \A q \in Requests \ {p} : req[q].op = "create" => req[q].asset # a
        BY <1>1 DEF FleetInv, CreatorsInv
    <2> HIDE DEF work, a
    <2> QED BY <1>2, <2>1, <2>2, <2>3, NothingWritten DEF Writes
<1>3. CASE /\ req[p].op = "get" /\ asset[a].state = "softDeleted" /\ Put(p, work("checked"))
           /\ UNCHANGED <<asset, specs, log, relay, record, rowLock, trip>>
    BY <1>2, <1>3
<1>4. CASE /\ req[p].op = "hardDelete" /\ Put(p, work("unreferenced"))
           /\ UNCHANGED <<asset, specs, log, relay, record, rowLock, trip>>
    <2>1. asset[a].state \in {"softDeleted", "gone"}
        BY <1>4 DEF FleetInv, DeletersInv
    <2> QED BY <1>2, <1>4, <2>1
<1>5. CASE /\ rowLock[a] = Nothing /\ Exists(a)
           /\ asset' = [asset EXCEPT ![a] = NoRow("gone", kind, asset[a].version)]
           /\ specs' = [specs EXCEPT ![a] = <<>>]
           /\ settled' = [settled EXCEPT ![a] = DeadLettered(a)]
           /\ Tombstone(a) /\ Finish(p) /\ UNCHANGED <<sending, since, claims, record, trip>>
    <2> DEFINE row == NoRow("gone", kind, asset[a].version)
    <2>1. asset[a].state # "gone"
        BY <1>5 DEF Exists
    <2>2. \A q \in Requests \ {p} : req[q].op \in Writes => req[q].asset # a
        BY <1>5, FleetAssumption DEF FleetInv, WritersInv
    <2>3. /\ asset[a] \in Masters /\ log[a] \in Seq(Announced)
          /\ Life(asset[a], log[a]) /\ asset[a].version \in Nat /\ Len(log[a]) \in Nat
        BY <1>1 DEF FleetInv, FleetTypes, LifeInv, Masters
    <2>4. row \in Masters /\ row.version = asset[a].version /\ row.state = "gone"
        BY <2>3 DEF Masters, NoRow, States, Statuses
    <2>5. asset' = [asset EXCEPT ![a] = row] /\ a = req[p].asset
        BY <1>5
    <2> HIDE DEF row, a
    <2>6. /\ log' \in [Assets -> Seq(Announced)]
          /\ log'[a] = Append(log[a], [event |-> "tombstone", version |-> asset[a].version])
          /\ \A b \in Assets \ {a} : log'[b] = log[b]
        BY <1>1, <1>5, <2>3, AnnounceFields DEF Tombstone, FleetInv
    <2>7. /\ settled' \in [Assets -> SUBSET Nat] /\ settled'[a] = DOMAIN log[a]
          /\ \A b \in Assets \ {a} : settled'[b] = settled[b]
        <3>1. Queue(asset[a], log[a], settled[a], sending[a], since[a])
            BY <1>1 DEF FleetInv, QueueInv, a
        <3>2. DOMAIN log[a] = 1 .. Len(log[a]) /\ settled[a] \subseteq DOMAIN log[a]
            BY <2>3, <3>1 DEF Queue
        <3>3. DeadLettered(a) = DOMAIN log[a] /\ DOMAIN log[a] \subseteq Nat
            BY <3>2, <2>3 DEF DeadLettered, Open
        <3> QED BY <1>1, <1>5, <3>3 DEF FleetInv, FleetTypes, a
    <2>8. Life(row, log'[a]) /\ Queue(row, log'[a], settled'[a], sending[a], since[a])
        <3>1. Queue(asset[a], log[a], settled[a], sending[a], since[a])
            BY <1>1 DEF FleetInv, QueueInv, a
        <3>2. [event |-> "tombstone", version |-> asset[a].version] \in Announced
            BY <2>3 DEF Announced
        <3>3. Queue(row, log'[a], settled'[a], sending[a], since[a])
            BY <2>3, <2>6, <2>7, <3>1, <3>2, QueueEnds
        <3> QED BY <2>1, <2>3, <2>4, <2>6, <3>3, LifeEnds
    <2>9. /\ specs' \in SpecTables /\ Covering(specs'[a]) /\ \A b \in Assets \ {a} : specs'[b] = specs[b]
        BY <1>1, <1>5 DEF FleetInv, FleetTypes, SpecTables, Covering
    <2>10. Finish(p) /\ UNCHANGED <<sending, since, trip>> /\ req[p] # Idle
        BY <1>1, <1>5
    <2> QED BY <2>2, <2>4, <2>5, <2>6, <2>7, <2>8, <2>9, <2>10, AssetWritten
<1> QED BY <1>3, <1>4, <1>5 DEF HardDelete

LEMMA RollbackKeeps ==
    ASSUME FleetInv, NEW p \in Requests, Rollback(p)
    PROVE  FleetInv'
<1>1. /\ req' = [req EXCEPT ![p] = Idle] /\ Idle \in Works
      /\ rowLock' \in [Assets -> Requests \cup {Nothing}]
      /\ \A a \in Assets : rowLock[a] # p => rowLock'[a] = rowLock[a]
      /\ UNCHANGED <<asset, specs, log, relay, trip>>
    BY FinishOfFleet DEF Rollback, FleetInv
<1>2. Idle.op = "idle"
    BY DEF Idle
<1> QED BY <1>1, <1>2, NothingWritten DEF Writes

\* No asset that a trip takes up is about to be deleted.
LEMMA ValidateKeeps ==
    ASSUME FleetInv, NEW t \in Trips, ValidateReference(t)
    PROVE  FleetInv'
<1>1. PICK uses \in SUBSET Assets :
         /\ Compatible(uses)
         /\ trip' = [trip EXCEPT ![t] = [at |-> "validated", uses |-> uses,
                late |-> {a \in uses : \E p \in Requests : req[p].op = "hardDelete"
                                         /\ req[p].asset = a /\ req[p].at = "unreferenced"}]]
         /\ UNCHANGED <<asset, specs, log, relay, rowLock, req>>
    BY DEF ValidateReference
<1>2. \A a \in uses : asset[a].state = "live"
    BY <1>1 DEF Compatible, Validation, Selectable
<1>3. {a \in uses : \E p \in Requests : req[p].op = "hardDelete"
                                         /\ req[p].asset = a /\ req[p].at = "unreferenced"} = {}
    BY <1>2 DEF FleetInv, DeletersInv
<1>4. trip' = [trip EXCEPT ![t] = [at |-> "validated", uses |-> uses, late |-> {}]]
    BY <1>1, <1>3
<1>5. FleetTypes' /\ LateInv'
    <2> DEFINE new == [at |-> "validated", uses |-> uses, late |-> {}]
    <2>1. /\ new \in [at: {"none", "validated", "active"}, uses: SUBSET Assets, late: SUBSET Assets]
          /\ new.late = {} /\ trip' = [trip EXCEPT ![t] = new]
        BY <1>4
    <2> HIDE DEF new
    <2>2. trip' \in [Trips -> [at: {"none", "validated", "active"}, uses: SUBSET Assets, late: SUBSET Assets]]
            /\ LateInv'
        BY <2>1 DEF FleetInv, FleetTypes, LateInv
    <2> QED BY <1>1, <2>2 DEF FleetInv, FleetTypes, relay
<1>6. WritersInv' /\ CreatorsInv' /\ DeletersInv' /\ LifeInv' /\ QueueInv' /\ CoveringInv'
    BY <1>1 DEF FleetInv, WritersInv, Writes, CreatorsInv, Idle, DeletersInv, LifeInv, Life, Of,
                QueueInv, Queue, relay, CoveringInv, Covering, Meet
<1> QED BY <1>5, <1>6 DEF FleetInv

LEMMA SurroundingsKeep ==
    ASSUME FleetInv, CleanUp \/ (\E t \in Trips : StepTrip(t)) \/ UNCHANGED vars
    PROVE  FleetInv'
<1>1. /\ UNCHANGED <<asset, specs, log, relay, rowLock, req>>
      /\ \/ UNCHANGED trip
         \/ \E t \in Trips, at \in {"active"} : trip' = [trip EXCEPT ![t].at = at]
         \/ \E t \in Trips : trip' = [trip EXCEPT ![t] = NoTrip]
    BY DEF CleanUp, StepTrip, vars
<1>2. trip' \in [Trips -> [at: {"none", "validated", "active"}, uses: SUBSET Assets, late: SUBSET Assets]]
         /\ LateInv'
    <2>1. CASE UNCHANGED trip
        BY <2>1 DEF FleetInv, FleetTypes, LateInv
    <2>2. ASSUME NEW t \in Trips, trip' = [trip EXCEPT ![t].at = "active"]
          PROVE  trip' \in [Trips -> [at: {"none", "validated", "active"}, uses: SUBSET Assets, late: SUBSET Assets]]
                    /\ LateInv'
        <3>1. trip[t] \in [at: {"none", "validated", "active"}, uses: SUBSET Assets, late: SUBSET Assets]
                /\ trip[t].late = {}
            BY DEF FleetInv, FleetTypes, LateInv
        <3> DEFINE new == [trip[t] EXCEPT !.at = "active"]
        <3>2. /\ new \in [at: {"none", "validated", "active"}, uses: SUBSET Assets, late: SUBSET Assets]
              /\ new.late = {} /\ trip' = [trip EXCEPT ![t] = new]
            BY <2>2, <3>1
        <3> HIDE DEF new
        <3> QED BY <3>2 DEF FleetInv, FleetTypes, LateInv
    <2>3. ASSUME NEW t \in Trips, trip' = [trip EXCEPT ![t] = NoTrip]
          PROVE  trip' \in [Trips -> [at: {"none", "validated", "active"}, uses: SUBSET Assets, late: SUBSET Assets]]
                    /\ LateInv'
        BY <2>3 DEF FleetInv, FleetTypes, LateInv, NoTrip
    <2> QED BY <1>1, <2>1, <2>2, <2>3
<1>3. FleetTypes'
    BY <1>1, <1>2 DEF FleetInv, FleetTypes, relay
<1>4. WritersInv' /\ CreatorsInv' /\ DeletersInv' /\ LifeInv' /\ QueueInv' /\ CoveringInv'
    BY <1>1 DEF FleetInv, WritersInv, Writes, CreatorsInv, Idle, DeletersInv, LifeInv, Life, Of,
                QueueInv, Queue, relay, CoveringInv, Covering, Meet
<1> QED BY <1>2, <1>3, <1>4 DEF FleetInv

\* Whatever the relay takes up, publishes or fails to publish, until it claims once more
\* the tombstone of an asset that is gone stays the only open event.
LEMMA RelayKeeps ==
    ASSUME FleetInv, Claim \/ \E a \in Assets : \E i \in sending[a] : Publish(a, i) \/ PublishFails(a, i)
    PROVE  FleetInv'
<1>1. UNCHANGED <<asset, specs, log, rowLock, req, trip>>
    BY DEF Claim, Publish, PublishFails
<1>2. \A a \in Assets : /\ log[a] \in Seq(Announced) /\ DOMAIN log[a] = 1 .. Len(log[a]) /\ Len(log[a]) \in Nat
                        /\ Queue(asset[a], log[a], settled[a], sending[a], since[a])
    BY DEF FleetInv, FleetTypes, QueueInv
<1>3. /\ settled' \in [Assets -> SUBSET Nat] /\ sending' \in [Assets -> SUBSET Nat]
      /\ since' \in [Assets -> SUBSET {"claim", "echo"}]
      /\ \A a \in Assets : Queue(asset[a], log[a], settled'[a], sending'[a], since'[a])
    <2>1. CASE Claim
        <3>1. \A a \in Assets : sending'[a] \subseteq 1 .. Len(log[a])
            BY <1>2, <2>1 DEF Claim, Turn, Open
        <3>2. sending' \in [Assets -> SUBSET Nat] /\ settled' = [a \in Assets |-> {}]
            BY <2>1, <3>1 DEF Claim
        <3>3. since' = [a \in Assets |-> IF asset[a].state = "gone" THEN since[a] \cup {"claim"} ELSE since[a]]
            BY <2>1 DEF Claim
        <3>4. since' \in [Assets -> SUBSET {"claim", "echo"}]
            BY <3>3 DEF FleetInv, FleetTypes
        <3>5. \A a \in Assets : asset[a].state = "gone" => "claim" \in since'[a]
            BY <3>3
        <3> QED BY <3>1, <3>2, <3>4, <3>5 DEF Queue
    <2>2. ASSUME NEW a \in Assets, NEW i \in sending[a], Publish(a, i) \/ PublishFails(a, i)
          PROVE  /\ settled' \in [Assets -> SUBSET Nat] /\ sending' \in [Assets -> SUBSET Nat]
                 /\ since' \in [Assets -> SUBSET {"claim", "echo"}]
                 /\ \A b \in Assets : Queue(asset[b], log[b], settled'[b], sending'[b], since'[b])
        <3>1. /\ settled' = settled \/ settled' = [settled EXCEPT ![a] = @ \cup {i}]
              /\ sending' = [sending EXCEPT ![a] = @ \ {i}]
              /\ since' = since \/ since' = [since EXCEPT ![a] = @ \cup {"echo"}]
            BY <2>2 DEF Publish, PublishFails
        <3>2. i \in Nat /\ i \in 1 .. Len(log[a])
            BY <1>2 DEF FleetInv, FleetTypes, Queue
        <3>3. /\ settled' \in [Assets -> SUBSET Nat] /\ sending' \in [Assets -> SUBSET Nat]
              /\ since' \in [Assets -> SUBSET {"claim", "echo"}]
            <4>1. settled \in [Assets -> SUBSET Nat] /\ sending \in [Assets -> SUBSET Nat]
                    /\ since \in [Assets -> SUBSET {"claim", "echo"}]
                BY DEF FleetInv, FleetTypes
            <4>2. settled' \in [Assets -> SUBSET Nat]
                BY <3>1, <3>2, <4>1
            <4>3. sending' \in [Assets -> SUBSET Nat]
                BY <3>1, <4>1
            <4>4. since' \in [Assets -> SUBSET {"claim", "echo"}]
                BY <3>1, <4>1
            <4> QED BY <4>2, <4>3, <4>4
        <3>4. /\ settled'[a] \in {settled[a], settled[a] \cup {i}} /\ sending'[a] = sending[a] \ {i}
              /\ "claim" \in since[a] => "claim" \in since'[a]
            BY <3>1 DEF FleetInv, FleetTypes
        <3>5. \A b \in Assets \ {a} : settled'[b] = settled[b] /\ sending'[b] = sending[b] /\ since'[b] = since[b]
            BY <3>1 DEF FleetInv, FleetTypes
        <3>6. Queue(asset[a], log[a], settled'[a], sending'[a], since'[a])
            <4>1. Queue(asset[a], log[a], settled[a], sending[a], since[a])
                BY <1>2
            <4>2. settled'[a] \cup sending'[a] \subseteq 1 .. Len(log[a])
                BY <3>2, <3>4, <4>1 DEF Queue
            <4>3. ASSUME asset[a].state = "gone", "claim" \notin since'[a]
                  PROVE  settled'[a] = 1 .. (Len(log[a]) - 1) /\ Len(log[a]) \notin sending'[a]
                <5>1. settled[a] = 1 .. (Len(log[a]) - 1) /\ Len(log[a]) \notin sending[a]
                    BY <3>4, <4>1, <4>3 DEF Queue
                <5>2. i \in settled[a]
                    BY <1>2, <3>2, <5>1
                <5> QED BY <3>4, <5>1, <5>2
            <4> QED BY <4>2, <4>3 DEF Queue
        <3> QED BY <1>2, <3>3, <3>5, <3>6
    <2> QED BY <2>1, <2>2
<1>4. FleetTypes' /\ QueueInv'
    BY <1>1, <1>3 DEF FleetInv, FleetTypes, QueueInv, Queue
<1>5. WritersInv' /\ CreatorsInv' /\ DeletersInv' /\ LateInv' /\ LifeInv' /\ CoveringInv'
    BY <1>1 DEF FleetInv, WritersInv, Writes, CreatorsInv, Idle, DeletersInv, LateInv, LifeInv, Life, Of,
                CoveringInv, Covering, Meet
<1> QED BY <1>4, <1>5 DEF FleetInv

LEMMA FleetStep ==
    ASSUME FleetInv, [Next]_vars
    PROVE  FleetInv'
<1>1. ASSUME NEW p \in Requests, NEW kind \in Kinds,
             \/ BeginCreation(p, kind) \/ CommitCreation(p, kind) \/ Get(p, kind) \/ Patch(p, kind)
             \/ Transition(p, kind, "deactivate", "ACTIVE", "INACTIVE")
             \/ Transition(p, kind, "reactivate", "INACTIVE", "ACTIVE")
             \/ SoftDelete(p, kind) \/ AddSpec(p, kind) \/ HardDelete(p, kind)
             \/ RefuseHardDelete(p, kind) \/ Abandon(p)
      PROVE  FleetInv'
    <2>1. "ACTIVE" \in Statuses /\ "INACTIVE" \in Statuses
        BY DEF Statuses
    <2>2. CASE BeginCreation(p, kind) \/ CommitCreation(p, kind) \/ Get(p, kind) \/ Patch(p, kind)
        BY <2>2, BeginCreationKeeps, CommitCreationKeeps, GetKeeps, PatchKeeps
    <2>3. CASE \/ Transition(p, kind, "deactivate", "ACTIVE", "INACTIVE")
               \/ Transition(p, kind, "reactivate", "INACTIVE", "ACTIVE")
        BY <2>1, <2>3, TransitionKeeps
    <2>4. CASE SoftDelete(p, kind) \/ AddSpec(p, kind) \/ HardDelete(p, kind)
        BY <2>4, SoftDeleteKeeps, AddSpecKeeps, HardDeleteOfAsset
    <2>5. CASE RefuseHardDelete(p, kind) \/ Abandon(p)
        BY <2>5, RollbackKeeps DEF RefuseHardDelete, Abandon
    <2> QED BY <1>1, <2>2, <2>3, <2>4, <2>5
<1>2. "VEHICLE" \in Kinds /\ "TRAILER" \in Kinds
    BY DEF Kinds
<1> QED BY <1>1, <1>2, ValidateKeeps, SurroundingsKeep, RelayKeeps
        DEF Next, CreateVehicle, CreateTrailer, GetVehicle, GetTrailer, PatchVehicle, PatchTrailer,
            DeactivateVehicle, DeactivateTrailer, ReactivateVehicle, ReactivateTrailer, SoftDeleteVehicle,
            SoftDeleteTrailer, CreateVehicleSpecVersion, CreateTrailerSpecVersion, HardDeleteVehicle,
            HardDeleteTrailer, RefuseVehicleDelete, RefuseTrailerDelete

LEMMA FleetBegins ==
    ASSUME Init
    PROVE  FleetInv
<1>1. PICK kindOf \in Fleets : asset = [a \in Assets |-> NoRow("none", kindOf[a], 0)]
    BY DEF Init
<1>2. \A a \in Assets : NoRow("none", kindOf[a], 0) \in Masters
    BY FleetAssumption DEF NoRow, Masters, States, Statuses
<1>3. FleetTypes
    BY <1>1, <1>2 DEF Init, FleetTypes, SpecTables, Works, NoTrip
<1>4. WritersInv /\ CreatorsInv /\ DeletersInv /\ LateInv /\ CoveringInv
    BY DEF Init, WritersInv, CreatorsInv, DeletersInv, LateInv, CoveringInv, Covering, Idle, Writes, NoTrip
<1>5. LifeInv /\ QueueInv
    <2>1. \A event : Of(<<>>, event) = {}
        BY DEF Of
    <2>2. \A a \in Assets : /\ asset[a].state = "none" /\ asset[a].version = 0 /\ log[a] = <<>>
                            /\ settled[a] = {} /\ sending[a] = {}
        BY <1>1 DEF Init, NoRow
    <2> QED BY <2>1, <2>2 DEF LifeInv, Life, QueueInv, Queue
<1> QED BY <1>3, <1>4, <1>5 DEF FleetInv

\* The inductive invariant of the fleet service.
THEOREM FleetInvariant == Spec => []FleetInv
<1>1. Init => FleetInv
    BY FleetBegins
<1>2. FleetInv /\ [Next]_vars => FleetInv'
    BY FleetStep
<1> QED BY <1>1, <1>2, PTL DEF Spec

\* The rows of an asset tell its life in order, with the tombstone at the end, however
\* edits, spec versions and hard deletes of several requests meet.
THEOREM EventsAreInOrder == Spec => []EventsTellTheLife
<1>1. FleetInv => EventsTellTheLife
    <2> SUFFICES ASSUME FleetInv, NEW a \in Assets
                 PROVE  /\ {log[a][i].version : i \in Of(log[a], "master")} = 1 .. asset[a].version
                        /\ \A i, j \in Of(log[a], "master") : i < j => log[a][i].version < log[a][j].version
                        /\ (asset[a].state = "gone") <=> (Of(log[a], "tombstone") # {})
                        /\ Of(log[a], "tombstone") # {} =>
                              Of(log[a], "tombstone") = {Len(log[a])}
        BY DEF EventsTellTheLife, Of
    <2>1. Life(asset[a], log[a])
        BY DEF FleetInv, LifeInv
    <2> QED BY <2>1 DEF Life
<1> QED BY <1>1, FleetInvariant, PTL

\* After a hard delete nothing is before the tombstone in the queue of its asset, until
\* the next claim opens every row.
THEOREM TombstoneComesNext == Spec => []TombstoneIsNext
<1>1. FleetInv => TombstoneIsNext
    <2> SUFFICES ASSUME FleetInv, NEW a \in Assets, asset[a].state = "gone", "claim" \notin since[a]
                 PROVE  Open(a) = {Len(log[a])}
        BY DEF TombstoneIsNext
    <2>1. Life(asset[a], log[a]) /\ Queue(asset[a], log[a], settled[a], sending[a], since[a])
        BY DEF FleetInv, LifeInv, QueueInv
    <2>2. DOMAIN log[a] = 1 .. Len(log[a]) /\ Len(log[a]) \in Nat
        BY DEF FleetInv, FleetTypes
    <2>3. Len(log[a]) \in DOMAIN log[a]
        BY <2>1 DEF Life, Of
    <2> QED BY <2>1, <2>2, <2>3 DEF Queue, Open
<1> QED BY <1>1, FleetInvariant, PTL

\* Exactly one spec version is in force at every instant from the first one on.
THEOREM OneInForce == Spec => []OneSpecInForce
<1>1. FleetInv => OneSpecInForce
    <2> SUFFICES ASSUME FleetInv, NEW a \in Assets, specs[a] # <<>>, NEW at \in specs[a][1].from .. Forever
                 PROVE  Cardinality(FuelMetadata(a, at)) = 1
        BY DEF OneSpecInForce
    <2> DEFINE history == specs[a]
    <2>1. /\ history \in Seq(Windows) /\ Covering(history)
          /\ \A i \in DOMAIN history : history[i].from \in Nat /\ history[i].to \in Nat
          /\ Forever \in Nat /\ 1 \in DOMAIN history
        <3>1. history \in Seq(Windows) /\ Covering(history)
            BY DEF FleetInv, FleetTypes, SpecTables, CoveringInv
        <3>2. \A i \in DOMAIN history : history[i] \in Windows
            BY <3>1
        <3>3. \A w \in Windows : w.from \in Nat /\ w.to \in Nat
            BY FleetAssumption DEF Windows
        <3>4. 1 \in DOMAIN history
            BY <3>1
        <3> QED BY <3>1, <3>2, <3>3, <3>4, FleetAssumption
    <2>2. at \in Nat /\ history[1].from <= at /\ at <= Forever
        BY <2>1
    <2>3. /\ \A i \in DOMAIN history : history[i].from < history[i].to
          /\ \A i, j \in DOMAIN history : i # j => ~Meet(history[i], history[j])
          /\ \E i \in DOMAIN history : history[i].to = Forever
          /\ at < Forever => \E i \in DOMAIN history : history[i].from <= at /\ at < history[i].to
        BY <2>1, <2>2 DEF Covering
    <2>4. \E i : FuelMetadata(a, at) = {i}
        <3> HIDE DEF history
        <3>1. FuelMetadata(a, at) =
                 IF at = Forever THEN {i \in DOMAIN history : history[i].to = Forever}
                 ELSE {i \in DOMAIN history : history[i].from <= at /\ at < history[i].to}
            BY DEF FuelMetadata, Current, AsOf, history
        <3>2. CASE at = Forever
            <4>1. PICK i \in DOMAIN history : history[i].to = Forever
                BY <2>3
            <4>2. \A j \in DOMAIN history : history[j].to = Forever => j = i
                BY <2>1, <2>3, <4>1 DEF Meet
            <4> QED BY <3>1, <3>2, <4>1, <4>2
        <3>3. CASE at # Forever
            <4>1. PICK i \in DOMAIN history : history[i].from <= at /\ at < history[i].to
                BY <2>1, <2>2, <2>3, <3>3
            <4>2. \A j \in DOMAIN history : history[j].from <= at /\ at < history[j].to => j = i
                BY <2>1, <2>2, <2>3, <4>1 DEF Meet
            <4> QED BY <3>1, <3>3, <4>1, <4>2
        <3> QED BY <3>2, <3>3
    <2> QED BY <2>4, FS_Singleton
<1> QED BY <1>1, FleetInvariant, PTL

\* No trip validates an asset after a hard delete was told that none refers to it.
THEOREM NobodyIsLate == Spec => []NoReferenceAfterCheck
<1>1. FleetInv => NoReferenceAfterCheck
    BY DEF FleetInv, LateInv, NoReferenceAfterCheck
<1> QED BY <1>1, FleetInvariant, PTL

-----------------------------------------------------------------------------
(* Breakers and tokens: the calls of one process.                          *)

\* Who mints holds the lock, and holds it alone: it is the head of the queue.
MinterHoldsLock == \A t \in Tasks : task[t].pc = "minting" => queue # <<>> /\ Head(queue) = t

\* While somebody mints, the token stays old.
MintersFoundItOld == \A t \in Tasks : task[t].pc = "minting" => ~Fresh

CallsInv == CallsTypeOK /\ ClosedIffBelow /\ MinterHoldsLock /\ MintersFoundItOld

BreakerStates == {"CLOSED", "OPEN", "HALF_OPEN"}
Breakers == [state : BreakerStates, failures : 0..Threshold, rest : 0..Cooldown]
Doing == [pc : {"idle", "queued", "minting", "calling"}, for : Clients \cup {Ready},
         tries : 0..(Attempts - 1), kept : BOOLEAN, left : 0..TokenLife]

\* What the breaker's count means, of one breaker.
Counts(b) == b.state = "CLOSED" <=> b.failures < Threshold

-----------------------------------------------------------------------------
(* The operators.                                                          *)

LEMMA CheckedCounts ==
    ASSUME NEW b \in Breakers, Counts(b)
    PROVE  Checked(b) \in Breakers /\ Counts(Checked(b))
BY BreakerAssumption DEF Breakers, BreakerStates, Counts, Checked

LEMMA SuccessCounts ==
    ASSUME NEW b \in Breakers, Counts(b)
    PROVE  AfterSuccess(b) \in Breakers /\ Counts(AfterSuccess(b))
BY BreakerAssumption DEF Breakers, BreakerStates, Counts, AfterSuccess

LEMMA FailureCounts ==
    ASSUME NEW b \in Breakers, Counts(b)
    PROVE  AfterFailure(b) \in Breakers /\ Counts(AfterFailure(b))
<1>1. b.failures \in 0..Threshold /\ b.state \in BreakerStates
    BY DEF Breakers
<1>2. CASE b.failures = Threshold
    BY <1>1, <1>2, BreakerAssumption DEF Breakers, BreakerStates, Counts, AfterFailure
<1>3. CASE b.failures # Threshold
    <2>1. b.failures + 1 \in 0..Threshold /\ b.state = "CLOSED"
        BY <1>1, <1>3, BreakerAssumption DEF Counts
    <2> QED BY <1>1, <1>3, <2>1, BreakerAssumption DEF Breakers, BreakerStates, Counts, AfterFailure
<1> QED BY <1>2, <1>3

LEMMA DownBounded ==
    ASSUME NEW n \in Nat, NEW bound \in Nat, n <= bound
    PROVE  Down(n) \in 0..bound /\ Down(n) <= n
BY DEF Down

\* What is left of a token that is handed out has the range of its life.
LEMMA HandTyped ==
    ASSUME CallsTypeOK, NEW t \in Tasks, NEW c \in Clients \cup {Ready}, NEW left \in 0..TokenLife, Hand(t, c, left)
    PROVE  /\ task' \in [Tasks -> Doing]
           /\ task'[t].pc # "minting"
           /\ \A u \in Tasks \ {t} : task'[u] = task[u]
<1>1. 0 \in 0..(Attempts - 1) /\ 0 \in 0..TokenLife
    BY TokenAssumption
<1>2. AtRest \in Doing /\ AtRest.pc = "idle"
    BY <1>1 DEF AtRest, Doing
<1>3. [AtRest EXCEPT !.pc = "calling", !.for = c, !.left = left] \in Doing
    BY <1>1 DEF AtRest, Doing
<1>4. task \in [Tasks -> Doing]
    BY DEF CallsTypeOK, Doing
<1> QED BY <1>2, <1>3, <1>4 DEF Hand, AtRest

LEMMA MintingTyped ==
    ASSUME CallsTypeOK, NEW c \in Clients \cup {Ready}
    PROVE  /\ Minting(c) \in Doing
           /\ [AtRest EXCEPT !.pc = "queued", !.for = c] \in Doing
           /\ AtRest \in Doing
<1>1. 0 \in 0..(Attempts - 1) /\ 0 \in 0..TokenLife
    BY TokenAssumption
<1>2. ASSUME NEW kept \in BOOLEAN
      PROVE  [AtRest EXCEPT !.pc = "minting", !.for = c, !.kept = kept] \in Doing
    BY <1>1 DEF AtRest, Doing
<1>3. (token > 0) \in BOOLEAN
    OBVIOUS
<1>4. Minting(c) \in Doing
    BY <1>2, <1>3, Zenon DEF Minting
<1> QED BY <1>1, <1>4 DEF AtRest, Doing

-----------------------------------------------------------------------------
(* The parts of a step.                                                    *)

\* get_token up to its first wait keeps everything but the breakers.
LEMMA GetTokenKeeps ==
    ASSUME CallsInv, NEW t \in Tasks, NEW c \in Clients \cup {Ready}, task[t].pc = "idle",
           GetToken(t, c), breaker' \in [Clients -> Breakers], ClosedIffBelow'
    PROVE  CallsInv'
<1> USE DEF CallsInv
<1>1. /\ token' = token /\ backoff' = backoff /\ up' = up /\ identity' = identity
      /\ task \in [Tasks -> Doing] /\ queue \in Seq(Tasks)
    BY DEF GetToken, CallsTypeOK, Doing
<1>2. CASE Fresh /\ Hand(t, c, token) /\ UNCHANGED queue
    <2>1. token \in 0..TokenLife
        BY DEF CallsTypeOK
    <2>2. task' \in [Tasks -> Doing] /\ task'[t].pc # "minting" /\ \A u \in Tasks \ {t} : task'[u] = task[u]
        BY <1>2, <2>1, HandTyped
    <2>3. CallsTypeOK'
        BY <1>1, <1>2, <2>2 DEF CallsTypeOK, Doing, Breakers, BreakerStates
    <2> QED BY <1>1, <1>2, <2>2, <2>3 DEF MinterHoldsLock, MintersFoundItOld, Fresh
<1>3. CASE BackingOff /\ UNCHANGED <<task, queue>>
    <2>1. CallsTypeOK'
        BY <1>1, <1>3 DEF CallsTypeOK, Breakers, BreakerStates
    <2> QED BY <1>1, <1>3, <2>1 DEF MinterHoldsLock, MintersFoundItOld, Fresh
<1>4. CASE /\ ~Fresh /\ queue' = Append(queue, t)
           /\ task' = [task EXCEPT ![t] = IF queue = <<>> THEN Minting(c)
                                          ELSE [AtRest EXCEPT !.pc = "queued", !.for = c]]
    <2>1. queue' \in Seq(Tasks) /\ queue' # <<>>
        BY <1>1, <1>4
    <2>2. task' \in [Tasks -> Doing]
        BY <1>1, <1>4, MintingTyped
    <2>3. CallsTypeOK'
        BY <1>1, <2>1, <2>2 DEF CallsTypeOK, Doing, Breakers, BreakerStates
    <2>4. MintersFoundItOld'
        BY <1>1, <1>4 DEF MintersFoundItOld, Fresh
    <2>5. MinterHoldsLock'
        <3>1. CASE queue = <<>>
            <4>1. Head(queue') = t
                BY <1>4, <3>1
            <4>2. \A u \in Tasks \ {t} : task'[u].pc # "minting"
                BY <1>1, <1>4, <3>1 DEF MinterHoldsLock
            <4> QED BY <2>1, <4>1, <4>2 DEF MinterHoldsLock
        <3>2. CASE queue # <<>>
            <4>1. Head(queue') = Head(queue)
                BY <1>1, <1>4, <3>2
            <4>2. task'[t].pc # "minting" /\ \A u \in Tasks \ {t} : task'[u] = task[u]
                BY <1>1, <1>4, <3>2 DEF AtRest
            <4> QED BY <2>1, <4>1, <4>2 DEF MinterHoldsLock
        <3> QED BY <3>1, <3>2
    <2> QED BY <2>3, <2>4, <2>5
<1> QED BY <1>2, <1>3, <1>4 DEF GetToken

LEMMA AskKeeps ==
    ASSUME CallsInv, NEW t \in Tasks, NEW c \in Clients, Ask(t, c)
    PROVE  CallsInv'
<1>1. breaker \in [Clients -> Breakers] /\ Counts(breaker[c]) /\ \A d \in Clients : Counts(breaker[d])
    BY DEF CallsInv, CallsTypeOK, ClosedIffBelow, Breakers, BreakerStates, Counts
<1>2. breaker' = [breaker EXCEPT ![c] = Checked(breaker[c])]
    BY DEF Ask
<1>3. Checked(breaker[c]) \in Breakers /\ Counts(Checked(breaker[c]))
    BY <1>1, CheckedCounts
<1>4. breaker' \in [Clients -> Breakers] /\ ClosedIffBelow'
    BY <1>1, <1>2, <1>3 DEF ClosedIffBelow, Counts
<1> QED BY <1>4, GetTokenKeeps DEF Ask

\* The end of a call tells the breaker and frees the task.
LEMMA ReturnKeeps ==
    ASSUME CallsInv, NEW t \in Tasks, task[t].pc = "calling", NEW b \in Breakers, Counts(b),
           task[t].for \in Clients,
           breaker' = [breaker EXCEPT ![task[t].for] = b], task' = [task EXCEPT ![t] = AtRest],
           UNCHANGED <<token, backoff, queue, up, identity>>
    PROVE  CallsInv'
<1>1. breaker' \in [Clients -> Breakers] /\ task' \in [Tasks -> Doing]
    BY MintingTyped DEF CallsInv, CallsTypeOK, Breakers, BreakerStates, Doing
<1>2. CallsTypeOK'
    BY <1>1 DEF CallsInv, CallsTypeOK, Breakers, BreakerStates, Doing
<1>3. ClosedIffBelow'
    BY DEF CallsInv, CallsTypeOK, ClosedIffBelow, Counts
<1>4. MinterHoldsLock' /\ MintersFoundItOld'
    BY DEF CallsInv, CallsTypeOK, MinterHoldsLock, MintersFoundItOld, Fresh, AtRest
<1> QED BY <1>2, <1>3, <1>4 DEF CallsInv

\* A call is made for a client, never for the readiness probe.  It is no part
\* of IInv because nothing else rests on it: the breaker of the probe would be
\* no element of the domain of breaker.
LEMMA OutsideBreakerKeeps ==
    ASSUME CallsInv, NEW t \in Tasks, task[t].for \notin Clients, NEW b,
           breaker' = [breaker EXCEPT ![task[t].for] = b], task' = [task EXCEPT ![t] = AtRest],
           UNCHANGED <<token, backoff, queue, up, identity>>
    PROVE  CallsInv'
<1>1. breaker' = breaker
    BY DEF CallsInv, CallsTypeOK
<1>2. task' \in [Tasks -> Doing]
    BY MintingTyped DEF CallsInv, CallsTypeOK, Doing
<1>3. CallsTypeOK'
    BY <1>1, <1>2 DEF CallsInv, CallsTypeOK, Doing
<1>4. ClosedIffBelow'
    BY <1>1 DEF CallsInv, ClosedIffBelow
<1>5. MinterHoldsLock' /\ MintersFoundItOld'
    BY DEF CallsInv, CallsTypeOK, MinterHoldsLock, MintersFoundItOld, Fresh, AtRest
<1> QED BY <1>3, <1>4, <1>5 DEF CallsInv

-----------------------------------------------------------------------------
(* One lemma for each action that remains.                                 *)

LEMMA TakeLockKeeps ==
    ASSUME CallsInv, NEW t \in Tasks, TakeLock(t)
    PROVE  CallsInv'
<1>0. /\ queue # <<>> /\ Head(queue) = t /\ task[t].pc = "queued"
      /\ UNCHANGED <<breaker, token, backoff, up, identity>>
      /\ task \in [Tasks -> Doing] /\ queue \in Seq(Tasks) /\ token \in 0..TokenLife
      /\ task[t].for \in Clients \cup {Ready}
    BY DEF TakeLock, CallsInv, CallsTypeOK, Doing
<1>1. ClosedIffBelow'
    BY <1>0 DEF CallsInv, ClosedIffBelow
<1>2. \A u \in Tasks : task[u].pc # "minting"
    BY <1>0 DEF CallsInv, MinterHoldsLock
<1>3. CASE Usable /\ Hand(t, task[t].for, token) /\ Leave
    <2>1. task' \in [Tasks -> Doing] /\ task'[t].pc # "minting" /\ \A u \in Tasks \ {t} : task'[u] = task[u]
        BY <1>0, <1>3, HandTyped DEF CallsInv
    <2>2. queue' \in Seq(Tasks)
        BY <1>0, <1>3 DEF Leave
    <2>3. CallsTypeOK'
        BY <1>0, <2>1, <2>2 DEF CallsInv, CallsTypeOK, Doing
    <2> QED BY <1>1, <1>2, <2>1, <2>3 DEF CallsInv, MinterHoldsLock, MintersFoundItOld
<1>4. CASE ~Usable /\ task' = [task EXCEPT ![t] = Minting(task[t].for)] /\ UNCHANGED queue
    <2>1. task' \in [Tasks -> Doing]
        BY <1>0, <1>4, MintingTyped DEF CallsInv
    <2>2. CallsTypeOK'
        BY <1>0, <1>4, <2>1 DEF CallsInv, CallsTypeOK, Doing
    <2>3. ~Fresh'
        BY <1>0, <1>4 DEF Usable, Fresh
    <2>4. \A u \in Tasks \ {t} : task'[u].pc # "minting"
        BY <1>0, <1>2, <1>4
    <2> QED BY <1>0, <1>1, <1>4, <2>2, <2>3, <2>4 DEF CallsInv, MinterHoldsLock, MintersFoundItOld
<1> QED BY <1>0, <1>3, <1>4 DEF TakeLock

\* Whoever stops minting was the only one.
LEMMA OnlyMinter ==
    ASSUME CallsInv, NEW t \in Tasks, task[t].pc = "minting"
    PROVE  /\ queue # <<>> /\ Tail(queue) \in Seq(Tasks)
           /\ \A u \in Tasks \ {t} : task[u].pc # "minting"
BY DEF CallsInv, MinterHoldsLock, CallsTypeOK

LEMMA MintOkKeeps ==
    ASSUME CallsInv, NEW t \in Tasks, MintOk(t)
    PROVE  CallsInv'
<1>0. task[t].for \in Clients \cup {Ready} /\ TokenLife \in 0..TokenLife
    BY TokenAssumption DEF CallsInv, CallsTypeOK
<1>1. task' \in [Tasks -> Doing] /\ task'[t].pc # "minting" /\ \A u \in Tasks \ {t} : task'[u] = task[u]
    BY <1>0, HandTyped DEF MintOk, CallsInv
<1>2. \A u \in Tasks : task'[u].pc # "minting"
    BY <1>1, OnlyMinter DEF MintOk
<1>3. CallsTypeOK'
    <2>1. queue' \in Seq(Tasks)
        BY OnlyMinter DEF MintOk, Leave
    <2>2. token' \in 0..TokenLife /\ backoff' \in 0..Backoff
        BY TokenAssumption DEF MintOk
    <2> QED BY <1>1, <2>1, <2>2 DEF CallsInv, CallsTypeOK, Doing, MintOk
<1>4. ClosedIffBelow'
    BY DEF MintOk, CallsInv, ClosedIffBelow
<1> QED BY <1>2, <1>3, <1>4 DEF CallsInv, MinterHoldsLock, MintersFoundItOld

LEMMA MintAgainKeeps ==
    ASSUME CallsInv, NEW t \in Tasks, MintAgain(t)
    PROVE  CallsInv'
<1>1. /\ task \in [Tasks -> Doing] /\ task[t].tries \in 0..(Attempts - 1)
      /\ task[t].tries < Attempts - 1
      /\ task' = [task EXCEPT ![t].tries = task[t].tries + 1]
      /\ UNCHANGED <<breaker, token, backoff, queue, up, identity>>
    BY DEF MintAgain, Counted, CallsInv, CallsTypeOK, Doing
<1>2. task[t].tries + 1 \in 0..(Attempts - 1)
    BY <1>1, TokenAssumption
<1>3. task' \in [Tasks -> Doing] /\ \A u \in Tasks : task'[u].pc = task[u].pc
    BY <1>1, <1>2 DEF Doing
<1>4. CallsTypeOK'
    BY <1>1, <1>3 DEF CallsInv, CallsTypeOK, Doing
<1> QED BY <1>1, <1>3, <1>4 DEF CallsInv, ClosedIffBelow, MinterHoldsLock, MintersFoundItOld, Fresh

LEMMA MintFailsKeeps ==
    ASSUME CallsInv, NEW t \in Tasks, MintFails(t)
    PROVE  CallsInv'
<1>0. /\ task[t].for \in Clients \cup {Ready} /\ token \in 0..TokenLife /\ task \in [Tasks -> Doing]
      /\ task[t].pc = "minting" /\ queue' = Tail(queue) /\ UNCHANGED <<breaker, token, up, identity>>
    BY DEF CallsInv, CallsTypeOK, Doing, MintFails, Leave
<1>1. /\ task' \in [Tasks -> Doing] /\ task'[t].pc # "minting"
      /\ \A u \in Tasks \ {t} : task'[u] = task[u]
      /\ backoff' \in 0..Backoff
    <2>1. CASE Hand(t, task[t].for, token) /\ UNCHANGED backoff
        BY <1>0, <2>1, HandTyped DEF CallsInv, CallsTypeOK
    <2>2. CASE backoff' = Backoff /\ task' = [task EXCEPT ![t] = AtRest]
        <3>1. AtRest \in Doing /\ AtRest.pc = "idle"
            BY <1>0, MintingTyped DEF CallsInv, AtRest
        <3>2. Backoff \in 0..Backoff
            BY TokenAssumption
        <3> QED BY <1>0, <2>2, <3>1, <3>2
    <2> QED BY <2>1, <2>2 DEF MintFails
<1>2. \A u \in Tasks : task'[u].pc # "minting"
    BY <1>0, <1>1, OnlyMinter
<1>3. CallsTypeOK'
    BY <1>0, <1>1, OnlyMinter DEF CallsInv, CallsTypeOK, Doing
<1>4. ClosedIffBelow'
    BY <1>0 DEF CallsInv, ClosedIffBelow
<1> QED BY <1>2, <1>3, <1>4 DEF CallsInv, MinterHoldsLock, MintersFoundItOld

LEMMA CallEnds ==
    ASSUME CallsInv, NEW t \in Tasks, Answered(t) \/ Failed(t)
    PROVE  CallsInv'
<1>1. CASE task[t].for \in Clients
    <2>1. breaker[task[t].for] \in Breakers /\ Counts(breaker[task[t].for])
        BY <1>1 DEF CallsInv, CallsTypeOK, ClosedIffBelow, Breakers, BreakerStates, Counts
    <2>2. CASE Answered(t)
        BY <1>1, <2>1, <2>2, SuccessCounts, ReturnKeeps DEF Answered, Return
    <2>3. CASE Failed(t)
        BY <1>1, <2>1, <2>3, FailureCounts, ReturnKeeps DEF Failed, Return
    <2> QED BY <2>2, <2>3
<1>2. CASE task[t].for \notin Clients
    BY <1>2, OutsideBreakerKeeps DEF Answered, Failed, Return
<1> QED BY <1>1, <1>2

LEMMA TickKeeps ==
    ASSUME CallsInv, Tick
    PROVE  CallsInv'
<1>1. breaker' \in [Clients -> Breakers] /\ ClosedIffBelow'
    <2>1. ASSUME NEW c \in Clients
          PROVE  [breaker[c] EXCEPT !.rest = Down(breaker[c].rest)] \in Breakers
        <3>1. breaker[c] \in Breakers
            BY DEF CallsInv, CallsTypeOK, Breakers, BreakerStates
        <3>2. Down(breaker[c].rest) \in 0..Cooldown
            BY <3>1, BreakerAssumption, DownBounded DEF Breakers
        <3> QED BY <3>1, <3>2 DEF Breakers
    <2>2. breaker' \in [Clients -> Breakers]
        BY <2>1 DEF Tick
    <2>3. \A c \in Clients : breaker'[c].state = breaker[c].state /\ breaker'[c].failures = breaker[c].failures
        BY DEF Tick, CallsInv, CallsTypeOK
    <2> QED BY <2>2, <2>3 DEF CallsInv, ClosedIffBelow
<1>2. task' \in [Tasks -> Doing] /\ \A t \in Tasks : task'[t].pc = task[t].pc
    <2>1. ASSUME NEW t \in Tasks
          PROVE  [task[t] EXCEPT !.left = Aged(task[t].left)] \in Doing
        <3>1. task[t] \in Doing /\ task[t].left \in 0..TokenLife
            BY DEF CallsInv, CallsTypeOK, Doing
        <3>2. Aged(task[t].left) \in 0..TokenLife
            BY <3>1, TokenAssumption, DownBounded DEF Aged
        <3> QED BY <3>1, <3>2 DEF Doing
    <2> QED BY <2>1 DEF Tick, CallsInv, CallsTypeOK
<1>3. token' \in 0..TokenLife /\ token' <= token /\ backoff' \in 0..Backoff
    BY TokenAssumption, DownBounded DEF Tick, CallsInv, CallsTypeOK
<1>4. CallsTypeOK'
    BY <1>1, <1>2, <1>3 DEF Tick, CallsInv, CallsTypeOK, Breakers, BreakerStates, Doing
<1>5. MinterHoldsLock'
    BY <1>2 DEF Tick, CallsInv, MinterHoldsLock
<1>6. MintersFoundItOld'
    BY <1>2, <1>3, TokenAssumption DEF CallsInv, CallsTypeOK, MintersFoundItOld, Fresh
<1> QED BY <1>1, <1>4, <1>5, <1>6 DEF CallsInv

LEMMA OutsideKeeps ==
    ASSUME CallsInv, Outside
    PROVE  CallsInv'
<1>1. up' \in SUBSET Clients /\ identity' \in {"up", "down", "refusing"}
    BY DEF Outside, CallsInv, CallsTypeOK
<1> QED BY <1>1 DEF Outside, CallsInv, CallsTypeOK, ClosedIffBelow, MinterHoldsLock, MintersFoundItOld, Fresh

-----------------------------------------------------------------------------
(* The theorems.                                                           *)

LEMMA CallsInitInv == CallsInit => CallsInv
<1> SUFFICES ASSUME CallsInit PROVE CallsInv
    OBVIOUS
<1>1. AtRest \in Doing /\ AtRest.pc = "idle"
    <2>1. 0 \in 0..(Attempts - 1) /\ 0 \in 0..TokenLife
        BY TokenAssumption
    <2> QED BY <2>1 DEF AtRest, Doing
<1>2. CallsTypeOK
    BY <1>1, BreakerAssumption, TokenAssumption DEF CallsInit, CallsTypeOK, Doing
<1> QED BY <1>1, <1>2, BreakerAssumption DEF CallsInit, CallsInv, ClosedIffBelow, MinterHoldsLock, MintersFoundItOld

LEMMA CallsStepInv == CallsInv /\ [CallsNext]_callsVars => CallsInv'
<1> SUFFICES ASSUME CallsInv, [CallsNext]_callsVars PROVE CallsInv'
    OBVIOUS
<1>1. ASSUME NEW t \in Tasks, AskDriver(t) \/ AskTrip(t) PROVE CallsInv'
    BY <1>1, AskKeeps DEF AskDriver, AskTrip, Clients
<1>2. ASSUME NEW t \in Tasks, AskReady(t) PROVE CallsInv'
    <2>1. breaker' \in [Clients -> Breakers] /\ ClosedIffBelow'
        BY <1>2 DEF AskReady, CallsInv, CallsTypeOK, ClosedIffBelow, Breakers, BreakerStates
    <2> QED BY <1>2, <2>1, GetTokenKeeps DEF AskReady
<1>3. ASSUME NEW t \in Tasks, Proceed(t) PROVE CallsInv'
    BY <1>3, TakeLockKeeps, MintOkKeeps, MintAgainKeeps, MintFailsKeeps, CallEnds DEF Proceed
<1>4. CASE UNCHANGED callsVars
    BY <1>4 DEF callsVars, CallsInv, CallsTypeOK, ClosedIffBelow, MinterHoldsLock, MintersFoundItOld, Fresh
<1> QED BY <1>1, <1>2, <1>3, <1>4, TickKeeps, OutsideKeeps DEF CallsNext

LEMMA CallsInvariance == CallsSpec => []CallsInv
BY CallsInitInv, CallsStepInv, PTL DEF CallsSpec

\* The state of service_tokens.py and of the two clients keeps its types.
THEOREM CallsTypeCorrect == CallsSpec => []CallsTypeOK
BY CallsInvariance, PTL DEF CallsInv

\* Whatever order late answers, failures and probes come in, a breaker is CLOSED
\* exactly while fewer than the threshold of failures are counted.
THEOREM CountedRight == CallsSpec => []ClosedIffBelow
BY CallsInvariance, PTL DEF CallsInv

\* The lock of the token cache: no two tasks are at the identity service at once.
THEOREM OneMinter == CallsSpec => [](\A t, u \in Tasks : task[t].pc = "minting" /\ task[u].pc = "minting" => t = u)
<1>1. CallsInv => \A t, u \in Tasks : task[t].pc = "minting" /\ task[u].pc = "minting" => t = u
    BY DEF CallsInv, MinterHoldsLock
<1> QED BY <1>1, CallsInvariance, PTL

\* However many tasks found the token old, none renews one that is fresh.
THEOREM RenewedOnce == CallsSpec => NoNeedlessMint
<1>1. CallsInv => ((\E t \in Tasks : MintOk(t)) => ~Fresh)
    BY DEF CallsInv, MintersFoundItOld, MintOk
<1> QED BY <1>1, CallsInvariance, PTL DEF NoNeedlessMint
=============================================================================
