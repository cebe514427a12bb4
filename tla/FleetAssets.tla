----------------------------- MODULE FleetAssets -----------------------------
(***************************************************************************)
(* Vehicles and trailers of the fleet service: creation under an           *)
(* idempotency key, edits under If-Match, the lifecycle, spec versions and *)
(* the four-stage hard delete (vehicle_service.py, trailer_service.py,     *)
(* vehicle_spec_service.py), next to the trip service, which validates the *)
(* assets of a new trip first and inserts the trip later, and which a hard *)
(* delete asks for references.                                             *)
(*                                                                         *)
(* A request is one transaction at READ COMMITTED behind a GET that told   *)
(* the client an ETag.  It is taken apart at its row lock and its HTTP     *)
(* call; what it writes shows at its commit, where the unique and the      *)
(* exclusion constraints are enforced.                                     *)
(*                                                                         *)
(* Of the outbox relay there is one worker, without retries and tokens:    *)
(* OutboxRelay has those.  What matters here is which events of an asset   *)
(* are open or in its hands when a hard delete gives up the open ones.     *)
(***************************************************************************)
EXTENDS Naturals, FiniteSets, Sequences, SequencesExt, FiniteSetsExt

CONSTANTS Assets,       \* ids of vehicles and trailers, ULIDs of their creation
          Fleets,       \* which ids go to vehicles and which to trailers: the choices
          Requests, Plates, Keys, Trips,
          Nothing,      \* the null of all of these
          Instants,     \* effective_from_utc of spec versions
          Forever,      \* the open end of a window
          MaxEvents,    \* bound on the events announced, over all assets
          MaxClaims     \* bound on the claims of the outbox relay

Kinds == {"VEHICLE", "TRAILER"}

ASSUME FleetAssumption ==
    /\ Nothing \notin Assets \cup Requests \cup Plates
    /\ Fleets \subseteq [Assets -> Kinds]
    /\ Instants \subseteq Nat
    /\ Forever \in Nat /\ \A i \in Instants : i < Forever
    /\ MaxEvents \in Nat \ {0}
    /\ MaxClaims \in Nat

VARIABLES asset,    \* fleet_vehicles and fleet_trailers
          specs,    \* the spec versions of an asset, by version_no
          log,      \* the outbox and timeline events of an asset, by insertion
          settled,  \* those that are published or dead
          sending,  \* those that the outbox relay has claimed and will publish
          since,    \* what it has done after the hard delete of an asset (history)
          claims,   \* its claims so far
          record,   \* fleet_idempotency_records
          rowLock,  \* who holds a master row FOR UPDATE
          req,      \* the requests under way
          trip      \* the trips of the trip service that use an asset

relay == <<settled, sending, since, claims>>
vars == <<asset, specs, log, relay, record, rowLock, req, trip>>

States == {"none", "live", "softDeleted", "gone"}
Statuses == {"ACTIVE", "INACTIVE"}
Rows == [state: States, kind: Kinds, status: Statuses, version: 0 .. MaxEvents, stream: 0 .. MaxEvents,
         plate: Plates \cup {Nothing}]
NoRow(state, kind, version) ==
    [state |-> state, kind |-> kind, status |-> "INACTIVE", version |-> version, stream |-> 0,
     plate |-> Nothing]
Windows == [from: Instants, to: Instants \cup {Forever}]
Events == [event: {"master", "spec", "tombstone"}, version: 0 .. MaxEvents]

\* The tables of spec versions, of events (outbox and timeline) and of
\* idempotency records.
SpecTables == [Assets -> Seq(Windows)]
EventTables == [Assets -> Seq(Events)]
RecordTables == [Keys \X Kinds -> Assets \cup {Nothing}]

Idle == [op |-> "idle"]
Ops == {"get", "create", "patch", "deactivate", "reactivate", "softDelete", "addSpec", "hardDelete"}
NoTrip == [at |-> "none", uses |-> {}, late |-> {}]

TypeOK ==
    /\ asset \in [Assets -> Rows]
    /\ specs \in SpecTables
    /\ log \in EventTables
    /\ \A a \in Assets : settled[a] \cup sending[a] \subseteq DOMAIN log[a]
    /\ since \in [Assets -> SUBSET {"claim", "echo"}]
    /\ claims \in 0 .. MaxClaims
    /\ record \in RecordTables
    /\ rowLock \in [Assets -> Requests \cup {Nothing}]
    /\ \A p \in Requests : req[p] # Idle => req[p].op \in Ops /\ req[p].asset \in Assets
    /\ trip \in [Trips -> [at: {"none", "validated", "active"}, uses: SUBSET Assets, late: SUBSET Assets]]

Init ==
    /\ \E kindOf \in Fleets : asset = [a \in Assets |-> NoRow("none", kindOf[a], 0)]
    /\ specs = [a \in Assets |-> <<>>]
    /\ log = [a \in Assets |-> <<>>]
    /\ settled = [a \in Assets |-> {}]
    /\ sending = [a \in Assets |-> {}]
    /\ since = [a \in Assets |-> {}]
    /\ claims = 0
    /\ record = [u \in Keys \X Kinds |-> Nothing]
    /\ rowLock = [a \in Assets |-> Nothing]
    /\ req = [p \in Requests |-> Idle]
    /\ trip = [t \in Trips |-> NoTrip]

-----------------------------------------------------------------------------
(* The repositories.                                                       *)

Exists(a) == asset[a].state \in {"live", "softDeleted"}
OfKind(kind) == {a \in Assets : asset[a].kind = kind /\ Exists(a)}

SelectableOnceDeleted(a) == Exists(a) /\ asset[a].status = "ACTIVE"

\* Alive and active: what may be used, and what takes spec versions.
Selectable(a) == asset[a].state = "live" /\ asset[a].status = "ACTIVE"

\* check_plate_uniqueness: no other live row.  The asset code, unique among
\* all rows, is left out: its conflict is a refusal as any other.
PlateFree(kind, plate, a) ==
    \A b \in OfKind(kind) \ {a} : asset[b].state = "live" => asset[b].plate # plate

\* The partial unique index on live plates.
UniqueConstraints(table) ==
    \A a, b \in {c \in Assets : table[c].state = "live"} :
        (a # b /\ table[a].kind = table[b].kind) => table[a].plate # table[b].plate

Meet(v, w) == v.from < w.to /\ w.from < v.to

\* The window check, the unique current version and the exclusion constraint.
SpecConstraints(history) ==
    /\ \A i \in DOMAIN history : history[i].from < history[i].to
    /\ \A i, j \in DOMAIN history : i # j => ~Meet(history[i], history[j])
    /\ Cardinality({i \in DOMAIN history : history[i].to = Forever}) <= 1

CloseTheDayBefore(history, from) ==
    [i \in DOMAIN history |-> IF history[i].to = Forever THEN [history[i] EXCEPT !.to = from - 1] ELSE history[i]]

\* close_current_spec: the current version ends where the next begins.
CloseCurrentSpec(history, from) ==
    [i \in DOMAIN history |-> IF history[i].to = Forever THEN [history[i] EXCEPT !.to = from] ELSE history[i]]

\* get_current_spec
Current(a) == {i \in DOMAIN specs[a] : specs[a][i].to = Forever}

AsOfInclusive(a, at) == {i \in DOMAIN specs[a] : specs[a][i].from <= at /\ at <= specs[a][i].to}

\* get_spec_as_of
AsOf(a, at) == {i \in DOMAIN specs[a] : specs[a][i].from <= at /\ at < specs[a][i].to}

\* resolve_fuel_metadata goes by the current version if it is given no instant.
FuelMetadata(a, at) == IF at = Forever THEN Current(a) ELSE AsOf(a, at)

Announce(a, event, version) == log' = [log EXCEPT ![a] = Append(@, [event |-> event, version |-> version])]

\* The bound: every request under way announces at most one event.
Budget == SumFunction([a \in Assets |-> Len(log[a])]) + Cardinality({p \in Requests : req[p] # Idle}) < MaxEvents

Put(p, request) == req' = [req EXCEPT ![p] = request]

\* The end of a transaction gives back its row lock.
Finish(p) ==
    /\ Put(p, Idle)
    /\ rowLock' = [a \in Assets |-> IF rowLock[a] = p THEN Nothing ELSE rowLock[a]]

\* A refusal, an error, a lock timeout or a death: nothing is written.
Rollback(p) == Finish(p) /\ UNCHANGED <<asset, specs, log, relay, record, trip>>

-----------------------------------------------------------------------------
(* Creation.                                                               *)

\* The replay check and the uniqueness checks.  A key with a record answers
\* with the stored response or a mismatch, and nothing changes.
BeginCreation(p, kind) ==
    \E a \in Assets, key \in Keys, plate \in Plates, from \in Instants \cup {Forever} :
        /\ req[p] = Idle /\ Budget
        /\ asset[a].state = "none" /\ asset[a].kind = kind
        /\ \A r \in Requests : req[r] # Idle => req[r].asset # a
        /\ record[key, kind] = Nothing
        /\ PlateFree(kind, plate, Nothing)
        /\ Put(p, [op |-> "create", asset |-> a, key |-> key, plate |-> plate, from |-> from])
        /\ UNCHANGED <<asset, specs, log, relay, record, rowLock, trip>>

\* Master, initial spec, event and idempotency record in one commit; an
\* initial spec is optional.
CommitCreation(p, kind) ==
    LET r == req[p]
        a == r.asset
        row == [state |-> "live", kind |-> kind, status |-> "ACTIVE", version |-> 1,
                stream |-> IF r.from = Forever THEN 0 ELSE 1, plate |-> r.plate]
        table == [asset EXCEPT ![a] = row]
    IN /\ r.op = "create" /\ asset[a].kind = kind
       /\ record[r.key, kind] = Nothing
       /\ UniqueConstraints(table)
       /\ asset' = table
       /\ specs' = IF r.from = Forever THEN specs
                   ELSE [specs EXCEPT ![a] = <<[from |-> r.from, to |-> Forever]>>]
       /\ Announce(a, "master", 1)
       /\ record' = [record EXCEPT ![<<r.key, kind>>] = a]
       /\ Finish(p)
       /\ UNCHANGED <<relay, trip>>

CreateVehicle(p) == BeginCreation(p, "VEHICLE") \/ CommitCreation(p, "VEHICLE")
CreateTrailer(p) == BeginCreation(p, "TRAILER") \/ CommitCreation(p, "TRAILER")

\* _idempotency_cleanup_loop: a record expires after three days.
CleanUp ==
    /\ \E u \in Keys \X Kinds : record[u] # Nothing /\ record' = [record EXCEPT ![u] = Nothing]
    /\ UNCHANGED <<asset, specs, log, relay, rowLock, req, trip>>

-----------------------------------------------------------------------------
(* Changes of an existing asset.                                           *)

\* The detail response: the versions of the row and of its spec stream.
Detail(a) == [op |-> "get", asset |-> a, seen |-> asset[a].version, stream |-> asset[a].stream]

\* The GET behind the If-Match header of a request to come.
Get(p, kind) ==
    /\ req[p] = Idle /\ Budget
    /\ \E a \in OfKind(kind) : Put(p, Detail(a))
    /\ UNCHANGED <<asset, specs, log, relay, record, rowLock, trip>>

GetVehicle(p) == Get(p, "VEHICLE")
GetTrailer(p) == Get(p, "TRAILER")

LockRowShared(p) ==
    /\ rowLock' = [rowLock EXCEPT ![req[p].asset] = p]
    /\ UNCHANGED <<asset, specs, log, relay, record, trip>>

\* get_vehicle_for_update, get_trailer_for_update.
LockRow(p) ==
    /\ rowLock[req[p].asset] = Nothing
    /\ rowLock' = [rowLock EXCEPT ![req[p].asset] = p]
    /\ UNCHANGED <<asset, specs, log, relay, record, trip>>

\* Lock the row, compare the ETag and check what the operation asks for.
Begin(p, kind) ==
    /\ req[p].op = "get" /\ asset[req[p].asset].kind = kind
    /\ asset[req[p].asset].state = "live"
    /\ asset[req[p].asset].version = req[p].seen
    /\ LockRow(p)

\* A change of the master row, with its event.
Change(p, new) ==
    LET a == req[p].asset
        row == [new EXCEPT !.version = @ + 1]
    IN /\ UniqueConstraints([asset EXCEPT ![a] = row])
       /\ asset' = [asset EXCEPT ![a] = row]
       /\ Announce(a, "master", row.version)
       /\ Finish(p)
       /\ UNCHANGED <<specs, relay, record, trip>>

\* p carries out op on an asset of that kind.
Locked(p, kind, op) == req[p].op = op /\ asset[req[p].asset].kind = kind

Patch(p, kind) ==
    \/ /\ Begin(p, kind)
       /\ \E plate \in Plates :
             /\ PlateFree(kind, plate, req[p].asset)
             /\ Put(p, [op |-> "patch", asset |-> req[p].asset, seen |-> req[p].seen, plate |-> plate])
    \/ /\ Locked(p, kind, "patch")
       /\ Change(p, [asset[req[p].asset] EXCEPT !.plate = req[p].plate])

\* _lifecycle_transition: from one status to the other.
Transition(p, kind, op, source, target) ==
    \/ /\ Begin(p, kind)
       /\ asset[req[p].asset].status = source
       /\ Put(p, [op |-> op, asset |-> req[p].asset, seen |-> req[p].seen])
    \/ /\ Locked(p, kind, op)
       /\ Change(p, [asset[req[p].asset] EXCEPT !.status = target])

SoftDelete(p, kind) ==
    \/ /\ Begin(p, kind)
       /\ Put(p, [op |-> "softDelete", asset |-> req[p].asset, seen |-> req[p].seen])
    \/ /\ Locked(p, kind, "softDelete")
       /\ Change(p, [asset[req[p].asset] EXCEPT !.state = "softDeleted"])

PatchVehicle(p) == Patch(p, "VEHICLE")
PatchTrailer(p) == Patch(p, "TRAILER")
DeactivateVehicle(p) == Transition(p, "VEHICLE", "deactivate", "ACTIVE", "INACTIVE")
DeactivateTrailer(p) == Transition(p, "TRAILER", "deactivate", "ACTIVE", "INACTIVE")
ReactivateVehicle(p) == Transition(p, "VEHICLE", "reactivate", "INACTIVE", "ACTIVE")
ReactivateTrailer(p) == Transition(p, "TRAILER", "reactivate", "INACTIVE", "ACTIVE")
SoftDeleteVehicle(p) == SoftDelete(p, "VEHICLE")
SoftDeleteTrailer(p) == SoftDelete(p, "TRAILER")

\* A new spec version under the ETag of the spec stream.  The version of the
\* master row stays.
AddSpec(p, kind) ==
    LET a == req[p].asset
    IN \/ /\ req[p].op = "get" /\ asset[a].kind = kind
          /\ Selectable(a)
          /\ asset[a].stream = req[p].stream
          /\ LockRow(p)
          /\ Put(p, [op |-> "addSpec", asset |-> a])
       \/ /\ Locked(p, kind, "addSpec")
          /\ \E from \in Instants :
                LET history == Append(CloseCurrentSpec(specs[a], from), [from |-> from, to |-> Forever])
                IN /\ SpecConstraints(history)
                   /\ specs' = [specs EXCEPT ![a] = history]
          /\ asset' = [asset EXCEPT ![a].stream = @ + 1]
          /\ Announce(a, "spec", asset[a].version)
          /\ Finish(p)
          /\ UNCHANGED <<relay, record, trip>>

CreateVehicleSpecVersion(p) == AddSpec(p, "VEHICLE")
CreateTrailerSpecVersion(p) == AddSpec(p, "TRAILER")

-----------------------------------------------------------------------------
(* Hard delete.                                                            *)

\* _active_trip_reference_count of the trip service.
Referenced(a) == \E t \in Trips : trip[t].at = "active" /\ a \in trip[t].uses

\* check_asset_references of the trip client, when it answers at all.
Unreferenced(a) == ~Referenced(a)

\* Open events: PENDING, FAILED or PUBLISHING.
Open(a) == DOMAIN log[a] \ settled[a]

DeadLetteredUnclaimed(a) == settled[a] \cup (Open(a) \ sending[a])

\* dead_letter_by_aggregate: what is still open of an asset is given up, what a
\* relay has in its hands included.
DeadLettered(a) == settled[a] \cup Open(a)

\* Timeline event and outbox event of a hard delete.
Tombstone(a) == Announce(a, "tombstone", asset[a].version)

\* The audit row of a refusal is rolled back with the rest of its transaction.
RefuseHardDelete(p, kind) == Locked(p, kind, "hardDelete") /\ Referenced(req[p].asset) /\ Rollback(p)

\* Stage 1 reads the row without a lock, stage 2 asks for references.  Stage
\* 3 locks the row, but the session keeps the attributes of stage 1, so only
\* a row that is gone is noticed.  Then open events die, spec versions and
\* master go, and the tombstone is announced.
HardDelete(p, kind) ==
    LET a == req[p].asset
        Step(at) == /\ Put(p, [op |-> "hardDelete", asset |-> a, seen |-> req[p].seen, at |-> at])
                    /\ UNCHANGED <<asset, specs, log, relay, record, rowLock, trip>>
    IN /\ req[p].op \in {"get", "hardDelete"} /\ asset[a].kind = kind
       /\ \/ /\ req[p].op = "get"
             /\ asset[a].state = "softDeleted"
             /\ asset[a].version = req[p].seen
             /\ Step("checked")
          \/ /\ req[p].op = "hardDelete" /\ req[p].at = "checked"
             /\ Unreferenced(a)
             /\ Step("unreferenced")
          \/ /\ req[p].op = "hardDelete" /\ req[p].at = "unreferenced"
             /\ rowLock[a] = Nothing
             /\ Exists(a)
             /\ asset' = [asset EXCEPT ![a] = NoRow("gone", kind, asset[a].version)]
             /\ specs' = [specs EXCEPT ![a] = <<>>]
             /\ settled' = [settled EXCEPT ![a] = DeadLettered(a)]
             /\ Tombstone(a)
             /\ Finish(p)
             /\ UNCHANGED <<sending, since, claims, record, trip>>

HardDeleteVehicle(p) == HardDelete(p, "VEHICLE")
HardDeleteTrailer(p) == HardDelete(p, "TRAILER")
RefuseVehicleDelete(p) == RefuseHardDelete(p, "VEHICLE")
RefuseTrailerDelete(p) == RefuseHardDelete(p, "TRAILER")

Abandon(p) == req[p] # Idle /\ Rollback(p)

-----------------------------------------------------------------------------
(* The surroundings.                                                       *)

\* The events of an asset whose turn it may be: one open event blocks those with a
\* later created_at_utc, which is stamped before the row lock.  Only a tombstone
\* certainly comes last.
Turn(a) == {i \in Open(a) : log[a][i].event = "tombstone" => Open(a) = {i}}

\* _claim_batch: one event each of some assets is taken up.  The UPDATE writes every
\* row of the table, so that all events are PUBLISHING and open again.
Claim ==
    /\ claims < MaxClaims
    /\ \A a \in Assets : sending[a] = {}
    /\ sending' \in [Assets -> SUBSET (1 .. MaxEvents)]
    /\ \A a \in Assets : sending'[a] \subseteq Turn(a) /\ Cardinality(sending'[a]) <= 1
    /\ \E a \in Assets : sending'[a] # {}
    /\ settled' = [a \in Assets |-> {}]
    /\ since' = [a \in Assets |-> IF asset[a].state = "gone" THEN since[a] \cup {"claim"} ELSE since[a]]
    /\ claims' = claims + 1
    /\ UNCHANGED <<asset, specs, log, record, rowLock, req, trip>>

\* _publish_single: the broker has the event.  The row is finalised if it still has
\* the token; one that has been dead-lettered stays so.
Publish(a, i) ==
    /\ i \in sending[a]
    /\ sending' = [sending EXCEPT ![a] = @ \ {i}]
    /\ settled' = [settled EXCEPT ![a] = @ \cup {i}]
    /\ since' = IF asset[a].state = "gone" /\ log[a][i].event # "tombstone"
                THEN [since EXCEPT ![a] = @ \cup {"echo"}] ELSE since
    /\ UNCHANGED <<asset, specs, log, claims, record, rowLock, req, trip>>

\* The broker refuses it or the relay dies: another attempt will come, or none.
PublishFails(a, i) ==
    /\ i \in sending[a]
    /\ sending' = [sending EXCEPT ![a] = @ \ {i}]
    /\ settled' \in {settled, [settled EXCEPT ![a] = @ \cup {i}]}
    /\ UNCHANGED <<asset, specs, log, since, claims, record, rowLock, req, trip>>

\* validate_single
Validation(a) == [exists |-> Exists(a), usable |-> Selectable(a)]

\* validate_trip_compat_contract: a vehicle and a trailer, both optional.  The
\* driver, whom it asks the driver service about, is left out.
Compatible(uses) ==
    /\ \A a \in uses : Validation(a).exists /\ Validation(a).usable
    /\ \A a, b \in uses : a # b => asset[a].kind # asset[b].kind

\* ensure_trip_references_valid: the trip service may now use the assets.
\* Those are late that a hard delete had already been told nothing refers to.
ValidateReference(t) ==
    /\ trip[t] = NoTrip
    /\ \E uses \in (SUBSET Assets) \ {{}} :
          /\ Compatible(uses)
          /\ trip' = [trip EXCEPT ![t] = [at |-> "validated", uses |-> uses,
                late |-> {a \in uses : \E p \in Requests : req[p].op = "hardDelete"
                                         /\ req[p].asset = a /\ req[p].at = "unreferenced"}]]
    /\ UNCHANGED <<asset, specs, log, relay, record, rowLock, req>>

\* The trip commits, or its request fails; later it may be rejected or deleted,
\* statuses that the reference check leaves out.
StepTrip(t) ==
    /\ \/ trip[t].at = "validated" /\ trip' = [trip EXCEPT ![t].at = "active"]
       \/ trip[t].at = "validated" /\ trip' = [trip EXCEPT ![t] = NoTrip]
       \/ trip[t].at = "active" /\ trip' = [trip EXCEPT ![t] = NoTrip]
    /\ UNCHANGED <<asset, specs, log, relay, record, rowLock, req>>

Next ==
    \/ \E p \in Requests :
          \/ CreateVehicle(p) \/ CreateTrailer(p)
          \/ GetVehicle(p) \/ GetTrailer(p)
          \/ PatchVehicle(p) \/ PatchTrailer(p)
          \/ DeactivateVehicle(p) \/ DeactivateTrailer(p)
          \/ ReactivateVehicle(p) \/ ReactivateTrailer(p)
          \/ SoftDeleteVehicle(p) \/ SoftDeleteTrailer(p)
          \/ CreateVehicleSpecVersion(p) \/ CreateTrailerSpecVersion(p)
          \/ HardDeleteVehicle(p) \/ HardDeleteTrailer(p)
          \/ RefuseVehicleDelete(p) \/ RefuseTrailerDelete(p)
          \/ Abandon(p)
    \/ CleanUp
    \/ Claim
    \/ \E a \in Assets : \E i \in sending[a] : Publish(a, i) \/ PublishFails(a, i)
    \/ \E t \in Trips : ValidateReference(t) \/ StepTrip(t)

Spec == Init /\ [][Next]_vars

-----------------------------------------------------------------------------
(* Properties.                                                             *)

\* The outbox and timeline rows of an asset tell its whole life in order: the master
\* events carry the versions 1, 2, 3 ... up to the row's own, and a tombstone is the
\* last of all.  Consumers rebuild the fleet from nothing else.
EventsTellTheLife ==
    \A a \in Assets :
        LET Of(event) == {i \in DOMAIN log[a] : log[a][i].event = event}
        IN /\ {log[a][i].version : i \in Of("master")} = 1 .. asset[a].version
           /\ \A i, j \in Of("master") : i < j => log[a][i].version < log[a][j].version
           /\ (asset[a].state = "gone") <=> (Of("tombstone") # {})
           /\ Of("tombstone") # {} => Of("tombstone") = {Len(log[a])}

\* "Published immediately by dead-lettering others first": nothing is before the
\* tombstone of an asset in its partition, not even an event that a relay had in its
\* hands or had failed to publish, until a claim opens all rows again.
TombstoneIsNext ==
    \A a \in Assets : asset[a].state = "gone" /\ "claim" \notin since[a] => Open(a) = {Len(log[a])}

\* At every instant from the first spec version on, and where no instant is
\* given, exactly one version is in force: get_spec_as_of and the fuel
\* metadata of a vehicle and a trailer are never ambiguous and never empty.
OneSpecInForce ==
    \A a \in Assets : specs[a] # <<>> =>
        \A at \in specs[a][1].from .. Forever : Cardinality(FuelMetadata(a, at)) = 1

\* No trip takes up an asset after a hard delete was told that none refers
\* to it: a trip of a deleted asset was validated while the asset was live,
\* before the check, and only its own insertion came late.
NoReferenceAfterCheck ==
    \A t \in Trips : \A a \in trip[t].late : asset[a].state # "gone"

-----------------------------------------------------------------------------
(* What the code does not ensure: TLC refutes it.                          *)

\* A trip that was validated before the soft delete and inserted after the
\* reference check uses an asset that is gone.
NoTripOnGoneAsset ==
    \A t \in Trips : trip[t].at = "active" => \A a \in trip[t].uses : asset[a].state # "gone"

\* "To prevent publishing events for deleted aggregates": after a hard delete nothing
\* is published of an asset but its tombstone.
NothingOfTheDeleted == \A a \in Assets : "echo" \notin since[a]
=============================================================================
