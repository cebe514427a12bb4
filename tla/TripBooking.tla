----------------------------- MODULE TripBooking -----------------------------
(***************************************************************************)
(* Concurrent requests of the trip service against trip_trips: manual      *)
(* creation, imports, empty returns, approve, reject, cancel, edit and     *)
(* hard delete (service.py, routers/trips.py), with the row locks, the     *)
(* advisory locks and the overlap check of trip_helpers.py.                *)
(*                                                                         *)
(* A request is one database transaction, at READ COMMITTED, behind a GET  *)
(* that told its client the version for If-Match.  It is taken apart at    *)
(* its locks and statements; what it writes shows at its commit.  A trip   *)
(* id also stands for its trip_no.                                         *)
(***************************************************************************)
EXTENDS Naturals, FiniteSets, FiniteSetsExt

CONSTANTS Trips, NoTrip,
          Requests, NoRequest,
          Keys,         \* advisory lock keys of drivers, vehicles and trailers
          Crews,        \* the sets of keys that a trip may use
          Pairs, NoPair,\* route pairs of the location service
          Starts,       \* trip_datetime_utc
          MaxLength,    \* bound on planned_duration_s
          Day,          \* the 24 hours assumed for a trip without a planned end
          MaxVersion,   \* bound on the updates of a trip
          MaxReplans,   \* bound on the changes of a pair's duration
          Ops           \* the operations clients use

AllOps == {"create", "import", "fallback", "emptyReturn",
           "approve", "reject", "cancel", "edit", "retime", "hardDelete"}

ASSUME BookingAssumption ==
    /\ NoTrip \notin Trips /\ NoRequest \notin Requests /\ NoPair \notin Pairs
    /\ IsFiniteSet(Requests)
    /\ Keys \subseteq Nat
    /\ Crews \subseteq SUBSET Keys /\ {} \notin Crews
    /\ \A crew \in Crews : IsFiniteSet(crew)
    /\ Starts \subseteq Nat
    /\ MaxLength \in Nat \ {0} /\ Day \in Nat \ {0}
    /\ MaxVersion \in Nat \ {0} /\ MaxReplans \in Nat
    /\ Ops \subseteq AllOps

VARIABLES trip,      \* the table
          audits,    \* rows of trip_trip_delete_audit by trip
          rowLock,   \* who holds a trip's row FOR UPDATE
          advisory,  \* who holds an advisory lock
          req,       \* the requests under way
          duration,  \* the duration of a pair, owned by the location service
          replans,
          replanned  \* history: trips whose end was last set by a retiming

vars == <<trip, audits, rowLock, advisory, req, duration, replans, replanned>>

Statuses == {"ABSENT", "PENDING_REVIEW", "COMPLETED", "REJECTED", "SOFT_DELETED", "PURGED"}
Rows == [status: Statuses, crew: Crews \cup {{}}, start: Starts \cup {0}, pair: Pairs \cup {NoPair},
         length: 0 .. MaxLength, version: 0 .. MaxVersion, base: Trips \cup {NoTrip}]
Stages == {"row", "lock", "check", "write", "purge"}

Absent == [status |-> "ABSENT", crew |-> {}, start |-> 0, pair |-> NoPair, length |-> 0,
           version |-> 0, base |-> NoTrip]
\* A hard-deleted trip; its id does not come back.
Purged == [Absent EXCEPT !.status = "PURGED"]
Idle == [op |-> "none"]
Held(p) == {k \in Keys : advisory[k] = p}

TypeOK ==
    /\ trip \in [Trips -> Rows]
    /\ audits \in [Trips -> 0 .. Cardinality(Requests)]
    /\ rowLock \in [Trips -> Requests \cup {NoRequest}]
    /\ advisory \in [Keys -> Requests \cup {NoRequest}]
    /\ \A p \in Requests :
          req[p] # Idle => /\ req[p].op \in Ops /\ req[p].at \in Stages
                           /\ req[p].trip \in Trips /\ req[p].new \in Rows
                           /\ req[p].seen \in 0 .. MaxVersion
    /\ duration \in [Pairs -> 1 .. MaxLength]
    /\ replans \in 0 .. MaxReplans
    /\ replanned \subseteq Trips

Init ==
    /\ trip = [t \in Trips |-> Absent]
    /\ audits = [t \in Trips |-> 0]
    /\ rowLock = [t \in Trips |-> NoRequest]
    /\ advisory = [k \in Keys |-> NoRequest]
    /\ req = [p \in Requests |-> Idle]
    /\ duration = [r \in Pairs |-> 1]
    /\ replans = 0
    /\ replanned = {}

-----------------------------------------------------------------------------
ActiveStatuses == {"PENDING_REVIEW", "COMPLETED"}

\* coalesce(planned_end_utc, trip_datetime_utc + 24 hours).
End(row) == row.start + (IF row.pair = NoPair THEN Day ELSE row.length)

Overlap(a, b) == /\ a.crew \cap b.crew # {}
                 /\ a.start < End(b)
                 /\ b.start < End(a)

\* _find_overlap for the driver, the vehicle and the trailer of a row.
FindsOverlap(t, row) ==
    \E u \in Trips \ {t} : trip[u].status \in ActiveStatuses /\ Overlap(trip[u], row)

\* trip_is_complete, as far as a fallback ingest can leave a field open.
Complete(row) == row.pair # NoPair

\* What the handlers and the state machine ask of the locked trip.
Allowed(op, row) ==
    CASE op = "approve" -> row.status = "PENDING_REVIEW" /\ Complete(row)
      [] op = "reject"  -> row.status = "PENDING_REVIEW"
      [] op = "cancel"  -> row.status \in ActiveStatuses \cup {"REJECTED"}
      [] op \in {"edit", "retime"} -> row.status \in ActiveStatuses

\* apply_trip_context: the planned end follows the pair's duration of the day.
Planned(row) == IF row.pair = NoPair THEN row ELSE [row EXCEPT !.length = duration[row.pair]]

\* The rows an edit of driver, vehicle, trailer, start or pair may ask for.
Edits(row) ==
    {[row EXCEPT !.crew = crew] : crew \in Crews}
        \cup {Planned([row EXCEPT !.start = start]) : start \in Starts}
        \cup {Planned([row EXCEPT !.pair = pair]) : pair \in Pairs}

LegacyUpdates(op, row) ==
    CASE op = "cancel" -> {[row EXCEPT !.status = "CANCELLED"]}
      [] op = "reject" -> {[row EXCEPT !.status = "REJECTED"]}
      [] OTHER -> {[row EXCEPT !.status = "COMPLETED"]}

\* The row an update leaves behind, apart from its version.
Updates(op, row) ==
    CASE op = "approve" -> {[row EXCEPT !.status = "COMPLETED"]}
      [] op = "reject"  -> {[row EXCEPT !.status = "REJECTED"]}
      [] op = "cancel"  -> {[row EXCEPT !.status = "SOFT_DELETED"]}
      [] op = "edit"    -> Edits(row) \ {row}
      [] op = "retime"  -> {Planned(row)}

CheckedOnCreation == {"create", "emptyReturn"}

\* The operations that call assert_no_trip_overlap.  An edit that changes
\* trip_timezone alone is not among them, though it plans the end anew.
CheckedOps == {"create", "emptyReturn", "approve", "edit"}

Put(p, request) == req' = [req EXCEPT ![p] = request]
Goto(p, stage) == Put(p, [req[p] EXCEPT !.at = stage])

\* The end of a transaction gives back its locks.
Finish(p) ==
    /\ Put(p, Idle)
    /\ rowLock' = [t \in Trips |-> IF rowLock[t] = p THEN NoRequest ELSE rowLock[t]]
    /\ advisory' = [k \in Keys |-> IF advisory[k] = p THEN NoRequest ELSE advisory[k]]

\* A refusal, an error or a death: nothing is written.
Rollback(p) == Finish(p) /\ UNCHANGED <<trip, audits, duration, replans, replanned>>

Open(op, t, stage, new) ==
    [op |-> op, trip |-> t, at |-> stage, seen |-> trip[t].version, new |-> new]

NewTrip(status, crew, start, pair, base) ==
    [status |-> status, crew |-> crew, start |-> start, pair |-> pair,
     length |-> IF pair = NoPair THEN 0 ELSE duration[pair], version |-> 1, base |-> base]

-----------------------------------------------------------------------------
\* _classify_manual_status: a SUPER_ADMIN's future trip waits for review.
ManualStatuses == {"COMPLETED", "PENDING_REVIEW"}

\* create_trip: references and route context are fetched, then the overlap
\* check.
Create(p, t) ==
    /\ "create" \in Ops
    /\ req[p] = Idle /\ trip[t].status = "ABSENT"
    /\ \E status \in ManualStatuses, crew \in Crews, start \in Starts, pair \in Pairs :
          Put(p, Open("create", t, "lock", NewTrip(status, crew, start, pair, NoTrip)))
    /\ UNCHANGED <<trip, audits, rowLock, advisory, duration, replans, replanned>>

\* ingest_trip_slip and ingest_excel_trip: no lock and no overlap check.
Import(p, t) ==
    /\ "import" \in Ops
    /\ req[p] = Idle /\ trip[t].status = "ABSENT"
    /\ \E crew \in Crews, start \in Starts, pair \in Pairs :
          Put(p, Open("import", t, "write", NewTrip("PENDING_REVIEW", crew, start, pair, NoTrip)))
    /\ UNCHANGED <<trip, audits, rowLock, advisory, duration, replans, replanned>>

\* ingest_trip_slip_fallback: no route, hence no planned end.
Fallback(p, t) ==
    /\ "fallback" \in Ops
    /\ req[p] = Idle /\ trip[t].status = "ABSENT"
    /\ \E crew \in Crews, start \in Starts :
          Put(p, Open("fallback", t, "write",
                      NewTrip("PENDING_REVIEW", crew, start, NoPair, NoTrip)))
    /\ UNCHANGED <<trip, audits, rowLock, advisory, duration, replans, replanned>>

\* create_empty_return reads the base trip without locking it.
EmptyReturn(p, t) ==
    /\ "emptyReturn" \in Ops
    /\ req[p] = Idle /\ trip[t].status = "ABSENT"
    /\ \E b \in Trips, status \in ManualStatuses, crew \in Crews, start \in Starts :
          /\ trip[b].status \in ActiveStatuses
          /\ trip[b].base = NoTrip
          /\ trip[b].pair # NoPair
          /\ Put(p, Open("emptyReturn", t, "lock", NewTrip(status, crew, start, trip[b].pair, b)))
    /\ UNCHANGED <<trip, audits, rowLock, advisory, duration, replans, replanned>>

\* A client that has seen the trip asks for an update.
AskUpdate(p, t) ==
    /\ req[p] = Idle /\ trip[t].status \notin {"ABSENT", "PURGED"}
    /\ trip[t].version < MaxVersion
    /\ \E op \in Ops \cap {"approve", "reject", "cancel", "edit", "retime"} :
          /\ Allowed(op, trip[t])
          /\ Put(p, Open(op, t, "row", Absent))
    /\ UNCHANGED <<trip, audits, rowLock, advisory, duration, replans, replanned>>

AnyVersion(p) == TRUE

\* parse_etag_version(if_match) = trip.version.
Matches(p) == req[p].seen = trip[req[p].trip].version

\* SELECT ... FOR UPDATE, If-Match, the status checks and the changed fields.
LockRow(p) ==
    LET op == req[p].op
        t == req[p].trip
    IN  /\ req[p] # Idle /\ req[p].at = "row"
        /\ rowLock[t] = NoRequest
        /\ IF Matches(p) /\ trip[t].status # "PURGED" /\ Allowed(op, trip[t])
           THEN /\ rowLock' = [rowLock EXCEPT ![t] = p]
                /\ \E new \in Updates(op, trip[t]) :
                      Put(p, [req[p] EXCEPT !.new = [new EXCEPT !.version = @ + 1],
                                            !.at = IF op \in CheckedOps THEN "lock" ELSE "write"])
                /\ UNCHANGED <<trip, audits, advisory, duration, replans, replanned>>
           ELSE Rollback(p)

Missing(p) == req[p].new.crew \ Held(p)

UnsortedKey(p) == IF req[p].op = "create" THEN Min(Missing(p)) ELSE Max(Missing(p))

\* The next key of _acquire_overlap_locks, in sorted order.
NextKey(p) == Min(Missing(p))

\* pg_advisory_xact_lock.
LockKey(p) ==
    /\ req[p] # Idle /\ req[p].at = "lock"
    /\ advisory[NextKey(p)] = NoRequest
    /\ advisory' = [advisory EXCEPT ![NextKey(p)] = p]
    /\ Goto(p, IF Missing(p) = {NextKey(p)} THEN "check" ELSE "lock")
    /\ UNCHANGED <<trip, audits, rowLock, duration, replans, replanned>>

\* assert_no_trip_overlap, once the locks are held.
CheckOverlap(p) ==
    /\ req[p] # Idle /\ req[p].at = "check"
    /\ IF FindsOverlap(req[p].trip, req[p].new)
       THEN Rollback(p)
       ELSE /\ Goto(p, "write")
            /\ UNCHANGED <<trip, audits, rowLock, advisory, duration, replans, replanned>>

InsertableAnywhere(t, row) == trip[t].status = "ABSENT"

\* The unique indexes on trip_no and on the base trip of empty returns, and the
\* foreign key to that base.
Insertable(t, row) ==
    /\ trip[t].status = "ABSENT"
    /\ row.base # NoTrip => /\ trip[row.base].status # "PURGED"
                            /\ \A u \in Trips : trip[u].base # row.base

\* The insert or update, and the commit.  Inserting an empty return takes a
\* key-share lock on the base row, which waits for a FOR UPDATE of it.
Write(p) ==
    LET t == req[p].trip
        new == req[p].new
        inserts == new.version = 1
    IN  /\ req[p] # Idle /\ req[p].at = "write"
        /\ inserts /\ new.base # NoTrip => rowLock[new.base] = NoRequest
        /\ IF inserts => Insertable(t, new)
           THEN /\ trip' = [trip EXCEPT ![t] = new]
                /\ replanned' = IF req[p].op = "retime" /\ new.length = trip[t].length THEN replanned
                                ELSE IF req[p].op = "retime" THEN replanned \cup {t}
                                ELSE replanned \ {t}
                /\ Finish(p)
                /\ UNCHANGED <<audits, duration, replans>>
           ELSE Rollback(p)

\* hard_delete_trip: reads, without a lock, and its checks.
AskPurge(p, t) ==
    /\ "hardDelete" \in Ops
    /\ req[p] = Idle
    /\ trip[t].status = "SOFT_DELETED"
    /\ \A u \in Trips : trip[u].base # t
    /\ Put(p, Open("hardDelete", t, "purge", Absent))
    /\ UNCHANGED <<trip, audits, rowLock, advisory, duration, replans, replanned>>

\* build_delete_audit, with the snapshot of the whole aggregate.
Audited(t) == [audits EXCEPT ![t] = @ + 1]

\* The audit row, the DELETE and the commit.  A DELETE that finds no row only
\* makes the ORM warn; one that would orphan an empty return fails.
Purge(p) ==
    LET t == req[p].trip
    IN  /\ req[p] # Idle /\ req[p].at = "purge"
        /\ rowLock[t] = NoRequest
        /\ IF \A u \in Trips : trip[u].base # t
           THEN /\ trip' = [trip EXCEPT ![t] = Purged]
                /\ audits' = Audited(t)
                /\ Finish(p)
                /\ UNCHANGED <<duration, replans, replanned>>
           ELSE Rollback(p)

-----------------------------------------------------------------------------
\* Whom a request waits for, if it waits.
WaitsFor(p) ==
    IF req[p] = Idle THEN NoRequest
    ELSE CASE req[p].at \in {"row", "purge"} -> rowLock[req[p].trip]
           [] req[p].at = "lock" -> advisory[NextKey(p)]
           [] req[p].at = "write" /\ req[p].new.version = 1 /\ req[p].new.base # NoTrip ->
                rowLock[req[p].new.base]
           [] OTHER -> NoRequest

Blocked(p) == WaitsFor(p) # NoRequest

\* lock_timeout, or the deadlock detector: "to fail early on deadlocks".
LockTimeout(p) == Blocked(p) /\ Rollback(p)

\* The process dies, or the database ends an idle transaction.
Die(p) == req[p] # Idle /\ Rollback(p)

\* The location service activates a route version with another duration.
Replan ==
    /\ replans < MaxReplans
    /\ replans' = replans + 1
    /\ \E r \in Pairs : \E n \in 1 .. MaxLength \ {duration[r]} :
          duration' = [duration EXCEPT ![r] = n]
    /\ UNCHANGED <<trip, audits, rowLock, advisory, req, replanned>>

Begin(p, t) ==
    \/ Create(p, t)
    \/ Import(p, t)
    \/ Fallback(p, t)
    \/ EmptyReturn(p, t)
    \/ AskUpdate(p, t)
    \/ AskPurge(p, t)

Step(p) ==
    \/ LockRow(p)
    \/ LockKey(p)
    \/ CheckOverlap(p)
    \/ Write(p)
    \/ Purge(p)
    \/ LockTimeout(p)

Next ==
    \/ \E p \in Requests, t \in Trips : Begin(p, t)
    \/ \E p \in Requests : Step(p) \/ Die(p)
    \/ Replan

Spec == Init /\ [][Next]_vars

-----------------------------------------------------------------------------
\* Overlap protection: two completed trips share a driver, a vehicle or a trailer for
\* some time only if an edit of the time zone alone has set the end of one of them
\* anew; no other order of creations, imports, approvals and edits gets there.
OverlapOnlyByRetiming ==
    \A t, u \in Trips :
        t # u /\ trip[t].status = "COMPLETED" /\ trip[u].status = "COMPLETED"
              /\ Overlap(trip[t], trip[u])
            => t \in replanned \/ u \in replanned

\* If-Match under concurrency: an update is committed only on the version its
\* client has seen, however long it waited for locks in between.
NoLostUpdate ==
    [][\A p \in Requests :
          LET t == req[p].trip
          IN  req[p] # Idle /\ req[p].op \notin {"create", "import", "fallback", "emptyReturn"}
                /\ req'[p] = Idle /\ trip'[t] # trip[t]
                    => trip[t].version = req[p].seen]_vars

\* Requests wait for each other in a circle only through an empty return that is at
\* its insert: it holds its keys and waits for the row of its base, which an approval
\* or an edit locks before it waits for keys.  The keys alone close no circle.
CircleOnlyByReturn ==
    \A S \in (SUBSET Requests) \ {{}} :
        (\A p \in S : WaitsFor(p) \in S)
            => \E p \in S : req[p].op = "emptyReturn" /\ req[p].at = "write"

\* A hard delete never takes away the base of an empty return.
NoOrphan ==
    \A t \in Trips : trip[t].base # NoTrip => trip[trip[t].base].status \notin {"ABSENT", "PURGED"}

-----------------------------------------------------------------------------
\* What the documents say and the code does not keep; TLC refutes all of these.

\* "Overlap protection: complete": no driver, vehicle or trailer is on two completed
\* trips at the same time.
NoDoubleBooking ==
    \A t, u \in Trips :
        t # u /\ trip[t].status = "COMPLETED" /\ trip[u].status = "COMPLETED"
            => ~ Overlap(trip[t], trip[u])

\* "Lock trip resources in sorted order so concurrent writers serialize cleanly":
\* no requests wait for each other in a circle.
NoLockCycle ==
    \A S \in (SUBSET Requests) \ {{}} : \E p \in S : WaitsFor(p) \notin S

\* "Base trip is not active.": an empty return is created only while its base is
\* neither rejected nor deleted.
EmptyReturnHasActiveBase ==
    [][\A t \in Trips :
          trip[t].status = "ABSENT" /\ trip'[t].status # "ABSENT" /\ trip'[t].base # NoTrip
              => trip[trip'[t].base].status \in ActiveStatuses]_vars

\* Hard delete removes a trip "after writing an immutable audit row": one.
OneDeleteAudit == \A t \in Trips : audits[t] <= 1
=============================================================================
