------------------------------- MODULE Drivers -------------------------------
(***************************************************************************)
(* The drivers of the driver service: creation, edits, lifecycle, merge    *)
(* and hard delete (routers/public.py, lifecycle.py, maintenance.py).      *)
(*                                                                         *)
(* A request reads its driver without a lock and commits later, writing    *)
(* the columns it has set; only a merge locks.  The UPDATE waits for the   *)
(* row lock of others and fails if the row has gone.  Two things change    *)
(* nothing and are left out: If-Match, which is compared with the unlocked *)
(* read, turns away a client that is behind but no request that is         *)
(* overtaken afterwards, and a repeated X-Request-ID gets the stored       *)
(* response or an error.                                                   *)
(*                                                                         *)
(* The table has two schemas: the tests create that of models.py, the      *)
(* deployment that of the migrations, which still checks for two statuses  *)
(* and has its unique indexes on other rows.                               *)
(***************************************************************************)
EXTENDS Naturals, FiniteSets

CONSTANTS Drivers,      \* ids, in the order in which a merge locks
          Requests,
          Codes,        \* company_driver_code; phone and telegram id are alike
          Schemas,      \* the schemas under consideration
          Nothing

ASSUME DriversAssumption ==
    /\ Drivers \subseteq Nat
    /\ Nothing \notin Drivers \cup Requests \cup Codes
    /\ "worker" \notin Requests \cup {Nothing}
    /\ Schemas \subseteq {"models", "migrations"}

VARIABLES schema,   \* of the table, for good
          driver,   \* driver_drivers, as committed
          flushed,  \* the columns the import worker has written and not committed
          last,     \* the last driver event written to the outbox
          lock,     \* who holds a row
          request   \* the transactions under way

driverVars == <<schema, driver, flushed, last, lock, request>>

Statuses == {"ACTIVE", "INACTIVE", "IN_REVIEW", "SUSPENDED", "CANCELLED"}
Rows == [status: Statuses, deleted: BOOLEAN, code: Codes \cup {Nothing}]
ASSUME NothingIsNoRow == Nothing \notin Rows

Idle == [op |-> "idle"]
Ops == {"idle", "patch", "inactivate", "reactivate", "softDelete", "hardDelete", "merge"}

DriversTypeOK ==
    /\ schema \in Schemas
    /\ driver \in [Drivers -> Rows \cup {Nothing}]
    /\ DOMAIN flushed \subseteq Drivers
    /\ last \in [Drivers -> {"none", "change", "tombstone"}]
    /\ lock \in [Drivers -> Requests \cup {"worker", Nothing}]
    /\ DOMAIN request = Requests /\ \A p \in Requests : request[p].op \in Ops

DriversInit ==
    /\ schema \in Schemas
    /\ driver = [d \in Drivers |-> Nothing]
    /\ flushed = <<>>
    /\ last = [d \in Drivers |-> "none"]
    /\ lock = [d \in Drivers |-> Nothing]
    /\ request = [p \in Requests |-> Idle]

-----------------------------------------------------------------------------
(* The table.                                                              *)

Exists(d) == driver[d] # Nothing
Fresh(d) == ~Exists(d) /\ last[d] = "none" /\ d \notin DOMAIN flushed

\* The rows that the partial unique indexes hold.
Indexed(row) == IF schema = "models" THEN row.status # "CANCELLED" ELSE ~row.deleted

\* The statuses that the table admits.
Admitted == IF schema = "models" THEN Statuses ELSE {"ACTIVE", "INACTIVE"}

\* A table that the constraints of the schema let through.
Fits(table) ==
    /\ \A d \in DOMAIN table : table[d] # Nothing => table[d].status \in Admitted
    /\ \A d, e \in {x \in DOMAIN table : table[x] # Nothing /\ Indexed(table[x])} :
          (d # e /\ table[d].code # Nothing) => table[d].code # table[e].code

\* The columns in put, and those of row that are not among them.
Over(put, row) ==
    [c \in DOMAIN put \cup DOMAIN row |-> IF c \in DOMAIN put THEN put[c] ELSE row[c]]

\* A table with columns written over it.
With(table, columns) ==
    [d \in Drivers |-> IF d \notin DOMAIN columns THEN table[d]
                       ELSE IF table[d] = Nothing THEN columns[d] ELSE Over(columns[d], table[d])]

\* A key that an open transaction has taken is waited for.
Allowed(table) == Fits(table) /\ Fits(With(table, flushed))

\* DriverStateMachine
ValidTransitions ==
    [s \in Statuses |-> CASE s = "IN_REVIEW" -> {"ACTIVE", "CANCELLED"}
                          [] s = "ACTIVE" -> {"INACTIVE", "SUSPENDED", "CANCELLED"}
                          [] s \in {"INACTIVE", "SUSPENDED"} -> {"ACTIVE", "CANCELLED"}
                          [] s = "CANCELLED" -> {"ACTIVE"}]

\* An UPDATE sets the columns in put and leaves the others as they are now.
Update(d, put) == [driver EXCEPT ![d] = Over(put, @)]

UpdateAnyCount(d, put) ==
    IF Exists(d) THEN Update(d, put) ELSE driver

Finish(p) ==
    /\ request' = [request EXCEPT ![p] = Idle]
    /\ lock' = [d \in Drivers |-> IF lock[d] = p THEN Nothing ELSE lock[d]]

Announce(d, event) == last' = [last EXCEPT ![d] = event]

\* What routers/public.py and maintenance.py announce, each with a helper of its own.
Changed(d) == Announce(d, "change")
Buried(d) == Announce(d, "tombstone")

\* check_eligibility: is_assignable is computed from the status alone.
Assignable(d) == Exists(d) /\ driver[d].status = "ACTIVE"

-----------------------------------------------------------------------------
(* The operations.                                                         *)

\* Insert, audit row and event in one commit.
CreateDriver ==
    \E d \in Drivers, code \in Codes \cup {Nothing} :
        LET row == [status |-> "ACTIVE", deleted |-> FALSE, code |-> code]
        IN /\ Fresh(d)
           /\ Allowed([driver EXCEPT ![d] = row])
           /\ driver' = [driver EXCEPT ![d] = row]
           /\ Changed(d)
           /\ UNCHANGED <<schema, flushed, lock, request>>

\* The unlocked read, and the columns that are set after it.
Load(p, op, d, put) ==
    /\ request[p] = Idle
    /\ Exists(d)
    /\ request' = [request EXCEPT ![p] = [op |-> op, driver |-> d, put |-> put]]
    /\ UNCHANGED <<schema, driver, flushed, last, lock>>

SaveAnyCount(p, op) ==
    LET d == request[p].driver
        put == request[p].put
    IN /\ request[p].op = op
       /\ lock[d] = Nothing
       /\ Allowed(UpdateAnyCount(d, put))
       /\ driver' = UpdateAnyCount(d, put)
       /\ Announce(d, "change")
       /\ Finish(p)
       /\ UNCHANGED <<schema, flushed>>

\* The UPDATE and the commit.  A row that has gone is a StaleDataError.
Save(p, op) ==
    LET d == request[p].driver
        put == request[p].put
    IN /\ request[p].op = op
       /\ lock[d] = Nothing
       /\ Exists(d)
       /\ Allowed(Update(d, put))
       /\ driver' = Update(d, put)
       /\ Changed(d)
       /\ Finish(p)
       /\ UNCHANGED <<schema, flushed>>

\* Any field may change; the code is the one that matters here.
PatchDriver(p) ==
    \/ \E d \in Drivers, code \in Codes \cup {Nothing} : Load(p, "patch", d, [code |-> code])
    \/ Save(p, "patch")

InactivateDriver(p) ==
    \/ \E d \in Drivers : /\ Exists(d) /\ "INACTIVE" \in ValidTransitions[driver[d].status]
                          /\ Load(p, "inactivate", d, [status |-> "INACTIVE"])
    \/ Save(p, "inactivate")

\* The mark of a soft delete is taken away where it was read.
Reactivation(row) ==
    IF row.deleted THEN [status |-> "ACTIVE", deleted |-> FALSE] ELSE [status |-> "ACTIVE"]

ReactivateDriver(p) ==
    \/ \E d \in Drivers : /\ Exists(d) /\ driver[d].status # "ACTIVE"
                          /\ "ACTIVE" \in ValidTransitions[driver[d].status]
                          /\ Load(p, "reactivate", d, Reactivation(driver[d]))
    \/ Save(p, "reactivate")

CancellationKeepingMark(row) ==
    IF row.deleted THEN [status |-> "CANCELLED"] ELSE [status |-> "CANCELLED", deleted |-> TRUE]

\* The mark is a new instant, so it is written whatever was read.
Cancellation(row) == [status |-> "CANCELLED", deleted |-> TRUE]

SoftDeleteDriver(p) ==
    \/ \E d \in Drivers : /\ Exists(d) /\ driver[d].status # "CANCELLED"
                          /\ "CANCELLED" \in ValidTransitions[driver[d].status]
                          /\ Load(p, "softDelete", d, Cancellation(driver[d]))
    \/ Save(p, "softDelete")

\* An unlocked look for the mark, the question to the trip service, and a
\* DELETE that does not mind when the row has gone meanwhile.
HardDeleteDriver(p) ==
    \/ /\ request[p] = Idle
       /\ \E d \in Drivers : /\ Exists(d) /\ driver[d].deleted
                             /\ request' = [request EXCEPT ![p] = [op |-> "hardDelete", driver |-> d]]
       /\ UNCHANGED <<schema, driver, flushed, last, lock>>
    \/ /\ request[p].op = "hardDelete"
       /\ lock[request[p].driver] = Nothing
       /\ driver' = [driver EXCEPT ![request[p].driver] = Nothing]
       /\ Buried(request[p].driver)
       /\ Finish(p)
       /\ UNCHANGED <<schema, flushed>>

LockRow(p, d) ==
    /\ lock[d] = Nothing /\ Exists(d)
    /\ lock' = [lock EXCEPT ![d] = p]

\* The rows are locked in the order of their ids and stay locked while the
\* trip service is asked; the source is marked, its status stays.
MergeDrivers(p) ==
    \/ /\ request[p] = Idle
       /\ \E source, target \in Drivers :
             /\ source # target
             /\ LockRow(p, IF source < target THEN source ELSE target)
             /\ request' = [request EXCEPT ![p] = [op |-> "merge", at |-> "one", source |-> source, target |-> target]]
       /\ UNCHANGED <<schema, driver, flushed, last>>
    \/ /\ request[p].op = "merge" /\ request[p].at = "one"
       /\ LockRow(p, IF request[p].source < request[p].target THEN request[p].target ELSE request[p].source)
       /\ request' = [request EXCEPT ![p].at = "both"]
       /\ UNCHANGED <<schema, driver, flushed, last>>
    \/ LET source == request[p].source
           target == request[p].target
       IN /\ request[p].op = "merge" /\ request[p].at = "both"
          /\ driver' = [driver EXCEPT ![source].deleted = TRUE]
          /\ Announce(source, "change")
          /\ Finish(p)
          /\ UNCHANGED <<schema, flushed>>

\* A refusal, a conflict, a lock timeout, an unavailable trip service, a death.
Abandon(p) == request[p] # Idle /\ Finish(p) /\ UNCHANGED <<schema, driver, flushed, last>>

RequestStep(p) ==
    \/ PatchDriver(p) \/ InactivateDriver(p) \/ ReactivateDriver(p) \/ SoftDeleteDriver(p)
    \/ HardDeleteDriver(p) \/ MergeDrivers(p) \/ Abandon(p)

\* lookup_driver, and the lookup of an import before what it has flushed
Lookup(code) == {d \in Drivers : Exists(d) /\ ~driver[d].deleted /\ driver[d].code = code}

-----------------------------------------------------------------------------
(* Properties.                                                             *)

\* The lookup by code, phone or telegram id searches the drivers without the
\* mark of a soft delete, the unique indexes hold others.  Whatever partial
\* updates overtake each other, no driver is cancelled without the mark, so
\* that a lookup, and that of an import, finds one driver at most.
LookupIsUnique ==
    /\ \A d \in Drivers : Exists(d) /\ driver[d].status = "CANCELLED" => driver[d].deleted
    /\ \A code \in Codes : Cardinality(Lookup(code)) <= 1

\* Nothing is written to the outbox of a driver after its tombstone but
\* further tombstones: a request or an import that loaded the driver before
\* fails.  In which order the events are heard is another matter: the rows of
\* a hard delete and of an import have no partition key, and the relay does
\* not order them.
SilentAfterPurge == [][\A d \in Drivers : last[d] = "tombstone" => last'[d] = "tombstone"]_driverVars

-----------------------------------------------------------------------------
(* What the code does not ensure: TLC refutes it.                          *)

\* Merging leaves the source assignable, and so does a soft delete that a
\* reactivation overtakes.
DeletedIsNotAssignable ==
    \A d \in Drivers : Exists(d) /\ driver[d].deleted => ~Assignable(d)
=============================================================================
