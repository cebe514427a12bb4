------------------------------ MODULE TripIntake ------------------------------
(***************************************************************************)
(* The endpoints of the trip service that store a trip they are sent:      *)
(* routers/trips.py (Telegram slips, their fallback, Excel rows),          *)
(* create_trip and create_empty_return of service.py, with the             *)
(* idempotency keys of trip_helpers.py.  A request is one transaction of   *)
(* several statements under READ COMMITTED and waits for other services    *)
(* in the middle of it; clients repeat requests that are still running.    *)
(*                                                                         *)
(* The advisory lock of a key is held from the claim to the end of the     *)
(* transaction, so the placeholder row, written by that transaction, is    *)
(* never seen by another request: a request holds its key while it works.  *)
(***************************************************************************)
EXTENDS Naturals, Sequences, FiniteSets

CONSTANTS Requests,   \* requests under way at a time
          Keys, NoKey,
          Drivers,    \* the people trips are stored for
          Numbers,    \* trip numbers; message numbers of a chat are used as such
          Contents,   \* the rest of a payload
          MaxTrips    \* bound on the trips ever stored

ASSUME IntakeAssumption == NoKey \notin Keys /\ MaxTrips \in Nat

VARIABLES ever,      \* every trip ever stored, a sequence: its index is its id
          alive,     \* the ids that have not been hard-deleted
          records,   \* the committed idempotency records, by key and fingerprint
          req        \* the requests

intakeVars == <<ever, alive, records, req>>

Endpoints == {"slip", "fallback", "excel", "manual", "return"}
\* A trip keeps the payload it was made of.  no is the message, the trip number
\* or the number of the base trip.
Bodies == [ep: Endpoints, by: Drivers, no: Numbers, data: Contents]

\* source_payload_hash, and request_hash of a record.  The body of an empty
\* return does not name its base trip.
Hash(b) == IF b.ep = "return" THEN <<b.ep, b.by, b.data>> ELSE b

Fingerprint(b) ==
    CASE b.ep \in {"slip", "fallback", "excel"} -> <<b.ep, b.no>>
      [] b.ep \in {"manual", "return"} -> <<b.ep, b.by>>

\* The columns with unique indexes: numbers, slip numbers and references.  The
\* number of a fallback is a new ULID.
TripNo(b) == CASE b.ep \in {"slip", "excel", "manual"} -> {<<b.no>>}
               [] b.ep = "return" -> {<<b.no, "B">>}
               [] b.ep = "fallback" -> {}
SlipNo(b) == IF b.ep = "slip" THEN {b.no} ELSE {}
ReferenceByEndpoint(b) == IF b.ep \in {"manual", "return"} THEN {} ELSE {<<b.ep, b.no>>}

Reference(b) == CASE b.ep \in {"slip", "fallback"} -> {<<"tg", b.no>>}
                  [] b.ep = "excel" -> {<<"excel", b.no>>}
                  [] b.ep \in {"manual", "return"} -> {}

NoAnswer == [says |-> "nothing", trip |-> 0]
IdleReq == [at |-> "idle", key |-> NoKey, body |-> <<>>, seen |-> 0, answer |-> NoAnswer]
Says == {"stored", "replayed", "conflict", "busy", "missing", "error"}

IntakeInit ==
    /\ ever = <<>>
    /\ alive = {}
    /\ records = <<>>
    /\ req = [r \in Requests |-> IdleReq]

-----------------------------------------------------------------------------
KeyOf(r) == <<req[r].key, Fingerprint(req[r].body)>>
Working == {"recalling", "looking", "rereading", "inserting"}
Holds(r, k) == req[r].at \in Working /\ req[r].key # NoKey /\ KeyOf(r) = k

Goto(r, stage) == req' = [req EXCEPT ![r].at = stage]
See(r, t) == req' = [req EXCEPT ![r].at = "rereading", ![r].seen = t]
Answer(r, says, t) ==
    req' = [req EXCEPT ![r].at = "answered", ![r].answer = [says |-> says, trip |-> t]]

\* A client sends a payload, with or without an Idempotency-Key.
Send(r, key, body) ==
    /\ req[r] = IdleReq
    /\ req' = [req EXCEPT ![r] = [IdleReq EXCEPT !.at = "sent", !.key = key, !.body = body]]
    /\ UNCHANGED <<ever, alive, records>>

KeyFreeAlways(k) == TRUE

\* pg_advisory_xact_lock on key and fingerprint.
KeyFree(k) == \A q \in Requests : ~Holds(q, k)

\* _check_idempotency_key up to the INSERT ... ON CONFLICT DO NOTHING.
ClaimKey(r) ==
    /\ req[r].at = "sent"
    /\ req[r].key # NoKey => KeyFree(KeyOf(r))
    /\ Goto(r, IF req[r].key # NoKey /\ KeyOf(r) \in DOMAIN records THEN "recalling" ELSE "looking")
    /\ UNCHANGED <<ever, alive, records>>

\* The record is selected again, and may have expired in between.
Recall(r) ==
    /\ req[r].at = "recalling"
    /\ IF KeyOf(r) \notin DOMAIN records THEN Answer(r, "busy", 0)
       ELSE IF records[KeyOf(r)].hash # Hash(req[r].body) THEN Answer(r, "conflict", 0)
       ELSE Answer(r, "replayed", records[KeyOf(r)].trip)
    /\ UNCHANGED <<ever, alive, records>>

SameDataAlways(b, t) == TRUE

\* existing.source_payload_hash is compared with that of the request.
SamePayload(b, t) == Hash(ever[t]) = Hash(b)

Replay(r, t) == IF SamePayload(req[r].body, t) THEN See(r, t) ELSE Answer(r, "conflict", 0)

HasBase(b) == \E t \in alive : TripNo(ever[t]) = {<<b.no>>}

\* ingest_trip_slip looks for a trip with the slip number and, as the others do,
\* for one with the reference; an empty return looks for its base trip.
FindEarlier(r) ==
    /\ req[r].at = "looking"
    /\ LET b == req[r].body
           found == {t \in alive : \/ SlipNo(ever[t]) \cap SlipNo(b) # {}
                                  \/ Reference(ever[t]) \cap Reference(b) # {}}
       IN IF found # {} THEN \E t \in found : Replay(r, t)
          ELSE IF b.ep = "return" /\ ~HasBase(b) THEN Answer(r, "missing", 0)
          ELSE Goto(r, "inserting")
    /\ UNCHANGED <<ever, alive, records>>

\* _get_trip_or_404 of the trip found before.
Reread(r) ==
    /\ req[r].at = "rereading"
    /\ IF req[r].seen \in alive THEN Answer(r, "replayed", req[r].seen) ELSE Answer(r, "missing", 0)
    /\ UNCHANGED <<ever, alive, records>>

\* The unique columns of trip_trips, and whether b meets a trip in one of them.
Columns(b) == [trip_no |-> TripNo(b), slip_no |-> SlipNo(b), reference |-> Reference(b)]
Taken(column, b) == \E t \in alive : Columns(ever[t])[column] \cap Columns(b)[column] # {}

\* The flush, the record of the key and the commit.  _map_integrity_error knows the
\* constraint on numbers only by its present name; the other two have been renamed
\* and answer 500.
Insert(r) ==
    LET b == req[r].body
        id == Len(ever) + 1
    IN IF Taken("trip_no", b) THEN Answer(r, "conflict", 0) /\ UNCHANGED <<ever, alive, records>>
       ELSE IF Taken("slip_no", b) \/ Taken("reference", b)
            THEN Answer(r, "error", 0) /\ UNCHANGED <<ever, alive, records>>
       ELSE /\ id <= MaxTrips
            /\ ever' = Append(ever, b)
            /\ alive' = alive \cup {id}
            /\ records' = IF req[r].key = NoKey THEN records
                          ELSE [k \in DOMAIN records \cup {KeyOf(r)} |->
                                  IF k = KeyOf(r) THEN [hash |-> Hash(b), trip |-> id] ELSE records[k]]
            /\ Answer(r, "stored", id)

\* The driver, the vehicle and the route have been asked for in other services.
Ready(r, ep) == req[r].at = "inserting" /\ req[r].body.ep = ep

IngestTripSlip(r) == Ready(r, "slip") /\ Insert(r)

IngestTripSlipFallback(r) == Ready(r, "fallback") /\ Insert(r)

IngestExcelTrip(r) == Ready(r, "excel") /\ Insert(r)

CreateTrip(r) == Ready(r, "manual") /\ Insert(r)

\* The new trip refers to its base.
CreateEmptyReturn(r) ==
    /\ Ready(r, "return")
    /\ IF HasBase(req[r].body) THEN Insert(r)
       ELSE Answer(r, "error", 0) /\ UNCHANGED <<ever, alive, records>>

\* A statement or lock timeout, another service that refuses, an exception or a
\* death of the process: the transaction, which has written nothing before the
\* insertion, is rolled back.
Fail(r) ==
    /\ req[r].at \in {"sent", "inserting"}
    /\ Answer(r, "error", 0)
    /\ UNCHANGED <<ever, alive, records>>

\* The client takes the answer, or has gone.
Done(r) ==
    /\ req[r].at = "answered"
    /\ req' = [req EXCEPT ![r] = IdleReq]
    /\ UNCHANGED <<ever, alive, records>>

\* cleanup_idempotency_records, once a record has expired.
Expire(k) ==
    /\ k \in DOMAIN records
    /\ records' = [j \in DOMAIN records \ {k} |-> records[j]]
    /\ UNCHANGED <<ever, alive, req>>

\* hard_delete_trip of a cancelled trip.
HardDelete(t) ==
    /\ t \in alive
    /\ \A u \in alive : TripNo(ever[u]) # {<<ever[t].no, "B">>}
    /\ alive' = alive \ {t}
    /\ UNCHANGED <<ever, records, req>>

ServeStep(r) ==
    \/ ClaimKey(r) \/ Recall(r) \/ FindEarlier(r) \/ Reread(r) \/ Fail(r)
    \/ IngestTripSlip(r) \/ IngestTripSlipFallback(r) \/ IngestExcelTrip(r)
    \/ CreateTrip(r) \/ CreateEmptyReturn(r)

Maintain == (\E k \in DOMAIN records : Expire(k)) \/ (\E t \in alive : HardDelete(t))

-----------------------------------------------------------------------------
\* A request that carries a key is never told of a conflict while the record of
\* that key answers the same payload: the claim and the insertion are one
\* critical section, whatever repetitions run beside it.
ConflictIsNotYours ==
    [][\A r \in Requests :
         req[r].at \in Working /\ req'[r].answer.says = "conflict" /\ req[r].key # NoKey
           => ~(/\ KeyOf(r) \in DOMAIN records
                /\ records[KeyOf(r)].hash = Hash(req[r].body))]_intakeVars
=============================================================================
