--------------------------- MODULE TripEnrichment ---------------------------
(***************************************************************************)
(* trip_service/workers/enrichment_worker.py with the endpoints that write *)
(* the same two rows: several workers claim enrichment rows, ask the       *)
(* location service for a route outside any transaction and save the       *)
(* answer, while administrators approve, reject, delete and edit the trip  *)
(* and re-queue its enrichment.                                            *)
(*                                                                         *)
(* Transactions run at READ COMMITTED and go through the ORM: a commit     *)
(* writes only the columns that differ from what the transaction read      *)
(* (Flush), over whatever the row holds by then.  As in OutboxRelay, time  *)
(* is what is left of a lease or a delay, and a claim token is the worker  *)
(* whose current batch it names, or StaleToken if that batch is gone.      *)
(*                                                                         *)
(* The worker reaches the location service through location_breaker, which *)
(* never returns to the caller whose failure fills its count (module       *)
(* CircuitBreaker).  The count may be the process's own or the one that    *)
(* all share in Redis, so that any failed call may be the last.            *)
(***************************************************************************)
EXTENDS Integers, FiniteSets

CONSTANTS Trips,
          Named,         \* trips whose evidence has both place names
          Workers,
          NoToken, StaleToken,
          BatchSize,     \* batch_size
          ClaimTTL,      \* enrichment_claim_ttl_seconds, in ticks
          MaxAttempts,   \* enrichment_max_attempts
          RetryDelay,    \* the backoff, in ticks
          MaxVersion,    \* bound on administrative operations per trip
          MaxRequeues,   \* bound on retry-enrichment calls
          MaxFaults,     \* bound on crashes and unexpected exceptions
          MaxOutages,    \* bound on outages of the location service
          MaxLates       \* bound on the ticks that overtake work in progress

ASSUME EnrichmentAssumption ==
    /\ Named \subseteq Trips
    /\ NoToken # StaleToken /\ NoToken \notin Workers /\ StaleToken \notin Workers
    /\ BatchSize \in Nat \ {0} /\ ClaimTTL \in Nat \ {0} /\ MaxAttempts \in Nat \ {0}
    /\ RetryDelay \in Nat \ {0}
    /\ MaxVersion \in Nat \ {0}
    /\ MaxRequeues \in Nat /\ MaxFaults \in Nat /\ MaxOutages \in Nat
    /\ MaxLates \in Nat

NoRoute == "none"
NoRetry == -1
Routes == {NoRoute, "resolved", "edited"}
RouteStatuses == {"PENDING", "READY", "FAILED", "SKIPPED"}
EnrichmentStatuses == RouteStatuses \cup {"RUNNING"}
TripStatuses == {"PENDING_REVIEW", "COMPLETED", "REJECTED", "SOFT_DELETED"}

VARIABLES trip,      \* trip_trips: status, route, version
          enr,       \* trip_trip_enrichment: status, route_status, attempts, token, retry
          lease,     \* ticks until claim_expires_at_utc has passed
          job,       \* what each worker is doing
          admin,     \* the administrative transaction that holds the trip's row lock
          requeue,   \* a retry-enrichment request between its read and its write
          locationUp,
          requeues, faults, outages, lates

adminVars == <<admin, requeue, requeues>>
vars == <<trip, enr, lease, job, adminVars, locationUp, faults, outages, lates>>

Ops == {"approve", "reject", "delete", "edit"}

EnrRows == [status: EnrichmentStatuses, route: RouteStatuses, attempts: 0 .. MaxAttempts,
            token: Workers \cup {NoToken, StaleToken}, retry: NoRetry .. RetryDelay]
TripRows == [status: TripStatuses, route: Routes, version: 1 .. MaxVersion]

Idle == [at |-> "idle"]
NoRequest == [op |-> "none"]

TypeOK ==
    /\ trip \in [Trips -> TripRows]
    /\ enr \in [Trips -> EnrRows]
    /\ lease \in [Trips -> 0 .. ClaimTTL]
    /\ \A w \in Workers : job[w].at \in {"idle", "next", "loaded", "asking", "resolved", "saving", "hung"}
    /\ \A t \in Trips : admin[t].op \in Ops \cup {"none"}
    /\ \A t \in Trips : requeue[t].op \in {"requeue", "none"}
    /\ locationUp \in BOOLEAN
    /\ requeues \in 0 .. MaxRequeues /\ faults \in 0 .. MaxFaults /\ outages \in 0 .. MaxOutages
    /\ lates \in 0 .. MaxLates

\* A trip as ingest_trip_slip_fallback commits it.
Init ==
    /\ trip = [t \in Trips |-> [status |-> "PENDING_REVIEW", route |-> NoRoute, version |-> 1]]
    /\ enr = [t \in Trips |-> [status |-> "PENDING", route |-> "PENDING", attempts |-> 0,
                               token |-> NoToken, retry |-> NoRetry]]
    /\ lease = [t \in Trips |-> 0]
    /\ job = [w \in Workers |-> Idle]
    /\ admin = [t \in Trips |-> NoRequest]
    /\ requeue = [t \in Trips |-> NoRequest]
    /\ locationUp = TRUE
    /\ requeues = 0 /\ faults = 0 /\ outages = 0 /\ lates = 0

-----------------------------------------------------------------------------
\* The ORM's UPDATE: columns of new that differ from the row as it was read.
Flush(current, read, new) ==
    [c \in DOMAIN current |-> IF new[c] # read[c] THEN new[c] ELSE current[c]]

WriteEnr(t, read, new) ==
    /\ enr' = [enr EXCEPT ![t] = Flush(@, read, new)]
    /\ lease' = [lease EXCEPT ![t] = IF new.token # read.token THEN 0 ELSE @]

\* The tokens of a batch that is over match no worker any more.
Retire(w, rows) ==
    [t \in Trips |-> IF rows[t].token = w THEN [rows[t] EXCEPT !.token = StaleToken] ELSE rows[t]]

ClaimableIgnoringLease(t) ==
    /\ enr[t].status \in {"PENDING", "FAILED", "RUNNING"}
    /\ enr[t].attempts < MaxAttempts
    /\ enr[t].retry <= 0

ClaimableNoTakeover(t) ==
    /\ enr[t].status \in {"PENDING", "FAILED"}
    /\ enr[t].attempts < MaxAttempts
    /\ enr[t].retry <= 0

Claimable(t) ==
    /\ \/ enr[t].status \in {"PENDING", "FAILED"}
       \/ enr[t].status = "RUNNING" /\ enr[t].token # NoToken /\ lease[t] = 0
    /\ enr[t].attempts < MaxAttempts
    /\ enr[t].retry <= 0

\* Steps 1 to 3 of _claim_and_process_batch, one transaction.
Claim(w) ==
    /\ job[w] = Idle
    /\ \E batch \in SUBSET {t \in Trips : Claimable(t)} :
        /\ batch # {} /\ Cardinality(batch) <= BatchSize
        /\ enr' = [t \in Trips |->
                     IF t \in batch THEN [enr[t] EXCEPT !.status = "RUNNING", !.token = w]
                                    ELSE Retire(w, enr)[t]]
        /\ lease' = [t \in Trips |-> IF t \in batch THEN ClaimTTL ELSE lease[t]]
        /\ job' = [job EXCEPT ![w] = [at |-> "next", queue |-> batch]]
    /\ UNCHANGED <<trip, adminVars, locationUp, faults, outages, lates>>

Goto(w, next) == job' = [job EXCEPT ![w] = next]
Rest(w) == [at |-> "next", queue |-> job[w].queue]

\* Step 4 takes the rows of the batch one after the other.
EndOfBatch(w) ==
    /\ job[w].at = "next" /\ job[w].queue = {}
    /\ Goto(w, Idle)
    /\ enr' = Retire(w, enr)
    /\ UNCHANGED <<trip, lease, adminVars, locationUp, faults, outages, lates>>

HasToken(w, t) == enr[t].token = w

\* _load_enrichment_context: a row whose claim is lost is skipped.
Load(w) ==
    /\ job[w].at = "next"
    /\ \E t \in job[w].queue :
        LET rest == job[w].queue \ {t}
        IN  Goto(w, IF HasToken(w, t)
                    THEN [at |-> "loaded", queue |-> rest, row |-> t,
                          route |-> enr[t].route, routed |-> trip[t].route # NoRoute]
                    ELSE [at |-> "next", queue |-> rest])
    /\ UNCHANGED <<trip, enr, lease, adminVars, locationUp, faults, outages, lates>>

\* The worker has an outcome for its row, with or without a trip context.
WithResult(w, result, context) ==
    [at |-> "resolved", queue |-> job[w].queue, row |-> job[w].row,
     result |-> result, context |-> context]

Halfway(w, stage) == [at |-> stage, queue |-> job[w].queue, row |-> job[w].row]

\* The service is asked only while the row's route_status is PENDING.
Asks(w) == job[w].route = "PENDING" /\ job[w].row \in Named /\ locationUp

\* _resolve_route_context up to the answer of _resolve_route, which turns every
\* exception into FAILED.  READY leads to the second call: so the worker's tests
\* have it; LocationNetwork shows that the real answer names the pair otherwise.
Resolve(w) ==
    /\ job[w].at = "loaded"
    /\ \/ Asks(w) /\ Goto(w, Halfway(w, "asking"))
       \/ \E answer \in IF Asks(w) THEN {"SKIPPED"}
                        ELSE IF job[w].route = "PENDING" THEN {"FAILED"} ELSE {job[w].route} :
              Goto(w, WithResult(w, answer, FALSE))
    /\ UNCHANGED <<trip, enr, lease, adminVars, locationUp, faults, outages, lates>>

\* fetch_trip_context: the context, a pair that cannot be used, or a failed call.
FetchContext(w) ==
    /\ job[w].at = "asking"
    /\ \E answer \in IF locationUp THEN {"READY", "SKIPPED"} ELSE {"FAILED"} :
          Goto(w, WithResult(w, answer, answer = "READY"))
    /\ UNCHANGED <<trip, enr, lease, adminVars, locationUp, faults, outages, lates>>

\* The call failed, and the breaker waits for ever for the lock it holds.
Hang(w) ==
    /\ job[w].at = "asking" /\ ~locationUp
    /\ Goto(w, Halfway(w, "hung"))
    /\ UNCHANGED <<trip, enr, lease, adminVars, locationUp, faults, outages, lates>>

\* An exception on the way: _mark_processing_error will record the failure.
Trouble(w) ==
    /\ job[w].at \in {"loaded", "asking", "resolved"}
    /\ faults < MaxFaults
    /\ faults' = faults + 1
    /\ Goto(w, WithResult(w, "ERROR", FALSE))
    /\ UNCHANGED <<trip, enr, lease, adminVars, locationUp, outages, lates>>

\* The SELECTs of _save_enrichment_result and _mark_processing_error: by token,
\* without a lock.
SaveRead(w) ==
    /\ job[w].at = "resolved"
    /\ LET t == job[w].row
       IN  Goto(w, IF HasToken(w, t)
                   THEN [at |-> "saving", queue |-> job[w].queue, row |-> t,
                         result |-> job[w].result, context |-> job[w].context,
                         read |-> enr[t], readRoute |-> trip[t].route]
                   ELSE Rest(w))
    /\ UNCHANGED <<trip, enr, lease, adminVars, locationUp, faults, outages, lates>>

ReadyOrFailed(routeStatus) == IF routeStatus = "SKIPPED" THEN "READY" ELSE routeStatus

\* _derive_final_enrichment_status.
DeriveFinal(routeStatus) == routeStatus

\* The columns a finished row gets.
Outcome(w) ==
    LET read == job[w].read
        result == job[w].result
        failed == result \in {"FAILED", "ERROR"}
    IN  [status |-> IF result = "ERROR" THEN "FAILED" ELSE DeriveFinal(result),
         route |-> IF result = "ERROR" THEN read.route ELSE result,
         attempts |-> read.attempts + 1,
         token |-> NoToken,
         retry |-> IF failed /\ read.attempts < MaxAttempts THEN RetryDelay ELSE NoRetry]

\* apply_trip_context, and the commit.  An UPDATE of the trip waits for the row
\* lock of an administrative transaction; the version column is not touched.
SaveWrite(w) ==
    LET t == job[w].row
        reroutes == job[w].context /\ job[w].readRoute # "resolved"
    IN  /\ job[w].at = "saving"
        /\ reroutes => admin[t].op = "none"
        /\ WriteEnr(t, job[w].read, Outcome(w))
        /\ trip' = IF reroutes THEN [trip EXCEPT ![t].route = "resolved"] ELSE trip
        /\ Goto(w, Rest(w))
        /\ UNCHANGED <<adminVars, locationUp, faults, outages, lates>>

\* The process dies; run_enrichment_worker starts again from the table.
Crash(w) ==
    /\ job[w] # Idle
    /\ faults < MaxFaults
    /\ faults' = faults + 1
    /\ Goto(w, Idle)
    /\ enr' = Retire(w, enr)
    /\ UNCHANGED <<trip, lease, adminVars, locationUp, outages, lates>>

-----------------------------------------------------------------------------
Editable == {"PENDING_REVIEW", "COMPLETED"}

\* _ensure_complete_for_completion: of the required fields, the route is the
\* one that a fallback ingest leaves open.
Complete(t) == trip[t].route # NoRoute

\* What validate_trip_transition and the handlers ask of the trip.
Allowed(op, t) ==
    CASE op = "approve" -> trip[t].status = "PENDING_REVIEW" /\ Complete(t)
      [] op = "reject"  -> trip[t].status = "PENDING_REVIEW"
      [] op = "delete"  -> trip[t].status # "SOFT_DELETED"
      [] op = "edit"    -> trip[t].status \in Editable

\* approve_trip, reject_trip, cancel_trip and edit_trip lock the trip, compare
\* its version with If-Match and read the enrichment row without a lock.
AdminRead(t, op) ==
    /\ admin[t].op = "none"
    /\ trip[t].version < MaxVersion
    /\ Allowed(op, t)
    /\ admin' = [admin EXCEPT ![t] = [op |-> op, read |-> enr[t]]]
    /\ UNCHANGED <<trip, enr, lease, job, requeue, requeues, locationUp, faults, outages, lates>>

Bump(t) == trip[t].version + 1

\* _set_enrichment_state: without a route the row waits again, whoever has it in hand.
Synchronized(read, ready) ==
    [read EXCEPT !.status = IF ready THEN "READY" ELSE "PENDING",
                 !.route = IF ready THEN "READY" ELSE "PENDING",
                 !.token = NoToken, !.retry = NoRetry]

\* An edit picks a route pair, or leaves the route as it is.
RoutesAfter(op, t) == {trip[t].route} \cup (IF op = "edit" THEN {"edited"} ELSE {})

StatusAfter(op, t) ==
    CASE op = "approve" -> "COMPLETED"
      [] op = "reject"  -> "REJECTED"
      [] op = "delete"  -> "SOFT_DELETED"
      [] op = "edit"    -> trip[t].status

\* The commit.
AdminWrite(t) ==
    LET op == admin[t].op
        read == admin[t].read
    IN  /\ op # "none"
        /\ \E route \in RoutesAfter(op, t) :
            /\ trip' = [trip EXCEPT ![t] = [status |-> StatusAfter(op, t), route |-> route,
                                           version |-> Bump(t)]]
            /\ IF op \in {"approve", "edit"}
               THEN WriteEnr(t, read, Synchronized(read, route # NoRoute))
               ELSE UNCHANGED <<enr, lease>>
        /\ admin' = [admin EXCEPT ![t] = NoRequest]
        /\ UNCHANGED <<job, requeue, requeues, locationUp, faults, outages, lates>>

\* The request fails, or the database ends its idle transaction.
AdminAbort(t) ==
    /\ admin[t].op # "none"
    /\ faults < MaxFaults
    /\ faults' = faults + 1
    /\ admin' = [admin EXCEPT ![t] = NoRequest]
    /\ UNCHANGED <<trip, enr, lease, job, requeue, requeues, locationUp, outages, lates>>

\* retry_enrichment refuses a running claim and the terminal states.
Requeueable(t) ==
    /\ ~ (enr[t].status = "RUNNING" /\ (enr[t].token = NoToken \/ lease[t] > 0))
    /\ enr[t].status \notin {"READY", "SKIPPED"}

RequeueRead(t) ==
    /\ requeue[t].op = "none"
    /\ requeues < MaxRequeues
    /\ Requeueable(t)
    /\ requeues' = requeues + 1
    /\ requeue' = [requeue EXCEPT ![t] = [op |-> "requeue", read |-> enr[t],
                                          routed |-> trip[t].route # NoRoute]]
    /\ UNCHANGED <<trip, enr, lease, job, admin, locationUp, faults, outages, lates>>

\* The fields retry_enrichment sets.
Requeued(read, routed) ==
    [status |-> "PENDING", route |-> IF routed THEN "READY" ELSE "PENDING",
     attempts |-> 0, token |-> NoToken, retry |-> 0]

RequeueWrite(t) ==
    /\ requeue[t].op = "requeue"
    /\ WriteEnr(t, requeue[t].read, Requeued(requeue[t].read, requeue[t].routed))
    /\ requeue' = [requeue EXCEPT ![t] = NoRequest]
    /\ UNCHANGED <<trip, job, admin, requeues, locationUp, faults, outages, lates>>

-----------------------------------------------------------------------------
Outage ==
    /\ locationUp
    /\ outages < MaxOutages
    /\ outages' = outages + 1
    /\ locationUp' = FALSE
    /\ UNCHANGED <<trip, enr, lease, job, adminVars, faults, lates>>

Recovery ==
    /\ ~ locationUp
    /\ locationUp' = TRUE
    /\ UNCHANGED <<trip, enr, lease, job, adminVars, faults, outages, lates>>

Less(n) == IF n > 0 THEN n - 1 ELSE n

\* The rows a worker will still finish in its current batch.
Working(w) ==
    CASE job[w].at \in {"idle", "hung"} -> {}
      [] job[w].at = "next" -> job[w].queue
      [] OTHER -> job[w].queue \cup {job[w].row}

\* The settings demand a claim that outlasts three timeouts of a dependency, and
\* the database ends a transaction that idles for half a minute, the first
\* backoff being a whole one: as a rule no claim runs out under the work on it,
\* and no request is between its read and its write when time advances.
InTime ==
    /\ \A w \in Workers : \A t \in Working(w) : HasToken(w, t) => lease[t] > 1
    /\ \A t \in Trips : admin[t].op = "none" /\ requeue[t].op = "none"

\* Nothing enforces the rule: a slow process may break it.
Tick ==
    /\ \E t \in Trips : lease[t] > 0 \/ enr[t].retry > 0
    /\ InTime \/ lates < MaxLates
    /\ lates' = IF InTime THEN lates ELSE lates + 1
    /\ lease' = [t \in Trips |-> Less(lease[t])]
    /\ enr' = [t \in Trips |-> [enr[t] EXCEPT !.retry = Less(@)]]
    /\ UNCHANGED <<trip, job, adminVars, locationUp, faults, outages>>

WorkerStep(w) ==
    \/ Claim(w)
    \/ Load(w)
    \/ Resolve(w)
    \/ FetchContext(w)
    \/ SaveRead(w)
    \/ SaveWrite(w)
    \/ EndOfBatch(w)

AdminStep(t) ==
    \/ \E op \in Ops : AdminRead(t, op)
    \/ AdminWrite(t)
    \/ AdminAbort(t)
    \/ RequeueRead(t)
    \/ RequeueWrite(t)

Next ==
    \/ \E w \in Workers : WorkerStep(w) \/ Trouble(w) \/ Hang(w) \/ Crash(w)
    \/ \E t \in Trips : AdminStep(t)
    \/ Outage \/ Recovery
    \/ Tick

Spec == Init /\ [][Next]_vars

\* The workers poll unless they hang, transactions end, the clock runs, and the
\* location service comes back; nobody has to call an endpoint or restart a worker.
Fairness ==
    /\ \A w \in Workers : WF_vars(WorkerStep(w))
    /\ \A t \in Trips : WF_vars(AdminWrite(t) \/ AdminAbort(t)) /\ WF_vars(RequeueWrite(t))
    /\ WF_vars(Tick) /\ WF_vars(Recovery)

FairSpec == Spec /\ Fairness

-----------------------------------------------------------------------------
\* READY is never reported for a trip without a route, whichever of the
\* partial updates of worker, editor and retry endpoint come together.
ReadyHasRoute == \A t \in Trips : enr[t].status = "READY" => trip[t].route # NoRoute

\* While claims outlast work, and nobody re-queues or edits, SKIP LOCKED, token
\* and lease keep every row to one worker.
OneWorkerPerRow ==
    lates = 0 /\ requeues = 0 /\ (\A t \in Trips : trip[t].version = 1)
        => \A v, w \in Workers : v # w => Working(v) \cap Working(w) = {}

\* A row that says RUNNING and names no claim: neither the claim query, which
\* compares claim_expires_at_utc with now, nor retry_enrichment, which reads NULL
\* as a claim that is running, will touch it.
Stranded(t) == enr[t].status = "RUNNING" /\ enr[t].token = NoToken

\* Work on a row always comes to an end, through crashes, exceptions, outages and
\* workers that hang in their breaker: another worker takes the row over, and it is
\* READY or SKIPPED or its attempts are used up (a re-queued row may then still say
\* PENDING), unless a partial update of an administrator strands it or every worker
\* hangs.
Finished(t) == \/ enr[t].status \in {"READY", "SKIPPED"}
               \/ enr[t].status # "RUNNING" /\ enr[t].attempts = MaxAttempts
AllHang == \A w \in Workers : job[w].at = "hung"
EveryRowFinishes == \A t \in Trips : []<>(Finished(t) \/ Stranded(t) \/ AllHang)

-----------------------------------------------------------------------------
\* What the code does not keep; TLC refutes each of the three.

\* "Retry policy with backoff": an outage that ends before the attempts are used
\* up does not make the row fail, a later attempt asks again.
OutageHeals ==
    \A t \in Named : enr[t].status = "PENDING" /\ enr[t].attempts = 0
                        ~> enr[t].status \in {"READY", "SKIPPED"}

\* _set_enrichment_state "resets claim fields": once an administrator approved a
\* trip, only an edit changes its route.
ApprovedRouteStays ==
    [][\A t \in Trips :
            trip[t].status = "COMPLETED" /\ trip'[t].route # trip[t].route
                => trip'[t].route = "edited"]_vars

\* ETag and If-Match: whoever holds the current version of a trip has seen its
\* current route.
EtagCoversRoute ==
    [][\A t \in Trips : trip'[t].route # trip[t].route => trip'[t].version # trip[t].version]_vars
=============================================================================
