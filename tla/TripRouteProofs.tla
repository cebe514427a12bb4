---------------------------- MODULE TripRouteProofs ----------------------------
(***************************************************************************)
(* How a trip comes by its route: the enrichment worker, and the network   *)
(* of points and pairs that it asks.                                       *)
(*                                                                         *)
(* For any trips, workers, leases and schedules of faults and calls, a row *)
(* that says READY has a route, and as long as claims outlast work no two  *)
(* workers have the same row in hand.                                      *)
(*                                                                         *)
(* For any points, pairs and requests, a live pair stands on an inactive   *)
(* point only by a race, and both routes of a trip context are of one      *)
(* approval.  The first argument follows the three requests that can go    *)
(* wrong.  A creation has seen its points active, an approval has loaded   *)
(* a live pair, and a deactivation has found no live pair of its point.    *)
(* Each keeps what it has seen, or the others know that it has been        *)
(* overtaken.                                                              *)
(***************************************************************************)
EXTENDS TripEnrichment, LocationNetwork, FiniteSetTheorems, SequenceTheorems, TLAPS

Results == RouteStatuses \cup {"ERROR"}
Jobs ==
    {Idle}
        \cup [at: {"next"}, queue: SUBSET Trips]
        \cup [at: {"loaded"}, queue: SUBSET Trips, row: Trips, route: RouteStatuses, routed: BOOLEAN]
        \cup [at: {"asking", "hung"}, queue: SUBSET Trips, row: Trips]
        \cup [at: {"resolved"}, queue: SUBSET Trips, row: Trips, result: Results, context: BOOLEAN]
        \cup [at: {"saving"}, queue: SUBSET Trips, row: Trips, result: Results, context: BOOLEAN,
              read: EnrRows, readRoute: Routes]

TypeInv ==
    /\ trip \in [Trips -> TripRows]
    /\ enr \in [Trips -> EnrRows]
    /\ lease \in [Trips -> 0 .. ClaimTTL]
    /\ job \in [Workers -> Jobs]
    /\ admin \in [Trips -> {NoRequest} \cup [op: Ops, read: EnrRows]]
    /\ requeue \in [Trips -> {NoRequest} \cup [op: {"requeue"}, read: EnrRows, routed: BOOLEAN]]
    /\ locationUp \in BOOLEAN
    /\ requeues \in 0 .. MaxRequeues /\ faults \in 0 .. MaxFaults /\ outages \in 0 .. MaxOutages
    /\ lates \in 0 .. MaxLates

\* An administrative transaction has room for its version, and a row that names a claim
\* has attempts left, also as its worker has read it.
BoundsInv ==
    /\ \A t \in Trips : admin[t].op # "none" => trip[t].version < MaxVersion
    /\ \A t \in Trips : enr[t].token # NoToken => enr[t].attempts < MaxAttempts
    /\ \A w \in Workers : job[w].at = "saving" =>
          job[w].read.token # NoToken /\ job[w].read.attempts < MaxAttempts

\* Whoever says or will write READY knows of a route: the row in either of its columns,
\* the worker that has read or found it, the approval that has checked it, the re-queue
\* that has seen it.
Routed(t) == trip[t].route # NoRoute
RowRouted(t) == enr[t].status = "READY" \/ enr[t].route = "READY" => Routed(t)
JobRouted(w) ==
    /\ job[w].at = "loaded" /\ job[w].route = "READY" => Routed(job[w].row)
    /\ job[w].at \in {"resolved", "saving"} /\ job[w].result = "READY" /\ ~job[w].context
          => Routed(job[w].row)
    /\ job[w].at = "saving" /\ (job[w].read.route = "READY" \/ job[w].readRoute # NoRoute)
          => Routed(job[w].row)
RequestsRouted(t) ==
    /\ admin[t].op = "approve" => Routed(t)
    /\ requeue[t].op = "requeue" /\ requeue[t].routed => Routed(t)

RoutedInv ==
    /\ \A t \in Trips : RowRouted(t) /\ RequestsRouted(t)
    /\ \A w \in Workers : JobRouted(w)

\* What nobody has interfered with.
Calm == lates = 0 /\ requeues = 0 /\ \A t \in Trips : trip[t].version = 1

\* Left alone, a worker holds every row it still has to finish, under a lease that is
\* not over.
Holds(w) ==
    /\ job[w].at \in {"loaded", "asking", "resolved", "saving"} => job[w].row \notin job[w].queue
    /\ \A t \in Working(w) : HasToken(w, t) /\ enr[t].status = "RUNNING" /\ lease[t] > 0

ClaimsInv ==
    Calm => (\A t \in Trips : requeue[t].op = "none") /\ (\A w \in Workers : Holds(w))

IInv == TypeInv /\ BoundsInv /\ RoutedInv /\ ClaimsInv

-----------------------------------------------------------------------------
(* Rows.                                                                   *)

LEMMA FlushFields ==
    ASSUME NEW current \in EnrRows, NEW read \in EnrRows, NEW new \in EnrRows
    PROVE  LET row == Flush(current, read, new)
           IN  /\ row \in EnrRows
               /\ row.status = IF new.status # read.status THEN new.status ELSE current.status
               /\ row.route = IF new.route # read.route THEN new.route ELSE current.route
               /\ row.attempts = IF new.attempts # read.attempts THEN new.attempts ELSE current.attempts
               /\ row.token = IF new.token # read.token THEN new.token ELSE current.token
<1> DEFINE row == Flush(current, read, new)
           Field(c) == IF new[c] # read[c] THEN new[c] ELSE current[c]
<1>1. DOMAIN current = {"status", "route", "attempts", "token", "retry"}
    BY DEF EnrRows
<1>2. row = [status |-> Field("status"), route |-> Field("route"), attempts |-> Field("attempts"),
             token |-> Field("token"), retry |-> Field("retry")]
    BY <1>1 DEF Flush
<1>3. /\ Field("status") \in EnrichmentStatuses /\ Field("route") \in RouteStatuses
      /\ Field("attempts") \in 0 .. MaxAttempts
      /\ Field("token") \in Workers \cup {NoToken, StaleToken}
      /\ Field("retry") \in NoRetry .. RetryDelay
    BY DEF EnrRows
<1>4. row \in EnrRows
    BY <1>2, <1>3 DEF EnrRows
<1> QED BY <1>2, <1>4

LEMMA WriteEnrFields ==
    ASSUME TypeInv, NEW t \in Trips, NEW read \in EnrRows, NEW new \in EnrRows,
           WriteEnr(t, read, new)
    PROVE  /\ enr' \in [Trips -> EnrRows] /\ lease' \in [Trips -> 0 .. ClaimTTL]
           /\ \A u \in Trips \ {t} : enr'[u] = enr[u] /\ lease'[u] = lease[u]
           /\ enr'[t].status = IF new.status # read.status THEN new.status ELSE enr[t].status
           /\ enr'[t].route = IF new.route # read.route THEN new.route ELSE enr[t].route
           /\ enr'[t].attempts = IF new.attempts # read.attempts THEN new.attempts ELSE enr[t].attempts
           /\ enr'[t].token = IF new.token # read.token THEN new.token ELSE enr[t].token
<1>1. enr[t] \in EnrRows
    BY DEF TypeInv
<1>2. enr' = [enr EXCEPT ![t] = Flush(enr[t], read, new)] /\ Flush(enr[t], read, new) \in EnrRows
    BY <1>1, FlushFields DEF WriteEnr
<1>3. enr'[t] = Flush(enr[t], read, new)
    BY <1>2 DEF TypeInv
<1>4. lease' \in [Trips -> 0 .. ClaimTTL] /\ \A u \in Trips \ {t} : lease'[u] = lease[u]
    BY EnrichmentAssumption DEF WriteEnr, TypeInv
<1>5. enr' \in [Trips -> EnrRows] /\ \A u \in Trips \ {t} : enr'[u] = enr[u]
    BY <1>2 DEF TypeInv
<1>6. LET row == Flush(enr[t], read, new)
      IN  /\ row.status = IF new.status # read.status THEN new.status ELSE enr[t].status
          /\ row.route = IF new.route # read.route THEN new.route ELSE enr[t].route
          /\ row.attempts = IF new.attempts # read.attempts THEN new.attempts ELSE enr[t].attempts
          /\ row.token = IF new.token # read.token THEN new.token ELSE enr[t].token
    BY <1>1, FlushFields
<1> QED BY <1>3, <1>4, <1>5, <1>6

LEMMA RetireFields ==
    ASSUME TypeInv, NEW w \in Workers, NEW t \in Trips
    PROVE  /\ Retire(w, enr)[t] \in EnrRows
           /\ Retire(w, enr)[t].status = enr[t].status /\ Retire(w, enr)[t].route = enr[t].route
           /\ Retire(w, enr)[t].attempts = enr[t].attempts
           /\ Retire(w, enr)[t].token = IF enr[t].token = w THEN StaleToken ELSE enr[t].token
<1>1. enr[t] \in EnrRows
    BY DEF TypeInv
<1>2. Retire(w, enr)[t] = IF enr[t].token = w THEN [enr[t] EXCEPT !.token = StaleToken] ELSE enr[t]
    BY DEF Retire
<1> QED BY <1>1, <1>2 DEF EnrRows

LEMMA TripFields ==
    ASSUME TypeInv, NEW t \in Trips, NEW op \in Ops, NEW route \in RoutesAfter(op, t),
           trip[t].version < MaxVersion,
           trip' = [trip EXCEPT ![t] = [status |-> StatusAfter(op, t), route |-> route,
                                        version |-> Bump(t)]]
    PROVE  /\ trip' \in [Trips -> TripRows]
           /\ \A u \in Trips \ {t} : trip'[u] = trip[u]
           /\ trip'[t].route = route /\ trip'[t].version = trip[t].version + 1
           /\ trip[t].route # NoRoute => route # NoRoute
<1>1. trip[t] \in TripRows
    BY DEF TypeInv
<1>2. StatusAfter(op, t) \in TripStatuses /\ route \in Routes /\ Bump(t) \in 1 .. MaxVersion
    BY <1>1, EnrichmentAssumption DEF Ops, StatusAfter, TripStatuses, RoutesAfter, Routes, Bump, TripRows
<1>3. [status |-> StatusAfter(op, t), route |-> route, version |-> Bump(t)] \in TripRows
    BY <1>2 DEF TripRows
<1>4. trip[t].route # NoRoute => route # NoRoute
    BY DEF RoutesAfter, NoRoute
<1> QED BY <1>3, <1>4 DEF TypeInv, Bump

\* What a worker's batch being over does to the rows.
LEMMA Retired ==
    ASSUME TypeInv, NEW w \in Workers, enr' = Retire(w, enr)
    PROVE  /\ enr' \in [Trips -> EnrRows]
           /\ \A t \in Trips :
                 /\ enr'[t].status = enr[t].status /\ enr'[t].route = enr[t].route
                 /\ enr'[t].attempts = enr[t].attempts
                 /\ enr'[t].token = IF enr[t].token = w THEN StaleToken ELSE enr[t].token
<1>1. DOMAIN enr' = Trips /\ enr' = [t \in Trips |-> enr'[t]]
    BY DEF Retire
<1> QED BY <1>1, RetireFields

\* A job, by its stage.
LEMMA JobFields ==
    ASSUME TypeInv, NEW w \in Workers
    PROVE  /\ job[w] # Idle => job[w].at \in {"next", "loaded", "asking", "resolved", "saving", "hung"}
           /\ job[w].at # "idle" => job[w].queue \in SUBSET Trips
           /\ job[w].at \notin {"idle", "next"} => job[w].row \in Trips
           /\ job[w].at = "loaded" => job[w].route \in RouteStatuses
           /\ job[w].at \in {"resolved", "saving"} => job[w].result \in Results /\ job[w].context \in BOOLEAN
           /\ job[w].at = "saving" => job[w].read \in EnrRows /\ job[w].readRoute \in Routes
           /\ Working(w) \subseteq Trips
<1>1. job[w] \in Jobs
    BY DEF TypeInv
<1>2. CASE job[w] = Idle
    BY <1>2 DEF Idle, Working
<1>3. CASE job[w] # Idle
    BY <1>1, <1>3 DEF Jobs, Working
<1> QED BY <1>2, <1>3

\* The row that SaveWrite writes.
LEMMA OutcomeIsRow ==
    ASSUME TypeInv, BoundsInv, NEW w \in Workers, job[w].at = "saving"
    PROVE  /\ Outcome(w) \in EnrRows
           /\ Outcome(w).token = NoToken
           /\ Outcome(w).attempts = job[w].read.attempts + 1
           /\ Outcome(w).status = IF job[w].result = "ERROR" THEN "FAILED" ELSE job[w].result
           /\ Outcome(w).route = IF job[w].result = "ERROR" THEN job[w].read.route ELSE job[w].result
<1>1. /\ job[w].read \in EnrRows /\ job[w].result \in Results
      /\ job[w].read.attempts < MaxAttempts
    BY JobFields DEF BoundsInv
<1> DEFINE retry == IF job[w].result \in {"FAILED", "ERROR"} /\ job[w].read.attempts < MaxAttempts
                    THEN RetryDelay ELSE NoRetry
           status == IF job[w].result = "ERROR" THEN "FAILED" ELSE job[w].result
           route == IF job[w].result = "ERROR" THEN job[w].read.route ELSE job[w].result
<1>2. retry \in NoRetry .. RetryDelay
    BY EnrichmentAssumption DEF NoRetry
<1>3. status \in EnrichmentStatuses /\ route \in RouteStatuses
    BY <1>1 DEF Results, EnrichmentStatuses, RouteStatuses, EnrRows
<1>4. job[w].read.attempts + 1 \in 0 .. MaxAttempts
    BY <1>1, EnrichmentAssumption DEF EnrRows
<1>5. Outcome(w) = [status |-> status, route |-> route, attempts |-> job[w].read.attempts + 1,
                    token |-> NoToken, retry |-> retry]
    BY DEF Outcome, DeriveFinal
<1> HIDE DEF retry, status, route
<1>6. Outcome(w) \in EnrRows
    BY <1>2, <1>3, <1>4, <1>5 DEF EnrRows
<1> QED BY <1>5, <1>6 DEF status, route

\* The rows that approvals, edits and re-queues write.
LEMMA WrittenIsRow ==
    ASSUME NEW read \in EnrRows, NEW routed \in BOOLEAN
    PROVE  /\ Synchronized(read, routed) \in EnrRows
           /\ ~routed => /\ Synchronized(read, routed).status = "PENDING"
                         /\ Synchronized(read, routed).route = "PENDING"
           /\ Synchronized(read, routed).attempts = read.attempts
           /\ Synchronized(read, routed).token = NoToken
           /\ Requeued(read, routed) \in EnrRows
<1>1. NoRetry \in NoRetry .. RetryDelay /\ 0 \in NoRetry .. RetryDelay
    BY EnrichmentAssumption DEF NoRetry
<1>2. Synchronized(read, routed) \in EnrRows
    BY <1>1 DEF Synchronized, EnrRows, EnrichmentStatuses, RouteStatuses
<1>3. Requeued(read, routed) \in EnrRows
    BY <1>1, EnrichmentAssumption DEF Requeued, EnrRows, EnrichmentStatuses, RouteStatuses
<1> QED BY <1>2, <1>3 DEF Synchronized, EnrRows

-----------------------------------------------------------------------------
(* Types and bounds.                                                       *)

LEMMA TypeInit == Init => IInv
<1> SUFFICES ASSUME Init PROVE IInv
    OBVIOUS
<1>1. TypeInv
    <2>1. [status |-> "PENDING_REVIEW", route |-> NoRoute, version |-> 1] \in TripRows
        BY EnrichmentAssumption DEF TripRows, TripStatuses, Routes
    <2>2. [status |-> "PENDING", route |-> "PENDING", attempts |-> 0, token |-> NoToken,
           retry |-> NoRetry] \in EnrRows
        BY EnrichmentAssumption DEF EnrRows, EnrichmentStatuses, RouteStatuses, NoRetry
    <2> QED BY <2>1, <2>2, EnrichmentAssumption DEF Init, TypeInv, Jobs
<1>2. BoundsInv /\ RoutedInv /\ ClaimsInv
    BY DEF Init, BoundsInv, RoutedInv, RowRouted, JobRouted, RequestsRouted, ClaimsInv, Holds,
           Idle, NoRequest, Working
<1> QED BY <1>1, <1>2 DEF IInv

\* A step of a worker that leaves trips and rows alone.
Advances(w) ==
    /\ \E next \in Jobs :
          /\ job' = [job EXCEPT ![w] = next]
          /\ next.at = "saving" => next.read.token # NoToken /\ next.read.attempts < MaxAttempts
    /\ UNCHANGED <<trip, enr, lease, adminVars, locationUp, outages, lates>>

LEMMA WorkerAdvances ==
    ASSUME TypeInv, BoundsInv, NEW w \in Workers,
           Load(w) \/ Resolve(w) \/ FetchContext(w) \/ Trouble(w) \/ Hang(w) \/ SaveRead(w)
    PROVE  Advances(w) /\ faults' \in 0 .. MaxFaults
<1>1. CASE Load(w)
    <2>1. PICK t \in job[w].queue :
             job' = [job EXCEPT ![w] =
                        IF HasToken(w, t)
                        THEN [at |-> "loaded", queue |-> job[w].queue \ {t}, row |-> t,
                              route |-> enr[t].route, routed |-> trip[t].route # NoRoute]
                        ELSE [at |-> "next", queue |-> job[w].queue \ {t}]]
        BY <1>1 DEF Load, Goto
    <2>2. t \in Trips /\ job[w].queue \ {t} \in SUBSET Trips /\ enr[t].route \in RouteStatuses
        BY <1>1, JobFields DEF Load, TypeInv, EnrRows
    <2>3. /\ [at |-> "loaded", queue |-> job[w].queue \ {t}, row |-> t,
              route |-> enr[t].route, routed |-> trip[t].route # NoRoute] \in Jobs
          /\ [at |-> "next", queue |-> job[w].queue \ {t}] \in Jobs
        BY <2>2 DEF Jobs
    <2> QED BY <1>1, <2>1, <2>3 DEF Load, Advances, TypeInv
<1>2. CASE Resolve(w) \/ FetchContext(w) \/ Hang(w)
    <2>1. PICK answer \in RouteStatuses, context \in BOOLEAN, stage \in {"asking", "hung"} :
             \/ job' = [job EXCEPT ![w] = WithResult(w, answer, context)]
             \/ job' = [job EXCEPT ![w] = Halfway(w, stage)]
        BY <1>2, JobFields DEF Resolve, FetchContext, Hang, Goto, RouteStatuses
    <2>2. job[w].queue \in SUBSET Trips /\ job[w].row \in Trips
        BY <1>2, JobFields DEF Resolve, FetchContext, Hang
    <2>3. /\ WithResult(w, answer, context) \in Jobs /\ WithResult(w, answer, context).at = "resolved"
          /\ Halfway(w, stage) \in Jobs /\ Halfway(w, stage).at # "saving"
        BY <2>2 DEF WithResult, Halfway, Jobs, Results
    <2> QED BY <1>2, <2>1, <2>3 DEF Resolve, FetchContext, Hang, Advances, TypeInv
<1>3. CASE Trouble(w)
    <2>1. WithResult(w, "ERROR", FALSE) \in Jobs /\ WithResult(w, "ERROR", FALSE).at = "resolved"
        BY <1>3, JobFields DEF Trouble, WithResult, Jobs, Results
    <2>2. faults' \in 0 .. MaxFaults
        BY <1>3, EnrichmentAssumption DEF Trouble, TypeInv
    <2>3. Advances(w)
        BY <1>3, <2>1 DEF Trouble, Goto, Advances
    <2> QED BY <2>2, <2>3
<1>4. CASE SaveRead(w)
    <2> DEFINE t == job[w].row
               next == IF HasToken(w, t)
                       THEN [at |-> "saving", queue |-> job[w].queue, row |-> t,
                             result |-> job[w].result, context |-> job[w].context,
                             read |-> enr[t], readRoute |-> trip[t].route]
                       ELSE Rest(w)
    <2>1. t \in Trips /\ enr[t] \in EnrRows /\ trip[t].route \in Routes
        BY <1>4, JobFields DEF SaveRead, TypeInv, TripRows
    <2>2. next \in Jobs
        BY <1>4, <2>1, JobFields DEF SaveRead, Jobs, Rest
    <2>3. next.at = "saving" => next.read.token # NoToken /\ next.read.attempts < MaxAttempts
        BY <2>1, EnrichmentAssumption DEF HasToken, BoundsInv, Rest
    <2> QED BY <1>4, <2>2, <2>3 DEF SaveRead, Goto, Advances, TypeInv
<1> QED BY <1>1, <1>2, <1>3, <1>4

LEMMA TypeStep ==
    ASSUME TypeInv, BoundsInv, [Next]_vars
    PROVE  TypeInv' /\ BoundsInv'
<1>1. ASSUME NEW w \in Workers,
             Load(w) \/ Resolve(w) \/ FetchContext(w) \/ Trouble(w) \/ Hang(w) \/ SaveRead(w)
      PROVE  TypeInv' /\ BoundsInv'
    <2>1. PICK next \in Jobs :
             /\ job' = [job EXCEPT ![w] = next]
             /\ next.at = "saving" => next.read.token # NoToken /\ next.read.attempts < MaxAttempts
        BY <1>1, WorkerAdvances DEF Advances
    <2>2. UNCHANGED <<trip, enr, lease, adminVars, locationUp, outages, lates>> /\ faults' \in 0 .. MaxFaults
        BY <1>1, WorkerAdvances DEF Advances
    <2> QED BY <2>1, <2>2 DEF TypeInv, BoundsInv, adminVars
<1>2. ASSUME NEW w \in Workers, Claim(w) PROVE TypeInv' /\ BoundsInv'
    <2>1. PICK batch \in SUBSET {t \in Trips : Claimable(t)} :
             /\ enr' = [t \in Trips |->
                          IF t \in batch THEN [enr[t] EXCEPT !.status = "RUNNING", !.token = w]
                                         ELSE Retire(w, enr)[t]]
             /\ lease' = [t \in Trips |-> IF t \in batch THEN ClaimTTL ELSE lease[t]]
             /\ job' = [job EXCEPT ![w] = [at |-> "next", queue |-> batch]]
        BY <1>2 DEF Claim
    <2>2. ASSUME NEW t \in Trips
          PROVE  enr'[t] \in EnrRows /\ (enr'[t].token # NoToken => enr'[t].attempts < MaxAttempts)
        <3>1. CASE t \in batch
            <4>1. enr[t].attempts < MaxAttempts /\ enr[t] \in EnrRows
                BY <3>1 DEF Claimable, TypeInv
            <4>2. enr'[t] = [enr[t] EXCEPT !.status = "RUNNING", !.token = w]
                BY <2>1, <3>1
            <4> QED BY <4>1, <4>2 DEF EnrRows, EnrichmentStatuses
        <3>2. CASE t \notin batch
            <4>1. enr'[t] = Retire(w, enr)[t]
                BY <2>1, <3>2
            <4> QED BY <4>1, RetireFields, EnrichmentAssumption DEF BoundsInv
        <3> QED BY <3>1, <3>2
    <2>3. enr' \in [Trips -> EnrRows] /\ lease' \in [Trips -> 0 .. ClaimTTL]
        <3>1. enr' = [t \in Trips |-> enr'[t]]
            BY <2>1
        <3>2. \A t \in Trips : lease[t] \in 0 .. ClaimTTL /\ ClaimTTL \in 0 .. ClaimTTL
            BY EnrichmentAssumption DEF TypeInv
        <3>3. lease' \in [Trips -> 0 .. ClaimTTL]
            BY <2>1, <3>2
        <3> QED BY <2>2, <3>1, <3>3
    <2>4. [at |-> "next", queue |-> batch] \in Jobs
        BY DEF Jobs
    <2> QED BY <1>2, <2>1, <2>2, <2>3, <2>4 DEF Claim, TypeInv, BoundsInv, adminVars
<1>3. ASSUME NEW w \in Workers, EndOfBatch(w) \/ Crash(w) PROVE TypeInv' /\ BoundsInv'
    <2>1. /\ job' = [job EXCEPT ![w] = Idle] /\ enr' = Retire(w, enr)
          /\ faults' \in 0 .. MaxFaults
          /\ UNCHANGED <<trip, lease, adminVars, locationUp, outages, lates>>
        BY <1>3, EnrichmentAssumption DEF EndOfBatch, Crash, Goto, TypeInv
    <2>2. enr' \in [Trips -> EnrRows]
          /\ \A t \in Trips : enr'[t].token # NoToken => enr'[t].attempts < MaxAttempts
        BY <2>1, Retired, EnrichmentAssumption DEF BoundsInv
    <2>3. Idle \in Jobs /\ Idle.at # "saving"
        BY DEF Jobs, Idle
    <2> QED BY <2>1, <2>2, <2>3 DEF TypeInv, BoundsInv, adminVars
<1>4. ASSUME NEW w \in Workers, SaveWrite(w) PROVE TypeInv' /\ BoundsInv'
    <2>1. PICK t \in Trips : t = job[w].row /\ job[w].at = "saving"
        BY <1>4, JobFields DEF SaveWrite
    <2>2. WriteEnr(t, job[w].read, Outcome(w)) /\ job[w].read \in EnrRows /\ job[w].read.token # NoToken
        BY <1>4, <2>1, JobFields DEF SaveWrite, BoundsInv
    <2>3. trip' \in [Trips -> TripRows] /\ \A u \in Trips : trip'[u].version = trip[u].version
        <3>1. /\ [trip[t] EXCEPT !.route = "resolved"] \in TripRows
              /\ [trip[t] EXCEPT !.route = "resolved"].version = trip[t].version
            BY DEF TypeInv, TripRows, Routes
        <3>2. trip' = trip \/ trip' = [trip EXCEPT ![t] = [trip[t] EXCEPT !.route = "resolved"]]
            BY <1>4, <2>1 DEF SaveWrite
        <3> HIDE DEF TripRows
        <3>3. trip' \in [Trips -> TripRows]
            BY <3>1, <3>2 DEF TypeInv
        <3>4. trip'[t].version = trip[t].version /\ \A u \in Trips \ {t} : trip'[u] = trip[u]
            BY <3>1, <3>2 DEF TypeInv
        <3> QED BY <3>3, <3>4
    <2>4. job' = [job EXCEPT ![w] = Rest(w)] /\ Rest(w) \in Jobs /\ Rest(w).at = "next"
        BY <1>4, <2>1, JobFields DEF SaveWrite, Goto, Rest, Jobs
    <2>5. /\ enr' \in [Trips -> EnrRows] /\ lease' \in [Trips -> 0 .. ClaimTTL]
          /\ \A u \in Trips \ {t} : enr'[u] = enr[u]
          /\ enr'[t].token = NoToken
        BY <2>1, <2>2, OutcomeIsRow, WriteEnrFields
    <2> QED BY <1>4, <2>3, <2>4, <2>5 DEF SaveWrite, TypeInv, BoundsInv, adminVars
<1>5. ASSUME NEW t \in Trips, NEW op \in Ops, AdminRead(t, op) PROVE TypeInv' /\ BoundsInv'
    <2>1. [op |-> op, read |-> enr[t]] \in [op: Ops, read: EnrRows]
        BY DEF TypeInv
    <2> QED BY <1>5, <2>1 DEF AdminRead, TypeInv, BoundsInv, adminVars
<1>6. ASSUME NEW t \in Trips, AdminWrite(t) PROVE TypeInv' /\ BoundsInv'
    <2>1. admin[t] \in [op: Ops, read: EnrRows] /\ trip[t].version < MaxVersion /\ trip[t] \in TripRows
        BY <1>6 DEF AdminWrite, TypeInv, BoundsInv, NoRequest
    <2>2. /\ admin' = [admin EXCEPT ![t] = NoRequest]
          /\ UNCHANGED <<job, requeue, requeues, locationUp, faults, outages, lates>>
        BY <1>6 DEF AdminWrite
    <2>0. PICK route \in RoutesAfter(admin[t].op, t) :
             /\ trip' = [trip EXCEPT ![t] = [status |-> StatusAfter(admin[t].op, t), route |-> route,
                                            version |-> Bump(t)]]
             /\ IF admin[t].op \in {"approve", "edit"}
                THEN WriteEnr(t, admin[t].read, Synchronized(admin[t].read, route # NoRoute))
                ELSE UNCHANGED <<enr, lease>>
        BY <1>6 DEF AdminWrite
    <2>3. trip' \in [Trips -> TripRows] /\ \A u \in Trips \ {t} : trip'[u] = trip[u]
        BY <2>0, <2>1, TripFields
    <2>4. /\ enr' \in [Trips -> EnrRows] /\ lease' \in [Trips -> 0 .. ClaimTTL]
          /\ \A u \in Trips : enr'[u].token # NoToken => enr'[u].attempts < MaxAttempts
        <3>1. CASE admin[t].op \in {"approve", "edit"}
            <4> DEFINE new == Synchronized(admin[t].read, route # NoRoute)
            <4>1. WriteEnr(t, admin[t].read, new)
                BY <2>0, <3>1
            <4>2. /\ enr' \in [Trips -> EnrRows] /\ lease' \in [Trips -> 0 .. ClaimTTL]
                  /\ \A u \in Trips \ {t} : enr'[u] = enr[u]
                  /\ enr'[t].token \in {NoToken, enr[t].token} /\ enr'[t].attempts = enr[t].attempts
                <5>1. admin[t].read \in EnrRows
                    BY <2>1
                <5>2. new \in EnrRows /\ new.token = NoToken /\ new.attempts = admin[t].read.attempts
                    BY <5>1, WrittenIsRow
                <5> HIDE DEF new
                <5> QED BY <4>1, <5>1, <5>2, WriteEnrFields
            <4> QED BY <4>2 DEF BoundsInv
        <3>2. CASE admin[t].op \notin {"approve", "edit"}
            BY <2>0, <3>2 DEF TypeInv, BoundsInv
        <3> QED BY <3>1, <3>2
    <2> QED BY <2>2, <2>3, <2>4 DEF TypeInv, BoundsInv, NoRequest
<1>7. ASSUME NEW t \in Trips, RequeueRead(t) PROVE TypeInv' /\ BoundsInv'
    <2>1. [op |-> "requeue", read |-> enr[t], routed |-> trip[t].route # NoRoute]
             \in [op: {"requeue"}, read: EnrRows, routed: BOOLEAN]
        BY DEF TypeInv
    <2> QED BY <1>7, <2>1, EnrichmentAssumption DEF RequeueRead, TypeInv, BoundsInv
<1>8. ASSUME NEW t \in Trips, RequeueWrite(t) PROVE TypeInv' /\ BoundsInv'
    <2>1. requeue[t] \in [op: {"requeue"}, read: EnrRows, routed: BOOLEAN]
        BY <1>8 DEF RequeueWrite, TypeInv, NoRequest
    <2> DEFINE read == requeue[t].read
               new == Requeued(read, requeue[t].routed)
    <2>2. new \in EnrRows /\ read \in EnrRows /\ WriteEnr(t, read, new)
        BY <1>8, <2>1, WrittenIsRow DEF RequeueWrite
    <2>3. new.attempts = 0 /\ new.token = NoToken
        BY DEF Requeued
    <2> HIDE DEF new, read
    <2>4. /\ enr' \in [Trips -> EnrRows] /\ lease' \in [Trips -> 0 .. ClaimTTL]
          /\ \A u \in Trips \ {t} : enr'[u] = enr[u]
          /\ enr'[t].token \in {NoToken, enr[t].token} /\ enr'[t].attempts \in {0, enr[t].attempts}
        BY <2>2, <2>3, WriteEnrFields
    <2>5. \A u \in Trips : enr'[u].token # NoToken => enr'[u].attempts < MaxAttempts
        BY <2>4, EnrichmentAssumption DEF BoundsInv
    <2> QED BY <1>8, <2>4, <2>5 DEF RequeueWrite, TypeInv, BoundsInv
<1>9. CASE Outage \/ Recovery
    <2>1. locationUp' \in BOOLEAN
        BY <1>9 DEF Outage, Recovery
    <2>3. outages' = outages \/ (outages < MaxOutages /\ outages' = outages + 1)
        BY <1>9 DEF Outage, Recovery
    <2>4. outages' \in 0 .. MaxOutages
        BY <2>3, EnrichmentAssumption DEF TypeInv
    <2>2. UNCHANGED <<trip, enr, lease, job, admin, requeue, requeues, faults, lates>>
        BY <1>9 DEF Outage, Recovery, adminVars
    <2> QED BY <2>1, <2>2, <2>4 DEF TypeInv, BoundsInv
<1>10. CASE Tick
    <2>1. ASSUME NEW t \in Trips
          PROVE  /\ enr'[t] \in EnrRows /\ enr'[t].token = enr[t].token
                 /\ enr'[t].attempts = enr[t].attempts /\ lease'[t] \in 0 .. ClaimTTL
        <3>1. enr[t] \in EnrRows /\ lease[t] \in 0 .. ClaimTTL
            BY DEF TypeInv
        <3>2. Less(enr[t].retry) \in NoRetry .. RetryDelay /\ Less(lease[t]) \in 0 .. ClaimTTL
            BY <3>1, EnrichmentAssumption DEF Less, EnrRows, NoRetry
        <3>3. enr'[t] = [enr[t] EXCEPT !.retry = Less(@)] /\ lease'[t] = Less(lease[t])
            BY <1>10 DEF Tick
        <3> QED BY <3>1, <3>2, <3>3 DEF EnrRows
    <2>2. enr' \in [Trips -> EnrRows] /\ lease' \in [Trips -> 0 .. ClaimTTL]
        BY <1>10, <2>1 DEF Tick
    <2>3. lates' \in 0 .. MaxLates
        BY <1>10, EnrichmentAssumption DEF Tick, TypeInv
    <2> QED BY <1>10, <2>1, <2>2, <2>3 DEF Tick, TypeInv, BoundsInv, adminVars
<1>11. CASE UNCHANGED vars
    BY <1>11 DEF vars, adminVars, TypeInv, BoundsInv
<1>12. ASSUME NEW t \in Trips, AdminAbort(t) PROVE TypeInv' /\ BoundsInv'
    <2>1. faults' \in 0 .. MaxFaults
        BY <1>12, EnrichmentAssumption DEF AdminAbort, TypeInv
    <2> QED BY <1>12, <2>1 DEF AdminAbort, TypeInv, BoundsInv, NoRequest
<1> QED BY <1>1, <1>2, <1>3, <1>4, <1>5, <1>6, <1>7, <1>8, <1>9, <1>10, <1>11, <1>12
        DEF Next, WorkerStep, AdminStep

-----------------------------------------------------------------------------
(* Routes.                                                                 *)

\* No step takes a route away.
LEMMA RouteStays ==
    ASSUME TypeInv, BoundsInv, [Next]_vars, NEW t \in Trips, Routed(t)
    PROVE  Routed(t)'
<1>1. CASE UNCHANGED trip
    BY <1>1 DEF Routed
<1>2. ASSUME NEW w \in Workers, SaveWrite(w) PROVE Routed(t)'
    <2>1. trip' = trip \/ trip' = [trip EXCEPT ![job[w].row].route = "resolved"]
        BY <1>2 DEF SaveWrite
    <2> QED BY <2>1 DEF Routed, TypeInv, TripRows, NoRoute
<1>3. ASSUME NEW u \in Trips, AdminWrite(u) PROVE Routed(t)'
    <2>1. admin[u].op \in Ops /\ trip[u].version < MaxVersion
        BY <1>3 DEF AdminWrite, TypeInv, BoundsInv, NoRequest
    <2>2. PICK route \in RoutesAfter(admin[u].op, u) :
             trip' = [trip EXCEPT ![u] = [status |-> StatusAfter(admin[u].op, u), route |-> route,
                                          version |-> Bump(u)]]
        BY <1>3 DEF AdminWrite
    <2> QED BY <2>1, <2>2, TripFields DEF Routed
<1> QED BY <1>1, <1>2, <1>3 DEF Next, vars, WorkerStep, AdminStep, Claim, Load, Resolve,
               FetchContext, Hang, Trouble, SaveRead, EndOfBatch, Crash, AdminRead, AdminAbort, RequeueRead, RequeueWrite, Outage, Recovery, Tick

LEMMA RoutedStep ==
    ASSUME TypeInv, BoundsInv, RoutedInv, [Next]_vars
    PROVE  RoutedInv'
<1> DEFINE Kept(t) == trip'[t].route # NoRoute
<1>0. \A t \in Trips : trip[t].route # NoRoute => Kept(t)
    BY RouteStays DEF Routed
<1>1. ASSUME NEW w \in Workers, UNCHANGED <<trip, enr, admin, requeue>>, JobRouted(w)',
             \A v \in Workers \ {w} : job'[v] = job[v]
      PROVE  RoutedInv'
    BY <1>1 DEF RoutedInv, RowRouted, RequestsRouted, JobRouted, Routed
<1>2. ASSUME UNCHANGED <<admin, requeue>>, \A t \in Trips : RowRouted(t)',
             \A w \in Workers : job'[w] = job[w] \/ job'[w].at \in {"idle", "next"}
      PROVE  RoutedInv'
    <2>1. \A t \in Trips : RequestsRouted(t)'
        BY <1>0, <1>2 DEF RoutedInv, RequestsRouted, Routed
    <2>2. ASSUME NEW w \in Workers PROVE JobRouted(w)'
        <3>1. CASE job'[w] = job[w]
            <4>1. job[w].at \in {"loaded", "resolved", "saving"} => job[w].row \in Trips
                BY JobFields
            <4>2. JobRouted(w)
                BY DEF RoutedInv
            <4>3. job[w].at \in {"loaded", "resolved", "saving"} /\ trip[job[w].row].route # NoRoute
                     => Kept(job[w].row)
                BY <1>0, <4>1
            <4>4. job[w].row' = job[w].row
                BY <3>1
            <4> QED BY <3>1, <4>2, <4>3, <4>4 DEF JobRouted, Routed
        <3>2. CASE job'[w].at \in {"idle", "next"}
            BY <3>2 DEF JobRouted
        <3> QED BY <1>2, <3>1, <3>2
    <2> QED BY <1>2, <2>1, <2>2 DEF RoutedInv
<1>3. ASSUME NEW t \in Trips, RowRouted(t)', RequestsRouted(t)', UNCHANGED job,
             \A u \in Trips \ {t} : enr'[u] = enr[u] /\ admin'[u] = admin[u] /\ requeue'[u] = requeue[u]
      PROVE  RoutedInv'
    <2>1. \A u \in Trips : RowRouted(u)' /\ RequestsRouted(u)'
        BY <1>0, <1>3 DEF RoutedInv, RowRouted, RequestsRouted, Routed
    <2>2. ASSUME NEW w \in Workers PROVE JobRouted(w)'
        <3>1. job[w].at \in {"loaded", "resolved", "saving"} /\ trip[job[w].row].route # NoRoute
                 => Kept(job[w].row)
            BY <1>0, JobFields
        <3> QED BY <1>3, <3>1 DEF RoutedInv, JobRouted, Routed
    <2> QED BY <2>1, <2>2 DEF RoutedInv
<1>4. ASSUME NEW w \in Workers, Load(w) PROVE RoutedInv'
    <2>1. PICK t \in job[w].queue :
             job'[w] = IF HasToken(w, t)
                       THEN [at |-> "loaded", queue |-> job[w].queue \ {t}, row |-> t,
                             route |-> enr[t].route, routed |-> trip[t].route # NoRoute]
                       ELSE [at |-> "next", queue |-> job[w].queue \ {t}]
        BY <1>4 DEF Load, Goto, TypeInv
    <2>2. t \in Trips
        BY <1>4, JobFields DEF Load
    <2>3. enr[t].route = "READY" => trip'[t].route # NoRoute
        BY <1>4, <2>2 DEF Load, RoutedInv, RowRouted, Routed
    <2>4. JobRouted(w)'
        <3>1. CASE HasToken(w, t)
            BY <2>1, <2>3, <3>1 DEF JobRouted, Routed
        <3>2. CASE ~HasToken(w, t)
            BY <2>1, <3>2 DEF JobRouted
        <3> QED BY <3>1, <3>2
    <2> QED BY <1>1, <1>4, <2>4 DEF Load, Goto, TypeInv, adminVars
<1>5. ASSUME NEW w \in Workers, Resolve(w) PROVE RoutedInv'
    <2>1. PICK answer \in RouteStatuses :
             /\ job'[w] \in {WithResult(w, answer, FALSE), Halfway(w, "asking")}
             /\ answer = "READY" => job[w].route = "READY"
        <3>1. job[w].route \in RouteStatuses
            BY <1>5, JobFields DEF Resolve
        <3>2. CASE Goto(w, Halfway(w, "asking"))
            BY <3>2 DEF Goto, RouteStatuses, TypeInv
        <3>3. ASSUME NEW answer \in {"SKIPPED", "FAILED", job[w].route},
                     Goto(w, WithResult(w, answer, FALSE))
              PROVE  /\ job'[w] = WithResult(w, answer, FALSE) /\ answer \in RouteStatuses
                     /\ answer = "READY" => job[w].route = "READY"
            BY <3>1, <3>3 DEF Goto, RouteStatuses, TypeInv
        <3>4. \/ Goto(w, Halfway(w, "asking"))
              \/ \E answer \in {"SKIPPED", "FAILED", job[w].route} : Goto(w, WithResult(w, answer, FALSE))
            BY <1>5 DEF Resolve
        <3> QED BY <3>2, <3>3, <3>4
    <2>2. job[w].at = "loaded" /\ JobRouted(w) /\ UNCHANGED trip
        BY <1>5 DEF Resolve, RoutedInv
    <2>3. JobRouted(w)'
        <3>1. CASE job'[w] = Halfway(w, "asking")
            BY <3>1 DEF Halfway, JobRouted
        <3>2. CASE job'[w] = WithResult(w, answer, FALSE) /\ answer = "READY"
            BY <2>1, <2>2, <3>2 DEF WithResult, JobRouted, Routed
        <3>3. CASE job'[w] = WithResult(w, answer, FALSE) /\ answer # "READY"
            BY <3>3 DEF WithResult, JobRouted
        <3> QED BY <2>1, <3>1, <3>2, <3>3
    <2> QED BY <1>1, <1>5, <2>3 DEF Resolve, Goto, TypeInv, adminVars
<1>17. ASSUME NEW w \in Workers, FetchContext(w) \/ Hang(w) PROVE RoutedInv'
    <2>1. PICK answer \in RouteStatuses :
             job'[w] \in {WithResult(w, answer, answer = "READY"), Halfway(w, "hung")}
        BY <1>17 DEF FetchContext, Hang, Goto, RouteStatuses, TypeInv
    <2>2. JobRouted(w)'
        <3>1. CASE job'[w] = Halfway(w, "hung")
            BY <3>1 DEF Halfway, JobRouted
        <3>2. CASE job'[w] = WithResult(w, answer, answer = "READY")
            <4>1. job'[w].at = "resolved" /\ job'[w].result = answer
                  /\ job'[w].context = (answer = "READY")
                BY <3>2 DEF WithResult
            <4> QED BY <4>1 DEF JobRouted
        <3> QED BY <2>1, <3>1, <3>2
    <2> QED BY <1>1, <1>17, <2>2 DEF FetchContext, Hang, Goto, TypeInv, adminVars
<1>6. ASSUME NEW w \in Workers, Trouble(w) PROVE RoutedInv'
    <2>1. JobRouted(w)'
        BY <1>6 DEF Trouble, WithResult, Goto, TypeInv, JobRouted
    <2> QED BY <1>1, <1>6, <2>1 DEF Trouble, Goto, TypeInv, adminVars
<1>7. ASSUME NEW w \in Workers, SaveRead(w) PROVE RoutedInv'
    <2>1. /\ job[w].at = "resolved" /\ job[w].row \in Trips /\ JobRouted(w)
          /\ RowRouted(job[w].row) /\ UNCHANGED trip
        BY <1>7, JobFields DEF SaveRead, RoutedInv
    <2>2. JobRouted(w)'
        <3>1. CASE HasToken(w, job[w].row)
            <4>1. job'[w] = [at |-> "saving", queue |-> job[w].queue, row |-> job[w].row,
                             result |-> job[w].result, context |-> job[w].context,
                             read |-> enr[job[w].row], readRoute |-> trip[job[w].row].route]
                BY <1>7, <3>1 DEF SaveRead, Goto, TypeInv
            <4> QED BY <2>1, <4>1 DEF JobRouted, RowRouted, Routed
        <3>2. CASE ~HasToken(w, job[w].row)
            <4>1. job'[w] = Rest(w)
                BY <1>7, <3>2 DEF SaveRead, Goto, TypeInv
            <4> QED BY <4>1 DEF Rest, JobRouted
        <3> QED BY <3>1, <3>2
    <2> QED BY <1>1, <1>7, <2>2 DEF SaveRead, Goto, TypeInv, adminVars
<1>8. ASSUME NEW w \in Workers, Claim(w) PROVE RoutedInv'
    <2>1. PICK batch \in SUBSET {t \in Trips : Claimable(t)} :
             /\ enr' = [t \in Trips |->
                          IF t \in batch THEN [enr[t] EXCEPT !.status = "RUNNING", !.token = w]
                                         ELSE Retire(w, enr)[t]]
             /\ job' = [job EXCEPT ![w] = [at |-> "next", queue |-> batch]]
        BY <1>8 DEF Claim
    <2>2. ASSUME NEW t \in Trips PROVE RowRouted(t)'
        <3>1. enr'[t].route = enr[t].route /\ enr'[t].status \in {"RUNNING", enr[t].status}
            <4>1. CASE t \in batch
                <5>1. enr'[t] = [enr[t] EXCEPT !.status = "RUNNING", !.token = w] /\ enr[t] \in EnrRows
                    BY <2>1, <4>1 DEF TypeInv
                <5> QED BY <5>1 DEF EnrRows
            <4>2. CASE t \notin batch
                <5>1. enr'[t] = Retire(w, enr)[t]
                    BY <2>1, <4>2
                <5> QED BY <5>1, RetireFields
            <4> QED BY <4>1, <4>2
        <3> QED BY <1>0, <3>1 DEF RoutedInv, RowRouted, Routed
    <2> QED BY <1>2, <1>8, <2>1, <2>2 DEF Claim, TypeInv, adminVars
<1>9. ASSUME NEW w \in Workers, EndOfBatch(w) \/ Crash(w) PROVE RoutedInv'
    <2>1. /\ job' = [job EXCEPT ![w] = Idle] /\ enr' = Retire(w, enr) /\ UNCHANGED <<admin, requeue>>
        BY <1>9 DEF EndOfBatch, Crash, Goto, adminVars
    <2>2. \A t \in Trips : RowRouted(t)'
        BY <1>0, <2>1, Retired DEF RoutedInv, RowRouted, Routed
    <2>3. \A v \in Workers : job'[v] = job[v] \/ job'[v].at = "idle"
        BY <2>1 DEF TypeInv, Idle
    <2> QED BY <1>2, <2>1, <2>2, <2>3
<1>10. ASSUME NEW w \in Workers, SaveWrite(w) PROVE RoutedInv'
    <2>1. PICK t \in Trips : t = job[w].row /\ job[w].at = "saving"
        BY <1>10, JobFields DEF SaveWrite
    <2>2. WriteEnr(t, job[w].read, Outcome(w)) /\ job[w].read \in EnrRows /\ JobRouted(w)
        BY <1>10, <2>1, JobFields DEF SaveWrite, RoutedInv
    <2>3. /\ \A u \in Trips \ {t} : enr'[u] = enr[u]
          /\ enr'[t].status \in {enr[t].status, Outcome(w).status}
          /\ enr'[t].route \in {enr[t].route, Outcome(w).route}
        BY <2>1, <2>2, OutcomeIsRow, WriteEnrFields
    <2>4. job[w].context => Routed(t)'
        BY <1>0, <1>10, <2>1, <2>2 DEF SaveWrite, JobRouted, Routed, NoRoute, TypeInv, TripRows
    <2>5. job[w].result = "READY" => Routed(t)'
        BY <1>0, <2>1, <2>2, <2>4 DEF JobRouted, Routed
    <2>6. Outcome(w).status = "READY" \/ Outcome(w).route = "READY" => Routed(t)'
        BY <1>0, <2>1, <2>2, <2>5, OutcomeIsRow DEF JobRouted, Routed
    <2>7. \A u \in Trips : RowRouted(u)'
        BY <1>0, <2>3, <2>6 DEF RoutedInv, RowRouted, Routed
    <2>8. \A v \in Workers : job'[v] = job[v] \/ job'[v].at = "next"
        BY <1>10 DEF SaveWrite, Goto, Rest, TypeInv
    <2> QED BY <1>2, <1>10, <2>7, <2>8 DEF SaveWrite, adminVars
<1>11. ASSUME NEW t \in Trips, NEW op \in Ops, AdminRead(t, op) PROVE RoutedInv'
    <2>1. admin'[t].op = op /\ (op = "approve" => Routed(t)) /\ UNCHANGED <<trip, enr, job, requeue>>
        BY <1>11 DEF AdminRead, Allowed, Complete, Routed, TypeInv
    <2>2. RowRouted(t)' /\ RequestsRouted(t)'
        BY <2>1 DEF RoutedInv, RowRouted, RequestsRouted, Routed
    <2> QED BY <1>3, <1>11, <2>1, <2>2 DEF AdminRead, TypeInv
<1>12. ASSUME NEW t \in Trips, AdminWrite(t) PROVE RoutedInv'
    <2>1. admin[t] \in [op: Ops, read: EnrRows] /\ UNCHANGED <<job, requeue>>
          /\ admin' = [admin EXCEPT ![t] = NoRequest]
        BY <1>12 DEF AdminWrite, TypeInv, NoRequest
    <2>0. PICK route \in RoutesAfter(admin[t].op, t) :
             /\ trip' = [trip EXCEPT ![t] = [status |-> StatusAfter(admin[t].op, t), route |-> route,
                                            version |-> Bump(t)]]
             /\ IF admin[t].op \in {"approve", "edit"}
                THEN WriteEnr(t, admin[t].read, Synchronized(admin[t].read, route # NoRoute))
                ELSE UNCHANGED <<enr, lease>>
        BY <1>12 DEF AdminWrite
    <2>4. Routed(t)' <=> route # NoRoute
        BY <1>12, <2>0, <2>1, TripFields DEF Routed, BoundsInv, AdminWrite
    <2>2. RowRouted(t)' /\ \A u \in Trips \ {t} : enr'[u] = enr[u]
        <3>1. CASE admin[t].op \in {"approve", "edit"}
            <4> DEFINE new == Synchronized(admin[t].read, route # NoRoute)
            <4>1. new \in EnrRows /\ admin[t].read \in EnrRows
                  /\ (route = NoRoute => new.status = "PENDING" /\ new.route = "PENDING")
                BY <2>1, WrittenIsRow
            <4>2. WriteEnr(t, admin[t].read, new)
                BY <2>0, <3>1
            <4> HIDE DEF new
            <4>3. /\ \A u \in Trips \ {t} : enr'[u] = enr[u]
                  /\ enr'[t].status \in {enr[t].status, new.status}
                  /\ enr'[t].route \in {enr[t].route, new.route}
                BY <4>1, <4>2, WriteEnrFields
            <4>4. CASE route # NoRoute
                BY <2>4, <4>3, <4>4 DEF RowRouted
            <4>5. CASE route = NoRoute
                BY <1>0, <2>4, <4>1, <4>3, <4>5 DEF RoutedInv, RowRouted, Routed
            <4> QED BY <4>3, <4>4, <4>5
        <3>2. CASE admin[t].op \notin {"approve", "edit"}
            BY <1>0, <2>0, <3>2 DEF RoutedInv, RowRouted, Routed
        <3> QED BY <3>1, <3>2
    <2>3. RequestsRouted(t)'
        BY <1>0, <2>1 DEF RoutedInv, RequestsRouted, Routed, TypeInv, NoRequest
    <2> QED BY <1>3, <2>1, <2>2, <2>3 DEF TypeInv
<1>13. ASSUME NEW t \in Trips, RequeueRead(t) PROVE RoutedInv'
    <2>1. requeue'[t].routed = (trip[t].route # NoRoute) /\ UNCHANGED <<trip, enr, job, admin>>
        BY <1>13 DEF RequeueRead, TypeInv
    <2>2. RowRouted(t)' /\ RequestsRouted(t)'
        BY <2>1 DEF RoutedInv, RowRouted, RequestsRouted, Routed
    <2> QED BY <1>3, <1>13, <2>1, <2>2 DEF RequeueRead, TypeInv
<1>14. ASSUME NEW t \in Trips, RequeueWrite(t) PROVE RoutedInv'
    <2>1. requeue[t] \in [op: {"requeue"}, read: EnrRows, routed: BOOLEAN]
        BY <1>14 DEF RequeueWrite, TypeInv, NoRequest
    <2> DEFINE read == requeue[t].read
               new == Requeued(read, requeue[t].routed)
    <2>2. new \in EnrRows /\ read \in EnrRows /\ WriteEnr(t, read, new)
        BY <1>14, <2>1, WrittenIsRow DEF RequeueWrite
    <2>3. new.status = "PENDING" /\ (new.route = "READY" => Routed(t))
        BY <1>14 DEF Requeued, RequeueWrite, RoutedInv, RequestsRouted
    <2> HIDE DEF new, read
    <2>4. /\ \A u \in Trips \ {t} : enr'[u] = enr[u]
          /\ enr'[t].status \in {"PENDING", enr[t].status} /\ enr'[t].route \in {new.route, enr[t].route}
        BY <2>2, <2>3, WriteEnrFields
    <2>5. RowRouted(t)'
        BY <1>0, <2>3, <2>4 DEF RoutedInv, RowRouted, Routed
    <2>6. RequestsRouted(t)'
        BY <1>0, <1>14 DEF RequeueWrite, RoutedInv, RequestsRouted, Routed, TypeInv, NoRequest
    <2> QED BY <1>3, <1>14, <2>4, <2>5, <2>6 DEF RequeueWrite, TypeInv
<1>15. CASE Outage \/ Recovery \/ UNCHANGED vars
    <2>1. UNCHANGED <<trip, enr, job, admin, requeue>>
        BY <1>15 DEF Outage, Recovery, vars, adminVars
    <2> QED BY <2>1 DEF RoutedInv, RowRouted, RequestsRouted, JobRouted, Routed
<1>18. ASSUME NEW t \in Trips, AdminAbort(t) PROVE RoutedInv'
    <2>1. UNCHANGED <<trip, enr, job, requeue>> /\ admin' = [admin EXCEPT ![t] = NoRequest]
        BY <1>18 DEF AdminAbort
    <2>2. RowRouted(t)' /\ RequestsRouted(t)'
        BY <2>1 DEF RoutedInv, RowRouted, RequestsRouted, Routed, TypeInv, NoRequest
    <2> QED BY <1>3, <2>1, <2>2 DEF TypeInv
<1>16. CASE Tick
    <2>1. ASSUME NEW t \in Trips PROVE RowRouted(t)'
        <3>1. enr'[t] = [enr[t] EXCEPT !.retry = Less(@)] /\ enr[t] \in EnrRows
            BY <1>16 DEF Tick, TypeInv
        <3>2. enr'[t].status = enr[t].status /\ enr'[t].route = enr[t].route
            BY <3>1 DEF EnrRows
        <3> QED BY <1>0, <3>2 DEF RoutedInv, RowRouted, Routed
    <2> QED BY <1>2, <1>16, <2>1 DEF Tick, adminVars
<1> QED BY <1>4, <1>5, <1>6, <1>7, <1>8, <1>9, <1>10, <1>11, <1>12, <1>13, <1>14, <1>15, <1>16,
        <1>17, <1>18 DEF Next, WorkerStep, AdminStep

-----------------------------------------------------------------------------
(* Claims.                                                                 *)

\* Interference is never taken back.
LEMMA CalmBefore ==
    ASSUME TypeInv, BoundsInv, [Next]_vars, Calm'
    PROVE  /\ Calm /\ requeues' = requeues /\ lates' = lates
           /\ \A t \in Trips : ~AdminWrite(t) /\ ~RequeueRead(t)
<1>1. /\ lates \in Nat /\ requeues \in Nat /\ lates' = 0 /\ requeues' = 0
      /\ \A t \in Trips : trip'[t].version = 1 /\ trip[t].version \in Nat \ {0}
    BY EnrichmentAssumption DEF TypeInv, TripRows, Calm
<1>2. ASSUME NEW t \in Trips, AdminWrite(t) PROVE FALSE
    <2>1. admin[t].op \in Ops /\ trip[t].version < MaxVersion
        BY <1>2 DEF AdminWrite, TypeInv, BoundsInv, NoRequest
    <2>2. PICK route \in RoutesAfter(admin[t].op, t) :
             trip' = [trip EXCEPT ![t] = [status |-> StatusAfter(admin[t].op, t), route |-> route,
                                          version |-> Bump(t)]]
        BY <1>2 DEF AdminWrite
    <2>3. trip'[t].version = trip[t].version + 1
        BY <2>1, <2>2, TripFields
    <2> QED BY <1>1, <2>3
<1>3. ASSUME NEW t \in Trips, RequeueRead(t) PROVE FALSE
    BY <1>1, <1>3 DEF RequeueRead
<1>4. requeues' = requeues
    BY <1>1, <1>3 DEF Next, vars, adminVars, WorkerStep, AdminStep, Claim, Load, Resolve, FetchContext, Hang, Trouble,
       SaveRead, SaveWrite, EndOfBatch, Crash, AdminRead, AdminAbort, AdminWrite, RequeueWrite, Outage, Recovery, Tick
<1>5. lates' = lates
    <2>1. CASE Tick
        BY <1>1, <2>1 DEF Tick
    <2> QED BY <2>1 DEF Next, vars, adminVars, WorkerStep, AdminStep, Claim, Load, Resolve, FetchContext, Hang, Trouble,
       SaveRead, SaveWrite, EndOfBatch, Crash, AdminRead, AdminAbort, AdminWrite, RequeueRead, RequeueWrite,
       Outage, Recovery
<1>6. ASSUME NEW t \in Trips PROVE trip'[t].version = trip[t].version
    <2>1. ASSUME NEW w \in Workers, SaveWrite(w) PROVE trip'[t].version = trip[t].version
        <3>1. trip' = trip \/ trip' = [trip EXCEPT ![job[w].row].route = "resolved"]
            BY <2>1 DEF SaveWrite
        <3> QED BY <3>1 DEF TypeInv, TripRows
    <2> QED BY <1>2, <2>1 DEF Next, vars, adminVars, WorkerStep, AdminStep, Claim, Load, Resolve,
            FetchContext, Hang, Trouble, SaveRead, EndOfBatch, Crash, AdminRead, AdminAbort, RequeueRead, RequeueWrite,
            Outage, Recovery, Tick
<1> QED BY <1>1, <1>2, <1>3, <1>4, <1>5, <1>6 DEF Calm

LEMMA ClaimsStep ==
    ASSUME TypeInv, BoundsInv, ClaimsInv, [Next]_vars
    PROVE  ClaimsInv'
<1> SUFFICES ASSUME Calm'
             PROVE  (\A t \in Trips : requeue'[t].op = "none") /\ (\A w \in Workers : Holds(w)')
    BY DEF ClaimsInv
<1>1. /\ Calm /\ requeues' = requeues /\ lates' = lates
      /\ \A t \in Trips : ~AdminWrite(t) /\ ~RequeueRead(t)
    BY CalmBefore
<1>2. (\A t \in Trips : requeue[t].op = "none") /\ (\A w \in Workers : Holds(w))
    BY <1>1 DEF ClaimsInv
<1>3. ASSUME NEW t \in Trips PROVE ~RequeueWrite(t)
    BY <1>2, <1>3 DEF RequeueWrite
<1>4. \A t \in Trips : requeue'[t].op = "none"
    <2>1. UNCHANGED requeue
        BY <1>1, <1>3 DEF Next, vars, adminVars, WorkerStep, AdminStep, Claim, Load, Resolve, FetchContext, Hang, Trouble,
           SaveRead, SaveWrite, EndOfBatch, Crash, AdminRead, AdminAbort, Outage, Recovery, Tick
    <2> QED BY <1>2, <2>1
<1>5. ASSUME NEW w \in Workers, Holds(w)', NEW v \in Workers \ {w},
             job'[v] = job[v],
             \A t \in Working(v) : enr'[t].token = enr[t].token /\ enr'[t].status = enr[t].status
                                     /\ lease'[t] = lease[t]
      PROVE  Holds(v)'
    BY <1>2, <1>5 DEF Holds, Working, HasToken
<1>6. ASSUME NEW w \in Workers, Claim(w), NEW v \in Workers PROVE Holds(v)'
    <2>1. PICK batch \in SUBSET {t \in Trips : Claimable(t)} :
             /\ enr' = [t \in Trips |->
                          IF t \in batch THEN [enr[t] EXCEPT !.status = "RUNNING", !.token = w]
                                         ELSE Retire(w, enr)[t]]
             /\ lease' = [t \in Trips |-> IF t \in batch THEN ClaimTTL ELSE lease[t]]
             /\ job' = [job EXCEPT ![w] = [at |-> "next", queue |-> batch]]
        BY <1>6 DEF Claim
    <2>2. job'[w] = [at |-> "next", queue |-> batch] /\ (v # w => job'[v] = job[v])
        BY <2>1 DEF TypeInv
    <2>3. CASE v = w
        <3>1. Working(w)' = batch
            BY <2>2 DEF Working
        <3>2. ASSUME NEW t \in batch
              PROVE  enr'[t].token = w /\ enr'[t].status = "RUNNING" /\ lease'[t] > 0
            <4>1. t \in Trips /\ enr[t] \in EnrRows
                BY DEF TypeInv
            <4>2. enr'[t] = [enr[t] EXCEPT !.status = "RUNNING", !.token = w] /\ lease'[t] = ClaimTTL
                BY <2>1, <4>1
            <4> QED BY <4>1, <4>2, EnrichmentAssumption DEF EnrRows
        <3> QED BY <2>2, <2>3, <3>1, <3>2 DEF Holds, HasToken
    <2>4. CASE v # w
        <3>1. ASSUME NEW t \in Working(v)
              PROVE  /\ enr'[t].token = enr[t].token /\ enr'[t].status = enr[t].status
                     /\ lease'[t] = lease[t]
            <4>1. t \in Trips /\ enr[t].token = v /\ enr[t].status = "RUNNING" /\ lease[t] > 0
                BY <1>2, JobFields DEF Holds, HasToken
            <4>2. t \notin batch
                BY <4>1 DEF Claimable
            <4>3. enr'[t] = Retire(w, enr)[t] /\ lease'[t] = lease[t]
                BY <2>1, <4>1, <4>2
            <4> QED BY <2>4, <4>1, <4>3, RetireFields
        <3> QED BY <1>2, <2>2, <2>4, <3>1 DEF Holds, Working, HasToken
    <2> QED BY <2>3, <2>4
<1>7. ASSUME NEW w \in Workers, EndOfBatch(w) \/ Crash(w), NEW v \in Workers PROVE Holds(v)'
    <2>1. job' = [job EXCEPT ![w] = Idle] /\ enr' = Retire(w, enr) /\ UNCHANGED lease
        BY <1>7 DEF EndOfBatch, Crash, Goto
    <2>2. CASE v = w
        <3>1. job'[w] = Idle
            BY <2>1 DEF TypeInv
        <3> QED BY <2>2, <3>1 DEF Holds, Working, Idle
    <2>3. CASE v # w
        <3>1. ASSUME NEW t \in Working(v)
              PROVE  /\ enr'[t].token = enr[t].token /\ enr'[t].status = enr[t].status
            <4>1. t \in Trips /\ enr[t].token = v
                BY <1>2, JobFields DEF Holds, HasToken
            <4> QED BY <2>1, <2>3, <4>1, Retired
        <3> QED BY <1>2, <2>1, <2>3, <3>1 DEF Holds, Working, HasToken, TypeInv
    <2> QED BY <2>2, <2>3
<1>8. ASSUME NEW w \in Workers, UNCHANGED <<enr, lease>>, \A v \in Workers \ {w} : job'[v] = job[v],
             job'[w].at \in {"loaded", "asking", "resolved", "saving"} => job'[w].row \notin job'[w].queue,
             Working(w)' \subseteq Working(w), NEW v \in Workers
      PROVE  Holds(v)'
    <2>1. CASE v = w
        BY <1>2, <1>8, <2>1 DEF Holds, HasToken
    <2>2. CASE v # w
        BY <1>2, <1>8, <2>2 DEF Holds, HasToken, Working
    <2> QED BY <2>1, <2>2
<1>9. ASSUME NEW w \in Workers, Load(w), NEW v \in Workers PROVE Holds(v)'
    <2>1. PICK t \in job[w].queue :
             job' = [job EXCEPT ![w] =
                        IF HasToken(w, t)
                        THEN [at |-> "loaded", queue |-> job[w].queue \ {t}, row |-> t,
                              route |-> enr[t].route, routed |-> trip[t].route # NoRoute]
                        ELSE [at |-> "next", queue |-> job[w].queue \ {t}]]
        BY <1>9 DEF Load, Goto
    <2>2. job[w].at = "next" /\ Working(w) = job[w].queue /\ UNCHANGED <<enr, lease>>
        BY <1>9 DEF Load, Working
    <2>3. HasToken(w, t)
        BY <1>2, <2>2 DEF Holds
    <2>4. /\ job'[w] = [at |-> "loaded", queue |-> job[w].queue \ {t}, row |-> t,
                        route |-> enr[t].route, routed |-> trip[t].route # NoRoute]
          /\ \A u \in Workers \ {w} : job'[u] = job[u]
        BY <2>1, <2>3 DEF TypeInv
    <2>5. Working(w)' = job[w].queue
        BY <2>4 DEF Working
    <2> QED BY <1>8, <2>2, <2>4, <2>5
<1>10. ASSUME NEW w \in Workers,
              Resolve(w) \/ FetchContext(w) \/ Hang(w) \/ Trouble(w) \/ SaveRead(w), NEW v \in Workers
       PROVE  Holds(v)'
    <2>1. /\ \A u \in Workers \ {w} : job'[u] = job[u]
          /\ job'[w].queue = job[w].queue
          /\ \/ job'[w].at \in {"asking", "resolved", "saving"} /\ job'[w].row = job[w].row
             \/ job'[w].at \in {"next", "hung"}
        <3>1. CASE Resolve(w) \/ FetchContext(w) \/ Hang(w)
            <4>1. \/ job' = [job EXCEPT ![w] = Halfway(w, "asking")]
                  \/ job' = [job EXCEPT ![w] = Halfway(w, "hung")]
                  \/ \E result, context : job' = [job EXCEPT ![w] = WithResult(w, result, context)]
                BY <3>1 DEF Resolve, FetchContext, Hang, Goto
            <4> QED BY <4>1 DEF Halfway, WithResult, TypeInv
        <3>2. CASE Trouble(w)
            BY <3>2 DEF Trouble, WithResult, Goto, TypeInv
        <3>3. CASE SaveRead(w)
            <4>1. CASE HasToken(w, job[w].row)
                BY <3>3, <4>1 DEF SaveRead, Goto, TypeInv
            <4>2. CASE ~HasToken(w, job[w].row)
                BY <3>3, <4>2 DEF SaveRead, Goto, Rest, TypeInv
            <4> QED BY <4>1, <4>2
        <3> QED BY <1>10, <3>1, <3>2, <3>3
    <2>2. job[w].at \in {"loaded", "asking", "resolved"} /\ UNCHANGED <<enr, lease>>
        BY <1>10 DEF Resolve, FetchContext, Hang, Trouble, SaveRead
    <2>3. job[w].row \notin job[w].queue /\ Working(w) = job[w].queue \cup {job[w].row}
        BY <1>2, <2>2 DEF Holds, Working
    <2>4. Working(w)' \subseteq job[w].queue \cup {job[w].row}
        BY <2>1 DEF Working
    <2> QED BY <1>8, <2>1, <2>2, <2>3, <2>4
<1>11. ASSUME NEW w \in Workers, SaveWrite(w), NEW v \in Workers PROVE Holds(v)'
    <2>1. PICK t \in Trips : t = job[w].row /\ job[w].at = "saving"
        BY <1>11, JobFields DEF SaveWrite
    <2>2. WriteEnr(t, job[w].read, Outcome(w)) /\ job[w].read \in EnrRows
        BY <1>11, <2>1, JobFields DEF SaveWrite
    <2>3. \A u \in Trips \ {t} : enr'[u] = enr[u] /\ lease'[u] = lease[u]
        BY <2>1, <2>2, OutcomeIsRow, WriteEnrFields
    <2>4. Working(w) = job[w].queue \cup {t} /\ t \notin job[w].queue
        BY <1>2, <2>1 DEF Working, Holds
    <2>5. job'[w] = [at |-> "next", queue |-> job[w].queue] /\ \A u \in Workers \ {w} : job'[u] = job[u]
        BY <1>11 DEF SaveWrite, Goto, Rest, TypeInv
    <2>6. CASE v = w
        <3>1. Working(w)' = job[w].queue
            BY <2>5 DEF Working
        <3>2. \A u \in job[w].queue : u \in Trips \ {t} /\ u \in Working(w)
            BY <2>4, JobFields
        <3> QED BY <1>2, <2>3, <2>5, <2>6, <3>1, <3>2 DEF Holds, HasToken
    <2>7. CASE v # w
        <3>1. enr[t].token = w
            BY <1>2, <2>4 DEF Holds, HasToken
        <3>2. \A u \in Working(v) : u \in Trips \ {t}
            BY <1>2, <2>7, <3>1, JobFields DEF Holds, HasToken
        <3> QED BY <1>2, <2>3, <2>5, <2>7, <3>2 DEF Holds, HasToken, Working
    <2> QED BY <2>6, <2>7
<1>12. ASSUME Tick, NEW v \in Workers PROVE Holds(v)'
    <2>1. InTime /\ UNCHANGED job
        <3>1. lates' = IF InTime THEN lates ELSE lates + 1
            BY <1>12 DEF Tick
        <3>2. lates = 0
            BY <1>1 DEF Calm
        <3> QED BY <1>1, <1>12, <3>1, <3>2 DEF Tick
    <2>2. ASSUME NEW t \in Working(v)
          PROVE  enr'[t].token = v /\ enr'[t].status = "RUNNING" /\ lease'[t] > 0
        <3>1. t \in Trips /\ enr[t].token = v /\ enr[t].status = "RUNNING"
            BY <1>2, JobFields DEF Holds, HasToken
        <3>2. lease[t] > 1 /\ lease[t] \in Int
            BY <2>1, <3>1 DEF InTime, HasToken, TypeInv
        <3>3. /\ enr'[t] = [enr[t] EXCEPT !.retry = Less(@)] /\ enr[t] \in EnrRows
              /\ lease'[t] = Less(lease[t])
            BY <1>12, <3>1 DEF Tick, TypeInv
        <3> QED BY <3>1, <3>2, <3>3 DEF EnrRows, Less
    <2> QED BY <1>2, <2>1, <2>2 DEF Holds, Working, HasToken
<1>13. ASSUME UNCHANGED <<job, enr, lease>>, NEW v \in Workers PROVE Holds(v)'
    BY <1>2, <1>13 DEF Holds, Working, HasToken
<1>14. ASSUME NEW v \in Workers PROVE Holds(v)'
    <2>1. CASE \E w \in Workers : WorkerStep(w) \/ Trouble(w) \/ Hang(w) \/ Crash(w)
        BY <1>6, <1>7, <1>9, <1>10, <1>11, <2>1 DEF WorkerStep
    <2>2. CASE \E t \in Trips : AdminStep(t)
        BY <1>1, <1>3, <1>13, <2>2 DEF AdminStep, AdminRead, AdminAbort
    <2>3. CASE Outage \/ Recovery \/ UNCHANGED vars
        BY <1>13, <2>3 DEF Outage, Recovery, vars
    <2> QED BY <1>12, <2>1, <2>2, <2>3 DEF Next
<1> QED BY <1>4, <1>14

-----------------------------------------------------------------------------
THEOREM Invariant == Spec => []IInv
<1>1. ASSUME IInv, [Next]_vars PROVE IInv'
    BY <1>1, TypeStep, RoutedStep, ClaimsStep DEF IInv
<1> QED BY <1>1, TypeInit, PTL DEF Spec

\* Every row keeps within its columns: the attempts never pass the maximum of the worker,
\* the lease never its TTL, and the version never the bound of the model.
THEOREM TypeCorrect == Spec => []TypeOK
<1>1. IInv => TypeOK
    <2> SUFFICES ASSUME TypeInv PROVE TypeOK
        BY DEF IInv
    <2>1. \A w \in Workers : job[w].at \in {"idle", "next", "loaded", "asking", "resolved", "saving", "hung"}
        BY JobFields DEF Idle
    <2>2. \A t \in Trips : admin[t].op \in Ops \cup {"none"} /\ requeue[t].op \in {"requeue", "none"}
        BY DEF TypeInv, NoRequest
    <2> QED BY <2>1, <2>2 DEF TypeInv, TypeOK
<1> QED BY <1>1, Invariant, PTL

\* READY is never reported for a trip without a route, however the ORM's partial updates
\* of worker, approval, editor and retry endpoint fall over each other.
THEOREM ReadyRouted == Spec => []ReadyHasRoute
<1>1. IInv => ReadyHasRoute
    BY DEF IInv, RoutedInv, RowRouted, Routed, ReadyHasRoute
<1> QED BY <1>1, Invariant, PTL

\* SKIP LOCKED, the claim token and a lease that outlasts the work keep a row to one
\* worker until an administrator or the retry endpoint touches it.
THEOREM OneWorker == Spec => []OneWorkerPerRow
<1>1. IInv => OneWorkerPerRow
    BY DEF IInv, ClaimsInv, Calm, Holds, HasToken, OneWorkerPerRow
<1> QED BY <1>1, Invariant, PTL

-----------------------------------------------------------------------------
(* Points and pairs.                                                       *)

Rows ==
    [status: Live \cup {"SOFT_DELETED"}, from: Points, to: Points, profile: Profiles,
     active: Nat, pending: Nat]

Creating ==
    [op: {"create"}, at: {"origin", "points"}, from: Points, to: Points, met: BOOLEAN]
    \cup [op: {"create"}, at: {"unique"}, from: Points, to: Points, profile: Profiles, met: BOOLEAN]
Changing == [op: {"profile"}, at: {"loaded", "unique"}, pair: Pairs, profile: Profiles]
Deciding ==
    [op: {"approve", "discard"}, at: {"loaded"}, pair: Pairs, met: BOOLEAN, status: Live, pending: Nat]
Deactivating == [op: {"deactivate"}, at: {"loaded", "checked"}, point: Points]

Found == [pair: Pairs, version: Nat]
Resolving ==
    [op: {"resolve"}, at: {"origin", "points"}, from: Points, to: Points]
    \cup [op: {"resolve"}, at: {"candidates"}, from: Points, left: SUBSET Found, kept: SUBSET Found]
    \cup [op: {"slip", "enrich"}, at: {"resolved"}, from: Points, pair: Pairs \cup {Nothing}]
Asking ==
    [op: {"context", "slip", "enrich"}, at: {"pair", "forward"}, pair: Pairs,
     from: Points \cup {Nothing}, way: Points, version: Nat, forward: Nat]
    \cup [op: {"context", "slip", "enrich"}, at: {"answered"}, pair: Pairs,
          asked: Points \cup {Nothing}, from: Points, forward: Nat, reverse: Nat]

States == {Free} \cup Creating \cup Changing \cup Deciding \cup Deactivating \cup Resolving \cup Asking

NetworkTypes ==
    /\ point \in [Points -> PointStates]
    /\ pair \in [Pairs -> Rows \cup {NoPair}]
    /\ drafts \in [Pairs -> Versions]
    /\ request \in [Requests -> States]
    /\ raced \subseteq Pairs
    /\ \A q \in Requests : request[q].op \in {"approve", "discard", "profile"} => Exists(request[q].pair)

EndsActive(n) == point[pair[n].from] = "active" /\ point[pair[n].to] = "active"

\* A creation that no deactivation has met still stands on active points.
CreationsSeeTruth ==
    \A q \in Requests : (request[q].op = "create" /\ ~request[q].met) =>
        /\ point[request[q].from] = "active"
        /\ request[q].at # "origin" => point[request[q].to] = "active"

\* So does an approval, unless its pair had been raced before.
ApprovalsSeeTruth ==
    \A q \in Requests : (request[q].op = "approve" /\ ~request[q].met) =>
        request[q].pair \in raced \/ EndsActive(request[q].pair)

\* A pair that has become live under a deactivation is known as raced.
ChecksSeeTruth ==
    \A q \in Requests : Is(q, "deactivate", "checked") =>
        \A n \in Pairs : (Touches(n, request[q].point) /\ IsLive(n)) => n \in raced

NetworkInv == NetworkTypes /\ CreationsSeeTruth /\ ApprovalsSeeTruth /\ ChecksSeeTruth /\ InactiveOnlyByRace

-----------------------------------------------------------------------------
(* Types.                                                                  *)

LEMMA InitInv == NetworkInit => NetworkInv
<1> SUFFICES ASSUME NetworkInit PROVE NetworkInv
    OBVIOUS
<1>1. <<>> \in Versions
    BY DEF Versions
<1>2. NetworkTypes
    BY <1>1 DEF NetworkInit, NetworkTypes, PointStates, States, Free, Exists
<1>3. InactiveOnlyByRace
    BY DEF NetworkInit, InactiveOnlyByRace, Exists
<1> QED BY <1>2, <1>3 DEF NetworkInit, NetworkInv, CreationsSeeTruth, ApprovalsSeeTruth, ChecksSeeTruth, Is, Free

\* A row that exists has the fields of one.
LEMMA RowFields ==
    ASSUME NetworkTypes, NEW n \in Pairs, Exists(n)
    PROVE  pair[n] \in Rows
BY DEF NetworkTypes, Exists

\* What a request may be, by what it does.
LEMMA RequestFields ==
    ASSUME NetworkTypes, NEW q \in Requests
    PROVE  /\ request[q] \in States
           /\ request[q].op = "idle" => request[q] = Free
           /\ request[q].op = "create" => request[q] \in Creating
           /\ request[q].op = "profile" => request[q] \in Changing
           /\ request[q].op \in {"approve", "discard"} => request[q] \in Deciding
           /\ request[q].op = "deactivate" => request[q] \in Deactivating
           /\ request[q].op = "resolve" => request[q] \in Resolving
           /\ request[q].op \in Readers => request[q] \in Resolving \cup Asking
           /\ request[q].op = "context" => request[q] \in Asking
BY DEF NetworkTypes, States, Free, Creating, Changing, Deciding, Deactivating, Resolving, Asking, Readers

\* Requests keep their type, and pairs their ends; a pair that exists goes on existing.
Kept ==
    /\ \A n \in Pairs : Exists(n) =>
          Exists(n)' /\ pair'[n].from = pair[n].from /\ pair'[n].to = pair[n].to
    /\ raced \subseteq raced'

LEMMA PutTyped ==
    ASSUME NetworkTypes, NEW q \in Requests, NEW r \in States, Put(q, r)
    PROVE  /\ request' \in [Requests -> States]
           /\ request'[q] = r
           /\ \A p \in Requests \ {q} : request'[p] = request[p]
BY DEF NetworkTypes, Put

\* A step of one request that writes no row.
LEMMA OnlyRequest ==
    ASSUME NetworkTypes, NEW q \in Requests, NEW r \in States, Put(q, r),
           UNCHANGED <<point, pair, drafts, raced>>,
           r.op \in {"approve", "discard", "profile"} => Exists(r.pair)
    PROVE  NetworkTypes'
BY PutTyped DEF NetworkTypes, Exists

\* Requests go on as they were, or end.
GoOnOrEnd ==
    /\ request' \in [Requests -> States]
    /\ \A p \in Requests : request'[p] = request[p] \/ request'[p] = Free

LEMMA EndOrStay ==
    ASSUME NetworkTypes, request' = request \/ \E q \in Requests : Put(q, Free)
    PROVE  GoOnOrEnd
<1>1. Free \in States
    BY DEF States
<1> QED BY <1>1, PutTyped DEF GoOnOrEnd, NetworkTypes

\* A row is written that leaves the pair its ends.
Writes(n, row) ==
    /\ pair' = [pair EXCEPT ![n] = row]
    /\ Exists(n) => row.from = pair[n].from /\ row.to = pair[n].to
    /\ point' = point
    /\ drafts' \in [Pairs -> Versions]
    /\ raced \subseteq raced' /\ raced' \subseteq raced \cup {n}

LEMMA WritesPair ==
    ASSUME NetworkTypes, GoOnOrEnd, NEW n \in Pairs, NEW row \in Rows, Writes(n, row)
    PROVE  NetworkTypes' /\ Kept /\ Exists(n)' /\ pair'[n] = row /\ \A m \in Pairs \ {n} : pair'[m] = pair[m]
<1>3. row # NoPair
    BY DEF Rows, NoPair, Live
<1>4. pair' \in [Pairs -> Rows \cup {NoPair}] /\ pair'[n] = row /\ \A m \in Pairs \ {n} : pair'[m] = pair[m]
    BY DEF NetworkTypes, Writes
<1>5. \A m \in Pairs : Exists(m) => Exists(m)' /\ pair'[m].from = pair[m].from /\ pair'[m].to = pair[m].to
    BY <1>3 DEF NetworkTypes, Exists, Writes
<1>6. \A p \in Requests : request'[p].op \in {"approve", "discard", "profile"} => pair'[request'[p].pair] # NoPair
    <2> SUFFICES ASSUME NEW p \in Requests, request'[p].op \in {"approve", "discard", "profile"}
                 PROVE  pair'[request'[p].pair] # NoPair
        OBVIOUS
    <2>1. request'[p] = request[p]
        BY DEF GoOnOrEnd, Free
    <2>2. request[p] \in Changing \cup Deciding /\ Exists(request[p].pair)
        BY <2>1, RequestFields DEF NetworkTypes
    <2>3. request[p].pair \in Pairs
        BY <2>2 DEF Changing, Deciding
    <2> QED BY <1>5, <2>1, <2>2, <2>3 DEF Exists
<1>8. raced' \subseteq Pairs
    BY DEF NetworkTypes, Writes
<1> QED BY <1>3, <1>4, <1>5, <1>6, <1>8 DEF NetworkTypes, Kept, Exists, GoOnOrEnd, Writes

-----------------------------------------------------------------------------
(* Readers.                                                                *)

LEMMA ReaderType ==
    ASSUME NetworkTypes, NEW q \in Requests, ReaderStep(q)
    PROVE  /\ UNCHANGED <<point, pair, drafts, raced>>
           /\ request' = [request EXCEPT ![q] = request'[q]]
           /\ request'[q] \in Resolving \cup Asking
<1>0. request \in [Requests -> States]
    BY DEF NetworkTypes
<1>1. CASE FindDestination(q)
    BY <1>0, <1>1, RequestFields DEF FindDestination, Is, GoOn, Put, Resolving
<1>2. CASE CollectCandidates(q)
    <2>1. PICK f \in Profiles :
             Put(q, [op |-> "resolve", at |-> "candidates", from |-> request[q].from,
                     left |-> Candidates(request[q].from, request[q].to, f), kept |-> {}])
        BY <1>2 DEF CollectCandidates
    <2>2. Candidates(request[q].from, request[q].to, f) \subseteq Found
        BY RowFields DEF Candidates, Joining, Found, Rows, NetworkTypes
    <2>3. request[q].from \in Points
        BY <1>2, RequestFields DEF CollectCandidates, Is, Resolving
    <2> QED BY <1>0, <1>2, <2>1, <2>2, <2>3 DEF CollectCandidates, Put, Resolving
<1>3. CASE LookUpCandidate(q)
    <2>1. PICK c \in request[q].left :
             Put(q, [request[q] EXCEPT !.left = @ \ {c},
                        !.kept = IF ActiveVersion(c.pair, c.version) = {} THEN @ ELSE @ \cup {c}])
        BY <1>3 DEF LookUpCandidate
    <2>2. request[q] \in [op: {"resolve"}, at: {"candidates"}, from: Points, left: SUBSET Found, kept: SUBSET Found]
        BY <1>3, RequestFields DEF LookUpCandidate, Is, Resolving
    <2>3. c \in Found
        BY <2>2
    <2>4. [request[q] EXCEPT !.left = @ \ {c},
              !.kept = IF ActiveVersion(c.pair, c.version) = {} THEN @ ELSE @ \cup {c}]
            \in [op: {"resolve"}, at: {"candidates"}, from: Points, left: SUBSET Found, kept: SUBSET Found]
        BY <2>2, <2>3
    <2> QED BY <1>0, <1>3, <2>1, <2>4 DEF LookUpCandidate, Put, Resolving
<1>4. CASE Resolved(q)
    <2>1. request[q] \in [op: {"resolve"}, at: {"candidates"}, from: Points, left: SUBSET Found, kept: SUBSET Found]
        BY <1>4, RequestFields DEF Resolved, Is, Resolving
    <2>2. request[q].kept # {}
        BY <1>4, FS_EmptySet DEF Resolved
    <2>3. (CHOOSE k \in request[q].kept : TRUE).pair \in Pairs
        BY <2>1, <2>2 DEF Found
    <2> QED BY <1>0, <1>4, <2>1, <2>3 DEF Resolved, Put, Resolving
<1>5. CASE ReadForward(q)
    <2>1. PICK v \in ActiveVersion(request[q].pair, request[q].version) :
             Put(q, [request[q] EXCEPT !.at = "forward", !.forward = v])
        BY <1>5 DEF ReadForward
    <2>2. request[q] \in [op: {"context", "slip", "enrich"}, at: {"pair", "forward"}, pair: Pairs,
                          from: Points \cup {Nothing}, way: Points, version: Nat, forward: Nat]
        BY <1>5, RequestFields DEF ReadForward, Resolving, Asking
    <2>3. v \in Nat
        BY <2>1, <2>2 DEF ActiveVersion
    <2> QED BY <1>0, <1>5, <2>1, <2>2, <2>3 DEF ReadForward, Put, Asking
<1>6. CASE ReadReverse(q)
    <2>1. PICK v \in ActiveVersion(request[q].pair, request[q].version) :
             Put(q, [op |-> request[q].op, at |-> "answered", pair |-> request[q].pair, asked |-> request[q].from,
                     from |-> request[q].way, forward |-> request[q].forward, reverse |-> v])
        BY <1>6 DEF ReadReverse
    <2>2. request[q] \in [op: {"context", "slip", "enrich"}, at: {"pair", "forward"}, pair: Pairs,
                          from: Points \cup {Nothing}, way: Points, version: Nat, forward: Nat]
        BY <1>6, RequestFields DEF ReadReverse, Resolving, Asking
    <2>3. v \in Nat
        BY <2>1, <2>2 DEF ActiveVersion
    <2> QED BY <1>0, <1>6, <2>1, <2>2, <2>3 DEF ReadReverse, Put, Asking
<1> QED BY <1>1, <1>2, <1>3, <1>4, <1>5, <1>6 DEF ReaderStep

-----------------------------------------------------------------------------
(* Steps that change requests, and steps that write a pair.                *)

\* What a request may become without telling an untruth.
Truthful(r) ==
    /\ r \in States
    /\ r.op \in {"approve", "discard", "profile"} => Exists(r.pair)
    /\ (r.op = "create" /\ ~r.met) =>
          /\ point[r.from] = "active"
          /\ r.at # "origin" => point[r.to] = "active"
    /\ (r.op = "approve" /\ ~r.met) => r.pair \in raced \/ EndsActive(r.pair)
    /\ (r.op = "deactivate" /\ r.at = "checked") =>
          \A n \in Pairs : (Touches(n, r.point) /\ IsLive(n)) => n \in raced

LEMMA RequestStep ==
    ASSUME NetworkInv, NEW q \in Requests, NEW r, Truthful(r), Put(q, r),
           UNCHANGED <<point, pair, drafts, raced>>
    PROVE  NetworkInv'
<1>1. NetworkTypes'
    BY OnlyRequest DEF NetworkInv, Truthful
<1>2. request'[q] = r /\ \A p \in Requests \ {q} : request'[p] = request[p]
    BY PutTyped DEF NetworkInv, Truthful
<1>3. CreationsSeeTruth'
    BY <1>2 DEF NetworkInv, CreationsSeeTruth, Truthful
<1>4. ApprovalsSeeTruth'
    BY <1>2 DEF NetworkInv, ApprovalsSeeTruth, Truthful, EndsActive
<1>5. ChecksSeeTruth'
    BY <1>2 DEF NetworkInv, ChecksSeeTruth, Truthful, Is, Touches, IsLive, Exists
<1>6. InactiveOnlyByRace'
    BY DEF NetworkInv, InactiveOnlyByRace, Exists, IsLive
<1> QED BY <1>1, <1>3, <1>4, <1>5, <1>6 DEF NetworkInv

\* The two obligations of a step that makes a pair live.
LEMMA PairStep ==
    ASSUME NetworkInv, GoOnOrEnd, NEW n \in Pairs, NEW row \in Rows, Writes(n, row),
           (row.status \in Live /\ ~(Exists(n) /\ IsLive(n))) =>
              /\ n \in raced' \/ (point[row.from] = "active" /\ point[row.to] = "active")
              /\ \A q \in Requests : (Is(q, "deactivate", "checked") /\ request[q].point \in {row.from, row.to})
                    => n \in raced'
    PROVE  NetworkInv'
<1>1. /\ NetworkTypes' /\ Kept /\ Exists(n)' /\ pair'[n] = row
      /\ \A m \in Pairs \ {n} : pair'[m] = pair[m]
    BY WritesPair DEF NetworkInv
<1>2. point' = point /\ raced \subseteq raced'
    BY DEF Writes
<1>3. Exists(n) => row.from = pair[n].from /\ row.to = pair[n].to
    BY DEF Writes
<1>4. CreationsSeeTruth'
    BY <1>2 DEF NetworkInv, CreationsSeeTruth, GoOnOrEnd, Free
<1>5. ApprovalsSeeTruth'
    <2> SUFFICES ASSUME NEW q \in Requests, request'[q].op = "approve", ~request'[q].met
                 PROVE  (request[q].pair \in raced \/ EndsActive(request[q].pair))'
        BY DEF ApprovalsSeeTruth, EndsActive
    <2>1. request'[q] = request[q]
        BY DEF GoOnOrEnd, Free
    <2>2. request[q].pair \in Pairs /\ Exists(request[q].pair)
        BY <2>1, RequestFields DEF NetworkInv, NetworkTypes, Deciding
    <2> QED BY <1>1, <1>2, <2>1, <2>2 DEF NetworkInv, ApprovalsSeeTruth, Kept, EndsActive
<1>6. ChecksSeeTruth'
    <2> SUFFICES ASSUME NEW q \in Requests, Is(q, "deactivate", "checked")', NEW m \in Pairs,
                        Touches(m, request[q].point)', IsLive(m)'
                 PROVE  m \in raced'
        BY DEF ChecksSeeTruth
    <2>1. request'[q] = request[q]
        BY DEF GoOnOrEnd, Free, Is
    <2>2. CASE m # n
        BY <1>1, <1>2, <2>1, <2>2 DEF NetworkInv, ChecksSeeTruth, Is, Touches, IsLive, Exists
    <2>3. CASE m = n /\ Exists(n) /\ IsLive(n)
        BY <1>1, <1>2, <1>3, <2>1, <2>3 DEF NetworkInv, ChecksSeeTruth, Is, Touches, IsLive, Exists
    <2>4. CASE m = n /\ ~(Exists(n) /\ IsLive(n))
        BY <1>1, <2>1, <2>4 DEF Is, Touches, IsLive
    <2> QED BY <2>2, <2>3, <2>4
<1>7. InactiveOnlyByRace'
    <2> SUFFICES ASSUME NEW m \in Pairs, Exists(m)', IsLive(m)', m \notin raced'
                 PROVE  EndsActive(m)'
        BY DEF InactiveOnlyByRace, EndsActive
    <2>1. CASE m = n /\ ~(Exists(n) /\ IsLive(n))
        BY <1>1, <1>2, <2>1 DEF IsLive, EndsActive
    <2>2. CASE m # n \/ (Exists(n) /\ IsLive(n))
        <3>1. Exists(m) /\ IsLive(m) /\ m \notin raced
            BY <1>1, <1>2, <2>2 DEF Exists, IsLive
        <3> QED BY <1>1, <1>2, <3>1 DEF NetworkInv, InactiveOnlyByRace, Kept, EndsActive
    <2> QED BY <2>1, <2>2
<1> QED BY <1>1, <1>4, <1>5, <1>6, <1>7 DEF NetworkInv

-----------------------------------------------------------------------------
(* The actions.                                                            *)

LEMMA AskSteps ==
    ASSUME NetworkInv, NEW q \in Requests
    PROVE  /\ \A p \in Points : AskDeactivate(q, p) => NetworkInv'
           /\ \A a, b \in Points : AskCreatePair(q, a, b) \/ AskRoute(q, a, b) => NetworkInv'
           /\ \A n \in Pairs : AskChange(q, n) \/ AskContext(q, n) => NetworkInv'
           /\ Abandon(q) => NetworkInv'
<1>1. ASSUME NEW p \in Points, AskDeactivate(q, p) PROVE NetworkInv'
    <2> DEFINE r == [op |-> "deactivate", at |-> "loaded", point |-> p]
    <2>1. Truthful(r)
        BY DEF Truthful, States, Deactivating
    <2> QED BY <1>1, <2>1, RequestStep DEF AskDeactivate
<1>2. ASSUME NEW a \in Points, NEW b \in Points, AskCreatePair(q, a, b) PROVE NetworkInv'
    <2> DEFINE r == [op |-> "create", at |-> "origin", from |-> a, to |-> b, met |-> FALSE]
    <2>1. Truthful(r)
        BY <1>2 DEF Truthful, States, Creating, AskCreatePair
    <2> QED BY <1>2, <2>1, RequestStep DEF AskCreatePair
<1>3. ASSUME NEW a \in Points, NEW b \in Points, AskRoute(q, a, b) PROVE NetworkInv'
    <2> DEFINE r == [op |-> "resolve", at |-> "origin", from |-> a, to |-> b]
    <2>1. Truthful(r)
        BY DEF Truthful, States, Resolving
    <2> QED BY <1>3, <2>1, RequestStep DEF AskRoute
<1>4. ASSUME NEW n \in Pairs, AskChange(q, n) PROVE NetworkInv'
    <2>1. pair[n] \in Rows /\ Exists(n)
        BY <1>4, RowFields DEF NetworkInv, AskChange
    <2>2. pair[n].status \in Live /\ pair[n].pending \in Nat
        BY <1>4, <2>1 DEF AskChange, Rows
    <2>3. n \in raced \/ EndsActive(n)
        BY <2>1, <2>2 DEF NetworkInv, InactiveOnlyByRace, IsLive, EndsActive
    <2>4. CASE \E f \in Profiles : Put(q, [op |-> "profile", at |-> "loaded", pair |-> n, profile |-> f])
        <3>1. PICK f \in Profiles : Put(q, [op |-> "profile", at |-> "loaded", pair |-> n, profile |-> f])
            BY <2>4
        <3> DEFINE r == [op |-> "profile", at |-> "loaded", pair |-> n, profile |-> f]
        <3>2. Truthful(r)
            BY <2>1 DEF Truthful, States, Changing
        <3> QED BY <1>4, <3>1, <3>2, RequestStep DEF AskChange
    <2>5. CASE \E op \in {"approve", "discard"} :
                  Put(q, [op |-> op, at |-> "loaded", pair |-> n, met |-> FALSE,
                          status |-> pair[n].status, pending |-> pair[n].pending])
        <3>1. PICK op \in {"approve", "discard"} :
                  Put(q, [op |-> op, at |-> "loaded", pair |-> n, met |-> FALSE,
                          status |-> pair[n].status, pending |-> pair[n].pending])
            BY <2>5
        <3> DEFINE r == [op |-> op, at |-> "loaded", pair |-> n, met |-> FALSE,
                         status |-> pair[n].status, pending |-> pair[n].pending]
        <3>2. Truthful(r)
            BY <2>1, <2>2, <2>3 DEF Truthful, States, Deciding
        <3> QED BY <1>4, <3>1, <3>2, RequestStep DEF AskChange
    <2> QED BY <1>4, <2>4, <2>5 DEF AskChange
<1>5. ASSUME NEW n \in Pairs, AskContext(q, n) PROVE NetworkInv'
    <2> DEFINE r == [op |-> IF request[q] = Free THEN "context" ELSE request[q].op, at |-> "pair", pair |-> n,
                     from |-> IF request[q] = Free THEN Nothing ELSE request[q].from,
                     way |-> pair[n].from, version |-> pair[n].active, forward |-> None]
    <2>1. pair[n].from \in Points /\ pair[n].active \in Nat
        BY <1>5, RowFields DEF NetworkInv, AskContext, Rows
    <2>2. request[q] # Free => request[q] \in [op: {"slip", "enrich"}, at: {"resolved"}, from: Points, pair: Pairs \cup {Nothing}]
        BY <1>5, RequestFields DEF NetworkInv, AskContext, Resolving, Asking
    <2>3. r \in Asking
        BY <2>1, <2>2 DEF Asking, None
    <2>4. r.op \in Readers
        BY <2>3 DEF Asking, Readers
    <2>5. Truthful(r)
        BY <2>3, <2>4 DEF Truthful, States, Readers
    <2> QED BY <1>5, <2>5, RequestStep DEF AskContext
<1>6. ASSUME Abandon(q) PROVE NetworkInv'
    <2>1. Truthful(Free)
        BY DEF Truthful, States, Free
    <2> QED BY <1>6, <2>1, RequestStep DEF Abandon
<1> QED BY <1>1, <1>2, <1>3, <1>4, <1>5, <1>6

LEMMA ReaderSteps ==
    ASSUME NetworkInv, NEW q \in Requests, ReaderStep(q)
    PROVE  NetworkInv'
<1>1. /\ UNCHANGED <<point, pair, drafts, raced>>
      /\ Put(q, request'[q])
      /\ request'[q] \in Resolving \cup Asking
    BY ReaderType DEF NetworkInv, Put
<1>2. request'[q].op \in Readers
    BY <1>1 DEF Resolving, Asking, Readers
<1>3. \A r \in Resolving \cup Asking : r.op \in Readers => Truthful(r)
    BY DEF Truthful, States, Readers
<1> QED BY <1>1, <1>2, <1>3, RequestStep

LEMMA CheckSteps ==
    ASSUME NetworkInv, NEW q \in Requests, CheckUse(q) \/ CheckDestination(q) \/ CheckUnique(q) \/ CheckProfile(q)
    PROVE  NetworkInv'
<1>1. CASE CheckUse(q)
    <2> DEFINE r == [request[q] EXCEPT !.at = "checked"]
    <2>1. request[q] \in Deactivating
        BY <1>1, RequestFields DEF NetworkInv, CheckUse, Is
    <2>2. \A n \in Pairs : ~(Touches(n, request[q].point) /\ IsLive(n))
        BY <1>1 DEF CheckUse, Blocking
    <2>3. r \in Deactivating /\ r.op = "deactivate" /\ r.point = request[q].point
        BY <2>1 DEF Deactivating
    <2>4. Truthful(r)
        BY <2>2, <2>3 DEF Truthful, States
    <2> QED BY <1>1, <2>4, RequestStep DEF CheckUse, GoOn
<1>2. CASE CheckDestination(q)
    <2> DEFINE r == [request[q] EXCEPT !.at = "points"]
    <2>1. request[q] \in [op: {"create"}, at: {"origin", "points"}, from: Points, to: Points, met: BOOLEAN]
        BY <1>2, RequestFields DEF NetworkInv, CheckDestination, Is, Creating
    <2>2. /\ r \in Creating /\ r.op = "create"
          /\ r.met = request[q].met /\ r.from = request[q].from /\ r.to = request[q].to
        BY <2>1 DEF Creating
    <2>3. Truthful(r)
        BY <1>2, <2>1, <2>2 DEF Truthful, States, NetworkInv, CreationsSeeTruth, CheckDestination, Is
    <2> QED BY <1>2, <2>3, RequestStep DEF CheckDestination, GoOn
<1>3. CASE CheckUnique(q)
    <2>1. PICK f \in Profiles :
             Put(q, [op |-> "create", at |-> "unique", from |-> request[q].from, to |-> request[q].to,
                     profile |-> f, met |-> request[q].met])
        BY <1>3 DEF CheckUnique
    <2> DEFINE r == [op |-> "create", at |-> "unique", from |-> request[q].from, to |-> request[q].to,
                     profile |-> f, met |-> request[q].met]
    <2>2. request[q] \in Creating
        BY <1>3, RequestFields DEF NetworkInv, CheckUnique, Is
    <2>3. r \in Creating
        BY <2>2 DEF Creating
    <2>4. Truthful(r)
        BY <1>3, <2>3 DEF Truthful, States, NetworkInv, CreationsSeeTruth, CheckUnique, Is
    <2> QED BY <1>3, <2>1, <2>4, RequestStep DEF CheckUnique
<1>4. CASE CheckProfile(q)
    <2> DEFINE r == [request[q] EXCEPT !.at = "unique"]
    <2>1. request[q] \in Changing /\ Exists(request[q].pair)
        BY <1>4, RequestFields DEF NetworkInv, NetworkTypes, CheckProfile, Is
    <2>2. r \in Changing /\ r.op = "profile" /\ r.pair = request[q].pair
        BY <1>4, <2>1 DEF Changing, CheckProfile, Is
    <2>3. Truthful(r)
        BY <2>1, <2>2 DEF Truthful, States
    <2> QED BY <1>4, <2>3, RequestStep DEF CheckProfile, GoOn
<1> QED BY <1>1, <1>2, <1>3, <1>4

LEMMA DiscardedVersions ==
    ASSUME NEW d \in Versions, NEW v \in Nat
    PROVE  [d EXCEPT ![v] = "DISCARDED"] \in Versions
<1> DEFINE Statuses == {"DRAFT", "ACTIVE", "SUPERSEDED", "DISCARDED"}
           e == [d EXCEPT ![v] = "DISCARDED"]
<1>1. PICK k \in Nat : d \in [1..k -> Statuses]
    BY SeqDef DEF Versions
<1>2. DOMAIN e = 1..k /\ \A u \in 1..k : e[u] \in Statuses
    BY <1>1
<1>3. e = [u \in 1..k |-> e[u]]
    BY <1>1
<1>4. e \in [1..k -> Statuses]
    BY <1>2, <1>3
<1> QED BY <1>4, SeqDef DEF Versions

\* The four requests that write a pair when they commit.
LEMMA WriteSteps ==
    ASSUME NetworkInv, NEW q \in Requests, InsertPair(q) \/ WriteProfile(q) \/ Approve(q) \/ Discard(q)
    PROVE  NetworkInv'
<1>0. GoOnOrEnd
    BY EndOrStay DEF NetworkInv, InsertPair, WriteProfile, Approve, Discard
<1>d. drafts \in [Pairs -> Versions] /\ pair \in [Pairs -> Rows \cup {NoPair}]
    BY DEF NetworkInv, NetworkTypes
<1>1. CASE InsertPair(q)
    <2> DEFINE row == [status |-> "DRAFT", from |-> request[q].from, to |-> request[q].to,
                       profile |-> request[q].profile, active |-> None, pending |-> None]
    <2>1. PICK n \in Pairs : /\ ~Exists(n)
                             /\ pair' = [pair EXCEPT ![n] = row]
                             /\ raced' = Raced(q, n, {row.from, row.to})
        BY <1>1 DEF InsertPair
    <2>2. request[q] \in [op: {"create"}, at: {"unique"}, from: Points, to: Points, profile: Profiles, met: BOOLEAN]
        BY <1>1, RequestFields DEF NetworkInv, InsertPair, Is, Creating
    <2>3. row \in Rows
        BY <2>2 DEF Rows, Live, None
    <2>4. Writes(n, row)
        BY <1>1, <1>d, <2>1 DEF Writes, InsertPair, Raced
    <2>5. n \in raced' \/ (point[row.from] = "active" /\ point[row.to] = "active")
        BY <2>1, <2>2 DEF Raced, NetworkInv, CreationsSeeTruth
    <2>6. \A p \in Requests : (Is(p, "deactivate", "checked") /\ request[p].point \in {row.from, row.to})
                                => n \in raced'
        BY <2>1 DEF Raced
    <2> QED BY <1>0, <2>3, <2>4, <2>5, <2>6, PairStep
<1>2. CASE WriteProfile(q)
    <2> DEFINE n == request[q].pair
               row == [pair[n] EXCEPT !.profile = request[q].profile]
    <2>1. request[q] \in Changing /\ n \in Pairs /\ Exists(n)
        BY <1>2, RequestFields DEF NetworkInv, NetworkTypes, WriteProfile, Is, Changing
    <2>2. pair[n] \in Rows /\ request[q].profile \in Profiles
        BY <2>1, RowFields DEF NetworkInv, Changing
    <2>3. row \in Rows /\ row.status = pair[n].status /\ row.from = pair[n].from /\ row.to = pair[n].to
        BY <2>2 DEF Rows
    <2>4. Writes(n, row)
        BY <1>2, <1>d, <2>3 DEF Writes, WriteProfile
    <2> QED BY <1>0, <2>1, <2>3, <2>4, PairStep DEF IsLive
<1>3. CASE Approve(q)
    <2> DEFINE n == request[q].pair
               v == request[q].pending
               row == [pair[n] EXCEPT !.status = IF request[q].status = "ACTIVE" THEN @ ELSE "ACTIVE",
                                      !.active = v, !.pending = None]
    <2>1. request[q] \in Deciding /\ n \in Pairs /\ v \in Nat /\ Exists(n) /\ request[q].op = "approve"
        BY <1>3, RequestFields DEF NetworkInv, NetworkTypes, Approve, Is, Deciding
    <2>2. pair[n] \in Rows
        BY <2>1, RowFields DEF NetworkInv
    <2>3. row \in Rows /\ row.from = pair[n].from /\ row.to = pair[n].to
        BY <2>1, <2>2 DEF Rows, Live, None
    <2>4. raced' = Raced(q, n, {row.from, row.to})
        BY <1>3 DEF Approve
    <2>5. drafts' \in [Pairs -> Versions]
        <3> DEFINE d == drafts[n]
                   e == [u \in DOMAIN d |-> IF u = v THEN "ACTIVE" ELSE IF d[u] = "ACTIVE" THEN "SUPERSEDED" ELSE d[u]]
        <3>1. d \in Versions
            BY <1>d, <2>1
        <3>2. e \in Versions
            <4>1. DOMAIN d = 1..Len(d) /\ Len(d) \in Nat
                BY <3>1 DEF Versions
            <4>2. \A u \in 1..Len(d) : e[u] \in {"DRAFT", "ACTIVE", "SUPERSEDED", "DISCARDED"}
                BY <3>1, <4>1 DEF Versions
            <4>3. e \in [1..Len(d) -> {"DRAFT", "ACTIVE", "SUPERSEDED", "DISCARDED"}]
                BY <4>1, <4>2
            <4> QED BY <4>1, <4>3, SeqDef DEF Versions
        <3>3. drafts' = [drafts EXCEPT ![n] = e]
            BY <1>3 DEF Approve
        <3> QED BY <1>d, <3>2, <3>3
    <2>6. Writes(n, row)
        BY <1>3, <2>3, <2>4, <2>5 DEF Writes, Approve, Raced
    <2>7. n \in raced' \/ (point[row.from] = "active" /\ point[row.to] = "active")
        BY <2>1, <2>3, <2>4 DEF Raced, NetworkInv, ApprovalsSeeTruth, EndsActive, Deciding
    <2>8. \A p \in Requests : (Is(p, "deactivate", "checked") /\ request[p].point \in {row.from, row.to})
                                => n \in raced'
        BY <2>4 DEF Raced
    <2> QED BY <1>0, <2>1, <2>3, <2>6, <2>7, <2>8, PairStep
<1>4. CASE Discard(q)
    <2> DEFINE n == request[q].pair
               row == [pair[n] EXCEPT !.pending = None]
    <2>1. request[q] \in Deciding /\ n \in Pairs /\ Exists(n)
        BY <1>4, RequestFields DEF NetworkInv, NetworkTypes, Discard, Is, Deciding
    <2>2. pair[n] \in Rows
        BY <2>1, RowFields DEF NetworkInv
    <2>3. row \in Rows /\ row.status = pair[n].status /\ row.from = pair[n].from /\ row.to = pair[n].to
        BY <2>2 DEF Rows, None
    <2>4. drafts' \in [Pairs -> Versions]
        <3>1. drafts[n] \in Versions
            BY <1>d, <2>1
        <3>2. [drafts[n] EXCEPT ![request[q].pending] = "DISCARDED"] \in Versions
            BY <2>1, <3>1, DiscardedVersions DEF Deciding
        <3> QED BY <1>4, <1>d, <3>2 DEF Discard
    <2>5. pair' = [pair EXCEPT ![n] = row]
        BY <1>4, <1>d, <2>1 DEF Discard
    <2>6. Writes(n, row)
        BY <1>4, <2>3, <2>4, <2>5 DEF Writes, Discard
    <2> QED BY <1>0, <2>1, <2>3, <2>6, PairStep DEF IsLive
<1> QED BY <1>1, <1>2, <1>3, <1>4

\* Deactivate: the requests it overtakes learn of it, and it has found no live pair.
LEMMA DeactivateStep ==
    ASSUME NetworkInv, NEW q \in Requests, Deactivate(q)
    PROVE  NetworkInv'
<1> DEFINE p == request[q].point
<1>1. request[q] \in Deactivating /\ p \in Points
    BY RequestFields DEF NetworkInv, Deactivate, Is, Deactivating
<1>2. /\ point' = [point EXCEPT ![p] = "inactive"]
      /\ UNCHANGED <<pair, drafts, raced>>
      /\ \A r \in Requests : request'[r] =
            IF r = q THEN Free
            ELSE IF MayRevive(r, p) THEN [request[r] EXCEPT !.met = TRUE] ELSE request[r]
    BY DEF Deactivate
<1>3. \A n \in Pairs : (Touches(n, p) /\ IsLive(n)) => n \in raced
    BY DEF NetworkInv, ChecksSeeTruth, Deactivate
<1>4. \A r \in Requests :
          \/ request'[r] = Free
          \/ request'[r] = request[r] /\ ~MayRevive(r, p)
          \/ /\ request[r].op \in {"create", "approve"}
             /\ request'[r].op = request[r].op
             /\ request'[r] \in Creating \cup Deciding
             /\ request'[r].met = TRUE
             /\ request[r].op = "approve" => request'[r].pair = request[r].pair
    <2> SUFFICES ASSUME NEW r \in Requests
                 PROVE  \/ request'[r] = Free
                        \/ request'[r] = request[r] /\ ~MayRevive(r, p)
                        \/ /\ request[r].op \in {"create", "approve"}
                           /\ request'[r].op = request[r].op
                           /\ request'[r] \in Creating \cup Deciding
                           /\ request'[r].met = TRUE
                           /\ request[r].op = "approve" => request'[r].pair = request[r].pair
        OBVIOUS
    <2>1. CASE r # q /\ MayRevive(r, p) /\ request[r].op = "create"
        <3>1. request'[r] = [request[r] EXCEPT !.met = TRUE] /\ request[r] \in Creating
            BY <1>2, <2>1, RequestFields DEF NetworkInv
        <3> QED BY <2>1, <3>1 DEF Creating
    <2>2. CASE r # q /\ MayRevive(r, p) /\ request[r].op = "approve"
        <3>1. request'[r] = [request[r] EXCEPT !.met = TRUE] /\ request[r] \in Deciding
            BY <1>2, <2>2, RequestFields DEF NetworkInv
        <3> QED BY <2>2, <3>1 DEF Deciding
    <2> QED BY <1>2, <2>1, <2>2 DEF MayRevive
<1>5. \A r \in Requests : request'[r] \in States
    BY <1>4 DEF NetworkInv, NetworkTypes, States
<1>6. NetworkTypes'
    <2>1. request' \in [Requests -> States]
        BY <1>5 DEF Deactivate
    <2>2. point' \in [Points -> PointStates]
        BY <1>2 DEF NetworkInv, NetworkTypes, PointStates
    <2>3. \A r \in Requests : request'[r].op \in {"approve", "discard", "profile"} => pair[request'[r].pair] # NoPair
        <3> SUFFICES ASSUME NEW r \in Requests, request'[r].op \in {"approve", "discard", "profile"}
                     PROVE  pair[request'[r].pair] # NoPair
            OBVIOUS
        <3>1. request[r].op = request'[r].op /\ request'[r].pair = request[r].pair
            BY <1>4 DEF Free
        <3> QED BY <3>1 DEF NetworkInv, NetworkTypes, Exists
    <2> QED BY <1>2, <2>1, <2>2, <2>3 DEF NetworkInv, NetworkTypes, Exists
<1>7. CreationsSeeTruth'
    <2> SUFFICES ASSUME NEW r \in Requests, request'[r].op = "create", ~request'[r].met
                 PROVE  /\ point'[request'[r].from] = "active"
                        /\ request'[r].at # "origin" => point'[request'[r].to] = "active"
        BY DEF CreationsSeeTruth
    <2>1. request'[r] = request[r] /\ ~MayRevive(r, p)
        BY <1>4 DEF Free
    <2>2. p \notin {request[r].from, request[r].to} /\ request[r] \in Creating
        BY <2>1, RequestFields DEF NetworkInv, MayRevive
    <2> QED BY <1>2, <2>1, <2>2 DEF NetworkInv, NetworkTypes, CreationsSeeTruth, Creating
<1>8. ApprovalsSeeTruth'
    <2> SUFFICES ASSUME NEW r \in Requests, request'[r].op = "approve", ~request'[r].met
                 PROVE  (request[r].pair \in raced \/ EndsActive(request[r].pair))'
        BY DEF ApprovalsSeeTruth
    <2>1. request'[r] = request[r] /\ ~MayRevive(r, p)
        BY <1>4 DEF Free
    <2>2. Exists(request[r].pair) /\ request[r].pair \in Pairs
        BY <2>1, RequestFields DEF NetworkInv, NetworkTypes, Deciding
    <2>3. p \notin {pair[request[r].pair].from, pair[request[r].pair].to}
        BY <2>1, <2>2 DEF MayRevive, Touches
    <2> QED BY <1>2, <2>1, <2>2, <2>3 DEF NetworkInv, NetworkTypes, ApprovalsSeeTruth, EndsActive
<1>9. ChecksSeeTruth'
    <2> SUFFICES ASSUME NEW r \in Requests, Is(r, "deactivate", "checked")', NEW n \in Pairs,
                        Touches(n, request[r].point)', IsLive(n)'
                 PROVE  n \in raced'
        BY DEF ChecksSeeTruth
    <2>1. request'[r] = request[r]
        BY <1>4 DEF Free, Is
    <2> QED BY <1>2, <2>1 DEF NetworkInv, ChecksSeeTruth, Is, Touches, IsLive, Exists
<1>10. InactiveOnlyByRace'
    <2> SUFFICES ASSUME NEW n \in Pairs, Exists(n), IsLive(n), n \notin raced
                 PROVE  point'[pair[n].from] = "active" /\ point'[pair[n].to] = "active"
        BY <1>2 DEF InactiveOnlyByRace, Exists, IsLive
    <2>1. p \notin {pair[n].from, pair[n].to}
        BY <1>3 DEF Touches
    <2> QED BY <1>2, <2>1 DEF NetworkInv, NetworkTypes, InactiveOnlyByRace
<1> QED BY <1>6, <1>7, <1>8, <1>9, <1>10 DEF NetworkInv

\* The rest: points that appear or are active again, drafts and deletions.
LEMMA OtherSteps ==
    ASSUME NetworkInv
    PROVE  /\ \A p \in Points : CreatePoint(p) \/ Reactivate(p) => NetworkInv'
           /\ \A n \in Pairs : SaveDraft(n) \/ SoftDelete(n) => NetworkInv'
<1>d. /\ drafts \in [Pairs -> Versions] /\ pair \in [Pairs -> Rows \cup {NoPair}]
      /\ point \in [Points -> PointStates]
    BY DEF NetworkInv, NetworkTypes
<1>1. ASSUME NEW p \in Points, CreatePoint(p) \/ Reactivate(p) PROVE NetworkInv'
    <2>1. /\ UNCHANGED <<pair, drafts, request, raced>>
          /\ point' \in [Points -> PointStates]
          /\ \A x \in Points : point[x] = "active" => point'[x] = "active"
        BY <1>d, <1>1 DEF CreatePoint, Reactivate, PointStates
    <2>2. NetworkTypes'
        BY <2>1 DEF NetworkInv, NetworkTypes, Exists
    <2>a. \A n \in Pairs : Exists(n) => pair[n].from \in Points /\ pair[n].to \in Points
        BY RowFields DEF NetworkInv, Rows
    <2>3. CreationsSeeTruth' /\ ApprovalsSeeTruth'
        <3>1. \A q \in Requests : request[q].op = "create" => request[q].from \in Points /\ request[q].to \in Points
            BY RequestFields DEF NetworkInv, Creating
        <3>2. \A q \in Requests : request[q].op = "approve" => request[q].pair \in Pairs /\ Exists(request[q].pair)
            BY RequestFields DEF NetworkInv, NetworkTypes, Deciding
        <3> QED BY <2>1, <2>a, <3>1, <3>2 DEF NetworkInv, CreationsSeeTruth, ApprovalsSeeTruth, EndsActive
    <2>4. ChecksSeeTruth'
        BY <2>1 DEF NetworkInv, ChecksSeeTruth, Is, Touches, Exists, IsLive
    <2>5. InactiveOnlyByRace'
        BY <2>1, <2>a DEF NetworkInv, InactiveOnlyByRace, Exists, IsLive
    <2> QED BY <2>2, <2>3, <2>4, <2>5 DEF NetworkInv
<1>2. ASSUME NEW n \in Pairs, SaveDraft(n) PROVE NetworkInv'
    <2> DEFINE row == [pair[n] EXCEPT !.pending = Len(drafts[n]) + 1]
    <2>0. drafts[n] \in Versions
        BY <1>d
    <2>a. Exists(n)
        BY <1>2 DEF SaveDraft
    <2>b. Len(drafts[n]) \in Nat
        BY <2>0, LenProperties DEF Versions
    <2>1. pair[n] \in Rows /\ Len(drafts[n]) \in Nat /\ Exists(n)
        BY <2>a, <2>b, RowFields DEF NetworkInv
    <2>2. row \in Rows /\ row.status = pair[n].status /\ row.from = pair[n].from /\ row.to = pair[n].to
        BY <2>1 DEF Rows
    <2>3. Append(drafts[n], "DRAFT") \in Versions
        BY <1>d DEF Versions
    <2>4. drafts' \in [Pairs -> Versions] /\ pair' = [pair EXCEPT ![n] = row]
        BY <1>2, <1>d, <2>3 DEF SaveDraft
    <2>5. Writes(n, row)
        BY <1>2, <2>2, <2>4 DEF Writes, SaveDraft
    <2>6. GoOnOrEnd
        BY <1>2, EndOrStay DEF NetworkInv, SaveDraft
    <2> QED BY <2>1, <2>2, <2>5, <2>6, PairStep DEF IsLive
<1>3. ASSUME NEW n \in Pairs, SoftDelete(n) PROVE NetworkInv'
    <2> DEFINE row == [pair[n] EXCEPT !.status = "SOFT_DELETED"]
    <2>1. pair[n] \in Rows /\ Exists(n)
        BY <1>3, RowFields DEF NetworkInv, SoftDelete
    <2>2. row \in Rows /\ row.status \notin Live /\ row.from = pair[n].from /\ row.to = pair[n].to
        BY <2>1 DEF Rows, Live
    <2>3. Writes(n, row)
        BY <1>3, <1>d, <2>2 DEF Writes, SoftDelete
    <2>4. GoOnOrEnd
        BY <1>3, EndOrStay DEF NetworkInv, SoftDelete
    <2> QED BY <2>2, <2>3, <2>4, PairStep
<1> QED BY <1>1, <1>2, <1>3

-----------------------------------------------------------------------------
(* The theorem.                                                            *)

LEMMA StepInv == NetworkInv /\ [NetworkNext]_networkVars => NetworkInv'
<1> SUFFICES ASSUME NetworkInv, [NetworkNext]_networkVars PROVE NetworkInv'
    OBVIOUS
<1>1. CASE UNCHANGED networkVars
    BY <1>1 DEF networkVars, NetworkInv, NetworkTypes, CreationsSeeTruth, ApprovalsSeeTruth, ChecksSeeTruth, InactiveOnlyByRace,
                Exists, IsLive, Touches, Is, EndsActive
<1>2. ASSUME NEW q \in Requests, WriterStep(q) PROVE NetworkInv'
    BY <1>2, CheckSteps, WriteSteps, DeactivateStep DEF WriterStep
<1> QED BY <1>1, <1>2, AskSteps, ReaderSteps, OtherSteps DEF NetworkNext

\* Whatever requests race for a point and its pairs, a live pair stands on an
\* inactive point only if its creation or approval met a deactivation.
THEOREM InactiveByRace == NetworkSpec => []InactiveOnlyByRace
<1>1. NetworkInv => InactiveOnlyByRace
    BY DEF NetworkInv
<1> QED BY <1>1, InitInv, StepInv, PTL DEF NetworkSpec

-----------------------------------------------------------------------------
(* Trip contexts.                                                          *)

\* A reader that has its forward route goes on with the version that its pair named,
\* and takes the reverse route from that version or from none.
Pinned(r) ==
    /\ (r.op \in Readers /\ r.at = "forward") => r.forward = r.version
    /\ (r.op \in Readers /\ r.at = "answered") => r.forward = r.reverse
ContextsInv == \A q \in Requests : Pinned(request[q])

\* What a step makes of the requests that it does not carry out.
LEMMA OthersPinned ==
    ASSUME ContextsInv, NEW q \in Requests, NEW r, request \in [Requests -> States], Put(q, r), Pinned(r)
    PROVE  ContextsInv'
BY DEF ContextsInv, Pinned, Put

LEMMA FreePinned == Pinned(Free)
BY DEF Pinned, Free, Readers

LEMMA ReadsPinned ==
    ASSUME NetworkTypes, ContextsInv, NEW q \in Requests, ReaderStep(q)
    PROVE  ContextsInv'
<1>0. request \in [Requests -> States]
    BY DEF NetworkTypes
<1>1. CASE FindDestination(q)
    <2> DEFINE r == [request[q] EXCEPT !.at = "points"]
    <2>1. request[q] \in Resolving
        BY <1>1, RequestFields DEF FindDestination, Is
    <2>2. r.at = "points"
        BY <2>1 DEF Resolving
    <2> QED BY <1>0, <1>1, <2>2, OthersPinned DEF FindDestination, GoOn, Pinned
<1>2. CASE CollectCandidates(q)
    BY <1>0, <1>2, OthersPinned DEF CollectCandidates, Pinned
<1>3. CASE LookUpCandidate(q)
    <2>1. PICK c \in request[q].left :
             Put(q, [request[q] EXCEPT !.left = @ \ {c},
                        !.kept = IF ActiveVersion(c.pair, c.version) = {} THEN @ ELSE @ \cup {c}])
        BY <1>3 DEF LookUpCandidate
    <2> DEFINE r == [request[q] EXCEPT !.left = @ \ {c},
                        !.kept = IF ActiveVersion(c.pair, c.version) = {} THEN @ ELSE @ \cup {c}]
    <2>2. request[q] \in Resolving /\ request[q].at = "candidates"
        BY <1>3, RequestFields DEF LookUpCandidate, Is
    <2>3. r.at = "candidates"
        BY <2>2 DEF Resolving
    <2> QED BY <1>0, <2>1, <2>3, OthersPinned DEF Pinned
<1>4. CASE Resolved(q)
    BY <1>0, <1>4, OthersPinned DEF Resolved, Pinned
<1>5. CASE ReadForward(q)
    <2>1. PICK v \in ActiveVersion(request[q].pair, request[q].version) :
             Put(q, [request[q] EXCEPT !.at = "forward", !.forward = v])
        BY <1>5 DEF ReadForward
    <2> DEFINE r == [request[q] EXCEPT !.at = "forward", !.forward = v]
    <2>2. request[q] \in [op: {"context", "slip", "enrich"}, at: {"pair", "forward"}, pair: Pairs,
                          from: Points \cup {Nothing}, way: Points, version: Nat, forward: Nat]
        BY <1>5, RequestFields DEF ReadForward, Resolving, Asking
    <2>3. v = request[q].version
        BY <2>1 DEF ActiveVersion
    <2>4. r.at = "forward" /\ r.forward = r.version
        BY <2>2, <2>3
    <2> QED BY <1>0, <2>1, <2>4, OthersPinned DEF Pinned
<1>6. CASE ReadReverse(q)
    <2>1. PICK v \in ActiveVersion(request[q].pair, request[q].version) :
             Put(q, [op |-> request[q].op, at |-> "answered", pair |-> request[q].pair, asked |-> request[q].from,
                     from |-> request[q].way, forward |-> request[q].forward, reverse |-> v])
        BY <1>6 DEF ReadReverse
    <2>2. v = request[q].version
        BY <2>1 DEF ActiveVersion
    <2>3. request[q].forward = request[q].version
        BY <1>6 DEF ReadReverse, ContextsInv, Pinned
    <2> QED BY <1>0, <2>1, <2>2, <2>3, OthersPinned DEF Pinned
<1> QED BY <1>1, <1>2, <1>3, <1>4, <1>5, <1>6 DEF ReaderStep

LEMMA WritesPinned ==
    ASSUME NetworkTypes, ContextsInv, NEW q \in Requests, WriterStep(q) \/ Abandon(q)
    PROVE  ContextsInv'
<1>0. request \in [Requests -> States]
    BY DEF NetworkTypes
<1>1. CASE Deactivate(q)
    <2>1. \A p \in Requests : \/ request'[p] = Free
                             \/ request'[p] = request[p]
                             \/ request'[p].op \in {"create", "approve"}
        <3> SUFFICES ASSUME NEW p \in Requests, request'[p] # Free, request'[p] # request[p]
                     PROVE  request'[p].op \in {"create", "approve"}
            OBVIOUS
        <3>1. request[p].op \in {"create", "approve"} /\ request'[p] = [request[p] EXCEPT !.met = TRUE]
            BY <1>1 DEF Deactivate, MayRevive
        <3>2. request[p] \in Creating \cup Deciding
            BY <3>1, RequestFields
        <3> QED BY <3>1, <3>2 DEF Creating, Deciding
    <2> QED BY <2>1, FreePinned DEF ContextsInv, Pinned, Readers
<1>2. CASE InsertPair(q) \/ WriteProfile(q) \/ Approve(q) \/ Discard(q) \/ Abandon(q)
    <2>1. Put(q, Free)
        BY <1>2 DEF InsertPair, WriteProfile, Approve, Discard, Abandon
    <2> QED BY <1>0, <2>1, FreePinned, OthersPinned
<1>3. CASE CheckUse(q) \/ CheckDestination(q) \/ CheckProfile(q)
    <2>1. PICK at \in {"checked", "points", "unique"} : Put(q, [request[q] EXCEPT !.at = at])
        BY <1>3 DEF CheckUse, CheckDestination, CheckProfile, GoOn
    <2>2. request[q] \in Creating \cup Changing \cup Deactivating
        BY <1>3, RequestFields DEF CheckUse, CheckDestination, CheckProfile, Is
    <2>3. [request[q] EXCEPT !.at = at].op \in {"create", "profile", "deactivate"}
        BY <2>2 DEF Creating, Changing, Deactivating
    <2> QED BY <1>0, <2>1, <2>3, OthersPinned DEF Pinned, Readers
<1>4. CASE CheckUnique(q)
    BY <1>0, <1>4, OthersPinned DEF CheckUnique, Pinned, Readers
<1> QED BY <1>1, <1>2, <1>3, <1>4 DEF WriterStep

LEMMA OutsidePinned ==
    ASSUME NetworkTypes, ContextsInv, NetworkNext,
           \A q \in Requests : ~WriterStep(q) /\ ~ReaderStep(q) /\ ~Abandon(q)
    PROVE  ContextsInv'
<1>0. request \in [Requests -> States]
    BY DEF NetworkTypes
<1>1. ASSUME NEW q \in Requests, NEW p \in Points, AskDeactivate(q, p) PROVE ContextsInv'
    BY <1>0, <1>1, OthersPinned DEF AskDeactivate, Pinned, Readers
<1>2. ASSUME NEW q \in Requests, NEW a \in Points, NEW b \in Points, AskCreatePair(q, a, b) \/ AskRoute(q, a, b)
      PROVE  ContextsInv'
    BY <1>0, <1>2, OthersPinned DEF AskCreatePair, AskRoute, Pinned, Readers
<1>3. ASSUME NEW q \in Requests, NEW n \in Pairs, AskChange(q, n) PROVE ContextsInv'
    <2>1. CASE \E f \in Profiles : Put(q, [op |-> "profile", at |-> "loaded", pair |-> n, profile |-> f])
        BY <1>0, <2>1, OthersPinned DEF Pinned, Readers
    <2>2. CASE \E op \in {"approve", "discard"} :
                  Put(q, [op |-> op, at |-> "loaded", pair |-> n, met |-> FALSE,
                          status |-> pair[n].status, pending |-> pair[n].pending])
        BY <1>0, <2>2, OthersPinned DEF Pinned, Readers
    <2> QED BY <1>3, <2>1, <2>2 DEF AskChange
<1>4. ASSUME NEW q \in Requests, NEW n \in Pairs, AskContext(q, n) PROVE ContextsInv'
    BY <1>0, <1>4, OthersPinned DEF AskContext, Pinned
<1>5. ASSUME UNCHANGED request PROVE ContextsInv'
    BY <1>5 DEF ContextsInv, Pinned
<1>6. \A p \in Points : CreatePoint(p) \/ Reactivate(p) => UNCHANGED request
    BY DEF CreatePoint, Reactivate
<1>7. \A n \in Pairs : SaveDraft(n) \/ SoftDelete(n) => UNCHANGED request
    BY DEF SaveDraft, SoftDelete
<1> QED BY <1>1, <1>2, <1>3, <1>4, <1>5, <1>6, <1>7 DEF NetworkNext

\* A trip context is of one approval, however many fall between the statements
\* that read it: both routes are of the version that the pair named.
THEOREM OneApproval == NetworkSpec => []ContextIsOneApproval
<1>1. NetworkInit => ContextsInv
    BY FreePinned DEF NetworkInit, ContextsInv
<1>2. NetworkInv /\ ContextsInv /\ [NetworkNext]_networkVars => ContextsInv'
    <2> SUFFICES ASSUME NetworkInv, ContextsInv, [NetworkNext]_networkVars PROVE ContextsInv'
        OBVIOUS
    <2>1. NetworkTypes
        BY DEF NetworkInv
    <2>2. CASE UNCHANGED networkVars
        BY <2>2 DEF networkVars, ContextsInv, Pinned
    <2>3. CASE NetworkNext
        BY <2>1, <2>3, ReadsPinned, WritesPinned, OutsidePinned
    <2> QED BY <2>2, <2>3
<1>3. ContextsInv => ContextIsOneApproval
    BY DEF ContextsInv, Pinned, ContextIsOneApproval
<1> QED BY <1>1, <1>2, <1>3, InitInv, StepInv, PTL DEF NetworkSpec
=============================================================================
