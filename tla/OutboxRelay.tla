----------------------------- MODULE OutboxRelay -----------------------------
(***************************************************************************)
(* platform_common/outbox_relay.py: several OutboxRelayBase workers drain  *)
(* one outbox table into the broker.  A worker claims a batch under a      *)
(* fresh token with a lease, publishes every claimed row in a task of its  *)
(* own, and finalises the row only if it still carries the token.          *)
(*                                                                         *)
(* Time is relative: claim_expires_at_utc and next_attempt_at_utc are kept *)
(* as the ticks that are left until they have passed, and Tick counts them *)
(* down.  A claim token is represented by the worker whose current batch   *)
(* it names; the token of a finished or crashed batch equals no other, so  *)
(* a row that carries one has the holder NoWorker.                         *)
(*                                                                         *)
(* The UPDATE of a claim writes every row of the table, not the rows that  *)
(* were selected (see Claim).  ahead, refusals and overrun are history.    *)
(***************************************************************************)
EXTENDS Naturals, FiniteSets

CONSTANTS Rows,           \* the rows the producers will ever insert
          PartitionOf,    \* partition_key of a row
          NoPartition,    \* the partition_key NULL, which equals nothing
          CreatedAt,      \* created_at_utc of a row; ties are allowed
          Workers,        \* relay instances
          NoWorker,
          BatchSize,      \* batch_size
          MaxConcurrent,  \* the semaphore of process_batch
          ClaimTTL,       \* claim_ttl_seconds, in ticks
          MaxFailures,    \* max_failures
          Backoff,        \* the retry schedule, in ticks, by attempt_count
          MaxFaults       \* bound on crashes, failed calls and late ticks

ASSUME OutboxAssumption ==
    /\ CreatedAt \in [Rows -> Nat]
    /\ NoWorker \notin Workers
    /\ BatchSize \in Nat \ {0}
    /\ MaxConcurrent \in Nat \ {0}
    /\ ClaimTTL \in Nat \ {0}
    /\ MaxFailures \in Nat \ {0}
    /\ Backoff \in [1 .. MaxFailures -> Nat]
    /\ IsFiniteSet(Workers)
    /\ MaxFaults \in Nat

VARIABLES
    \* the outbox table
    status,      \* publish_status; "ABSENT" before the insert commits
    holder,      \* claim_token: the worker whose current batch it names
    lease,       \* ticks until claim_expires_at_utc has passed
    attempts,    \* attempt_count, counted up to MaxFailures
    retryIn,     \* ticks until next_attempt_at_utc has passed
    \* the tasks of the workers
    task,        \* how far _publish_single of a worker has come with a row
    seen,        \* attempt_count of the row a task has fetched to finalise
    \* the broker, and what an observer remembers
    late,        \* rows whose publish failed but may still be delivered
    delivered,   \* rows the broker has received
    abandoned,   \* rows that have been DEAD_LETTER
    ahead,       \* rows that stood before a row when it was committed
    refusals,    \* failed publishes of a row
    overrun,     \* rows whose lease has run out under a task
    faults       \* crashes, failed publishes and database calls, late ticks

table == <<status, holder, lease, attempts, retryIn>>
broker == <<late, delivered>>
history == <<abandoned, ahead, refusals, overrun>>
vars == <<table, task, seen, broker, history, faults>>

Statuses == {"ABSENT", "PENDING", "PUBLISHING", "FAILED", "PUBLISHED", "DEAD_LETTER"}
Stages == {"none", "claimed", "sending", "acked", "refused", "saveAcked", "saveRefused"}

TypeOK ==
    /\ status \in [Rows -> Statuses]
    /\ holder \in [Rows -> Workers \cup {NoWorker}]
    /\ lease \in [Rows -> 0 .. ClaimTTL]
    /\ attempts \in [Rows -> 0 .. MaxFailures]
    /\ retryIn \in [Rows -> Nat]
    /\ task \in [Workers -> [Rows -> Stages]]
    /\ seen \in [Workers -> [Rows -> 0 .. MaxFailures]]
    /\ late \subseteq Rows
    /\ delivered \subseteq Rows
    /\ abandoned \subseteq Rows
    /\ ahead \in [Rows -> SUBSET Rows]
    /\ refusals \in [Rows -> Nat]
    /\ overrun \subseteq Rows
    /\ faults \in 0 .. MaxFaults

Init ==
    /\ status = [r \in Rows |-> "ABSENT"]
    /\ holder = [r \in Rows |-> NoWorker]
    /\ lease = [r \in Rows |-> 0]
    /\ attempts = [r \in Rows |-> 0]
    /\ retryIn = [r \in Rows |-> 0]
    /\ task = [w \in Workers |-> [r \in Rows |-> "none"]]
    /\ seen = [w \in Workers |-> [r \in Rows |-> 0]]
    /\ late = {}
    /\ delivered = {}
    /\ abandoned = {}
    /\ ahead = [r \in Rows |-> {}]
    /\ refusals = [r \in Rows |-> 0]
    /\ overrun = {}
    /\ faults = 0

-----------------------------------------------------------------------------
\* m2.created_at_utc < m1.created_at_utc within one partition_key.
Before(q, r) == /\ PartitionOf[q] = PartitionOf[r]
                /\ PartitionOf[r] # NoPartition
                /\ CreatedAt[q] < CreatedAt[r]

HolStatusesNoRetry == {"PENDING", "PUBLISHING"}

\* The statuses that block the rows behind them.
HolStatuses == {"PENDING", "PUBLISHING", "FAILED"}

ClaimableIgnoringLease(r) == status[r] \in {"PENDING", "FAILED", "PUBLISHING"}

Claimable(r) == \/ status[r] \in {"PENDING", "FAILED"}
                \/ status[r] = "PUBLISHING" /\ lease[r] = 0

Candidate(r) == /\ Claimable(r)
                /\ retryIn[r] = 0
                /\ ~ \E q \in Rows : Before(q, r) /\ status[q] \in HolStatuses

\* ORDER BY created_at_utc LIMIT batch_size.
OldestFirst(ids) ==
    LET candidates == {r \in Rows : Candidate(r)}
    IN  /\ ids \subseteq candidates
        /\ \A i \in ids, c \in candidates \ ids : CreatedAt[i] <= CreatedAt[c]
        /\ \/ Cardinality(ids) = BatchSize
           \/ ids = candidates /\ Cardinality(ids) < BatchSize

Committed == {r \in Rows : status[r] # "ABSENT"}

\* attempt_count is only ever compared with max_failures.
Capped(n) == IF n > MaxFailures THEN MaxFailures ELSE n

\* A row reaches the broker.
Received(r) == delivered' = delivered \cup {r}

SetStage(w, r, stage) == task' = [task EXCEPT ![w][r] = stage]

-----------------------------------------------------------------------------
\* A producer commits an outbox row together with its business change.  It has
\* stamped created_at_utc before, and not every producer holds a lock from there
\* to the commit: rows of a partition may commit in any order.
Enqueue(r) ==
    /\ status[r] = "ABSENT"
    /\ status' = [status EXCEPT ![r] = "PENDING"]
    /\ ahead' = [ahead EXCEPT ![r] = {q \in Committed : Before(q, r)}]
    /\ UNCHANGED <<holder, lease, attempts, retryIn, task, seen, broker, abandoned, refusals,
                   overrun, faults>>

\* _claim_batch, one transaction.  The WHERE clause of its UPDATE names the primary
\* key of the alias m1 and not of the updated table, so the statement joins the
\* table with m1 and, once one id matches, stamps every committed row.
Claim(w) ==
    /\ \A r \in Rows : task[w][r] = "none"
    /\ \E ids \in SUBSET Rows :
        /\ ids # {}
        /\ OldestFirst(ids)
        /\ status' = [r \in Rows |-> IF r \in Committed THEN "PUBLISHING" ELSE status[r]]
        /\ lease' = [r \in Rows |-> IF r \in Committed THEN ClaimTTL ELSE lease[r]]
        /\ holder' = [r \in Rows |-> IF r \in Committed THEN w
                                     ELSE IF holder[r] = w THEN NoWorker ELSE holder[r]]
        /\ task' = [task EXCEPT ![w] = [r \in Rows |-> IF r \in ids THEN "claimed" ELSE "none"]]
    /\ UNCHANGED <<attempts, retryIn, seen, broker, history, faults>>

Running(w) == {r \in Rows : task[w][r] \notin {"none", "claimed"}}

\* The first SELECT of _publish_single: by primary key and token.
Fetch(w, r) ==
    /\ task[w][r] = "claimed"
    /\ Cardinality(Running(w)) < MaxConcurrent
    /\ SetStage(w, r, IF holder[r] = w THEN "sending" ELSE "none")
    /\ UNCHANGED <<table, seen, broker, history, faults>>

\* broker.publish returns: the broker acknowledged the message.
PublishOk(w, r) ==
    /\ task[w][r] = "sending"
    /\ Received(r)
    /\ SetStage(w, r, "acked")
    /\ UNCHANGED <<table, seen, late, history, faults>>

PublishErrorIgnored(w, r) ==
    /\ task[w][r] = "sending"
    /\ late' = late \cup {r}
    /\ SetStage(w, r, "acked")
    /\ UNCHANGED <<table, seen, delivered, history, faults>>

\* broker.publish raises, for example when the delivery report is not there
\* within five seconds: the producer may still get the message through.
PublishError(w, r) ==
    /\ task[w][r] = "sending"
    /\ faults < MaxFaults
    /\ faults' = faults + 1
    /\ refusals' = [refusals EXCEPT ![r] = @ + 1]
    /\ late' = late \cup {r}
    /\ SetStage(w, r, "refused")
    /\ UNCHANGED <<table, seen, delivered, abandoned, ahead, overrun>>

LateDelivery(r) ==
    /\ r \in late
    /\ late' = late \ {r}
    /\ Received(r)
    /\ UNCHANGED <<table, task, seen, history, faults>>

\* Does the row still carry the token of the worker's batch?
StillHeld(w, r) == holder[r] = w

\* The second SELECT of _publish_single, in the finalising transaction.  It
\* takes no lock; a row that has lost the token is left as it is.
Refetch(w, r) ==
    /\ task[w][r] \in {"acked", "refused"}
    /\ IF StillHeld(w, r)
       THEN /\ SetStage(w, r, IF task[w][r] = "acked" THEN "saveAcked" ELSE "saveRefused")
            /\ seen' = [seen EXCEPT ![w][r] = attempts[r]]
       ELSE /\ SetStage(w, r, "none")
            /\ UNCHANGED seen
    /\ UNCHANGED <<table, broker, history, faults>>

Release(r) == /\ holder' = [holder EXCEPT ![r] = NoWorker]
              /\ lease' = [lease EXCEPT ![r] = 0]

Finished(w, r) == /\ SetStage(w, r, "none")
                  /\ seen' = [seen EXCEPT ![w][r] = 0]

\* _mark_published and its commit.  The UPDATE names the row by primary key
\* alone, and writes attempt_count only if the fetched value was not 0 already.
MarkPublished(w, r) ==
    /\ task[w][r] = "saveAcked"
    /\ status' = [status EXCEPT ![r] = "PUBLISHED"]
    /\ attempts' = IF seen[w][r] = 0 THEN attempts ELSE [attempts EXCEPT ![r] = 0]
    /\ Release(r)
    /\ Finished(w, r)
    /\ UNCHANGED <<retryIn, broker, history, faults>>

ExhaustedEarly(n) == n >= MaxFailures - 1

Exhausted(n) == n >= MaxFailures

\* _mark_failed and its commit: dead letter, or another attempt later.
MarkFailed(w, r) ==
    LET count == Capped(seen[w][r] + 1)
    IN  /\ task[w][r] = "saveRefused"
        /\ attempts' = [attempts EXCEPT ![r] = count]
        /\ IF Exhausted(seen[w][r] + 1)
           THEN /\ status' = [status EXCEPT ![r] = "DEAD_LETTER"]
                /\ abandoned' = abandoned \cup {r}
                /\ UNCHANGED retryIn
           ELSE /\ status' = [status EXCEPT ![r] = "FAILED"]
                /\ retryIn' = [retryIn EXCEPT ![r] = Backoff[count]]
                /\ UNCHANGED abandoned
        /\ Release(r)
        /\ Finished(w, r)
        /\ UNCHANGED <<broker, ahead, refusals, overrun, faults>>

\* A database call of a task fails; _safe_publish swallows the exception.
TaskFault(w, r) ==
    /\ task[w][r] \notin {"none", "sending"}
    /\ faults < MaxFaults
    /\ faults' = faults + 1
    /\ Finished(w, r)
    /\ UNCHANGED <<table, broker, history>>

\* The process dies and starts again with nothing but the table.
Crash(w) ==
    /\ faults < MaxFaults
    /\ faults' = faults + 1
    /\ task' = [task EXCEPT ![w] = [r \in Rows |-> "none"]]
    /\ seen' = [seen EXCEPT ![w] = [r \in Rows |-> 0]]
    /\ holder' = [r \in Rows |-> IF holder[r] = w THEN NoWorker ELSE holder[r]]
    /\ UNCHANGED <<status, lease, attempts, retryIn, broker, history>>

Less(n) == IF n > 0 THEN n - 1 ELSE 0

\* Rows whose lease runs out under a task with the next tick.
RunningOut == {r \in Rows : lease[r] <= 1 /\ \E w \in Workers : task[w][r] # "none"}

\* Time passes.  A publish waits five seconds at most and a claim lasts sixty, but
\* nothing makes a task end before its lease.
Tick ==
    /\ \E r \in Rows : lease[r] + retryIn[r] > 0
    /\ \/ RunningOut \subseteq overrun /\ UNCHANGED faults
       \/ ~ RunningOut \subseteq overrun /\ faults < MaxFaults /\ faults' = faults + 1
    /\ overrun' = overrun \cup RunningOut
    /\ lease' = [r \in Rows |-> Less(lease[r])]
    /\ retryIn' = [r \in Rows |-> Less(retryIn[r])]
    /\ UNCHANGED <<status, holder, attempts, task, seen, broker, abandoned, ahead, refusals>>

TaskStep(w, r) ==
    \/ Fetch(w, r)
    \/ PublishOk(w, r)
    \/ PublishError(w, r)
    \/ Refetch(w, r)
    \/ MarkPublished(w, r)
    \/ MarkFailed(w, r)

Next ==
    \/ \E r \in Rows : Enqueue(r) \/ LateDelivery(r)
    \/ \E w \in Workers : Claim(w) \/ Crash(w)
    \/ \E w \in Workers, r \in Rows : TaskStep(w, r) \/ TaskFault(w, r)
    \/ Tick

Spec == Init /\ [][Next]_vars

\* run() polls for ever, gather awaits every task and the clock goes on;
\* nothing forces a producer, the broker's late deliveries or a fault.
Fairness ==
    /\ WF_vars(Tick)
    /\ \A w \in Workers : WF_vars(Claim(w))
    /\ \A w \in Workers, r \in Rows : WF_vars(TaskStep(w, r))

FairSpec == Spec /\ Fairness

-----------------------------------------------------------------------------
\* A row is marked PUBLISHED only when the broker has its message: the event is
\* not lost to a crash, a swapped finaliser or a claim that changed hands.
PublishedWasDelivered == \A r \in Rows : status[r] = "PUBLISHED" => r \in delivered

\* The relay seen from outside: committed, delivered and abandoned rows.
Delivery == INSTANCE OutboxDelivery WITH committed <- Committed

\* Across any number of claims, takeovers and crashes the broker sees what the
\* abstract outbox allows: no first delivery overtakes an earlier event that was
\* committed before it, unless that one is dead-lettered.
DeliversInOrder == Delivery!Spec

\* As long as no lease has run out under its task, no two relay instances publish
\* the same row at the same time (SKIP LOCKED, claim token and lease together).
OneTaskPerRow ==
    \A v, w \in Workers, r \in Rows \ overrun :
        task[v][r] # "none" /\ task[w][r] # "none" => v = w

\* An event is given up only after as many failed publishes of it as the setting says:
\* neither a takeover nor a finaliser with a stale attempt_count cuts its retries short.
GivenUpAfterFailures == \A r \in abandoned : refusals[r] >= MaxFailures

-----------------------------------------------------------------------------
\* What the project says of the relay and its claim refutes.

Terminal == {"PUBLISHED", "DEAD_LETTER"}

\* PLATFORM_STANDARD 9.2: no arrow leaves PUBLISHED or DEAD_LETTER, so a row there
\* never returns to the queue.
TerminalIsFinal ==
    [][\A r \in Rows : status[r] \in Terminal => status'[r] = status[r]]_vars

\* DECISIONS, "event delivery is at-least-once": every committed event is delivered
\* to the broker or dead-lettered.
EveryEventSettles ==
    \A r \in Rows : status[r] # "ABSENT" ~> r \in delivered \cup abandoned
=============================================================================
