---------------------------- MODULE DriverImport -----------------------------
(***************************************************************************)
(* An import job of the driver service (routers/import_jobs.py,            *)
(* workers/import_worker.py) among the requests of Drivers.                *)
(*                                                                         *)
(* The worker claims the job in a transaction of its own and works all     *)
(* its rows off in a second one, without savepoints: what it has flushed   *)
(* stays locked and unseen until the end, and one failing flush undoes it  *)
(* all.  A third transaction then marks the job.                           *)
(***************************************************************************)
EXTENDS Drivers, Sequences, SequencesExt

CONSTANT Jobs   \* the lists of rows that may be imported

ImportRows == [code: Codes, status: {"ACTIVE", "INACTIVE"}]

ASSUME ImportAssumption == Jobs \subseteq Seq(ImportRows) \ {<<>>}

VARIABLES job,      \* driver_import_jobs and driver_import_job_rows
          worker,   \* the import worker
          died      \* has it died, or failed to mark a job?

vars == <<driverVars, job, worker, died>>

JobStatuses == {"none", "PENDING", "RUNNING", "COMPLETED", "PARTIAL_SUCCESS", "FAILED"}
Ended == {"COMPLETED", "PARTIAL_SUCCESS", "FAILED"}
Results == {"CREATED", "UPDATED", "FAILED"}

\* The worker's transaction: results of the rows so far, drivers with a new
\* event, and the row at hand.
Resting == [at |-> "idle"]
AtRow(results, heard) == [at |-> "row", results |-> results, heard |-> heard]

TypeOK ==
    /\ DriversTypeOK
    /\ \A d \in DOMAIN flushed : With(driver, flushed)[d] \in Rows
    /\ job.status \in JobStatuses
    /\ job.rows \in Jobs \cup {<<>>} /\ job.results \in Seq(Results)
    /\ job.success \in 0 .. Len(job.rows) /\ job.failed \in 0 .. Len(job.rows)
    /\ worker.at \in {"idle", "row", "flush", "poisoned"}

Init ==
    /\ DriversInit
    /\ job = [status |-> "none", rows |-> <<>>, results |-> <<>>, success |-> 0, failed |-> 0]
    /\ worker = Resting
    /\ died = FALSE

-----------------------------------------------------------------------------

CreateImportJob ==
    /\ job.status = "none"
    /\ \E rows \in Jobs : job' = [job EXCEPT !.status = "PENDING", !.rows = rows]
    /\ UNCHANGED <<driverVars, worker, died>>

Claimable == job.status = "PENDING"

\* _process_pending_jobs up to its first commit
ClaimJob ==
    /\ worker = Resting /\ Claimable
    /\ job' = [job EXCEPT !.status = "RUNNING"]
    /\ worker' = AtRow(<<>>, {})
    /\ UNCHANGED <<driverVars, died>>

\* What the worker's own transaction sees.
Seen == With(driver, flushed)

\* The driver a row is about, among those without the mark of a soft delete.
Found(code) == {d \in Drivers : /\ Seen[d] # Nothing
                                /\ ~Seen[d].deleted /\ Seen[d].code = code}

Current == job.rows[Len(worker.results) + 1]

LookUpRow ==
    /\ worker.at = "row" /\ Len(worker.results) < Len(job.rows)
    /\ \/ \E d \in Found(Current.code) :
             worker' = [at |-> "flush", results |-> worker.results, heard |-> worker.heard,
                        driver |-> d, result |-> "UPDATED",
                        put |-> IF Seen[d].status = Current.status THEN <<>> ELSE [status |-> Current.status]]
       \/ \E d \in Drivers :
             /\ Found(Current.code) = {} /\ Fresh(d)
             /\ worker' = [at |-> "flush", results |-> worker.results, heard |-> worker.heard,
                           driver |-> d, result |-> "CREATED",
                           put |-> [status |-> Current.status, deleted |-> FALSE, code |-> Current.code]]
    /\ UNCHANGED <<driverVars, job, died>>

\* The flush of a row.  The snapshot taken after an UPDATE reads the computed
\* column is_assignable, which the UPDATE has expired: where the ORM would
\* have to fetch it, that raises, and the row counts as failed, without audit
\* and event, although its UPDATE stands.
FlushRow ==
    LET d == worker.driver
        columns == IF d \in DOMAIN flushed THEN Over(worker.put, flushed[d]) ELSE worker.put
    IN /\ worker.at = "flush"
       /\ lock[d] \in {Nothing, "worker"}
       /\ worker.result = "UPDATED" => Seen[d] # Nothing
       /\ worker.result = "CREATED" => Fresh(d)
       /\ flushed' = Over([e \in {d} |-> columns], flushed)
       /\ Fits(With(driver, flushed'))
       /\ lock' = [lock EXCEPT ![d] = "worker"]
       /\ \/ worker' = AtRow(Append(worker.results, worker.result), worker.heard \cup {d})
          \/ /\ worker.result = "UPDATED"
             /\ worker' = AtRow(Append(worker.results, "FAILED"), worker.heard)
       /\ UNCHANGED <<schema, driver, last, request, job, died>>

\* The transaction is rolled back.
RollBackImport ==
    /\ flushed' = <<>>
    /\ lock' = [d \in Drivers |-> IF lock[d] = "worker" THEN Nothing ELSE lock[d]]
    /\ UNCHANGED <<schema, driver, last, request>>

FlushFailsSwallowed ==
    /\ worker.at = "flush"
    /\ RollBackImport
    /\ worker' = AtRow(Append(worker.results, "FAILED"), {})
    /\ UNCHANGED <<job, died>>

\* A constraint, a lock timeout, a row that has gone: the session is of no
\* use any more, whatever rows are left.
FlushFails ==
    /\ worker.at \in {"flush", "row"}
    /\ RollBackImport
    /\ worker' = [at |-> "poisoned"]
    /\ UNCHANGED <<job, died>>

SucceededOrUpdated(results) == Cardinality({i \in DOMAIN results : results[i] = "CREATED"})

Succeeded(results) == Cardinality({i \in DOMAIN results : results[i] # "FAILED"})

JobStatusUnknown(results) ==
    IF Succeeded(results) = Len(results) THEN "SUCCEEDED"
    ELSE IF Succeeded(results) = 0 THEN "FAILED" ELSE "PARTIAL_SUCCESS"

JobStatus(results) ==
    IF Succeeded(results) = Len(results) THEN "COMPLETED"
    ELSE IF Succeeded(results) = 0 THEN "FAILED" ELSE "PARTIAL_SUCCESS"

\* The end of _run_job_logic and its commit: drivers, rows and job at once.
CommitJob ==
    /\ worker.at = "row" /\ Len(worker.results) = Len(job.rows)
    /\ driver' = Seen
    /\ last' = [d \in Drivers |-> IF d \in worker.heard THEN "change" ELSE last[d]]
    /\ flushed' = <<>>
    /\ lock' = [d \in Drivers |-> IF lock[d] = "worker" THEN Nothing ELSE lock[d]]
    /\ job' = [job EXCEPT !.status = JobStatus(worker.results), !.results = worker.results,
                          !.success = Succeeded(worker.results),
                          !.failed = Len(worker.results) - Succeeded(worker.results)]
    /\ worker' = Resting
    /\ UNCHANGED <<schema, request, died>>

\* The except branch: the job is marked in a session of its own.
FailJob ==
    /\ worker.at = "poisoned"
    /\ job' = [job EXCEPT !.status = "FAILED"]
    /\ worker' = Resting
    /\ UNCHANGED <<driverVars, died>>

\* The process dies, or the marking transaction fails as well.
Die ==
    /\ worker # Resting /\ ~died
    /\ RollBackImport
    /\ worker' = Resting
    /\ died' = TRUE
    /\ UNCHANGED job

WorkerStep == ClaimJob \/ LookUpRow \/ FlushRow \/ FlushFails \/ CommitJob \/ FailJob

Next ==
    \/ CreateDriver /\ UNCHANGED <<job, worker, died>>
    \/ \E p \in Requests : RequestStep(p) /\ UNCHANGED <<job, worker, died>>
    \/ CreateImportJob \/ WorkerStep \/ Die

Spec == Init /\ [][Next]_vars

-----------------------------------------------------------------------------
(* Properties.                                                             *)

\* What a job says of itself agrees: ended with results, its counts and its
\* status are those of its rows; ended by an error, its rows say nothing and
\* it counts none; and it is RUNNING only while a worker has it or after one
\* has died.
JobTellsTheTruth ==
    /\ job.status \in Ended =>
          \/ /\ Len(job.results) = Len(job.rows)
             /\ job.success = Cardinality({i \in DOMAIN job.rows : job.results[i] \in {"CREATED", "UPDATED"}})
             /\ job.success + job.failed = Len(job.rows)
             /\ (job.status = "COMPLETED") <=> (job.failed = 0)
          \/ job.status = "FAILED" /\ job.results = <<>> /\ job.success = 0 /\ job.failed = 0
    /\ job.status = "RUNNING" => worker # Resting \/ died
    /\ worker.at # "idle" => job.status = "RUNNING"

\* What a job reports of a row is in the table: once it ends with results,
\* there is a driver with a new event for every row that did not fail, and
\* for every row that created one a driver with its code that is not deleted,
\* whatever later rows failed and whatever requests did meanwhile.
ReportedIsStored ==
    [][job'.results # job.results =>
          \A i \in DOMAIN job'.results : job'.results[i] # "FAILED" =>
             \E d \in Drivers :
                /\ driver'[d] # Nothing /\ last'[d] = "change"
                /\ job'.results[i] = "CREATED" =>
                      driver'[d].code = job.rows[i].code /\ ~driver'[d].deleted]_vars

=============================================================================
