-------------------------- MODULE LocationProcessing --------------------------
(***************************************************************************)
(* location_service/processing with the endpoints of routers/processing.py,*)
(* approval.py and pairs.py that write the same rows, for one route pair:  *)
(* requests queue processing runs, workers claim them, calculate outside   *)
(* any transaction and save a draft, and administrators approve or discard *)
(* the draft, edit or delete the pair and force runs to fail.              *)
(*                                                                         *)
(* The two directions of a pair get their versions in one transaction and  *)
(* are promoted or discarded in one; a draft here is both of them.         *)
(*                                                                         *)
(* As in TripEnrichment, a commit writes the columns that differ from what *)
(* the session read (Flush).  That includes approve and discard: the       *)
(* handler loads the pair without a lock, and the SELECT FOR UPDATE of     *)
(* _get_locked_pair leaves the attributes of an object that the session    *)
(* already holds as they are.                                              *)
(***************************************************************************)
EXTENDS Integers, Sequences

CONSTANTS Runs,          \* processing run ids, each used once
          Workers, Requests,
          NoWorker, StaleToken, NoRun,
          ClaimTTL,      \* processing_claim_ttl_seconds, in ticks
          StuckSLA,      \* run_stuck_sla_minutes, in ticks
          MaxAttempts,   \* processing_max_attempts
          MaxDecisions,  \* bound on approvals, discards, decisions and deletions
          MaxCrashes     \* bound on deaths of workers

ASSUME ProcessingAssumption ==
    /\ NoWorker \notin Workers /\ StaleToken \notin Workers \cup {NoWorker} /\ NoRun \notin Runs
    /\ ClaimTTL \in Nat \ {0} /\ StuckSLA \in Nat /\ StuckSLA > ClaimTTL
    /\ MaxAttempts \in Nat /\ MaxAttempts > 1
    /\ MaxDecisions \in Nat /\ MaxCrashes \in Nat

VARIABLES pair,         \* location_route_pairs
          drafts,       \* the versions of the two routes, by version_no
          runs, age,    \* location_processing_runs; ticks since an open one was made or claimed
          job,          \* what each worker is doing
          request,      \* what each request has read
          counterLock,  \* the worker whose transaction has the next version numbers
          pairLock,     \* the worker whose transaction has updated the pair's row
          decisions, crashes

locks == <<counterLock, pairLock>>
vars == <<pair, drafts, runs, age, job, request, locks, decisions, crashes>>

None == 0               \* NULL, as a version number
PairStatuses == {"DRAFT", "ACTIVE", "SOFT_DELETED"}
DraftStatuses == {"CALCULATED_DRAFT", "ACTIVE", "SUPERSEDED", "DISCARDED"}
RunStatuses == {"ABSENT", "QUEUED", "RUNNING", "SUCCEEDED", "FAILED"}
Open == {"QUEUED", "RUNNING"}
Starts == {"calculate", "refresh", "bulk"}
Decisions == {"approve", "discard", "update", "delete"}

Pairs == [status: PairStatuses, active: Nat, pending: Nat, version: Nat]
Drafts == [status: DraftStatuses, run: Runs]
RunRows == [status: RunStatuses, attempt: 1 .. MaxAttempts,
            token: Workers \cup {NoWorker, StaleToken}]

\* What a worker knows: its run, and while it saves what it read of the pair.
Jobs == [at: {"idle"}, run: {NoRun}]
        \cup [at: {"claimed", "calculating", "failing", "marking"}, run: Runs]
        \cup [at: {"saving", "numbered", "checked", "failing", "marking"}, run: Runs,
              version: Nat, routed: BOOLEAN]

\* What a request has read.
Asks == [op: {"none"}] \cup [op: Decisions, read: Pairs] \cup [op: {"forceFail"}, run: Runs]

Idle == [at |-> "idle", run |-> NoRun]
NoRequest == [op |-> "none"]
At(w, stage) == job[w].at = stage

TypeOK ==
    /\ pair \in Pairs
    /\ {pair.active, pair.pending} \subseteq {None} \cup DOMAIN drafts
    /\ drafts \in Seq(Drafts)
    /\ runs \in [Runs -> RunRows]
    /\ age \in [Runs -> 0 .. StuckSLA]
    /\ job \in [Workers -> Jobs]
    /\ request \in [Requests -> Asks]
    /\ {counterLock, pairLock} \subseteq Workers \cup {NoWorker}
    /\ decisions \in 0 .. MaxDecisions /\ crashes \in 0 .. MaxCrashes

\* A pair as create_pair commits it.
Init ==
    /\ pair = [status |-> "DRAFT", active |-> None, pending |-> None, version |-> 1]
    /\ drafts = <<>>
    /\ runs = [r \in Runs |-> [status |-> "ABSENT", attempt |-> 1, token |-> NoWorker]]
    /\ age = [r \in Runs |-> 0]
    /\ job = [w \in Workers |-> Idle]
    /\ request = [q \in Requests |-> NoRequest]
    /\ counterLock = NoWorker /\ pairLock = NoWorker
    /\ decisions = 0 /\ crashes = 0

-----------------------------------------------------------------------------
Overwrite(current, read, new) == new

\* The ORM's UPDATE: columns of new that differ from the row as it was read.
Flush(current, read, new) ==
    [c \in DOMAIN current |-> IF new[c] # read[c] THEN new[c] ELSE current[c]]

AnyHolder(w, r) == TRUE
HasToken(w, r) == runs[r].token = w

\* The token of a job that is over matches no worker any more.
Retire(w, rows) ==
    [r \in Runs |-> IF rows[r].token = w THEN [rows[r] EXCEPT !.token = StaleToken] ELSE rows[r]]

\* Leaving a session gives its locks back.
Unlock(w) ==
    /\ counterLock' = IF counterLock = w THEN NoWorker ELSE counterLock
    /\ pairLock' = IF pairLock = w THEN NoWorker ELSE pairLock

Become(w, stage) == job' = [job EXCEPT ![w].at = stage]

\* process_claimed_run returns.
Finish(w, rows) ==
    /\ runs' = Retire(w, rows)
    /\ job' = [job EXCEPT ![w] = Idle]

ClaimableOnceMore(r) ==
    /\ \/ runs[r].status = "QUEUED"
       \/ runs[r].status = "RUNNING" /\ age[r] >= ClaimTTL
    /\ runs[r].attempt <= MaxAttempts

\* A started_at before the stuck cutoff implies that the shorter claim is over.
Claimable(r) ==
    /\ \/ runs[r].status = "QUEUED"
       \/ runs[r].status = "RUNNING" /\ (runs[r].token = NoWorker \/ age[r] >= ClaimTTL)
    /\ runs[r].attempt < MaxAttempts

\* claim_next_processing_run.
Claim(w) ==
    /\ At(w, "idle")
    /\ \E r \in Runs :
        /\ Claimable(r)
        /\ runs' = [runs EXCEPT ![r] =
                      [status |-> "RUNNING", token |-> w,
                       attempt |-> IF @.status = "RUNNING" THEN @.attempt + 1 ELSE @.attempt]]
        /\ age' = [age EXCEPT ![r] = 0]
        /\ job' = [job EXCEPT ![w] = [at |-> "claimed", run |-> r]]
    /\ UNCHANGED <<pair, drafts, request, locks, decisions, crashes>>

\* _load_processing_context: a run that is not RUNNING under this claim is left.
Load(w) ==
    /\ At(w, "claimed")
    /\ LET r == job[w].run
       IN  IF runs[r].status = "RUNNING" /\ HasToken(w, r)
           THEN Become(w, "calculating") /\ UNCHANGED runs
           ELSE Finish(w, runs)
    /\ UNCHANGED <<pair, drafts, age, request, locks, decisions, crashes>>

\* The providers have answered for both directions.  The saving session reads the
\* pair, and looks for its routes, without a lock.
SaveRead(w) ==
    /\ At(w, "calculating")
    /\ job' = [job EXCEPT ![w] = [at |-> "saving", run |-> @.run,
                                  version |-> pair.version, routed |-> drafts # <<>>]]
    /\ UNCHANGED <<pair, drafts, runs, age, request, locks, decisions, crashes>>

\* The counters are locked FOR UPDATE, or made together with the routes.  Whoever
\* would make them a second time gets an IntegrityError for the route code.
SaveNumber(w) ==
    /\ At(w, "saving")
    /\ counterLock = NoWorker
    /\ IF ~ job[w].routed /\ drafts # <<>>
       THEN Become(w, "failing") /\ UNCHANGED counterLock
       ELSE Become(w, "numbered") /\ counterLock' = w
    /\ UNCHANGED <<pair, drafts, runs, age, request, pairLock, decisions, crashes>>

\* The pair is flushed before the SELECT that looks for the claim; a claim that is
\* lost rolls everything back.
SaveCheck(w) ==
    /\ At(w, "numbered")
    /\ pairLock = NoWorker
    /\ LET r == job[w].run
       IN  IF HasToken(w, r)
           THEN /\ Become(w, "checked")
                /\ pairLock' = w
                /\ UNCHANGED <<runs, counterLock>>
           ELSE Finish(w, runs) /\ Unlock(w)
    /\ UNCHANGED <<pair, drafts, age, request, decisions, crashes>>

\* The last SELECT looked for the claim only, not for the status.  The columns
\* written are new values whatever the session has read.
SaveCommit(w) ==
    /\ At(w, "checked")
    /\ LET r == job[w].run
       IN  /\ drafts' = Append(drafts, [status |-> "CALCULATED_DRAFT", run |-> r])
           /\ pair' = [pair EXCEPT !.pending = Len(drafts) + 1,
                                   !.version = job[w].version + 1]
           /\ Finish(w, [runs EXCEPT ![r].status = "SUCCEEDED", ![r].token = NoWorker])
           /\ age' = [age EXCEPT ![r] = 0]
           /\ Unlock(w)
    /\ UNCHANGED <<request, decisions, crashes>>

\* A provider, a validation or the database fails.  Nothing of a saving session is
\* seen before its commit, so that to fail while saving is to fail here.
Raise(w) ==
    /\ At(w, "calculating")
    /\ Become(w, "failing")
    /\ UNCHANGED <<pair, drafts, runs, age, request, locks, decisions, crashes>>

\* The failure of a second or later attempt goes unrecorded.
MarkReadFirst(w) ==
    /\ At(w, "failing")
    /\ LET r == job[w].run
       IN  IF HasToken(w, r) /\ runs[r].attempt = 1
           THEN Become(w, "marking") /\ UNCHANGED runs
           ELSE Finish(w, runs)
    /\ UNCHANGED <<pair, drafts, age, request, locks, decisions, crashes>>

\* mark_processing_run_failed: the SELECT by token, and the commit.
MarkRead(w) ==
    /\ At(w, "failing")
    /\ LET r == job[w].run
       IN  IF HasToken(w, r)
           THEN Become(w, "marking") /\ UNCHANGED runs
           ELSE Finish(w, runs)
    /\ UNCHANGED <<pair, drafts, age, request, locks, decisions, crashes>>

MarkFailed(w) ==
    /\ At(w, "marking")
    /\ LET r == job[w].run
       IN  /\ Finish(w, [runs EXCEPT ![r].status = "FAILED", ![r].token = NoWorker])
           /\ age' = [age EXCEPT ![r] = 0]
    /\ UNCHANGED <<pair, drafts, request, locks, decisions, crashes>>

\* The process dies, or run_processing_worker catches what marking raised.
Crash(w) ==
    /\ ~ At(w, "idle")
    /\ crashes < MaxCrashes
    /\ crashes' = crashes + 1
    /\ Finish(w, runs)
    /\ Unlock(w)
    /\ UNCHANGED <<pair, drafts, age, request, decisions>>

-----------------------------------------------------------------------------
\* What the endpoints ask of the pair they have loaded.  A bulk refresh that names
\* its pairs asks for nothing.
Allowed(op) ==
    CASE op \in {"approve", "discard"} -> pair.pending # None /\ pair.status # "SOFT_DELETED"
      [] op = "delete"    -> pair.status # "SOFT_DELETED"
      [] op = "update"    -> pair.status = "DRAFT"
      [] op = "calculate" -> pair.status = "DRAFT" /\ pair.pending = None
      [] op = "refresh"   -> pair.status = "ACTIVE"
      [] op = "bulk"      -> TRUE

\* trigger_processing; the unique index refuses a second open run of the pair.  What
\* a calculate or refresh does on an outdated read, a bulk refresh may do anyway.
Trigger(op) ==
    /\ Allowed(op)
    /\ \A r \in Runs : runs[r].status \notin Open
    /\ \E r \in Runs :
        /\ runs[r].status = "ABSENT"
        /\ runs' = [runs EXCEPT ![r].status = "QUEUED"]
    /\ UNCHANGED <<pair, drafts, age, job, request, locks, decisions, crashes>>

\* A decision loads the pair; its If-Match names the version just loaded.
Ask(q, op) ==
    /\ request[q] = NoRequest
    /\ Allowed(op)
    /\ decisions < MaxDecisions
    /\ decisions' = decisions + 1
    /\ request' = [request EXCEPT ![q] = [op |-> op, read |-> pair]]
    /\ UNCHANGED <<pair, drafts, runs, age, job, locks, crashes>>

Answer(q) == request' = [request EXCEPT ![q] = NoRequest]

\* The columns of the pair that approve, discard, PATCH and DELETE set.
PromotedKeepingDraft(was) ==
    [was EXCEPT !.status = "ACTIVE", !.active = was.pending, !.version = @ + 1]

Promoted(was) ==
    [was EXCEPT !.status = "ACTIVE", !.active = was.pending, !.pending = None, !.version = @ + 1]

Decided(op, was) ==
    CASE op = "approve" -> Promoted(was)
      [] op = "discard" -> [was EXCEPT !.pending = None, !.version = @ + 1]
      [] op = "update"  -> [was EXCEPT !.version = @ + 1]
      [] op = "delete"  -> [was EXCEPT !.status = "SOFT_DELETED", !.version = @ + 1]

\* The statements that approve and discard send for the versions.
Redrafted(op, was) ==
    [n \in DOMAIN drafts |->
        CASE op = "approve" /\ n = was.pending -> [drafts[n] EXCEPT !.status = "ACTIVE"]
          [] op = "approve" /\ n # was.pending /\ drafts[n].status = "ACTIVE"
                -> [drafts[n] EXCEPT !.status = "SUPERSEDED"]
          [] op = "discard" /\ n = was.pending -> [drafts[n] EXCEPT !.status = "DISCARDED"]
          [] OTHER -> drafts[n]]

\* approve_route_versions, discard_route_versions, update_pair and soft_delete_pair
\* from their first lock on the pair to the commit.
Decide(q) ==
    /\ request[q].op \in Decisions
    /\ pairLock = NoWorker
    /\ LET was == request[q].read
       IN  /\ pair' = Flush(pair, was, Decided(request[q].op, was))
           /\ drafts' = Redrafted(request[q].op, was)
    /\ Answer(q)
    /\ UNCHANGED <<runs, age, job, locks, decisions, crashes>>

\* force_fail_processing_run reads the run without a lock, and leaves its claim.
AskForceFail(q) ==
    /\ request[q] = NoRequest
    /\ \E r \in Runs :
        /\ runs[r].status \in Open /\ age[r] = StuckSLA
        /\ request' = [request EXCEPT ![q] = [op |-> "forceFail", run |-> r]]
    /\ UNCHANGED <<pair, drafts, runs, age, job, locks, decisions, crashes>>

ForceFail(q) ==
    /\ request[q].op = "forceFail"
    /\ runs' = [runs EXCEPT ![request[q].run].status = "FAILED"]
    /\ Answer(q)
    /\ age' = [age EXCEPT ![request[q].run] = 0]
    /\ UNCHANGED <<pair, drafts, job, locks, decisions, crashes>>

\* Time passes for the open runs, however long their workers take.
Tick ==
    /\ \E r \in Runs : runs[r].status \in Open /\ age[r] < StuckSLA
    /\ age' = [r \in Runs |-> IF runs[r].status \in Open /\ age[r] < StuckSLA
                              THEN age[r] + 1 ELSE age[r]]
    /\ UNCHANGED <<pair, drafts, runs, job, request, locks, decisions, crashes>>

WorkerStep(w) ==
    \/ Claim(w)
    \/ Load(w)
    \/ SaveRead(w)
    \/ SaveNumber(w)
    \/ SaveCheck(w)
    \/ SaveCommit(w)
    \/ MarkRead(w)
    \/ MarkFailed(w)

\* A request that has read ends.
RequestStep(q) ==
    \/ Decide(q)
    \/ ForceFail(q)

Next ==
    \/ \E w \in Workers : WorkerStep(w) \/ Raise(w) \/ Crash(w)
    \/ \E q \in Requests : RequestStep(q) \/ AskForceFail(q)
    \/ \E op \in Starts : Trigger(op)
    \/ \E q \in Requests, op \in Decisions : Ask(q, op)
    \/ Tick

Spec == Init /\ [][Next]_vars

-----------------------------------------------------------------------------
\* However often a run is claimed anew, and whoever forces it to fail, it leaves
\* one draft at most: a late worker's is rolled back with its transaction.
OneDraftPerRun ==
    \A m, n \in DOMAIN drafts : drafts[m].run = drafts[n].run => m = n

\* A pending pointer names a draft nobody has decided on, though approve and
\* discard decide on what they read before they waited for the lock.
PendingIsUndecided ==
    pair.pending # None => drafts[pair.pending].status = "CALCULATED_DRAFT"

\* A version is ACTIVE only while the pair names it: trips are never planned with a
\* second or a superseded route, whatever stale approvals, deletions and late drafts
\* are written.
ActiveIsCurrent ==
    \A n \in DOMAIN drafts : drafts[n].status = "ACTIVE" => pair.active = n

\* The last permitted attempt of a run has died.
Stranded(r) ==
    /\ runs[r].status = "RUNNING" /\ runs[r].attempt = MaxAttempts
    /\ \A w \in Workers : job[w].run = r => ~ HasToken(w, r)

\* Only the death of a worker strands a run: one that is late, overtaken, forced to
\* fail or refused by the database leaves it ended or to another claim.
OnlyDeathStrands == \A r \in Runs : Stranded(r) => crashes > 0

-----------------------------------------------------------------------------
\* What the code does not keep; TLC refutes each of the four.

\* The version that the pair names is ACTIVE: a discard that read the pair before
\* the approval of the same draft still discards it.
CurrentIsActive == pair.active # None => drafts[pair.active].status = "ACTIVE"

\* A deleted pair stays deleted: an approval that read the pair before writes its
\* status again.
DeletedStays == [][pair.status = "SOFT_DELETED" => pair'.status = "SOFT_DELETED"]_vars

\* "Bump pair row_version when draft pointers change": the version is counted from
\* what was read, and may be the one the pair already has.
VersionCoversDraft == [][pair'.pending # pair.pending => pair'.version # pair.version]_vars

\* A run that ended stays as it ended: one that was forced to fail keeps its claim
\* and may succeed afterwards.
EndedRunStays ==
    [][\A r \in Runs : runs[r].status \in {"SUCCEEDED", "FAILED"}
            => runs'[r].status = runs[r].status]_vars
=============================================================================
