----------------------- MODULE LocationProcessingProofs -----------------------
(***************************************************************************)
(* Proofs about LocationProcessing for any number of runs, workers and     *)
(* requests, any leases and attempts: its types, that a run leaves one     *)
(* draft, what the pointers of the pair name, and what strands a run.      *)
(***************************************************************************)
EXTENDS LocationProcessing, TLAPS

Drafted(r) == \E n \in DOMAIN drafts : drafts[n].run = r

\* A run with a draft has ended and has no claim, so that nobody saves for it again.
DraftedHasEnded ==
    \A r \in Runs : Drafted(r) => runs[r].token = NoWorker /\ runs[r].status \notin Open \cup {"ABSENT"}

\* The version counters let one transaction at a time look for its claim.
SavesExclude ==
    \A w \in Workers :
        /\ job[w].at \in {"numbered", "checked"} => counterLock = w
        /\ job[w].at = "checked" => ~ Drafted(job[w].run)

RunInv == OneDraftPerRun /\ DraftedHasEnded /\ SavesExclude

\* An undecided draft is not the active one.
PendingIsNew == pair.pending # None => pair.pending # pair.active

\* What a decision has read had an undecided draft that was not the active one.
DecisionHasDraft ==
    \A q \in Requests : request[q].op \in {"approve", "discard"} =>
        /\ request[q].read.pending \in DOMAIN drafts
        /\ request[q].read.pending # request[q].read.active

ReadIsKnown ==
    \A q \in Requests : request[q].op \in Decisions =>
        {request[q].read.active, request[q].read.pending} \subseteq {None} \cup DOMAIN drafts

PointerInv == PendingIsUndecided /\ ActiveIsCurrent /\ PendingIsNew /\ DecisionHasDraft

-----------------------------------------------------------------------------
\* The ORM writes the columns that a decision changed, and no others.
LEMMA FlushPair ==
    ASSUME NEW current \in Pairs, NEW read \in Pairs, NEW new \in Pairs
    PROVE  /\ Flush(current, read, new) \in Pairs
           /\ Flush(current, read, new).active =
                IF new.active # read.active THEN new.active ELSE current.active
           /\ Flush(current, read, new).pending =
                IF new.pending # read.pending THEN new.pending ELSE current.pending
  <1>1. DOMAIN current = {"status", "active", "pending", "version"}
    BY DEF Pairs
  <1> DEFINE f == [c \in {"status", "active", "pending", "version"} |->
                      IF new[c] # read[c] THEN new[c] ELSE current[c]]
  <1>2. Flush(current, read, new) = f
    BY <1>1, Zenon DEF Flush
  <1>3. f = [status |-> f["status"], active |-> f["active"],
             pending |-> f["pending"], version |-> f["version"]]
    OBVIOUS
  <1>4. /\ f["status"] \in PairStatuses /\ f["active"] \in Nat
        /\ f["pending"] \in Nat /\ f["version"] \in Nat
    BY DEF Pairs
  <1>5. f \in Pairs
    BY <1>3, <1>4 DEF Pairs
  <1> QED
    BY <1>2, <1>5

\* What a decision writes is a pair, and a decision that promotes or discards
\* leaves no pending draft.
LEMMA DecidedPair ==
    ASSUME NEW op \in Decisions, NEW was \in Pairs
    PROVE  /\ Decided(op, was) \in Pairs
           /\ op \in {"approve", "discard"} => Decided(op, was).pending = None
           /\ op \in {"update", "delete"} => Decided(op, was).pending = was.pending
           /\ Decided(op, was).active = IF op = "approve" THEN was.pending ELSE was.active
  <1> DEFINE d == Decided(op, was)
  <1>1. /\ was.status \in PairStatuses /\ was.active \in Nat /\ was.pending \in Nat
        /\ was.version + 1 \in Nat
    BY DEF Pairs
  <1>2. DOMAIN was = {"status", "active", "pending", "version"}
    BY DEF Pairs
  <1>3. CASE op = "approve"
    <2>1. d = [status |-> "ACTIVE", active |-> was.pending, pending |-> None,
               version |-> was.version + 1]
      BY <1>2, <1>3 DEF Decided, Promoted, Pairs
    <2> QED
      BY <1>1, <1>3, <2>1 DEF Pairs, PairStatuses, None
  <1>4. CASE op = "discard"
    <2>1. d = [status |-> was.status, active |-> was.active, pending |-> None,
               version |-> was.version + 1]
      BY <1>2, <1>4 DEF Decided, Pairs
    <2> QED
      BY <1>1, <1>4, <2>1 DEF Pairs, PairStatuses, None
  <1>5. CASE op = "update"
    <2>1. d = [status |-> was.status, active |-> was.active, pending |-> was.pending,
               version |-> was.version + 1]
      BY <1>2, <1>5 DEF Decided, Pairs
    <2> QED
      BY <1>1, <1>5, <2>1 DEF Pairs, PairStatuses
  <1>6. CASE op = "delete"
    <2>1. d = [status |-> "SOFT_DELETED", active |-> was.active, pending |-> was.pending,
               version |-> was.version + 1]
      BY <1>2, <1>6 DEF Decided, Pairs
    <2> QED
      BY <1>1, <1>6, <2>1 DEF Pairs, PairStatuses
  <1> QED
    BY <1>3, <1>4, <1>5, <1>6 DEF Decisions

\* Deciding changes the status of versions, nothing else about them.
LEMMA RedraftedSeq ==
    ASSUME drafts \in Seq(Drafts), NEW op, NEW was \in Pairs
    PROVE  /\ Redrafted(op, was) \in Seq(Drafts)
           /\ DOMAIN Redrafted(op, was) = DOMAIN drafts
           /\ \A n \in DOMAIN drafts : Redrafted(op, was)[n].run = drafts[n].run
  <1> DEFINE g == Redrafted(op, was)
  <1>1. DOMAIN drafts = 1 .. Len(drafts) /\ Len(drafts) \in Nat
    OBVIOUS
  <1>2. ASSUME NEW n \in DOMAIN drafts
        PROVE  g[n] \in Drafts /\ g[n].run = drafts[n].run
    <2>1. drafts[n] \in Drafts
      BY <1>1
    <2>2. \A s \in DraftStatuses : /\ [drafts[n] EXCEPT !.status = s] \in Drafts
                                   /\ [drafts[n] EXCEPT !.status = s].run = drafts[n].run
      BY <2>1 DEF Drafts
    <2>3. \/ g[n] = drafts[n]
          \/ \E s \in {"ACTIVE", "SUPERSEDED", "DISCARDED"} : g[n] = [drafts[n] EXCEPT !.status = s]
      BY Zenon DEF Redrafted
    <2> QED
      BY <2>1, <2>2, <2>3 DEF DraftStatuses
  <1>3. DOMAIN g = DOMAIN drafts
    BY DEF Redrafted
  <1>4. g \in [1 .. Len(drafts) -> Drafts]
    BY <1>1, <1>2, <1>3, Zenon DEF Redrafted
  <1>5. g \in Seq(Drafts)
    BY <1>1, <1>4
  <1> QED
    BY <1>2, <1>3, <1>5

\* A saved draft is the last version.
LEMMA AppendedDraft ==
    ASSUME drafts \in Seq(Drafts), NEW d \in Drafts
    PROVE  /\ Append(drafts, d) \in Seq(Drafts)
           /\ Len(drafts) \in Nat
           /\ DOMAIN drafts = 1 .. Len(drafts)
           /\ DOMAIN Append(drafts, d) = 1 .. Len(drafts) + 1
           /\ \A n \in DOMAIN drafts : Append(drafts, d)[n] = drafts[n]
           /\ Append(drafts, d)[Len(drafts) + 1] = d
  OBVIOUS

\* Leaving a claim leaves the rows well typed, and does not touch a row without one.
LEMMA RetireRows ==
    ASSUME NEW w \in Workers, NEW rows \in [Runs -> RunRows]
    PROVE  /\ Retire(w, rows) \in [Runs -> RunRows]
           /\ \A r \in Runs : Retire(w, rows)[r].status = rows[r].status
           /\ \A r \in Runs : rows[r].token = NoWorker => Retire(w, rows)[r].token = NoWorker
  BY ProcessingAssumption DEF Retire, RunRows

\* A worker's stage changes along these moves, with its run and what it has read.
LEMMA JobMoves ==
    ASSUME NEW j \in Jobs, NEW s,
           <<j.at, s>> \in {<<"claimed", "calculating">>, <<"calculating", "failing">>,
                            <<"saving", "failing">>, <<"saving", "numbered">>,
                            <<"numbered", "checked">>, <<"failing", "marking">>}
    PROVE  [j EXCEPT !.at = s] \in Jobs
  <1>1. CASE j \in [at : {"claimed", "calculating", "failing", "marking"}, run : Runs]
    BY <1>1 DEF Jobs
  <1>2. CASE j \in [at : {"saving", "numbered", "checked", "failing", "marking"}, run : Runs,
                    version : Nat, routed : BOOLEAN]
    BY <1>2 DEF Jobs
  <1>3. CASE j \in [at : {"idle"}, run : {NoRun}]
    BY <1>3
  <1> QED
    BY <1>1, <1>2, <1>3 DEF Jobs

\* A worker that is not idle has a run; one that saves knows a version.
LEMMA JobTypes ==
    ASSUME NEW j \in Jobs
    PROVE  /\ j.at # "idle" => j.run \in Runs
           /\ j.at \in {"saving", "numbered", "checked"} => j.version \in Nat
  BY DEF Jobs

\* What requests have read.
LEMMA AskTypes ==
    ASSUME NEW a \in Asks
    PROVE  /\ a.op \in Decisions => a.read \in Pairs
           /\ a.op = "forceFail" => a.run \in Runs
  BY DEF Asks, Decisions
-----------------------------------------------------------------------------
\* The type invariant is inductive with what requests have read.
TypeInv == TypeOK /\ ReadIsKnown

LEMMA InitType == Init => TypeInv
  <1> SUFFICES ASSUME Init PROVE TypeInv
    OBVIOUS
  <1>1. pair \in Pairs /\ {pair.active, pair.pending} \subseteq {None} \cup DOMAIN drafts
    BY DEF Init, Pairs, PairStatuses, None
  <1>2. drafts \in Seq(Drafts)
    BY DEF Init
  <1>3. runs \in [Runs -> RunRows] /\ age \in [Runs -> 0 .. StuckSLA]
    BY ProcessingAssumption DEF Init, RunRows, RunStatuses
  <1>4. job \in [Workers -> Jobs] /\ request \in [Requests -> Asks] /\ ReadIsKnown
    BY DEF Init, Jobs, Asks, Idle, NoRequest, ReadIsKnown, Decisions
  <1>5. /\ {counterLock, pairLock} \subseteq Workers \cup {NoWorker}
        /\ decisions \in 0 .. MaxDecisions /\ crashes \in 0 .. MaxCrashes
    BY ProcessingAssumption DEF Init
  <1> QED
    BY <1>1, <1>2, <1>3, <1>4, <1>5 DEF TypeInv, TypeOK

\* The parts of the type invariant that speak of the pair, of the runs and of those
\* who work on them.
PairType ==
    /\ pair \in Pairs
    /\ {pair.active, pair.pending} \subseteq {None} \cup DOMAIN drafts
    /\ drafts \in Seq(Drafts)

RunType == runs \in [Runs -> RunRows] /\ age \in [Runs -> 0 .. StuckSLA]

ActorType ==
    /\ job \in [Workers -> Jobs]
    /\ {counterLock, pairLock} \subseteq Workers \cup {NoWorker}
    /\ crashes \in 0 .. MaxCrashes

RequestType ==
    /\ request \in [Requests -> Asks]
    /\ decisions \in 0 .. MaxDecisions
    /\ ReadIsKnown

LEMMA TypeParts ==
    /\ TypeInv => PairType /\ RunType /\ ActorType /\ RequestType
    /\ PairType' /\ RunType' /\ ActorType' /\ RequestType' => TypeInv'
  BY DEF TypeInv, TypeOK, PairType, RunType, ActorType, RequestType

\* A worker that leaves its run, and gives its locks back, leaves well-typed rows.
LEMMA FinishType ==
    ASSUME ActorType, NEW w \in Workers, NEW rows \in [Runs -> RunRows], Finish(w, rows)
    PROVE  runs' \in [Runs -> RunRows] /\ job' \in [Workers -> Jobs]
  <1>1. runs' \in [Runs -> RunRows]
    BY RetireRows DEF Finish
  <1>2. Idle \in Jobs
    BY DEF Idle, Jobs
  <1> QED
    BY <1>1, <1>2 DEF Finish, ActorType

LEMMA BecomeType ==
    ASSUME ActorType, NEW w \in Workers, NEW s, Become(w, s),
           <<job[w].at, s>> \in {<<"claimed", "calculating">>, <<"calculating", "failing">>,
                                 <<"saving", "failing">>, <<"saving", "numbered">>,
                                 <<"numbered", "checked">>, <<"failing", "marking">>}
    PROVE  job' \in [Workers -> Jobs]
  <1>1. [job[w] EXCEPT !.at = s] \in Jobs
    BY JobMoves DEF ActorType
  <1>2. job' = [job EXCEPT ![w] = [job[w] EXCEPT !.at = s]]
    BY Zenon DEF Become
  <1> QED
    BY <1>1, <1>2 DEF ActorType

LEMMA UnlockType ==
    ASSUME ActorType, NEW w \in Workers, Unlock(w)
    PROVE  {counterLock', pairLock'} \subseteq Workers \cup {NoWorker}
  BY DEF Unlock, ActorType
\* A step that leaves the drafts and the requests leaves what is known of them.
LEMMA RequestsStay ==
    ASSUME RequestType, UNCHANGED <<drafts, request, decisions>>
    PROVE  RequestType'
  BY DEF RequestType, ReadIsKnown

LEMMA WorkerType ==
    ASSUME TypeInv, NEW w \in Workers, WorkerStep(w) \/ Raise(w) \/ Crash(w)
    PROVE  TypeInv'
  <1>0. /\ PairType /\ RunType /\ ActorType /\ RequestType
        /\ job[w] \in Jobs
    BY TypeParts DEF ActorType
  <1>1. CASE Claim(w)
    <2>1. PICK r \in Runs :
              /\ Claimable(r)
              /\ runs' = [runs EXCEPT ![r] =
                            [status |-> "RUNNING", token |-> w,
                             attempt |-> IF @.status = "RUNNING" THEN @.attempt + 1 ELSE @.attempt]]
              /\ age' = [age EXCEPT ![r] = 0]
              /\ job' = [job EXCEPT ![w] = [at |-> "claimed", run |-> r]]
      BY <1>1 DEF Claim
    <2>2. runs[r].attempt \in 1 .. MaxAttempts /\ runs[r].attempt < MaxAttempts
      BY <1>0, <2>1 DEF RunType, RunRows, Claimable
    <2>3. RunType'
      BY <1>0, <2>1, <2>2, ProcessingAssumption DEF RunType, RunRows, RunStatuses
    <2>4. ActorType'
      BY <1>0, <1>1, <2>1 DEF Claim, ActorType, Jobs, locks
    <2>5. PairType' /\ RequestType'
      BY <1>0, <1>1, RequestsStay DEF Claim, PairType
    <2> QED
      BY <2>3, <2>4, <2>5, TypeParts
  <1>2. CASE Load(w)
    <2>1. RunType' /\ ActorType'
      <3>1. UNCHANGED <<age, counterLock, pairLock, crashes>>
        BY <1>2 DEF Load, locks
      <3>2. CASE Become(w, "calculating") /\ UNCHANGED runs
        BY <1>0, <1>2, <3>1, <3>2, BecomeType DEF Load, At, ActorType, RunType
      <3>3. CASE Finish(w, runs)
        BY <1>0, <3>1, <3>3, FinishType DEF ActorType, RunType
      <3> QED
        BY <1>2, <3>2, <3>3 DEF Load
    <2>2. PairType' /\ RequestType'
      BY <1>0, <1>2, RequestsStay DEF Load, PairType
    <2> QED
      BY <2>1, <2>2, TypeParts
  <1>3. CASE SaveRead(w)
    <2>1. job' \in [Workers -> Jobs]
      <3>1. [at |-> "saving", run |-> job[w].run, version |-> pair.version,
             routed |-> drafts # <<>>] \in Jobs
        BY <1>0, <1>3, JobTypes DEF SaveRead, At, PairType, Pairs, Jobs
      <3> QED
        BY <1>0, <1>3, <3>1 DEF SaveRead, ActorType
    <2>2. RunType' /\ ActorType' /\ PairType' /\ RequestType'
      BY <1>0, <1>3, <2>1, RequestsStay DEF SaveRead, PairType, RunType, ActorType, locks
    <2> QED
      BY <2>2, TypeParts
  <1>4. CASE SaveNumber(w)
    <2>1. ActorType'
      <3>1. UNCHANGED <<pairLock, crashes>>
        BY <1>4 DEF SaveNumber
      <3>2. CASE Become(w, "failing") /\ UNCHANGED counterLock
        BY <1>0, <1>4, <3>1, <3>2, BecomeType DEF SaveNumber, At, ActorType
      <3>3. CASE Become(w, "numbered") /\ counterLock' = w
        BY <1>0, <1>4, <3>1, <3>3, BecomeType DEF SaveNumber, At, ActorType
      <3> QED
        BY <1>4, <3>2, <3>3 DEF SaveNumber
    <2>2. RunType' /\ PairType' /\ RequestType'
      BY <1>0, <1>4, RequestsStay DEF SaveNumber, PairType, RunType
    <2> QED
      BY <2>1, <2>2, TypeParts
  <1>5. CASE SaveCheck(w)
    <2>1. RunType' /\ ActorType'
      <3>1. UNCHANGED <<age, crashes>>
        BY <1>5 DEF SaveCheck
      <3>2. CASE Become(w, "checked") /\ pairLock' = w /\ UNCHANGED <<runs, counterLock>>
        BY <1>0, <1>5, <3>1, <3>2, BecomeType DEF SaveCheck, At, ActorType, RunType
      <3>3. CASE Finish(w, runs) /\ Unlock(w)
        BY <1>0, <3>1, <3>3, FinishType, UnlockType DEF ActorType, RunType
      <3> QED
        BY <1>5, <3>2, <3>3 DEF SaveCheck
    <2>2. PairType' /\ RequestType'
      BY <1>0, <1>5, RequestsStay DEF SaveCheck, PairType
    <2> QED
      BY <2>1, <2>2, TypeParts
  <1>6. CASE SaveCommit(w)
    <2> DEFINE r == job[w].run
               d == [status |-> "CALCULATED_DRAFT", run |-> r]
               rows == [runs EXCEPT ![r].status = "SUCCEEDED", ![r].token = NoWorker]
    <2>1. r \in Runs /\ job[w].version + 1 \in Nat
      BY <1>0, <1>6, JobTypes DEF SaveCommit, At
    <2>2. drafts' = Append(drafts, d) /\ d \in Drafts
      BY <1>6, <2>1 DEF SaveCommit, Drafts, DraftStatuses
    <2>3. PairType'
      <3>1. /\ pair' = [pair EXCEPT !.pending = Len(drafts) + 1, !.version = job[w].version + 1]
            /\ Len(drafts) + 1 \in DOMAIN drafts' /\ DOMAIN drafts \subseteq DOMAIN drafts'
            /\ Len(drafts) + 1 \in Nat /\ drafts' \in Seq(Drafts)
        BY <1>0, <1>6, <2>2, AppendedDraft DEF SaveCommit, PairType
      <3>2. pair' \in Pairs /\ pair'.active = pair.active /\ pair'.pending = Len(drafts) + 1
        BY <1>0, <2>1, <3>1 DEF PairType, Pairs
      <3> QED
        BY <1>0, <3>1, <3>2 DEF PairType
    <2>4. rows \in [Runs -> RunRows]
      BY <1>0, <2>1 DEF RunType, RunRows, RunStatuses
    <2>5. Finish(w, rows) /\ Unlock(w) /\ age' = [age EXCEPT ![r] = 0] /\ UNCHANGED crashes
      BY <1>6 DEF SaveCommit
    <2> HIDE DEF rows
    <2>6. RunType' /\ ActorType'
      BY <1>0, <2>1, <2>4, <2>5, FinishType, UnlockType, ProcessingAssumption DEF RunType, ActorType
    <2>7. RequestType'
      <3>1. DOMAIN drafts \subseteq DOMAIN drafts'
        BY <1>0, <2>2, AppendedDraft DEF PairType
      <3> QED
        BY <1>0, <1>6, <3>1 DEF SaveCommit, RequestType, ReadIsKnown
    <2> QED
      BY <2>3, <2>6, <2>7, TypeParts
  <1>7. CASE MarkRead(w)
    <2>1. RunType' /\ ActorType'
      <3>1. UNCHANGED <<age, counterLock, pairLock, crashes>>
        BY <1>7 DEF MarkRead, locks
      <3>2. CASE Become(w, "marking") /\ UNCHANGED runs
        BY <1>0, <1>7, <3>1, <3>2, BecomeType DEF MarkRead, At, ActorType, RunType
      <3>3. CASE Finish(w, runs)
        BY <1>0, <3>1, <3>3, FinishType DEF ActorType, RunType
      <3> QED
        BY <1>7, <3>2, <3>3 DEF MarkRead
    <2>2. PairType' /\ RequestType'
      BY <1>0, <1>7, RequestsStay DEF MarkRead, PairType
    <2> QED
      BY <2>1, <2>2, TypeParts
  <1>8. CASE MarkFailed(w)
    <2> DEFINE r == job[w].run
               rows == [runs EXCEPT ![r].status = "FAILED", ![r].token = NoWorker]
    <2>1. r \in Runs
      BY <1>0, <1>8, JobTypes DEF MarkFailed, At
    <2>2. rows \in [Runs -> RunRows]
      BY <1>0, <2>1 DEF RunType, RunRows, RunStatuses
    <2>3. /\ Finish(w, rows) /\ age' = [age EXCEPT ![r] = 0]
          /\ UNCHANGED <<counterLock, pairLock, crashes>>
      BY <1>8 DEF MarkFailed, locks
    <2> HIDE DEF rows
    <2>4. RunType' /\ ActorType'
      BY <1>0, <2>1, <2>2, <2>3, FinishType, ProcessingAssumption DEF RunType, ActorType
    <2>5. PairType' /\ RequestType'
      BY <1>0, <1>8, RequestsStay DEF MarkFailed, PairType
    <2> QED
      BY <2>4, <2>5, TypeParts
  <1>9. CASE Raise(w)
    <2>1. RunType' /\ ActorType'
      BY <1>0, <1>9, BecomeType DEF Raise, At, ActorType, RunType, locks
    <2>2. PairType' /\ RequestType'
      BY <1>0, <1>9, RequestsStay DEF Raise, PairType
    <2> QED
      BY <2>1, <2>2, TypeParts
  <1>10. CASE Crash(w)
    <2>1. RunType' /\ ActorType'
      <3>1. /\ Finish(w, runs) /\ Unlock(w) /\ UNCHANGED age
            /\ crashes' = crashes + 1 /\ crashes < MaxCrashes
        BY <1>10 DEF Crash
      <3> QED
        BY <1>0, <3>1, FinishType, UnlockType, ProcessingAssumption DEF RunType, ActorType
    <2>2. PairType' /\ RequestType'
      BY <1>0, <1>10, RequestsStay DEF Crash, PairType
    <2> QED
      BY <2>1, <2>2, TypeParts
  <1> QED
    BY <1>1, <1>2, <1>3, <1>4, <1>5, <1>6, <1>7, <1>8, <1>9, <1>10 DEF WorkerStep
\* What a decision writes is well typed, though it decides on what was read.
LEMMA DecideType ==
    ASSUME TypeInv, NEW q \in Requests, Decide(q)
    PROVE  TypeInv'
  <1> DEFINE op == request[q].op
             was == request[q].read
             d == Decided(op, was)
  <1>0. PairType /\ RunType /\ ActorType /\ RequestType
    BY TypeParts
  <1>1. op \in Decisions /\ was \in Pairs
    BY <1>0, AskTypes DEF Decide, RequestType
  <1>2. {was.active, was.pending} \subseteq {None} \cup DOMAIN drafts
    BY <1>0, <1>1 DEF RequestType, ReadIsKnown
  <1>3. d \in Pairs /\ d.active \in {was.active, was.pending} /\ d.pending \in {was.pending, None}
    BY <1>1, DecidedPair DEF Decisions
  <1>4. /\ pair' = Flush(pair, was, d)
        /\ drafts' = Redrafted(op, was)
        /\ request' = [request EXCEPT ![q] = NoRequest]
        /\ UNCHANGED <<runs, age, job, counterLock, pairLock, decisions, crashes>>
    BY DEF Decide, Answer, locks
  <1>5. drafts' \in Seq(Drafts) /\ DOMAIN drafts' = DOMAIN drafts
    BY <1>0, <1>1, <1>4, RedraftedSeq DEF PairType
  <1> HIDE DEF d, op
  <1>6. /\ pair' \in Pairs
        /\ pair'.active \in {d.active, pair.active} /\ pair'.pending \in {d.pending, pair.pending}
    BY <1>0, <1>1, <1>3, <1>4, FlushPair DEF PairType
  <1>7. PairType'
    BY <1>0, <1>2, <1>3, <1>5, <1>6 DEF PairType
  <1>8. NoRequest \in Asks /\ NoRequest.op \notin Decisions
    BY DEF NoRequest, Asks, Decisions
  <1>9. RequestType'
    BY <1>0, <1>4, <1>5, <1>8 DEF RequestType, ReadIsKnown
  <1> QED
    BY <1>0, <1>4, <1>7, <1>9, TypeParts DEF RunType, ActorType

LEMMA RequestsType ==
    ASSUME TypeInv,
           \/ \E q \in Requests : ForceFail(q) \/ AskForceFail(q)
           \/ \E q \in Requests, op \in Decisions : Ask(q, op)
           \/ \E op \in Starts : Trigger(op)
           \/ Tick
    PROVE  TypeInv'
  <1>0. PairType /\ RunType /\ ActorType /\ RequestType
    BY TypeParts
  <1>1. ASSUME NEW q \in Requests, ForceFail(q) PROVE TypeInv'
    <2>1. request[q].op = "forceFail" /\ request[q].run \in Runs
      BY <1>0, <1>1, AskTypes DEF ForceFail, RequestType
    <2>2. RunType'
      BY <1>0, <1>1, <2>1, ProcessingAssumption DEF ForceFail, RunType, RunRows, RunStatuses
    <2>3. NoRequest \in Asks /\ NoRequest.op \notin Decisions
      BY DEF NoRequest, Asks, Decisions
    <2>4. RequestType'
      BY <1>0, <1>1, <2>3 DEF ForceFail, Answer, RequestType, ReadIsKnown
    <2> QED
      BY <1>0, <1>1, <2>2, <2>4, TypeParts DEF ForceFail, PairType, ActorType, locks
  <1>2. ASSUME NEW q \in Requests, AskForceFail(q) PROVE TypeInv'
    <2>1. PICK r \in Runs : request' = [request EXCEPT ![q] = [op |-> "forceFail", run |-> r]]
      BY <1>2 DEF AskForceFail
    <2>2. [op |-> "forceFail", run |-> r] \in Asks
      BY DEF Asks
    <2>3. [op |-> "forceFail", run |-> r].op \notin Decisions
      BY DEF Decisions
    <2>4. RequestType'
      BY <1>0, <1>2, <2>1, <2>2, <2>3 DEF AskForceFail, RequestType, ReadIsKnown
    <2> QED
      BY <1>0, <1>2, <2>4, TypeParts DEF AskForceFail, PairType, RunType, ActorType, locks
  <1>3. ASSUME NEW q \in Requests, NEW op \in Decisions, Ask(q, op) PROVE TypeInv'
    <2> DEFINE a == [op |-> op, read |-> pair]
    <2>1. request' = [request EXCEPT ![q] = a] /\ decisions' = decisions + 1 /\ decisions < MaxDecisions
      BY <1>3 DEF Ask
    <2>2. a \in Asks /\ {a.read.active, a.read.pending} \subseteq {None} \cup DOMAIN drafts
      BY <1>0 DEF Asks, PairType
    <2> HIDE DEF a
    <2>3. RequestType'
      BY <1>0, <1>3, <2>1, <2>2, ProcessingAssumption DEF Ask, RequestType, ReadIsKnown
    <2> QED
      BY <1>0, <1>3, <2>3, TypeParts DEF Ask, PairType, RunType, ActorType, locks
  <1>4. ASSUME NEW op \in Starts, Trigger(op) PROVE TypeInv'
    <2>1. RunType'
      BY <1>0, <1>4 DEF Trigger, RunType, RunRows, RunStatuses
    <2>2. PairType' /\ ActorType' /\ RequestType'
      BY <1>0, <1>4, RequestsStay DEF Trigger, PairType, ActorType, locks
    <2> QED
      BY <2>1, <2>2, TypeParts
  <1>5. ASSUME Tick PROVE TypeInv'
    <2>1. RunType'
      BY <1>0, <1>5, ProcessingAssumption DEF Tick, RunType
    <2>2. PairType' /\ ActorType' /\ RequestType'
      BY <1>0, <1>5, RequestsStay DEF Tick, PairType, ActorType, locks
    <2> QED
      BY <2>1, <2>2, TypeParts
  <1> QED
    BY <1>1, <1>2, <1>3, <1>4, <1>5

LEMMA NextType == TypeInv /\ [Next]_vars => TypeInv'
  <1> SUFFICES ASSUME TypeInv, [Next]_vars PROVE TypeInv'
    OBVIOUS
  <1>1. ASSUME NEW w \in Workers, WorkerStep(w) \/ Raise(w) \/ Crash(w) PROVE TypeInv'
    BY <1>1, WorkerType
  <1>2. ASSUME NEW q \in Requests, Decide(q) PROVE TypeInv'
    BY <1>2, DecideType
  <1>3. ASSUME \/ \E q \in Requests : ForceFail(q) \/ AskForceFail(q)
               \/ \E q \in Requests, op \in Decisions : Ask(q, op)
               \/ \E op \in Starts : Trigger(op)
               \/ Tick
        PROVE  TypeInv'
    BY <1>3, RequestsType
  <1>4. CASE UNCHANGED vars
    BY <1>4 DEF vars, locks, TypeInv, TypeOK, ReadIsKnown
  <1> QED
    BY <1>1, <1>2, <1>3, <1>4 DEF Next, RequestStep

\* Type correctness: in particular the pointers of the pair name versions that
\* exist, though decisions write what they read before others decided.
THEOREM TypeCorrect == Spec => []TypeOK
  <1>1. TypeInv => TypeOK
    BY DEF TypeInv
  <1> QED
    BY <1>1, InitType, NextType, PTL DEF Spec
-----------------------------------------------------------------------------
LEMMA InitRun == Init => RunInv
  BY DEF Init, RunInv, OneDraftPerRun, DraftedHasEnded, SavesExclude, Drafted, Idle

\* A step that adds no draft keeps the parts of the invariant that speak of drafts,
\* if it gives no drafted run a claim and opens none.
LEMMA SameDrafts ==
    ASSUME OneDraftPerRun, DraftedHasEnded,
           DOMAIN drafts' = DOMAIN drafts,
           \A n \in DOMAIN drafts : drafts'[n].run = drafts[n].run,
           \A r \in Runs : Drafted(r) =>
               runs'[r].token = NoWorker /\ runs'[r].status \in {runs[r].status, "FAILED"}
    PROVE  /\ OneDraftPerRun' /\ DraftedHasEnded'
           /\ \A r : Drafted(r)' <=> Drafted(r)
  BY DEF OneDraftPerRun, DraftedHasEnded, Drafted, Open

\* A worker that takes a step which gives it no number keeps the others apart.
LEMMA SameSaves ==
    ASSUME ActorType, SavesExclude, NEW w \in Workers,
           \A v \in Workers \ {w} : job'[v] = job[v],
           job'[w].at \notin {"numbered", "checked"},
           counterLock' \in {counterLock, IF counterLock = w THEN NoWorker ELSE counterLock},
           \A r : Drafted(r)' <=> Drafted(r)
    PROVE  SavesExclude'
  <1> SUFFICES ASSUME NEW v \in Workers, job'[v].at \in {"numbered", "checked"}
               PROVE  /\ counterLock' = v
                      /\ job'[v].at = "checked" => ~ Drafted(job[v].run)'
    BY DEF SavesExclude
  <1>1. v # w /\ job'[v] = job[v]
    OBVIOUS
  <1>2. counterLock = v
    BY <1>1 DEF SavesExclude
  <1>3. job[v].at = "checked" => ~ Drafted(job[v].run)
    BY DEF SavesExclude
  <1> QED
    BY <1>1, <1>2, <1>3 DEF Drafted

\* The worker that leaves a run is idle, and nobody else has moved.
LEMMA FinishMoves ==
    ASSUME ActorType, NEW w \in Workers, NEW rows, Finish(w, rows)
    PROVE  /\ job'[w].at = "idle"
           /\ \A v \in Workers \ {w} : job'[v] = job[v]
  BY DEF Finish, ActorType, Idle

LEMMA BecomeMoves ==
    ASSUME ActorType, NEW w \in Workers, NEW s, Become(w, s)
    PROVE  /\ job'[w].at = s /\ job'[w].run = job[w].run
           /\ \A v \in Workers \ {w} : job'[v] = job[v]
  <1>1. [job[w] EXCEPT !.at = s].at = s /\ [job[w] EXCEPT !.at = s].run = job[w].run
    BY DEF ActorType, Jobs
  <1>2. job' = [job EXCEPT ![w] = [job[w] EXCEPT !.at = s]]
    BY Zenon DEF Become
  <1> QED
    BY <1>1, <1>2 DEF ActorType
\* A worker that leaves its run with rows in which no drafted run has a claim.
LEMMA FinishRun ==
    ASSUME TypeInv, RunInv, NEW w \in Workers, NEW rows \in [Runs -> RunRows], Finish(w, rows),
           counterLock' \in {counterLock, IF counterLock = w THEN NoWorker ELSE counterLock},
           UNCHANGED drafts,
           \A r \in Runs : Drafted(r) =>
               rows[r].token = NoWorker /\ rows[r].status \in {runs[r].status, "FAILED"}
    PROVE  RunInv'
  <1>1. ActorType /\ OneDraftPerRun /\ DraftedHasEnded /\ SavesExclude
    BY TypeParts DEF RunInv
  <1>2. \A r \in Runs : Drafted(r) =>
            runs'[r].token = NoWorker /\ runs'[r].status \in {runs[r].status, "FAILED"}
    BY RetireRows DEF Finish
  <1>3. /\ OneDraftPerRun' /\ DraftedHasEnded'
        /\ \A r : Drafted(r)' <=> Drafted(r)
    BY <1>1, <1>2, SameDrafts
  <1>4. SavesExclude'
    BY <1>1, <1>3, FinishMoves, SameSaves
  <1> QED
    BY <1>3, <1>4 DEF RunInv

\* A worker that goes on to a stage without a number.
LEMMA BecomeRun ==
    ASSUME TypeInv, RunInv, NEW w \in Workers, NEW s, Become(w, s), s \notin {"numbered", "checked"},
           UNCHANGED <<drafts, runs, counterLock>>
    PROVE  RunInv'
  <1>1. ActorType /\ OneDraftPerRun /\ DraftedHasEnded /\ SavesExclude
    BY TypeParts DEF RunInv
  <1>2. /\ OneDraftPerRun' /\ DraftedHasEnded'
        /\ \A r : Drafted(r)' <=> Drafted(r)
    BY <1>1, SameDrafts DEF DraftedHasEnded
  <1>3. SavesExclude'
    BY <1>1, <1>2, BecomeMoves, SameSaves
  <1> QED
    BY <1>2, <1>3 DEF RunInv

LEMMA WorkerRun ==
    ASSUME TypeInv, RunInv, NEW w \in Workers, WorkerStep(w) \/ Raise(w) \/ Crash(w)
    PROVE  RunInv'
  <1>0. /\ PairType /\ RunType /\ ActorType
        /\ job[w] \in Jobs
        /\ OneDraftPerRun /\ DraftedHasEnded /\ SavesExclude
        /\ \A r \in Runs : Drafted(r) => runs[r].token = NoWorker
    BY TypeParts DEF ActorType, RunInv, DraftedHasEnded
  <1>1. CASE Claim(w)
    <2>1. PICK r \in Runs :
              /\ Claimable(r)
              /\ runs' = [runs EXCEPT ![r] =
                            [status |-> "RUNNING", token |-> w,
                             attempt |-> IF @.status = "RUNNING" THEN @.attempt + 1 ELSE @.attempt]]
              /\ job' = [job EXCEPT ![w] = [at |-> "claimed", run |-> r]]
      BY <1>1 DEF Claim
    <2>2. UNCHANGED <<drafts, counterLock>>
      BY <1>1 DEF Claim, locks
    <2>3. ~ Drafted(r)
      BY <1>0, <2>1 DEF DraftedHasEnded, Claimable, Open
    <2>4. /\ OneDraftPerRun' /\ DraftedHasEnded'
          /\ \A x : Drafted(x)' <=> Drafted(x)
      BY <1>0, <2>1, <2>2, <2>3, SameDrafts DEF RunType
    <2>5. /\ job'[w].at = "claimed"
          /\ \A v \in Workers \ {w} : job'[v] = job[v]
      BY <1>0, <2>1 DEF ActorType
    <2>6. SavesExclude'
      BY <1>0, <2>2, <2>4, <2>5, SameSaves
    <2> QED
      BY <2>4, <2>6 DEF RunInv
  <1>2. CASE Load(w)
    <2>1. UNCHANGED <<drafts, counterLock>>
      BY <1>2 DEF Load, locks
    <2>2. CASE Become(w, "calculating") /\ UNCHANGED runs
      BY <2>1, <2>2, BecomeRun
    <2>3. CASE Finish(w, runs)
      BY <1>0, <2>1, <2>3, FinishRun DEF RunType
    <2> QED
      BY <1>2, <2>2, <2>3 DEF Load
  <1>3. CASE SaveRead(w)
    <2>1. /\ UNCHANGED <<drafts, runs, counterLock>>
          /\ job'[w].at = "saving"
          /\ \A v \in Workers \ {w} : job'[v] = job[v]
      BY <1>0, <1>3 DEF SaveRead, locks, ActorType
    <2>2. /\ OneDraftPerRun' /\ DraftedHasEnded'
          /\ \A r : Drafted(r)' <=> Drafted(r)
      BY <1>0, <2>1, SameDrafts
    <2>3. SavesExclude'
      BY <1>0, <2>1, <2>2, SameSaves
    <2> QED
      BY <2>2, <2>3 DEF RunInv
  <1>4. CASE SaveNumber(w)
    <2>1. UNCHANGED <<drafts, runs>> /\ counterLock = NoWorker
      BY <1>4 DEF SaveNumber
    <2>2. CASE Become(w, "failing") /\ UNCHANGED counterLock
      BY <2>1, <2>2, BecomeRun
    <2>3. CASE Become(w, "numbered") /\ counterLock' = w
      <3>1. \A v \in Workers : job[v].at \notin {"numbered", "checked"}
        BY <1>0, <2>1, ProcessingAssumption DEF SavesExclude
      <3>2. job'[w].at = "numbered" /\ \A v \in Workers \ {w} : job'[v] = job[v]
        BY <1>0, <2>3, BecomeMoves
      <3>3. SavesExclude'
        BY <2>3, <3>1, <3>2 DEF SavesExclude
      <3>4. OneDraftPerRun' /\ DraftedHasEnded'
        BY <1>0, <2>1, SameDrafts
      <3> QED
        BY <3>3, <3>4 DEF RunInv
    <2> QED
      BY <1>4, <2>2, <2>3 DEF SaveNumber
  <1>5. CASE SaveCheck(w)
    <2>1. UNCHANGED drafts /\ At(w, "numbered")
      BY <1>5 DEF SaveCheck
    <2>2. CASE /\ HasToken(w, job[w].run) /\ Become(w, "checked")
               /\ UNCHANGED <<runs, counterLock>>
      <3>1. job'[w].at = "checked" /\ job'[w].run = job[w].run
            /\ \A v \in Workers \ {w} : job'[v] = job[v]
        BY <1>0, <2>2, BecomeMoves
      <3>2. job[w].run \in Runs /\ ~ Drafted(job[w].run)
        BY <1>0, <2>1, <2>2, JobTypes, ProcessingAssumption DEF At, HasToken
      <3>3. /\ OneDraftPerRun' /\ DraftedHasEnded'
            /\ \A r : Drafted(r)' <=> Drafted(r)
        BY <1>0, <2>1, <2>2, SameDrafts
      <3>4. ASSUME NEW v \in Workers, job'[v].at \in {"numbered", "checked"}
            PROVE  counterLock' = v /\ (job'[v].at = "checked" => ~ Drafted(job[v].run)')
        <4>1. CASE v = w
          BY <1>0, <2>1, <2>2, <3>1, <3>2, <4>1 DEF SavesExclude, At, Drafted
        <4>2. CASE v # w
          BY <1>0, <2>1, <2>2, <3>1, <3>4, <4>2 DEF SavesExclude, Drafted
        <4> QED
          BY <4>1, <4>2
      <3> QED
        BY <3>3, <3>4 DEF RunInv, SavesExclude
    <2>3. CASE Finish(w, runs) /\ Unlock(w)
      BY <1>0, <2>1, <2>3, FinishRun DEF RunType, Unlock
    <2> QED
      BY <1>5, <2>2, <2>3 DEF SaveCheck
  <1>6. CASE SaveCommit(w)
    <2> DEFINE r == job[w].run
               d == [status |-> "CALCULATED_DRAFT", run |-> r]
               rows == [runs EXCEPT ![r].status = "SUCCEEDED", ![r].token = NoWorker]
    <2>1. r \in Runs /\ ~ Drafted(r) /\ counterLock = w
      BY <1>0, <1>6, JobTypes DEF SaveCommit, At, SavesExclude
    <2>2. /\ drafts' = Append(drafts, d) /\ d \in Drafts
          /\ DOMAIN drafts' = DOMAIN drafts \cup {Len(drafts) + 1}
          /\ \A n \in DOMAIN drafts : drafts'[n] = drafts[n]
          /\ drafts'[Len(drafts) + 1] = d
      <3>1. drafts' = Append(drafts, d) /\ d \in Drafts
        BY <1>6, <2>1 DEF SaveCommit, Drafts, DraftStatuses
      <3>2. 1 .. Len(drafts) + 1 = 1 .. Len(drafts) \cup {Len(drafts) + 1}
        BY <1>0, <3>1, AppendedDraft DEF PairType
      <3> QED
        BY <1>0, <3>1, <3>2, AppendedDraft DEF PairType
    <2>3. OneDraftPerRun'
      BY <1>0, <2>1, <2>2 DEF OneDraftPerRun, Drafted
    <2>4. \A x : Drafted(x)' <=> Drafted(x) \/ x = r
      BY <2>2 DEF Drafted
    <2>5. /\ rows \in [Runs -> RunRows]
          /\ rows[r].token = NoWorker /\ rows[r].status = "SUCCEEDED"
          /\ \A x \in Runs \ {r} : rows[x] = runs[x]
      BY <1>0, <2>1 DEF RunType, RunRows, RunStatuses
    <2>6. Finish(w, rows) /\ Unlock(w)
      BY <1>6 DEF SaveCommit
    <2> HIDE DEF rows, d
    <2>7. /\ runs'[r].token = NoWorker /\ runs'[r].status = "SUCCEEDED"
          /\ \A x \in Runs : Drafted(x) =>
                 runs'[x].token = NoWorker /\ runs'[x].status \in {runs[x].status, "SUCCEEDED"}
      BY <1>0, <2>1, <2>5, <2>6, RetireRows DEF Finish
    <2>8. DraftedHasEnded'
      BY <1>0, <2>4, <2>7 DEF DraftedHasEnded, Open
    <2>9. SavesExclude'
      <3>1. \A v \in Workers \ {w} : job[v].at \notin {"numbered", "checked"}
        BY <1>0, <2>1 DEF SavesExclude
      <3> QED
        BY <1>0, <2>6, <3>1, FinishMoves DEF SavesExclude
    <2> QED
      BY <2>3, <2>8, <2>9 DEF RunInv
  <1>7. CASE MarkRead(w)
    <2>1. UNCHANGED <<drafts, counterLock>>
      BY <1>7 DEF MarkRead, locks
    <2>2. CASE Become(w, "marking") /\ UNCHANGED runs
      BY <2>1, <2>2, BecomeRun
    <2>3. CASE Finish(w, runs)
      BY <1>0, <2>1, <2>3, FinishRun DEF RunType
    <2> QED
      BY <1>7, <2>2, <2>3 DEF MarkRead
  <1>8. CASE MarkFailed(w)
    <2> DEFINE r == job[w].run
               rows == [runs EXCEPT ![r].status = "FAILED", ![r].token = NoWorker]
    <2>1. r \in Runs
      BY <1>0, <1>8, JobTypes DEF MarkFailed, At
    <2>2. /\ rows \in [Runs -> RunRows]
          /\ rows[r].token = NoWorker /\ rows[r].status = "FAILED"
          /\ \A x \in Runs \ {r} : rows[x] = runs[x]
      BY <1>0, <2>1 DEF RunType, RunRows, RunStatuses
    <2>3. Finish(w, rows) /\ UNCHANGED <<drafts, counterLock>>
      BY <1>8 DEF MarkFailed, locks
    <2> HIDE DEF rows
    <2>4. \A x \in Runs : Drafted(x) =>
              rows[x].token = NoWorker /\ rows[x].status \in {runs[x].status, "FAILED"}
      BY <1>0, <2>2
    <2> QED
      BY <2>2, <2>3, <2>4, FinishRun
  <1>9. CASE Raise(w)
    BY <1>9, BecomeRun DEF Raise, locks
  <1>10. CASE Crash(w)
    <2>1. Finish(w, runs) /\ Unlock(w) /\ UNCHANGED drafts
      BY <1>10 DEF Crash
    <2> QED
      BY <1>0, <2>1, FinishRun DEF RunType, Unlock
  <1> QED
    BY <1>1, <1>2, <1>3, <1>4, <1>5, <1>6, <1>7, <1>8, <1>9, <1>10 DEF WorkerStep
\* A step of nobody's job that adds no draft and opens no drafted run.
LEMMA OthersRun ==
    ASSUME TypeInv, RunInv, UNCHANGED <<job, counterLock>>,
           DOMAIN drafts' = DOMAIN drafts,
           \A n \in DOMAIN drafts : drafts'[n].run = drafts[n].run,
           \A r \in Runs : Drafted(r) =>
               runs'[r].token = NoWorker /\ runs'[r].status \in {runs[r].status, "FAILED"}
    PROVE  RunInv'
  <1>1. /\ OneDraftPerRun' /\ DraftedHasEnded'
        /\ \A r : Drafted(r)' <=> Drafted(r)
    BY SameDrafts DEF RunInv
  <1>2. SavesExclude'
    <2> SUFFICES ASSUME NEW v \in Workers, job[v].at \in {"numbered", "checked"}
                 PROVE  counterLock' = v /\ (job[v].at = "checked" => ~ Drafted(job[v].run)')
      BY DEF SavesExclude
    <2>1. counterLock = v /\ (job[v].at = "checked" => ~ Drafted(job[v].run))
      BY DEF RunInv, SavesExclude
    <2> QED
      BY <2>1, <1>1 DEF Drafted
  <1> QED
    BY <1>1, <1>2 DEF RunInv

LEMMA NextRun == TypeInv /\ RunInv /\ [Next]_vars => RunInv'
  <1> SUFFICES ASSUME TypeInv, RunInv, [Next]_vars PROVE RunInv'
    OBVIOUS
  <1>0. /\ PairType /\ RunType /\ RequestType
        /\ \A r \in Runs : Drafted(r) => runs[r].token = NoWorker /\ runs[r].status # "ABSENT"
    BY TypeParts DEF RunInv, DraftedHasEnded
  <1>1. ASSUME NEW w \in Workers, WorkerStep(w) \/ Raise(w) \/ Crash(w) PROVE RunInv'
    BY <1>1, WorkerRun
  <1>2. ASSUME NEW q \in Requests, Decide(q) PROVE RunInv'
    <2>1. /\ drafts' = Redrafted(request[q].op, request[q].read)
          /\ UNCHANGED <<job, runs, counterLock>>
      BY <1>2 DEF Decide, locks
    <2>2. request[q].read \in Pairs
      BY <1>0, <1>2, AskTypes DEF Decide, RequestType
    <2>3. /\ DOMAIN drafts' = DOMAIN drafts
          /\ \A n \in DOMAIN drafts : drafts'[n].run = drafts[n].run
      BY <1>0, <2>1, <2>2, RedraftedSeq DEF PairType
    <2> QED
      BY <1>0, <2>1, <2>3, OthersRun
  <1>3. ASSUME NEW q \in Requests, ForceFail(q) PROVE RunInv'
    <2>1. request[q].run \in Runs
      BY <1>0, <1>3, AskTypes DEF ForceFail, RequestType
    <2>2. /\ runs' = [runs EXCEPT ![request[q].run].status = "FAILED"]
          /\ UNCHANGED <<job, drafts, counterLock>>
      BY <1>3 DEF ForceFail, locks
    <2>3. \A r \in Runs : runs'[r].token = runs[r].token /\ runs'[r].status \in {runs[r].status, "FAILED"}
      BY <1>0, <2>1, <2>2 DEF RunType, RunRows
    <2> QED
      BY <1>0, <2>2, <2>3, OthersRun
  <1>4. ASSUME NEW q \in Requests,
               AskForceFail(q) \/ \E op \in Decisions : Ask(q, op)
        PROVE  RunInv'
    <2>1. UNCHANGED <<job, drafts, runs, counterLock>>
      BY <1>4 DEF AskForceFail, Ask, locks
    <2> QED
      BY <1>0, <2>1, OthersRun
  <1>5. ASSUME NEW op \in Starts, Trigger(op) PROVE RunInv'
    <2>1. PICK r \in Runs : runs[r].status = "ABSENT" /\ runs' = [runs EXCEPT ![r].status = "QUEUED"]
      BY <1>5 DEF Trigger
    <2>2. UNCHANGED <<job, drafts, counterLock>>
      BY <1>5 DEF Trigger, locks
    <2>3. \A x \in Runs \ {r} : runs'[x] = runs[x]
      BY <1>0, <2>1 DEF RunType
    <2> QED
      BY <1>0, <2>1, <2>2, <2>3, OthersRun
  <1>6. CASE Tick \/ UNCHANGED vars
    <2>1. UNCHANGED <<job, drafts, runs, counterLock>>
      BY <1>6 DEF Tick, vars, locks
    <2> QED
      BY <1>0, <2>1, OthersRun
  <1> QED
    BY <1>1, <1>2, <1>3, <1>4, <1>5, <1>6 DEF Next, RequestStep

\* A run leaves one draft at most, however many workers claim it one after the other
\* and whoever forces it to fail: the version counters let one transaction at a time
\* look for its claim, and a drafted run has none.
THEOREM RunsDraftOnce == Spec => []OneDraftPerRun
  <1>1. RunInv => OneDraftPerRun
    BY DEF RunInv
  <1> QED
    BY <1>1, InitType, NextType, InitRun, NextRun, PTL DEF Spec

-----------------------------------------------------------------------------
LEMMA InitPointers == Init => PointerInv
  BY DEF Init, PointerInv, PendingIsUndecided, ActiveIsCurrent, PendingIsNew, DecisionHasDraft,
         NoRequest

\* A step that leaves the pair's pointers, the drafts and the requests.
LEMMA SamePointers ==
    ASSUME PointerInv, pair'.pending = pair.pending, pair'.active = pair.active,
           UNCHANGED <<drafts, request>>
    PROVE  PointerInv'
  BY DEF PointerInv, PendingIsUndecided, ActiveIsCurrent, PendingIsNew, DecisionHasDraft

\* A saved draft is one that nobody has decided on, and no decision has read it.
LEMMA SavePointers ==
    ASSUME TypeInv, PointerInv, NEW w \in Workers, SaveCommit(w)
    PROVE  PointerInv'
  <1> DEFINE d == [status |-> "CALCULATED_DRAFT", run |-> job[w].run]
  <1>0. PairType /\ RequestType /\ job[w].run \in Runs
    BY TypeParts, JobTypes DEF SaveCommit, At, ActorType
  <1>1. /\ drafts' = Append(drafts, d) /\ d \in Drafts
        /\ pair' = [pair EXCEPT !.pending = Len(drafts) + 1, !.version = job[w].version + 1]
        /\ UNCHANGED request
    BY <1>0 DEF SaveCommit, Drafts, DraftStatuses
  <1>2. /\ Len(drafts) \in Nat /\ DOMAIN drafts = 1 .. Len(drafts)
        /\ DOMAIN drafts' = 1 .. Len(drafts) + 1
        /\ \A n \in DOMAIN drafts : drafts'[n] = drafts[n]
        /\ drafts'[Len(drafts) + 1] = d
    BY <1>0, <1>1, AppendedDraft DEF PairType
  <1>3. pair'.pending = Len(drafts) + 1 /\ pair'.active = pair.active
    BY <1>0, <1>1 DEF PairType, Pairs
  <1>4. PendingIsUndecided'
    BY <1>2, <1>3 DEF PendingIsUndecided
  <1>5. ActiveIsCurrent'
    <2> SUFFICES ASSUME NEW n \in DOMAIN drafts', drafts'[n].status = "ACTIVE"
                 PROVE  pair'.active = n
      BY DEF ActiveIsCurrent
    <2>1. n \in DOMAIN drafts
      BY <1>2
    <2> QED
      BY <1>2, <1>3, <2>1 DEF PointerInv, ActiveIsCurrent
  <1>6. PendingIsNew'
    BY <1>0, <1>2, <1>3 DEF PendingIsNew, PairType, None
  <1>7. DecisionHasDraft'
    BY <1>1, <1>2 DEF PointerInv, DecisionHasDraft
  <1> QED
    BY <1>4, <1>5, <1>6, <1>7 DEF PointerInv

\* Approving names the version read and supersedes every other active one; both
\* approving and discarding clear the pending pointer, whatever it says by then.
LEMMA DecidePointers ==
    ASSUME TypeInv, PointerInv, NEW q \in Requests, Decide(q)
    PROVE  PointerInv'
  <1> DEFINE op == request[q].op
             was == request[q].read
             d == Decided(op, was)
  <1>0. /\ PairType /\ RequestType
        /\ op \in Decisions /\ was \in Pairs
    BY TypeParts, AskTypes DEF Decide, RequestType
  <1>1. /\ pair' = Flush(pair, was, d)
        /\ drafts' = Redrafted(op, was)
        /\ request' = [request EXCEPT ![q] = NoRequest]
    BY DEF Decide, Answer
  <1>2. /\ d \in Pairs
        /\ op \in {"approve", "discard"} => d.pending = None
        /\ op \in {"update", "delete"} => d.pending = was.pending
        /\ d.active = IF op = "approve" THEN was.pending ELSE was.active
    BY <1>0, DecidedPair
  <1>3. /\ pair'.active = IF d.active # was.active THEN d.active ELSE pair.active
        /\ pair'.pending = IF d.pending # was.pending THEN d.pending ELSE pair.pending
    <2> HIDE DEF d, op
    <2> QED
      BY <1>0, <1>1, <1>2, FlushPair DEF PairType
  <1>4. DOMAIN drafts' = DOMAIN drafts
    BY <1>0, <1>1, RedraftedSeq DEF PairType
  <1>5. DecisionHasDraft'
    BY <1>0, <1>1, <1>4 DEF PointerInv, DecisionHasDraft, NoRequest, RequestType
  <1>6. op \in {"approve", "discard"} =>
            /\ was.pending \in DOMAIN drafts /\ was.pending # was.active
            /\ was.pending # None
    BY <1>0 DEF PointerInv, DecisionHasDraft, PairType, None
  <1> HIDE DEF d
  <1>7. CASE op = "approve"
    <2>1. pair'.active = was.pending /\ pair'.pending = None
      BY <1>2, <1>3, <1>6, <1>7
    <2>2. \A n \in DOMAIN drafts : drafts'[n].status = "ACTIVE" => n = was.pending
      <3> SUFFICES ASSUME NEW n \in DOMAIN drafts, n # was.pending
                   PROVE  drafts'[n].status # "ACTIVE"
        OBVIOUS
      <3>1. drafts[n] \in Drafts
        BY <1>0 DEF PairType
      <3>2. drafts'[n] = IF drafts[n].status = "ACTIVE" THEN [drafts[n] EXCEPT !.status = "SUPERSEDED"]
                         ELSE drafts[n]
        BY <1>1, <1>7 DEF Redrafted
      <3> QED
        BY <3>1, <3>2 DEF Drafts
    <2> QED
      BY <1>4, <1>5, <2>1, <2>2
         DEF PointerInv, PendingIsUndecided, ActiveIsCurrent, PendingIsNew
  <1>8. CASE op = "discard"
    <2>1. pair'.active = pair.active /\ pair'.pending = None
      BY <1>2, <1>3, <1>6, <1>8
    <2>2. \A n \in DOMAIN drafts : drafts'[n].status = "ACTIVE" => drafts[n].status = "ACTIVE"
      <3> SUFFICES ASSUME NEW n \in DOMAIN drafts
                   PROVE  drafts'[n].status = "ACTIVE" => drafts[n].status = "ACTIVE"
        OBVIOUS
      <3>1. drafts[n] \in Drafts
        BY <1>0 DEF PairType
      <3>2. drafts'[n] = IF n = was.pending THEN [drafts[n] EXCEPT !.status = "DISCARDED"]
                         ELSE drafts[n]
        BY <1>1, <1>8 DEF Redrafted
      <3> QED
        BY <3>1, <3>2 DEF Drafts
    <2> QED
      BY <1>4, <1>5, <2>1, <2>2
         DEF PointerInv, PendingIsUndecided, ActiveIsCurrent, PendingIsNew
  <1>9. CASE op \in {"update", "delete"}
    <2>1. pair'.active = pair.active /\ pair'.pending = pair.pending
      BY <1>2, <1>3, <1>9
    <2>2. \A n \in DOMAIN drafts : drafts'[n] = drafts[n]
      BY <1>1, <1>9 DEF Redrafted
    <2> QED
      BY <1>0, <1>4, <1>5, <2>1, <2>2
         DEF PointerInv, PendingIsUndecided, ActiveIsCurrent, PendingIsNew, PairType
  <1> QED
    BY <1>0, <1>7, <1>8, <1>9 DEF Decisions

LEMMA NextPointers == TypeInv /\ PointerInv /\ [Next]_vars => PointerInv'
  <1> SUFFICES ASSUME TypeInv, PointerInv, [Next]_vars PROVE PointerInv'
    OBVIOUS
  <1>0. PairType /\ RequestType
    BY TypeParts
  <1>1. ASSUME NEW w \in Workers, WorkerStep(w) \/ Raise(w) \/ Crash(w), ~ SaveCommit(w)
        PROVE  PointerInv'
    <2>1. UNCHANGED <<pair, drafts, request>>
      BY <1>1 DEF WorkerStep, Claim, Load, SaveRead, SaveNumber, SaveCheck, MarkRead, MarkFailed,
                  Raise, Crash
    <2> QED
      BY <2>1, SamePointers
  <1>2. ASSUME NEW q \in Requests, ForceFail(q) \/ AskForceFail(q) PROVE PointerInv'
    <2>1. /\ UNCHANGED <<pair, drafts>>
          /\ \A x \in Requests : request'[x].op \in Decisions => request'[x] = request[x]
      BY <1>0, <1>2 DEF ForceFail, AskForceFail, Answer, NoRequest, RequestType, Decisions
    <2> QED
      BY <2>1 DEF PointerInv, PendingIsUndecided, ActiveIsCurrent, PendingIsNew, DecisionHasDraft,
                  Decisions
  <1>3. ASSUME NEW q \in Requests, NEW op \in Decisions, Ask(q, op) PROVE PointerInv'
    <2>1. /\ UNCHANGED <<pair, drafts>>
          /\ request' = [request EXCEPT ![q] = [op |-> op, read |-> pair]]
          /\ op \in {"approve", "discard"} => pair.pending # None
      BY <1>3 DEF Ask, Allowed
    <2>2. DecisionHasDraft'
      BY <1>0, <2>1 DEF PointerInv, DecisionHasDraft, PendingIsNew, PairType, RequestType
    <2> QED
      BY <2>1, <2>2 DEF PointerInv, PendingIsUndecided, ActiveIsCurrent, PendingIsNew
  <1>4. ASSUME NEW op \in Starts, Trigger(op) PROVE PointerInv'
    BY <1>4, SamePointers DEF Trigger
  <1>5. CASE Tick \/ UNCHANGED vars
    BY <1>5, SamePointers DEF Tick, vars
  <1> QED
    BY <1>1, <1>2, <1>3, <1>4, <1>5, SavePointers, DecidePointers DEF Next, RequestStep

\* A pending pointer names a version that nobody has decided on, although approve and
\* discard decide on a pair they read before they waited for its lock.
THEOREM PendingUndecided == Spec => []PendingIsUndecided
  <1>1. PointerInv => PendingIsUndecided
    BY DEF PointerInv
  <1> QED
    BY <1>1, InitType, NextType, InitPointers, NextPointers, PTL DEF Spec

\* A version is ACTIVE only while its pair names it, for any number of stale
\* approvals, discards, deletions and late drafts.
THEOREM ActiveCurrent == Spec => []ActiveIsCurrent
  <1>1. PointerInv => ActiveIsCurrent
    BY DEF PointerInv
  <1> QED
    BY <1>1, InitType, NextType, InitPointers, NextPointers, PTL DEF Spec
-----------------------------------------------------------------------------
\* A token is that of the run its worker works on, and before any worker has died a
\* RUNNING run has one.
TokenIsHeld ==
    \A r \in Runs, w \in Workers : runs[r].token = w => job[w].run = r

RunningIsHeld ==
    crashes = 0 => \A r \in Runs : runs[r].status = "RUNNING" => runs[r].token \in Workers

HeldInv == TokenIsHeld /\ RunningIsHeld

LEMMA InitHeld == Init => HeldInv
  BY ProcessingAssumption DEF Init, HeldInv, TokenIsHeld, RunningIsHeld

\* A worker leaves a run that is not RUNNING, or is RUNNING under another claim, or dies.
LEMMA FinishHeld ==
    ASSUME TypeInv, HeldInv, NEW w \in Workers, NEW rows \in [Runs -> RunRows], Finish(w, rows),
           \A r \in Runs : rows[r].token \in {runs[r].token, NoWorker},
           \/ crashes' > 0
           \/ /\ UNCHANGED crashes
              /\ \A r \in Runs : rows[r].status = "RUNNING" =>
                    rows[r] = runs[r] /\ runs[r].token # w
    PROVE  HeldInv'
  <1>1. /\ ActorType
        /\ job'[w].at = "idle" /\ \A v \in Workers \ {w} : job'[v] = job[v]
    BY TypeParts, FinishMoves
  <1>2. \A r \in Runs : /\ runs'[r].status = rows[r].status
                        /\ runs'[r].token = IF rows[r].token = w THEN StaleToken ELSE rows[r].token
    BY DEF Finish, Retire, RunRows
  <1>3. TokenIsHeld'
    <2> SUFFICES ASSUME NEW r \in Runs, NEW v \in Workers, runs'[r].token = v
                 PROVE  job'[v].run = r
      BY DEF TokenIsHeld
    <2>1. v # w /\ runs[r].token = v
      BY <1>2, ProcessingAssumption
    <2> QED
      BY <1>1, <2>1 DEF HeldInv, TokenIsHeld
  <1>4. RunningIsHeld'
    BY <1>2, ProcessingAssumption DEF HeldInv, RunningIsHeld
  <1> QED
    BY <1>3, <1>4 DEF HeldInv

LEMMA BecomeHeld ==
    ASSUME TypeInv, HeldInv, NEW w \in Workers, NEW s, Become(w, s), UNCHANGED <<runs, crashes>>
    PROVE  HeldInv'
  <1>1. job'[w].run = job[w].run /\ \A v \in Workers \ {w} : job'[v] = job[v]
    BY TypeParts, BecomeMoves
  <1> QED
    BY <1>1 DEF HeldInv, TokenIsHeld, RunningIsHeld

LEMMA WorkerHeld ==
    ASSUME TypeInv, HeldInv, NEW w \in Workers, WorkerStep(w) \/ Raise(w) \/ Crash(w)
    PROVE  HeldInv'
  <1>0. RunType /\ ActorType /\ job[w] \in Jobs
    BY TypeParts DEF ActorType
  <1>a. \A r \in Runs : runs[r].token = w => job[w].run = r
    BY DEF HeldInv, TokenIsHeld
  <1>1. CASE Claim(w)
    <2>1. PICK r \in Runs :
              /\ runs' = [runs EXCEPT ![r] =
                            [status |-> "RUNNING", token |-> w,
                             attempt |-> IF @.status = "RUNNING" THEN @.attempt + 1 ELSE @.attempt]]
              /\ job' = [job EXCEPT ![w] = [at |-> "claimed", run |-> r]]
      BY <1>1 DEF Claim
    <2>2. At(w, "idle") /\ UNCHANGED crashes
      BY <1>1 DEF Claim
    <2>3. job[w].run = NoRun
      BY <1>0, <2>2 DEF At, Jobs
    <2>4. \A x \in Runs : runs[x].token # w
      BY <1>a, <2>3, ProcessingAssumption
    <2>5. /\ runs'[r].token = w /\ job'[w].run = r
          /\ \A x \in Runs \ {r} : runs'[x] = runs[x]
          /\ \A v \in Workers \ {w} : job'[v] = job[v]
      BY <1>0, <2>1 DEF RunType, ActorType
    <2> QED
      BY <2>2, <2>4, <2>5 DEF HeldInv, TokenIsHeld, RunningIsHeld
  <1>2. CASE Load(w)
    <2>1. UNCHANGED crashes
      BY <1>2 DEF Load
    <2>2. CASE Become(w, "calculating") /\ UNCHANGED runs
      BY <2>1, <2>2, BecomeHeld
    <2>3. CASE Finish(w, runs) /\ ~ (runs[job[w].run].status = "RUNNING" /\ HasToken(w, job[w].run))
      <3>1. \A r \in Runs : runs[r].status = "RUNNING" => runs[r].token # w
        BY <1>a, <2>3 DEF HasToken
      <3> QED
        BY <1>0, <2>1, <2>3, <3>1, FinishHeld DEF RunType
    <2> QED
      BY <1>2, <2>2, <2>3 DEF Load
  <1>3. CASE SaveRead(w)
    <2>1. /\ UNCHANGED <<runs, crashes>>
          /\ job'[w].run = job[w].run
          /\ \A v \in Workers \ {w} : job'[v] = job[v]
      BY <1>0, <1>3 DEF SaveRead, ActorType
    <2> QED
      BY <2>1 DEF HeldInv, TokenIsHeld, RunningIsHeld
  <1>4. CASE SaveNumber(w)
    BY <1>4, BecomeHeld DEF SaveNumber
  <1>5. CASE SaveCheck(w)
    <2>1. UNCHANGED crashes
      BY <1>5 DEF SaveCheck
    <2>2. CASE Become(w, "checked") /\ UNCHANGED runs
      BY <2>1, <2>2, BecomeHeld
    <2>3. CASE Finish(w, runs) /\ ~ HasToken(w, job[w].run)
      <3>1. \A r \in Runs : runs[r].token # w
        BY <1>a, <2>3 DEF HasToken
      <3> QED
        BY <1>0, <2>1, <2>3, <3>1, FinishHeld DEF RunType
    <2> QED
      BY <1>5, <2>2, <2>3 DEF SaveCheck
  <1>6. CASE MarkRead(w)
    <2>1. UNCHANGED crashes
      BY <1>6 DEF MarkRead
    <2>2. CASE Become(w, "marking") /\ UNCHANGED runs
      BY <2>1, <2>2, BecomeHeld
    <2>3. CASE Finish(w, runs) /\ ~ HasToken(w, job[w].run)
      <3>1. \A r \in Runs : runs[r].token # w
        BY <1>a, <2>3 DEF HasToken
      <3> QED
        BY <1>0, <2>1, <2>3, <3>1, FinishHeld DEF RunType
    <2> QED
      BY <1>6, <2>2, <2>3 DEF MarkRead
  <1>7. CASE SaveCommit(w) \/ MarkFailed(w)
    <2> DEFINE r == job[w].run
    <2>1. PICK s \in {"SUCCEEDED", "FAILED"} :
              Finish(w, [runs EXCEPT ![r].status = s, ![r].token = NoWorker])
      BY <1>7 DEF SaveCommit, MarkFailed
    <2> DEFINE rows == [runs EXCEPT ![r].status = s, ![r].token = NoWorker]
    <2>2. r \in Runs /\ UNCHANGED crashes
      BY <1>0, <1>7, JobTypes DEF SaveCommit, MarkFailed, At
    <2>3. /\ rows \in [Runs -> RunRows]
          /\ rows[r].token = NoWorker /\ rows[r].status # "RUNNING"
          /\ \A x \in Runs \ {r} : rows[x] = runs[x]
      BY <1>0, <2>2 DEF RunType, RunRows, RunStatuses
    <2> HIDE DEF rows
    <2>4. /\ \A x \in Runs : rows[x].token \in {runs[x].token, NoWorker}
          /\ \A x \in Runs : rows[x].status = "RUNNING" => rows[x] = runs[x] /\ runs[x].token # w
      BY <1>a, <2>3
    <2>5. Finish(w, rows)
      BY <2>1 DEF rows
    <2> QED
      BY <2>2, <2>3, <2>4, <2>5, FinishHeld
  <1>8. CASE Raise(w)
    BY <1>8, BecomeHeld DEF Raise
  <1>9. CASE Crash(w)
    <2>1. Finish(w, runs) /\ crashes' > 0
      BY <1>0, <1>9, ProcessingAssumption DEF Crash, ActorType
    <2> QED
      BY <1>0, <2>1, FinishHeld DEF RunType
  <1> QED
    BY <1>1, <1>2, <1>3, <1>4, <1>5, <1>6, <1>7, <1>8, <1>9 DEF WorkerStep

LEMMA NextHeld == TypeInv /\ HeldInv /\ [Next]_vars => HeldInv'
  <1> SUFFICES ASSUME TypeInv, HeldInv, [Next]_vars PROVE HeldInv'
    OBVIOUS
  <1>0. RunType /\ RequestType
    BY TypeParts
  <1>1. ASSUME NEW w \in Workers, WorkerStep(w) \/ Raise(w) \/ Crash(w) PROVE HeldInv'
    BY <1>1, WorkerHeld
  <1>2. ASSUME NEW q \in Requests, ForceFail(q) PROVE HeldInv'
    <2>1. request[q].run \in Runs
      BY <1>0, <1>2, AskTypes DEF ForceFail, RequestType
    <2>2. /\ UNCHANGED <<job, crashes>>
          /\ \A r \in Runs : /\ runs'[r].token = runs[r].token
                             /\ runs'[r].status \in {runs[r].status, "FAILED"}
      BY <1>0, <1>2, <2>1 DEF ForceFail, RunType, RunRows
    <2> QED
      BY <2>2 DEF HeldInv, TokenIsHeld, RunningIsHeld
  <1>3. ASSUME NEW op \in Starts, Trigger(op) PROVE HeldInv'
    <2>1. /\ UNCHANGED <<job, crashes>>
          /\ \A r \in Runs : /\ runs'[r].token = runs[r].token
                             /\ runs'[r].status \in {runs[r].status, "QUEUED"}
      BY <1>0, <1>3 DEF Trigger, RunType, RunRows
    <2> QED
      BY <2>1 DEF HeldInv, TokenIsHeld, RunningIsHeld
  <1>4. CASE \/ \E q \in Requests : Decide(q) \/ AskForceFail(q)
             \/ \E q \in Requests, op \in Decisions : Ask(q, op)
             \/ Tick \/ UNCHANGED vars
    <2>1. UNCHANGED <<job, runs, crashes>>
      BY <1>4 DEF Decide, AskForceFail, Ask, Tick, vars
    <2> QED
      BY <2>1 DEF HeldInv, TokenIsHeld, RunningIsHeld
  <1> QED
    BY <1>1, <1>2, <1>3, <1>4 DEF Next, RequestStep

\* No run is stranded, RUNNING with its attempts used up and nobody working on it,
\* unless a worker has died: late, overtaken and refused workers leave it ended or to
\* another claim.
THEOREM DeathStrands == Spec => []OnlyDeathStrands
  <1>1. TypeInv /\ HeldInv => OnlyDeathStrands
    BY DEF TypeInv, TypeOK, HeldInv, TokenIsHeld, RunningIsHeld, OnlyDeathStrands, Stranded, HasToken
  <1> QED
    BY <1>1, InitType, NextType, InitHeld, NextHeld, PTL DEF Spec
=============================================================================
