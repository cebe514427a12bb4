-------------------------- MODULE OutboxRelayProofs --------------------------
(***************************************************************************)
(* Proofs about OutboxRelay for every table and any number of workers,     *)
(* bound on the faults and order in which the producers commit.            *)
(***************************************************************************)
EXTENDS OutboxRelay, FiniteSetTheorems, TLAPS

\* Everything that stood before r when it was committed has been delivered or
\* dead-lettered.
Front(r) == \A q \in ahead[r] : q \in delivered \cup abandoned

\* The inductive invariant behind delivery.  A row can only be worked on, be
\* pending inside the broker or have been delivered once its front is settled,
\* and settled is for ever.
DeadWasAbandoned == \A r \in Rows : status[r] = "DEAD_LETTER" => r \in abandoned
AckedWasDelivered ==
    \A w \in Workers, r \in Rows : task[w][r] \in {"acked", "saveAcked"} => r \in delivered
WorkHasFront ==
    \A w \in Workers, r \in Rows : task[w][r] # "none" => status[r] # "ABSENT" /\ Front(r)
BrokerHasFront == \A r \in late \cup delivered : status[r] # "ABSENT" /\ Front(r)
AheadStandsBefore ==
    \A r \in Rows : \A q \in ahead[r] : q \in Rows /\ Before(q, r) /\ status[q] # "ABSENT"

DeliveryInv ==
    /\ PublishedWasDelivered
    /\ DeadWasAbandoned
    /\ AckedWasDelivered
    /\ WorkHasFront
    /\ BrokerHasFront
    /\ AheadStandsBefore

\* A row with a task whose lease has not run out is under a running lease, and no
\* second worker has a task on it.
LeaseInv ==
    /\ \A w \in Workers, r \in Rows \ overrun :
            task[w][r] # "none" => status[r] = "PUBLISHING" /\ lease[r] > 0
    /\ OneTaskPerRow

-----------------------------------------------------------------------------
LEMMA InitType == Init => TypeOK
  BY OutboxAssumption DEF Init, TypeOK, Statuses, Stages

\* Every step keeps every variable in its type.
LEMMA NextType == TypeOK /\ [Next]_vars => TypeOK'
  <1> SUFFICES ASSUME TypeOK, [Next]_vars PROVE TypeOK'
    OBVIOUS
  <1> USE OutboxAssumption DEF TypeOK, Statuses, Stages
  <1>1. ASSUME NEW r \in Rows, Enqueue(r) PROVE TypeOK'
    BY <1>1 DEF Enqueue, broker, Committed
  <1>2. ASSUME NEW r \in Rows, LateDelivery(r) PROVE TypeOK'
    BY <1>2 DEF LateDelivery, Received, table, history
  <1>3. ASSUME NEW w \in Workers, Claim(w) PROVE TypeOK'
    <2>1. PICK ids \in SUBSET Rows :
              /\ status' = [r \in Rows |-> IF r \in Committed THEN "PUBLISHING" ELSE status[r]]
              /\ lease' = [r \in Rows |-> IF r \in Committed THEN ClaimTTL ELSE lease[r]]
              /\ holder' = [r \in Rows |-> IF r \in Committed THEN w
                                           ELSE IF holder[r] = w THEN NoWorker ELSE holder[r]]
              /\ task' = [task EXCEPT ![w] = [r \in Rows |-> IF r \in ids THEN "claimed" ELSE "none"]]
      BY <1>3 DEF Claim
    <2>2. /\ status' \in [Rows -> Statuses]
          /\ holder' \in [Rows -> Workers \cup {NoWorker}]
      BY <2>1
    <2>3. lease' \in [Rows -> 0 .. ClaimTTL]
      BY <2>1
    <2>4. task' \in [Workers -> [Rows -> Stages]]
      BY <2>1
    <2> QED
      BY <1>3, <2>2, <2>3, <2>4 DEF Claim, broker, history
  <1>4. ASSUME NEW w \in Workers, Crash(w) PROVE TypeOK'
    <2>1. task' \in [Workers -> [Rows -> Stages]] /\ seen' \in [Workers -> [Rows -> 0 .. MaxFailures]]
      BY <1>4 DEF Crash
    <2>2. holder' \in [Rows -> Workers \cup {NoWorker}] /\ faults' \in 0 .. MaxFaults
      BY <1>4 DEF Crash
    <2>3. UNCHANGED <<status, lease, attempts, retryIn, late, delivered, history>>
      BY <1>4 DEF Crash, broker
    <2> QED
      BY <2>1, <2>2, <2>3 DEF history
  <1>5. ASSUME NEW w \in Workers, NEW r \in Rows, TaskStep(w, r) PROVE TypeOK'
    <2>1. CASE Fetch(w, r)
      <3>1. PICK s \in Stages : task' = [task EXCEPT ![w][r] = s]
        <4>1. task' = [task EXCEPT ![w][r] = IF holder[r] = w THEN "sending" ELSE "none"]
          BY <2>1 DEF Fetch, SetStage
        <4> QED
          BY <4>1, Zenon
      <3> QED
        BY <2>1, <3>1 DEF Fetch, table, broker, history
    <2>2. CASE PublishOk(w, r)
      BY <2>2 DEF PublishOk, SetStage, Received, table, history
    <2>3. CASE PublishError(w, r)
      <3>1. task' \in [Workers -> [Rows -> Stages]]
        BY <2>3 DEF PublishError, SetStage
      <3>2. refusals' \in [Rows -> Nat] /\ late' \subseteq Rows /\ faults' \in 0 .. MaxFaults
        BY <2>3 DEF PublishError
      <3>3. UNCHANGED <<status, holder, lease, attempts, retryIn, seen, delivered, abandoned, ahead, overrun>>
        BY <2>3 DEF PublishError, table
      <3> QED
        BY <3>1, <3>2, <3>3
    <2>4. CASE Refetch(w, r)
      <3>1. PICK s \in Stages : task' = [task EXCEPT ![w][r] = s]
        <4>1. CASE StillHeld(w, r)
          <5>1. task' = [task EXCEPT ![w][r] = IF task[w][r] = "acked" THEN "saveAcked"
                                               ELSE "saveRefused"]
            BY <2>4, <4>1 DEF Refetch, SetStage
          <5> QED
            BY <5>1, Zenon
        <4>2. CASE ~ StillHeld(w, r)
          BY <2>4, <4>2 DEF Refetch, SetStage
        <4> QED
          BY <4>1, <4>2
      <3>2. seen' \in [Workers -> [Rows -> 0 .. MaxFailures]]
        <4>1. CASE StillHeld(w, r)
          <5>1. seen' = [seen EXCEPT ![w][r] = attempts[r]]
            BY <2>4, <4>1, Zenon DEF Refetch
          <5> QED
            BY <5>1
        <4>2. CASE ~ StillHeld(w, r)
          BY <2>4, <4>2 DEF Refetch
        <4> QED
          BY <4>1, <4>2
      <3>3. UNCHANGED <<status, holder, lease, attempts, retryIn, late, delivered, history, faults>>
        BY <2>4 DEF Refetch, table, broker
      <3> QED
        BY <3>1, <3>2, <3>3 DEF history
    <2>5. CASE MarkPublished(w, r)
      BY <2>5, SMTT(30) DEF MarkPublished, SetStage, Release, Finished, broker, history
    <2>6. CASE MarkFailed(w, r)
      <3>1. Capped(seen[w][r] + 1) \in 1 .. MaxFailures
        BY DEF Capped
      <3>2. /\ attempts' \in [Rows -> 0 .. MaxFailures]
            /\ holder' \in [Rows -> Workers \cup {NoWorker}]
            /\ lease' \in [Rows -> 0 .. ClaimTTL]
        BY <2>6, <3>1 DEF MarkFailed, Release
      <3>3. /\ task' \in [Workers -> [Rows -> Stages]]
            /\ seen' \in [Workers -> [Rows -> 0 .. MaxFailures]]
        BY <2>6 DEF MarkFailed, Finished, SetStage
      <3>4. /\ status' \in [Rows -> Statuses]
            /\ retryIn' \in [Rows -> Nat]
            /\ abandoned' \subseteq Rows
        <4>1. CASE Exhausted(seen[w][r] + 1)
          BY <2>6, <4>1 DEF MarkFailed
        <4>2. CASE ~ Exhausted(seen[w][r] + 1)
          <5>1. /\ status' = [status EXCEPT ![r] = "FAILED"]
                /\ retryIn' = [retryIn EXCEPT ![r] = Backoff[Capped(seen[w][r] + 1)]]
                /\ abandoned' = abandoned
            BY <2>6, <4>2, Zenon DEF MarkFailed
          <5>2. Backoff[Capped(seen[w][r] + 1)] \in Nat
            BY <3>1
          <5> QED
            BY <5>1, <5>2
        <4> QED
          BY <4>1, <4>2
      <3>5. UNCHANGED <<late, delivered, ahead, refusals, overrun, faults>>
        BY <2>6 DEF MarkFailed, broker
      <3> QED
        BY <3>2, <3>3, <3>4, <3>5
    <2> QED
      BY <1>5, <2>1, <2>2, <2>3, <2>4, <2>5, <2>6 DEF TaskStep
  <1>6. ASSUME NEW w \in Workers, NEW r \in Rows, TaskFault(w, r) PROVE TypeOK'
    BY <1>6 DEF TaskFault, Finished, SetStage, table, broker, history
  <1>7. ASSUME Tick PROVE TypeOK'
    <2>0. lease' \in [Rows -> 0 .. ClaimTTL]
      <3>1. \A n \in 0 .. ClaimTTL : Less(n) \in 0 .. ClaimTTL
        BY DEF Less
      <3>2. lease' = [r \in Rows |-> Less(lease[r])]
        BY <1>7 DEF Tick
      <3> QED
        BY <3>1, <3>2
    <2>1. retryIn' \in [Rows -> Nat]
      <3>1. \A n \in Nat : Less(n) \in Nat
        BY DEF Less
      <3>2. retryIn' = [r \in Rows |-> Less(retryIn[r])]
        BY <1>7 DEF Tick
      <3> QED
        BY <3>1, <3>2
    <2>4. UNCHANGED <<status, holder, attempts, task, seen, late, delivered, abandoned, ahead,
                      refusals>>
      BY <1>7 DEF Tick, broker
    <2>2. overrun' \subseteq Rows
      BY <1>7 DEF Tick, RunningOut
    <2>3. faults' \in 0 .. MaxFaults
      BY <1>7 DEF Tick
    <2> QED
      BY <2>0, <2>1, <2>2, <2>3, <2>4
  <1>8. ASSUME UNCHANGED vars PROVE TypeOK'
    BY <1>8 DEF vars, table, broker, history
  <1> QED
    BY <1>1, <1>2, <1>3, <1>4, <1>5, <1>6, <1>7, <1>8 DEF Next

\* Type correctness of the relay: statuses, leases, counters and task stages
\* stay in range for every table and every configuration.
THEOREM TypeCorrect == Spec => []TypeOK
  <1> QED
    BY InitType, NextType, PTL DEF Spec

-----------------------------------------------------------------------------
\* What a step may do to the history: rows never leave the table, what stood before a
\* row stays in the record, and so does what was delivered or dead-lettered once.
Growing == /\ \A r \in Rows : status[r] # "ABSENT" => status'[r] # "ABSENT" /\ ahead'[r] = ahead[r]
           /\ delivered \subseteq delivered'
           /\ abandoned \subseteq abandoned'

LEMMA StepGrows == TypeOK /\ [Next]_vars => Growing
  <1> SUFFICES ASSUME TypeOK, [Next]_vars PROVE Growing
    OBVIOUS
  <1> USE DEF TypeOK, Growing
  <1>1. ASSUME NEW r \in Rows, Enqueue(r) PROVE Growing
    BY <1>1 DEF Enqueue, broker, history
  <1>2. ASSUME NEW r \in Rows, LateDelivery(r) PROVE Growing
    BY <1>2 DEF LateDelivery, Received, table, history
  <1>3. ASSUME NEW w \in Workers, Claim(w) PROVE Growing
    BY <1>3 DEF Claim, broker, history
  <1>4. ASSUME NEW w \in Workers, Crash(w) PROVE Growing
    BY <1>4 DEF Crash, broker, history
  <1>5. ASSUME NEW w \in Workers, NEW r \in Rows, TaskStep(w, r) PROVE Growing
    <2>1. CASE Fetch(w, r)
      BY <2>1 DEF Fetch, table, broker, history
    <2>2. CASE PublishOk(w, r)
      BY <2>2 DEF PublishOk, Received, table, history
    <2>3. CASE PublishError(w, r)
      BY <2>3 DEF PublishError, table, history
    <2>4. CASE Refetch(w, r)
      BY <2>4 DEF Refetch, table, broker, history
    <2>5. CASE MarkPublished(w, r)
      BY <2>5 DEF MarkPublished, broker, history
    <2>6. CASE MarkFailed(w, r)
      <3>1. CASE Exhausted(seen[w][r] + 1)
        BY <2>6, <3>1 DEF MarkFailed, broker, history
      <3>2. CASE ~ Exhausted(seen[w][r] + 1)
        BY <2>6, <3>2 DEF MarkFailed, broker, history
      <3> QED
        BY <3>1, <3>2
    <2> QED
      BY <1>5, <2>1, <2>2, <2>3, <2>4, <2>5, <2>6 DEF TaskStep
  <1>6. ASSUME NEW w \in Workers, NEW r \in Rows, TaskFault(w, r) PROVE Growing
    BY <1>6 DEF TaskFault, table, broker, history
  <1>7. ASSUME Tick PROVE Growing
    BY <1>7 DEF Tick, broker, history
  <1>8. CASE UNCHANGED vars
    BY <1>8 DEF vars, table, broker, history
  <1> QED
    BY <1>1, <1>2, <1>3, <1>4, <1>5, <1>6, <1>7, <1>8 DEF Next

\* A settled front stays settled.
LEMMA FrontStays ==
    ASSUME Growing, NEW r \in Rows, status[r] # "ABSENT", Front(r)
    PROVE  Front(r)'
  BY DEF Growing, Front

\* A row is a candidate only behind a settled front: whatever stands before it
\* is committed and in no status that blocks.
LEMMA CandidateHasFront ==
    ASSUME TypeOK, DeliveryInv, NEW r \in Rows, Candidate(r)
    PROVE  status[r] # "ABSENT" /\ Front(r)
  <1>1. status[r] # "ABSENT"
    BY DEF Candidate, Claimable
  <1>2. ASSUME NEW q \in ahead[r] PROVE q \in delivered \cup abandoned
    <2>0. q \in Rows /\ Before(q, r)
      BY <1>2 DEF DeliveryInv, AheadStandsBefore
    <2>1. status[q] # "ABSENT" /\ status[q] \notin HolStatuses
      BY <1>2, <2>0 DEF Candidate, DeliveryInv, AheadStandsBefore
    <2>2. status[q] \in {"PUBLISHED", "DEAD_LETTER"}
      BY <2>0, <2>1 DEF TypeOK, Statuses, HolStatuses
    <2> QED
      BY <2>0, <2>2 DEF DeliveryInv, PublishedWasDelivered, DeadWasAbandoned
  <1> QED
    BY <1>1, <1>2 DEF Front

LEMMA InitDelivery == Init => DeliveryInv
  BY DEF Init, DeliveryInv, PublishedWasDelivered, DeadWasAbandoned, AckedWasDelivered,
         WorkHasFront, BrokerHasFront, AheadStandsBefore

\* A step that starts no task, hands the broker nothing and commits no row
\* keeps the parts of the invariant that speak of fronts.
LEMMA FrontsStay ==
    ASSUME TypeOK, DeliveryInv, Growing,
           \A w \in Workers, r \in Rows : task'[w][r] # "none" => task[w][r] # "none",
           late' \cup delivered' \subseteq late \cup delivered,
           \A r \in Rows : status'[r] # "ABSENT" => status[r] # "ABSENT",
           UNCHANGED ahead
    PROVE  WorkHasFront' /\ BrokerHasFront' /\ AheadStandsBefore'
  <1>1. WorkHasFront'
    BY FrontStays DEF DeliveryInv, WorkHasFront, Growing
  <1>2. BrokerHasFront'
    BY FrontStays DEF DeliveryInv, BrokerHasFront, Growing, TypeOK
  <1>3. AheadStandsBefore'
    BY DEF DeliveryInv, AheadStandsBefore, Growing, Before
  <1> QED
    BY <1>1, <1>2, <1>3

\* The delivery invariant is inductive.
LEMMA NextDelivery == TypeOK /\ DeliveryInv /\ [Next]_vars => DeliveryInv'
  <1> SUFFICES ASSUME TypeOK, DeliveryInv, [Next]_vars PROVE DeliveryInv'
    OBVIOUS
  <1>0. Growing
    BY StepGrows
  <1> USE DEF TypeOK
  <1>a. ASSUME NEW r \in Rows, Enqueue(r) PROVE DeliveryInv'
    <2>1. /\ status[r] = "ABSENT"
          /\ status' = [status EXCEPT ![r] = "PENDING"]
          /\ ahead' = [ahead EXCEPT ![r] = {q \in Committed : Before(q, r)}]
          /\ UNCHANGED <<task, late, delivered, abandoned>>
      BY <1>a DEF Enqueue, broker
    <2>2. PublishedWasDelivered' /\ DeadWasAbandoned' /\ AckedWasDelivered'
      BY <2>1 DEF DeliveryInv, PublishedWasDelivered, DeadWasAbandoned, AckedWasDelivered
    <2>3. WorkHasFront' /\ BrokerHasFront'
      BY <1>0, <2>1, FrontStays DEF DeliveryInv, WorkHasFront, BrokerHasFront, Growing
    <2>4. AheadStandsBefore'
      BY <2>1 DEF DeliveryInv, AheadStandsBefore, Before, Committed
    <2> QED
      BY <2>2, <2>3, <2>4 DEF DeliveryInv
  <1>b. ASSUME NEW r \in Rows, LateDelivery(r) PROVE DeliveryInv'
    <2>1. /\ r \in late
          /\ late' \cup delivered' \subseteq late \cup delivered
          /\ UNCHANGED <<status, task, abandoned, ahead>>
      BY <1>b DEF LateDelivery, Received, table, history
    <2>2. PublishedWasDelivered' /\ DeadWasAbandoned' /\ AckedWasDelivered'
      BY <1>0, <2>1 DEF DeliveryInv, PublishedWasDelivered, DeadWasAbandoned,
                        AckedWasDelivered, Growing
    <2> QED
      BY <1>0, <2>1, <2>2, FrontsStay DEF DeliveryInv
  <1>c. ASSUME NEW w \in Workers, Claim(w) PROVE DeliveryInv'
    <2>1. PICK ids \in SUBSET Rows :
              /\ \A r \in ids : Candidate(r)
              /\ status' = [r \in Rows |-> IF r \in Committed THEN "PUBLISHING" ELSE status[r]]
              /\ task' = [task EXCEPT ![w] = [r \in Rows |-> IF r \in ids THEN "claimed" ELSE "none"]]
      BY <1>c DEF Claim, OldestFirst
    <2>2. UNCHANGED <<late, delivered, abandoned, ahead>>
      BY <1>c DEF Claim, broker, history
    <2>3. \A r \in Rows : status'[r] # "ABSENT" => status[r] # "ABSENT"
      BY <2>1 DEF Committed
    <2>4. PublishedWasDelivered' /\ DeadWasAbandoned'
      BY <2>1, <2>2 DEF DeliveryInv, PublishedWasDelivered, DeadWasAbandoned
    <2>5. AckedWasDelivered'
      BY <2>1, <2>2 DEF DeliveryInv, AckedWasDelivered
    <2>6. ASSUME NEW v \in Workers, NEW r \in Rows, task'[v][r] # "none"
          PROVE  status'[r] # "ABSENT" /\ Front(r)'
      <3>1. status[r] # "ABSENT" /\ Front(r)
        <4>1. CASE v = w
          <5>1. r \in ids
            BY <2>1, <2>6, <4>1
          <5> QED
            BY <2>1, <5>1, CandidateHasFront
        <4>2. CASE v # w
          BY <2>1, <2>6, <4>2 DEF DeliveryInv, WorkHasFront
        <4> QED
          BY <4>1, <4>2
      <3> QED
        BY <1>0, <3>1, FrontStays DEF Growing
    <2>7. BrokerHasFront'
      BY <1>0, <2>2, FrontStays DEF DeliveryInv, BrokerHasFront, Growing
    <2>8. AheadStandsBefore'
      BY <1>0, <2>2, <2>3 DEF DeliveryInv, AheadStandsBefore, Growing, Before
    <2> QED
      BY <2>4, <2>5, <2>6, <2>7, <2>8 DEF DeliveryInv, WorkHasFront
  <1>d. ASSUME NEW w \in Workers, Crash(w) PROVE DeliveryInv'
    <2>1. /\ task' = [task EXCEPT ![w] = [r \in Rows |-> "none"]]
          /\ UNCHANGED <<status, late, delivered, abandoned, ahead>>
      BY <1>d DEF Crash, broker, history
    <2>2. PublishedWasDelivered' /\ DeadWasAbandoned' /\ AckedWasDelivered'
      BY <2>1 DEF DeliveryInv, PublishedWasDelivered, DeadWasAbandoned, AckedWasDelivered
    <2>3. \A v \in Workers, r \in Rows : task'[v][r] # "none" => task[v][r] # "none"
      BY <2>1
    <2> QED
      BY <1>0, <2>1, <2>2, <2>3, FrontsStay DEF DeliveryInv
  <1>e. ASSUME NEW w \in Workers, NEW r \in Rows, TaskStep(w, r) PROVE DeliveryInv'
    <2>1. CASE Fetch(w, r)
      <3>1. /\ task[w][r] = "claimed"
            /\ task' = [task EXCEPT ![w][r] = IF holder[r] = w THEN "sending" ELSE "none"]
            /\ UNCHANGED <<status, late, delivered, abandoned, ahead>>
        BY <2>1 DEF Fetch, SetStage, table, broker, history
      <3>2. PublishedWasDelivered' /\ DeadWasAbandoned' /\ AckedWasDelivered'
        BY <3>1 DEF DeliveryInv, PublishedWasDelivered, DeadWasAbandoned, AckedWasDelivered
      <3>3. \A v \in Workers, q \in Rows : task'[v][q] # "none" => task[v][q] # "none"
        BY <3>1
      <3> QED
        BY <1>0, <3>1, <3>2, <3>3, FrontsStay DEF DeliveryInv
    <2>2. CASE PublishOk(w, r)
      <3>1. /\ task[w][r] = "sending"
            /\ task' = [task EXCEPT ![w][r] = "acked"]
            /\ delivered' = delivered \cup {r}
            /\ UNCHANGED <<status, late, abandoned, ahead>>
        BY <2>2 DEF PublishOk, Received, SetStage, table, history
      <3>2. PublishedWasDelivered' /\ DeadWasAbandoned' /\ AckedWasDelivered'
        BY <3>1 DEF DeliveryInv, PublishedWasDelivered, DeadWasAbandoned, AckedWasDelivered
      <3>3. status[r] # "ABSENT" /\ Front(r)
        BY <3>1 DEF DeliveryInv, WorkHasFront
      <3>4. WorkHasFront'
        BY <1>0, <3>1, FrontStays DEF DeliveryInv, WorkHasFront, Growing
      <3>5. BrokerHasFront'
        BY <1>0, <3>1, <3>3, FrontStays DEF DeliveryInv, BrokerHasFront, Growing
      <3>6. AheadStandsBefore'
        BY <3>1 DEF DeliveryInv, AheadStandsBefore, Before
      <3> QED
        BY <3>2, <3>4, <3>5, <3>6 DEF DeliveryInv
    <2>3. CASE PublishError(w, r)
      <3>1. /\ task[w][r] = "sending"
            /\ task' = [task EXCEPT ![w][r] = "refused"]
            /\ late' = late \cup {r}
            /\ UNCHANGED <<status, delivered, abandoned, ahead>>
        BY <2>3 DEF PublishError, SetStage, table, history
      <3>2. PublishedWasDelivered' /\ DeadWasAbandoned' /\ AckedWasDelivered'
        BY <3>1 DEF DeliveryInv, PublishedWasDelivered, DeadWasAbandoned, AckedWasDelivered
      <3>3. status[r] # "ABSENT" /\ Front(r)
        BY <3>1 DEF DeliveryInv, WorkHasFront
      <3>4. WorkHasFront'
        BY <1>0, <3>1, FrontStays DEF DeliveryInv, WorkHasFront, Growing
      <3>5. BrokerHasFront'
        BY <1>0, <3>1, <3>3, FrontStays DEF DeliveryInv, BrokerHasFront, Growing
      <3>6. AheadStandsBefore'
        BY <3>1 DEF DeliveryInv, AheadStandsBefore, Before
      <3> QED
        BY <3>2, <3>4, <3>5, <3>6 DEF DeliveryInv
    <2>4. CASE Refetch(w, r)
      <3>1. /\ task[w][r] \in {"acked", "refused"}
            /\ UNCHANGED <<status, late, delivered, abandoned, ahead>>
        BY <2>4 DEF Refetch, table, broker, history
      <3>2. \/ task[w][r] = "acked" /\ task' = [task EXCEPT ![w][r] = "saveAcked"]
            \/ task' = [task EXCEPT ![w][r] = "saveRefused"]
            \/ task' = [task EXCEPT ![w][r] = "none"]
        <4>1. CASE ~ StillHeld(w, r)
          BY <2>4, <4>1 DEF Refetch, SetStage
        <4>2. CASE StillHeld(w, r) /\ task[w][r] = "acked"
          BY <2>4, <4>2 DEF Refetch, SetStage
        <4>3. CASE StillHeld(w, r) /\ task[w][r] = "refused"
          BY <2>4, <4>3 DEF Refetch, SetStage
        <4> QED
          BY <3>1, <4>1, <4>2, <4>3
      <3>3. PublishedWasDelivered' /\ DeadWasAbandoned'
        BY <3>1 DEF DeliveryInv, PublishedWasDelivered, DeadWasAbandoned
      <3>4. \A v \in Workers, q \in Rows :
                /\ task'[v][q] # "none" => task[v][q] # "none"
                /\ task'[v][q] \in {"acked", "saveAcked"} => task[v][q] \in {"acked", "saveAcked"}
        <4>1. CASE task[w][r] = "acked" /\ task' = [task EXCEPT ![w][r] = "saveAcked"]
          BY <4>1
        <4>2. CASE task' = [task EXCEPT ![w][r] = "saveRefused"]
          BY <3>1, <4>2
        <4>3. CASE task' = [task EXCEPT ![w][r] = "none"]
          BY <4>3
        <4> QED
          BY <3>2, <4>1, <4>2, <4>3
      <3>5. AckedWasDelivered'
        BY <3>1, <3>4 DEF DeliveryInv, AckedWasDelivered
      <3> QED
        BY <1>0, <3>1, <3>3, <3>4, <3>5, FrontsStay DEF DeliveryInv
    <2>5. CASE MarkPublished(w, r)
      <3>1. /\ task[w][r] = "saveAcked"
            /\ task' = [task EXCEPT ![w][r] = "none"]
            /\ status' = [status EXCEPT ![r] = "PUBLISHED"]
            /\ UNCHANGED <<late, delivered, abandoned, ahead>>
        BY <2>5 DEF MarkPublished, Finished, SetStage, broker, history
      <3>2. status[r] # "ABSENT" /\ r \in delivered
        BY <3>1 DEF DeliveryInv, WorkHasFront, AckedWasDelivered
      <3>3. PublishedWasDelivered' /\ DeadWasAbandoned' /\ AckedWasDelivered'
        BY <3>1, <3>2 DEF DeliveryInv, PublishedWasDelivered, DeadWasAbandoned, AckedWasDelivered
      <3>4. \A v \in Workers, q \in Rows : task'[v][q] # "none" => task[v][q] # "none"
        BY <3>1
      <3>5. \A q \in Rows : status'[q] # "ABSENT" => status[q] # "ABSENT"
        BY <3>1, <3>2
      <3> QED
        BY <1>0, <3>1, <3>3, <3>4, <3>5, FrontsStay DEF DeliveryInv
    <2>6. CASE MarkFailed(w, r)
      <3>1. /\ task[w][r] = "saveRefused"
            /\ task' = [task EXCEPT ![w][r] = "none"]
            /\ UNCHANGED <<late, delivered, ahead>>
        BY <2>6 DEF MarkFailed, Finished, SetStage, broker, history
      <3>2. \/ /\ status' = [status EXCEPT ![r] = "DEAD_LETTER"]
               /\ abandoned' = abandoned \cup {r}
            \/ /\ status' = [status EXCEPT ![r] = "FAILED"]
               /\ abandoned' = abandoned
        <4>1. CASE Exhausted(seen[w][r] + 1)
          BY <2>6, <4>1 DEF MarkFailed
        <4>2. CASE ~ Exhausted(seen[w][r] + 1)
          BY <2>6, <4>2 DEF MarkFailed
        <4> QED
          BY <4>1, <4>2
      <3>3. PublishedWasDelivered' /\ DeadWasAbandoned' /\ AckedWasDelivered'
        BY <3>1, <3>2 DEF DeliveryInv, PublishedWasDelivered, DeadWasAbandoned, AckedWasDelivered
      <3>4. \A v \in Workers, q \in Rows : task'[v][q] # "none" => task[v][q] # "none"
        BY <3>1
      <3>5. status[r] # "ABSENT"
        BY <3>1 DEF DeliveryInv, WorkHasFront
      <3>6. \A q \in Rows : status'[q] # "ABSENT" => status[q] # "ABSENT"
        BY <3>2, <3>5
      <3> QED
        BY <1>0, <3>1, <3>3, <3>4, <3>6, FrontsStay DEF DeliveryInv
    <2> QED
      BY <1>e, <2>1, <2>2, <2>3, <2>4, <2>5, <2>6 DEF TaskStep
  <1>f. ASSUME NEW w \in Workers, NEW r \in Rows, TaskFault(w, r) PROVE DeliveryInv'
    <2>1. /\ task' = [task EXCEPT ![w][r] = "none"]
          /\ UNCHANGED <<status, late, delivered, abandoned, ahead>>
      BY <1>f DEF TaskFault, Finished, SetStage, table, broker, history
    <2>2. PublishedWasDelivered' /\ DeadWasAbandoned' /\ AckedWasDelivered'
      BY <2>1 DEF DeliveryInv, PublishedWasDelivered, DeadWasAbandoned, AckedWasDelivered
    <2>3. \A v \in Workers, q \in Rows : task'[v][q] # "none" => task[v][q] # "none"
      BY <2>1
    <2> QED
      BY <1>0, <2>1, <2>2, <2>3, FrontsStay DEF DeliveryInv
  <1>g. CASE UNCHANGED <<status, task, late, delivered, abandoned, ahead>>
    <2>1. PublishedWasDelivered' /\ DeadWasAbandoned' /\ AckedWasDelivered'
      BY <1>g DEF DeliveryInv, PublishedWasDelivered, DeadWasAbandoned, AckedWasDelivered
    <2> QED
      BY <1>0, <1>g, <2>1, FrontsStay DEF DeliveryInv
  <1>h. Tick \/ UNCHANGED vars => UNCHANGED <<status, task, late, delivered, abandoned, ahead>>
    BY DEF Tick, vars, table, broker, history
  <1> QED
    BY <1>a, <1>b, <1>c, <1>d, <1>e, <1>f, <1>g, <1>h DEF Next

THEOREM DeliveryInvariant == Spec => [](TypeOK /\ DeliveryInv)
  BY InitType, NextType, InitDelivery, NextDelivery, PTL DEF Spec

\* No event is lost: PUBLISHED always means that the broker has the message,
\* for every table, any crash and although a claim writes every row.
THEOREM PublishedDelivered == Spec => []PublishedWasDelivered
  <1>1. DeliveryInv => PublishedWasDelivered
    BY DEF DeliveryInv
  <1> QED
    BY <1>1, DeliveryInvariant, PTL

-----------------------------------------------------------------------------
LEMMA InitLease == Init => LeaseInv
  BY DEF Init, LeaseInv, OneTaskPerRow

\* A step that starts no task and leaves the rows under a task as they are
\* keeps the lease invariant.
LEMMA TasksShrink ==
    ASSUME LeaseInv,
           \A w \in Workers, r \in Rows : task'[w][r] # "none" => task[w][r] # "none",
           \A w \in Workers, r \in Rows :
                task'[w][r] # "none" => status'[r] = status[r] /\ lease'[r] = lease[r],
           UNCHANGED overrun
    PROVE  LeaseInv'
  BY DEF LeaseInv, OneTaskPerRow

\* Finalising a row frees it: the only task it had is the one that ends.
LEMMA FinishKeepsLease ==
    ASSUME TypeOK, LeaseInv, NEW w \in Workers, NEW r \in Rows,
           task[w][r] # "none",
           NEW st, status' = [status EXCEPT ![r] = st],
           lease' = [lease EXCEPT ![r] = 0],
           task' = [task EXCEPT ![w][r] = "none"],
           UNCHANGED overrun
    PROVE  LeaseInv'
  <1>1. ASSUME r \notin overrun PROVE \A v \in Workers : task'[v][r] = "none"
    BY <1>1 DEF LeaseInv, OneTaskPerRow, TypeOK
  <1> QED
    BY <1>1 DEF LeaseInv, OneTaskPerRow, TypeOK

LEMMA NextLease == TypeOK /\ LeaseInv /\ [Next]_vars => LeaseInv'
  <1> SUFFICES ASSUME TypeOK, LeaseInv, [Next]_vars PROVE LeaseInv'
    OBVIOUS
  <1> USE DEF TypeOK
  <1>a. ASSUME NEW r \in Rows, Enqueue(r) PROVE LeaseInv'
    BY <1>a DEF Enqueue, LeaseInv, OneTaskPerRow, history
  <1>b. ASSUME NEW r \in Rows, LateDelivery(r) PROVE LeaseInv'
    BY <1>b DEF LateDelivery, table, history, LeaseInv, OneTaskPerRow
  <1>c. ASSUME NEW w \in Workers, Claim(w) PROVE LeaseInv'
    <2>1. PICK ids \in SUBSET Rows :
              /\ \A r \in ids : Candidate(r)
              /\ status' = [r \in Rows |-> IF r \in Committed THEN "PUBLISHING" ELSE status[r]]
              /\ lease' = [r \in Rows |-> IF r \in Committed THEN ClaimTTL ELSE lease[r]]
              /\ task' = [task EXCEPT ![w] = [r \in Rows |-> IF r \in ids THEN "claimed" ELSE "none"]]
      BY <1>c DEF Claim, OldestFirst
    <2>2. ids \subseteq Committed /\ UNCHANGED overrun
      BY <1>c, <2>1 DEF Claim, history, Committed, Candidate, Claimable
    <2>3. ClaimTTL > 0
      BY OutboxAssumption
    <2>4. ASSUME NEW r \in ids \ overrun, NEW v \in Workers PROVE task[v][r] = "none"
      <3>1. status[r] # "PUBLISHING" \/ lease[r] = 0
        BY <2>1 DEF Candidate, Claimable
      <3> QED
        BY <2>4, <3>1 DEF LeaseInv
    <2>5. ASSUME NEW v \in Workers, NEW r \in Rows \ overrun', task'[v][r] # "none"
          PROVE  status'[r] = "PUBLISHING" /\ lease'[r] > 0
      <3>1. r \in ids \/ task[v][r] # "none"
        BY <2>1, <2>5
      <3>2. r \in Committed
        BY <2>2, <2>5, <3>1 DEF LeaseInv, Committed
      <3> QED
        BY <2>1, <2>3, <3>2
    <2>6. ASSUME NEW u \in Workers, NEW v \in Workers, NEW r \in Rows \ overrun',
                 task'[u][r] # "none", task'[v][r] # "none"
          PROVE  u = v
      <3>1. CASE r \in ids
        BY <2>1, <2>2, <2>4, <2>6, <3>1
      <3>2. CASE r \notin ids
        BY <2>1, <2>2, <2>6, <3>2 DEF LeaseInv, OneTaskPerRow
      <3> QED
        BY <3>1, <3>2
    <2> QED
      BY <2>5, <2>6 DEF LeaseInv, OneTaskPerRow
  <1>d. ASSUME NEW w \in Workers, Crash(w) PROVE LeaseInv'
    BY <1>d, TasksShrink DEF Crash, history
  <1>e. ASSUME NEW w \in Workers, NEW r \in Rows, TaskStep(w, r) PROVE LeaseInv'
    <2>1. ASSUME NEW s, task' = [task EXCEPT ![w][r] = s], task[w][r] # "none",
                 UNCHANGED <<status, lease, overrun>>
          PROVE  LeaseInv'
      BY <2>1, TasksShrink
    <2>2. CASE Fetch(w, r)
      BY <2>1, <2>2 DEF Fetch, SetStage, table, history
    <2>3. CASE PublishOk(w, r)
      BY <2>1, <2>3 DEF PublishOk, SetStage, table, history
    <2>4. CASE PublishError(w, r)
      BY <2>1, <2>4 DEF PublishError, SetStage, table, history
    <2>5. CASE Refetch(w, r)
      <3>1. CASE StillHeld(w, r)
        BY <2>1, <2>5, <3>1 DEF Refetch, SetStage, table, history
      <3>2. CASE ~ StillHeld(w, r)
        BY <2>1, <2>5, <3>2 DEF Refetch, SetStage, table, history
      <3> QED
        BY <3>1, <3>2
    <2>6. CASE MarkPublished(w, r)
      BY <2>6, FinishKeepsLease DEF MarkPublished, Release, Finished, SetStage, history
    <2>7. CASE MarkFailed(w, r)
      <3>1. /\ task[w][r] # "none"
            /\ lease' = [lease EXCEPT ![r] = 0]
            /\ task' = [task EXCEPT ![w][r] = "none"]
            /\ UNCHANGED overrun
        BY <2>7 DEF MarkFailed, Release, Finished, SetStage
      <3>2. CASE Exhausted(seen[w][r] + 1)
        BY <2>7, <3>1, <3>2, FinishKeepsLease DEF MarkFailed
      <3>3. CASE ~ Exhausted(seen[w][r] + 1)
        BY <2>7, <3>1, <3>3, FinishKeepsLease DEF MarkFailed
      <3> QED
        BY <3>2, <3>3
    <2> QED
      BY <1>e, <2>2, <2>3, <2>4, <2>5, <2>6, <2>7 DEF TaskStep
  <1>f. ASSUME NEW w \in Workers, NEW r \in Rows, TaskFault(w, r) PROVE LeaseInv'
    BY <1>f, TasksShrink DEF TaskFault, Finished, SetStage, table, history
  <1>g. ASSUME Tick PROVE LeaseInv'
    <2>1. /\ UNCHANGED <<status, task>>
          /\ lease' = [r \in Rows |-> Less(lease[r])]
          /\ overrun' = overrun \cup RunningOut
      BY <1>g DEF Tick
    <2>2. \A w \in Workers, r \in Rows \ overrun' : task[w][r] # "none" => lease'[r] > 0
      BY <2>1, OutboxAssumption DEF Less, RunningOut
    <2> QED
      BY <2>1, <2>2 DEF LeaseInv, OneTaskPerRow
  <1>h. CASE UNCHANGED vars
    BY <1>h DEF vars, table, history, LeaseInv, OneTaskPerRow
  <1> QED
    BY <1>a, <1>b, <1>c, <1>d, <1>e, <1>f, <1>g, <1>h DEF Next

THEOREM LeaseInvariant == Spec => [](TypeOK /\ LeaseInv)
  BY InitType, NextType, InitLease, NextLease, PTL DEF Spec

\* However many relay instances there are, no row is published by two of them at a
\* time unless its lease once ran out under its task, although every claim writes every
\* row of the table.
THEOREM OneTask == Spec => []OneTaskPerRow
  <1>1. LeaseInv => OneTaskPerRow
    BY DEF LeaseInv
  <1> QED
    BY <1>1, LeaseInvariant, PTL

-----------------------------------------------------------------------------
\* Tasks that have seen a failed publish of r and have not written it down yet.
Reporting(r) == {w \in Workers : task[w][r] \in {"refused", "saveRefused"}}

\* A failed publish is counted once at most: attempt_count, and the value that a
\* finaliser fetched, leave room for the failures that are not written down yet.
CountInv ==
    /\ \A r \in Rows : attempts[r] + Cardinality(Reporting(r)) <= refusals[r]
    /\ \A w \in Workers, r \in Rows :
            task[w][r] = "saveRefused" => seen[w][r] + Cardinality(Reporting(r)) <= refusals[r]
    /\ GivenUpAfterFailures

LEMMA FewerWorkers ==
    ASSUME NEW S, NEW T, S \subseteq T, T \subseteq Workers
    PROVE  /\ IsFiniteSet(S) /\ IsFiniteSet(T)
           /\ Cardinality(S) \in Nat /\ Cardinality(T) \in Nat
           /\ Cardinality(S) <= Cardinality(T)
  <1>1. IsFiniteSet(T) /\ IsFiniteSet(S)
    BY OutboxAssumption, FS_Subset
  <1> QED
    BY <1>1, FS_Subset, FS_CardinalityType

LEMMA OneMore ==
    ASSUME NEW S \in SUBSET Workers, NEW T, NEW w, w \notin S, T = S \cup {w}
    PROVE  Cardinality(T) = Cardinality(S) + 1
  <1>1. IsFiniteSet(S)
    BY FewerWorkers
  <1> QED
    BY <1>1, FS_AddElement

LEMMA OneLess ==
    ASSUME NEW S \in SUBSET Workers, NEW T, NEW w, w \in S, T = S \ {w}
    PROVE  Cardinality(T) = Cardinality(S) - 1 /\ Cardinality(S) >= 1
  <1>1. IsFiniteSet(S) /\ IsFiniteSet(T) /\ Cardinality(T) \in Nat /\ Cardinality(S) \in Nat
    BY FewerWorkers
  <1>2. Cardinality(T) = Cardinality(S) - 1
    BY <1>1, FS_RemoveElement
  <1> QED
    BY <1>1, <1>2

LEMMA InitCount == Init => CountInv
  <1> SUFFICES ASSUME Init PROVE CountInv
    OBVIOUS
  <1>1. \A r \in Rows : Cardinality(Reporting(r)) = 0
    <2>1. \A r \in Rows : Reporting(r) = {}
      BY DEF Init, Reporting
    <2> QED
      BY <2>1, FS_EmptySet
  <1>2. \A w \in Workers, r \in Rows : task[w][r] = "none"
    BY DEF Init
  <1>3. \A r \in Rows : attempts[r] = 0 /\ refusals[r] = 0
    BY DEF Init
  <1>4. abandoned = {}
    BY DEF Init
  <1> QED
    BY <1>1, <1>2, <1>3, <1>4 DEF CountInv, GivenUpAfterFailures

\* A step that neither counts a failure nor begins to write one down.
LEMMA CountStays ==
    ASSUME TypeOK, CountInv,
           UNCHANGED <<refusals, abandoned>>,
           \A r \in Rows : attempts'[r] \in Nat /\ attempts'[r] <= attempts[r],
           \A w \in Workers, r \in Rows :
                /\ task'[w][r] \in {"refused", "saveRefused"} =>
                        task[w][r] \in {"refused", "saveRefused"}
                /\ task'[w][r] = "saveRefused" =>
                        task[w][r] = "saveRefused" /\ seen'[w][r] = seen[w][r]
    PROVE  CountInv'
  <1>1. ASSUME NEW r \in Rows
        PROVE  /\ Cardinality(Reporting(r)) \in Nat /\ Cardinality(Reporting(r)') \in Nat
               /\ Cardinality(Reporting(r)') <= Cardinality(Reporting(r))
    <2>1. Reporting(r)' \subseteq Reporting(r) /\ Reporting(r) \subseteq Workers
      BY DEF Reporting
    <2> QED
      BY <2>1, FewerWorkers
  <1>2. \A r \in Rows : attempts'[r] + Cardinality(Reporting(r)') <= refusals'[r]
    BY <1>1 DEF CountInv, TypeOK
  <1>3. \A w \in Workers, r \in Rows :
            task'[w][r] = "saveRefused" => seen'[w][r] + Cardinality(Reporting(r)') <= refusals'[r]
    BY <1>1 DEF CountInv, TypeOK
  <1> QED
    BY <1>2, <1>3 DEF CountInv, GivenUpAfterFailures

LEMMA NextCount == TypeOK /\ TypeOK' /\ CountInv /\ [Next]_vars => CountInv'
  <1> SUFFICES ASSUME TypeOK, TypeOK', CountInv, [Next]_vars PROVE CountInv'
    OBVIOUS
  <1> USE DEF TypeOK
  <1>1. ASSUME NEW r \in Rows, Enqueue(r) \/ LateDelivery(r) PROVE CountInv'
    BY <1>1, CountStays DEF Enqueue, LateDelivery, table, history
  <1>2. ASSUME NEW w \in Workers, Claim(w) PROVE CountInv'
    <2>1. PICK ids \in SUBSET Rows :
              task' = [task EXCEPT ![w] = [r \in Rows |-> IF r \in ids THEN "claimed" ELSE "none"]]
      BY <1>2 DEF Claim
    <2>2. UNCHANGED <<refusals, abandoned, attempts, seen>>
      BY <1>2 DEF Claim, history
    <2> QED
      BY <2>1, <2>2, CountStays
  <1>3. ASSUME NEW w \in Workers, Crash(w) PROVE CountInv'
    BY <1>3, CountStays DEF Crash, history
  <1>4. ASSUME NEW w \in Workers, NEW r \in Rows, TaskStep(w, r) PROVE CountInv'
    <2>0. Reporting(r) \subseteq Workers /\ Cardinality(Reporting(r)) \in Nat
      <3>1. Reporting(r) \subseteq Workers
        BY DEF Reporting
      <3> QED
        BY <3>1, FewerWorkers
    <2>1. CASE Fetch(w, r)
      BY <2>1, CountStays DEF Fetch, SetStage, table, history
    <2>2. CASE PublishOk(w, r)
      BY <2>2, CountStays DEF PublishOk, SetStage, table, history
    <2>3. CASE PublishError(w, r)
      <3>1. /\ task[w][r] = "sending" /\ task' = [task EXCEPT ![w][r] = "refused"]
            /\ refusals' = [refusals EXCEPT ![r] = @ + 1]
            /\ UNCHANGED <<attempts, seen, abandoned>>
        BY <2>3 DEF PublishError, SetStage, table
      <3>2. Reporting(r)' = Reporting(r) \cup {w} /\ w \notin Reporting(r)
        BY <3>1 DEF Reporting
      <3>3. Cardinality(Reporting(r)') = Cardinality(Reporting(r)) + 1
        BY <2>0, <3>2, OneMore
      <3>4. \A q \in Rows : q # r => Reporting(q)' = Reporting(q) /\ refusals'[q] = refusals[q]
        BY <3>1 DEF Reporting
      <3>5. \A q \in Rows : attempts'[q] + Cardinality(Reporting(q)') <= refusals'[q]
        BY <2>0, <3>1, <3>3, <3>4 DEF CountInv
      <3>6. ASSUME NEW v \in Workers, NEW q \in Rows, task'[v][q] = "saveRefused"
            PROVE  seen'[v][q] + Cardinality(Reporting(q)') <= refusals'[q]
        <4>1. task[v][q] = "saveRefused"
          BY <3>1, <3>6
        <4> QED
          BY <2>0, <3>1, <3>3, <3>4, <4>1 DEF CountInv
      <3>7. GivenUpAfterFailures'
        BY <3>1, OutboxAssumption DEF CountInv, GivenUpAfterFailures
      <3> QED
        BY <3>5, <3>6, <3>7 DEF CountInv
    <2>4. CASE Refetch(w, r)
      <3>1. CASE ~ StillHeld(w, r)
        <4>1. task' = [task EXCEPT ![w][r] = "none"] /\ UNCHANGED <<seen, refusals, abandoned, attempts>>
          BY <2>4, <3>1 DEF Refetch, SetStage, table, history
        <4> QED
          BY <4>1, CountStays
      <3>2. CASE StillHeld(w, r) /\ task[w][r] = "acked"
        <4>1. /\ task' = [task EXCEPT ![w][r] = "saveAcked"]
              /\ seen' = [seen EXCEPT ![w][r] = attempts[r]]
              /\ task[w][r] = "acked"
              /\ UNCHANGED <<refusals, abandoned, attempts>>
          BY <2>4, <3>2 DEF Refetch, SetStage, table, history
        <4> QED
          BY <4>1, CountStays
      <3>3. CASE StillHeld(w, r) /\ task[w][r] = "refused"
        <4>1. /\ task' = [task EXCEPT ![w][r] = "saveRefused"]
              /\ seen' = [seen EXCEPT ![w][r] = attempts[r]]
              /\ UNCHANGED <<attempts, refusals, abandoned>>
          BY <2>4, <3>3 DEF Refetch, SetStage, table, history
        <4>2. \A q \in Rows : Reporting(q)' = Reporting(q)
          BY <3>3, <4>1 DEF Reporting
        <4>3. \A v \in Workers, q \in Rows :
                  task'[v][q] = "saveRefused" =>
                      \/ task[v][q] = "saveRefused" /\ seen'[v][q] = seen[v][q]
                      \/ seen'[v][q] = attempts[q]
          BY <4>1
        <4>4. \A v \in Workers, q \in Rows :
                  task'[v][q] = "saveRefused" => seen'[v][q] + Cardinality(Reporting(q)') <= refusals'[q]
          BY <4>1, <4>2, <4>3 DEF CountInv
        <4> QED
          BY <4>1, <4>2, <4>4 DEF CountInv, GivenUpAfterFailures
      <3> QED
        BY <2>4, <3>1, <3>2, <3>3 DEF Refetch
    <2>5. CASE MarkPublished(w, r)
      BY <2>5, CountStays DEF MarkPublished, Finished, SetStage, history
    <2>6. CASE MarkFailed(w, r)
      <3>1. /\ task[w][r] = "saveRefused" /\ task' = [task EXCEPT ![w][r] = "none"]
            /\ seen' = [seen EXCEPT ![w][r] = 0]
            /\ attempts' = [attempts EXCEPT ![r] = Capped(seen[w][r] + 1)]
            /\ UNCHANGED refusals
        BY <2>6 DEF MarkFailed, Finished, SetStage
      <3>2. Reporting(r)' = Reporting(r) \ {w} /\ w \in Reporting(r)
        BY <3>1 DEF Reporting
      <3>3. /\ Cardinality(Reporting(r)') = Cardinality(Reporting(r)) - 1
            /\ Cardinality(Reporting(r)) >= 1
        BY <2>0, <3>2, OneLess
      <3>4. \A q \in Rows : q # r => Reporting(q)' = Reporting(q) /\ attempts'[q] = attempts[q]
        BY <3>1 DEF Reporting
      <3>5. seen[w][r] + Cardinality(Reporting(r)) <= refusals[r]
        BY <3>1 DEF CountInv
      <3>6. \A q \in Rows : attempts'[q] + Cardinality(Reporting(q)') <= refusals'[q]
        <4>1. attempts'[r] <= seen[w][r] + 1
          <5>1. attempts'[r] = Capped(seen[w][r] + 1)
            BY <3>1
          <5>2. \A n \in Nat : Capped(n) <= n
            BY OutboxAssumption DEF Capped
          <5>3. seen[w][r] + 1 \in Nat
            OBVIOUS
          <5> QED
            BY <5>1, <5>2, <5>3
        <4> QED
          BY <2>0, <3>1, <3>3, <3>4, <3>5, <4>1 DEF CountInv
      <3>7. ASSUME NEW v \in Workers, NEW q \in Rows, task'[v][q] = "saveRefused"
            PROVE  seen'[v][q] + Cardinality(Reporting(q)') <= refusals'[q]
        <4>1. task[v][q] = "saveRefused" /\ seen'[v][q] = seen[v][q]
          BY <3>1, <3>7
        <4>2. seen[v][q] + Cardinality(Reporting(q)) <= refusals[q]
          BY <4>1 DEF CountInv
        <4> QED
          BY <2>0, <3>1, <3>3, <3>4, <4>1, <4>2
      <3>8. GivenUpAfterFailures'
        <4>1. \/ abandoned' = abandoned
              \/ abandoned' = abandoned \cup {r} /\ seen[w][r] + 1 >= MaxFailures
          <5>1. CASE Exhausted(seen[w][r] + 1)
            BY <2>6, <5>1 DEF MarkFailed, Exhausted
          <5>2. CASE ~ Exhausted(seen[w][r] + 1)
            BY <2>6, <5>2 DEF MarkFailed
          <5> QED
            BY <5>1, <5>2
        <4>2. seen[w][r] + 1 <= refusals[r]
          BY <2>0, <3>3, <3>5
        <4>3. CASE abandoned' = abandoned
          BY <3>1, <4>3 DEF CountInv, GivenUpAfterFailures
        <4>4. CASE abandoned' = abandoned \cup {r} /\ seen[w][r] + 1 >= MaxFailures
          <5>1. refusals[r] >= MaxFailures
            <6>1. seen[w][r] \in Nat /\ refusals[r] \in Nat /\ MaxFailures \in Nat
              BY OutboxAssumption
            <6> QED
              BY <4>2, <4>4, <6>1
          <5> QED
            BY <3>1, <4>4, <5>1 DEF CountInv, GivenUpAfterFailures
        <4> QED
          BY <4>1, <4>3, <4>4
      <3> QED
        BY <3>6, <3>7, <3>8 DEF CountInv
    <2> QED
      BY <1>4, <2>1, <2>2, <2>3, <2>4, <2>5, <2>6 DEF TaskStep
  <1>5. ASSUME NEW w \in Workers, NEW r \in Rows, TaskFault(w, r) PROVE CountInv'
    BY <1>5, CountStays DEF TaskFault, Finished, SetStage, table, history
  <1>6. CASE Tick \/ UNCHANGED vars
    BY <1>6, CountStays DEF Tick, vars, table, history
  <1> QED
    BY <1>1, <1>2, <1>3, <1>4, <1>5, <1>6 DEF Next

\* An event is dead-lettered only after max_failures failed publishes of that event,
\* however often its claim has changed hands and whatever a late finaliser had fetched.
THEOREM GivenUp == Spec => []GivenUpAfterFailures
  <1>1. CountInv => GivenUpAfterFailures
    BY DEF CountInv
  <1> QED
    BY <1>1, InitType, NextType, InitCount, NextCount, PTL DEF Spec

-----------------------------------------------------------------------------
LEMMA InitRefines == Init => Delivery!Init
  BY DEF Init, Delivery!Init, Committed

\* Every step of the relay is a step of the abstract outbox or a stutter.
LEMMA NextRefines ==
    TypeOK /\ DeliveryInv /\ [Next]_vars => [Delivery!Next]_(Delivery!vars)
  <1> SUFFICES ASSUME TypeOK, DeliveryInv, [Next]_vars
               PROVE  Delivery!Next \/ UNCHANGED Delivery!vars
    BY DEF Delivery!vars
  <1> USE DEF TypeOK
  <1>0. ASSUME NEW r \in Rows, Front(r)
        PROVE  \A q \in ahead[r] : Delivery!Settled(q)
    BY <1>0 DEF Front, Delivery!Settled
  <1>1. ASSUME NEW r \in Rows, status[r] # "ABSENT", Front(r), UNCHANGED <<status, ahead, abandoned>>,
               delivered' = delivered \cup {r}
        PROVE  Delivery!Next
    <2>1. Delivery!Deliver(r)
      BY <1>0, <1>1 DEF Delivery!Deliver, Delivery!Due, Committed
    <2> QED
      BY <2>1 DEF Delivery!Next
  <1>2. ASSUME UNCHANGED <<delivered, ahead, abandoned>>,
               \A r \in Rows : status'[r] = "ABSENT" <=> status[r] = "ABSENT"
        PROVE  UNCHANGED Delivery!vars
    BY <1>2 DEF Delivery!vars, Committed
  <1>a. ASSUME NEW r \in Rows, Enqueue(r) PROVE Delivery!Next
    <2>1. Delivery!Commit(r)
      BY <1>a DEF Enqueue, broker, Before, Delivery!Before, Delivery!Commit, Committed
    <2> QED
      BY <2>1 DEF Delivery!Next
  <1>b. ASSUME NEW r \in Rows, LateDelivery(r) PROVE Delivery!Next
    BY <1>b, <1>1 DEF LateDelivery, Received, table, history, DeliveryInv, BrokerHasFront
  <1>c. ASSUME NEW w \in Workers, Claim(w) PROVE UNCHANGED Delivery!vars
    BY <1>c, <1>2, SMTT(30) DEF Claim, Committed, broker, history
  <1>d. ASSUME NEW w \in Workers, Crash(w) PROVE UNCHANGED Delivery!vars
    BY <1>d, <1>2 DEF Crash, broker, history
  <1>e. ASSUME NEW w \in Workers, NEW r \in Rows, TaskStep(w, r)
        PROVE  Delivery!Next \/ UNCHANGED Delivery!vars
    <2>0. task[w][r] # "none" => status[r] # "ABSENT" /\ Front(r)
      BY DEF DeliveryInv, WorkHasFront
    <2>1. CASE PublishOk(w, r)
      BY <1>1, <2>0, <2>1 DEF PublishOk, Received, table, history
    <2>2. CASE MarkPublished(w, r)
      BY <1>2, <2>0, <2>2 DEF MarkPublished, broker, history
    <2>3. CASE MarkFailed(w, r)
      <3>1. CASE Exhausted(seen[w][r] + 1)
        <4>1. Delivery!Abandon(r)
          BY <1>0, <2>0, <2>3, <3>1 DEF MarkFailed, broker, Delivery!Abandon, Delivery!Due, Committed
        <4> QED
          BY <4>1 DEF Delivery!Next
      <3>2. CASE ~ Exhausted(seen[w][r] + 1)
        BY <1>2, <2>0, <2>3, <3>2 DEF MarkFailed, broker, history
      <3> QED
        BY <3>1, <3>2
    <2> QED
      BY <1>e, <1>2, <2>1, <2>2, <2>3
         DEF TaskStep, Fetch, PublishError, Refetch, table, broker, history
  <1>f. ASSUME NEW w \in Workers, NEW r \in Rows, TaskFault(w, r) PROVE UNCHANGED Delivery!vars
    BY <1>f, <1>2 DEF TaskFault, table, broker, history
  <1>g. CASE Tick \/ UNCHANGED vars
    BY <1>g, <1>2 DEF Tick, vars, table, broker, history
  <1> QED
    BY <1>a, <1>b, <1>c, <1>d, <1>e, <1>f, <1>g DEF Next

\* The relay implements the abstract outbox for every table, any number of workers and
\* any order of the commits, even when leases expire under running tasks: a first
\* delivery waits for everything that stood before the row when it was committed, and
\* skips nothing but dead letters.
THEOREM RelayRefines == Spec => DeliversInOrder
  BY InitRefines, NextRefines, DeliveryInvariant, PTL DEF Spec, DeliversInOrder, Delivery!Spec
=============================================================================
