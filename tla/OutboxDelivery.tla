--------------------------- MODULE OutboxDelivery ---------------------------
(***************************************************************************)
(* The order that a transactional outbox promises its consumers, without   *)
(* workers, claims, leases or retries: inside one partition no event is    *)
(* delivered or given up before one that is earlier, was committed before  *)
(* it, and is neither delivered nor given up.  Nothing is promised of an   *)
(* event that is committed late, after one with a later time stamp, nor of *)
(* events without a partition, nor that an event is delivered at all.      *)
(***************************************************************************)
EXTENDS Naturals

CONSTANTS Rows,          \* the rows the producers will ever insert
          PartitionOf,   \* partition_key of a row
          NoPartition,   \* the partition_key of rows in no order
          CreatedAt      \* created_at_utc of a row

VARIABLES committed,     \* rows whose inserting transaction committed
          ahead,         \* rows that stood before a row when it was committed
          delivered,     \* rows the broker has received at least once
          abandoned      \* rows that were dead-lettered at least once

vars == <<committed, ahead, delivered, abandoned>>

\* q stands in front of r in the queue of their common partition.
Before(q, r) == /\ PartitionOf[q] = PartitionOf[r]
                /\ PartitionOf[r] # NoPartition
                /\ CreatedAt[q] < CreatedAt[r]

Settled(r) == r \in delivered \cup abandoned

Init == /\ committed = {}
        /\ ahead = [r \in Rows |-> {}]
        /\ delivered = {}
        /\ abandoned = {}

Commit(r) == /\ r \notin committed
             /\ committed' = committed \cup {r}
             /\ ahead' = [ahead EXCEPT ![r] = {q \in committed : Before(q, r)}]
             /\ UNCHANGED <<delivered, abandoned>>

\* It is r's turn: nothing that stood before it is still waiting.
Due(r) == r \in committed /\ \A q \in ahead[r] : Settled(q)

Deliver(r) == /\ Due(r)
              /\ delivered' = delivered \cup {r}
              /\ UNCHANGED <<committed, ahead, abandoned>>

Abandon(r) == /\ Due(r)
              /\ abandoned' = abandoned \cup {r}
              /\ UNCHANGED <<committed, ahead, delivered>>

Next == \E r \in Rows : Commit(r) \/ Deliver(r) \/ Abandon(r)

Spec == Init /\ [][Next]_vars

=============================================================================
