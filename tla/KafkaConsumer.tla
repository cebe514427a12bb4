---------------------------- MODULE KafkaConsumer ----------------------------
(***************************************************************************)
(* platform_common/consumer.py: the instances of one consumer group read   *)
(* one partition.  Each polls, processes and commits one message at a      *)
(* time; the position is in memory, the committed offset in the broker.    *)
(* enable.auto.commit is off, and commit() is asynchronous.                *)
(***************************************************************************)
EXTENDS Naturals, FiniteSets

CONSTANTS Instances,
          Length,         \* the messages of the partition are 0 .. Length - 1
          Malformed,      \* those whose value is no JSON
          MaxFailures,    \* bound on the messages process() raises for
          MaxFaults       \* bound on crashes, rebalances and lost commits

ASSUME ConsumerAssumption ==
    /\ Length \in Nat
    /\ Malformed \subseteq 0 .. Length - 1
    /\ MaxFailures \in Nat /\ MaxFaults \in Nat

VARIABLES owner,      \* the instance the partition is assigned to
          position,   \* the next message of the owner's poll
          committed,  \* the committed offset of the group
          job,        \* what each instance is doing with which message
          processed,  \* messages whose process() has returned
          repeats,    \* how often it has returned for one of them again
          failed,     \* messages whose process() has raised
          faults

vars == <<owner, position, committed, job, processed, repeats, failed, faults>>

Offsets == 0 .. Length - 1
Polling == [at |-> "polling", msg |-> 0]

TypeOK ==
    /\ owner \in Instances
    /\ position \in 0 .. Length
    /\ committed \in 0 .. Length
    /\ job \in [Instances -> [at: {"polling", "processing", "committing"}, msg: 0 .. Length]]
    /\ processed \subseteq Offsets
    /\ repeats \in Nat
    /\ failed \subseteq Offsets
    /\ faults \in 0 .. MaxFaults

Init ==
    /\ owner \in Instances
    /\ position = 0
    /\ committed = 0
    /\ job = [c \in Instances |-> Polling]
    /\ processed = {}
    /\ repeats = 0
    /\ failed = {}
    /\ faults = 0

-----------------------------------------------------------------------------
Goto(c, stage, m) == job' = [job EXCEPT ![c] = [at |-> stage, msg |-> m]]

Poll(c) ==
    /\ owner = c /\ job[c] = Polling
    /\ position < Length
    /\ position' = position + 1
    /\ Goto(c, "processing", position)
    /\ UNCHANGED <<owner, committed, processed, repeats, failed, faults>>

\* _process_message returns: process() is done, or the message was no JSON and
\* was logged.
Process(c) ==
    LET m == job[c].msg
    IN  /\ job[c].at = "processing"
        /\ IF m \in Malformed THEN UNCHANGED <<processed, repeats>>
           ELSE /\ processed' = processed \cup {m}
                /\ repeats' = IF m \in processed THEN repeats + 1 ELSE repeats
        /\ Goto(c, "committing", m)
        /\ UNCHANGED <<owner, position, committed, failed, faults>>

\* process() raises: "Process error" is logged and the loop polls on.
ProcessError(c) ==
    /\ job[c].at = "processing" /\ job[c].msg \notin Malformed
    /\ Cardinality(failed) < MaxFailures
    /\ failed' = failed \cup {job[c].msg}
    /\ Goto(c, "polling", 0)
    /\ UNCHANGED <<owner, position, committed, processed, repeats, faults>>

NextOffset(m) == m + 2

SameOffset(m) == m

\* commit(message) commits the offset behind the message.
Behind(m) == m + 1

\* The broker refuses the commit of an instance that has lost the partition.
Commit(c) ==
    /\ job[c].at = "committing"
    /\ committed' = IF owner = c THEN Behind(job[c].msg) ELSE committed
    /\ Goto(c, "polling", 0)
    /\ UNCHANGED <<owner, position, processed, repeats, failed, faults>>

\* The asynchronous commit, or the call itself, fails; the loop polls on.
CommitLost(c) ==
    /\ job[c].at = "committing"
    /\ faults < MaxFaults
    /\ faults' = faults + 1
    /\ Goto(c, "polling", 0)
    /\ UNCHANGED <<owner, position, committed, processed, repeats, failed>>

\* A rebalance gives the partition to an instance that polls; it resumes at the
\* committed offset, while the old owner may still be at work on a message.
Rebalance(c) ==
    /\ job[c] = Polling
    /\ faults < MaxFaults
    /\ faults' = faults + 1
    /\ owner' = c
    /\ position' = committed
    /\ UNCHANGED <<committed, job, processed, repeats, failed>>

\* An instance dies, restarts and rejoins the group.
Crash(c) ==
    /\ faults < MaxFaults
    /\ faults' = faults + 1
    /\ Goto(c, "polling", 0)
    /\ position' = IF owner = c THEN committed ELSE position
    /\ UNCHANGED <<owner, committed, processed, repeats, failed>>

Step(c) == Poll(c) \/ Process(c) \/ Commit(c)

Next == \E c \in Instances : Step(c) \/ ProcessError(c) \/ CommitLost(c) \/ Rebalance(c) \/ Crash(c)

Spec == Init /\ [][Next]_vars

\* _consume_loop polls for ever and process() ends.
FairSpec == Spec /\ \A c \in Instances : WF_vars(Step(c))

-----------------------------------------------------------------------------
\* Crashes, rebalances and lost commits skip nothing: a committed message that
\* was not processed is one that process() has raised for.
SkippedHaveFailed ==
    \A m \in Offsets \ Malformed : m < committed => m \in processed \cup failed

\* Duplicates are the price of faults only: every repetition is paid for by a
\* crash, a rebalance or a lost commit of its own.
RepeatsArePaidFor == repeats <= faults

\* No well-formed message is forgotten: each is processed in the end, or process()
\* has raised for it.
EveryMessageHandled == <>(Offsets \ Malformed \subseteq processed \cup failed)

-----------------------------------------------------------------------------
\* What the code does not keep; TLC refutes it with one exception of process().

\* "Event delivery is at-least-once": what the group has committed it has
\* processed, whatever was crashed, moved, lost or raised in between.
CommittedWereProcessed == \A m \in Offsets \ Malformed : m < committed => m \in processed
=============================================================================
