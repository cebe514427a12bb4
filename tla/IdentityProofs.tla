---------------------------- MODULE IdentityProofs -----------------------------
(***************************************************************************)
(* The identity service, in three parts.                                   *)
(*                                                                         *)
(* For any group, any partition and any number of faults, a consumer's     *)
(* committed offset passes no message that was neither processed nor       *)
(* raised for, and every repeated processing is paid for by a fault of its *)
(* own.                                                                    *)
(*                                                                         *)
(* The registration consumers behave as consumers of KafkaConsumer, so     *)
(* what is proved of those holds of them.                                  *)
(*                                                                         *)
(* For any tokens, families, keys and requests, a client never holds what  *)
(* no service can verify, and a family never has more tokens in use than   *)
(* its login and the rotations that were overtaken account for.  The       *)
(* second needs to know that a family has one beginning: a login under way *)
(* is alone with its family, and a rotation has the family of its parent.  *)
(***************************************************************************)
EXTENDS IdentityRegistration, AuthTokens, FiniteSetTheorems, TLAPS

Stages == {"polling", "processing", "committing"}
Jobs == [at : Stages, msg : 0 .. Length]

\* What the job of an instance says of its message.
JobInv ==
    \A c \in Instances :
        /\ job[c].at = "polling" => job[c] = Polling
        /\ job[c].at # "polling" => job[c].msg \in Offsets

Handled(m) == m \in processed \cup failed \cup Malformed

\* The owner's job is about the message before its position.
OwnerInv ==
    /\ committed <= position
    /\ job[owner].at # "polling" => job[owner].msg + 1 = position /\ committed <= job[owner].msg

\* Everything before the position is handled, but for the message that the owner
\* is processing; what is committed is before that.
HandledInv ==
    \A m \in Offsets :
        /\ m < committed => Handled(m)
        /\ m < position => Handled(m) \/ (job[owner].at = "processing" /\ job[owner].msg = m)

IInv == TypeOK /\ JobInv /\ OwnerInv /\ HandledInv

\* Messages that were processed and could be polled again, but for the one whose
\* commit the owner is about to ask for.
Excused == IF job[owner].at = "committing" THEN {job[owner].msg} ELSE {}
Exposed == {m \in processed : m >= committed} \ Excused

\* Instances that lost the partition while they were processing.
Stale == {c \in Instances \ {owner} : job[c].at = "processing"}

\* Each fault pays for one repetition that took place or is still to come.
Paid ==
    /\ IsFiniteSet(Exposed) /\ IsFiniteSet(Stale)
    /\ repeats + Cardinality(Exposed) + Cardinality(Stale) <= faults

-----------------------------------------------------------------------------
(* Finite sets that grow or shrink by one element.                         *)

LEMMA SmallerSet ==
    ASSUME NEW S, IsFiniteSet(S), NEW T, T \subseteq S
    PROVE  IsFiniteSet(T) /\ Cardinality(T) \in Nat /\ Cardinality(S) \in Nat /\ Cardinality(T) <= Cardinality(S)
BY FS_Subset, FS_CardinalityType

LEMMA OneMore ==
    ASSUME NEW S, IsFiniteSet(S), NEW x, NEW T, T \subseteq S \cup {x}
    PROVE  IsFiniteSet(T) /\ Cardinality(T) \in Nat /\ Cardinality(S) \in Nat /\ Cardinality(T) <= Cardinality(S) + 1
<1>1. IsFiniteSet(S \cup {x}) /\ Cardinality(S \cup {x}) <= Cardinality(S) + 1 /\ Cardinality(S) \in Nat
    BY FS_AddElement, FS_CardinalityType
<1>2. IsFiniteSet(T) /\ Cardinality(T) \in Nat /\ Cardinality(S \cup {x}) \in Nat /\ Cardinality(T) <= Cardinality(S \cup {x})
    BY <1>1, SmallerSet
<1> QED BY <1>1, <1>2

LEMMA OneLess ==
    ASSUME NEW S, IsFiniteSet(S), NEW x \in S, NEW T, T \subseteq S \ {x}
    PROVE  IsFiniteSet(T) /\ Cardinality(T) \in Nat /\ Cardinality(S) \in Nat /\ Cardinality(T) + 1 <= Cardinality(S)
<1>1. IsFiniteSet(S \ {x}) /\ Cardinality(S \ {x}) = Cardinality(S) - 1 /\ Cardinality(S) \in Nat
    BY FS_RemoveElement, FS_CardinalityType
<1>2. IsFiniteSet(T) /\ Cardinality(T) \in Nat /\ Cardinality(T) <= Cardinality(S \ {x})
    BY <1>1, SmallerSet
<1> QED BY <1>1, <1>2

-----------------------------------------------------------------------------
(* Types and the committed offset.                                         *)

LEMMA InitInv == Init => IInv
<1> SUFFICES ASSUME Init PROVE IInv
    OBVIOUS
<1>1. Polling \in Jobs
    BY ConsumerAssumption DEF Polling, Jobs, Stages
<1>2. TypeOK
    BY <1>1, ConsumerAssumption DEF Init, TypeOK, Jobs, Stages
<1> QED BY <1>2 DEF Init, IInv, JobInv, OwnerInv, HandledInv, Polling, Offsets

\* The types behind a change of a job.
LEMMA GotoTyped ==
    ASSUME TypeOK, NEW c \in Instances, NEW stage \in Stages, NEW m \in 0 .. Length, Goto(c, stage, m)
    PROVE  /\ job' \in [Instances -> Jobs]
           /\ job'[c] = [at |-> stage, msg |-> m]
           /\ \A d \in Instances \ {c} : job'[d] = job[d]
<1>1. job \in [Instances -> Jobs]
    BY DEF TypeOK, Jobs, Stages
<1>2. [at |-> stage, msg |-> m] \in Jobs
    BY DEF Jobs
<1> QED BY <1>1, <1>2 DEF Goto

LEMMA PollKeeps ==
    ASSUME IInv, NEW c \in Instances, Poll(c)
    PROVE  IInv'
<1>0. position \in 0 .. Length /\ position < Length /\ Length \in Nat /\ committed \in 0 .. Length
    BY ConsumerAssumption DEF Poll, IInv, TypeOK
<1>1. /\ job' \in [Instances -> Jobs] /\ job'[c] = [at |-> "processing", msg |-> position]
      /\ \A d \in Instances \ {c} : job'[d] = job[d]
    BY <1>0, GotoTyped DEF Poll, IInv, Stages
<1>2. TypeOK'
    BY <1>0, <1>1 DEF Poll, IInv, TypeOK, Jobs, Stages
<1>3. JobInv'
    BY <1>0, <1>1 DEF IInv, JobInv, Polling, Offsets
<1>4. OwnerInv'
    BY <1>0, <1>1 DEF Poll, IInv, OwnerInv
<1>5. HandledInv'
    BY <1>0, <1>1 DEF Poll, IInv, HandledInv, Handled, Polling, Offsets
<1> QED BY <1>2, <1>3, <1>4, <1>5 DEF IInv

LEMMA ProcessKeeps ==
    ASSUME IInv, NEW c \in Instances, Process(c)
    PROVE  IInv'
<1>0. job[c].msg \in Offsets /\ job[c].msg \in 0 .. Length /\ Length \in Nat
    BY ConsumerAssumption DEF Process, IInv, JobInv, TypeOK
<1>1. /\ job' \in [Instances -> Jobs] /\ job'[c] = [at |-> "committing", msg |-> job[c].msg]
      /\ \A d \in Instances \ {c} : job'[d] = job[d]
    BY <1>0, GotoTyped DEF Process, IInv, Stages
<1>2. /\ processed \subseteq processed' /\ processed' \subseteq Offsets /\ repeats' \in Nat
      /\ job[c].msg \in processed' \cup Malformed
    BY <1>0 DEF Process, IInv, TypeOK
<1>3. TypeOK'
    BY <1>1, <1>2 DEF Process, IInv, TypeOK, Jobs, Stages
<1>4. JobInv'
    BY <1>0, <1>1 DEF IInv, JobInv, Polling
<1>5. OwnerInv'
    BY <1>1 DEF Process, IInv, OwnerInv, TypeOK
<1>6. HandledInv'
    BY <1>1, <1>2 DEF Process, IInv, HandledInv, Handled, TypeOK
<1> QED BY <1>3, <1>4, <1>5, <1>6 DEF IInv

LEMMA ProcessErrorKeeps ==
    ASSUME IInv, NEW c \in Instances, ProcessError(c)
    PROVE  IInv'
<1>0. job[c].msg \in Offsets /\ Length \in Nat /\ job[c].at = "processing"
    BY ConsumerAssumption DEF ProcessError, IInv, JobInv, TypeOK
<1>1. /\ job' \in [Instances -> Jobs] /\ job'[c] = Polling
      /\ \A d \in Instances \ {c} : job'[d] = job[d]
    BY <1>0, GotoTyped DEF ProcessError, IInv, Stages, Polling
<1>2. failed' = failed \cup {job[c].msg} /\ failed' \subseteq Offsets
    BY <1>0 DEF ProcessError, IInv, TypeOK
<1>3. TypeOK'
    BY <1>1, <1>2 DEF ProcessError, IInv, TypeOK, Jobs, Stages
<1>4. JobInv'
    BY <1>1 DEF IInv, JobInv, Polling
<1>5. OwnerInv'
    BY <1>1 DEF ProcessError, IInv, OwnerInv, TypeOK, Polling
<1>6. HandledInv'
    BY <1>1, <1>2 DEF ProcessError, IInv, HandledInv, Handled, TypeOK, Polling
<1> QED BY <1>3, <1>4, <1>5, <1>6 DEF IInv

LEMMA CommitKeeps ==
    ASSUME IInv, NEW c \in Instances, Commit(c)
    PROVE  IInv'
<1>0. job[c].msg \in 0 .. Length - 1 /\ Length \in Nat /\ job[c].at = "committing"
    BY ConsumerAssumption DEF Commit, IInv, JobInv, TypeOK, Offsets
<1>1. /\ job' \in [Instances -> Jobs] /\ job'[c] = Polling
      /\ \A d \in Instances \ {c} : job'[d] = job[d]
    BY <1>0, GotoTyped DEF Commit, IInv, Stages, Polling
<1>2. committed' = IF owner = c THEN job[c].msg + 1 ELSE committed
    BY DEF Commit, Behind
<1>3. TypeOK'
    BY <1>0, <1>1, <1>2 DEF Commit, IInv, TypeOK, Jobs, Stages
<1>4. JobInv'
    BY <1>1 DEF IInv, JobInv, Polling
<1>5. OwnerInv'
    BY <1>0, <1>1, <1>2 DEF Commit, IInv, OwnerInv, TypeOK, Polling
<1>6. HandledInv'
    <2>1. CASE owner = c
        BY <1>0, <1>1, <1>2, <2>1 DEF Commit, IInv, HandledInv, OwnerInv, Handled, TypeOK, Polling
    <2>2. CASE owner # c
        BY <1>0, <1>1, <1>2, <2>2 DEF Commit, IInv, HandledInv, Handled, TypeOK, Polling
    <2> QED BY <2>1, <2>2
<1> QED BY <1>3, <1>4, <1>5, <1>6 DEF IInv

LEMMA CommitLostKeeps ==
    ASSUME IInv, NEW c \in Instances, CommitLost(c)
    PROVE  IInv'
<1>0. job[c].at = "committing" /\ faults' \in 0 .. MaxFaults /\ Length \in Nat
    BY ConsumerAssumption DEF CommitLost, IInv, TypeOK
<1>1. /\ job' \in [Instances -> Jobs] /\ job'[c] = Polling
      /\ \A d \in Instances \ {c} : job'[d] = job[d]
    BY <1>0, GotoTyped DEF CommitLost, IInv, Stages, Polling
<1>2. TypeOK'
    BY <1>0, <1>1 DEF CommitLost, IInv, TypeOK, Jobs, Stages
<1>3. JobInv'
    BY <1>1 DEF IInv, JobInv, Polling
<1>4. OwnerInv'
    BY <1>1 DEF CommitLost, IInv, OwnerInv, TypeOK, Polling
<1>5. HandledInv'
    BY <1>0, <1>1 DEF CommitLost, IInv, HandledInv, Handled, TypeOK, Polling
<1> QED BY <1>2, <1>3, <1>4, <1>5 DEF IInv

LEMMA RebalanceKeeps ==
    ASSUME IInv, NEW c \in Instances, Rebalance(c)
    PROVE  IInv'
<1>1. faults' \in 0 .. MaxFaults /\ committed \in 0 .. Length
    BY ConsumerAssumption DEF Rebalance, IInv, TypeOK
<1>2. TypeOK'
    BY <1>1 DEF Rebalance, IInv, TypeOK
<1>3. JobInv'
    BY DEF Rebalance, IInv, JobInv
<1>4. OwnerInv'
    BY <1>1, ConsumerAssumption DEF Rebalance, IInv, OwnerInv, Polling
<1>5. HandledInv'
    BY DEF Rebalance, IInv, HandledInv, Handled, Polling
<1> QED BY <1>2, <1>3, <1>4, <1>5 DEF IInv

LEMMA CrashKeeps ==
    ASSUME IInv, NEW c \in Instances, Crash(c)
    PROVE  IInv'
<1>0. faults' \in 0 .. MaxFaults /\ Length \in Nat /\ committed \in 0 .. Length /\ position' \in 0 .. Length
    BY ConsumerAssumption DEF Crash, IInv, TypeOK
<1>1. /\ job' \in [Instances -> Jobs] /\ job'[c] = Polling
      /\ \A d \in Instances \ {c} : job'[d] = job[d]
    BY <1>0, GotoTyped DEF Crash, IInv, Stages, Polling
<1>2. TypeOK'
    BY <1>0, <1>1 DEF Crash, IInv, TypeOK, Jobs, Stages
<1>3. JobInv'
    BY <1>1 DEF IInv, JobInv, Polling
<1>4. OwnerInv'
    BY <1>0, <1>1 DEF Crash, IInv, OwnerInv, TypeOK, Polling
<1>5. HandledInv'
    BY <1>0, <1>1 DEF Crash, IInv, HandledInv, Handled, TypeOK, Polling
<1> QED BY <1>2, <1>3, <1>4, <1>5 DEF IInv

LEMMA StepInv == IInv /\ [Next]_vars => IInv'
<1> SUFFICES ASSUME IInv, [Next]_vars PROVE IInv'
    OBVIOUS
<1>1. CASE UNCHANGED vars
    BY <1>1 DEF vars, IInv, TypeOK, JobInv, OwnerInv, HandledInv, Handled
<1> QED BY <1>1, PollKeeps, ProcessKeeps, ProcessErrorKeeps, CommitKeeps, CommitLostKeeps, RebalanceKeeps,
           CrashKeeps DEF Next, Step

LEMMA Invariance == Spec => []IInv
BY InitInv, StepInv, PTL DEF Spec

-----------------------------------------------------------------------------
(* What repetitions cost.                                                  *)

LEMMA PaidInit == Init => Paid
<1> SUFFICES ASSUME Init PROVE Paid
    OBVIOUS
<1>1. Exposed = {} /\ Stale = {}
    BY DEF Init, Exposed, Stale, Polling
<1> QED BY <1>1, FS_EmptySet DEF Init, Paid

\* Numbers of a paid state.
LEMMA PaidNumbers ==
    ASSUME IInv, Paid
    PROVE  /\ Cardinality(Exposed) \in Nat /\ Cardinality(Stale) \in Nat
           /\ repeats \in Nat /\ faults \in Nat
BY FS_CardinalityType, ConsumerAssumption DEF IInv, TypeOK, Paid

\* Neither set grows, and no repetition is added.
LEMMA PaidAsBefore ==
    ASSUME IInv, Paid, repeats' = repeats, faults' = faults, Exposed' \subseteq Exposed, Stale' \subseteq Stale
    PROVE  Paid'
<1>1. /\ IsFiniteSet(Exposed') /\ Cardinality(Exposed') \in Nat /\ Cardinality(Exposed') <= Cardinality(Exposed)
      /\ IsFiniteSet(Stale') /\ Cardinality(Stale') \in Nat /\ Cardinality(Stale') <= Cardinality(Stale)
    BY SmallerSet DEF Paid
<1> QED BY <1>1, PaidNumbers DEF Paid

\* A fault exposes one message or leaves one stale job behind, not both.
LEMMA PaidByFault ==
    ASSUME IInv, Paid, repeats' = repeats, faults' = faults + 1, NEW x,
           \/ Exposed' \subseteq Exposed \cup {x} /\ Stale' \subseteq Stale
           \/ Exposed' \subseteq Exposed /\ Stale' \subseteq Stale \cup {x}
    PROVE  Paid'
<1>1. CASE Exposed' \subseteq Exposed \cup {x} /\ Stale' \subseteq Stale
    <2>1. /\ IsFiniteSet(Exposed') /\ Cardinality(Exposed') \in Nat /\ Cardinality(Exposed') <= Cardinality(Exposed) + 1
          /\ IsFiniteSet(Stale') /\ Cardinality(Stale') \in Nat /\ Cardinality(Stale') <= Cardinality(Stale)
        BY <1>1, OneMore, SmallerSet DEF Paid
    <2> QED BY <2>1, PaidNumbers DEF Paid
<1>2. CASE Exposed' \subseteq Exposed /\ Stale' \subseteq Stale \cup {x}
    <2>1. /\ IsFiniteSet(Exposed') /\ Cardinality(Exposed') \in Nat /\ Cardinality(Exposed') <= Cardinality(Exposed)
          /\ IsFiniteSet(Stale') /\ Cardinality(Stale') \in Nat /\ Cardinality(Stale') <= Cardinality(Stale) + 1
        BY <1>2, OneMore, SmallerSet DEF Paid
    <2> QED BY <2>1, PaidNumbers DEF Paid
<1> QED BY <1>1, <1>2

LEMMA PaidPoll ==
    ASSUME IInv, Paid, NEW c \in Instances, Poll(c)
    PROVE  Paid'
<1>1. position \in 0 .. Length /\ Length \in Nat
    BY ConsumerAssumption DEF IInv, TypeOK
<1>2. job'[c] = [at |-> "processing", msg |-> position] /\ \A d \in Instances \ {c} : job'[d] = job[d]
    BY <1>1, GotoTyped DEF Poll, IInv, Stages
<1>3. Exposed' \subseteq Exposed /\ Stale' \subseteq Stale
    BY <1>2 DEF Poll, Exposed, Excused, Stale, Polling
<1> QED BY <1>3, PaidAsBefore DEF Poll

LEMMA PaidProcess ==
    ASSUME IInv, Paid, NEW c \in Instances, Process(c)
    PROVE  Paid'
<1> DEFINE m == job[c].msg
<1>0. m \in Offsets /\ m \in 0 .. Length /\ m \in Nat /\ committed \in Nat /\ Length \in Nat /\ faults' = faults /\ committed' = committed
    BY ConsumerAssumption DEF Process, IInv, JobInv, TypeOK, Offsets
<1>1a. job'[c] = [at |-> "committing", msg |-> m] /\ \A d \in Instances \ {c} : job'[d] = job[d]
    BY <1>0, GotoTyped DEF Process, IInv, Stages
<1>1. /\ job'[c].at = "committing" /\ job'[c].msg = m /\ owner' = owner /\ owner \in Instances
      /\ \A d \in Instances \ {c} : job'[d] = job[d]
    BY <1>1a DEF Process, IInv, TypeOK
<1>2. Stale' \subseteq Stale /\ (owner # c => c \in Stale /\ Stale' \subseteq Stale \ {c})
    BY <1>1 DEF Process, Stale
<1>3. CASE m \in Malformed \/ m \notin processed
    <2>1. repeats' = repeats /\ processed' \subseteq processed \cup {m}
        BY <1>3 DEF Process
    <2>2. CASE owner = c
        <3>1. Excused' = {m} /\ Excused = {}
            BY <1>1, <2>2 DEF Excused, Process
        <3>2. Exposed' \subseteq Exposed
            BY <1>0, <2>1, <3>1 DEF Exposed
        <3> QED BY <1>0, <1>2, <2>1, <3>2, PaidAsBefore
    <2>3. CASE owner # c
        <3>1. Excused' = Excused
            BY <1>1, <2>3 DEF Excused
        <3>2. Exposed' \subseteq Exposed \cup {m}
            BY <1>0, <2>1, <3>1 DEF Exposed
        <3>3. /\ IsFiniteSet(Exposed') /\ Cardinality(Exposed') \in Nat /\ Cardinality(Exposed') <= Cardinality(Exposed) + 1
              /\ IsFiniteSet(Stale') /\ Cardinality(Stale') \in Nat /\ Cardinality(Stale') + 1 <= Cardinality(Stale)
            BY <1>2, <2>3, <3>2, OneMore, OneLess DEF Paid
        <3> QED BY <1>0, <2>1, <3>3, PaidNumbers DEF Paid
    <2> QED BY <2>2, <2>3
<1>4. CASE m \notin Malformed /\ m \in processed
    <2>1. repeats' = repeats + 1 /\ processed' = processed
        BY <1>4 DEF Process
    <2>2. CASE owner = c
        <3>1. Excused' = {m} /\ Excused = {}
            BY <1>1, <2>2 DEF Excused, Process
        <3>2. committed <= m
            BY <2>2 DEF Process, IInv, OwnerInv
        <3>3. m \in Exposed /\ Exposed' \subseteq Exposed \ {m}
            BY <1>0, <1>4, <2>1, <3>1, <3>2 DEF Exposed
        <3>4. /\ IsFiniteSet(Exposed') /\ Cardinality(Exposed') \in Nat /\ Cardinality(Exposed') + 1 <= Cardinality(Exposed)
              /\ IsFiniteSet(Stale') /\ Cardinality(Stale') \in Nat /\ Cardinality(Stale') <= Cardinality(Stale)
            BY <1>2, <3>3, OneLess, SmallerSet DEF Paid
        <3> QED BY <1>0, <2>1, <3>4, PaidNumbers DEF Paid
    <2>3. CASE owner # c
        <3>1. Excused' = Excused
            BY <1>1, <2>3 DEF Excused
        <3>2. Exposed' \subseteq Exposed
            BY <1>0, <2>1, <3>1 DEF Exposed
        <3>3. /\ IsFiniteSet(Exposed') /\ Cardinality(Exposed') \in Nat /\ Cardinality(Exposed') <= Cardinality(Exposed)
              /\ IsFiniteSet(Stale') /\ Cardinality(Stale') \in Nat /\ Cardinality(Stale') + 1 <= Cardinality(Stale)
            BY <1>2, <2>3, <3>2, OneLess, SmallerSet DEF Paid
        <3> QED BY <1>0, <2>1, <3>3, PaidNumbers DEF Paid
    <2> QED BY <2>2, <2>3
<1> QED BY <1>3, <1>4

LEMMA PaidProcessError ==
    ASSUME IInv, Paid, NEW c \in Instances, ProcessError(c)
    PROVE  Paid'
<1>1a. 0 \in 0 .. Length
    BY ConsumerAssumption
<1>1b. job'[c] = Polling /\ \A d \in Instances \ {c} : job'[d] = job[d]
    BY <1>1a, GotoTyped DEF ProcessError, IInv, Stages, Polling
<1>1. job'[c].at = "polling" /\ \A d \in Instances \ {c} : job'[d] = job[d]
    BY <1>1b DEF Polling
<1>2. Exposed' \subseteq Exposed /\ Stale' \subseteq Stale
    BY <1>1 DEF ProcessError, IInv, TypeOK, Exposed, Excused, Stale
<1> QED BY <1>2, PaidAsBefore DEF ProcessError

LEMMA PaidCommit ==
    ASSUME IInv, Paid, NEW c \in Instances, Commit(c)
    PROVE  Paid'
<1>0. job[c].msg \in Nat /\ committed \in Nat /\ processed \subseteq Nat
    BY ConsumerAssumption DEF Commit, IInv, JobInv, TypeOK, Offsets
<1>1a. 0 \in 0 .. Length
    BY ConsumerAssumption
<1>1b. job'[c] = Polling /\ \A d \in Instances \ {c} : job'[d] = job[d]
    BY <1>1a, GotoTyped DEF Commit, IInv, Stages, Polling
<1>1. job'[c].at = "polling" /\ \A d \in Instances \ {c} : job'[d] = job[d]
    BY <1>1b DEF Polling
<1>2. Stale' \subseteq Stale
    BY <1>1 DEF Commit, Stale
<1>3. Exposed' \subseteq Exposed
    <2>1. CASE owner = c
        <3>1. Excused = {job[c].msg} /\ committed' = job[c].msg + 1 /\ committed <= job[c].msg
            BY <2>1 DEF Commit, Excused, Behind, IInv, OwnerInv
        <3>2. \A x \in Nat : x >= job[c].msg + 1 => x >= committed /\ x # job[c].msg
            BY <1>0, <3>1
        <3> QED BY <1>0, <3>1, <3>2 DEF Commit, Exposed
    <2>2. CASE owner # c
        BY <1>1, <2>2 DEF Commit, IInv, TypeOK, Exposed, Excused
    <2> QED BY <2>1, <2>2
<1> QED BY <1>2, <1>3, PaidAsBefore DEF Commit

LEMMA PaidCommitLost ==
    ASSUME IInv, Paid, NEW c \in Instances, CommitLost(c)
    PROVE  Paid'
<1>1a. 0 \in 0 .. Length
    BY ConsumerAssumption
<1>1b. job'[c] = Polling /\ \A d \in Instances \ {c} : job'[d] = job[d]
    BY <1>1a, GotoTyped DEF CommitLost, IInv, Stages, Polling
<1>1. job'[c].at = "polling" /\ \A d \in Instances \ {c} : job'[d] = job[d]
    BY <1>1b DEF Polling
<1>2. Exposed' \subseteq Exposed \cup {job[owner].msg} /\ Stale' \subseteq Stale
    BY <1>1 DEF CommitLost, IInv, TypeOK, Exposed, Excused, Stale
<1> QED BY <1>2, PaidByFault DEF CommitLost

LEMMA PaidRebalance ==
    ASSUME IInv, Paid, NEW c \in Instances, Rebalance(c)
    PROVE  Paid'
<1>1. job' = job /\ owner' = c /\ job[c].at = "polling" /\ owner \in Instances
    BY DEF Rebalance, Polling, IInv, TypeOK
<1>2. CASE job[owner].at = "processing"
    <2>1. Exposed' \subseteq Exposed /\ Stale' \subseteq Stale \cup {owner}
        BY <1>1, <1>2 DEF Rebalance, Exposed, Excused, Stale
    <2> QED BY <2>1, PaidByFault DEF Rebalance
<1>3. CASE job[owner].at # "processing"
    <2>1. Exposed' \subseteq Exposed \cup {job[owner].msg} /\ Stale' \subseteq Stale
        BY <1>1, <1>3 DEF Rebalance, Exposed, Excused, Stale
    <2> QED BY <2>1, PaidByFault DEF Rebalance
<1> QED BY <1>2, <1>3

LEMMA PaidCrash ==
    ASSUME IInv, Paid, NEW c \in Instances, Crash(c)
    PROVE  Paid'
<1>1a. 0 \in 0 .. Length
    BY ConsumerAssumption
<1>1b. job'[c] = Polling /\ \A d \in Instances \ {c} : job'[d] = job[d]
    BY <1>1a, GotoTyped DEF Crash, IInv, Stages, Polling
<1>1. job'[c].at = "polling" /\ \A d \in Instances \ {c} : job'[d] = job[d]
    BY <1>1b DEF Polling
<1>2. Exposed' \subseteq Exposed \cup {job[owner].msg} /\ Stale' \subseteq Stale
    BY <1>1 DEF Crash, IInv, TypeOK, Exposed, Excused, Stale
<1> QED BY <1>2, PaidByFault DEF Crash

LEMMA PaidStep == IInv /\ Paid /\ [Next]_vars => Paid'
<1> SUFFICES ASSUME IInv, Paid, [Next]_vars PROVE Paid'
    OBVIOUS
<1>1. CASE UNCHANGED vars
    BY <1>1 DEF vars, Paid, Exposed, Excused, Stale
<1> QED BY <1>1, PaidPoll, PaidProcess, PaidProcessError, PaidCommit, PaidCommitLost, PaidRebalance, PaidCrash
        DEF Next, Step

-----------------------------------------------------------------------------
(* The theorems.                                                           *)

\* The consumer group keeps its types.
THEOREM TypeCorrect == Spec => []TypeOK
BY Invariance, PTL DEF IInv

\* Crashes, rebalances and lost commits skip no message: below the committed
\* offset all were processed, or process() raised for them.
THEOREM NothingSkipped == Spec => []SkippedHaveFailed
<1>1. IInv => SkippedHaveFailed
    BY DEF IInv, HandledInv, Handled, SkippedHaveFailed
<1> QED BY <1>1, Invariance, PTL

\* A message is processed again only as often as there were faults.
THEOREM RepeatsPaid == Spec => []RepeatsArePaidFor
<1>1. IInv /\ Paid => RepeatsArePaidFor
    BY PaidNumbers DEF Paid, RepeatsArePaidFor
<1> QED BY <1>1, Invariance, PaidInit, PaidStep, PTL DEF Spec

-----------------------------------------------------------------------------
(* The registration consumers.                                             *)

LEMMA RegStepIsStep == RegNext => [Next]_vars
<1> SUFFICES ASSUME RegNext PROVE [Next]_vars
    OBVIOUS
<1>1. ASSUME NEW u \in Users, Register(u) \/ Publish(u) \/ PublishAgain(u) PROVE [Next]_vars
    BY <1>1 DEF Register, Publish, PublishAgain
<1>2. ASSUME NEW c \in Instances, Receive(c) \/ Skip(c) PROVE [Next]_vars
    BY <1>2 DEF Receive, Skip, Next, Step
<1>3. ASSUME NEW c \in Instances, LookUp(c) \/ Create(c) PROVE [Next]_vars
    BY <1>3 DEF LookUp, Create, Next, Step
<1>4. ASSUME NEW c \in Instances, DatabaseError(c) \/ Acknowledge(c) \/ Restart(c) PROVE [Next]_vars
    BY <1>4 DEF DatabaseError, Acknowledge, Restart, Next, Step
<1>5. ASSUME NEW q \in Admins, CreateUser(q) PROVE [Next]_vars
    BY <1>5 DEF CreateUser
<1> QED BY <1>1, <1>2, <1>3, <1>4, <1>5 DEF RegNext

\* The registration consumers implement the consumer base of platform_common.
THEOREM RegistrationConsumes == RegSpec => Spec
<1>1. RegInit => Init
    BY DEF RegInit
<1>2. [RegNext]_allVars => [Next]_vars
    <2>1. UNCHANGED allVars => UNCHANGED vars
        BY DEF allVars
    <2> QED BY <2>1, RegStepIsStep
<1> QED BY <1>1, <1>2, PTL DEF RegSpec, Spec

\* What is proved of the consumer base holds of the registration consumers.
THEOREM RegistrationsNotSkipped == RegSpec => []SkippedHaveFailed /\ []RepeatsArePaidFor
BY RegistrationConsumes, NothingSkipped, RepeatsPaid, PTL

-----------------------------------------------------------------------------
(* Refresh tokens and signing keys.                                        *)

Issuing ==
    [op: {"issue"}, at: {"read", "key", "signed"}, parent: Tokens \cup {Nothing},
     family: Families \cup {Nothing}, key: Keys \cup {Nothing}]
Reusing == [op: {"reuse"}, family: Families \cup {Nothing}, victims: SUBSET Tokens]
LoggingOut == [op: {"logout"}, token: Tokens]
Transactions == {Idle} \cup Issuing \cup Reusing \cup LoggingOut

AuthTypes ==
    /\ token \in [Tokens -> Row]
    /\ \A t \in Tokens : token[t].state = "none" \/ token[t].family \in Families
    /\ keys \in Seq(Keys)
    /\ transaction \in [Requests -> Transactions]
    /\ overtaken \in [Families -> Nat]

\* Who has signed has a key, and what has been handed out was committed with its key.
AuthKeys ==
    /\ \A p \in Requests : (transaction[p].op = "issue" /\ transaction[p].at = "signed") => transaction[p].key \in Keys
    /\ handed \subseteq ToSet(keys)

\* A rotation has the family of its parent.
RotationsInv ==
    \A p \in Requests : (transaction[p].op = "issue" /\ transaction[p].parent # Nothing) =>
        /\ token[transaction[p].parent].state # "none"
        /\ token[transaction[p].parent].family = transaction[p].family

\* A login under way is alone with its family.
LoginsInv ==
    \A p \in Requests :
        (transaction[p].op = "issue" /\ transaction[p].parent = Nothing /\ transaction[p].family # Nothing) =>
            /\ \A t \in Tokens : token[t].family # transaction[p].family
            /\ \A q \in Requests \ {p} : transaction[q].op = "issue" => transaction[q].family # transaction[p].family

AuthInv == AuthTypes /\ AuthKeys /\ RotationsInv /\ LoginsInv /\ TokensInUseArePaidFor

-----------------------------------------------------------------------------
(* Sets and sequences.                                                     *)

LEMMA ToSetAppend ==
    ASSUME NEW S, NEW s \in Seq(S), NEW e \in S
    PROVE  ToSet(Append(s, e)) = ToSet(s) \cup {e}
<1>1. DOMAIN s = 1..Len(s) /\ DOMAIN Append(s, e) = 1..(Len(s) + 1) /\ Len(s) \in Nat
    OBVIOUS
<1>2. \A i \in 1..Len(s) : Append(s, e)[i] = s[i]
    OBVIOUS
<1>3. Append(s, e)[Len(s) + 1] = e
    OBVIOUS
<1> QED BY <1>1, <1>2, <1>3 DEF ToSet

\* Fewer tokens in use are paid for as well.
LEMMA FewerArePaidFor ==
    ASSUME AuthTypes, TokensInUseArePaidFor, overtaken' = overtaken,
           \A f \in Families : InUse(f)' \subseteq InUse(f)
    PROVE  TokensInUseArePaidFor'
<1> SUFFICES ASSUME NEW f \in Families
             PROVE  Cardinality(InUse(f)') <= 1 + overtaken[f]
    BY DEF TokensInUseArePaidFor
<1>1. IsFiniteSet(InUse(f))
    BY AuthAssumption, FS_Subset DEF InUse
<1>2. /\ Cardinality(InUse(f)') <= Cardinality(InUse(f))
      /\ Cardinality(InUse(f)') \in Nat /\ Cardinality(InUse(f)) \in Nat
    BY <1>1, FS_Subset, FS_CardinalityType
<1> QED BY <1>2 DEF TokensInUseArePaidFor, AuthTypes

\* What a request may be, by what it does.
LEMMA RequestFields ==
    ASSUME AuthTypes, NEW p \in Requests
    PROVE  /\ transaction[p] \in Transactions
           /\ transaction[p].op = "issue" => transaction[p] \in Issuing
           /\ transaction[p].op = "reuse" => transaction[p] \in Reusing
           /\ transaction[p].op = "logout" => transaction[p] \in LoggingOut
BY DEF AuthTypes, Transactions, Idle, Issuing, Reusing, LoggingOut

LEMMA PutTyped ==
    ASSUME AuthTypes, NEW p \in Requests, NEW r \in Transactions, Put(p, r)
    PROVE  /\ transaction' \in [Requests -> Transactions]
           /\ transaction'[p] = r
           /\ \A q \in Requests \ {p} : transaction'[q] = transaction[q]
BY DEF AuthTypes, Put

-----------------------------------------------------------------------------
LEMMA AuthInitInv == AuthInit => AuthInv
<1> SUFFICES ASSUME AuthInit PROVE AuthInv
    OBVIOUS
<1>1. AuthTypes
    BY DEF AuthInit, AuthTypes, NoToken, Row, TokenStates, Transactions
<1>2. TokensInUseArePaidFor
    <2>1. \A f \in Families : InUse(f) = {}
        BY DEF AuthInit, InUse, NoToken
    <2>2. Cardinality({}) = 0
        BY FS_EmptySet
    <2>3. \A f \in Families : 0 <= 1 + overtaken[f]
        BY <1>1 DEF AuthTypes
    <2> QED BY <2>1, <2>2, <2>3 DEF TokensInUseArePaidFor
<1> QED BY <1>1, <1>2 DEF AuthInit, AuthInv, AuthKeys, RotationsInv, LoginsInv, Idle

\* A step of one request that writes no table.
LEMMA RequestStep ==
    ASSUME AuthInv, NEW p \in Requests, NEW r \in Transactions, Put(p, r),
           UNCHANGED <<token, keys, handed, overtaken>>,
           r.op = "issue" =>
              /\ r.at = "signed" => r.key \in Keys
              /\ r.parent # Nothing => token[r.parent].state # "none" /\ token[r.parent].family = r.family
              /\ (r.parent = Nothing /\ r.family # Nothing) =>
                    /\ \A t \in Tokens : token[t].family # r.family
                    /\ \A q \in Requests \ {p} : transaction[q].op = "issue" => transaction[q].family # r.family
    PROVE  AuthInv'
<1>1. /\ transaction' \in [Requests -> Transactions]
      /\ transaction'[p] = r
      /\ \A q \in Requests \ {p} : transaction'[q] = transaction[q]
    BY PutTyped DEF AuthInv
<1>2. AuthTypes'
    BY <1>1 DEF AuthInv, AuthTypes
<1>3. AuthKeys'
    BY <1>1 DEF AuthInv, AuthKeys
<1>4. RotationsInv'
    BY <1>1 DEF AuthInv, RotationsInv
<1>5. LoginsInv'
    <2> SUFFICES ASSUME NEW s \in Requests, transaction'[s].op = "issue", transaction'[s].parent = Nothing,
                        transaction'[s].family # Nothing
                 PROVE  /\ \A t \in Tokens : token[t].family # transaction'[s].family
                        /\ \A q \in Requests \ {s} : transaction'[q].op = "issue" => transaction'[q].family # transaction'[s].family
        BY DEF LoginsInv
    <2>1. CASE s = p
        BY <1>1, <2>1
    <2>2. CASE s # p
        <3>1. /\ transaction'[s] = transaction[s]
              /\ \A t \in Tokens : token[t].family # transaction[s].family
              /\ \A q \in Requests \ {s} : transaction[q].op = "issue" => transaction[q].family # transaction[s].family
            BY <1>1, <2>2 DEF AuthInv, LoginsInv
        <3>2. ASSUME r.op = "issue" PROVE r.family # transaction[s].family
            <4>1. CASE r.parent # Nothing
                <5>1. r.parent \in Tokens
                    BY <3>2, <4>1 DEF Transactions, Issuing, Idle, Reusing, LoggingOut
                <5> QED BY <3>1, <3>2, <4>1, <5>1
            <4>2. CASE r.parent = Nothing /\ r.family # Nothing
                BY <1>1, <2>2, <3>1, <3>2, <4>2
            <4>3. CASE r.family = Nothing
                BY <3>1, <4>3
            <4> QED BY <4>1, <4>2, <4>3
        <3> QED BY <1>1, <2>2, <3>1, <3>2
    <2> QED BY <2>1, <2>2
<1>6. TokensInUseArePaidFor'
    BY FewerArePaidFor DEF AuthInv, InUse
<1> QED BY <1>2, <1>3, <1>4, <1>5, <1>6 DEF AuthInv

\* A step that changes states of tokens and lets a request end: no token appears,
\* and none is in use again.
LEMMA TokenStep ==
    ASSUME AuthInv, UNCHANGED <<keys, handed, overtaken>>,
           transaction' = transaction \/ \E p \in Requests : Put(p, Idle),
           token' \in [Tokens -> Row],
           \A t \in Tokens : /\ token'[t].family = token[t].family
                             /\ token'[t].state = "none" <=> token[t].state = "none"
                             /\ token'[t].state = "inUse" => token[t].state = "inUse"
    PROVE  AuthInv'
<1>1. /\ transaction' \in [Requests -> Transactions]
      /\ \A q \in Requests : transaction'[q] = transaction[q] \/ transaction'[q] = Idle
    <2>1. Idle \in Transactions
        BY DEF Transactions
    <2> QED BY <2>1, PutTyped DEF AuthInv, AuthTypes
<1>2. AuthTypes'
    BY <1>1 DEF AuthInv, AuthTypes
<1>3. AuthKeys'
    BY <1>1 DEF AuthInv, AuthKeys, Idle
<1>4. RotationsInv'
    <2> SUFFICES ASSUME NEW p \in Requests, transaction'[p].op = "issue", transaction'[p].parent # Nothing
                 PROVE  /\ token'[transaction'[p].parent].state # "none"
                        /\ token'[transaction'[p].parent].family = transaction'[p].family
        BY DEF RotationsInv
    <2>1. transaction'[p] = transaction[p] /\ transaction[p].parent \in Tokens
        BY <1>1, RequestFields DEF AuthInv, Idle, Issuing
    <2> QED BY <2>1 DEF AuthInv, RotationsInv
<1>5. LoginsInv'
    BY <1>1 DEF AuthInv, LoginsInv, Idle
<1>6. TokensInUseArePaidFor'
    BY FewerArePaidFor DEF AuthInv, InUse
<1> QED BY <1>2, <1>3, <1>4, <1>5, <1>6 DEF AuthInv

-----------------------------------------------------------------------------
(* The requests.                                                           *)

LEMMA LoginStep ==
    ASSUME AuthInv, NEW p \in Requests, Login(p)
    PROVE  AuthInv'
<1>1. PICK f \in Families \cup {Nothing} :
          /\ \A t \in Tokens : token[t].family = f => f = Nothing
          /\ \A q \in Requests : transaction[q].op = "issue" /\ transaction[q].family = f => f = Nothing
          /\ Put(p, Issue("key", Nothing, f, Nothing))
    BY DEF Login
<1>2. Issue("key", Nothing, f, Nothing) \in Transactions
    BY DEF Transactions, Issuing, Issue
<1> QED BY <1>1, <1>2, RequestStep DEF Login, Issue

LEMMA RefreshStep ==
    ASSUME AuthInv, NEW p \in Requests, Refresh(p)
    PROVE  AuthInv'
<1>0. Nothing \notin Tokens \cup Families
    BY AuthAssumption
<1>1. PICK t \in Tokens :
          \/ Rotatable(t) /\ Put(p, Issue("read", t, token[t].family, Nothing))
          \/ /\ token[t].state = "revoked"
             /\ Put(p, [op |-> "reuse", family |-> token[t].family, victims |-> InUse(token[t].family)])
    BY DEF Refresh
<1>2. token[t].family \in Families /\ token[t].state # "none"
    BY <1>1 DEF AuthInv, AuthTypes, Rotatable
<1>3. CASE Put(p, Issue("read", t, token[t].family, Nothing))
    <2>1. Issue("read", t, token[t].family, Nothing) \in Transactions
        BY <1>2 DEF Transactions, Issuing, Issue
    <2> QED BY <1>0, <1>2, <1>3, <2>1, RequestStep DEF Refresh, Issue
<1>4. CASE Put(p, [op |-> "reuse", family |-> token[t].family, victims |-> InUse(token[t].family)])
    <2>1. [op |-> "reuse", family |-> token[t].family, victims |-> InUse(token[t].family)] \in Transactions
        BY <1>2 DEF Transactions, Reusing, InUse
    <2> QED BY <1>4, <2>1, RequestStep DEF Refresh
<1> QED BY <1>1, <1>3, <1>4

LEMMA IssueSteps ==
    ASSUME AuthInv, NEW p \in Requests, FlushParent(p) \/ PickKey(p)
    PROVE  AuthInv'
<1>1. transaction[p] \in Issuing /\ transaction[p].op = "issue"
    BY RequestFields DEF AuthInv, FlushParent, PickKey
<1>2. ASSUME NEW k \in Keys \cup {Nothing}, NEW at \in {"key", "signed"},
             at = "signed" => k \in Keys,
             Put(p, [transaction[p] EXCEPT !.at = at, !.key = k])
      PROVE  AuthInv'
    <2> DEFINE r == [transaction[p] EXCEPT !.at = at, !.key = k]
    <2>1. r \in Issuing /\ r.at = at /\ r.key = k /\ r.parent = transaction[p].parent /\ r.family = transaction[p].family
        BY <1>1 DEF Issuing
    <2>2. r \in Transactions
        BY <2>1 DEF Transactions
    <2>3. r.parent # Nothing => token[r.parent].state # "none" /\ token[r.parent].family = r.family
        BY <1>1, <2>1 DEF AuthInv, RotationsInv
    <2>4. (r.parent = Nothing /\ r.family # Nothing) =>
              /\ \A t \in Tokens : token[t].family # r.family
              /\ \A q \in Requests \ {p} : transaction[q].op = "issue" => transaction[q].family # r.family
        BY <1>1, <2>1 DEF AuthInv, LoginsInv
    <2>5. UNCHANGED <<token, keys, handed, overtaken>>
        BY DEF FlushParent, PickKey
    <2>6. Put(p, r) /\ (r.at = "signed" => r.key \in Keys)
        BY <1>2, <2>1
    <2> HIDE DEF r
    <2> QED BY <2>2, <2>3, <2>4, <2>5, <2>6, RequestStep
<1>3. CASE FlushParent(p)
    <2>1. Put(p, [transaction[p] EXCEPT !.at = "key", !.key = transaction[p].key])
        BY <1>1, <1>3 DEF FlushParent, Put, Issuing
    <2> QED BY <1>1, <1>2, <2>1 DEF Issuing
<1>4. CASE PickKey(p)
    <2>1. PICK k \in Keys : Put(p, [transaction[p] EXCEPT !.at = "signed", !.key = k])
        <3>1. CASE keys # <<>> /\ Put(p, [transaction[p] EXCEPT !.at = "signed", !.key = Last(keys)])
            <4>1. Last(keys) \in Keys
                BY <3>1 DEF AuthInv, AuthTypes, Last
            <4> QED BY <3>1, <4>1
        <3>2. CASE FreshKeys # {} /\ Put(p, [transaction[p] EXCEPT !.at = "signed", !.key = CHOOSE k \in FreshKeys : TRUE])
            <4>1. (CHOOSE k \in FreshKeys : TRUE) \in Keys
                BY <3>2 DEF FreshKeys
            <4> QED BY <3>2, <4>1
        <3> QED BY <1>4, <3>1, <3>2 DEF PickKey
    <2> QED BY <1>2, <2>1
<1> QED BY <1>3, <1>4

LEMMA EndSteps ==
    ASSUME AuthInv, NEW p \in Requests, RevokeFamily(p) \/ Logout(p) \/ Abandon(p)
    PROVE  AuthInv'
<1>0. token \in [Tokens -> Row]
    BY DEF AuthInv, AuthTypes
<1>1. CASE RevokeFamily(p)
    <2>1. token' \in [Tokens -> Row]
        BY <1>0, <1>1 DEF RevokeFamily, Row, TokenStates
    <2> QED BY <1>0, <1>1, <2>1, TokenStep DEF RevokeFamily, Finish, Row
<1>2. CASE /\ \E t \in Tokens : Put(p, [op |-> "logout", token |-> t])
           /\ UNCHANGED <<token, keys, handed, overtaken>>
    <2>1. PICK t \in Tokens : Put(p, [op |-> "logout", token |-> t])
        BY <1>2
    <2>2. [op |-> "logout", token |-> t] \in Transactions
        BY DEF Transactions, LoggingOut
    <2> QED BY <1>2, <2>1, <2>2, RequestStep
<1>3. CASE /\ transaction[p].op = "logout"
           /\ token[transaction[p].token].state \in {"inUse", "revoked"}
           /\ token' = [token EXCEPT ![transaction[p].token].state = "revoked"]
           /\ Finish(p)
           /\ UNCHANGED <<keys, handed, overtaken>>
    <2>1. transaction[p].token \in Tokens
        BY <1>3, RequestFields DEF AuthInv, LoggingOut
    <2>2. token' \in [Tokens -> Row]
        BY <1>0, <1>3, <2>1 DEF Row, TokenStates
    <2>3. \A t \in Tokens : /\ token'[t].family = token[t].family
                            /\ token'[t].state = "none" <=> token[t].state = "none"
                            /\ token'[t].state = "inUse" => token[t].state = "inUse"
        BY <1>0, <1>3, <2>1 DEF Row
    <2> QED BY <1>3, <2>2, <2>3, TokenStep DEF Finish
<1>4. CASE Abandon(p)
    BY <1>0, <1>4, TokenStep DEF Abandon, Finish
<1> QED BY <1>1, <1>2, <1>3, <1>4 DEF Logout

LEMMA AgeSteps ==
    ASSUME AuthInv, (\E t \in Tokens : Expire(t)) \/ Purge
    PROVE  AuthInv'
<1>0. token \in [Tokens -> Row]
    BY DEF AuthInv, AuthTypes
<1>1. ASSUME NEW t \in Tokens, Expire(t) PROVE AuthInv'
    <2>1. token' \in [Tokens -> Row]
        BY <1>0, <1>1 DEF Expire, Row
    <2>2. \A u \in Tokens : token'[u].family = token[u].family /\ token'[u].state = token[u].state
        BY <1>0, <1>1 DEF Expire, Row
    <2> QED BY <1>1, <2>1, <2>2, TokenStep DEF Expire
<1>2. CASE Purge
    <2> DEFINE old == {t \in Tokens : token[t].expired /\ token[t].state \in {"inUse", "revoked"}}
    <2>1. /\ token' = [t \in Tokens |-> IF t \in old THEN [token[t] EXCEPT !.state = "purged"] ELSE token[t]]
          /\ UNCHANGED <<keys, transaction, handed, overtaken>>
        BY <1>2 DEF Purge
    <2>2. token' \in [Tokens -> Row]
        BY <1>0, <2>1 DEF Row, TokenStates
    <2>3. \A t \in Tokens : /\ token'[t].family = token[t].family
                            /\ token'[t].state = "none" <=> token[t].state = "none"
                            /\ token'[t].state = "inUse" => token[t].state = "inUse"
        BY <1>0, <2>1 DEF Row
    <2> QED BY <2>1, <2>2, <2>3, TokenStep
<1> QED BY <1>1, <1>2

-----------------------------------------------------------------------------
(* The commit.                                                             *)

\* The family of a commit gains the new token and loses the parent, if that was
\* still in use; a late commit is counted.
LEMMA CommitCounts ==
    ASSUME AuthTypes, TokensInUseArePaidFor, NEW f \in Families, NEW t \in Tokens, NEW late \in BOOLEAN,
           NEW parent \in Tokens \cup {Nothing},
           parent = Nothing => InUse(f) = {} /\ ~late,
           (parent # Nothing /\ ~late) => parent \in InUse(f),
           InUse(f)' = (InUse(f) \ {parent}) \cup {t},
           overtaken' = [overtaken EXCEPT ![f] = IF late THEN @ + 1 ELSE @],
           \A g \in Families \ {f} : InUse(g)' = InUse(g)
    PROVE  TokensInUseArePaidFor'
<1>1. /\ IsFiniteSet(InUse(f)) /\ Cardinality(InUse(f)) \in Nat
      /\ Cardinality(InUse(f)) <= 1 + overtaken[f] /\ overtaken[f] \in Nat
    <2>1. IsFiniteSet(InUse(f))
        BY AuthAssumption, FS_Subset DEF InUse
    <2> QED BY <2>1, FS_CardinalityType DEF TokensInUseArePaidFor, AuthTypes
<1>2. /\ IsFiniteSet(InUse(f) \ {parent})
      /\ Cardinality(InUse(f) \ {parent}) = IF parent \in InUse(f) THEN Cardinality(InUse(f)) - 1 ELSE Cardinality(InUse(f))
    BY <1>1, FS_RemoveElement
<1>3. Cardinality(InUse(f)') <= Cardinality(InUse(f) \ {parent}) + 1
    <2> DEFINE rest == InUse(f) \ {parent}
    <2>1. IsFiniteSet(rest) /\ Cardinality(rest) \in Nat
        BY <1>2, FS_CardinalityType
    <2>2. Cardinality(rest \cup {t}) = IF t \in rest THEN Cardinality(rest) ELSE Cardinality(rest) + 1
        BY <2>1, FS_AddElement
    <2>3. InUse(f)' = rest \cup {t}
        OBVIOUS
    <2> HIDE DEF rest
    <2>4. Cardinality(rest \cup {t}) <= Cardinality(rest) + 1
        BY <2>1, <2>2
    <2>5. Cardinality(InUse(f)') <= Cardinality(rest) + 1
        BY <2>3, <2>4
    <2> QED BY <2>5 DEF rest
<1>4. Cardinality({}) = 0
    BY FS_EmptySet
<1>5. Cardinality(InUse(f)') \in Nat
    BY <1>2, FS_AddElement, FS_CardinalityType
<1>6. Cardinality(InUse(f)') <= 1 + overtaken'[f]
    <2>1. overtaken'[f] = IF late THEN overtaken[f] + 1 ELSE overtaken[f]
        BY DEF AuthTypes
    <2>2. CASE parent = Nothing
        <3>1. InUse(f) = {} /\ parent \notin InUse(f) /\ ~late
            BY <2>2
        <3>2. Cardinality(InUse(f) \ {parent}) = 0
            BY <1>2, <1>4, <3>1
        <3> QED BY <1>1, <1>3, <1>5, <2>1, <3>1, <3>2
    <2>3. CASE parent # Nothing /\ ~late
        BY <1>1, <1>2, <1>3, <1>5, <2>1, <2>3
    <2>4. CASE parent # Nothing /\ late
        BY <1>1, <1>2, <1>3, <1>5, <2>1, <2>4
    <2> QED BY <2>2, <2>3, <2>4
<1>7. \A g \in Families \ {f} : Cardinality(InUse(g)') <= 1 + overtaken'[g]
    BY DEF TokensInUseArePaidFor, AuthTypes
<1> QED BY <1>6, <1>7 DEF TokensInUseArePaidFor

LEMMA CommitStep ==
    ASSUME AuthInv, NEW p \in Requests, CommitIssue(p)
    PROVE  AuthInv'
<1> DEFINE r == transaction[p]
           t == CHOOSE u \in Tokens : token[u] = NoToken
           issued == [state |-> "inUse", family |-> r.family, expired |-> FALSE]
           late == r.parent # Nothing /\ token[r.parent].state # "inUse"
<1>0. Nothing \notin Tokens \cup Families
    BY AuthAssumption
<1>1. r \in Issuing /\ r.op = "issue" /\ r.key \in Keys
    BY RequestFields DEF AuthInv, AuthKeys, CommitIssue
<1>2. /\ transaction' \in [Requests -> Transactions]
      /\ transaction'[p] = Idle
      /\ \A q \in Requests \ {p} : transaction'[q] = transaction[q]
    BY PutTyped DEF AuthInv, CommitIssue, Finish, Transactions
<1>3. /\ keys' \in Seq(Keys)
      /\ ToSet(keys') = ToSet(keys) \cup {r.key}
    <2>1. CASE r.key \in ToSet(keys)
        BY <2>1 DEF CommitIssue, AuthInv, AuthTypes
    <2>2. CASE r.key \notin ToSet(keys)
        BY <1>1, <2>2, ToSetAppend DEF CommitIssue, AuthInv, AuthTypes
    <2> QED BY <2>1, <2>2
<1>4. AuthKeys'
    BY <1>2, <1>3 DEF AuthInv, AuthKeys, CommitIssue, AccessToken, Idle
<1>5. CASE r.family = Nothing
    <2>1. UNCHANGED <<token, overtaken>>
        BY <1>5 DEF CommitIssue
    <2>2. AuthTypes'
        BY <1>2, <1>3, <2>1 DEF AuthInv, AuthTypes
    <2>3. RotationsInv' /\ LoginsInv'
        BY <1>2, <2>1 DEF AuthInv, RotationsInv, LoginsInv, Idle
    <2>4. TokensInUseArePaidFor'
        BY <2>1, FewerArePaidFor DEF AuthInv, InUse
    <2> QED BY <1>4, <2>2, <2>3, <2>4 DEF AuthInv
<1>6. CASE r.family # Nothing
    <2>1. /\ t \in Tokens /\ token[t] = NoToken
          /\ token' = [Parent(r.parent) EXCEPT ![t] = issued]
          /\ overtaken' = [overtaken EXCEPT ![r.family] = IF late THEN @ + 1 ELSE @]
        BY <1>6 DEF CommitIssue
    <2>2. r.family \in Families /\ r.parent \in Tokens \cup {Nothing}
        BY <1>1, <1>6 DEF Issuing
    <2>3. r.parent # Nothing => /\ r.parent \in Tokens /\ r.parent # t
                                /\ token[r.parent].state # "none" /\ token[r.parent].family = r.family
        BY <1>1, <2>1, <2>2 DEF AuthInv, RotationsInv, NoToken
    <2>4. token \in [Tokens -> Row] /\ issued \in Row
        BY <2>2 DEF AuthInv, AuthTypes, Row, TokenStates
    <2>5. Parent(r.parent) \in [Tokens -> Row]
        BY <2>3, <2>4 DEF Parent, Row, TokenStates
    <2>6. /\ token' \in [Tokens -> Row] /\ token'[t] = issued
          /\ \A u \in Tokens \ {t} : /\ token'[u].family = token[u].family
                                     /\ token'[u].state = IF u = r.parent THEN "revoked" ELSE token[u].state
        <3>1. \A u \in Tokens : /\ Parent(r.parent)[u].family = token[u].family
                                /\ Parent(r.parent)[u].state = IF u = r.parent THEN "revoked" ELSE token[u].state
            <4>1. CASE r.parent = Nothing
                BY <1>0, <4>1 DEF Parent
            <4>2. CASE r.parent # Nothing
                <5>1. r.parent \in Tokens /\ Parent(r.parent) = [token EXCEPT ![r.parent].state = "revoked"]
                    BY <2>3, <4>2 DEF Parent
                <5> QED BY <2>4, <5>1 DEF Row
            <4> QED BY <4>1, <4>2
        <3> QED BY <2>1, <2>4, <2>5, <3>1
    <2>7. AuthTypes'
        <3>1. overtaken' \in [Families -> Nat]
            BY <2>1, <2>2 DEF AuthInv, AuthTypes
        <3>2. \A u \in Tokens : token'[u].state = "none" \/ token'[u].family \in Families
            <4>1. token'[t].family \in Families
                BY <2>2, <2>6
            <4>2. ASSUME NEW u \in Tokens \ {t} PROVE token'[u].state = "none" \/ token'[u].family \in Families
                <5>1. token[u].state = "none" \/ token[u].family \in Families
                    BY DEF AuthInv, AuthTypes
                <5>2. u = r.parent => token[u].state # "none"
                    BY <1>0, <2>3
                <5> QED BY <2>6, <5>1, <5>2
            <4> QED BY <4>1, <4>2
        <3> QED BY <1>2, <1>3, <2>6, <3>1, <3>2 DEF AuthTypes
    <2>8. RotationsInv'
        <3> SUFFICES ASSUME NEW q \in Requests, transaction'[q].op = "issue", transaction'[q].parent # Nothing
                     PROVE  /\ token'[transaction'[q].parent].state # "none"
                            /\ token'[transaction'[q].parent].family = transaction'[q].family
            BY DEF RotationsInv
        <3>1. transaction'[q] = transaction[q] /\ transaction[q].parent \in Tokens
            BY <1>2, RequestFields DEF AuthInv, Idle, Issuing
        <3>2. token[transaction[q].parent].state # "none" /\ token[transaction[q].parent].family = transaction[q].family
            BY <3>1 DEF AuthInv, RotationsInv
        <3>3. transaction[q].parent # t
            BY <2>1, <3>2 DEF NoToken
        <3> QED BY <2>6, <3>1, <3>2, <3>3
    <2>9. LoginsInv'
        <3> SUFFICES ASSUME NEW s \in Requests, transaction'[s].op = "issue", transaction'[s].parent = Nothing,
                            transaction'[s].family # Nothing
                     PROVE  /\ \A u \in Tokens : token'[u].family # transaction'[s].family
                            /\ \A q \in Requests \ {s} : transaction'[q].op = "issue" => transaction'[q].family # transaction'[s].family
            BY DEF LoginsInv
        <3>1. s # p /\ transaction'[s] = transaction[s]
            BY <1>2 DEF Idle
        <3>2. /\ \A u \in Tokens : token[u].family # transaction[s].family
              /\ \A q \in Requests \ {s} : transaction[q].op = "issue" => transaction[q].family # transaction[s].family
            BY <3>1 DEF AuthInv, LoginsInv
        <3>3. r.family # transaction[s].family
            BY <1>1, <3>1, <3>2
        <3>4. \A u \in Tokens : token'[u].family # transaction[s].family
            <4>1. \A u \in Tokens \ {t} : token'[u].family # transaction[s].family
                BY <2>6, <3>2
            <4>2. token'[t].family # transaction[s].family
                BY <2>6, <3>3
            <4> QED BY <4>1, <4>2
        <3> QED BY <1>2, <3>1, <3>2, <3>4 DEF Idle
    <2>10. TokensInUseArePaidFor'
        <3>0. PICK f \in Families : f = r.family
            BY <2>2
        <3>1. r.parent = Nothing => InUse(f) = {} /\ ~late
            BY <1>1, <1>6, <3>0 DEF AuthInv, LoginsInv, InUse
        <3>2. (r.parent # Nothing /\ ~late) => r.parent \in InUse(f)
            BY <2>3, <3>0 DEF InUse
        <3>3. PICK parent \in Tokens \cup {Nothing} : parent = r.parent
            BY <2>2
        <3>4. PICK new \in Tokens : new = t
            BY <2>1
        <3>5. \A u \in Tokens \ {new} : /\ token'[u].family = token[u].family
                                        /\ token'[u].state = IF u = parent THEN "revoked" ELSE token[u].state
            BY <2>6, <3>3, <3>4
        <3>6. token'[new].state = "inUse" /\ token'[new].family = f /\ token[new].state = "none"
            BY <2>1, <2>6, <3>0, <3>4 DEF NoToken
        <3>7. InUse(f)' = (InUse(f) \ {parent}) \cup {new}
            BY <3>5, <3>6 DEF InUse
        <3>8. \A g \in Families \ {f} : InUse(g)' = InUse(g)
            <4> SUFFICES ASSUME NEW g \in Families \ {f} PROVE InUse(g)' = InUse(g)
                OBVIOUS
            <4>1. \A u \in Tokens : (token'[u].state = "inUse" /\ token'[u].family = g)
                                      <=> (token[u].state = "inUse" /\ token[u].family = g)
                <5>1. parent \in Tokens => token[parent].family = f
                    BY <1>0, <2>3, <3>0, <3>3
                <5> QED BY <3>5, <3>6, <5>1
            <4> QED BY <4>1 DEF InUse
        <3>9. PICK b \in BOOLEAN : b = late
            OBVIOUS
        <3>10. /\ parent = Nothing => InUse(f) = {} /\ ~b
               /\ (parent # Nothing /\ ~b) => parent \in InUse(f)
            BY <3>1, <3>2, <3>3, <3>9
        <3>11. overtaken' = [overtaken EXCEPT ![f] = IF b THEN @ + 1 ELSE @]
            BY <2>1, <3>0, <3>9
        <3> QED BY <3>7, <3>8, <3>10, <3>11, CommitCounts DEF AuthInv
    <2> QED BY <1>4, <2>7, <2>8, <2>9, <2>10 DEF AuthInv
<1> QED BY <1>5, <1>6

-----------------------------------------------------------------------------
(* The theorems.                                                           *)

LEMMA AuthStepInv == AuthInv /\ [AuthNext]_authVars => AuthInv'
<1> SUFFICES ASSUME AuthInv, [AuthNext]_authVars PROVE AuthInv'
    OBVIOUS
<1>1. CASE UNCHANGED authVars
    BY <1>1, FewerArePaidFor DEF authVars, AuthInv, AuthTypes, AuthKeys, RotationsInv, LoginsInv, InUse
<1>2. ASSUME NEW v \in Verifiers, LoadJwks(v) PROVE AuthInv'
    BY <1>2, FewerArePaidFor DEF LoadJwks, AuthInv, AuthTypes, AuthKeys, RotationsInv, LoginsInv, InUse
<1> QED BY <1>1, <1>2, LoginStep, RefreshStep, IssueSteps, EndSteps, AgeSteps, CommitStep DEF AuthNext

LEMMA AuthInvariance == AuthSpec => []AuthInv
BY AuthInitInv, AuthStepInv, PTL DEF AuthSpec

\* However many requests race for the tokens of a family, what is in use beyond
\* one token was paid for by rotations that were overtaken.
THEOREM InUsePaidFor == AuthSpec => []TokensInUseArePaidFor
<1>1. AuthInv => TokensInUseArePaidFor
    BY DEF AuthInv
<1> QED BY <1>1, AuthInvariance, PTL

\* However many first keys are made at once, no service refuses a token for its key.
THEOREM AlwaysVerifies == AuthSpec => []HandedOutVerifies
<1>1. AuthInv => HandedOutVerifies
    BY DEF AuthInv, AuthKeys, HandedOutVerifies, Verifies, Published
<1> QED BY <1>1, AuthInvariance, PTL
=============================================================================
