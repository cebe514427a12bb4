---------------------------- MODULE CircuitBreaker ----------------------------
(***************************************************************************)
(* platform_common/circuit_breaker.py without Redis: one breaker of one    *)
(* process, called by several asyncio tasks.  Between two awaits a task    *)
(* runs undisturbed; the awaits are the wrapped call and the acquisition   *)
(* of self._lock.                                                          *)
(*                                                                         *)
(* _record_failure and _record_success call _set_state while they hold     *)
(* the lock that _set_state acquires again.  asyncio.Lock is not           *)
(* re-entrant: Reentrant = FALSE is the program, Reentrant = TRUE the same *)
(* breaker with a lock its owner may take twice.                           *)
(***************************************************************************)
EXTENDS Naturals

CONSTANTS Callers, Nobody,
          Threshold,   \* failure_threshold, at least 1
          MaxProbes,   \* half_open_max_calls, at least 1
          Recovery,    \* recovery_timeout_seconds, in ticks
          Reentrant

VARIABLES state,      \* _state
          failures,   \* _failure_count, counted up to Threshold
          probes,     \* _half_open_calls, counted up to MaxProbes
          since,      \* ticks since _last_failure_time, up to Recovery
          lock,       \* who holds _lock for ever
          call        \* the call of each task, with the state it was admitted in

vars == <<state, failures, probes, since, lock, call>>

States == {"CLOSED", "OPEN", "HALF_OPEN"}
Idle == [at |-> "idle", admitted |-> "CLOSED"]

TypeOK ==
    /\ state \in States
    /\ failures \in 0 .. Threshold
    /\ probes \in 0 .. MaxProbes
    /\ since \in 0 .. Recovery
    /\ lock \in Callers \cup {Nobody}
    /\ call \in [Callers -> [at: {"idle", "calling", "failed", "succeeded", "hung"},
                             admitted: States]]

Init ==
    /\ state = "CLOSED"
    /\ failures = 0
    /\ probes = 0
    /\ since = Recovery
    /\ lock = Nobody
    /\ call = [c \in Callers |-> Idle]

-----------------------------------------------------------------------------
Goto(c, stage) == call' = [call EXCEPT ![c].at = stage]
Admit(c, s) == call' = [call EXCEPT ![c] = [at |-> "calling", admitted |-> s]]
Return(c) == call' = [call EXCEPT ![c] = Idle]

\* The first lines of call(); a call that is refused with CircuitOpenError
\* changes nothing and is no step.
Enter(c) ==
    /\ call[c] = Idle
    /\ state # "OPEN"
    /\ state = "HALF_OPEN" => probes < MaxProbes
    /\ Admit(c, state)
    /\ UNCHANGED <<state, failures, probes, since, lock>>

\* The recovery timeout is over: this call makes the breaker half-open.
EnterAfterRecovery(c) ==
    /\ call[c] = Idle
    /\ state = "OPEN" /\ since = Recovery
    /\ lock = Nobody
    /\ state' = "HALF_OPEN"
    /\ probes' = 0
    /\ Admit(c, "HALF_OPEN")
    /\ UNCHANGED <<failures, since, lock>>

\* The wrapped function returns or raises.
Answer(c) ==
    /\ call[c].at = "calling"
    /\ \E outcome \in {"failed", "succeeded"} : Goto(c, outcome)
    /\ UNCHANGED <<state, failures, probes, since, lock>>

\* _set_state, called by c with the lock held.
SetState(c, s) ==
    IF Reentrant THEN state' = s /\ Return(c) /\ UNCHANGED lock
                 ELSE UNCHANGED state /\ Goto(c, "hung") /\ lock' = c

UpTo(n, bound) == IF n < bound THEN n + 1 ELSE bound

Trips(n) == n >= Threshold

RecordFailure(c) ==
    /\ call[c].at = "failed"
    /\ lock = Nobody
    /\ failures' = UpTo(failures, Threshold)
    /\ since' = 0
    /\ IF state = "HALF_OPEN" \/ Trips(failures + 1)
       THEN SetState(c, "OPEN")
       ELSE Return(c) /\ UNCHANGED <<state, lock>>
    /\ UNCHANGED probes

\* _failure_count once the probes have succeeded.
ResetFailures == 0

RecordSuccess(c) ==
    /\ call[c].at = "succeeded"
    /\ lock = Nobody
    /\ IF call[c].admitted # "HALF_OPEN"
       THEN Return(c) /\ UNCHANGED <<state, failures, probes, lock>>
       ELSE /\ probes' = UpTo(probes, MaxProbes)
            /\ IF probes + 1 >= MaxProbes
               THEN failures' = ResetFailures /\ SetState(c, "CLOSED")
               ELSE Return(c) /\ UNCHANGED <<state, failures, lock>>
    /\ UNCHANGED since

Tick ==
    /\ since < Recovery
    /\ since' = since + 1
    /\ UNCHANGED <<state, failures, probes, lock, call>>

Next ==
    \/ \E c \in Callers : \/ Enter(c)
                          \/ EnterAfterRecovery(c)
                          \/ Answer(c)
                          \/ RecordFailure(c)
                          \/ RecordSuccess(c)
    \/ Tick

Spec == Init /\ [][Next]_vars

\* The HTTP clients have timeouts and the event loop runs every task that can.
Fairness ==
    \A c \in Callers :
        WF_vars(Answer(c)) /\ WF_vars(RecordFailure(c)) /\ WF_vars(RecordSuccess(c))

FairSpec == Spec /\ Fairness

-----------------------------------------------------------------------------
\* "Requests are short-circuited" when the threshold is reached: whoever calls a
\* breaker gets an answer, an error or a CircuitOpenError.
EveryCallReturns == \A c \in Callers : call[c] # Idle ~> call[c] = Idle
=============================================================================
