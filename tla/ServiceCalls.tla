---------------------------- MODULE ServiceCalls ----------------------------
(***************************************************************************)
(* Outgoing calls of one process of the fleet service: the breakers of the *)
(* clients of the driver and the trip service (clients/driver_client.py,   *)
(* clients/trip_client.py) over the cache of service tokens they share     *)
(* with the readiness probe (platform_auth/service_tokens.py).             *)
(*                                                                         *)
(* One event loop runs the tasks; a task is interrupted only where it      *)
(* waits: for the lock of the cache, for the identity service, for the     *)
(* service it calls.  The breaker's own lock is never waited for, because  *)
(* nothing is awaited under it.  The breaker is asked before the token and *)
(* told only of the call, so a token that cannot be had leaves no trace in *)
(* it.  A call the open breaker refuses changes nothing and is no step.    *)
(*                                                                         *)
(* Times are ticks left, failures are counted up to Threshold, beyond      *)
(* which the code does not tell them apart, and the time of the last       *)
(* failure is kept while the breaker is OPEN, where alone it is read.      *)
(***************************************************************************)
EXTENDS Integers, Sequences

CONSTANTS
    Tasks,          \* requests in progress
    Threshold,      \* breaker_open_threshold
    Cooldown,       \* breaker_half_open_after_seconds, in ticks
    TokenLife,      \* lifetime of a minted token
    Skew,           \* refresh_skew_seconds: tokens this old are renewed
    Backoff,        \* failure_backoff_seconds
    Attempts        \* length of delays in _fetch_token

ASSUME BreakerAssumption == Threshold \in Nat \ {0} /\ Cooldown \in Nat
ASSUME TokenAssumption ==
    /\ TokenLife \in Nat /\ Skew \in Nat /\ Skew < TokenLife
    /\ Backoff \in Nat /\ Attempts \in Nat \ {0}

Clients == {"driver", "trip"}
Ready == "ready"

VARIABLES
    breaker,        \* _state, _failure_count and the rest of the cooldown
    token,          \* ticks until the cached token expires, 0 without one
    backoff,        \* ticks until _backoff_until
    queue,          \* the lock of the cache: its holder and who waits, in order
    task,           \* what each task does
    up,             \* services that answer
    identity        \* what the identity service does with token requests

callsVars == <<breaker, token, backoff, queue, task, up, identity>>

AtRest == [pc |-> "idle", for |-> Ready, tries |-> 0, kept |-> FALSE, left |-> 0]

CallsTypeOK ==
    /\ breaker \in [Clients -> [state : {"CLOSED", "OPEN", "HALF_OPEN"},
                                failures : 0..Threshold, rest : 0..Cooldown]]
    /\ token \in 0..TokenLife
    /\ backoff \in 0..Backoff
    /\ queue \in Seq(Tasks)
    /\ task \in [Tasks -> [pc : {"idle", "queued", "minting", "calling"},
                           for : Clients \cup {Ready}, tries : 0..(Attempts - 1),
                           kept : BOOLEAN, left : 0..TokenLife]]
    /\ up \in SUBSET Clients
    /\ identity \in {"up", "down", "refusing"}

CallsInit ==
    /\ breaker = [c \in Clients |-> [state |-> "CLOSED", failures |-> 0, rest |-> 0]]
    /\ token = 0
    /\ backoff = 0
    /\ queue = <<>>
    /\ task = [t \in Tasks |-> AtRest]
    /\ up = Clients
    /\ identity = "up"

-----------------------------------------------------------------------------
(* The breaker.                                                            *)

AdmitsNoSecondProbe(c) ==
    breaker[c].state # "HALF_OPEN" /\ (breaker[c].state = "OPEN" => breaker[c].rest = 0)

\* _check_breaker: every call passes but those of an OPEN breaker in its cooldown.
Admits(c) == breaker[c].state = "OPEN" => breaker[c].rest = 0

Checked(b) == IF b.state = "OPEN" THEN [b EXCEPT !.state = "HALF_OPEN"] ELSE b

AfterSuccessKeepingCount(b) ==
    IF b.state = "OPEN" THEN b ELSE [b EXCEPT !.state = "CLOSED"]

\* _record_success; the answer of an older call to an OPEN breaker is ignored.
AfterSuccess(b) ==
    IF b.state = "OPEN" THEN b ELSE [state |-> "CLOSED", failures |-> 0, rest |-> 0]

\* _record_failure
AfterFailure(b) ==
    LET failures == IF b.failures = Threshold THEN Threshold ELSE b.failures + 1
        opens == b.state # "CLOSED" \/ failures = Threshold
    IN  [state |-> IF opens THEN "OPEN" ELSE "CLOSED", failures |-> failures,
         rest |-> IF opens THEN Cooldown ELSE 0]

-----------------------------------------------------------------------------
(* The token cache.                                                        *)

\* _cached_entry and _should_refresh
Fresh == token > Skew
BackingOff == backoff > 0 /\ token = 0

\* A client goes on to its call; the readiness probe has what it wanted.
Hand(t, c, left) ==
    task' = [task EXCEPT ![t] =
                IF c = Ready THEN AtRest ELSE [AtRest EXCEPT !.pc = "calling", !.for = c, !.left = left]]

\* The task holds the lock and found no fresh token under it.
Minting(c) == [AtRest EXCEPT !.pc = "minting", !.for = c, !.kept = token > 0]

Leave == queue' = Tail(queue)

NotCounted(tries) == tries

\* enumerate(delays, start=1)
Counted(tries) == tries + 1

\* get_token up to its first wait, for the client or probe c
GetToken(t, c) ==
    /\ \/ /\ Fresh
          /\ Hand(t, c, token)
          /\ UNCHANGED queue
       \/ /\ BackingOff             \* ServiceTokenAcquisitionError
          /\ UNCHANGED <<task, queue>>
       \/ /\ ~Fresh /\ ~BackingOff
          /\ queue' = Append(queue, t)
          /\ task' = [task EXCEPT ![t] =
                        IF queue = <<>> THEN Minting(c)
                        ELSE [AtRest EXCEPT !.pc = "queued", !.for = c]]
    /\ UNCHANGED <<token, backoff, up, identity>>

\* validate_driver and check_asset_references up to their first wait
Ask(t, c) ==
    /\ task[t].pc = "idle"
    /\ Admits(c)
    /\ breaker' = [breaker EXCEPT ![c] = Checked(@)]
    /\ GetToken(t, c)

AskDriver(t) == Ask(t, "driver")
AskTrip(t) == Ask(t, "trip")

\* GET /ready asks for a token with auth_outbound_status.
AskReady(t) ==
    /\ task[t].pc = "idle"
    /\ GetToken(t, Ready)
    /\ UNCHANGED breaker

\* The second look at the cache, under the lock
NeverUsable == FALSE
Usable == Fresh

\* The lock has passed on to t, which looks again before it mints.
TakeLock(t) ==
    /\ queue # <<>> /\ Head(queue) = t
    /\ task[t].pc = "queued"
    /\ \/ /\ Usable
          /\ Hand(t, task[t].for, token)
          /\ Leave
       \/ /\ ~Usable
          /\ task' = [task EXCEPT ![t] = Minting(@.for)]
          /\ UNCHANGED queue
    /\ UNCHANGED <<breaker, token, backoff, up, identity>>

\* _request_token returns a token.
MintOk(t) ==
    /\ task[t].pc = "minting"
    /\ identity = "up"
    /\ token' = TokenLife
    /\ backoff' = 0
    /\ Leave
    /\ Hand(t, task[t].for, TokenLife)
    /\ UNCHANGED <<breaker, up, identity>>

\* An attempt of _fetch_token fails and another is left.
MintAgain(t) ==
    /\ task[t].pc = "minting"
    /\ identity = "down"
    /\ task[t].tries < Attempts - 1
    /\ task' = [task EXCEPT ![t].tries = Counted(@)]
    /\ UNCHANGED <<breaker, token, backoff, queue, up, identity>>

\* The last attempt fails, or any with 401 or 403.  What was cached when the
\* lock was taken is handed out, expired meanwhile or not; else get_token raises.
MintFails(t) ==
    /\ task[t].pc = "minting"
    /\ \/ identity = "refusing"
       \/ identity = "down" /\ task[t].tries = Attempts - 1
    /\ Leave
    /\ \/ /\ task[t].kept
          /\ Hand(t, task[t].for, token)
          /\ UNCHANGED backoff
       \/ /\ ~task[t].kept
          /\ backoff' = Backoff
          /\ task' = [task EXCEPT ![t] = AtRest]
    /\ UNCHANGED <<breaker, token, up, identity>>

-----------------------------------------------------------------------------
(* The call.                                                               *)

\* The breaker of the service that was called becomes b.
Return(t, b) ==
    /\ breaker' = [breaker EXCEPT ![task[t].for] = b]
    /\ task' = [task EXCEPT ![t] = AtRest]
    /\ UNCHANGED <<token, backoff, queue, up, identity>>

Answered(t) ==
    /\ task[t].pc = "calling"
    /\ task[t].for \in up /\ task[t].left > 0
    /\ Return(t, AfterSuccess(breaker[task[t].for]))

\* No answer, or 401 for a token that has expired: raise_for_status.
Failed(t) ==
    /\ task[t].pc = "calling"
    /\ task[t].for \notin up \/ task[t].left = 0
    /\ Return(t, AfterFailure(breaker[task[t].for]))

-----------------------------------------------------------------------------
(* Time and the other services.                                            *)

Down(n) == IF n = 0 THEN 0 ELSE n - 1

\* The timeouts of httpx end a call long before a token that was fresh when it was
\* handed out expires; one that was already old may expire under the call.
Aged(left) == IF left > Skew THEN left ELSE Down(left)

Tick ==
    /\ breaker' = [c \in Clients |-> [breaker[c] EXCEPT !.rest = Down(@)]]
    /\ token' = Down(token)
    /\ backoff' = Down(backoff)
    /\ task' = [t \in Tasks |-> [task[t] EXCEPT !.left = Aged(@)]]
    /\ UNCHANGED <<queue, up, identity>>

Outside ==
    /\ \/ /\ \E c \in Clients : up' = (up \ {c}) \cup ({c} \ up)
          /\ UNCHANGED identity
       \/ /\ identity' \in {"up", "down", "refusing"} \ {identity}
          /\ UNCHANGED up
    /\ UNCHANGED <<breaker, token, backoff, queue, task>>

Proceed(t) ==
    TakeLock(t) \/ MintOk(t) \/ MintAgain(t) \/ MintFails(t) \/ Answered(t) \/ Failed(t)

CallsNext ==
    \/ \E t \in Tasks : AskDriver(t) \/ AskTrip(t) \/ AskReady(t) \/ Proceed(t)
    \/ Tick
    \/ Outside

CallsSpec == CallsInit /\ [][CallsNext]_callsVars

\* Time passes, the loop runs its tasks, the timeouts of httpx end every wait,
\* and requests keep coming for either client.
FairSpec ==
    /\ CallsSpec
    /\ WF_callsVars(Tick)
    /\ \A t \in Tasks : WF_callsVars(Proceed(t))
    /\ \A c \in Clients : SF_callsVars(\E t \in Tasks : Ask(t, c))

-----------------------------------------------------------------------------
(* Properties.                                                             *)

\* A breaker lets calls pass unconditionally exactly while fewer than Threshold
\* failures are counted, whatever late answers and failures of calls admitted in
\* an earlier state do to its count.
ClosedIffBelow ==
    \A c \in Clients : breaker[c].state = "CLOSED" <=> breaker[c].failures < Threshold

\* However many tasks find the token old at once, none mints while the cache has
\* a fresh one: the lock and the second look under it let one task renew for all.
NoNeedlessMint == [][(\E t \in Tasks : MintOk(t)) => ~Fresh]_callsVars

\* No outage of the identity service or of a called service keeps a task waiting
\* for ever, for the lock of the cache or for an answer.
EveryTaskReturns == \A t \in Tasks : []<>(task[t].pc = "idle")

\* Once the services are up for good, each breaker closes and is found closed again
\* and again: no mixture of probes, late failures and probes that end without a
\* result for want of a token leaves one open or half-open for ever.
OutageHeals ==
    <>[](up = Clients /\ identity = "up")
        => \A c \in Clients : []<>(breaker[c].state = "CLOSED")
=============================================================================
