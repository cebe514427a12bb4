------------------------- MODULE IdentityRegistration -------------------------
(***************************************************************************)
(* From a registration at the auth service to a profile at the identity    *)
(* service: register_user stores credentials and an outbox row, the relay  *)
(* publishes it, and the consumer group of registration_consumer.py, which *)
(* is a KafkaConsumer, looks the profile up and inserts it while           *)
(* administrators insert users of their own.  No row of identity_users is  *)
(* ever changed or deleted: update_user has no route.                      *)
(*                                                                         *)
(* All rows of auth_outbox have one partition key, so their messages share *)
(* a partition.  OutboxRelay shows what the relay does with them; here it  *)
(* publishes every pending row and may repeat any.                         *)
(***************************************************************************)
EXTENDS KafkaConsumer, Sequences

CONSTANTS
    Users,          \* who may register: each stands for a user_id
    MailOf,         \* the e-mail of each, a record [local, domain]
    Admins,         \* requests of administrators; the id of what they create
    Names, Mails,   \* what an administrator may ask for
    MaxRepeats,     \* bound on repeated publications
    MaxErrors       \* bound on failing database calls

ASSUME RegistrationAssumption ==
    /\ DOMAIN MailOf = Users
    /\ Users \cap Admins = {}
    /\ Malformed = {}              \* the relay writes JSON
    /\ MaxFailures > Length        \* errors are bounded by MaxErrors, not here
    /\ MaxRepeats \in Nat /\ MaxErrors \in Nat

VARIABLES
    wrapped,        \* does the payload carry event_type, as process() expects; not at this commit
    registered,     \* auth_credentials
    pending,        \* their outbox rows that are not published yet
    log,            \* the partition: whose registration each message tells
    repeated,
    looked,         \* consumers that found no profile and are about to insert
    rows,           \* identity_users
    announced,      \* users with an audit entry and an event of their own
    request,        \* requests of administrators
    errors          \* database errors so far

regVars == <<wrapped, registered, pending, log, repeated, looked, rows, announced, request, errors>>
allVars == <<vars, regVars>>

Fresh == [pc |-> "new", name |-> "", mail |-> [local |-> "", domain |-> ""]]

\* The rows auth_outbox may hold: an event of every registration at most.
OutboxRows == SUBSET registered

RegTypeOK ==
    /\ TypeOK
    /\ wrapped \in BOOLEAN
    /\ registered \subseteq Users /\ pending \in OutboxRows
    /\ log \in Seq(registered) /\ Len(log) <= Length
    /\ repeated \in 0..MaxRepeats
    /\ looked \subseteq Instances
    /\ rows \subseteq [id : Users \cup Admins, name : Names \cup {MailOf[u].local : u \in Users}, mail : Mails \cup {MailOf[u] : u \in Users}]
    /\ announced \subseteq Admins
    /\ request \in [Admins -> [pc : {"new", "named", "mailed", "done"},
                               name : Names \cup {""}, mail : Mails \cup {Fresh.mail}]]
    /\ errors \in 0..MaxErrors

RegInit ==
    /\ Init
    /\ wrapped \in BOOLEAN
    /\ registered = {} /\ pending = {}
    /\ log = <<>> /\ repeated = 0
    /\ looked = {}
    /\ rows = {} /\ announced = {}
    /\ request = [q \in Admins |-> Fresh]
    /\ errors = 0

-----------------------------------------------------------------------------
(* The auth service and its relay.                                         *)

\* Credentials, audit entry and event in one transaction; a second registration
\* of a mail is refused by its unique column.
Register(u) ==
    /\ u \notin registered
    /\ Len(log) + Cardinality(pending) < Length
    /\ registered' = registered \cup {u}
    /\ pending' = pending \cup {u}
    /\ UNCHANGED <<vars, wrapped, log, repeated, looked, rows, announced, request, errors>>

Publish(u) ==
    /\ u \in pending
    /\ pending' = pending \ {u}
    /\ log' = Append(log, u)
    /\ UNCHANGED <<vars, wrapped, registered, repeated, looked, rows, announced, request, errors>>

\* The relay died, or missed the delivery report, and publishes the row again.
PublishAgain(u) ==
    /\ u \in registered \ pending
    /\ repeated < MaxRepeats
    /\ Len(log) + Cardinality(pending) < Length
    /\ repeated' = repeated + 1
    /\ log' = Append(log, u)
    /\ UNCHANGED <<vars, wrapped, registered, pending, looked, rows, announced, request, errors>>

-----------------------------------------------------------------------------
(* The consumer.                                                           *)

Told(c) == log[job[c].msg + 1]

\* _create_profile: the part of the mail before the @ is the username.
Profile(u) == [id |-> u, name |-> MailOf[u].local, mail |-> MailOf[u]]

\* The primary key and the two unique columns
Clash(r) == \E s \in rows : s.id = r.id \/ s.name = r.name \/ s.mail = r.mail

Receive(c) ==
    /\ position < Len(log)
    /\ Poll(c)
    /\ UNCHANGED regVars

\* event_type is missing: "Skipping unrelated event"
Skip(c) ==
    /\ ~wrapped
    /\ Process(c)
    /\ UNCHANGED regVars

\* session.get finds the profile, or the consumer goes on to insert it.
LookUp(c) ==
    /\ job[c].at = "processing" /\ wrapped /\ c \notin looked
    /\ IF \E r \in rows : r.id = Told(c)
       THEN Process(c) /\ UNCHANGED looked
       ELSE looked' = looked \cup {c} /\ UNCHANGED vars
    /\ UNCHANGED <<wrapped, registered, pending, log, repeated, rows, announced, request, errors>>

\* IntegrityError is logged and raised again.
Create(c) ==
    /\ c \in looked
    /\ looked' = looked \ {c}
    /\ IF Clash(Profile(Told(c)))
       THEN ProcessError(c) /\ UNCHANGED rows
       ELSE Process(c) /\ rows' = rows \cup {Profile(Told(c))}
    /\ UNCHANGED <<wrapped, registered, pending, log, repeated, announced, request, errors>>

\* Another error of the database, before or, with an unknown outcome, at commit
DatabaseError(c) ==
    /\ wrapped
    /\ errors < MaxErrors
    /\ errors' = errors + 1
    /\ ProcessError(c)
    /\ looked' = looked \ {c}
    /\ \/ UNCHANGED rows
       \/ /\ c \in looked /\ ~Clash(Profile(Told(c)))
          /\ rows' = rows \cup {Profile(Told(c))}
    /\ UNCHANGED <<wrapped, registered, pending, log, repeated, announced, request>>

Acknowledge(c) == (Commit(c) \/ CommitLost(c) \/ Rebalance(c)) /\ UNCHANGED regVars

Restart(c) ==
    /\ Crash(c)
    /\ looked' = looked \ {c}
    /\ UNCHANGED <<wrapped, registered, pending, log, repeated, rows, announced, request, errors>>

-----------------------------------------------------------------------------
(* create_user of the administrators: two lookups, then one transaction    *)
(* with the user, its groups, an audit entry and an event.                 *)

Ask(q, pc, name, mail) == request' = [request EXCEPT ![q] = [pc |-> pc, name |-> name, mail |-> mail]]

FindName(q) ==
    /\ request[q].pc = "new"
    /\ \E n \in Names, e \in Mails :
           Ask(q, IF \E r \in rows : r.name = n THEN "done" ELSE "named", n, e)
    /\ UNCHANGED <<rows, announced>>

FindMail(q) ==
    /\ request[q].pc = "named"
    /\ Ask(q, IF \E r \in rows : r.mail = request[q].mail THEN "done" ELSE "mailed",
           request[q].name, request[q].mail)
    /\ UNCHANGED <<rows, announced>>

\* write_audit and _write_outbox
Announce(q) == announced' = announced \cup {q}

InsertUser(q) ==
    LET r == [id |-> q, name |-> request[q].name, mail |-> request[q].mail]
    IN  /\ request[q].pc = "mailed"
        /\ Ask(q, "done", r.name, r.mail)
        /\ IF Clash(r) THEN UNCHANGED <<rows, announced>>
           ELSE rows' = rows \cup {r} /\ Announce(q)

CreateUser(q) ==
    /\ FindName(q) \/ FindMail(q) \/ InsertUser(q)
    /\ UNCHANGED <<vars, wrapped, registered, pending, log, repeated, looked, errors>>

-----------------------------------------------------------------------------
Consume(c) == Receive(c) \/ Skip(c) \/ LookUp(c) \/ Create(c) \/ (Commit(c) /\ UNCHANGED regVars)

RegNext ==
    \/ \E u \in Users : Register(u) \/ Publish(u) \/ PublishAgain(u)
    \/ \E c \in Instances :
           Receive(c) \/ Skip(c) \/ LookUp(c) \/ Create(c) \/ DatabaseError(c) \/ Acknowledge(c) \/ Restart(c)
    \/ \E q \in Admins : CreateUser(q)

RegSpec == RegInit /\ [][RegNext]_allVars

\* The consumers poll for ever.  Nothing is asked of the relay: OutboxRelay refutes
\* that it publishes every row.
RegFairSpec ==
    /\ RegSpec
    /\ \A c \in Instances : WF_allVars(Consume(c))

-----------------------------------------------------------------------------
(* Properties, besides SkippedHaveFailed and RepeatsArePaidFor.            *)

HasProfile(u) == Profile(u) \in rows

\* Every registration that is published reaches process() of some consumer, which
\* returns or raises.
RegistrationHandled ==
    \A u \in Users : (\E m \in DOMAIN log : log[m] = u) ~>
        \E m \in processed \cup failed : log[m + 1] = u

\* "Consumer for user registration events to synchronize profiles": who was processed
\* has a profile.  TLC refutes it: no relay puts event_type into the payload, so
\* process() skips every registration and returns.
SyncedProfiles == \A m \in processed : HasProfile(log[m + 1])
=============================================================================
