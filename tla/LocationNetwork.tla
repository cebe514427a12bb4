--------------------------- MODULE LocationNetwork ---------------------------
(***************************************************************************)
(* Points and route pairs of the location service (routers/points.py,      *)
(* pairs.py, internal_routes.py), and the two ways the trip service asks   *)
(* it for a route: the slip ingest (routers/trips.py, dependencies.py) and *)
(* the enrichment worker.                                                  *)
(*                                                                         *)
(* Requests run at READ COMMITTED and take no lock before they write, so   *)
(* that each of their statements sees another state.  A write sends the    *)
(* columns that differ from what was read; its flush and commit are one    *)
(* step.  LocationProcessing has the drafts in detail; here one is saved   *)
(* at once.  Names, codes and coordinates are left out (a point is its     *)
(* name, in one language), and so are versions: an If-Match names what the *)
(* request itself has just read.                                           *)
(***************************************************************************)
EXTENDS Naturals, FiniteSets, Sequences, FiniteSetsExt

CONSTANTS Points,
          Pairs,        \* route_pair_ids, each used once
          Profiles,
          Requests,
          MaxDrafts,    \* bound on the drafts of all pairs
          Nothing

ASSUME NetworkAssumption ==
    /\ Nothing \notin Points \cup Pairs \cup Profiles
    /\ MaxDrafts \in Nat \ {0}

VARIABLES point,    \* location_points: is_active, for those that exist
          pair,     \* location_route_pairs
          drafts,   \* of each pair, the statuses of its versions by number
          request,  \* the requests under way
          raced     \* pairs that became live while a deactivation of one of their points went on

networkVars == <<point, pair, drafts, request, raced>>

None == 0
Live == {"DRAFT", "ACTIVE"}
Ends == {"forward", "reverse"}

\* The points, and the versions of one pair.
PointStates == {"none", "active", "inactive"}
Versions == Seq({"DRAFT", "ACTIVE", "SUPERSEDED", "DISCARDED"})

PairRows ==
    [status: Live \cup {"SOFT_DELETED"}, from: Points, to: Points, profile: Profiles,
     active: 0 .. MaxDrafts, pending: 0 .. MaxDrafts]

NoPair == [status |-> "none"]
Exists(n) == pair[n] # NoPair
Touches(n, p) == Exists(n) /\ p \in {pair[n].from, pair[n].to}
IsLive(n) == pair[n].status \in Live

Free == [op |-> "idle"]
Writers == {"create", "approve", "discard", "deactivate", "profile"}
Readers == {"resolve", "context", "slip", "enrich"}

NetworkTypeOK ==
    /\ point \in [Points -> PointStates]
    /\ pair \in [Pairs -> PairRows \cup {NoPair}]
    /\ \A n \in Pairs : Exists(n) =>
          /\ point[pair[n].from] # "none" /\ point[pair[n].to] # "none" /\ pair[n].from # pair[n].to
          /\ {pair[n].active, pair[n].pending} \subseteq {None} \cup DOMAIN drafts[n]
    /\ drafts \in [Pairs -> Versions]
    /\ DOMAIN request = Requests
    /\ \A q \in Requests : request[q].op \in {"idle"} \cup Writers \cup Readers
    /\ raced \in SUBSET Pairs

NetworkInit ==
    /\ point = [p \in Points |-> "none"]
    /\ pair = [n \in Pairs |-> NoPair]
    /\ drafts = [n \in Pairs |-> <<>>]
    /\ request = [q \in Requests |-> Free]
    /\ raced = {}

-----------------------------------------------------------------------------
\* Request q goes on as r.
Put(q, r) == request' = [request EXCEPT ![q] = r]
Is(q, op, at) == request[q].op = op /\ request[q].at = at
GoOn(q, at) == Put(q, [request[q] EXCEPT !.at = at])

\* Refused, or dead: whatever was read is forgotten, nothing was written.
Abandon(q) ==
    /\ request[q] # Free
    /\ Put(q, Free)
    /\ UNCHANGED <<point, pair, drafts, raced>>

\* create_point, its conflicts excluded.
CreatePoint(p) ==
    /\ point[p] = "none"
    /\ \E s \in {"active", "inactive"} : point' = [point EXCEPT ![p] = s]
    /\ UNCHANGED <<pair, drafts, request, raced>>

\* update_point, is_active set.  Nothing is checked between its read and its write.
Reactivate(p) ==
    /\ point[p] = "inactive"
    /\ point' = [point EXCEPT ![p] = "active"]
    /\ UNCHANGED <<pair, drafts, request, raced>>

\* update_point, is_active cleared: load the point, look for pairs that use it, write.
AskDeactivate(q, p) ==
    /\ request[q] = Free
    /\ point[p] = "active"
    /\ Put(q, [op |-> "deactivate", at |-> "loaded", point |-> p])
    /\ UNCHANGED <<point, pair, drafts, raced>>

UsedAsOrigin(p) == {n \in Pairs : Exists(n) /\ pair[n].from = p /\ IsLive(n)}

\* The pairs that block the deactivation of a point.
Blocking(p) == {n \in Pairs : Touches(n, p) /\ IsLive(n)}

CheckUse(q) ==
    /\ Is(q, "deactivate", "loaded")
    /\ Blocking(request[q].point) = {}
    /\ GoOn(q, "checked")
    /\ UNCHANGED <<point, pair, drafts, raced>>

\* A request that may make a pair of p live when it commits.
MayRevive(q, p) ==
    \/ request[q].op = "create" /\ p \in {request[q].from, request[q].to}
    \/ request[q].op = "approve" /\ Touches(request[q].pair, p)

Deactivate(q) ==
    LET p == request[q].point
    IN /\ Is(q, "deactivate", "checked")
       /\ point' = [point EXCEPT ![p] = "inactive"]
       /\ request' = [r \in Requests |->
              IF r = q THEN Free
              ELSE IF MayRevive(r, p) THEN [request[r] EXCEPT !.met = TRUE] ELSE request[r]]
       /\ UNCHANGED <<pair, drafts, raced>>

\* The pair n that q writes has been raced by a deactivation.
Raced(q, n, ends) ==
    IF request[q].met \/ \E r \in Requests : Is(r, "deactivate", "checked") /\ request[r].point \in ends
    THEN raced \cup {n} ELSE raced

-----------------------------------------------------------------------------
AskCreatePairAnywhere(q, a, b) ==
    /\ request[q] = Free
    /\ point[a] = "active" /\ point[b] # "none"
    /\ Put(q, [op |-> "create", at |-> "origin", from |-> a, to |-> b, met |-> FALSE])
    /\ UNCHANGED <<point, pair, drafts, raced>>

\* create_pair: the points, one after the other, then the pairs of the same ends.
\* The profile asked for is chosen where it is first used.
AskCreatePair(q, a, b) ==
    /\ request[q] = Free
    /\ point[a] = "active" /\ point[b] # "none" /\ a # b
    /\ Put(q, [op |-> "create", at |-> "origin", from |-> a, to |-> b, met |-> FALSE])
    /\ UNCHANGED <<point, pair, drafts, raced>>

CheckDestination(q) ==
    /\ Is(q, "create", "origin")
    /\ point[request[q].to] = "active"
    /\ GoOn(q, "points")
    /\ UNCHANGED <<point, pair, drafts, raced>>

Twins(a, b, f) ==
    {n \in Pairs : Exists(n) /\ pair[n].from = a /\ pair[n].to = b /\ pair[n].profile = f}

\* _assert_pair_uniqueness: neither a live pair nor a deleted one.
CheckUnique(q) ==
    /\ Is(q, "create", "points")
    /\ \E f \in Profiles :
          /\ Twins(request[q].from, request[q].to, f) = {}
          /\ Put(q, [op |-> "create", at |-> "unique", from |-> request[q].from, to |-> request[q].to,
                     profile |-> f, met |-> request[q].met])
    /\ UNCHANGED <<point, pair, drafts, raced>>

\* ix_location_route_pairs_live_unique
LiveUnique(n, row) ==
    row.status \in Live => \A m \in Twins(row.from, row.to, row.profile) \ {n} : ~IsLive(m)

InsertPair(q) ==
    LET row == [status |-> "DRAFT", from |-> request[q].from, to |-> request[q].to,
                profile |-> request[q].profile, active |-> None, pending |-> None]
    IN /\ Is(q, "create", "unique")
       /\ \E n \in Pairs :
             /\ ~Exists(n) /\ LiveUnique(n, row)
             /\ pair' = [pair EXCEPT ![n] = row]
             /\ raced' = Raced(q, n, {row.from, row.to})
       /\ Put(q, Free)
       /\ UNCHANGED <<point, drafts>>

\* update_pair, approve and discard load the pair without a lock.
AskChange(q, n) ==
    /\ request[q] = Free /\ Exists(n) /\ pair[n].status # "SOFT_DELETED"
    /\ \/ pair[n].status = "DRAFT"
          /\ \E f \in Profiles \ {pair[n].profile} :
                Put(q, [op |-> "profile", at |-> "loaded", pair |-> n, profile |-> f])
       \/ /\ pair[n].pending # None
          /\ \E op \in {"approve", "discard"} :
                Put(q, [op |-> op, at |-> "loaded", pair |-> n, met |-> FALSE,
                        status |-> pair[n].status, pending |-> pair[n].pending])
    /\ UNCHANGED <<point, pair, drafts, raced>>

\* The second uniqueness check of update_pair.
CheckProfile(q) ==
    /\ Is(q, "profile", "loaded")
    /\ LET n == request[q].pair
       IN Twins(pair[n].from, pair[n].to, request[q].profile) \ {n} = {}
    /\ GoOn(q, "unique")
    /\ UNCHANGED <<point, pair, drafts, raced>>

WriteProfile(q) ==
    LET n == request[q].pair
        row == [pair[n] EXCEPT !.profile = request[q].profile]
    IN /\ Is(q, "profile", "unique")
       /\ LiveUnique(n, row)
       /\ pair' = [pair EXCEPT ![n] = row]
       /\ Put(q, Free)
       /\ UNCHANGED <<point, drafts, raced>>

\* soft_delete_pair, for which nothing between its read and its write matters.
SoftDelete(n) ==
    /\ Exists(n) /\ pair[n].status # "SOFT_DELETED"
    /\ pair' = [pair EXCEPT ![n].status = "SOFT_DELETED"]
    /\ UNCHANGED <<point, drafts, request, raced>>

\* approve_route_versions: it writes a status only if the one it has read differs.
Approve(q) ==
    LET n == request[q].pair
        v == request[q].pending
        row == [pair[n] EXCEPT !.status = IF request[q].status = "ACTIVE" THEN @ ELSE "ACTIVE",
                               !.active = v, !.pending = None]
    IN /\ Is(q, "approve", "loaded")
       /\ LiveUnique(n, row)
       /\ pair' = [pair EXCEPT ![n] = row]
       /\ drafts' = [drafts EXCEPT ![n] = [u \in DOMAIN @ |->
                         IF u = v THEN "ACTIVE" ELSE IF @[u] = "ACTIVE" THEN "SUPERSEDED" ELSE @[u]]]
       /\ raced' = Raced(q, n, {row.from, row.to})
       /\ Put(q, Free)
       /\ UNCHANGED point

Discard(q) ==
    LET n == request[q].pair
    IN /\ Is(q, "discard", "loaded")
       /\ pair' = [pair EXCEPT ![n].pending = None]
       /\ drafts' = [drafts EXCEPT ![n][request[q].pending] = "DISCARDED"]
       /\ Put(q, Free)
       /\ UNCHANGED <<point, raced>>

\* The end of a processing run.
SaveDraft(n) ==
    /\ Exists(n) /\ MapThenSumSet(LAMBDA m : Len(drafts[m]), Pairs) < MaxDrafts
    /\ drafts' = [drafts EXCEPT ![n] = Append(@, "DRAFT")]
    /\ pair' = [pair EXCEPT ![n].pending = Len(drafts[n]) + 1]
    /\ UNCHANGED <<point, request, raced>>

-----------------------------------------------------------------------------
\* One reader at a time: readers change nothing that another request sees.
MayRead(q) == \A r \in Requests : request[r].op \notin Readers

\* resolve_route, for one pair of names: origin, destination, pairs, and a
\* version of every candidate, each in a statement of its own.
AskRoute(q, a, b) ==
    /\ request[q] = Free /\ MayRead(q) /\ a # b
    /\ point[a] = "active"
    /\ Put(q, [op |-> "resolve", at |-> "origin", from |-> a, to |-> b])
    /\ UNCHANGED <<point, pair, drafts, raced>>

FindDestination(q) ==
    /\ Is(q, "resolve", "origin")
    /\ point[request[q].to] = "active"
    /\ GoOn(q, "points")
    /\ UNCHANGED <<point, pair, drafts, raced>>

\* The ACTIVE pairs that join a and b, in either direction.
Joining(a, b, f) ==
    {n \in Pairs : /\ Exists(n) /\ pair[n].status = "ACTIVE" /\ pair[n].profile = f
                   /\ {pair[n].from, pair[n].to} = {a, b} /\ pair[n].active # None}

Candidates(a, b, f) ==
    {[pair |-> n, version |-> pair[n].active] : n \in Joining(a, b, f)}

CollectCandidates(q) ==
    LET r == request[q]
    IN /\ Is(q, "resolve", "points")
       /\ \E f \in Profiles :
             Put(q, [op |-> "resolve", at |-> "candidates", from |-> r.from,
                     left |-> Candidates(r.from, r.to, f), kept |-> {}])
       /\ UNCHANGED <<point, pair, drafts, raced>>

AnyActive(n, v) == {u \in DOMAIN drafts[n] : drafts[n][u] = "ACTIVE"}

\* The version row of a route that a pair has named, if it is ACTIVE.
ActiveVersion(n, v) == {u \in DOMAIN drafts[n] : u = v /\ drafts[n][u] = "ACTIVE"}

LookUpCandidate(q) ==
    /\ Is(q, "resolve", "candidates")
    /\ \E c \in request[q].left :
          Put(q, [request[q] EXCEPT !.left = @ \ {c},
                     !.kept = IF ActiveVersion(c.pair, c.version) = {} THEN @ ELSE @ \cup {c}])
    /\ UNCHANGED <<point, pair, drafts, raced>>

\* One candidate is an answer; none and several are refusals.  The answer calls
\* the pair pair_id.  The ingest reads that, the worker reads route_pair_id and
\* asks for the context of no pair.
Resolved(q) ==
    LET r == request[q]
        answer == [c \in {"pair_id"} |-> (CHOOSE k \in r.kept : TRUE).pair]
        Read(field) == IF field \in DOMAIN answer THEN answer[field] ELSE Nothing
    IN /\ Is(q, "resolve", "candidates") /\ r.left = {} /\ Cardinality(r.kept) = 1
       /\ \/ Put(q, [op |-> "slip", at |-> "resolved", from |-> r.from, pair |-> Read("pair_id")])
          \/ Put(q, [op |-> "enrich", at |-> "resolved", from |-> r.from, pair |-> Read("route_pair_id")])
       /\ UNCHANGED <<point, pair, drafts, raced>>

\* get_trip_context, asked for a pair, or for the one that was resolved.
AskContext(q, n) ==
    /\ \/ request[q] = Free /\ MayRead(q)
       \/ request[q].op \in Readers /\ request[q].at = "resolved" /\ request[q].pair = n
    /\ Exists(n) /\ pair[n].status = "ACTIVE" /\ pair[n].active # None
    /\ Put(q, [op |-> IF request[q] = Free THEN "context" ELSE request[q].op, at |-> "pair", pair |-> n,
               from |-> IF request[q] = Free THEN Nothing ELSE request[q].from,
               way |-> pair[n].from, version |-> pair[n].active, forward |-> None])
    /\ UNCHANGED <<point, pair, drafts, raced>>

ReadForward(q) ==
    /\ request[q].op \in Readers /\ request[q].at = "pair"
    /\ \E v \in ActiveVersion(request[q].pair, request[q].version) :
          Put(q, [request[q] EXCEPT !.at = "forward", !.forward = v])
    /\ UNCHANGED <<point, pair, drafts, raced>>

\* The answer, from which apply_trip_context takes the forward route.
ReadReverse(q) ==
    LET r == request[q]
    IN /\ r.op \in Readers /\ r.at = "forward"
       /\ \E v \in ActiveVersion(r.pair, r.version) :
             Put(q, [op |-> r.op, at |-> "answered", pair |-> r.pair, asked |-> r.from,
                     from |-> r.way, forward |-> r.forward, reverse |-> v])
       /\ UNCHANGED <<point, pair, drafts, raced>>

WriterStep(q) ==
    \/ CheckUse(q) \/ Deactivate(q)
    \/ CheckDestination(q) \/ CheckUnique(q) \/ InsertPair(q)
    \/ CheckProfile(q) \/ WriteProfile(q) \/ Approve(q) \/ Discard(q)

ReaderStep(q) ==
    \/ FindDestination(q) \/ CollectCandidates(q) \/ LookUpCandidate(q) \/ Resolved(q)
    \/ ReadForward(q) \/ ReadReverse(q)

NetworkNext ==
    \/ \E q \in Requests : WriterStep(q) \/ ReaderStep(q) \/ Abandon(q)
    \/ \E p \in Points : CreatePoint(p) \/ Reactivate(p)
    \/ \E q \in Requests, p \in Points : AskDeactivate(q, p)
    \/ \E q \in Requests, a, b \in Points : AskCreatePair(q, a, b) \/ AskRoute(q, a, b)
    \/ \E q \in Requests, n \in Pairs : AskChange(q, n) \/ AskContext(q, n)
    \/ \E n \in Pairs : SaveDraft(n) \/ SoftDelete(n)

NetworkSpec == NetworkInit /\ [][NetworkNext]_networkVars

-----------------------------------------------------------------------------
(* Properties.                                                             *)

\* A live pair stands on an inactive point only if the request that made it live,
\* its creation or an approval that had read it before it was deleted, went on
\* while the point was deactivated: in any other order one of the two checks sees
\* what the other request did.
InactiveOnlyByRace ==
    \A n \in Pairs : (Exists(n) /\ IsLive(n)) =>
        \/ n \in raced
        \/ point[pair[n].from] = "active" /\ point[pair[n].to] = "active"

\* The two durations of a trip context come from one approval, however many
\* approvals fall between the statements that read them.
ContextIsOneApproval ==
    \A q \in Requests : (request[q].op \in Readers /\ request[q].at = "answered") =>
        request[q].forward = request[q].reverse

-----------------------------------------------------------------------------
(* What the code does not keep; TLC refutes each.                          *)

\* "pair_id is guaranteed to be non-None if status is READY" (_resolve_route_context).
ReadyHasPair ==
    \A q \in Requests : (request[q].op = "enrich" /\ request[q].at = "resolved") =>
        request[q].pair # Nothing

\* A trip goes the way of its slip: a pair that is found in reverse still gives
\* its forward route.
GoesTheSlipsWay ==
    \A q \in Requests : (request[q].op = "slip" /\ request[q].at = "answered") =>
        request[q].from = request[q].asked

\* A pair is ACTIVE under the profile its routes were calculated for.
ProfileIsLocked ==
    [][\A n \in Pairs : (Exists(n) /\ pair[n].status = "ACTIVE") => pair'[n].profile = pair[n].profile]_networkVars

\* A candidate whose pair has an ACTIVE version is kept: an approval in between
\* makes it look as if there were none.
RouteStaysFound ==
    [][\A q \in Requests : Is(q, "resolve", "candidates") =>
          \A c \in request[q].left :
             (request'[q].op = "resolve" /\ request'[q].at = "candidates" /\ c \notin request'[q].left
                 /\ pair[c.pair].status = "ACTIVE")
             => c \in request'[q].kept]_networkVars
=============================================================================
