-------------------------- MODULE TripBookingProofs --------------------------
(***************************************************************************)
(* For any trips, requests, keys and crews: the lock discipline of the     *)
(* trip service.  A request that checks for overlaps holds the advisory    *)
(* locks of its crew from the check to its commit, and has taken them in   *)
(* ascending order; an update holds the row of its trip from the reading   *)
(* of the version to its commit.                                           *)
(***************************************************************************)
EXTENDS TripBooking, FiniteSetTheorems, TLAPS

Inserting == {"create", "import", "fallback", "emptyReturn"}
Updating == {"approve", "reject", "cancel", "edit", "retime"}

Transactions ==
    [op: Ops, trip: Trips, at: Stages, seen: 0 .. MaxVersion, new: Rows]

\* The stages in which it is settled what a request will write.
Settled == {"lock", "check", "write"}
In(p, stages) == req[p] # Idle /\ req[p].at \in stages

TypeInv ==
    /\ trip \in [Trips -> Rows]
    /\ audits \in [Trips -> Nat]
    /\ rowLock \in [Trips -> Requests \cup {NoRequest}]
    /\ advisory \in [Keys -> Requests \cup {NoRequest}]
    /\ req \in [Requests -> {Idle} \cup Transactions]
    /\ duration \in [Pairs -> 1 .. MaxLength]
    /\ replans \in 0 .. MaxReplans
    /\ replanned \subseteq Trips

\* A row that is neither yet to come nor hard-deleted.
Kept(row) == row.status \notin {"ABSENT", "PURGED"} /\ row.crew \in Crews /\ row.version # 0
RowsInv == \A t \in Trips : trip[t] = Absent \/ trip[t] = Purged \/ Kept(trip[t])

\* What a request may be, by its stage.
Proper(r) ==
    /\ r.at = "row" => r.op \in Updating /\ r.seen < MaxVersion
    /\ r.at = "purge" <=> r.op = "hardDelete"
    /\ r.at \in {"lock", "check"} => r.op \in CheckedOps
    /\ r.at \in Settled =>
          /\ Kept(r.new)
          /\ r.op \in Inserting <=> r.new.version = 1
          /\ (r.op \in Inserting /\ r.new.base # NoTrip) => r.op = "emptyReturn"
          /\ r.new.status = "COMPLETED" => r.op \in CheckedOps \cup {"retime"}
RequestsInv == \A p \in Requests : req[p] # Idle => Proper(req[p])

\* A request holds no advisory lock before it asks for the first, those of its
\* crew in ascending order while it asks, and all of them from the check on.
KeysInv ==
    \A p \in Requests :
        /\ (req[p] = Idle \/ In(p, {"row", "purge"})) => Held(p) = {}
        /\ In(p, {"lock"}) =>
              /\ Missing(p) # {}
              /\ \A k \in Held(p), m \in Missing(p) : k < m
        /\ In(p, {"check", "write"}) /\ req[p].op \in CheckedOps => Missing(p) = {}

\* A retiming changes the planned end of a row at most.
Retimed(old, new) ==
    new.status = old.status /\ new.crew = old.crew /\ new.start = old.start /\ new.pair = old.pair

\* An update that has read its trip holds its row, at the version it has seen and
\* in a status it is meant for; nobody else holds rows.
RowLocksInv ==
    /\ \A p \in Requests : In(p, Settled) /\ req[p].op \in Updating =>
          LET t == req[p].trip
          IN  /\ rowLock[t] = p
              /\ trip[t].version = req[p].seen
              /\ Allowed(req[p].op, trip[t])
              /\ req[p].new.base = trip[t].base
              /\ req[p].op = "retime" => Retimed(trip[t], req[p].new)
    /\ \A t \in Trips : rowLock[t] # NoRequest =>
          /\ In(rowLock[t], Settled)
          /\ req[rowLock[t]].op \in Updating
          /\ req[rowLock[t]].trip = t

\* A hard delete under way is about a soft-deleted trip, as its client has seen it,
\* or comes too late.
PurgesInv ==
    \A p \in Requests : In(p, {"purge"}) =>
        LET t == req[p].trip
        IN  \/ trip[t].status = "SOFT_DELETED" /\ trip[t].version = req[p].seen
            \/ trip[t] = Purged

\* An empty return under way has seen its base trip.
BasesInv ==
    \A p \in Requests : In(p, Settled) /\ req[p].new.base # NoTrip =>
        trip[req[p].new.base].status # "ABSENT"

\* What is about to be written as completed after a check overlaps no other completed
\* trip that has kept its end.
WritesInv ==
    \A p \in Requests :
        In(p, {"write"}) /\ req[p].new.status = "COMPLETED" /\ req[p].op \in CheckedOps =>
            \A u \in Trips \ {req[p].trip} :
                trip[u].status = "COMPLETED" /\ u \notin replanned => ~ Overlap(trip[u], req[p].new)

\* The audit rows of a hard-deleted trip, and those still to come.
Purging(t) == {p \in Requests : req[p].op = "hardDelete" /\ req[p].trip = t}
AuditsInv ==
    \A t \in Trips :
        IF trip[t] = Purged THEN audits[t] + Cardinality(Purging(t)) <= Cardinality(Requests)
                            ELSE audits[t] = 0

ShapeInv == TypeInv /\ RowsInv /\ RequestsInv
LockInv == ShapeInv /\ KeysInv /\ RowLocksInv
OrphanInv == LockInv /\ BasesInv /\ NoOrphan
BookingInv == LockInv /\ WritesInv /\ OverlapOnlyByRetiming

-----------------------------------------------------------------------------
(* Least and greatest elements.                                            *)

\* A finite set that is not empty has an element of greatest rank.
LEMMA GreatestExists ==
    ASSUME NEW S, IsFiniteSet(S), S # {}, NEW f \in [S -> Int]
    PROVE  \E x \in S : \A y \in S : f[y] <= f[x]
<1> DEFINE Above(x) == {y \in S : f[y] >= f[x]}
           T == {Above(x) : x \in S}
<1>1. T \subseteq FiniteSubsetsOf(S) /\ T # {}
    <2>1. \A x \in S : Above(x) \subseteq S /\ IsFiniteSet(Above(x))
        BY FS_Subset
    <2>2. PICK x \in S : TRUE
        OBVIOUS
    <2>3. Above(x) \in T
        OBVIOUS
    <2> QED BY <2>1, <2>3 DEF FiniteSubsetsOf
<1>2. IsWellFoundedOn(StrictSubsetOrdering(S), FiniteSubsetsOf(S))
    BY FS_StrictSubsetOrderingWellFounded
<1> HIDE DEF T
<1>3. PICK least \in T : \A other \in T : <<other, least>> \notin StrictSubsetOrdering(S)
    BY <1>1, <1>2, WFMin
<1> USE DEF T
<1>4. PICK x \in S : least = Above(x)
    OBVIOUS
<1>5. ASSUME NEW y \in S, ~ (f[y] <= f[x]) PROVE FALSE
    <2>1. Above(y) \subseteq Above(x) /\ x \in Above(x) /\ x \notin Above(y)
        BY <1>5
    <2>2. <<Above(y), Above(x)>> \in StrictSubsetOrdering(S)
        BY <2>1 DEF StrictSubsetOrdering
    <2> QED BY <1>3, <1>4, <2>2
<1> QED BY <1>5

LEMMA MinIsLeast ==
    ASSUME NEW S \in SUBSET Nat, IsFiniteSet(S), S # {}
    PROVE  Min(S) \in S /\ \A y \in S : Min(S) <= y
<1>1. [y \in S |-> 0 - y] \in [S -> Int]
    OBVIOUS
<1>2. PICK x \in S : \A y \in S : [z \in S |-> 0 - z][y] <= [z \in S |-> 0 - z][x]
    BY <1>1, GreatestExists
<1>3. \A y \in S : x <= y
    BY <1>2
<1> QED BY <1>3 DEF Min

-----------------------------------------------------------------------------
(* Rows and requests.                                                      *)

LEMMA AbsentIsRow == Absent \in Rows /\ Purged \in Rows
BY BookingAssumption DEF Absent, Purged, Rows, Statuses

LEMMA NewTripIsRow ==
    ASSUME TypeInv, NEW status \in ManualStatuses, NEW crew \in Crews, NEW start \in Starts,
           NEW pair \in Pairs \cup {NoPair}, NEW base \in Trips \cup {NoTrip}
    PROVE  /\ NewTrip(status, crew, start, pair, base) \in Rows
           /\ Kept(NewTrip(status, crew, start, pair, base))
<1> DEFINE length == IF pair = NoPair THEN 0 ELSE duration[pair]
<1>1. length \in 0 .. MaxLength
    <2>1. pair # NoPair => duration[pair] \in 1 .. MaxLength
        BY DEF TypeInv
    <2> QED BY <2>1, BookingAssumption
<1> HIDE DEF length
<1>2. NewTrip(status, crew, start, pair, base) =
         [status |-> status, crew |-> crew, start |-> start, pair |-> pair,
          length |-> length, version |-> 1, base |-> base]
    BY DEF NewTrip, length
<1> QED BY <1>1, <1>2, BookingAssumption DEF Rows, Kept, Statuses, ManualStatuses

LEMMA PlannedIsRow ==
    ASSUME TypeInv, NEW row \in Rows
    PROVE  /\ Planned(row) \in Rows
           /\ Planned(row).status = row.status /\ Planned(row).crew = row.crew
           /\ Planned(row).version = row.version /\ Planned(row).base = row.base
           /\ Retimed(row, Planned(row))
<1>1. row.pair # NoPair => duration[row.pair] \in 0 .. MaxLength
    BY BookingAssumption DEF TypeInv, Rows
<1>2. CASE row.pair = NoPair
    BY <1>2 DEF Planned, Retimed
<1>3. CASE row.pair # NoPair
    BY <1>1, <1>3 DEF Planned, Retimed, Rows
<1> QED BY <1>2, <1>3

\* What an update leaves alone.
LEMMA UpdatesKeep ==
    ASSUME TypeInv, NEW row \in Rows, Kept(row), NEW op \in Updating,
           NEW new \in Updates(op, row)
    PROVE  /\ new \in Rows /\ Kept(new)
           /\ new.version = row.version /\ new.base = row.base
           /\ new.status = "COMPLETED" => op \in CheckedOps \cup {"retime"}
           /\ op = "retime" => Retimed(row, new)
<1>1. CASE op \in {"approve", "reject", "cancel"}
    BY <1>1 DEF Updates, Rows, Kept, Statuses, CheckedOps
<1>2. CASE op = "edit"
    <2>1. new \in Edits(row)
        BY <1>2 DEF Updates
    <2>2. CASE \E crew \in Crews : new = [row EXCEPT !.crew = crew]
        BY <1>2, <2>2 DEF Rows, Kept, CheckedOps
    <2>3. ASSUME NEW start \in Starts, new = Planned([row EXCEPT !.start = start])
          PROVE  new \in Rows /\ Kept(new) /\ new.version = row.version /\ new.base = row.base
        <3>1. [row EXCEPT !.start = start] \in Rows
            BY DEF Rows
        <3> QED BY <2>3, <3>1, PlannedIsRow DEF Kept, Rows
    <2>4. ASSUME NEW pair \in Pairs, new = Planned([row EXCEPT !.pair = pair])
          PROVE  new \in Rows /\ Kept(new) /\ new.version = row.version /\ new.base = row.base
        <3>1. [row EXCEPT !.pair = pair] \in Rows
            BY DEF Rows
        <3> QED BY <2>4, <3>1, PlannedIsRow DEF Kept, Rows
    <2> QED BY <1>2, <2>1, <2>2, <2>3, <2>4 DEF Edits, CheckedOps
<1>3. CASE op = "retime"
    BY <1>3, PlannedIsRow DEF Updates, Kept
<1> QED BY <1>1, <1>2, <1>3 DEF Updating

\* Idle is no transaction.
LEMMA RequestTypes ==
    ASSUME TypeInv, NEW p \in Requests, req[p] # Idle
    PROVE  /\ req[p] \in Transactions
           /\ req[p].op \in Ops /\ req[p].trip \in Trips /\ req[p].at \in Stages
           /\ req[p].seen \in 0 .. MaxVersion /\ req[p].new \in Rows
BY DEF TypeInv, Transactions

-----------------------------------------------------------------------------
(* The steps, by what they write.                                          *)

\* A request begins.
Opens(p) ==
    /\ req[p] = Idle
    /\ \E r \in Transactions :
          /\ Put(p, r) /\ Proper(r) /\ r # Idle
          /\ \/ r.at = "row"
             \/ r.at = "lock" /\ r.op \in Inserting
             \/ r.at = "write" /\ r.op \in {"import", "fallback"}
             \/ /\ r.at = "purge"
                /\ trip[r.trip].status = "SOFT_DELETED" /\ r.seen = trip[r.trip].version
          /\ r.at \in Settled /\ r.new.base # NoTrip => trip[r.new.base].status # "ABSENT"
    /\ UNCHANGED <<trip, audits, rowLock, advisory, duration, replans, replanned>>

\* An update gets the row of its trip and reads it.
ReadsRow(p) ==
    LET t == req[p].trip
    IN  /\ req[p] # Idle /\ req[p].at = "row"
        /\ rowLock[t] = NoRequest
        /\ Matches(p) /\ Allowed(req[p].op, trip[t])
        /\ rowLock' = [rowLock EXCEPT ![t] = p]
        /\ \E r \in Transactions :
              /\ Put(p, r) /\ Proper(r) /\ r # Idle
              /\ r.op = req[p].op /\ r.op \in Updating
              /\ r.trip = t /\ r.seen = req[p].seen
              /\ r.new.base = trip[t].base
              /\ r.op = "retime" => Retimed(trip[t], r.new)
              /\ r.at = IF r.op \in CheckedOps THEN "lock" ELSE "write"
        /\ UNCHANGED <<trip, audits, advisory, duration, replans, replanned>>

\* The overlap check finds nothing.
Passes(p) ==
    /\ req[p] # Idle /\ req[p].at = "check"
    /\ ~ FindsOverlap(req[p].trip, req[p].new)
    /\ Goto(p, "write")
    /\ UNCHANGED <<trip, audits, rowLock, advisory, duration, replans, replanned>>

Commits(p) ==
    LET t == req[p].trip
        new == req[p].new
    IN  /\ req[p] # Idle /\ req[p].at = "write"
        /\ new.version = 1 => Insertable(t, new)
        /\ trip' = [trip EXCEPT ![t] = new]
        /\ replanned' = IF req[p].op = "retime" /\ new.length = trip[t].length THEN replanned
                        ELSE IF req[p].op = "retime" THEN replanned \cup {t}
                        ELSE replanned \ {t}
        /\ Finish(p)
        /\ UNCHANGED <<audits, duration, replans>>

Purges(p) ==
    LET t == req[p].trip
    IN  /\ req[p] # Idle /\ req[p].at = "purge"
        /\ rowLock[t] = NoRequest
        /\ \A u \in Trips : trip[u].base # t
        /\ trip' = [trip EXCEPT ![t] = Purged]
        /\ audits' = Audited(t)
        /\ Finish(p)
        /\ UNCHANGED <<duration, replans, replanned>>

GivesUp(p) == req[p] # Idle /\ Rollback(p)

Move(p) ==
    Opens(p) \/ ReadsRow(p) \/ LockKey(p) \/ Passes(p) \/ Commits(p) \/ Purges(p) \/ GivesUp(p)

LEMMA BeginOpens ==
    ASSUME ShapeInv, NEW p \in Requests, NEW t \in Trips, Begin(p, t)
    PROVE  Opens(p)
<1> USE DEF ShapeInv
<1>0. trip[t] \in Rows /\ trip[t].version \in 0 .. MaxVersion /\ Ops \subseteq AllOps
    BY BookingAssumption DEF TypeInv, Rows
<1>1. ASSUME NEW op \in Ops, NEW at \in {"lock", "write"}, NEW status \in ManualStatuses,
             NEW crew \in Crews, NEW start \in Starts, NEW pair \in Pairs \cup {NoPair},
             NEW base \in Trips \cup {NoTrip},
             req[p] = Idle,
             Put(p, Open(op, t, at, NewTrip(status, crew, start, pair, base))),
             UNCHANGED <<trip, audits, rowLock, advisory, duration, replans, replanned>>,
             base # NoTrip => op = "emptyReturn" /\ trip[base].status # "ABSENT",
             \/ at = "lock" /\ op \in {"create", "emptyReturn"}
             \/ at = "write" /\ op \in {"import", "fallback"} /\ status = "PENDING_REVIEW"
      PROVE  Opens(p)
    <2> DEFINE new == NewTrip(status, crew, start, pair, base)
               r == Open(op, t, at, new)
    <2>1. new \in Rows /\ Kept(new)
        BY NewTripIsRow
    <2>2. new.version = 1 /\ new.base = base /\ new.status = status
        BY DEF NewTrip
    <2> HIDE DEF new
    <2>3. /\ r.op = op /\ r.trip = t /\ r.at = at /\ r.new = new
          /\ r.seen = trip[t].version
        BY DEF Open
    <2>4. r \in Transactions
        BY <1>0, <2>1 DEF Open, Transactions, Stages
    <2>5. r # Idle
        <3>1. op # "none"
            BY <1>0 DEF AllOps
        <3> QED BY <2>3, <3>1 DEF Idle
    <2> HIDE DEF r
    <2>6. Proper(r)
        BY <1>1, <2>1, <2>2, <2>3 DEF Proper, Inserting, Updating, CheckedOps, Settled
    <2>7. r.at \in Settled /\ r.new.base # NoTrip => trip[r.new.base].status # "ABSENT"
        BY <1>1, <2>2, <2>3
    <2>8. Put(p, r)
        BY <1>1 DEF r, new
    <2>9. \/ r.at = "lock" /\ r.op \in Inserting
          \/ r.at = "write" /\ r.op \in {"import", "fallback"}
        BY <1>1, <2>3 DEF Inserting
    <2> QED BY <1>1, <2>4, <2>5, <2>6, <2>7, <2>8, <2>9 DEF Opens
<1>2. CASE Create(p, t)
    BY <1>1, <1>2 DEF Create
<1>3. CASE Import(p, t)
    BY <1>1, <1>3 DEF Import, ManualStatuses
<1>4. CASE Fallback(p, t)
    BY <1>1, <1>4 DEF Fallback, ManualStatuses
<1>5. CASE EmptyReturn(p, t)
    <2>1. PICK b \in Trips, status \in ManualStatuses, crew \in Crews, start \in Starts :
             /\ trip[b].status \in ActiveStatuses
             /\ trip[b].pair # NoPair
             /\ Put(p, Open("emptyReturn", t, "lock", NewTrip(status, crew, start, trip[b].pair, b)))
        BY <1>5 DEF EmptyReturn
    <2>2. trip[b].pair \in Pairs \cup {NoPair} /\ trip[b].status # "ABSENT"
        BY <2>1 DEF TypeInv, Rows, ActiveStatuses
    <2> QED BY <1>1, <1>5, <2>1, <2>2 DEF EmptyReturn
<1>6. ASSUME NEW op \in Ops, NEW at \in {"row", "purge"},
             req[p] = Idle, Put(p, Open(op, t, at, Absent)),
             UNCHANGED <<trip, audits, rowLock, advisory, duration, replans, replanned>>,
             \/ at = "row" /\ op \in Updating /\ trip[t].version < MaxVersion
             \/ at = "purge" /\ op = "hardDelete" /\ trip[t].status = "SOFT_DELETED"
      PROVE  Opens(p)
    <2> DEFINE r == Open(op, t, at, Absent)
    <2>3. r.op = op /\ r.trip = t /\ r.at = at /\ r.seen = trip[t].version
        BY DEF Open
    <2>4. r \in Transactions
        BY <1>0, AbsentIsRow DEF Open, Transactions, Stages
    <2>5. r # Idle
        <3>1. op # "none"
            BY <1>0 DEF AllOps
        <3> QED BY <2>3, <3>1 DEF Idle
    <2>8. Put(p, r)
        BY <1>6
    <2> HIDE DEF r
    <2>6. Proper(r)
        BY <1>6, <2>3 DEF Proper, Updating, Settled
    <2> QED BY <1>6, <2>3, <2>4, <2>5, <2>6, <2>8 DEF Opens, Settled
<1>7. CASE AskUpdate(p, t)
    BY <1>6, <1>7 DEF AskUpdate, Updating
<1>8. CASE AskPurge(p, t)
    BY <1>6, <1>8 DEF AskPurge
<1> QED BY <1>2, <1>3, <1>4, <1>5, <1>7, <1>8 DEF Begin

LEMMA LockRowReads ==
    ASSUME ShapeInv, NEW p \in Requests, LockRow(p)
    PROVE  ReadsRow(p) \/ GivesUp(p)
<1> DEFINE op == req[p].op
           t == req[p].trip
<1> USE DEF ShapeInv
<1>1. req[p] # Idle /\ req[p].at = "row" /\ rowLock[t] = NoRequest
    BY DEF LockRow
<1>2. CASE ~ (Matches(p) /\ trip[t].status # "PURGED" /\ Allowed(op, trip[t]))
    BY <1>1, <1>2 DEF LockRow, GivesUp
<1>3. CASE Matches(p) /\ trip[t].status # "PURGED" /\ Allowed(op, trip[t])
    <2>1. PICK u \in Updates(op, trip[t]) :
             Put(p, [req[p] EXCEPT !.new = [u EXCEPT !.version = @ + 1],
                                   !.at = IF op \in CheckedOps THEN "lock" ELSE "write"])
        BY <1>3 DEF LockRow
    <2>2. /\ req[p] \in Transactions /\ op \in Updating /\ req[p].seen < MaxVersion
          /\ t \in Trips /\ trip[t] \in Rows
        BY <1>1, RequestTypes DEF RequestsInv, Proper, TypeInv
    <2>3. Kept(trip[t])
        <3>1. trip[t] # Absent /\ trip[t] # Purged
            <4>1. trip[t].status # "ABSENT"
                BY <1>3, <2>2 DEF Allowed, Updating, ActiveStatuses
            <4>2. Absent.status = "ABSENT" /\ Purged.status = "PURGED"
                BY DEF Absent, Purged
            <4> QED BY <1>3, <4>1, <4>2
        <3> QED BY <2>2, <3>1 DEF RowsInv
    <2>4. /\ u \in Rows /\ Kept(u)
          /\ u.version = trip[t].version /\ u.base = trip[t].base
          /\ u.status = "COMPLETED" => op \in CheckedOps \cup {"retime"}
          /\ op = "retime" => Retimed(trip[t], u)
        BY <2>2, <2>3, UpdatesKeep
    <2> DEFINE new == [u EXCEPT !.version = @ + 1]
               at == IF op \in CheckedOps THEN "lock" ELSE "write"
               r == [req[p] EXCEPT !.new = new, !.at = at]
    <2>5. u.version = req[p].seen /\ u.version \in 0 .. MaxVersion /\ u.version # 0
        BY <1>3, <2>4 DEF Matches, Rows, Kept
    <2>6. /\ new \in Rows /\ new.version = u.version + 1 /\ new.base = u.base
          /\ new.status = u.status /\ new.crew = u.crew
          /\ new.start = u.start /\ new.pair = u.pair
        BY <2>2, <2>4, <2>5, BookingAssumption DEF Rows
    <2>7. Kept(new) /\ new.version # 1
        BY <2>4, <2>5, <2>6 DEF Kept
    <2> HIDE DEF new
    <2>8. /\ r \in Transactions /\ r.op = op /\ r.trip = t /\ r.seen = req[p].seen
          /\ r.new = new /\ r.at = at
        BY <2>2, <2>6 DEF Transactions, Stages
    <2>9. r # Idle
        BY <2>2, <2>8 DEF Idle, Updating
    <2>10. Put(p, r)
        BY <2>1 DEF new
    <2> HIDE DEF r
    <2>11. Proper(r)
        BY <2>2, <2>4, <2>6, <2>7, <2>8 DEF Proper, Updating, Inserting, Settled, CheckedOps
    <2>12. op = "retime" => Retimed(trip[t], new)
        BY <2>4, <2>6 DEF Retimed
    <2> QED BY <1>1, <1>3, <2>2, <2>4, <2>6, <2>8, <2>9, <2>10, <2>11, <2>12 DEF ReadsRow, LockRow
<1> QED BY <1>2, <1>3

LEMMA StepsAreMoves ==
    ASSUME ShapeInv, Next
    PROVE  Replan \/ \E p \in Requests : Move(p)
<1>1. ASSUME NEW p \in Requests, NEW t \in Trips, Begin(p, t) PROVE Move(p)
    BY <1>1, BeginOpens DEF Move
<1>2. ASSUME NEW p \in Requests, LockRow(p) PROVE Move(p)
    BY <1>2, LockRowReads DEF Move
<1>3. ASSUME NEW p \in Requests, CheckOverlap(p) PROVE Move(p)
    BY <1>3 DEF CheckOverlap, Move, Passes, GivesUp
<1>4. ASSUME NEW p \in Requests, Write(p) PROVE Move(p)
    BY <1>4 DEF Write, Move, Commits, GivesUp
<1>5. ASSUME NEW p \in Requests, Purge(p) PROVE Move(p)
    BY <1>5 DEF Purge, Move, Purges, GivesUp
<1>6. ASSUME NEW p \in Requests, LockTimeout(p) \/ Die(p) PROVE Move(p)
    BY <1>6 DEF LockTimeout, Die, Blocked, WaitsFor, Move, GivesUp
<1> QED BY <1>1, <1>2, <1>3, <1>4, <1>5, <1>6 DEF Next, Step, Move

-----------------------------------------------------------------------------
(* The shape of the state.                                                 *)

\* The end of a transaction: its request is over and it holds no lock.
LEMMA FinishEnds ==
    ASSUME TypeInv, NEW p \in Requests, Finish(p)
    PROVE  /\ req' = [req EXCEPT ![p] = Idle]
           /\ req'[p] = Idle /\ \A q \in Requests \ {p} : req'[q] = req[q]
           /\ req' \in [Requests -> {Idle} \cup Transactions]
           /\ rowLock' \in [Trips -> Requests \cup {NoRequest}]
           /\ advisory' \in [Keys -> Requests \cup {NoRequest}]
           /\ Held(p)' = {}
           /\ \A q \in Requests \ {p} : Held(q)' = Held(q)
           /\ \A t \in Trips : rowLock'[t] = IF rowLock[t] = p THEN NoRequest ELSE rowLock[t]
<1>1. req' = [req EXCEPT ![p] = Idle]
    BY DEF Finish, Put
<1>2. \A k \in Keys : advisory'[k] = IF advisory[k] = p THEN NoRequest ELSE advisory[k]
    BY DEF Finish
<1>3. Held(p)' = {} /\ \A q \in Requests \ {p} : Held(q)' = Held(q)
    BY <1>2, BookingAssumption DEF Held
<1> QED BY <1>1, <1>3 DEF Finish, TypeInv

\* What a move does to the requests: that of its own is begun, goes on or ends.
LEMMA MoveRequest ==
    ASSUME ShapeInv, NEW p \in Requests, Move(p)
    PROVE  /\ \A q \in Requests \ {p} : req'[q] = req[q]
           /\ req' \in [Requests -> {Idle} \cup Transactions]
           /\ req'[p] = Idle \/ Proper(req'[p])
           /\ rowLock' \in [Trips -> Requests \cup {NoRequest}]
           /\ advisory' \in [Keys -> Requests \cup {NoRequest}]
<1> USE DEF ShapeInv
<1>1. CASE Opens(p) \/ ReadsRow(p)
    BY <1>1, RequestTypes DEF Opens, ReadsRow, Put, TypeInv
<1>2. ASSUME NEW at \in {"lock", "check", "write"}, Goto(p, at), req[p] # Idle,
             req[p].at \in {"lock", "check"}
      PROVE  /\ \A q \in Requests \ {p} : req'[q] = req[q]
             /\ req' \in [Requests -> {Idle} \cup Transactions]
             /\ Proper(req'[p])
    <2>1. req[p] \in Transactions /\ Proper(req[p])
        BY <1>2, RequestTypes DEF RequestsInv
    <2>2. req' = [req EXCEPT ![p] = [req[p] EXCEPT !.at = at]]
        BY <1>2 DEF Goto, Put
    <2> DEFINE r == [req[p] EXCEPT !.at = at]
    <2>3. r \in Transactions /\ r.op = req[p].op /\ r.new = req[p].new /\ r.at = at
        BY <2>1 DEF Transactions, Stages
    <2>4. Proper(r)
        BY <1>2, <2>1, <2>3 DEF Proper, Settled
    <2> QED BY <2>2, <2>3, <2>4 DEF TypeInv
<1>3. CASE LockKey(p)
    <2>1. NextKey(p) \in Keys => advisory' \in [Keys -> Requests \cup {NoRequest}]
        BY <1>3 DEF LockKey, TypeInv
    <2>2. NextKey(p) \notin Keys => advisory' = advisory
        BY <1>3 DEF LockKey, TypeInv
    <2> QED BY <1>2, <1>3, <2>1, <2>2 DEF LockKey, TypeInv
<1>4. CASE Passes(p)
    BY <1>2, <1>4 DEF Passes, TypeInv
<1>5. CASE Commits(p) \/ Purges(p) \/ GivesUp(p)
    BY <1>5, FinishEnds DEF Commits, Purges, GivesUp, Rollback
<1> QED BY <1>1, <1>3, <1>4, <1>5 DEF Move

LEMMA ShapeInit == Init => ShapeInv
<1> SUFFICES ASSUME Init PROVE ShapeInv
    OBVIOUS
<1>1. TypeInv
    BY AbsentIsRow, BookingAssumption DEF Init, TypeInv
<1> QED BY <1>1 DEF Init, ShapeInv, RowsInv, RequestsInv

LEMMA ShapeStep ==
    ASSUME ShapeInv, [Next]_vars
    PROVE  ShapeInv'
<1> USE DEF ShapeInv
<1>1. ASSUME NEW p \in Requests, Move(p) PROVE ShapeInv'
    <2>1. /\ \A q \in Requests \ {p} : req'[q] = req[q]
          /\ req' \in [Requests -> {Idle} \cup Transactions]
          /\ req'[p] = Idle \/ Proper(req'[p])
          /\ rowLock' \in [Trips -> Requests \cup {NoRequest}]
          /\ advisory' \in [Keys -> Requests \cup {NoRequest}]
        BY <1>1, MoveRequest
    <2>2. RequestsInv'
        BY <2>1 DEF RequestsInv
    <2>3. CASE Opens(p) \/ ReadsRow(p) \/ LockKey(p) \/ Passes(p) \/ GivesUp(p)
        <3>1. UNCHANGED <<trip, audits, duration, replans, replanned>>
            BY <2>3 DEF Opens, ReadsRow, LockKey, Passes, GivesUp, Rollback
        <3> QED BY <2>1, <2>2, <3>1 DEF TypeInv, RowsInv
    <2>4. CASE Commits(p)
        <3>1. req[p].trip \in Trips /\ req[p].new \in Rows /\ Kept(req[p].new)
            BY <2>4, RequestTypes DEF Commits, RequestsInv, Proper, Settled
        <3> QED BY <2>1, <2>2, <2>4, <3>1 DEF Commits, TypeInv, RowsInv
    <2>5. CASE Purges(p)
        <3>1. req[p].trip \in Trips
            BY <2>5, RequestTypes DEF Purges
        <3> QED BY <2>1, <2>2, <2>5, <3>1, AbsentIsRow DEF Purges, Audited, TypeInv, RowsInv
    <2> QED BY <1>1, <2>3, <2>4, <2>5 DEF Move
<1>2. CASE Replan
    <2>1. duration' \in [Pairs -> 1 .. MaxLength] /\ replans' \in 0 .. MaxReplans
        BY <1>2, BookingAssumption DEF Replan, TypeInv
    <2> QED BY <1>2, <2>1 DEF Replan, TypeInv, RowsInv, RequestsInv
<1>3. CASE UNCHANGED vars
    BY <1>3 DEF vars, TypeInv, RowsInv, RequestsInv
<1> QED BY <1>1, <1>2, <1>3, StepsAreMoves

-----------------------------------------------------------------------------
(* The advisory locks.                                                     *)

LEMMA HeldIsKeys ==
    ASSUME ShapeInv, NEW p \in Requests
    PROVE  /\ Held(p) \subseteq Keys
           /\ In(p, Settled) => /\ Missing(p) \subseteq Keys /\ Missing(p) \subseteq Nat
                               /\ IsFiniteSet(Missing(p))
<1> SUFFICES ASSUME In(p, Settled)
             PROVE  Missing(p) \subseteq Keys /\ Missing(p) \subseteq Nat /\ IsFiniteSet(Missing(p))
    BY DEF Held
<1> DEFINE crew == req[p].new.crew
<1>1. crew \in Crews
    BY DEF In, ShapeInv, RequestsInv, Proper, Kept
<1>2. crew \subseteq Keys /\ crew \subseteq Nat /\ IsFiniteSet(crew)
    BY <1>1, BookingAssumption
<1>3. Missing(p) \in SUBSET crew
    BY DEF Missing
<1>4. IsFiniteSet(Missing(p))
    BY <1>2, <1>3, FS_Subset
<1> QED BY <1>2, <1>3, <1>4

\* The next key is the least of those that are missing.
LEMMA NextKeyIsLeast ==
    ASSUME ShapeInv, KeysInv, NEW p \in Requests, In(p, {"lock"})
    PROVE  /\ NextKey(p) \in Missing(p) /\ NextKey(p) \in Keys /\ NextKey(p) \in Nat
           /\ \A m \in Missing(p) : NextKey(p) <= m
<1>1. Missing(p) # {} /\ Missing(p) \subseteq Nat /\ Missing(p) \subseteq Keys /\ IsFiniteSet(Missing(p))
    BY HeldIsKeys DEF KeysInv, In, Settled
<1> QED BY <1>1, MinIsLeast DEF NextKey

LEMMA KeysStep ==
    ASSUME ShapeInv, KeysInv, [Next]_vars
    PROVE  KeysInv'
<1>0. ShapeInv'
    BY ShapeStep
<1> USE DEF ShapeInv
<1>1. ASSUME NEW p \in Requests, Move(p) PROVE KeysInv'
    <2> DEFINE Ordered(q) ==
            /\ (req[q] = Idle \/ In(q, {"row", "purge"})) => Held(q) = {}
            /\ In(q, {"lock"}) =>
                  /\ Missing(q) # {}
                  /\ \A k \in Held(q), m \in Missing(q) : k < m
            /\ In(q, {"check", "write"}) /\ req[q].op \in CheckedOps => Missing(q) = {}
    <2>1. \A q \in Requests \ {p} : req'[q] = req[q]
        BY <1>1, MoveRequest
    <2>2. ASSUME NEW q \in Requests \ {p}, Held(q)' = Held(q)
          PROVE  Ordered(q)'
        BY <2>1, <2>2 DEF KeysInv, In, Missing
    <2>3. CASE Opens(p) \/ ReadsRow(p)
        <3>1. /\ advisory' = advisory /\ Held(p) = {}
              /\ req'[p] \in Transactions /\ req'[p] # Idle /\ Proper(req'[p])
            BY <2>3 DEF Opens, ReadsRow, Put, TypeInv, KeysInv, In
        <3>2. req'[p].at \in {"row", "lock", "purge"} \/ req'[p].op \notin CheckedOps
            BY <2>3 DEF Opens, ReadsRow, Put, TypeInv, CheckedOps
        <3>3. \A q \in Requests : Held(q)' = Held(q)
            BY <3>1 DEF Held
        <3>4. In(p, {"lock"})' => Missing(p)' # {}
            <4>1. Missing(p)' = req'[p].new.crew
                BY <3>1, <3>3 DEF Missing
            <4>2. In(p, {"lock"})' => req'[p].new.crew \in Crews
                BY <3>1 DEF In, Proper, Settled, Kept
            <4> QED BY <4>1, <4>2, BookingAssumption
        <3>5. Ordered(p)'
            BY <3>1, <3>2, <3>3, <3>4 DEF In
        <3> QED BY <2>2, <3>3, <3>5 DEF KeysInv
    <2>4. CASE LockKey(p)
        <3> DEFINE k == NextKey(p)
        <3>1. /\ k \in Missing(p) /\ k \in Keys /\ k \in Nat
              /\ \A m \in Missing(p) : k <= m
            BY <2>4, NextKeyIsLeast DEF LockKey, In
        <3>2. advisory' = [advisory EXCEPT ![k] = p] /\ advisory[k] = NoRequest
            BY <2>4 DEF LockKey
        <3>3. Held(p)' = Held(p) \cup {k} /\ \A q \in Requests \ {p} : Held(q)' = Held(q)
            BY <3>1, <3>2, BookingAssumption DEF Held, TypeInv
        <3>4. /\ req[p] # Idle /\ req[p].at = "lock" /\ req[p] \in Transactions
              /\ req' = [req EXCEPT ![p] = [req[p] EXCEPT !.at = IF Missing(p) = {k} THEN "check" ELSE "lock"]]
            BY <2>4, RequestTypes DEF LockKey, Goto, Put
        <3>5. /\ req'[p].at = IF Missing(p) = {k} THEN "check" ELSE "lock"
              /\ req'[p].new = req[p].new /\ req'[p].op = req[p].op
              /\ req'[p].op # "none"
            BY <3>4, BookingAssumption DEF Transactions, TypeInv, AllOps
        <3>6. Missing(p)' = Missing(p) \ {k}
            BY <3>3, <3>5 DEF Missing
        <3>7. \A h \in Held(p), m \in Missing(p) : h < m
            BY <3>4 DEF KeysInv, In
        <3>8. Missing(p) \subseteq Nat /\ Held(p) \subseteq Nat
            BY <3>4, HeldIsKeys, BookingAssumption DEF In, Settled
        <3>9. req'[p] # Idle
            BY <3>5 DEF Idle
        <3>10. Ordered(p)'
            <4>1. \A h \in Held(p)', m \in Missing(p)' : h < m
                BY <3>1, <3>3, <3>6, <3>7, <3>8
            <4>2. CASE Missing(p) = {k}
                BY <3>5, <3>6, <3>9, <4>2 DEF In
            <4>3. CASE Missing(p) # {k}
                BY <3>1, <3>5, <3>6, <3>9, <4>1, <4>3 DEF In
            <4> QED BY <4>2, <4>3
        <3> QED BY <2>2, <3>3, <3>10 DEF KeysInv
    <2>5. CASE Passes(p)
        <3>1. advisory' = advisory /\ req[p] \in Transactions /\ req[p] # Idle /\ req[p].at = "check"
            BY <2>5, RequestTypes DEF Passes
        <3>2. /\ req'[p].at = "write" /\ req'[p].op = req[p].op /\ req'[p].new = req[p].new
              /\ req'[p].op # "none"
            BY <2>5, <3>1, BookingAssumption DEF Passes, Goto, Put, TypeInv, Transactions, AllOps
        <3>3. \A q \in Requests : Held(q)' = Held(q)
            BY <3>1 DEF Held
        <3>4. Ordered(p)'
            BY <3>1, <3>2, <3>3 DEF In, Idle, KeysInv, Missing
        <3> QED BY <2>2, <3>3, <3>4 DEF KeysInv
    <2>6. CASE Commits(p) \/ Purges(p) \/ GivesUp(p)
        <3>1. req'[p] = Idle /\ Held(p)' = {} /\ \A q \in Requests \ {p} : Held(q)' = Held(q)
            BY <2>6, FinishEnds DEF Commits, Purges, GivesUp, Rollback
        <3>2. Ordered(p)'
            BY <3>1 DEF In
        <3> QED BY <2>2, <3>1, <3>2 DEF KeysInv
    <2> QED BY <1>1, <2>3, <2>4, <2>5, <2>6 DEF Move
<1>2. CASE Replan \/ UNCHANGED vars
    BY <1>2 DEF Replan, vars, KeysInv, In, Held, Missing
<1> QED BY <1>1, <1>2, StepsAreMoves

-----------------------------------------------------------------------------
(* The row locks.                                                          *)

\* What is committed is a new trip, or an update under its row lock.
LEMMA CommitsInsertOrUpdate ==
    ASSUME ShapeInv, RowLocksInv, NEW p \in Requests, Commits(p)
    PROVE  /\ req[p].trip \in Trips /\ req[p].new \in Rows /\ Kept(req[p].new)
           /\ \/ /\ req[p].op \in Inserting /\ Insertable(req[p].trip, req[p].new)
              \/ /\ req[p].op \in Updating
                 /\ rowLock[req[p].trip] = p
                 /\ trip[req[p].trip].version = req[p].seen
                 /\ Allowed(req[p].op, trip[req[p].trip])
                 /\ trip[req[p].trip].status \notin {"ABSENT", "SOFT_DELETED", "PURGED"}
                 /\ req[p].new.base = trip[req[p].trip].base
<1>1. /\ In(p, Settled) /\ Proper(req[p]) /\ req[p].at = "write" /\ req[p] \in Transactions
      /\ req[p].op \in Ops /\ req[p].trip \in Trips /\ req[p].new \in Rows
    BY RequestTypes DEF Commits, In, Settled, ShapeInv, RequestsInv
<1>2. Kept(req[p].new) /\ req[p].op # "hardDelete" /\ (req[p].op \in Inserting => req[p].new.version = 1)
    BY <1>1 DEF Proper, Settled
<1>3. CASE req[p].op \in Inserting
    BY <1>1, <1>2, <1>3 DEF Commits
<1>4. CASE req[p].op \notin Inserting
    <2>1. req[p].op \in Updating
        BY <1>1, <1>2, <1>4, BookingAssumption DEF Inserting, Updating, AllOps
    <2>2. /\ rowLock[req[p].trip] = p /\ trip[req[p].trip].version = req[p].seen
          /\ Allowed(req[p].op, trip[req[p].trip]) /\ req[p].new.base = trip[req[p].trip].base
        BY <1>1, <2>1 DEF RowLocksInv
    <2>3. trip[req[p].trip].status \notin {"ABSENT", "SOFT_DELETED", "PURGED"}
        BY <2>1, <2>2 DEF Allowed, Updating, ActiveStatuses
    <2> QED BY <1>1, <1>2, <2>1, <2>2, <2>3
<1> QED BY <1>3, <1>4

LEMMA RowLocksStep ==
    ASSUME ShapeInv, RowLocksInv, [Next]_vars
    PROVE  RowLocksInv'
<1>0. ShapeInv'
    BY ShapeStep
<1> USE DEF ShapeInv
<1> DEFINE Owns(p) == In(p, Settled) /\ req[p].op \in Updating
           Keeps(p) == LET t == req[p].trip
                       IN  /\ rowLock[t] = p
                           /\ trip[t].version = req[p].seen
                           /\ Allowed(req[p].op, trip[t])
                           /\ req[p].new.base = trip[t].base
                           /\ req[p].op = "retime" => Retimed(trip[t], req[p].new)
           Owned(t) == In(rowLock[t], Settled) /\ req[rowLock[t]].op \in Updating /\ req[rowLock[t]].trip = t
<1>3. /\ \A p \in Requests : Owns(p)' => Keeps(p)'
      /\ \A t \in Trips : rowLock'[t] # NoRequest => Owned(t)'
      => RowLocksInv'
    BY DEF RowLocksInv
<1>1. ASSUME NEW p \in Requests, Move(p) PROVE RowLocksInv'
    <2>1. \A q \in Requests \ {p} : req'[q] = req[q]
        BY <1>1, MoveRequest
    <2>2. CASE Opens(p)
        <3>1. rowLock' = rowLock /\ trip' = trip /\ req[p] = Idle
            BY <2>2 DEF Opens
        <3>2. ~ Owns(p)'
            BY <2>2 DEF Opens, Put, TypeInv, In, Settled, Inserting, Updating
        <3>3. \A t \in Trips : rowLock[t] # p
            BY <3>1, BookingAssumption DEF RowLocksInv, In
        <3> QED BY <2>1, <3>1, <3>2, <3>3 DEF RowLocksInv, In, TypeInv
    <2>3. CASE ReadsRow(p)
        <3>0. PICK t \in Trips : t = req[p].trip
            BY <2>3, RequestTypes DEF ReadsRow
        <3>1. /\ req[p] # Idle /\ req[p].at = "row" /\ rowLock[t] = NoRequest
              /\ Matches(p) /\ Allowed(req[p].op, trip[t])
              /\ rowLock' = [rowLock EXCEPT ![t] = p] /\ trip' = trip
            BY <2>3, <3>0 DEF ReadsRow
        <3>2. /\ req'[p] # Idle /\ req'[p].at \in Settled /\ req'[p].op = req[p].op
              /\ req'[p].op \in Updating /\ req'[p].trip = t
              /\ req'[p].seen = req[p].seen /\ req'[p].new.base = trip[t].base
              /\ req'[p].op = "retime" => Retimed(trip[t], req'[p].new)
            BY <2>3, <3>0 DEF ReadsRow, Put, TypeInv, Settled
        <3>3. Keeps(p)'
            BY <3>0, <3>1, <3>2 DEF Matches, TypeInv, Allowed, Retimed
        <3>4. Owned(t)'
            BY <3>1, <3>2 DEF In, TypeInv
        <3>5. ASSUME NEW q \in Requests \ {p}, Owns(q)' PROVE Keeps(q)'
            <4>1. Owns(q) /\ Keeps(q)
                BY <2>1, <3>5 DEF In, RowLocksInv
            <4>2. req[q].trip \in Trips /\ req[q].trip # t
                BY <3>1, <4>1, RequestTypes, BookingAssumption DEF In
            <4> QED BY <2>1, <3>1, <4>1, <4>2 DEF TypeInv, Allowed, Retimed
        <3>6. ASSUME NEW u \in Trips \ {t}, rowLock'[u] # NoRequest PROVE Owned(u)'
            <4>1. rowLock'[u] = rowLock[u] /\ Owned(u) /\ rowLock[u] \in Requests
                BY <3>1, <3>6 DEF RowLocksInv, TypeInv
            <4>2. rowLock[u] # p
                BY <3>1, <4>1 DEF In, Settled
            <4> QED BY <2>1, <4>1, <4>2 DEF In
        <3>7. \A q \in Requests : Owns(q)' => Keeps(q)'
            BY <3>3, <3>5
        <3>8. \A u \in Trips : rowLock'[u] # NoRequest => Owned(u)'
            BY <3>4, <3>6
        <3> HIDE DEF Owns, Keeps, Owned
        <3> QED BY <3>7, <3>8, <1>3
    <2>4. CASE LockKey(p) \/ Passes(p)
        <3>1. rowLock' = rowLock /\ trip' = trip /\ req[p] # Idle /\ req[p].at \in Settled
            BY <2>4 DEF LockKey, Passes, Settled
        <3>2. PICK at \in Settled : req' = [req EXCEPT ![p] = [req[p] EXCEPT !.at = at]]
            BY <2>4 DEF LockKey, Passes, Settled, Goto, Put
        <3>3. /\ req'[p].op = req[p].op /\ req'[p].trip = req[p].trip /\ req'[p].seen = req[p].seen
              /\ req'[p].new = req[p].new /\ req'[p].at \in Settled /\ req'[p].op # "none"
            BY <3>1, <3>2, RequestTypes, BookingAssumption DEF TypeInv, Transactions, AllOps
        <3>4. req'[p] # Idle
            BY <3>3 DEF Idle
        <3>5. ASSUME NEW q \in Requests, Owns(q)' PROVE Keeps(q)'
            <4>1. Owns(q) /\ Keeps(q) /\ req'[q].op = req[q].op /\ req'[q].trip = req[q].trip
                  /\ req'[q].seen = req[q].seen /\ req'[q].new = req[q].new
                <5>1. CASE q = p
                    BY <3>1, <3>3, <3>5, <5>1 DEF In, RowLocksInv
                <5>2. CASE q # p
                    BY <2>1, <3>5, <5>2 DEF In, RowLocksInv
                <5> QED BY <5>1, <5>2
            <4> QED BY <3>1, <4>1 DEF Allowed, Retimed
        <3>6. ASSUME NEW t \in Trips, rowLock'[t] # NoRequest PROVE Owned(t)'
            <4>1. Owned(t) /\ rowLock[t] \in Requests
                BY <3>1, <3>6 DEF RowLocksInv, TypeInv
            <4> QED BY <2>1, <3>1, <3>3, <3>4, <4>1 DEF In
        <3> HIDE DEF Owns, Keeps, Owned
        <3> QED BY <3>5, <3>6, <1>3
    <2>5. CASE Commits(p) \/ Purges(p) \/ GivesUp(p)
        <3>1. /\ req'[p] = Idle
              /\ \A t \in Trips : rowLock'[t] = IF rowLock[t] = p THEN NoRequest ELSE rowLock[t]
            BY <2>5, FinishEnds DEF Commits, Purges, GivesUp, Rollback
        <3>2. ASSUME NEW q \in Requests \ {p}, Owns(q)' PROVE Keeps(q)'
            <4> DEFINE t == req[q].trip
            <4>1. Owns(q) /\ Keeps(q) /\ t \in Trips /\ trip[t].status # "ABSENT"
                <5>1. Owns(q) /\ Keeps(q) /\ t \in Trips
                    BY <2>1, <3>2, RequestTypes DEF In, RowLocksInv
                <5> QED BY <5>1 DEF Allowed, Updating, ActiveStatuses
            <4>2. rowLock'[t] = q
                BY <3>1, <4>1
            <4>3. trip'[t] = trip[t]
                <5>1. CASE GivesUp(p)
                    BY <5>1 DEF GivesUp, Rollback
                <5>2. CASE Purges(p)
                    BY <4>1, <5>2, BookingAssumption DEF Purges, TypeInv
                <5>3. CASE Commits(p)
                    <6>1. CASE req[p].trip # t
                        BY <4>1, <5>3, <6>1 DEF Commits, TypeInv
                    <6>2. CASE req[p].trip = t
                        <7>1. rowLock[t] = p
                            BY <4>1, <5>3, <6>2, CommitsInsertOrUpdate DEF Insertable
                        <7> QED BY <4>1, <7>1
                    <6> QED BY <6>1, <6>2
                <5> QED BY <2>5, <5>1, <5>2, <5>3
            <4> QED BY <2>1, <4>1, <4>2, <4>3 DEF Allowed, Retimed
        <3>3. ASSUME NEW t \in Trips, rowLock'[t] # NoRequest PROVE Owned(t)'
            BY <2>1, <3>1, <3>3 DEF RowLocksInv, In, TypeInv
        <3> QED BY <3>1, <3>2, <3>3 DEF RowLocksInv, In
    <2> QED BY <1>1, <2>2, <2>3, <2>4, <2>5 DEF Move
<1>2. CASE Replan \/ UNCHANGED vars
    <2>1. trip' = trip /\ rowLock' = rowLock /\ req' = req
        BY <1>2 DEF Replan, vars
    <2> QED BY <2>1 DEF RowLocksInv, In, Retimed
<1> QED BY <1>1, <1>2, StepsAreMoves

LEMMA LockInit == Init => LockInv
<1> SUFFICES ASSUME Init PROVE LockInv
    OBVIOUS
<1>1. KeysInv
    BY BookingAssumption DEF Init, KeysInv, In, Held
<1>2. RowLocksInv
    BY DEF Init, RowLocksInv, In
<1> QED BY <1>1, <1>2, ShapeInit DEF LockInv

LEMMA LockStep == LockInv /\ [Next]_vars => LockInv'
BY ShapeStep, KeysStep, RowLocksStep DEF LockInv

-----------------------------------------------------------------------------
(* Lock cycles.                                                            *)

\* Who waits, and is waited for, waits for an advisory lock.
LEMMA WaitersWaitForKeys ==
    ASSUME LockInv, NEW p \in Requests, NEW q \in Requests,
           ~ (req[q].op = "emptyReturn" /\ req[q].at = "write"),
           WaitsFor(p) = q, WaitsFor(q) # NoRequest
    PROVE  In(q, {"lock"})
<1> USE DEF LockInv, ShapeInv
<1>1. req[p] # Idle
    BY BookingAssumption DEF WaitsFor
<1>2. req[p] \in Transactions /\ req[p].trip \in Trips /\ req[p].at \in Stages
    BY <1>1, RequestTypes
<1>3. In(q, Settled)
    <2>1. ASSUME NEW t \in Trips, rowLock[t] = q PROVE In(q, Settled)
        BY <2>1, BookingAssumption DEF RowLocksInv
    <2>2. ASSUME NEW k \in Keys, advisory[k] = q PROVE In(q, Settled)
        <3>1. Held(q) # {}
            BY <2>2 DEF Held
        <3>2. req[q] # Idle /\ ~ In(q, {"row", "purge"})
            BY <3>1 DEF KeysInv
        <3> QED BY <3>2, RequestTypes DEF In, Stages, Settled
    <2>3. CASE req[p].at \in {"row", "purge"}
        BY <1>1, <1>2, <2>1, <2>3 DEF WaitsFor
    <2>4. CASE req[p].at = "lock"
        BY <1>1, <2>2, <2>4, NextKeyIsLeast DEF WaitsFor, In
    <2>5. CASE req[p].at \in {"check", "write"}
        <3>1. req[p].at = "write" /\ req[p].new.base # NoTrip /\ q = rowLock[req[p].new.base]
            BY <1>1, <2>5, BookingAssumption DEF WaitsFor
        <3>2. req[p].new.base \in Trips
            BY <1>1, <3>1, RequestTypes DEF Rows
        <3> QED BY <2>1, <3>1, <3>2
    <2> QED BY <1>2, <2>3, <2>4, <2>5 DEF Stages
<1>4. req[q].at # "check"
    BY <1>3 DEF WaitsFor, In
<1>5. req[q].at # "write"
    <2> SUFFICES ASSUME req[q].at = "write" PROVE FALSE
        OBVIOUS
    <2>1. req[q].new.version = 1 /\ req[q].new.base # NoTrip
        BY <1>3 DEF WaitsFor, In
    <2>2. Proper(req[q])
        BY <1>3 DEF In, RequestsInv
    <2> QED BY <2>1, <2>2 DEF Proper, Settled
<1> QED BY <1>3, <1>4, <1>5 DEF In, Settled

LEMMA OrderExcludesCycles == LockInv => CircleOnlyByReturn
<1> SUFFICES ASSUME LockInv,
                    NEW S \in SUBSET Requests, S # {},
                    \A p \in S : WaitsFor(p) \in S,
                    \A p \in S : ~ (req[p].op = "emptyReturn" /\ req[p].at = "write")
             PROVE  FALSE
    BY DEF CircleOnlyByReturn
<1> DEFINE T == {p \in S : In(p, {"lock"})}
<1>1. \A p \in S : WaitsFor(p) \in T
    <2> SUFFICES ASSUME NEW p \in S PROVE WaitsFor(p) \in T
        OBVIOUS
    <2>1. WaitsFor(p) \in S /\ WaitsFor(WaitsFor(p)) \in S /\ S \subseteq Requests
        OBVIOUS
    <2>2. WaitsFor(WaitsFor(p)) # NoRequest
        BY <2>1, BookingAssumption
    <2> QED BY <2>1, <2>2, WaitersWaitForKeys
<1>2. T # {} /\ T \subseteq Requests /\ IsFiniteSet(T)
    <2>1. T \in SUBSET Requests
        OBVIOUS
    <2> QED BY <1>1, <2>1, BookingAssumption, FS_Subset
<1>3. \A p \in T : NextKey(p) \in Nat
    BY NextKeyIsLeast DEF LockInv
<1> DEFINE rank == [p \in T |-> NextKey(p)]
<1>4. PICK p \in T : \A q \in T : NextKey(q) <= NextKey(p)
    <2>1. rank \in [T -> Int]
        BY <1>3
    <2> HIDE DEF T
    <2>2. PICK p \in T : \A q \in T : rank[q] <= rank[p]
        BY <1>2, <2>1, GreatestExists
    <2> QED BY <2>2
<1>5. PICK q \in T : q = WaitsFor(p)
    BY <1>1
<1>6. q = advisory[NextKey(p)]
    BY <1>5 DEF WaitsFor, In
<1>7. NextKey(p) \in Held(q)
    BY <1>6, NextKeyIsLeast DEF Held, LockInv
<1>8. NextKey(q) \in Missing(q)
    BY NextKeyIsLeast DEF LockInv
<1>9. NextKey(p) < NextKey(q)
    BY <1>2, <1>7, <1>8 DEF LockInv, KeysInv
<1> QED BY <1>3, <1>4, <1>9

\* Sorted locks: requests wait in a circle only through an empty return at its insert,
\* because whoever else waits and is waited for waits for a greater key than all it
\* holds.
THEOREM CirclesNeedReturns == Spec => []CircleOnlyByReturn
BY LockInit, LockStep, OrderExcludesCycles, PTL DEF Spec

-----------------------------------------------------------------------------
(* Lost updates.                                                           *)

\* A trip that is soft-deleted can only be hard-deleted, and that is final.
LEMMA DeletedStays ==
    ASSUME LockInv, NEW p \in Requests, Move(p), NEW t \in Trips
    PROVE  /\ trip[t].status = "SOFT_DELETED" => trip'[t] \in {trip[t], Purged}
           /\ trip[t] = Purged => trip'[t] = Purged
<1> USE DEF LockInv, ShapeInv
<1>1. CASE Opens(p) \/ ReadsRow(p) \/ LockKey(p) \/ Passes(p) \/ GivesUp(p)
    BY <1>1 DEF Opens, ReadsRow, LockKey, Passes, GivesUp, Rollback
<1>2. CASE Commits(p)
    <2>1. req[p].trip \in Trips /\ trip[req[p].trip].status \notin {"SOFT_DELETED", "PURGED"}
        BY <1>2, CommitsInsertOrUpdate DEF Insertable
    <2>2. Purged.status = "PURGED"
        BY DEF Purged, Absent
    <2> QED BY <1>2, <2>1, <2>2 DEF Commits, TypeInv
<1>3. CASE Purges(p)
    BY <1>3 DEF Purges, TypeInv
<1> QED BY <1>1, <1>2, <1>3 DEF Move

LEMMA PurgesStep ==
    ASSUME LockInv, PurgesInv, [Next]_vars
    PROVE  PurgesInv'
<1> USE DEF LockInv, ShapeInv
<1>1. ASSUME NEW p \in Requests, Move(p) PROVE PurgesInv'
    <2> SUFFICES ASSUME NEW q \in Requests, In(q, {"purge"})'
                 PROVE  \/ /\ trip'[req'[q].trip].status = "SOFT_DELETED"
                           /\ trip'[req'[q].trip].version = req'[q].seen
                        \/ trip'[req'[q].trip] = Purged
        BY DEF PurgesInv
    <2>1. CASE q # p
        <3>1. req'[q] = req[q] /\ In(q, {"purge"})
            BY <1>1, <2>1, MoveRequest DEF In
        <3>2. req[q].trip \in Trips
            BY <3>1, RequestTypes DEF In
        <3> QED BY <1>1, <3>1, <3>2, DeletedStays DEF PurgesInv
    <2>2. CASE q = p
        <3>1. Opens(p)
            <4>1. ~ ReadsRow(p)
                BY <2>2 DEF ReadsRow, Put, TypeInv, In
            <4>2. ~ LockKey(p) /\ ~ Passes(p)
                BY <2>2, RequestTypes DEF LockKey, Passes, Goto, Put, TypeInv, In, Transactions
            <4>3. ~ Commits(p) /\ ~ Purges(p) /\ ~ GivesUp(p)
                BY <2>2, FinishEnds DEF Commits, Purges, GivesUp, Rollback, In
            <4> QED BY <1>1, <4>1, <4>2, <4>3 DEF Move
        <3> QED BY <2>2, <3>1 DEF Opens, Put, TypeInv, In
    <2> QED BY <2>1, <2>2
<1>2. CASE Replan \/ UNCHANGED vars
    BY <1>2 DEF Replan, vars, PurgesInv, In
<1> QED BY <1>1, <1>2, StepsAreMoves

\* If-Match holds under concurrency: whatever is locked and awaited in between,
\* an update or a hard delete is committed on the version its client has seen.
THEOREM UpdatesAreNotLost == Spec => NoLostUpdate
<1>1. Init => LockInv /\ PurgesInv
    BY LockInit DEF Init, PurgesInv, In
<1>2. LockInv /\ PurgesInv /\ [Next]_vars => (LockInv /\ PurgesInv)'
    BY LockStep, PurgesStep
<1> DEFINE Seen == \A p \in Requests :
        LET t == req[p].trip
        IN  req[p] # Idle /\ req[p].op \notin {"create", "import", "fallback", "emptyReturn"}
              /\ req'[p] = Idle /\ trip'[t] # trip[t]
                  => trip[t].version = req[p].seen
<1>3. LockInv /\ PurgesInv /\ [Next]_vars => [Seen]_vars
    <2> SUFFICES ASSUME LockInv, PurgesInv, Next PROVE Seen
        OBVIOUS
    <2> USE DEF LockInv, ShapeInv
    <2>1. ASSUME NEW q \in Requests, Move(q), NEW p \in Requests,
                 req[p] # Idle, req[p].op \notin Inserting, req'[p] = Idle,
                 trip'[req[p].trip] # trip[req[p].trip]
          PROVE  trip[req[p].trip].version = req[p].seen
        <3>1. p = q
            BY <2>1, MoveRequest
        <3>2. CASE Commits(p)
            BY <2>1, <3>2, CommitsInsertOrUpdate
        <3>3. CASE Purges(p)
            <4>1. req[p].trip \in Trips /\ In(p, {"purge"})
                BY <3>3, RequestTypes DEF Purges, In
            <4>2. trip'[req[p].trip] = Purged
                BY <3>3, <4>1 DEF Purges, TypeInv
            <4> QED BY <2>1, <4>1, <4>2 DEF PurgesInv
        <3>4. CASE Opens(p) \/ ReadsRow(p) \/ LockKey(p) \/ Passes(p) \/ GivesUp(p)
            BY <2>1, <3>4 DEF Opens, ReadsRow, LockKey, Passes, GivesUp, Rollback
        <3> QED BY <2>1, <3>1, <3>2, <3>3, <3>4 DEF Move
    <2>2. CASE Replan
        BY <2>2 DEF Replan
    <2> QED BY <2>1, <2>2, StepsAreMoves DEF Inserting
<1>4. [][Seen]_vars => NoLostUpdate
    BY PTL DEF NoLostUpdate
<1> QED BY <1>1, <1>2, <1>3, <1>4, PTL DEF Spec

-----------------------------------------------------------------------------
(* Orphans.                                                                *)

\* What the moves other than commits and hard deletes do.
LEMMA OtherMoves ==
    ASSUME ShapeInv, NEW p \in Requests, Move(p), ~ Commits(p), ~ Purges(p)
    PROVE  /\ trip' = trip /\ audits' = audits /\ replanned' = replanned
           /\ Opens(p) \/ ReadsRow(p) \/ req'[p] = Idle
              \/ /\ LockKey(p) \/ Passes(p)
                 /\ In(p, Settled) /\ In(p, Settled)'
                 /\ req'[p].new = req[p].new /\ req'[p].trip = req[p].trip /\ req'[p].op = req[p].op
<1> USE DEF ShapeInv
<1>1. CASE LockKey(p) \/ Passes(p)
    <2>1. req[p] # Idle /\ req[p].at \in Settled /\ trip' = trip /\ audits' = audits
         /\ replanned' = replanned
        BY <1>1 DEF LockKey, Passes, Settled
    <2>2. PICK at \in Settled : req' = [req EXCEPT ![p] = [req[p] EXCEPT !.at = at]]
        BY <1>1 DEF LockKey, Passes, Settled, Goto, Put
    <2>3. /\ req'[p].at \in Settled /\ req'[p].new = req[p].new /\ req'[p].trip = req[p].trip
          /\ req'[p].op = req[p].op /\ req'[p].op # "none"
        BY <2>1, <2>2, RequestTypes, BookingAssumption DEF TypeInv, Transactions, AllOps
    <2> QED BY <1>1, <2>1, <2>3 DEF In, Idle
<1>2. CASE Opens(p) \/ ReadsRow(p)
    BY <1>2 DEF Opens, ReadsRow
<1>3. CASE GivesUp(p)
    BY <1>3, FinishEnds DEF GivesUp, Rollback
<1> QED BY <1>1, <1>2, <1>3 DEF Move

LEMMA OrphanStep ==
    ASSUME OrphanInv, [Next]_vars
    PROVE  BasesInv' /\ NoOrphan'
<1> USE DEF OrphanInv, LockInv, ShapeInv
<1>1. ASSUME NEW p \in Requests, Move(p) PROVE BasesInv' /\ NoOrphan'
    <2>1. \A q \in Requests \ {p} : req'[q] = req[q]
        BY <1>1, MoveRequest
    <2>2. \A q \in Requests : In(q, Settled) => req[q].new.base \in Trips \cup {NoTrip}
        BY RequestTypes DEF In, Rows
    <2>3. \A u \in Trips : trip[u].base \in Trips \cup {NoTrip}
        BY DEF TypeInv, Rows
    <2>4. CASE Commits(p) \/ Purges(p)
        <3> DEFINE t == req[p].trip
        <3>1. /\ \A u \in Trips \ {t} : trip'[u] = trip[u]
              /\ t \in Trips /\ trip'[t].status # "ABSENT"
              /\ req'[p] = Idle
            <4>1. CASE Commits(p)
                BY <4>1, CommitsInsertOrUpdate, FinishEnds, ZenonT(30) DEF Commits, Kept, TypeInv
            <4>2. CASE Purges(p)
                BY <4>2, RequestTypes, FinishEnds DEF Purges, Purged, Absent, TypeInv
            <4> QED BY <2>4, <4>1, <4>2
        <3>2. BasesInv'
            BY <2>1, <2>2, <3>1 DEF BasesInv, In
        <3>3. CASE Commits(p)
            <4>1. trip'[t] = req[p].new /\ Kept(req[p].new) /\ In(p, Settled)
                BY <3>1, <3>3, CommitsInsertOrUpdate DEF Commits, TypeInv, In, Settled
            <4>2. ASSUME NEW u \in Trips, trip'[u].base # NoTrip
                  PROVE  /\ trip'[u].base \in Trips
                         /\ trip[trip'[u].base].status \notin {"ABSENT", "PURGED"}
                <5>1. CASE u # t
                    BY <2>3, <3>1, <4>2, <5>1 DEF NoOrphan
                <5>2. CASE u = t /\ req[p].op \in Updating
                    BY <2>3, <3>1, <3>3, <4>1, <4>2, <5>2, CommitsInsertOrUpdate DEF NoOrphan, Inserting, Updating
                <5>3. CASE u = t /\ req[p].op \notin Updating
                    <6>1. Insertable(t, req[p].new)
                        BY <3>3, <5>3, CommitsInsertOrUpdate
                    <6> QED BY <2>2, <4>1, <4>2, <5>3, <6>1 DEF Insertable, BasesInv
                <5> QED BY <5>1, <5>2, <5>3
            <4>3. \A u \in Trips : trip[u].status \notin {"ABSENT", "PURGED"}
                                    => trip'[u].status \notin {"ABSENT", "PURGED"}
                BY <3>1, <4>1 DEF Kept
            <4>4. NoOrphan'
                BY <4>2, <4>3 DEF NoOrphan
            <4> QED BY <3>2, <4>4
        <3>4. CASE Purges(p)
            <4>1. trip'[t] = Purged /\ \A u \in Trips : trip[u].base # t
                BY <3>1, <3>4 DEF Purges, TypeInv
            <4>2. NoOrphan'
                BY <2>3, <3>1, <4>1 DEF NoOrphan, Purged, Absent
            <4> QED BY <3>2, <4>2
        <3> QED BY <2>4, <3>3, <3>4
    <2>5. CASE ~ Commits(p) /\ ~ Purges(p)
        <3>1. trip' = trip
            BY <1>1, <2>5, OtherMoves
        <3>2. In(p, Settled)' /\ req'[p].new.base # NoTrip => trip[req'[p].new.base].status # "ABSENT"
            <4>1. CASE Opens(p)
                BY <4>1 DEF Opens, Put, TypeInv, In
            <4>2. CASE ReadsRow(p)
                <5>1. req[p].trip \in Trips /\ req'[p].new.base = trip[req[p].trip].base
                    BY <4>2, RequestTypes DEF ReadsRow, Put, TypeInv
                <5> QED BY <5>1 DEF NoOrphan
            <4>3. CASE req'[p] = Idle
                BY <4>3 DEF In
            <4>4. CASE In(p, Settled) /\ req'[p].new = req[p].new
                BY <4>4 DEF BasesInv
            <4> QED BY <1>1, <2>5, <4>1, <4>2, <4>3, <4>4, OtherMoves
        <3>3. BasesInv'
            BY <2>1, <3>1, <3>2 DEF BasesInv, In
        <3>4. NoOrphan'
            BY <3>1 DEF NoOrphan
        <3> QED BY <3>3, <3>4
    <2> QED BY <2>4, <2>5
<1>2. CASE Replan \/ UNCHANGED vars
    BY <1>2 DEF Replan, vars, BasesInv, NoOrphan, In
<1> QED BY <1>1, <1>2, StepsAreMoves

\* The key-share lock and the foreign key: no hard delete takes the base of an empty
\* return away, however many of either are under way.
THEOREM NobodyOrphaned == Spec => []NoOrphan
<1>1. Init => OrphanInv
    <2>1. Init => BasesInv /\ NoOrphan
        BY DEF Init, BasesInv, NoOrphan, In, Absent
    <2> QED BY <2>1, LockInit DEF OrphanInv
<1>2. OrphanInv /\ [Next]_vars => OrphanInv'
    BY LockStep, OrphanStep DEF OrphanInv
<1>3. OrphanInv => NoOrphan
    BY DEF OrphanInv
<1> QED BY <1>1, <1>2, <1>3, PTL DEF Spec

-----------------------------------------------------------------------------
(* Double bookings.                                                        *)

LEMMA OverlapIsMutual ==
    ASSUME NEW a, NEW b, Overlap(a, b)
    PROVE  Overlap(b, a) /\ \E k \in a.crew : k \in b.crew
BY DEF Overlap

\* Two requests that are about to write completed trips after a check share no key.
LEMMA WritersShareNoKey ==
    ASSUME LockInv,
           NEW p \in Requests, In(p, {"write"}), req[p].op \in CheckedOps,
           NEW q \in Requests, In(q, {"write"}), req[q].op \in CheckedOps,
           p # q
    PROVE  ~ Overlap(req[p].new, req[q].new)
<1>1. ASSUME NEW r \in Requests, In(r, {"write"}), req[r].op \in CheckedOps
      PROVE  \A k \in req[r].new.crew : advisory[k] = r
    <2>1. Missing(r) = {}
        BY <1>1 DEF In, LockInv, KeysInv
    <2> QED BY <2>1 DEF Missing, Held
<1> QED BY <1>1, OverlapIsMutual

\* What a commit writes overlaps no other completed trip, unless its end or that of
\* the other has been planned anew.
LEMMA CommitsClear ==
    ASSUME BookingInv, NEW p \in Requests, Commits(p), req[p].new.status = "COMPLETED",
           NEW u \in Trips \ {req[p].trip}, trip[u].status = "COMPLETED",
           u \notin replanned, req[p].trip \notin replanned'
    PROVE  ~ Overlap(trip[u], req[p].new)
<1> USE DEF BookingInv, LockInv, ShapeInv
<1> DEFINE t == req[p].trip
           new == req[p].new
<1>1. In(p, {"write"}) /\ In(p, Settled) /\ t \in Trips /\ req[p].op \in Ops
    BY RequestTypes DEF Commits, In, Settled
<1>2. req[p].op \in CheckedOps \cup {"retime"}
    BY <1>1 DEF RequestsInv, Proper, In
<1>3. CASE req[p].op \in CheckedOps
    BY <1>1, <1>3 DEF WritesInv
<1>4. CASE req[p].op = "retime"
    <2>1. new.length = trip[t].length /\ t \notin replanned
        BY <1>4 DEF Commits
    <2>2. Retimed(trip[t], new)
        BY <1>1, <1>4 DEF RowLocksInv, Updating
    <2>3. ~ Overlap(trip[u], trip[t])
        BY <1>1, <2>1, <2>2 DEF OverlapOnlyByRetiming, Retimed
    <2> QED BY <2>1, <2>2, <2>3 DEF Overlap, End, Retimed
<1> QED BY <1>2, <1>3, <1>4

LEMMA BookingStep ==
    ASSUME BookingInv, [Next]_vars
    PROVE  WritesInv' /\ OverlapOnlyByRetiming'
<1> USE DEF BookingInv, LockInv, ShapeInv
<1>0. Purged.status = "PURGED"
    BY DEF Purged, Absent
<1>1. ASSUME NEW p \in Requests, Move(p) PROVE WritesInv' /\ OverlapOnlyByRetiming'
    <2>1. \A q \in Requests \ {p} : req'[q] = req[q]
        BY <1>1, MoveRequest
    <2>2. CASE Commits(p)
        <3>0. PICK t \in Trips : t = req[p].trip
            BY <2>2, CommitsInsertOrUpdate
        <3> DEFINE new == req[p].new
        <3>1. /\ trip' = [trip EXCEPT ![t] = new] /\ In(p, {"write"}) /\ req'[p] = Idle
              /\ trip'[t] = new /\ \A u \in Trips \ {t} : trip'[u] = trip[u]
            BY <2>2, <3>0, FinishEnds DEF Commits, In, TypeInv
        <3>2. ASSUME NEW u \in Trips \ {t}, new.status = "COMPLETED", trip[u].status = "COMPLETED",
                     u \notin replanned', t \notin replanned'
              PROVE  ~ Overlap(trip[u], new) /\ ~ Overlap(new, trip[u])
            <4>1. u \notin replanned
                BY <2>2, <3>0, <3>2 DEF Commits
            <4> QED BY <2>2, <3>0, <3>2, <4>1, CommitsClear, OverlapIsMutual
        <3>3. ASSUME NEW q \in Requests, In(q, {"write"})', req'[q].new.status = "COMPLETED",
                     req'[q].op \in CheckedOps,
                     NEW u \in Trips \ {req'[q].trip}, trip'[u].status = "COMPLETED",
                     u \notin replanned'
              PROVE  ~ Overlap(trip'[u], req'[q].new)
            <4>1. q # p /\ req'[q] = req[q] /\ In(q, {"write"})
                BY <2>1, <3>1, <3>3 DEF In
            <4>2. CASE u = t /\ req[p].op \in CheckedOps
                BY <3>1, <3>3, <4>1, <4>2, WritersShareNoKey
            <4>3. CASE u = t /\ req[p].op \notin CheckedOps
                <5>1. req[p].op = "retime"
                    BY <3>0, <3>1, <3>3, <4>3, RequestTypes DEF RequestsInv, Proper, In, Settled
                <5>2. /\ new.length = trip[t].length /\ t \notin replanned
                      /\ Retimed(trip[t], new)
                    BY <2>2, <3>0, <3>1, <3>3, <4>3, <5>1
                       DEF Commits, RowLocksInv, Updating, In, Settled
                <5>3. ~ Overlap(trip[t], req[q].new)
                    BY <3>1, <3>3, <4>1, <4>3, <5>2 DEF WritesInv, Retimed
                <5> QED BY <3>1, <4>1, <4>3, <5>2, <5>3 DEF Overlap, End, Retimed
            <4>4. CASE u # t
                <5>1. u \notin replanned /\ trip'[u] = trip[u]
                    BY <2>2, <3>0, <3>1, <3>3, <4>4 DEF Commits
                <5> QED BY <3>3, <4>1, <5>1 DEF WritesInv
            <4> QED BY <4>2, <4>3, <4>4
        <3>4. WritesInv'
            BY <3>3 DEF WritesInv
        <3>5. ASSUME NEW u \in Trips, NEW v \in Trips, u # v,
                     trip'[u].status = "COMPLETED", trip'[v].status = "COMPLETED",
                     u \notin replanned', v \notin replanned'
              PROVE  ~ Overlap(trip'[u], trip'[v])
            <4> HIDE DEF new
            <4>1. CASE u # t /\ v # t
                <5>1. u \notin replanned /\ v \notin replanned
                    BY <2>2, <3>0, <3>5, <4>1 DEF Commits
                <5> QED BY <3>1, <3>5, <4>1, <5>1 DEF OverlapOnlyByRetiming
            <4>2. CASE u = t \/ v = t
                BY <3>1, <3>2, <3>5, <4>2
            <4> QED BY <4>1, <4>2
        <3>6. OverlapOnlyByRetiming'
            BY <3>5 DEF OverlapOnlyByRetiming, Overlap, End
        <3> QED BY <3>4, <3>6
    <2>3. CASE Purges(p)
        <3>1. /\ req'[p] = Idle /\ replanned' = replanned
              /\ \A u \in Trips : trip'[u] \in {trip[u], Purged}
            BY <2>3, FinishEnds DEF Purges, TypeInv
        <3>2. WritesInv'
            BY <1>0, <2>1, <3>1 DEF WritesInv, In, Overlap, End
        <3>3. OverlapOnlyByRetiming'
            BY <1>0, <3>1 DEF OverlapOnlyByRetiming, Overlap, End
        <3> QED BY <3>2, <3>3
    <2>4. CASE ~ Commits(p) /\ ~ Purges(p)
        <3>1. trip' = trip /\ replanned' = replanned
            BY <1>1, <2>4, OtherMoves
        <3>2. ASSUME In(p, {"write"})', req'[p].new.status = "COMPLETED", req'[p].op \in CheckedOps,
                     NEW u \in Trips \ {req'[p].trip}, trip[u].status = "COMPLETED", u \notin replanned
              PROVE  ~ Overlap(trip[u], req'[p].new)
            <4>1. CASE Opens(p) \/ ReadsRow(p)
                <5>1. req'[p].at # "write"
                    BY <3>2, <4>1 DEF Opens, ReadsRow, Put, TypeInv, CheckedOps
                <5> QED BY <3>2, <5>1 DEF In
            <4>2. CASE LockKey(p)
                BY <3>2, <4>2, RequestTypes DEF LockKey, Goto, Put, TypeInv, In, Transactions
            <4>3. CASE Passes(p)
                <5>1. req'[p].new = req[p].new /\ req'[p].trip = req[p].trip
                    BY <4>3, RequestTypes DEF Passes, Goto, Put, TypeInv, Transactions
                <5> QED BY <3>2, <4>3, <5>1 DEF Passes, FindsOverlap, ActiveStatuses
            <4>4. CASE req'[p] = Idle
                BY <3>2, <4>4 DEF In
            <4> QED BY <1>1, <2>4, <4>1, <4>2, <4>3, <4>4, OtherMoves
        <3>3. WritesInv'
            BY <2>1, <3>1, <3>2 DEF WritesInv, In, Overlap, End
        <3>4. OverlapOnlyByRetiming'
            BY <3>1 DEF OverlapOnlyByRetiming, Overlap, End
        <3> QED BY <3>3, <3>4
    <2> QED BY <2>2, <2>3, <2>4
<1>2. CASE Replan \/ UNCHANGED vars
    BY <1>2 DEF Replan, vars, WritesInv, OverlapOnlyByRetiming, In, Overlap, End
<1> QED BY <1>1, <1>2, StepsAreMoves

\* Whatever is created, imported, approved, edited, rejected and deleted at a time,
\* two completed trips share a resource at once only if the end of one of them was
\* set anew by an edit of its time zone alone, the one edit that is not checked.
THEOREM OverlapNeedsRetiming == Spec => []OverlapOnlyByRetiming
<1>1. Init => BookingInv
    <2>1. Init => WritesInv /\ OverlapOnlyByRetiming
        BY DEF Init, WritesInv, OverlapOnlyByRetiming, In, Absent
    <2> QED BY <2>1, LockInit DEF BookingInv
<1>2. BookingInv /\ [Next]_vars => BookingInv'
    BY LockStep, BookingStep DEF BookingInv
<1>3. BookingInv => OverlapOnlyByRetiming
    BY DEF BookingInv
<1> QED BY <1>1, <1>2, <1>3, PTL DEF Spec

-----------------------------------------------------------------------------
(* Audit rows.                                                             *)

LEMMA PurgingIsFinite ==
    ASSUME NEW t
    PROVE  /\ Purging(t) \subseteq Requests /\ IsFiniteSet(Purging(t))
           /\ Cardinality(Purging(t)) \in Nat /\ Cardinality(Requests) \in Nat
           /\ Cardinality(Purging(t)) <= Cardinality(Requests)
<1>1. Purging(t) \subseteq Requests
    BY DEF Purging
<1> QED BY <1>1, BookingAssumption, FS_Subset, FS_CardinalityType

LEMMA FewerPurging ==
    ASSUME NEW t, Purging(t)' \subseteq Purging(t)
    PROVE  /\ Cardinality(Purging(t)') \in Nat
           /\ Cardinality(Purging(t)') <= Cardinality(Purging(t))
           /\ \A p \in Purging(t) : p \notin Purging(t)' =>
                  Cardinality(Purging(t)') <= Cardinality(Purging(t)) - 1
<1> DEFINE old == Purging(t)
           new == Purging(t)'
<1>1. IsFiniteSet(old) /\ Cardinality(old) \in Nat
    BY PurgingIsFinite
<1> HIDE DEF old, new
<1>2. new \subseteq old
    BY DEF old, new
<1>3. IsFiniteSet(new) /\ Cardinality(new) \in Nat /\ Cardinality(new) <= Cardinality(old)
    BY <1>1, <1>2, FS_Subset, FS_CardinalityType
<1>4. ASSUME NEW p \in old, p \notin new PROVE Cardinality(new) <= Cardinality(old) - 1
    <2>1. IsFiniteSet(old \ {p}) /\ Cardinality(old \ {p}) = Cardinality(old) - 1
        BY <1>1, <1>4, FS_RemoveElement
    <2>2. new \subseteq old \ {p}
        BY <1>2, <1>4
    <2> QED BY <2>1, <2>2, FS_Subset
<1> QED BY <1>3, <1>4 DEF old, new

LEMMA AuditsStep ==
    ASSUME LockInv, AuditsInv, [Next]_vars
    PROVE  AuditsInv'
<1> USE DEF LockInv, ShapeInv
<1>0. Purged.status = "PURGED" /\ Idle.op = "none"
    BY DEF Purged, Absent, Idle
<1>1. ASSUME NEW p \in Requests, Move(p) PROVE AuditsInv'
    <2>1. \A q \in Requests \ {p} : req'[q] = req[q]
        BY <1>1, MoveRequest
    <2>2. CASE Purges(p)
        <3>0. PICK t \in Trips : t = req[p].trip
            BY <2>2, RequestTypes DEF Purges
        <3>1. /\ req'[p] = Idle
              /\ trip' = [trip EXCEPT ![t] = Purged] /\ audits' = [audits EXCEPT ![t] = @ + 1]
              /\ req[p] # Idle /\ req[p].at = "purge"
            BY <2>2, <3>0, FinishEnds DEF Purges, Audited
        <3>2. \A u \in Trips : Purging(u)' \subseteq Purging(u)
            BY <1>0, <2>1, <3>1 DEF Purging
        <3>3. p \in Purging(t) /\ p \notin Purging(t)'
            BY <1>0, <3>0, <3>1 DEF Purging, RequestsInv, Proper
        <3>4. ASSUME NEW u \in Trips \ {t}
              PROVE  IF trip'[u] = Purged THEN audits'[u] + Cardinality(Purging(u)') <= Cardinality(Requests)
                                          ELSE audits'[u] = 0
            <4>1. trip'[u] = trip[u] /\ audits'[u] = audits[u] /\ audits[u] \in Nat
                BY <3>1 DEF TypeInv
            <4> QED BY <3>2, <4>1, FewerPurging, PurgingIsFinite DEF AuditsInv
        <3>5. trip'[t] = Purged /\ audits'[t] + Cardinality(Purging(t)') <= Cardinality(Requests)
            <4>1. trip'[t] = Purged /\ audits'[t] = audits[t] + 1 /\ audits[t] \in Nat
                BY <3>1 DEF TypeInv
            <4>2. /\ Cardinality(Purging(t)') \in Nat
                  /\ Cardinality(Purging(t)') <= Cardinality(Purging(t)) - 1
                BY <3>2, <3>3, FewerPurging
            <4>3. audits[t] + Cardinality(Purging(t)) <= Cardinality(Requests)
                BY PurgingIsFinite DEF AuditsInv
            <4> QED BY <4>1, <4>2, <4>3, PurgingIsFinite
        <3> QED BY <3>4, <3>5 DEF AuditsInv
    <2>3. CASE ~ Purges(p)
        <3>1. audits' = audits
            BY <1>1, <2>3, OtherMoves DEF Commits
        <3>2. ASSUME NEW u \in Trips, trip[u] = Purged
              PROVE  trip'[u] = Purged /\ Purging(u)' \subseteq Purging(u)
            <4>1. trip'[u] = Purged
                BY <1>1, <3>2, DeletedStays
            <4>2. p \in Purging(u)' => p \in Purging(u)
                <5>1. CASE Opens(p)
                    <6>1. /\ req'[p] \in Transactions /\ Proper(req'[p])
                          /\ req'[p].op = "hardDelete" => trip[req'[p].trip].status = "SOFT_DELETED"
                        BY <5>1 DEF Opens, Put, TypeInv, Proper
                    <6> QED BY <1>0, <3>2, <6>1 DEF Purging
                <5>2. CASE ReadsRow(p)
                    BY <5>2 DEF ReadsRow, Put, TypeInv, Purging, Updating
                <5>3. CASE req'[p] = Idle
                    BY <1>0, <5>3 DEF Purging
                <5>4. CASE req'[p].trip = req[p].trip /\ req'[p].op = req[p].op
                    BY <5>4 DEF Purging
                <5>5. CASE Commits(p)
                    BY <5>3, <5>5, FinishEnds DEF Commits
                <5> QED BY <1>1, <2>3, <5>1, <5>2, <5>3, <5>4, <5>5, OtherMoves
            <4> QED BY <2>1, <4>1, <4>2 DEF Purging
        <3>3. ASSUME NEW u \in Trips, trip[u] # Purged PROVE trip'[u] # Purged
            <4>1. CASE Commits(p)
                <5>1. req[p].new # Purged
                    BY <1>0, <4>1, CommitsInsertOrUpdate DEF Kept
                <5> QED BY <3>3, <4>1, <5>1 DEF Commits, TypeInv
            <4> QED BY <1>1, <2>3, <3>3, <4>1, OtherMoves
        <3>4. ASSUME NEW u \in Trips
              PROVE  IF trip'[u] = Purged THEN audits'[u] + Cardinality(Purging(u)') <= Cardinality(Requests)
                                          ELSE audits'[u] = 0
            <4>1. CASE trip[u] = Purged
                <5>1. audits[u] \in Nat /\ audits[u] + Cardinality(Purging(u)) <= Cardinality(Requests)
                    BY <4>1 DEF AuditsInv, TypeInv
                <5> QED BY <3>1, <3>2, <4>1, <5>1, FewerPurging, PurgingIsFinite
            <4>2. CASE trip[u] # Purged
                BY <3>1, <3>3, <4>2 DEF AuditsInv
            <4> QED BY <4>1, <4>2
        <3> QED BY <3>4 DEF AuditsInv
    <2> QED BY <2>2, <2>3
<1>2. CASE Replan \/ UNCHANGED vars
    <2>1. trip' = trip /\ audits' = audits /\ req' = req
        BY <1>2 DEF Replan, vars
    <2>2. \A t : Purging(t)' = Purging(t)
        BY <2>1 DEF Purging
    <2> QED BY <2>1, <2>2 DEF AuditsInv
<1> QED BY <1>1, <1>2, StepsAreMoves

\* The types, with a bound on the audit rows of a trip: no more of them than there
\* are requests, because after the first hard delete no further one can begin.
THEOREM TypeCorrect == Spec => []TypeOK
<1>1. Init => LockInv /\ AuditsInv
    <2>1. Init => AuditsInv
        BY DEF Init, AuditsInv, Absent, Purged
    <2> QED BY <2>1, LockInit
<1>2. LockInv /\ AuditsInv /\ [Next]_vars => (LockInv /\ AuditsInv)'
    BY LockStep, AuditsStep
<1>3. LockInv /\ AuditsInv => TypeOK
    <2> SUFFICES ASSUME LockInv, AuditsInv PROVE TypeOK
        OBVIOUS
    <2>1. \A t \in Trips : audits[t] \in 0 .. Cardinality(Requests)
        BY PurgingIsFinite DEF AuditsInv, LockInv, ShapeInv, TypeInv
    <2>2. audits \in [Trips -> 0 .. Cardinality(Requests)]
        BY <2>1 DEF LockInv, ShapeInv, TypeInv
    <2> QED BY <2>2, RequestTypes DEF TypeOK, LockInv, ShapeInv, TypeInv
<1> QED BY <1>1, <1>2, <1>3, PTL DEF Spec
=============================================================================
