----------------------------- MODULE DriverProofs ------------------------------
(***************************************************************************)
(* The drivers and the import of drivers.                                  *)
(*                                                                         *)
(* For any drivers, requests, jobs and workers, one phone number or code   *)
(* finds at most one driver, nothing is written to the outbox of a driver  *)
(* after its tombstone, an import job says of itself what its rows say,    *)
(* and what it reports of a row is in the table.                           *)
(***************************************************************************)
EXTENDS DriverImport, FiniteSetTheorems, TLAPS

Columns == {"status", "deleted", "code"}

\* What requests set: never the status of a soft delete without its mark, and the mark is
\* only taken away by what activates.
Puts ==
    [code: Codes \cup {Nothing}]
        \cup [status: {"ACTIVE", "INACTIVE"}]
        \cup [status: {"ACTIVE"}, deleted: {FALSE}]
        \cup [status: {"CANCELLED"}, deleted: {TRUE}]

Stages ==
    {Idle}
        \cup [op: {"patch", "inactivate", "reactivate", "softDelete"}, driver: Drivers, put: Puts]
        \cup [op: {"hardDelete"}, driver: Drivers]
        \cup [op: {"merge"}, at: {"one", "both"}, source: Drivers, target: Drivers]

\* The columns of a row that an import inserts, and those it may set of one that is there.
Inserted == [status: {"ACTIVE", "INACTIVE"}, deleted: {FALSE}, code: Codes]
Partial(put) ==
    /\ DOMAIN put \subseteq Columns
    /\ "status" \in DOMAIN put => put["status"] \in {"ACTIVE", "INACTIVE"}
    /\ "deleted" \in DOMAIN put => put \in Inserted
    /\ "code" \in DOMAIN put => put \in Inserted

DriverTypes ==
    /\ schema \in Schemas
    /\ driver \in [Drivers -> Rows \cup {Nothing}]
    /\ DOMAIN flushed \subseteq Drivers
    /\ last \in [Drivers -> {"none", "change", "tombstone"}]
    /\ lock \in [Drivers -> Requests \cup {"worker", Nothing}]
    /\ request \in [Requests -> Stages]

\* The constraints hold of what is committed, and will hold once the import commits.
TableInv == Allowed(driver)

\* No row is cancelled without the mark of a soft delete.
Marked(row) == row.status = "CANCELLED" => row.deleted
MarkInv == \A d \in Drivers : Exists(d) => Marked(driver[d])

\* A tombstone is of a row that is gone.
TombstoneInv == \A d \in Drivers : last[d] = "tombstone" => ~Exists(d)

\* What an import has flushed it holds: so no tombstone comes in between.
FlushInv ==
    \A d \in DOMAIN flushed :
        /\ lock[d] = "worker" /\ last[d] # "tombstone"
        /\ Partial(flushed[d])
        /\ ~Exists(d) => flushed[d] \in Inserted

\* A merge holds its source to the end.
First(r) == IF r.source < r.target THEN r.source ELSE r.target
Holds(p, d) == lock[d] = p /\ Exists(d)
MergeInv ==
    \A p \in Requests : request[p].op = "merge" =>
        /\ Holds(p, First(request[p]))
        /\ request[p].at = "both" => Holds(p, request[p].source)

DriversInv == DriverTypes /\ TableInv /\ MarkInv /\ TombstoneInv /\ FlushInv /\ MergeInv

\* The worker's results are those of the first rows of the job; it has heard of drivers
\* it has flushed.
WorkerStages ==
    {Resting, [at |-> "poisoned"]}
        \cup [at: {"row"}, results: Seq(Results), heard: SUBSET Drivers]
WorkerInv ==
    /\ \/ worker \in WorkerStages
       \/ /\ worker.at = "flush" /\ worker.results \in Seq(Results) /\ worker.heard \in SUBSET Drivers
          /\ worker.driver \in Drivers /\ worker.result \in {"CREATED", "UPDATED"}
          /\ Partial(worker.put) /\ (worker.result = "CREATED" => worker.put \in Inserted)
          /\ Len(worker.results) < Len(job.rows)
    /\ worker.at \in {"row", "flush"} =>
          worker.heard \subseteq DOMAIN flushed /\ Len(worker.results) <= Len(job.rows)

JobInv ==
    /\ job \in [status: JobStatuses, rows: Jobs \cup {<<>>}, results: Seq(Results), success: Nat, failed: Nat]
    /\ job.status # "none" => job.rows \in Jobs
    /\ job.status \in {"none", "PENDING", "RUNNING"} =>
          job.results = <<>> /\ job.success = 0 /\ job.failed = 0
    /\ JobTellsTheTruth

IInv == DriversInv /\ WorkerInv /\ JobInv

-----------------------------------------------------------------------------
(* Rows and columns.                                                       *)

LEMMA OverFields ==
    ASSUME NEW put, NEW row, DOMAIN put \subseteq Columns, DOMAIN row = Columns
    PROVE  LET Field(c) == IF c \in DOMAIN put THEN put[c] ELSE row[c]
           IN  Over(put, row) = [status |-> Field("status"), deleted |-> Field("deleted"),
                                 code |-> Field("code")]
<1> DEFINE Field(c) == IF c \in DOMAIN put THEN put[c] ELSE row[c]
<1>1. DOMAIN put \cup DOMAIN row = {"status", "deleted", "code"}
    BY DEF Columns
<1>2. Over(put, row) = [c \in {"status", "deleted", "code"} |-> Field(c)]
    BY <1>1 DEF Over
<1> QED BY <1>2

LEMMA RowColumns ==
    ASSUME NEW row
    PROVE  /\ row \in Rows => DOMAIN row = Columns
           /\ row \in Inserted => DOMAIN row = Columns /\ row \in Rows /\ Marked(row)
BY DEF Rows, Inserted, Columns, Statuses, Marked

\* What a request sets keeps a row one, and its mark.
LEMMA PutOver ==
    ASSUME NEW put \in Puts, NEW row \in Rows
    PROVE  Over(put, row) \in Rows /\ (Marked(row) => Marked(Over(put, row)))
<1>1. DOMAIN put \subseteq Columns /\ DOMAIN row = Columns
    BY DEF Puts, Rows, Columns
<1> DEFINE Field(c) == IF c \in DOMAIN put THEN put[c] ELSE row[c]
<1>2. Over(put, row) = [status |-> Field("status"), deleted |-> Field("deleted"), code |-> Field("code")]
    BY <1>1, OverFields
<1>3. /\ Field("status") \in Statuses /\ Field("deleted") \in BOOLEAN
      /\ Field("code") \in Codes \cup {Nothing}
      /\ Marked(row) => (Field("status") = "CANCELLED" => Field("deleted"))
    <2>1. CASE put \in [code: Codes \cup {Nothing}]
        BY <2>1 DEF Rows, Statuses, Marked
    <2>2. CASE put \in [status: {"ACTIVE", "INACTIVE"}]
        BY <2>2 DEF Rows, Statuses, Marked
    <2>3. CASE put \in [status: {"ACTIVE"}, deleted: {FALSE}] \cup [status: {"CANCELLED"}, deleted: {TRUE}]
        BY <2>3 DEF Rows, Statuses, Marked
    <2> QED BY <2>1, <2>2, <2>3 DEF Puts
<1> HIDE DEF Field
<1> QED BY <1>2, <1>3 DEF Rows, Marked

\* And so does what the import sets.
LEMMA PartialOver ==
    ASSUME NEW put, Partial(put), NEW row \in Rows
    PROVE  Over(put, row) \in Rows /\ (Marked(row) => Marked(Over(put, row)))
<1>1. DOMAIN put \subseteq Columns /\ DOMAIN row = Columns
    BY DEF Partial, Rows, Columns
<1> DEFINE Field(c) == IF c \in DOMAIN put THEN put[c] ELSE row[c]
<1>2. Over(put, row) = [status |-> Field("status"), deleted |-> Field("deleted"), code |-> Field("code")]
    BY <1>1, OverFields
<1>3. /\ Field("status") \in Statuses /\ Field("deleted") \in BOOLEAN
      /\ Field("code") \in Codes \cup {Nothing}
      /\ Marked(row) => (Field("status") = "CANCELLED" => Field("deleted"))
    <2>1. CASE put \in Inserted
        BY <2>1 DEF Inserted, Rows, Statuses
    <2>2. CASE put \notin Inserted
        BY <2>2 DEF Partial, Rows, Statuses, Marked
    <2> QED BY <2>1, <2>2
<1> HIDE DEF Field
<1> QED BY <1>2, <1>3 DEF Rows, Marked

\* A row that is flushed again.
LEMMA PartialTwice ==
    ASSUME NEW put, Partial(put), NEW columns, Partial(columns)
    PROVE  /\ Partial(Over(put, columns))
           /\ columns \in Inserted => Over(put, columns) \in Inserted
<1> DEFINE Field(c) == IF c \in DOMAIN put THEN put[c] ELSE columns[c]
           both == Over(put, columns)
<1>1. /\ DOMAIN both = DOMAIN put \cup DOMAIN columns
      /\ \A c \in DOMAIN both : both[c] = Field(c)
    BY DEF Over
<1>2. CASE put \in Inserted \/ columns \in Inserted
    <2>1. /\ DOMAIN put \cup DOMAIN columns = {"status", "deleted", "code"}
          /\ Field("status") \in {"ACTIVE", "INACTIVE"} /\ Field("deleted") \in {FALSE}
          /\ Field("code") \in Codes
        <3>1. CASE put \in Inserted
            BY <3>1 DEF Inserted, Partial, Columns
        <3>2. CASE put \notin Inserted
            <4>1. columns \in Inserted /\ "deleted" \notin DOMAIN put /\ "code" \notin DOMAIN put
                BY <1>2, <3>2 DEF Partial
            <4> QED BY <4>1 DEF Inserted, Partial, Columns
        <3> QED BY <3>1, <3>2
    <2>2. both = [status |-> Field("status"), deleted |-> Field("deleted"), code |-> Field("code")]
        <3>1. both = [c \in {"status", "deleted", "code"} |-> Field(c)]
            BY <2>1 DEF Over
        <3> QED BY <3>1
    <2> HIDE DEF Field, both
    <2>3. both \in Inserted
        BY <2>1, <2>2 DEF Inserted
    <2>4. Partial(both)
        BY <2>3 DEF Partial, Inserted, Columns
    <2> QED BY <2>3, <2>4 DEF both
<1>3. CASE put \notin Inserted /\ columns \notin Inserted
    <2>1. DOMAIN put \subseteq {"status"} /\ DOMAIN columns \subseteq {"status"}
        BY <1>3 DEF Partial, Columns
    <2>2. "status" \in DOMAIN both => both["status"] \in {"ACTIVE", "INACTIVE"}
        BY <1>1 DEF Partial
    <2> QED BY <1>1, <1>3, <2>1, <2>2 DEF Partial, Columns
<1> QED BY <1>2, <1>3

-----------------------------------------------------------------------------
(* Tables.                                                                 *)

\* What the import sees, and will commit.
LEMMA SeenFields ==
    ASSUME DriverTypes, FlushInv, MarkInv
    PROVE  /\ Seen \in [Drivers -> Rows \cup {Nothing}]
           /\ \A d \in Drivers :
                 /\ Seen[d] # Nothing <=> Exists(d) \/ d \in DOMAIN flushed
                 /\ Seen[d] # Nothing => Marked(Seen[d])
                 /\ d \notin DOMAIN flushed => Seen[d] = driver[d]
<1> SUFFICES ASSUME NEW d \in Drivers
             PROVE  /\ Seen[d] \in Rows \cup {Nothing}
                    /\ Seen[d] # Nothing <=> Exists(d) \/ d \in DOMAIN flushed
                    /\ Seen[d] # Nothing => Marked(Seen[d])
                    /\ d \notin DOMAIN flushed => Seen[d] = driver[d]
    BY DEF Seen, With
<1>1. Seen[d] = IF d \notin DOMAIN flushed THEN driver[d]
                ELSE IF driver[d] = Nothing THEN flushed[d] ELSE Over(flushed[d], driver[d])
    BY DEF Seen, With
<1>2. CASE d \notin DOMAIN flushed
    BY <1>1, <1>2 DEF DriverTypes, MarkInv, Exists
<1>3. CASE d \in DOMAIN flushed /\ driver[d] = Nothing
    BY <1>1, <1>3, RowColumns, NothingIsNoRow DEF FlushInv, Exists
<1>4. CASE d \in DOMAIN flushed /\ driver[d] # Nothing
    <2>1. driver[d] \in Rows /\ Marked(driver[d]) /\ Partial(flushed[d])
        BY <1>4 DEF DriverTypes, MarkInv, FlushInv, Exists
    <2>2. Seen[d] \in Rows /\ Marked(Seen[d])
        BY <1>1, <1>4, <2>1, PartialOver
    <2> QED BY <1>4, <2>2, NothingIsNoRow DEF Exists
<1> QED BY <1>2, <1>3, <1>4

\* Taking rows away, or marking them, breaks no constraint.
LEMMA FitsFewer ==
    ASSUME NEW table, NEW fewer, DOMAIN fewer = DOMAIN table, Fits(table),
           \A d \in DOMAIN table :
              fewer[d] \in {table[d], Nothing}
                 \/ /\ table[d] # Nothing /\ fewer[d].status = table[d].status
                    /\ fewer[d].code = table[d].code /\ (table[d].deleted => fewer[d].deleted)
    PROVE  Fits(fewer)
<1>1. \A d \in DOMAIN table : fewer[d] # Nothing =>
         /\ table[d] # Nothing /\ fewer[d].status = table[d].status /\ fewer[d].code = table[d].code
         /\ Indexed(fewer[d]) => Indexed(table[d])
    BY DEF Indexed
<1> QED BY <1>1 DEF Fits

LEMMA TableKept ==
    ASSUME UNCHANGED schema, Fits(driver'), Fits(With(driver', flushed'))
    PROVE  TableInv'
BY DEF TableInv, Allowed, Fits, With, Indexed, Admitted

LEMMA WithNothing ==
    ASSUME DriverTypes, NEW columns, DOMAIN columns = {}
    PROVE  With(driver, columns) = driver
BY DEF With, DriverTypes

-----------------------------------------------------------------------------
(* Requests.                                                               *)

LEMMA RequestFields ==
    ASSUME DriverTypes, NEW p \in Requests
    PROVE  /\ request[p] # Idle => request[p].op # "idle"
           /\ request[p].op \in {"patch", "inactivate", "reactivate", "softDelete"} =>
                 request[p].driver \in Drivers /\ request[p].put \in Puts
           /\ request[p].op = "hardDelete" => request[p].driver \in Drivers
           /\ request[p].op = "merge" => request[p].source \in Drivers /\ request[p].target \in Drivers
<1>1. request[p] \in Stages
    BY DEF DriverTypes
<1> QED BY <1>1 DEF Stages, Idle

\* The merges of those whose locks and rows stay.
LEMMA MergesKept ==
    ASSUME DriversInv, NEW P \in SUBSET Requests,
           \A q \in P : request'[q] = request[q],
           \A q \in Requests \ P : request'[q].op # "merge",
           \A d \in Drivers : lock[d] \in P => lock'[d] = lock[d] /\ (Exists(d) => Exists(d)')
    PROVE  MergeInv'
<1> SUFFICES ASSUME NEW p \in P, request[p].op = "merge"
             PROVE  /\ Holds(p, First(request[p]))'
                    /\ request[p].at = "both" => Holds(p, request[p].source)'
    BY DEF MergeInv, Holds, First
<1>1. request[p].source \in Drivers /\ First(request[p]) \in Drivers
    BY RequestFields DEF DriversInv, First
<1>2. \A d \in Drivers : Holds(p, d) => Holds(p, d)'
    BY DEF Holds
<1>3. /\ Holds(p, First(request[p]))
      /\ request[p].at = "both" => Holds(p, request[p].source)
    BY DEF DriversInv, MergeInv
<1>4. request'[p] = request[p]
    OBVIOUS
<1> QED BY <1>1, <1>2, <1>3, <1>4 DEF First, Holds

\* A step of a request that changes no row and no lock of the import.
LEMMA RowsKept ==
    ASSUME DriversInv, UNCHANGED <<schema, driver, flushed, last>>, MergeInv',
           lock' \in [Drivers -> Requests \cup {"worker", Nothing}], request' \in [Requests -> Stages],
           \A d \in Drivers : lock[d] = "worker" => lock'[d] = "worker"
    PROVE  DriversInv'
<1>1. DriverTypes'
    BY DEF DriversInv, DriverTypes
<1>2. TableInv' /\ MarkInv' /\ TombstoneInv'
    BY DEF DriversInv, TableInv, Allowed, Fits, With, Indexed, Admitted, MarkInv, TombstoneInv, Exists
<1>3. FlushInv'
    BY DEF DriversInv, DriverTypes, FlushInv, Exists
<1> QED BY <1>1, <1>2, <1>3 DEF DriversInv

\* The end of a transaction gives back its own locks only.
LEMMA FinishFields ==
    ASSUME DriversInv, NEW p \in Requests, Finish(p)
    PROVE  /\ lock' \in [Drivers -> Requests \cup {"worker", Nothing}]
           /\ request' \in [Requests -> Stages]
           /\ \A d \in Drivers : lock[d] # p => lock'[d] = lock[d]
           /\ request'[p].op = "idle" /\ \A q \in Requests \ {p} : request'[q] = request[q]
<1>1. Idle \in Stages /\ Idle.op = "idle"
    BY DEF Stages, Idle
<1> QED BY <1>1 DEF DriversInv, DriverTypes, Finish

LEMMA LoadKeeps ==
    ASSUME DriversInv, NEW p \in Requests, NEW op \in {"patch", "inactivate", "reactivate", "softDelete"},
           NEW d \in Drivers, NEW put \in Puts, Load(p, op, d, put)
    PROVE  DriversInv'
<1>1. [op |-> op, driver |-> d, put |-> put] \in Stages
    BY DEF Stages
<1>2. /\ request' \in [Requests -> Stages] /\ request'[p].op # "merge"
      /\ \A q \in Requests \ {p} : request'[q] = request[q]
    BY <1>1 DEF Load, DriversInv, DriverTypes
<1>3. MergeInv'
    <2>1. Requests \ {p} \in SUBSET Requests
        OBVIOUS
    <2> QED BY <1>2, <2>1, MergesKept DEF Load, Exists
<1> QED BY <1>2, <1>3, RowsKept DEF Load, DriversInv, DriverTypes

\* The commit of a request that sets columns.
LEMMA SaveKeeps ==
    ASSUME DriversInv, NEW p \in Requests, NEW op \in {"patch", "inactivate", "reactivate", "softDelete"},
           Save(p, op)
    PROVE  DriversInv'
<1> DEFINE d == request[p].driver
           row == Over(request[p].put, driver[d])
<1>1. /\ d \in Drivers /\ request[p].put \in Puts /\ lock[d] = Nothing /\ Exists(d)
      /\ Allowed(driver') /\ driver' = [driver EXCEPT ![d] = row]
      /\ last' = [last EXCEPT ![d] = "change"] /\ Finish(p) /\ UNCHANGED <<schema, flushed>>
    BY RequestFields DEF DriversInv, Save, Update, Changed, Announce
<1>2. driver[d] \in Rows /\ Marked(driver[d])
    BY <1>1 DEF DriversInv, DriverTypes, MarkInv, Exists
<1>3. row \in Rows /\ Marked(row) /\ row # Nothing
    BY <1>1, <1>2, PutOver, NothingIsNoRow
<1> HIDE DEF row, d
<1>4. /\ driver' \in [Drivers -> Rows \cup {Nothing}] /\ driver'[d] = row
      /\ \A e \in Drivers \ {d} : driver'[e] = driver[e] /\ last'[e] = last[e]
      /\ last' \in [Drivers -> {"none", "change", "tombstone"}] /\ last'[d] = "change"
    BY <1>1, <1>3 DEF DriversInv, DriverTypes
<1>5. \A e \in Drivers : Exists(e)' <=> Exists(e)
    BY <1>1, <1>3, <1>4 DEF Exists
<1>6. d \notin DOMAIN flushed
    BY <1>1, DriversAssumption DEF DriversInv, FlushInv
<1>7. DriverTypes'
    BY <1>1, <1>4, FinishFields DEF DriversInv, DriverTypes
<1>8. TableInv'
    BY <1>1 DEF TableInv, Allowed, Fits, With, Indexed, Admitted
<1>9. MarkInv'
    BY <1>3, <1>4, <1>5 DEF DriversInv, MarkInv, Exists
<1>10. TombstoneInv'
    BY <1>4, <1>5 DEF DriversInv, TombstoneInv
<1>11. FlushInv'
    <2> SUFFICES ASSUME NEW e \in DOMAIN flushed
                 PROVE  /\ lock'[e] = "worker" /\ last'[e] # "tombstone" /\ Partial(flushed[e])
                        /\ ~Exists(e)' => flushed[e] \in Inserted
        BY <1>1 DEF FlushInv, Partial
    <2>1. e \in Drivers \ {d} /\ lock[e] = "worker" /\ last[e] # "tombstone"
        BY <1>6 DEF DriversInv, DriverTypes, FlushInv
    <2>2. lock'[e] = "worker"
        BY <1>1, <2>1, FinishFields, DriversAssumption
    <2> QED BY <1>4, <1>5, <2>1, <2>2 DEF DriversInv, FlushInv
<1>12. MergeInv'
    <2>1. Requests \ {p} \in SUBSET Requests /\ request'[p].op # "merge"
          /\ \A q \in Requests \ {p} : request'[q] = request[q]
        BY <1>1, FinishFields
    <2>2. \A e \in Drivers : lock[e] \in Requests \ {p} => lock'[e] = lock[e]
        BY <1>1, FinishFields
    <2> QED BY <1>5, <2>1, <2>2, MergesKept
<1> QED BY <1>7, <1>8, <1>9, <1>10, <1>11, <1>12 DEF DriversInv

\* A hard delete takes the row away, and no import holds it.
LEMMA HardDeleteKeeps ==
    ASSUME DriversInv, NEW p \in Requests, HardDeleteDriver(p)
    PROVE  DriversInv'
<1>1. CASE request[p] = Idle /\ UNCHANGED <<schema, driver, flushed, last, lock>>
            /\ \E d \in Drivers : request' = [request EXCEPT ![p] = [op |-> "hardDelete", driver |-> d]]
    <2>1. PICK d \in Drivers : request' = [request EXCEPT ![p] = [op |-> "hardDelete", driver |-> d]]
        BY <1>1
    <2>2. [op |-> "hardDelete", driver |-> d] \in Stages
        BY DEF Stages
    <2>3. /\ request' \in [Requests -> Stages] /\ request'[p].op # "merge"
          /\ \A q \in Requests \ {p} : request'[q] = request[q]
        BY <2>1, <2>2 DEF DriversInv, DriverTypes
    <2>4. MergeInv'
        <3>1. Requests \ {p} \in SUBSET Requests
            OBVIOUS
        <3> QED BY <1>1, <2>3, <3>1, MergesKept DEF Exists
    <2> QED BY <1>1, <2>3, <2>4, RowsKept DEF DriversInv, DriverTypes
<1>2. CASE /\ request[p].op = "hardDelete" /\ lock[request[p].driver] = Nothing
           /\ driver' = [driver EXCEPT ![request[p].driver] = Nothing]
           /\ last' = [last EXCEPT ![request[p].driver] = "tombstone"]
           /\ Finish(p) /\ UNCHANGED <<schema, flushed>>
    <2> DEFINE d == request[p].driver
    <2>1. d \in Drivers /\ d \notin DOMAIN flushed /\ lock[d] = Nothing
        BY <1>2, RequestFields, DriversAssumption DEF DriversInv, FlushInv
    <2> HIDE DEF d
    <2>2. /\ driver' \in [Drivers -> Rows \cup {Nothing}] /\ driver'[d] = Nothing
          /\ \A e \in Drivers \ {d} : driver'[e] = driver[e] /\ last'[e] = last[e]
          /\ last' \in [Drivers -> {"none", "change", "tombstone"}]
        BY <1>2, <2>1 DEF DriversInv, DriverTypes, d
    <2>3. DriverTypes'
        BY <1>2, <2>2, FinishFields DEF DriversInv, DriverTypes
    <2>4. TableInv'
        <3>1. Fits(driver) /\ Fits(Seen)
            BY DEF DriversInv, TableInv, Allowed, Seen
        <3>2. Fits(driver')
            BY <2>2, <3>1, FitsFewer DEF DriversInv, DriverTypes
        <3>3. \A e \in Drivers : With(driver', flushed)[e] \in {Seen[e], Nothing}
            BY <2>1, <2>2 DEF With, Seen
        <3>4. Fits(With(driver', flushed))
            <4>1. DOMAIN Seen = Drivers /\ DOMAIN With(driver', flushed) = Drivers
                BY DEF Seen, With
            <4> QED BY <3>1, <3>3, <4>1, FitsFewer
        <3> QED BY <1>2, <3>2, <3>4, TableKept
    <2>5. MarkInv' /\ TombstoneInv'
        BY <2>2 DEF DriversInv, MarkInv, TombstoneInv, Exists
    <2>6. FlushInv'
        <3> SUFFICES ASSUME NEW e \in DOMAIN flushed
                     PROVE  /\ lock'[e] = "worker" /\ last'[e] # "tombstone" /\ Partial(flushed[e])
                            /\ ~Exists(e)' => flushed[e] \in Inserted
            BY <1>2 DEF FlushInv, Partial
        <3>1. e \in Drivers \ {d} /\ lock[e] = "worker" /\ last[e] # "tombstone"
            BY <2>1 DEF DriversInv, DriverTypes, FlushInv
        <3>2. lock'[e] = "worker"
            BY <1>2, <3>1, FinishFields, DriversAssumption
        <3> QED BY <2>2, <3>1, <3>2 DEF DriversInv, FlushInv, Exists
    <2>7. MergeInv'
        <3>1. Requests \ {p} \in SUBSET Requests /\ request'[p].op # "merge"
              /\ \A q \in Requests \ {p} : request'[q] = request[q]
            BY <1>2, FinishFields
        <3>2. \A e \in Drivers : lock[e] \in Requests \ {p} =>
                 lock'[e] = lock[e] /\ (Exists(e) => Exists(e)')
            BY <1>2, <2>1, <2>2, FinishFields, DriversAssumption DEF Exists
        <3> QED BY <3>1, <3>2, MergesKept
    <2> QED BY <2>3, <2>4, <2>5, <2>6, <2>7 DEF DriversInv
<1> QED BY <1>1, <1>2 DEF HardDeleteDriver, Buried, Announce

LEMMA MergeKeeps ==
    ASSUME DriversInv, NEW p \in Requests, MergeDrivers(p)
    PROVE  DriversInv'
<1>1. ASSUME NEW source \in Drivers, NEW target \in Drivers, request[p] = Idle,
             LockRow(p, IF source < target THEN source ELSE target),
             request' = [request EXCEPT ![p] = [op |-> "merge", at |-> "one", source |-> source,
                                                target |-> target]],
             UNCHANGED <<schema, driver, flushed, last>>
      PROVE  DriversInv'
    <2> DEFINE first == IF source < target THEN source ELSE target
    <2>1. first \in Drivers /\ lock[first] = Nothing /\ Exists(first) /\ lock' = [lock EXCEPT ![first] = p]
        BY <1>1 DEF LockRow
    <2>2. [op |-> "merge", at |-> "one", source |-> source, target |-> target] \in Stages
        BY DEF Stages
    <2> HIDE DEF first
    <2>3. /\ request' \in [Requests -> Stages]
          /\ request'[p] = [op |-> "merge", at |-> "one", source |-> source, target |-> target]
          /\ \A q \in Requests \ {p} : request'[q] = request[q]
        BY <1>1, <2>2 DEF DriversInv, DriverTypes
    <2>4. /\ lock' \in [Drivers -> Requests \cup {"worker", Nothing}] /\ lock'[first] = p
          /\ \A e \in Drivers \ {first} : lock'[e] = lock[e]
        BY <2>1 DEF DriversInv, DriverTypes
    <2>5. MergeInv'
        <3> SUFFICES ASSUME NEW q \in Requests, request'[q].op = "merge"
                     PROVE  /\ Holds(q, First(request[q]))'
                            /\ request'[q].at = "both" => Holds(q, request[q].source)'
            BY DEF MergeInv
        <3>1. CASE q = p
            <4>1. Holds(p, first)'
                BY <1>1, <2>1, <2>4 DEF Holds, Exists
            <4>2. request'[p].at # "both" /\ First(request'[p]) = first
                BY <2>3 DEF First, first
            <4> QED BY <3>1, <4>1, <4>2 DEF First, Holds
        <3>2. CASE q # p
            <4>1. request'[q] = request[q] /\ request[q].source \in Drivers /\ request[q].target \in Drivers
                BY <2>3, <3>2, RequestFields DEF DriversInv
            <4>2. \A e \in Drivers : lock[e] = q => lock'[e] = q
                BY <2>1, <2>4, DriversAssumption
            <4>3. \A e \in Drivers : Holds(q, e) => Holds(q, e)'
                BY <1>1, <4>2 DEF Holds, Exists
            <4>4. /\ Holds(q, First(request[q]))
                  /\ request[q].at = "both" => Holds(q, request[q].source)
                BY <4>1 DEF DriversInv, MergeInv
            <4> QED BY <4>1, <4>3, <4>4 DEF First, Holds
        <3> QED BY <3>1, <3>2
    <2> QED BY <1>1, <2>1, <2>3, <2>4, <2>5, RowsKept, DriversAssumption
<1>2. CASE /\ request[p].op = "merge" /\ request[p].at = "one"
           /\ LockRow(p, IF request[p].source < request[p].target THEN request[p].target ELSE request[p].source)
           /\ request' = [request EXCEPT ![p].at = "both"]
           /\ UNCHANGED <<schema, driver, flushed, last>>
    <2> DEFINE first == IF request[p].source < request[p].target THEN request[p].source ELSE request[p].target
               second == IF request[p].source < request[p].target THEN request[p].target ELSE request[p].source
    <2>1. /\ request[p].source \in Drivers /\ request[p].target \in Drivers
          /\ lock[second] = Nothing /\ Exists(second) /\ lock' = [lock EXCEPT ![second] = p]
          /\ lock[first] = p /\ Exists(first)
        BY <1>2, RequestFields DEF DriversInv, MergeInv, Holds, First, LockRow
    <2>2. first \in Drivers /\ second \in Drivers /\ request[p].source \in {first, second}
        BY <2>1
    <2>3. request[p] \in [op: {"merge"}, at: {"one", "both"}, source: Drivers, target: Drivers]
        BY <1>2 DEF DriversInv, DriverTypes, Stages, Idle
    <2>4. /\ request' \in [Requests -> Stages] /\ request'[p].source = request[p].source
          /\ request'[p].target = request[p].target
          /\ \A q \in Requests \ {p} : request'[q] = request[q]
        <3>1. [request[p] EXCEPT !.at = "both"] \in Stages
            BY <2>3 DEF Stages
        <3>2. request' = [request EXCEPT ![p] = [request[p] EXCEPT !.at = "both"]]
            BY <1>2
        <3> QED BY <2>3, <3>1, <3>2 DEF DriversInv, DriverTypes
    <2> HIDE DEF first, second
    <2>6. /\ lock' \in [Drivers -> Requests \cup {"worker", Nothing}] /\ lock'[second] = p
          /\ \A e \in Drivers \ {second} : lock'[e] = lock[e]
        BY <2>1, <2>2 DEF DriversInv, DriverTypes
    <2>7. MergeInv'
        <3> SUFFICES ASSUME NEW q \in Requests, request'[q].op = "merge"
                     PROVE  /\ Holds(q, First(request[q]))'
                            /\ request'[q].at = "both" => Holds(q, request[q].source)'
            BY DEF MergeInv
        <3>1. CASE q = p
            <4>1. \A e \in {first, second} : lock'[e] = p /\ Exists(e)'
                BY <1>2, <2>1, <2>2, <2>6 DEF Exists
            <4>2. First(request'[p]) = first /\ request'[p].source \in {first, second}
                BY <2>2, <2>4 DEF First, first
            <4> QED BY <3>1, <4>1, <4>2 DEF First, Holds
        <3>2. CASE q # p
            <4>1. request'[q] = request[q] /\ request[q].source \in Drivers /\ request[q].target \in Drivers
                BY <2>4, <3>2, RequestFields DEF DriversInv
            <4>2. \A e \in Drivers : lock[e] = q => lock'[e] = q
                BY <2>1, <2>6, DriversAssumption
            <4>3. \A e \in Drivers : Holds(q, e) => Holds(q, e)'
                BY <1>2, <4>2 DEF Holds, Exists
            <4>4. /\ Holds(q, First(request[q]))
                  /\ request[q].at = "both" => Holds(q, request[q].source)
                BY <4>1 DEF DriversInv, MergeInv
            <4> QED BY <4>1, <4>3, <4>4 DEF First, Holds
        <3> QED BY <3>1, <3>2
    <2> QED BY <1>2, <2>1, <2>4, <2>6, <2>7, RowsKept, DriversAssumption
<1>3. CASE /\ request[p].op = "merge" /\ request[p].at = "both"
           /\ driver' = [driver EXCEPT ![request[p].source].deleted = TRUE]
           /\ last' = [last EXCEPT ![request[p].source] = "change"]
           /\ Finish(p) /\ UNCHANGED <<schema, flushed>>
    <2> DEFINE d == request[p].source
               row == [driver[d] EXCEPT !.deleted = TRUE]
    <2>1. d \in Drivers /\ lock[d] = p /\ Exists(d) /\ driver[d] \in Rows
        BY <1>3, RequestFields DEF DriversInv, DriverTypes, MergeInv, Holds, Exists
    <2>2. /\ row \in Rows /\ Marked(row) /\ row # Nothing /\ row.status = driver[d].status
          /\ row.code = driver[d].code /\ row.deleted
        BY <2>1, NothingIsNoRow DEF Rows, Marked
    <2>3. d \notin DOMAIN flushed
        BY <2>1, DriversAssumption DEF DriversInv, FlushInv
    <2>4. driver' = [driver EXCEPT ![d] = row]
        BY <1>3
    <2>5. last' = [last EXCEPT ![d] = "change"]
        BY <1>3
    <2> HIDE DEF row, d
    <2>6. /\ driver' \in [Drivers -> Rows \cup {Nothing}] /\ driver'[d] = row
          /\ \A e \in Drivers \ {d} : driver'[e] = driver[e] /\ last'[e] = last[e]
          /\ last' \in [Drivers -> {"none", "change", "tombstone"}] /\ last'[d] = "change"
        BY <2>1, <2>2, <2>4, <2>5 DEF DriversInv, DriverTypes
    <2>7. \A e \in Drivers : Exists(e)' <=> Exists(e)
        BY <2>1, <2>2, <2>6 DEF Exists
    <2>8. DriverTypes'
        BY <1>3, <2>6, FinishFields DEF DriversInv, DriverTypes
    <2>9. TableInv'
        <3>1. Fits(driver) /\ Fits(Seen)
            BY DEF DriversInv, TableInv, Allowed, Seen
        <3>2. Fits(driver')
            BY <2>1, <2>2, <2>6, <3>1, FitsFewer DEF DriversInv, DriverTypes, Exists
        <3>3. /\ \A e \in Drivers \ {d} : With(driver', flushed)[e] = Seen[e]
              /\ With(driver', flushed)[d] = row /\ Seen[d] = driver[d]
            BY <2>1, <2>3, <2>6 DEF With, Seen
        <3>4. Fits(With(driver', flushed))
            <4>1. DOMAIN Seen = Drivers /\ DOMAIN With(driver', flushed) = Drivers
                BY DEF Seen, With
            <4>2. \A e \in Drivers :
                     With(driver', flushed)[e] \in {Seen[e], Nothing}
                        \/ /\ Seen[e] # Nothing /\ With(driver', flushed)[e].status = Seen[e].status
                           /\ With(driver', flushed)[e].code = Seen[e].code
                           /\ (Seen[e].deleted => With(driver', flushed)[e].deleted)
                BY <2>1, <2>2, <3>3 DEF Exists
            <4> HIDE DEF Seen
            <4> QED BY <3>1, <4>1, <4>2, FitsFewer
        <3> QED BY <1>3, <3>2, <3>4, TableKept
    <2>10. MarkInv' /\ TombstoneInv'
        BY <2>2, <2>6, <2>7 DEF DriversInv, MarkInv, TombstoneInv, Exists
    <2>11. FlushInv'
        <3> SUFFICES ASSUME NEW e \in DOMAIN flushed
                     PROVE  /\ lock'[e] = "worker" /\ last'[e] # "tombstone" /\ Partial(flushed[e])
                            /\ ~Exists(e)' => flushed[e] \in Inserted
            BY <1>3 DEF FlushInv, Partial
        <3>1. e \in Drivers \ {d} /\ lock[e] = "worker" /\ last[e] # "tombstone"
            BY <2>3 DEF DriversInv, DriverTypes, FlushInv
        <3>2. lock'[e] = "worker"
            BY <1>3, <3>1, FinishFields, DriversAssumption
        <3> QED BY <2>6, <2>7, <3>1, <3>2 DEF DriversInv, FlushInv
    <2>12. MergeInv'
        <3>1. Requests \ {p} \in SUBSET Requests /\ request'[p].op # "merge"
              /\ \A q \in Requests \ {p} : request'[q] = request[q]
            BY <1>3, FinishFields
        <3>2. \A e \in Drivers : lock[e] \in Requests \ {p} => lock'[e] = lock[e]
            BY <1>3, FinishFields
        <3> QED BY <2>7, <3>1, <3>2, MergesKept
    <2> QED BY <2>8, <2>9, <2>10, <2>11, <2>12 DEF DriversInv
<1> QED BY <1>1, <1>2, <1>3 DEF MergeDrivers, Announce

LEMMA AbandonKeeps ==
    ASSUME DriversInv, NEW p \in Requests, Abandon(p)
    PROVE  DriversInv'
<1>1. MergeInv'
    <2>1. Requests \ {p} \in SUBSET Requests /\ request'[p].op # "merge"
          /\ \A q \in Requests \ {p} : request'[q] = request[q]
        BY FinishFields DEF Abandon
    <2>2. \A e \in Drivers : lock[e] \in Requests \ {p} => lock'[e] = lock[e]
        BY FinishFields DEF Abandon
    <2> QED BY <2>1, <2>2, MergesKept DEF Abandon, Exists
<1> QED BY <1>1, RowsKept, FinishFields, DriversAssumption DEF Abandon

LEMMA RequestKeeps ==
    ASSUME DriversInv, NEW p \in Requests, RequestStep(p)
    PROVE  DriversInv'
<1>1. CASE PatchDriver(p)
    <2>1. \A code \in Codes \cup {Nothing} : [code |-> code] \in Puts
        BY DEF Puts
    <2> QED BY <1>1, <2>1, LoadKeeps, SaveKeeps DEF PatchDriver
<1>2. CASE InactivateDriver(p)
    <2>1. [status |-> "INACTIVE"] \in Puts
        BY DEF Puts
    <2> QED BY <1>2, <2>1, LoadKeeps, SaveKeeps DEF InactivateDriver
<1>3. CASE ReactivateDriver(p)
    <2>1. \A row : Reactivation(row) \in Puts
        BY DEF Puts, Reactivation
    <2> QED BY <1>3, <2>1, LoadKeeps, SaveKeeps DEF ReactivateDriver
<1>4. CASE SoftDeleteDriver(p)
    <2>1. \A row : Cancellation(row) \in Puts
        BY DEF Puts, Cancellation
    <2> QED BY <1>4, <2>1, LoadKeeps, SaveKeeps DEF SoftDeleteDriver
<1> QED BY <1>1, <1>2, <1>3, <1>4, HardDeleteKeeps, MergeKeeps, AbandonKeeps DEF RequestStep

\* A new row is one that nobody has an event of.
LEMMA CreateKeeps ==
    ASSUME DriversInv, CreateDriver
    PROVE  DriversInv'
<1>1. PICK d \in Drivers, code \in Codes \cup {Nothing} :
         /\ Fresh(d) /\ driver' = [driver EXCEPT ![d] = [status |-> "ACTIVE", deleted |-> FALSE, code |-> code]]
         /\ Allowed(driver') /\ last' = [last EXCEPT ![d] = "change"]
         /\ UNCHANGED <<schema, flushed, lock, request>>
    BY DEF CreateDriver, Changed, Announce
<1> DEFINE row == [status |-> "ACTIVE", deleted |-> FALSE, code |-> code]
<1>2. row \in Rows /\ Marked(row) /\ row # Nothing
    <2>1. row \in Rows /\ Marked(row)
        BY DEF Rows, Statuses, Marked
    <2> QED BY <2>1, NothingIsNoRow
<1>3. driver' = [driver EXCEPT ![d] = row]
    BY <1>1
<1> HIDE DEF row
<1>4. /\ driver' \in [Drivers -> Rows \cup {Nothing}] /\ driver'[d] = row
      /\ \A e \in Drivers \ {d} : driver'[e] = driver[e] /\ last'[e] = last[e]
      /\ last' \in [Drivers -> {"none", "change", "tombstone"}] /\ last'[d] = "change"
    BY <1>1, <1>2, <1>3 DEF DriversInv, DriverTypes
<1>5. DriverTypes'
    BY <1>1, <1>4 DEF DriversInv, DriverTypes
<1>6. TableInv'
    BY <1>1, TableKept DEF Allowed
<1>7. MarkInv' /\ TombstoneInv'
    BY <1>2, <1>4 DEF DriversInv, MarkInv, TombstoneInv, Exists
<1>8. FlushInv'
    <2>1. \A e \in DOMAIN flushed : e \in Drivers \ {d}
        BY <1>1 DEF DriversInv, DriverTypes, Fresh
    <2> QED BY <1>1, <1>4, <2>1 DEF DriversInv, FlushInv, Exists, Partial
<1>9. MergeInv'
    <2>1. Requests \in SUBSET Requests /\ \A e \in Drivers : Exists(e) => Exists(e)'
        BY <1>2, <1>4 DEF Exists
    <2> QED BY <1>1, <2>1, MergesKept
<1> QED BY <1>5, <1>6, <1>7, <1>8, <1>9 DEF DriversInv

-----------------------------------------------------------------------------
(* The import.                                                             *)

\* The end of the import's transaction gives back its locks only.
LEMMA WorkerLocks ==
    ASSUME DriversInv, lock' = [d \in Drivers |-> IF lock[d] = "worker" THEN Nothing ELSE lock[d]]
    PROVE  /\ lock' \in [Drivers -> Requests \cup {"worker", Nothing}]
           /\ \A d \in Drivers : lock[d] \in Requests => lock'[d] = lock[d]
BY DriversAssumption DEF DriversInv, DriverTypes

\* A driver that an import is about to flush has no tombstone.
LEMMA FlushKeeps ==
    ASSUME DriversInv, WorkerInv, FlushRow
    PROVE  DriversInv' /\ DOMAIN flushed' = DOMAIN flushed \cup {worker.driver}
<1> DEFINE d == worker.driver
           columns == IF d \in DOMAIN flushed THEN Over(worker.put, flushed[d]) ELSE worker.put
<1>1. /\ worker.at = "flush" /\ lock[d] \in {Nothing, "worker"}
      /\ worker.result = "UPDATED" => Seen[d] # Nothing
      /\ worker.result = "CREATED" => Fresh(d)
      /\ flushed' = Over([e \in {d} |-> columns], flushed)
      /\ Fits(With(driver, flushed')) /\ lock' = [lock EXCEPT ![d] = "worker"]
      /\ UNCHANGED <<schema, driver, last, request>>
    BY DEF FlushRow
<1>2. /\ d \in Drivers /\ worker.result \in {"CREATED", "UPDATED"} /\ Partial(worker.put)
      /\ worker.result = "CREATED" => worker.put \in Inserted
    BY <1>1 DEF WorkerInv, WorkerStages, Resting
<1>3. /\ Partial(columns) /\ (~Exists(d) => columns \in Inserted) /\ last[d] # "tombstone"
    <2>1. CASE d \in DOMAIN flushed
        <3>1. Partial(flushed[d]) /\ (~Exists(d) => flushed[d] \in Inserted) /\ last[d] # "tombstone"
            BY <2>1 DEF DriversInv, FlushInv
        <3> QED BY <1>2, <2>1, <3>1, PartialTwice
    <2>2. CASE d \notin DOMAIN flushed /\ worker.result = "UPDATED"
        <3>1. Exists(d)
            BY <1>1, <1>2, <2>2, SeenFields DEF DriversInv
        <3> QED BY <1>2, <2>2, <3>1 DEF DriversInv, TombstoneInv
    <2>3. CASE d \notin DOMAIN flushed /\ worker.result = "CREATED"
        BY <1>1, <1>2, <2>3 DEF Fresh
    <2> QED BY <1>2, <2>1, <2>2, <2>3
<1> HIDE DEF columns
<1>4. /\ DOMAIN flushed' = DOMAIN flushed \cup {d} /\ flushed'[d] = columns
      /\ \A e \in DOMAIN flushed \ {d} : flushed'[e] = flushed[e]
    BY <1>1 DEF Over
<1> HIDE DEF d
<1>5. /\ lock' \in [Drivers -> Requests \cup {"worker", Nothing}] /\ lock'[d] = "worker"
      /\ \A e \in Drivers \ {d} : lock'[e] = lock[e]
    BY <1>1, <1>2 DEF DriversInv, DriverTypes
<1>6. DriverTypes'
    BY <1>1, <1>2, <1>4, <1>5 DEF DriversInv, DriverTypes
<1>7. TableInv'
    <2>1. Fits(driver)
        BY DEF DriversInv, TableInv, Allowed
    <2> QED BY <1>1, <2>1, TableKept
<1>8. MarkInv' /\ TombstoneInv'
    BY <1>1 DEF DriversInv, MarkInv, TombstoneInv, Exists
<1>9. FlushInv'
    <2> SUFFICES ASSUME NEW e \in DOMAIN flushed'
                 PROVE  /\ lock'[e] = "worker" /\ last'[e] # "tombstone" /\ Partial(flushed'[e])
                        /\ ~Exists(e)' => flushed'[e] \in Inserted
        BY DEF FlushInv, Partial
    <2>1. CASE e = d
        BY <1>1, <1>3, <1>4, <1>5, <2>1 DEF Exists
    <2>2. CASE e # d
        <3>1. e \in DOMAIN flushed /\ e \in Drivers /\ flushed'[e] = flushed[e]
            BY <1>4, <2>2 DEF DriversInv, DriverTypes
        <3> QED BY <1>1, <1>5, <2>2, <3>1 DEF DriversInv, FlushInv, Exists
    <2> QED BY <2>1, <2>2
<1>10. MergeInv'
    <2>1. \A e \in Drivers : lock[e] \in Requests => lock'[e] = lock[e]
        BY <1>1, <1>5, DriversAssumption
    <2> QED BY <1>1, <2>1, MergesKept DEF Exists
<1> QED BY <1>4, <1>6, <1>7, <1>8, <1>9, <1>10 DEF DriversInv, d

LEMMA RollBackKeeps ==
    ASSUME DriversInv, RollBackImport
    PROVE  DriversInv'
<1>1. /\ DOMAIN flushed' = {} /\ UNCHANGED <<schema, driver, last, request>>
      /\ lock' \in [Drivers -> Requests \cup {"worker", Nothing}]
      /\ \A e \in Drivers : lock[e] \in Requests => lock'[e] = lock[e]
    BY WorkerLocks DEF RollBackImport
<1>2. DriverTypes' /\ FlushInv' /\ MarkInv' /\ TombstoneInv'
    BY <1>1 DEF DriversInv, DriverTypes, FlushInv, MarkInv, TombstoneInv, Exists
<1>3. TableInv'
    <2>1. Fits(driver) /\ With(driver, flushed') = driver
        BY <1>1, WithNothing DEF DriversInv, TableInv, Allowed
    <2> QED BY <1>1, <2>1, TableKept
<1>4. MergeInv'
    BY <1>1, MergesKept DEF Exists
<1> QED BY <1>2, <1>3, <1>4 DEF DriversInv

LEMMA CommitKeeps ==
    ASSUME DriversInv, WorkerInv, CommitJob
    PROVE  DriversInv' /\ \A d \in Drivers : last[d] = "tombstone" => last'[d] = "tombstone"
<1>1. /\ DOMAIN flushed' = {} /\ UNCHANGED <<schema, request>> /\ driver' = Seen
      /\ last' = [d \in Drivers |-> IF d \in worker.heard THEN "change" ELSE last[d]]
      /\ lock' \in [Drivers -> Requests \cup {"worker", Nothing}]
      /\ \A e \in Drivers : lock[e] \in Requests => lock'[e] = lock[e]
      /\ worker.heard \subseteq DOMAIN flushed
    BY WorkerLocks DEF CommitJob, WorkerInv
<1>2. /\ Seen \in [Drivers -> Rows \cup {Nothing}]
      /\ \A d \in Drivers :
            /\ Seen[d] # Nothing <=> Exists(d) \/ d \in DOMAIN flushed
            /\ Seen[d] # Nothing => Marked(Seen[d])
    BY SeenFields DEF DriversInv
<1>3. DriverTypes' /\ FlushInv' /\ MarkInv'
    BY <1>1, <1>2 DEF DriversInv, DriverTypes, FlushInv, MarkInv, Exists
<1>4. TableInv'
    <2>1. Fits(driver')
        BY <1>1 DEF DriversInv, TableInv, Allowed, Seen
    <2>2. With(driver', flushed') = driver'
        BY <1>1, <1>2 DEF With
    <2> QED BY <1>1, <2>1, <2>2, TableKept
<1>5. TombstoneInv' /\ \A d \in Drivers : last[d] = "tombstone" => last'[d] = "tombstone"
    <2> SUFFICES ASSUME NEW d \in Drivers
                 PROVE  /\ last'[d] = "tombstone" => driver'[d] = Nothing
                        /\ last[d] = "tombstone" => last'[d] = "tombstone"
        BY DEF TombstoneInv, Exists
    <2>1. last[d] = "tombstone" => ~Exists(d) /\ d \notin DOMAIN flushed
        BY DEF DriversInv, TombstoneInv, FlushInv
    <2> QED BY <1>1, <1>2, <2>1
<1>6. MergeInv'
    <2>1. \A d \in Drivers : Exists(d) => Exists(d)'
        BY <1>1, <1>2 DEF Exists
    <2> QED BY <1>1, <2>1, MergesKept
<1> QED BY <1>3, <1>4, <1>5, <1>6 DEF DriversInv

LEMMA DriversInit0 ==
    ASSUME Init
    PROVE  DriversInv
<1>1. DriverTypes
    BY DEF Init, DriversInit, DriverTypes, Stages, Idle
<1>2. TableInv
    <2>1. With(driver, flushed) = driver
        BY <1>1, WithNothing DEF Init, DriversInit
    <2> QED BY <2>1 DEF Init, DriversInit, TableInv, Allowed, Fits
<1>3. MarkInv /\ TombstoneInv /\ FlushInv /\ MergeInv
    BY DEF Init, DriversInit, MarkInv, TombstoneInv, FlushInv, MergeInv, Exists, Idle
<1> QED BY <1>1, <1>2, <1>3 DEF DriversInv

\* Each step keeps what holds of the drivers, and no event comes after a tombstone.
LEMMA DriversStep ==
    ASSUME DriversInv, WorkerInv, [Next]_vars
    PROVE  DriversInv' /\ \A d \in Drivers : last[d] = "tombstone" => last'[d] = "tombstone"
<1> DEFINE Silent == \A d \in Drivers : last[d] = "tombstone" => last'[d] = "tombstone"
<1>1. CASE CreateDriver
    <2>1. Silent
        BY <1>1 DEF CreateDriver, Changed, Announce, Fresh
    <2> QED BY <1>1, <2>1, CreateKeeps
<1>2. ASSUME NEW p \in Requests, RequestStep(p) PROVE DriversInv' /\ Silent
    <2>1. last \in [Drivers -> {"none", "change", "tombstone"}]
        BY DEF DriversInv, DriverTypes
    <2>2. ASSUME NEW op \in {"patch", "inactivate", "reactivate", "softDelete"}, Save(p, op) PROVE Silent
        <3>1. last' = [last EXCEPT ![request[p].driver] = "change"] /\ Exists(request[p].driver)
            BY <2>2 DEF Save, Changed, Announce
        <3> QED BY <2>1, <3>1 DEF DriversInv, TombstoneInv
    <2>3. ASSUME HardDeleteDriver(p) PROVE Silent
        BY <2>1, <2>3 DEF HardDeleteDriver, Buried, Announce
    <2>4. ASSUME MergeDrivers(p) PROVE Silent
        <3>1. \/ UNCHANGED last
              \/ /\ last' = [last EXCEPT ![request[p].source] = "change"]
                 /\ request[p].op = "merge" /\ request[p].at = "both"
            BY <2>4 DEF MergeDrivers, Announce
        <3>2. request[p].op = "merge" /\ request[p].at = "both" => Exists(request[p].source)
            BY DEF DriversInv, MergeInv, Holds
        <3> QED BY <2>1, <3>1, <3>2 DEF DriversInv, TombstoneInv
    <2>5. ASSUME Abandon(p) PROVE Silent
        BY <2>5 DEF Abandon
    <2>6. ASSUME PatchDriver(p) \/ InactivateDriver(p) \/ ReactivateDriver(p) \/ SoftDeleteDriver(p) PROVE Silent
        <3>1. UNCHANGED last
                 \/ \E op \in {"patch", "inactivate", "reactivate", "softDelete"} : Save(p, op)
            BY <2>6 DEF PatchDriver, InactivateDriver, ReactivateDriver, SoftDeleteDriver, Load
        <3> QED BY <2>2, <3>1
    <2>7. Silent
        BY <1>2, <2>3, <2>4, <2>5, <2>6 DEF RequestStep
    <2> QED BY <1>2, <2>7, RequestKeeps
<1>3. CASE FlushRow
    BY <1>3, FlushKeeps DEF FlushRow
<1>4. CASE CommitJob
    BY <1>4, CommitKeeps
<1>5. CASE FlushFails \/ Die
    BY <1>5, RollBackKeeps DEF FlushFails, Die, RollBackImport
<1>6. CASE UNCHANGED driverVars
    <2>1. UNCHANGED <<schema, driver, flushed, last, lock, request>>
        BY <1>6 DEF driverVars
    <2>2. MergeInv' /\ DriverTypes'
        BY <2>1 DEF DriversInv, MergeInv, Holds, Exists, DriverTypes
    <2> QED BY <2>1, <2>2, RowsKept DEF DriversInv, DriverTypes
<1>7. CreateImportJob \/ ClaimJob \/ LookUpRow \/ FailJob \/ UNCHANGED vars => UNCHANGED driverVars
    BY DEF CreateImportJob, ClaimJob, LookUpRow, FailJob, vars
<1> QED BY <1>1, <1>2, <1>3, <1>4, <1>5, <1>6, <1>7 DEF Next, WorkerStep

\* The job ends with the counts of its rows.
LEMMA CountsAreThose ==
    ASSUME NEW rows \in Jobs, NEW results \in Seq(Results), Len(results) = Len(rows)
    PROVE  /\ Succeeded(results) = Cardinality({i \in DOMAIN rows : results[i] \in {"CREATED", "UPDATED"}})
           /\ Succeeded(results) \in Nat /\ Succeeded(results) <= Len(results)
           /\ rows # <<>> /\ Len(rows) \in Nat \ {0}
<1> DEFINE Good == {i \in DOMAIN results : results[i] # "FAILED"}
<1>1. rows \in Seq(ImportRows) /\ rows # <<>> /\ Len(rows) \in Nat \ {0} /\ DOMAIN rows = 1 .. Len(rows)
    BY ImportAssumption
<1>2. DOMAIN results = 1 .. Len(results) /\ \A i \in DOMAIN results : results[i] \in Results
    OBVIOUS
<1>3. Good = {i \in DOMAIN rows : results[i] \in {"CREATED", "UPDATED"}}
    BY <1>1, <1>2 DEF Results
<1>4. IsFiniteSet(1 .. Len(results)) /\ Cardinality(1 .. Len(results)) = Len(results)
    <2>1. 1 \in Int /\ Len(results) \in Int /\ ~(1 > Len(results)) /\ Len(results) - 1 + 1 = Len(results)
        BY <1>1
    <2>2. /\ IsFiniteSet(1 .. Len(results))
          /\ Cardinality(1 .. Len(results)) = IF 1 > Len(results) THEN 0 ELSE Len(results) - 1 + 1
        BY <2>1, FS_Interval
    <2> QED BY <2>1, <2>2
<1>5. Good \in SUBSET (1 .. Len(results))
    BY <1>2
<1>6. Cardinality(Good) <= Len(results) /\ IsFiniteSet(Good)
    BY <1>4, <1>5, FS_Subset
<1>7. Cardinality(Good) \in Nat
    BY <1>6, FS_CardinalityType
<1> QED BY <1>1, <1>3, <1>6, <1>7 DEF Succeeded

LEMMA WorkerStages1 ==
    ASSUME WorkerInv
    PROVE  /\ worker.at \in {"idle", "poisoned", "row", "flush"}
           /\ worker.at = "idle" <=> worker = Resting
           /\ worker.at \in {"row", "flush"} =>
                 /\ worker.results \in Seq(Results) /\ worker.heard \in SUBSET Drivers
                 /\ worker.heard \subseteq DOMAIN flushed /\ Len(worker.results) <= Len(job.rows)
           /\ worker.at = "flush" =>
                 /\ worker.driver \in Drivers /\ worker.result \in {"CREATED", "UPDATED"}
                 /\ Partial(worker.put) /\ (worker.result = "CREATED" => worker.put \in Inserted)
                 /\ Len(worker.results) < Len(job.rows)
BY DEF WorkerInv, WorkerStages, Resting

\* What a row sets is what an import may set.
LEMMA LookUpKeeps ==
    ASSUME WorkerInv, JobInv, LookUpRow
    PROVE  WorkerInv'
<1>1. /\ worker.at = "row" /\ worker.results \in Seq(Results) /\ worker.heard \in SUBSET Drivers
      /\ worker.heard \subseteq DOMAIN flushed /\ Len(worker.results) < Len(job.rows)
      /\ UNCHANGED <<flushed, job>>
    BY WorkerStages1 DEF LookUpRow, driverVars
<1>2. job.rows \in Seq(ImportRows)
    <2>1. job.status = "RUNNING"
        BY <1>1 DEF JobInv, JobTellsTheTruth
    <2> QED BY <2>1, ImportAssumption DEF JobInv
<1>3. Current \in ImportRows
    <2>1. Len(worker.results) + 1 \in 1 .. Len(job.rows)
        BY <1>1, <1>2
    <2> QED BY <1>2, <2>1 DEF Current
<1>4. Current.code \in Codes /\ Current.status \in {"ACTIVE", "INACTIVE"}
    BY <1>3 DEF ImportRows
<1>5. PICK d \in Drivers, result \in {"CREATED", "UPDATED"}, put \in
           {<<>>, [status |-> Current.status],
            [status |-> Current.status, deleted |-> FALSE, code |-> Current.code]} :
         /\ worker' = [at |-> "flush", results |-> worker.results, heard |-> worker.heard,
                       driver |-> d, result |-> result, put |-> put]
         /\ result = "CREATED" =>
               put = [status |-> Current.status, deleted |-> FALSE, code |-> Current.code]
    BY DEF LookUpRow, Found
<1>6. Partial(put) /\ (result = "CREATED" => put \in Inserted)
    <2>1. [status |-> Current.status, deleted |-> FALSE, code |-> Current.code] \in Inserted
        BY <1>4 DEF Inserted
    <2>2. CASE put = <<>>
        <3>1. DOMAIN put = {}
            BY <2>2
        <3> QED BY <1>5, <2>1, <3>1 DEF Partial
    <2>3. CASE put = [status |-> Current.status]
        BY <1>4, <1>5, <2>1, <2>3 DEF Partial, Columns
    <2>4. CASE put = [status |-> Current.status, deleted |-> FALSE, code |-> Current.code]
        BY <1>4, <1>5, <2>1, <2>4 DEF Partial, Columns
    <2> QED BY <1>5, <2>2, <2>3, <2>4
<1> QED BY <1>1, <1>5, <1>6 DEF WorkerInv

\* The worker and the job, under a step of the worker.
LEMMA WorkerSteps ==
    ASSUME DriversInv, WorkerInv, JobInv,
           CreateImportJob \/ ClaimJob \/ LookUpRow \/ FlushRow \/ FlushFails \/ FailJob \/ Die
    PROVE  WorkerInv' /\ JobInv'
<1>1. CASE CreateImportJob
    <2>1. worker = Resting /\ UNCHANGED <<worker, flushed, died>>
        BY <1>1, WorkerStages1 DEF CreateImportJob, driverVars, JobInv, JobTellsTheTruth
    <2>2. PICK rows \in Jobs : job' = [job EXCEPT !.status = "PENDING", !.rows = rows] /\ job.status = "none"
        BY <1>1 DEF CreateImportJob
    <2>3. WorkerInv'
        BY <2>1 DEF WorkerInv, WorkerStages, Resting
    <2>4. JobInv'
        BY <2>1, <2>2 DEF JobInv, JobTellsTheTruth, JobStatuses, Ended, Resting
    <2> QED BY <2>3, <2>4
<1>2. CASE ClaimJob
    <2>1. /\ job.status = "PENDING" /\ job' = [job EXCEPT !.status = "RUNNING"] /\ UNCHANGED <<flushed, died>>
          /\ worker' = [at |-> "row", results |-> <<>>, heard |-> {}]
        BY <1>2 DEF ClaimJob, Claimable, AtRow, driverVars
    <2>2. JobInv'
        BY <2>1 DEF JobInv, JobTellsTheTruth, JobStatuses, Ended, Resting
    <2>3. WorkerInv'
        <3>1. job'.rows \in Seq(ImportRows)
            BY <2>1, ImportAssumption DEF JobInv
        <3> QED BY <2>1, <3>1 DEF WorkerInv, WorkerStages
    <2> QED BY <2>2, <2>3
<1>3. CASE LookUpRow
    <2>1. WorkerInv'
        BY <1>3, LookUpKeeps
    <2>2. worker'.at = "flush" /\ worker.at = "row" /\ UNCHANGED <<job, died>>
        BY <1>3 DEF LookUpRow
    <2> QED BY <2>1, <2>2 DEF JobInv, JobTellsTheTruth, Resting
<1>4. CASE FlushRow
    <2>1. /\ worker.at = "flush" /\ UNCHANGED <<job, died>>
          /\ \E result \in {worker.result, "FAILED"}, heard \in {worker.heard \cup {worker.driver}, worker.heard} :
                worker' = [at |-> "row", results |-> Append(worker.results, result), heard |-> heard]
        BY <1>4 DEF FlushRow, AtRow
    <2>2. DOMAIN flushed' = DOMAIN flushed \cup {worker.driver}
        BY <1>4, FlushKeeps
    <2>3. WorkerInv'
        <3>1. PICK result \in Results, heard \in SUBSET Drivers :
                 /\ worker' = [at |-> "row", results |-> Append(worker.results, result), heard |-> heard]
                 /\ heard \subseteq DOMAIN flushed'
            BY <2>1, <2>2, WorkerStages1 DEF Results
        <3>2. worker.results \in Seq(Results) /\ Len(worker.results) < Len(job.rows)
            BY <2>1, WorkerStages1
        <3>3. /\ Append(worker.results, result) \in Seq(Results)
              /\ Len(Append(worker.results, result)) = Len(worker.results) + 1
              /\ Len(worker.results) \in Nat
            BY <3>2
        <3>4. job.rows \in Seq(ImportRows)
            BY <2>1, ImportAssumption DEF JobInv, JobTellsTheTruth
        <3>5. Len(worker.results) + 1 <= Len(job.rows)
            BY <3>2, <3>3, <3>4
        <3> QED BY <2>1, <3>1, <3>3, <3>5 DEF WorkerInv, WorkerStages
    <2>4. JobInv'
        BY <2>1 DEF JobInv, JobTellsTheTruth, Resting
    <2> QED BY <2>3, <2>4
<1>5. CASE FlushFails
    <2>1. worker.at # "idle" /\ worker' = [at |-> "poisoned"] /\ UNCHANGED <<job, died>>
        BY <1>5 DEF FlushFails
    <2> QED BY <2>1 DEF WorkerInv, WorkerStages, JobInv, JobTellsTheTruth, Resting
<1>6. CASE FailJob
    <2>1. /\ worker.at = "poisoned" /\ worker' = Resting /\ UNCHANGED died
          /\ job' = [job EXCEPT !.status = "FAILED"]
        BY <1>6 DEF FailJob
    <2>2. job.status = "RUNNING" /\ job.results = <<>> /\ job.success = 0 /\ job.failed = 0
        BY <2>1 DEF JobInv, JobTellsTheTruth
    <2> QED BY <2>1, <2>2 DEF WorkerInv, WorkerStages, JobInv, JobTellsTheTruth, JobStatuses, Ended, Resting
<1>7. CASE Die
    <2>1. worker' = Resting /\ died' /\ UNCHANGED job
        BY <1>7 DEF Die
    <2> QED BY <2>1 DEF WorkerInv, WorkerStages, JobInv, JobTellsTheTruth, Resting
<1> QED BY <1>1, <1>2, <1>3, <1>4, <1>5, <1>6, <1>7

LEMMA CommitMarks ==
    ASSUME DriversInv, WorkerInv, JobInv, CommitJob
    PROVE  WorkerInv' /\ JobInv'
<1> DEFINE n == Succeeded(worker.results)
<1>1. /\ worker.at = "row" /\ Len(worker.results) = Len(job.rows) /\ worker' = Resting /\ UNCHANGED died
      /\ job' = [job EXCEPT !.status = JobStatus(worker.results), !.results = worker.results,
                            !.success = n, !.failed = Len(worker.results) - n]
    BY DEF CommitJob
<1>2. worker.results \in Seq(Results) /\ job.status = "RUNNING" /\ job.rows \in Jobs
    BY <1>1, WorkerStages1 DEF JobInv, JobTellsTheTruth
<1>3. /\ n = Cardinality({i \in DOMAIN job.rows : worker.results[i] \in {"CREATED", "UPDATED"}})
      /\ n \in Nat /\ n <= Len(worker.results) /\ Len(worker.results) \in Nat \ {0}
    BY <1>1, <1>2, CountsAreThose
<1>4. /\ JobStatus(worker.results) \in Ended
      /\ JobStatus(worker.results) = "COMPLETED" <=> n = Len(worker.results)
    BY DEF JobStatus, Ended
<1> HIDE DEF n
<1>5. /\ job'.status = JobStatus(worker.results) /\ job'.results = worker.results /\ job'.success = n
      /\ job'.failed = Len(worker.results) - n /\ job'.rows = job.rows
      /\ job' \in [status: JobStatuses, rows: Jobs \cup {<<>>}, results: Seq(Results), success: Nat, failed: Nat]
    <2>1. Len(worker.results) - n \in Nat
        BY <1>3
    <2> QED BY <1>1, <1>2, <1>3, <1>4, <2>1 DEF JobInv, JobStatuses, Ended
<1>6. JobTellsTheTruth'
    <2>1. Len(worker.results) - n = 0 <=> n = Len(worker.results)
        BY <1>3
    <2>2. n + (Len(worker.results) - n) = Len(job.rows)
        BY <1>1, <1>3
    <2>3. job'.status \in Ended /\ job'.status # "RUNNING" /\ worker'.at = "idle"
        BY <1>1, <1>4, <1>5 DEF Resting, Ended
    <2> QED BY <1>1, <1>3, <1>4, <1>5, <2>1, <2>2, <2>3 DEF JobTellsTheTruth
<1>7. JobInv'
    BY <1>2, <1>4, <1>5, <1>6 DEF JobInv, Ended
<1> QED BY <1>1, <1>7 DEF WorkerInv, WorkerStages, Resting

LEMMA IInvStep ==
    ASSUME IInv, [Next]_vars
    PROVE  IInv'
<1>1. DriversInv'
    BY DriversStep DEF IInv
<1>2. CASE CreateImportJob \/ ClaimJob \/ LookUpRow \/ FlushRow \/ FlushFails \/ FailJob \/ Die
    BY <1>1, <1>2, WorkerSteps DEF IInv
<1>3. CASE CommitJob
    BY <1>1, <1>3, CommitMarks DEF IInv
<1>4. CASE UNCHANGED <<job, worker, died, flushed>>
    BY <1>1, <1>4 DEF IInv, WorkerInv, Partial, JobInv, JobTellsTheTruth
<1>5. CreateDriver => UNCHANGED flushed
    BY DEF CreateDriver
<1>6. ASSUME NEW p \in Requests, RequestStep(p) PROVE UNCHANGED flushed
    BY <1>6 DEF RequestStep, PatchDriver, InactivateDriver, ReactivateDriver, SoftDeleteDriver,
                HardDeleteDriver, MergeDrivers, Abandon, Load, Save
<1> QED BY <1>2, <1>3, <1>4, <1>5, <1>6 DEF Next, WorkerStep, vars, driverVars

LEMMA IInvInit ==
    ASSUME Init
    PROVE  IInv
<1>1. DriversInv
    BY DriversInit0
<1>2. worker = Resting /\ job = [status |-> "none", rows |-> <<>>, results |-> <<>>, success |-> 0, failed |-> 0]
    BY DEF Init
<1>3. WorkerInv
    BY <1>2 DEF WorkerInv, WorkerStages, Resting
<1>4. JobInv
    <2>1. <<>> \in Seq(Results)
        OBVIOUS
    <2> QED BY <1>2, <2>1 DEF JobInv, JobTellsTheTruth, JobStatuses, Ended, Resting
<1> QED BY <1>1, <1>3, <1>4 DEF IInv

\* The inductive invariant of the driver service, requests and import together.
THEOREM DriversInvariant == Spec => []IInv
<1>1. Init => IInv
    BY IInvInit
<1>2. IInv /\ [Next]_vars => IInv'
    BY IInvStep
<1> QED BY <1>1, <1>2, PTL DEF Spec

\* A lookup of a driver by its code, of a request or of an import, finds one at most,
\* whatever updates overtake each other and under either schema.
THEOREM OneIsFound == Spec => []LookupIsUnique
<1>1. IInv => LookupIsUnique
    <2> SUFFICES ASSUME IInv PROVE LookupIsUnique
        OBVIOUS
    <2>1. \A d \in Drivers : Exists(d) /\ driver[d].status = "CANCELLED" => driver[d].deleted
        BY DEF IInv, DriversInv, MarkInv, Marked
    <2>2. ASSUME NEW code \in Codes PROVE Cardinality(Lookup(code)) <= 1
        <3>1. \A d \in Lookup(code) :
                 d \in Drivers /\ driver[d] # Nothing /\ Indexed(driver[d]) /\ driver[d].code = code
            BY <2>1 DEF Lookup, Exists, Indexed
        <3>2. \A d, e \in Lookup(code) : d = e
            <4>1. DOMAIN driver = Drivers /\ code # Nothing
                BY DriversAssumption DEF IInv, DriversInv, DriverTypes
            <4> QED BY <3>1, <4>1 DEF IInv, DriversInv, TableInv, Allowed, Fits
        <3>3. Lookup(code) = {} \/ \E d : Lookup(code) = {d}
            BY <3>2
        <3> QED BY <3>3, FS_EmptySet, FS_Singleton
    <2> QED BY <2>1, <2>2 DEF LookupIsUnique
<1> QED BY <1>1, DriversInvariant, PTL

\* After the tombstone of a driver nothing but further tombstones is written to the outbox
\* of it, whatever request or import had loaded it before.
THEOREM TombstonesAreLast == Spec => SilentAfterPurge
<1>1. IInv /\ [Next]_vars =>
         [\A d \in Drivers : last[d] = "tombstone" => last'[d] = "tombstone"]_driverVars
    BY DriversStep DEF IInv
<1> QED BY <1>1, DriversInvariant, PTL DEF Spec, SilentAfterPurge

\* The status and the counts of an import job are those of its rows, and it is RUNNING only
\* while a worker has it or after one has died.
THEOREM JobsTellTheTruth == Spec => []JobTellsTheTruth
<1>1. IInv => JobTellsTheTruth
    BY DEF IInv, JobInv
<1> QED BY <1>1, DriversInvariant, PTL

-----------------------------------------------------------------------------
(* What the job reports.                                                   *)

\* The driver d was inserted for a row with this code, and the import holds it.
Bears(d, code) == flushed[d] \in Inserted /\ flushed[d].code = code

\* For every row that did not fail there is a driver with an event among those that are
\* flushed, and for one that created a driver it has the code of the row.
Reports ==
    /\ worker.at = "flush" =>
          IF worker.result = "CREATED" THEN worker.put.code = Current.code
          ELSE "code" \notin DOMAIN worker.put
    /\ worker.at \in {"row", "flush"} =>
          \A i \in DOMAIN worker.results : worker.results[i] # "FAILED" =>
             \E d \in worker.heard : worker.results[i] = "CREATED" => Bears(d, job.rows[i].code)

\* A row that is flushed again keeps its code: only the row of an insert has one.
LEMMA BearsOn ==
    ASSUME DriversInv, WorkerInv, Reports, FlushRow, NEW d \in DOMAIN flushed, NEW code, Bears(d, code)
    PROVE  Bears(d, code)'
<1> DEFINE columns == IF worker.driver \in DOMAIN flushed THEN Over(worker.put, flushed[worker.driver])
                      ELSE worker.put
<1>1. worker.at = "flush" /\ flushed' = Over([e \in {worker.driver} |-> columns], flushed)
    BY DEF FlushRow
<1>2. CASE d # worker.driver
    BY <1>1, <1>2 DEF Over, Bears
<1>3. CASE d = worker.driver
    <2>1. worker.result = "UPDATED"
        BY <1>1, <1>3, WorkerStages1 DEF FlushRow, Fresh
    <2>2. "code" \notin DOMAIN worker.put /\ Partial(worker.put) /\ Partial(flushed[d])
        BY <1>1, <2>1, WorkerStages1 DEF Reports, DriversInv, FlushInv
    <2>3. flushed'[d] = Over(worker.put, flushed[d])
        BY <1>1, <1>3 DEF Over
    <2>4. flushed'[d] \in Inserted
        BY <2>2, <2>3, PartialTwice DEF Bears
    <2>5. "code" \in DOMAIN flushed[d]
        BY DEF Bears, Inserted
    <2>6. flushed'[d]["code"] = flushed[d]["code"]
        BY <2>2, <2>3, <2>5 DEF Over
    <2> QED BY <2>4, <2>6 DEF Bears
<1> QED BY <1>2, <1>3

LEMMA ReportsFlush ==
    ASSUME IInv, Reports, FlushRow
    PROVE  Reports'
<1>1. /\ worker.at = "flush" /\ UNCHANGED job /\ worker.results \in Seq(Results)
      /\ worker.heard \subseteq DOMAIN flushed /\ worker.result \in {"CREATED", "UPDATED"}
    BY WorkerStages1 DEF FlushRow, IInv
<1>2. PICK result \in {worker.result, "FAILED"} :
         LET heard == IF result = "FAILED" THEN worker.heard ELSE worker.heard \cup {worker.driver}
         IN  worker' = [at |-> "row", results |-> Append(worker.results, result), heard |-> heard]
    <2>1. \/ worker' = [at |-> "row", results |-> Append(worker.results, worker.result),
                        heard |-> worker.heard \cup {worker.driver}]
          \/ worker' = [at |-> "row", results |-> Append(worker.results, "FAILED"), heard |-> worker.heard]
        BY DEF FlushRow, AtRow
    <2> QED BY <1>1, <2>1
<1>3. worker'.at = "row" /\ worker.heard \subseteq worker'.heard
    BY <1>2
<1> SUFFICES ASSUME NEW i \in DOMAIN worker'.results, worker'.results[i] # "FAILED"
             PROVE  \E d \in worker'.heard : worker'.results[i] = "CREATED" =>
                       flushed'[d] \in Inserted /\ flushed'[d].code = job.rows[i].code
    BY <1>1, <1>3 DEF Reports, Bears
<1>4. CASE i \in DOMAIN worker.results
    <2>1. worker'.results[i] = worker.results[i]
        BY <1>1, <1>2, <1>4
    <2>2. PICK d \in worker.heard : worker.results[i] = "CREATED" => Bears(d, job.rows[i].code)
        BY <1>1, <1>4, <2>1 DEF Reports
    <2>3. ASSUME NEW code, Bears(d, code) PROVE Bears(d, code)'
        BY <1>1, <2>3, BearsOn DEF IInv
    <2> QED BY <1>3, <2>1, <2>2, <2>3 DEF Bears
<1>5. CASE i \notin DOMAIN worker.results
    <2>1. i = Len(worker.results) + 1 /\ worker'.results[i] = result
        BY <1>1, <1>2, <1>5
    <2>2. result = worker.result /\ worker.driver \in worker'.heard
        BY <1>2, <2>1
    <2>3. ASSUME result = "CREATED"
          PROVE  flushed'[worker.driver] \in Inserted /\ flushed'[worker.driver].code = job.rows[i].code
        <3>1. worker.put.code = job.rows[i].code /\ worker.put \in Inserted
            BY <1>1, <2>1, <2>2, <2>3, WorkerStages1 DEF Reports, Current, IInv
        <3>2. worker.driver \notin DOMAIN flushed
            BY <2>2, <2>3 DEF FlushRow, Fresh
        <3>3. flushed'[worker.driver] = worker.put
            BY <3>2 DEF FlushRow, Over
        <3> QED BY <3>1, <3>3
    <2> QED BY <2>1, <2>2, <2>3
<1> QED BY <1>4, <1>5

LEMMA ReportsStep ==
    ASSUME IInv, Reports, [Next]_vars
    PROVE  Reports'
<1>1. CASE LookUpRow
    <2>1. /\ worker.at = "row" /\ UNCHANGED <<flushed, job>>
          /\ worker'.results = worker.results /\ worker'.heard = worker.heard /\ worker'.at = "flush"
          /\ IF worker'.result = "CREATED" THEN worker'.put.code = Current.code
             ELSE "code" \notin DOMAIN worker'.put
        <3>1. "code" \notin DOMAIN <<>> /\ "code" \notin DOMAIN [status |-> Current.status]
            OBVIOUS
        <3> QED BY <1>1, <3>1 DEF LookUpRow, driverVars
    <2>2. Current' = Current
        BY <2>1 DEF Current
    <2> QED BY <2>1, <2>2 DEF Reports, Bears
<1>2. CASE FlushRow
    BY <1>2, ReportsFlush
<1>3. CASE ClaimJob
    <2>1. worker' = [at |-> "row", results |-> <<>>, heard |-> {}]
        BY <1>3 DEF ClaimJob, AtRow
    <2> QED BY <2>1 DEF Reports
<1>4. CASE FlushFails \/ CommitJob \/ FailJob \/ Die
    <2>1. worker'.at \in {"idle", "poisoned"}
        BY <1>4 DEF FlushFails, CommitJob, FailJob, Die, Resting
    <2> QED BY <2>1 DEF Reports
<1>5. CASE CreateImportJob
    <2>1. worker.at = "idle" /\ UNCHANGED worker
        BY <1>5 DEF CreateImportJob, IInv, JobInv, JobTellsTheTruth
    <2> QED BY <2>1 DEF Reports
<1>6. CASE UNCHANGED <<job, worker, flushed>>
    BY <1>6 DEF Reports, Bears, Current
<1>7. CreateDriver => UNCHANGED flushed
    BY DEF CreateDriver
<1>8. ASSUME NEW p \in Requests, RequestStep(p) PROVE UNCHANGED flushed
    BY <1>8 DEF RequestStep, PatchDriver, InactivateDriver, ReactivateDriver, SoftDeleteDriver,
                HardDeleteDriver, MergeDrivers, Abandon, Load, Save
<1> QED BY <1>1, <1>2, <1>3, <1>4, <1>5, <1>6, <1>7, <1>8 DEF Next, WorkerStep, vars, driverVars

\* What the commit of an import stores of a driver it has inserted.
LEMMA Stored ==
    ASSUME DriverTypes, FlushInv, MarkInv, NEW d \in DOMAIN flushed
    PROVE  /\ Seen[d] # Nothing
           /\ \A code : Bears(d, code) => Seen[d].code = code /\ ~Seen[d].deleted
<1>1. d \in Drivers /\ Seen[d] # Nothing
    BY SeenFields DEF DriverTypes
<1>2. Seen[d] = IF driver[d] = Nothing THEN flushed[d] ELSE Over(flushed[d], driver[d])
    BY <1>1 DEF Seen, With
<1>3. ASSUME NEW code, Bears(d, code) PROVE Seen[d]["code"] = code /\ ~Seen[d]["deleted"]
    <2>1. /\ "code" \in DOMAIN flushed[d] /\ "deleted" \in DOMAIN flushed[d]
          /\ flushed[d]["code"] = code /\ ~flushed[d]["deleted"]
        BY <1>3 DEF Bears, Inserted
    <2> QED BY <1>2, <2>1 DEF Over
<1> QED BY <1>1, <1>3

\* What an import job reports of its rows is in the table once it has ended: a driver with
\* a new event for every row that did not fail, with the row's code where it was created.
THEOREM WhatIsReportedIsStored == Spec => ReportedIsStored
<1> DEFINE Stands ==
         job'.results # job.results =>
            \A i \in DOMAIN job'.results : job'.results[i] # "FAILED" =>
               \E d \in Drivers :
                  /\ driver'[d] # Nothing /\ last'[d] = "change"
                  /\ job'.results[i] = "CREATED" =>
                        driver'[d].code = job.rows[i].code /\ ~driver'[d].deleted
<1>1. IInv /\ Reports /\ [Next]_vars => [Stands]_vars
    <2> SUFFICES ASSUME IInv, Reports, Next PROVE Stands
        OBVIOUS
    <2>1. CASE CommitJob
        <3>1. /\ worker.at = "row" /\ driver' = Seen /\ job'.results = worker.results
              /\ last' = [d \in Drivers |-> IF d \in worker.heard THEN "change" ELSE last[d]]
              /\ worker.heard \subseteq DOMAIN flushed /\ DOMAIN flushed \subseteq Drivers
            BY <2>1, WorkerStages1 DEF CommitJob, IInv, JobInv, DriversInv, DriverTypes
        <3> SUFFICES ASSUME NEW i \in DOMAIN worker.results, worker.results[i] # "FAILED"
                     PROVE  \E d \in Drivers :
                               /\ Seen[d] # Nothing /\ last'[d] = "change"
                               /\ worker.results[i] = "CREATED" =>
                                     Seen[d].code = job.rows[i].code /\ ~Seen[d].deleted
            BY <3>1
        <3>2. PICK d \in worker.heard : worker.results[i] = "CREATED" => Bears(d, job.rows[i].code)
            BY <3>1 DEF Reports
        <3>3. d \in DOMAIN flushed /\ d \in Drivers /\ last'[d] = "change"
            BY <3>1
        <3>4. Seen[d] # Nothing /\ \A code : Bears(d, code) => Seen[d].code = code /\ ~Seen[d].deleted
            BY <3>3, Stored DEF IInv, DriversInv
        <3> QED BY <3>2, <3>3, <3>4
    <2>2. CASE CreateImportJob \/ ClaimJob \/ FailJob
        <3>1. job'.results = job.results
            BY <2>2 DEF CreateImportJob, ClaimJob, FailJob, IInv, JobInv
        <3> QED BY <3>1
    <2>3. CASE UNCHANGED job
        BY <2>3
    <2> QED BY <2>1, <2>2, <2>3 DEF Next, WorkerStep, LookUpRow, FlushRow, FlushFails, Die
<1>2. Init => Reports
    BY DEF Init, Reports, Resting
<1>3. IInv /\ Reports /\ [Next]_vars => Reports'
    BY ReportsStep
<1> HIDE DEF Stands
<1>4. Spec => []Reports
    BY <1>2, <1>3, DriversInvariant, PTL DEF Spec
<1>5. Spec => [][Stands]_vars
    BY <1>1, <1>4, DriversInvariant, PTL DEF Spec
<1> QED BY <1>5 DEF Stands, ReportedIsStored
==============================================================================
