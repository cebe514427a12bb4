------------------------ MODULE SlipConversationProofs ------------------------
(***************************************************************************)
(* For any chats, handlers, requests and other clients: a request with a   *)
(* key is not told of a conflict with itself, a message has one trip of a  *)
(* driver, a driver is told the truth, and the photos of a chat are mixed  *)
(* in a race of a correction only.                                         *)
(*                                                                         *)
(* The first part is about the trip service alone.  The lock of a key      *)
(* makes its holder the only writer of its record; what a request without  *)
(* key is answered with is the trip it was looking for.  The second part   *)
(* follows the payload from the chat through a handler to its request, the *)
(* third the message and the fields through all copies of a chat's data.   *)
(***************************************************************************)
EXTENDS SlipConversation, FiniteSetTheorems, SequenceTheorems, TLAPS

Calling == {"slip", "fallback"}

RequestRows ==
    [at: {"idle", "sent", "answered"} \cup Working, key: Keys \cup {NoKey}, body: Bodies \cup {<<>>},
     seen: Nat, answer: [says: Says \cup {"nothing"}, trip: Nat]]

\* There is, or was, a trip with the number or the reference of a payload.
Met(b) == \E i \in DOMAIN ever : Resembles(b, ever[i])

\* What is true of a request by where it is.
Fits(x) ==
    /\ x.at # "idle" => x.body \in Bodies
    /\ x.at \in {"sent"} \cup Working => x.answer = NoAnswer
    /\ x.at = "recalling" => x.key # NoKey
    /\ (x.at \in Working \ {"recalling"} /\ x.key # NoKey) => <<x.key, Fingerprint(x.body)>> \notin DOMAIN records
    /\ (x.at = "rereading" /\ x.body.ep \in Calling) => x.seen \in DOMAIN ever /\ ever[x.seen] = x.body
    /\ (x.at = "answered" /\ x.answer.says \in {"stored", "replayed"} /\ x.key = NoKey /\ x.body.ep \in Calling)
          => x.answer.trip \in DOMAIN ever /\ ever[x.answer.trip] = x.body
    /\ (x.at = "answered" /\ x.answer.says = "conflict" /\ x.key = NoKey /\ x.body.ep = "slip") => Met(x.body)

OneHolder ==
    \A r, q \in Requests :
        (req[r].at \in Working /\ req[q].at \in Working /\ req[r].key # NoKey /\ KeyOf(r) = KeyOf(q)) => r = q

UniqueReferences ==
    \A i, j \in alive : i # j => Reference(ever[i]) \cap Reference(ever[j]) = {}

IntakeInv ==
    /\ ever \in Seq(Bodies)
    /\ alive \subseteq DOMAIN ever
    /\ \A k \in DOMAIN records : records[k].trip \in Nat
    /\ req \in [Requests -> RequestRows]
    /\ \A r \in Requests : Fits(req[r])
    /\ OneHolder
    /\ UniqueReferences

\* One step of ConflictIsNotYours.
NotYours ==
    \A r \in Requests :
         req[r].at \in Working /\ req'[r].answer.says = "conflict" /\ req[r].key # NoKey
           => ~(/\ KeyOf(r) \in DOMAIN records
                /\ records[KeyOf(r)].hash = Hash(req[r].body))

-----------------------------------------------------------------------------
(* The trip service.                                                       *)

LEMMA IntakeInitInv == IntakeInit => IntakeInv
<1> SUFFICES ASSUME IntakeInit PROVE IntakeInv
    OBVIOUS
<1>1. req \in [Requests -> RequestRows]
    BY DEF IntakeInit, IdleReq, NoAnswer, RequestRows
<1>2. \A r \in Requests : req[r].at = "idle"
    BY DEF IntakeInit, IdleReq
<1>3. \A r \in Requests : Fits(req[r])
    BY <1>2 DEF Fits, Working
<1> QED BY <1>1, <1>2, <1>3 DEF IntakeInit, IntakeInv, OneHolder, UniqueReferences, Working

\* Nobody has been told anything while his request works.
LEMMA NothingSaid ==
    ASSUME IntakeInv, NEW r \in Requests, req[r].at \in Working
    PROVE  req[r].answer.says = "nothing"
<1>1. Fits(req[r])
    BY DEF IntakeInv
<1>2. req[r].answer = NoAnswer
    BY <1>1 DEF Fits
<1> QED BY <1>2 DEF NoAnswer

\* Others are as they were, and so are not told anything.
LEMMA OnlyOneIsTold ==
    ASSUME IntakeInv, NEW r \in Requests,
           \A q \in Requests \ {r} : req'[q] = req[q],
           (req[r].at \in Working /\ req'[r].answer.says = "conflict" /\ req[r].key # NoKey)
             => ~(KeyOf(r) \in DOMAIN records /\ records[KeyOf(r)].hash = Hash(req[r].body))
    PROVE  NotYours
<1> SUFFICES ASSUME NEW q \in Requests, req[q].at \in Working, req'[q].answer.says = "conflict", req[q].key # NoKey
             PROVE  ~(KeyOf(q) \in DOMAIN records /\ records[KeyOf(q)].hash = Hash(req[q].body))
    BY DEF NotYours
<1>1. CASE q = r
    BY <1>1
<1>2. CASE q # r
    <2>1. req[q].answer.says = "nothing"
        BY NothingSaid
    <2> QED BY <1>2, <2>1
<1> QED BY <1>1, <1>2

\* What the trip service finds by a number or a reference.
LEMMA FoundIsMet ==
    ASSUME IntakeInv, NEW b, NEW t \in alive, b.ep = "slip",
           \/ SlipNo(ever[t]) \cap SlipNo(b) # {}
           \/ Reference(ever[t]) \cap Reference(b) # {}
           \/ TripNo(ever[t]) \cap TripNo(b) # {}
    PROVE  Met(b)
<1>1. t \in DOMAIN ever
    BY DEF IntakeInv
<1>2. CASE SlipNo(ever[t]) \cap SlipNo(b) # {}
    <2>1. ever[t].ep = "slip" /\ ever[t].no = b.no
        BY <1>2 DEF SlipNo
    <2> QED BY <1>1, <2>1 DEF Met, Resembles, TripNo
<1>3. CASE Reference(ever[t]) \cap Reference(b) # {} \/ TripNo(ever[t]) \cap TripNo(b) # {}
    BY <1>1, <1>3 DEF Met, Resembles
<1> QED BY <1>2, <1>3

\* A step of one request that stores nothing.
LEMMA RequestStep ==
    ASSUME IntakeInv, NEW r \in Requests, NEW x \in RequestRows,
           req' = [req EXCEPT ![r] = x], UNCHANGED <<ever, alive, records>>,
           Fits(x),
           (x.at \in Working /\ x.key # NoKey) =>
               \/ req[r].at \in Working /\ x.key = req[r].key /\ x.body = req[r].body
               \/ KeyFree(<<x.key, Fingerprint(x.body)>>)
    PROVE  IntakeInv'
<1>1. req' \in [Requests -> RequestRows] /\ req'[r] = x /\ \A q \in Requests \ {r} : req'[q] = req[q]
    BY DEF IntakeInv
<1>2. \A q \in Requests : Fits(req[q])'
    <2> SUFFICES ASSUME NEW q \in Requests PROVE Fits(req[q])'
        OBVIOUS
    <2>1. CASE q = r
        BY <1>1, <2>1 DEF Fits, Met
    <2>2. CASE q # r
        BY <1>1, <2>2 DEF IntakeInv, Fits, Met
    <2> QED BY <2>1, <2>2
<1>3. OneHolder'
    <2>1. ASSUME NEW q \in Requests \ {r}, x.at \in Working, x.key # NoKey, req[q].at \in Working
          PROVE  <<x.key, Fingerprint(x.body)>> # <<req[q].key, Fingerprint(req[q].body)>>
        <3>1. CASE req[r].at \in Working /\ x.key = req[r].key /\ x.body = req[r].body
            BY <2>1, <3>1 DEF IntakeInv, OneHolder, KeyOf
        <3>2. CASE KeyFree(<<x.key, Fingerprint(x.body)>>)
            BY <2>1, <3>2 DEF KeyFree, Holds, KeyOf
        <3> QED BY <2>1, <3>1, <3>2
    <2>2. \A s, q \in Requests : (s # r /\ q # r) =>
              ((req'[s].at \in Working /\ req'[q].at \in Working /\ req'[s].key # NoKey /\ KeyOf(s)' = KeyOf(q)') => s = q)
        BY <1>1 DEF IntakeInv, OneHolder, KeyOf
    <2> SUFFICES ASSUME NEW s \in Requests, NEW q \in Requests, req'[s].at \in Working, req'[q].at \in Working,
                        req'[s].key # NoKey, KeyOf(s)' = KeyOf(q)', s # q
                 PROVE  FALSE
        BY DEF OneHolder
    <2>3. CASE s = r
        <3>1. x.at \in Working /\ x.key # NoKey /\ req[q].at \in Working
            BY <1>1, <2>3
        <3>2. <<x.key, Fingerprint(x.body)>> = <<req[q].key, Fingerprint(req[q].body)>>
            BY <1>1, <2>3 DEF KeyOf
        <3> QED BY <2>1, <2>3, <3>1, <3>2
    <2>4. CASE q = r
        <3>1. <<x.key, Fingerprint(x.body)>> = <<req[s].key, Fingerprint(req[s].body)>>
            BY <1>1, <2>4 DEF KeyOf
        <3>2. x.at \in Working /\ x.key # NoKey /\ req[s].at \in Working
            BY <1>1, <2>4, <3>1
        <3> QED BY <2>1, <2>4, <3>1, <3>2
    <2> QED BY <2>2, <2>3, <2>4
<1> QED BY <1>1, <1>2, <1>3 DEF IntakeInv, UniqueReferences

\* A step that takes records or trips away.
LEMMA MaintainStep ==
    ASSUME IntakeInv, Maintain
    PROVE  IntakeInv' /\ NotYours
<1>1. /\ req' = req /\ ever' = ever
      /\ alive' \subseteq alive /\ DOMAIN records' \subseteq DOMAIN records
    BY DEF Maintain, Expire, HardDelete
<1>a. \A k \in DOMAIN records' : records'[k].trip \in Nat
    BY DEF Maintain, Expire, HardDelete, IntakeInv
<1>2. \A r \in Requests : Fits(req[r])'
    BY <1>1 DEF IntakeInv, Fits, Met
<1>3. OneHolder' /\ UniqueReferences'
    BY <1>1 DEF IntakeInv, OneHolder, UniqueReferences, KeyOf
<1>4. NotYours
    <2>1. \A r \in Requests : req[r].at \in Working => req'[r].answer.says = "nothing"
        BY <1>1, NothingSaid
    <2> QED BY <2>1 DEF NotYours
<1> QED BY <1>1, <1>a, <1>2, <1>3, <1>4 DEF IntakeInv

\* An answer that is no success.
LEMMA Refusal ==
    ASSUME IntakeInv, NEW r \in Requests, NEW says \in {"conflict", "busy", "missing", "error"}, Answer(r, says, 0),
           UNCHANGED <<ever, alive, records>>, req[r].at # "idle",
           (says = "conflict" /\ req[r].at \in Working /\ req[r].key # NoKey)
             => ~(KeyOf(r) \in DOMAIN records /\ records[KeyOf(r)].hash = Hash(req[r].body)),
           (says = "conflict" /\ req[r].key = NoKey /\ req[r].body.ep = "slip") => Met(req[r].body)
    PROVE  IntakeInv' /\ NotYours
<1> DEFINE x == [req[r] EXCEPT !.at = "answered", !.answer = [says |-> says, trip |-> 0]]
<1>1. req \in [Requests -> RequestRows] /\ req[r] \in RequestRows /\ Fits(req[r])
    BY DEF IntakeInv
<1>2. /\ x \in RequestRows /\ x.at = "answered" /\ x.body = req[r].body /\ x.key = req[r].key
      /\ x.answer.says = says
    BY <1>1 DEF RequestRows, Says
<1>3. req' = [req EXCEPT ![r] = x]
    BY <1>1 DEF Answer
<1>4. Fits(x)
    BY <1>1, <1>2 DEF Fits, Working
<1>5. x.at \notin Working
    BY <1>2 DEF Working
<1>6. IntakeInv'
    <2> HIDE DEF x
    <2> QED BY <1>2, <1>3, <1>4, <1>5, RequestStep
<1>7. req'[r] = x /\ \A q \in Requests \ {r} : req'[q] = req[q]
    BY <1>1, <1>3
<1>8. NotYours
    BY <1>2, <1>7, OnlyOneIsTold
<1> QED BY <1>6, <1>8

\* A request whose record is not there cannot be in conflict with it.
LEMMA NoRecord ==
    ASSUME IntakeInv, NEW r \in Requests, req[r].at \in Working \ {"recalling"}, req[r].key # NoKey
    PROVE  KeyOf(r) \notin DOMAIN records
BY DEF IntakeInv, Fits, KeyOf

\* A request that goes on, without an answer or with a trip.
LEMMA GoesOn ==
    ASSUME IntakeInv, NEW r \in Requests, NEW x \in RequestRows, req' = [req EXCEPT ![r] = x],
           UNCHANGED <<ever, alive, records>>, Fits(x), x.answer.says # "conflict",
           (x.at \in Working /\ x.key # NoKey) =>
               \/ req[r].at \in Working /\ x.key = req[r].key /\ x.body = req[r].body
               \/ KeyFree(<<x.key, Fingerprint(x.body)>>)
    PROVE  IntakeInv' /\ NotYours
<1>1. IntakeInv'
    BY RequestStep
<1>2. req'[r] = x /\ \A q \in Requests \ {r} : req'[q] = req[q]
    BY DEF IntakeInv
<1> QED BY <1>1, <1>2, OnlyOneIsTold

LEMMA SendStep ==
    ASSUME IntakeInv, NEW r \in Requests, NEW key \in Keys \cup {NoKey}, NEW body \in Bodies, Send(r, key, body)
    PROVE  IntakeInv' /\ NotYours
<1> DEFINE x == [IdleReq EXCEPT !.at = "sent", !.key = key, !.body = body]
<1>1. /\ x \in RequestRows /\ x.at = "sent" /\ x.body = body /\ x.answer = NoAnswer
      /\ x.answer.says # "conflict"
    BY DEF RequestRows, IdleReq, NoAnswer
<1>2. Fits(x) /\ x.at \notin Working
    BY <1>1 DEF Fits, Working
<1>3. req' = [req EXCEPT ![r] = x]
    BY DEF Send, IntakeInv
<1> HIDE DEF x
<1> QED BY <1>1, <1>2, <1>3, GoesOn DEF Send

LEMMA DoneStep ==
    ASSUME IntakeInv, NEW r \in Requests, Done(r)
    PROVE  IntakeInv' /\ NotYours
<1>1. /\ IdleReq \in RequestRows /\ IdleReq.at = "idle" /\ IdleReq.answer.says # "conflict"
    BY DEF RequestRows, IdleReq, NoAnswer
<1>2. Fits(IdleReq) /\ IdleReq.at \notin Working
    BY <1>1 DEF Fits, Working
<1> HIDE DEF IdleReq
<1> QED BY <1>1, <1>2, GoesOn DEF Done

\* What a calling client finds by a number or a reference, with its own payload.
LEMMA SameHash ==
    ASSUME NEW b \in Bodies, NEW e \in Bodies, b.ep \in Calling, Hash(e) = Hash(b),
           SlipNo(e) \cap SlipNo(b) # {} \/ Reference(e) \cap Reference(b) # {}
    PROVE  e = b
<1>1. b.ep # "return" /\ e.ep \in Endpoints
    BY DEF Calling, Bodies
<1>2. e.ep # "return"
    <2> SUFFICES ASSUME e.ep = "return" PROVE FALSE
        OBVIOUS
    <2>1. SlipNo(e) = {} /\ Reference(e) = {}
        BY DEF SlipNo, Reference
    <2> QED BY <2>1
<1> QED BY <1>1, <1>2 DEF Hash

LEMMA ClaimStep ==
    ASSUME IntakeInv, NEW r \in Requests, ClaimKey(r)
    PROVE  IntakeInv' /\ NotYours
<1> DEFINE stage == IF req[r].key # NoKey /\ KeyOf(r) \in DOMAIN records THEN "recalling" ELSE "looking"
           x == [req[r] EXCEPT !.at = stage]
<1>1. req \in [Requests -> RequestRows] /\ req[r] \in RequestRows /\ Fits(req[r]) /\ req[r].at = "sent"
    BY DEF IntakeInv, ClaimKey
<1>2. /\ x \in RequestRows /\ x.at = stage /\ x.body = req[r].body /\ x.key = req[r].key
      /\ x.answer = req[r].answer /\ stage \in {"recalling", "looking"}
    BY <1>1 DEF RequestRows, Working
<1>3. req' = [req EXCEPT ![r] = x]
    BY <1>1 DEF ClaimKey, Goto
<1>4. x.body \in Bodies /\ x.answer = NoAnswer
    BY <1>1, <1>2 DEF Fits
<1>5. Fits(x)
    BY <1>2, <1>4 DEF Fits, KeyOf, Working
<1>6. x.key # NoKey => KeyFree(<<x.key, Fingerprint(x.body)>>)
    BY <1>2 DEF ClaimKey, KeyOf
<1>7. x.answer.says # "conflict"
    BY <1>4 DEF NoAnswer
<1> HIDE DEF x
<1> QED BY <1>2, <1>3, <1>5, <1>6, <1>7, GoesOn DEF ClaimKey

LEMMA RecallStep ==
    ASSUME IntakeInv, NEW r \in Requests, Recall(r)
    PROVE  IntakeInv' /\ NotYours
<1>0. req \in [Requests -> RequestRows] /\ req[r] \in RequestRows /\ Fits(req[r]) /\ req[r].at = "recalling"
    BY DEF IntakeInv, Recall
<1>1. CASE Answer(r, "busy", 0)
    BY <1>0, <1>1, Refusal DEF Recall
<1>2. CASE records[KeyOf(r)].hash # Hash(req[r].body) /\ Answer(r, "conflict", 0)
    <2>1. req[r].key # NoKey
        BY <1>0 DEF Fits
    <2> QED BY <1>0, <1>2, <2>1, Refusal DEF Recall
<1>3. CASE KeyOf(r) \in DOMAIN records /\ Answer(r, "replayed", records[KeyOf(r)].trip)
    <2> DEFINE trip == records[KeyOf(r)].trip
               x == [req[r] EXCEPT !.at = "answered", !.answer = [says |-> "replayed", trip |-> trip]]
    <2>1. trip \in Nat /\ req[r].key # NoKey
        BY <1>0, <1>3 DEF IntakeInv, Fits
    <2>2. /\ x \in RequestRows /\ x.at = "answered" /\ x.body = req[r].body /\ x.key = req[r].key
          /\ x.answer.says = "replayed"
        BY <1>0, <2>1 DEF RequestRows, Says
    <2>3. req' = [req EXCEPT ![r] = x]
        BY <1>0, <1>3 DEF Answer
    <2>4. Fits(x) /\ x.at \notin Working
        BY <1>0, <2>1, <2>2 DEF Fits, Working
    <2> HIDE DEF x
    <2> QED BY <2>2, <2>3, <2>4, GoesOn DEF Recall
<1> QED BY <1>1, <1>2, <1>3 DEF Recall

LEMMA FindStep ==
    ASSUME IntakeInv, NEW r \in Requests, FindEarlier(r)
    PROVE  IntakeInv' /\ NotYours
<1> DEFINE b == req[r].body
<1>0. /\ req \in [Requests -> RequestRows] /\ req[r] \in RequestRows /\ Fits(req[r])
      /\ req[r].at = "looking" /\ UNCHANGED <<ever, alive, records>>
    BY DEF IntakeInv, FindEarlier
<1>1. req[r].at \in Working \ {"recalling"} /\ b \in Bodies /\ req[r].answer = NoAnswer
    BY <1>0 DEF Fits, Working
<1>2. (req[r].key # NoKey) => KeyOf(r) \notin DOMAIN records
    BY <1>1, NoRecord
<1>3. ASSUME NEW says \in {"conflict", "missing"}, Answer(r, says, 0),
             says = "conflict" /\ b.ep = "slip" => Met(b)
      PROVE  IntakeInv' /\ NotYours
    BY <1>0, <1>2, <1>3, Refusal
<1>4. CASE Goto(r, "inserting")
    <2> DEFINE x == [req[r] EXCEPT !.at = "inserting"]
    <2>1. /\ x \in RequestRows /\ x.at = "inserting" /\ x.body = b /\ x.key = req[r].key
          /\ x.answer = NoAnswer
        BY <1>0, <1>1 DEF RequestRows, Working
    <2>2. req' = [req EXCEPT ![r] = x]
        BY <1>0, <1>4 DEF Goto
    <2>3. Fits(x)
        BY <1>1, <1>2, <2>1 DEF Fits, KeyOf
    <2>4. x.answer.says # "conflict"
        BY <2>1 DEF NoAnswer
    <2> HIDE DEF x
    <2> QED BY <1>0, <1>1, <2>1, <2>2, <2>3, <2>4, GoesOn
<1>5. ASSUME NEW t \in alive, See(r, t), SamePayload(b, t),
             SlipNo(ever[t]) \cap SlipNo(b) # {} \/ Reference(ever[t]) \cap Reference(b) # {}
      PROVE  IntakeInv' /\ NotYours
    <2> DEFINE x == [req[r] EXCEPT !.at = "rereading", !.seen = t]
    <2>1. t \in DOMAIN ever /\ t \in Nat /\ ever[t] \in Bodies
        BY ElementOfSeq, LenProperties DEF IntakeInv
    <2>2. /\ x \in RequestRows /\ x.at = "rereading" /\ x.body = b /\ x.key = req[r].key
          /\ x.answer = NoAnswer /\ x.seen = t
        BY <1>0, <1>1, <2>1 DEF RequestRows, Working
    <2>3. req' = [req EXCEPT ![r] = x]
        BY <1>0, <1>5 DEF See
    <2>4. b.ep \in Calling => ever[t] = b
        BY <1>1, <1>5, <2>1, SameHash DEF SamePayload
    <2>5. Fits(x)
        BY <1>1, <1>2, <2>1, <2>2, <2>4 DEF Fits, KeyOf
    <2>6. x.answer.says # "conflict"
        BY <2>2 DEF NoAnswer
    <2> HIDE DEF x
    <2> QED BY <1>0, <1>1, <2>2, <2>3, <2>5, <2>6, GoesOn
<1>6. CASE \E t \in {u \in alive : \/ SlipNo(ever[u]) \cap SlipNo(b) # {}
                                  \/ Reference(ever[u]) \cap Reference(b) # {}} : Replay(r, t)
    <2>1. PICK t \in alive : /\ SlipNo(ever[t]) \cap SlipNo(b) # {} \/ Reference(ever[t]) \cap Reference(b) # {}
                             /\ Replay(r, t)
        BY <1>6
    <2>2. CASE SamePayload(b, t)
        BY <1>5, <2>1, <2>2 DEF Replay
    <2>3. CASE ~SamePayload(b, t)
        <3>1. b.ep = "slip" => Met(b)
            BY <2>1, FoundIsMet
        <3> QED BY <1>3, <2>1, <2>3, <3>1 DEF Replay
    <2> QED BY <2>2, <2>3
<1> QED BY <1>3, <1>4, <1>6 DEF FindEarlier

LEMMA RereadStep ==
    ASSUME IntakeInv, NEW r \in Requests, Reread(r)
    PROVE  IntakeInv' /\ NotYours
<1>0. /\ req \in [Requests -> RequestRows] /\ req[r] \in RequestRows /\ Fits(req[r])
      /\ req[r].at = "rereading" /\ UNCHANGED <<ever, alive, records>>
    BY DEF IntakeInv, Reread
<1>1. CASE Answer(r, "missing", 0)
    BY <1>0, <1>1, Refusal
<1>2. CASE req[r].seen \in alive /\ Answer(r, "replayed", req[r].seen)
    <2> DEFINE x == [req[r] EXCEPT !.at = "answered", !.answer = [says |-> "replayed", trip |-> req[r].seen]]
    <2>1. /\ x \in RequestRows /\ x.at = "answered" /\ x.body = req[r].body /\ x.key = req[r].key
          /\ x.answer.says = "replayed" /\ x.answer.trip = req[r].seen
        BY <1>0 DEF RequestRows, Says
    <2>2. req' = [req EXCEPT ![r] = x]
        BY <1>0, <1>2 DEF Answer
    <2>3. Fits(x) /\ x.at \notin Working
        BY <1>0, <2>1 DEF Fits, Working
    <2> HIDE DEF x
    <2> QED BY <1>0, <2>1, <2>2, <2>3, GoesOn
<1> QED BY <1>1, <1>2 DEF Reread

LEMMA FailStep ==
    ASSUME IntakeInv, NEW r \in Requests, Fail(r)
    PROVE  IntakeInv' /\ NotYours
BY Refusal DEF Fail

\* A trip is appended: what was known of earlier trips stays known.
LEMMA EverGrows ==
    ASSUME IntakeInv, NEW b \in Bodies, ever' = Append(ever, b)
    PROVE  /\ ever' \in Seq(Bodies) /\ Len(ever) \in Nat
           /\ DOMAIN ever = 1..Len(ever) /\ DOMAIN ever' = 1..(Len(ever) + 1)
           /\ \A i \in DOMAIN ever : ever'[i] = ever[i]
           /\ ever'[Len(ever) + 1] = b
BY DEF IntakeInv

LEMMA StoreStep ==
    ASSUME IntakeInv, NEW r \in Requests, req[r].at = "inserting",
           LET b == req[r].body
               id == Len(ever) + 1
           IN /\ ~Taken("reference", b)
              /\ ever' = Append(ever, b)
              /\ alive' = alive \cup {id}
              /\ records' = IF req[r].key = NoKey THEN records
                            ELSE [k \in DOMAIN records \cup {KeyOf(r)} |->
                                    IF k = KeyOf(r) THEN [hash |-> Hash(b), trip |-> id] ELSE records[k]]
              /\ Answer(r, "stored", id)
    PROVE  IntakeInv' /\ NotYours
<1> DEFINE b == req[r].body
           id == Len(ever) + 1
           x == [req[r] EXCEPT !.at = "answered", !.answer = [says |-> "stored", trip |-> id]]
<1>0. /\ req \in [Requests -> RequestRows] /\ req[r] \in RequestRows /\ Fits(req[r])
      /\ b \in Bodies /\ req[r].at \in Working
    BY DEF IntakeInv, Fits, Working
<1>1. /\ ever' \in Seq(Bodies) /\ Len(ever) \in Nat
      /\ DOMAIN ever = 1..Len(ever) /\ DOMAIN ever' = 1..id
      /\ \A i \in DOMAIN ever : ever'[i] = ever[i]
      /\ ever'[id] = b
    BY <1>0, EverGrows
<1>2. /\ x \in RequestRows /\ x.at = "answered" /\ x.body = b /\ x.key = req[r].key
      /\ x.answer.says = "stored" /\ x.answer.trip = id
    <2>1. id \in Nat
        BY <1>1
    <2>2. [says |-> "stored", trip |-> id] \in [says: Says \cup {"nothing"}, trip: Nat]
        BY <2>1 DEF Says
    <2> HIDE DEF id, b
    <2> QED BY <1>0, <2>1, <2>2 DEF RequestRows, b
<1>3. /\ req' \in [Requests -> RequestRows] /\ req'[r] = x
      /\ \A q \in Requests \ {r} : req'[q] = req[q]
    <2>1. req' = [req EXCEPT ![r] = x]
        BY <1>0 DEF Answer
    <2> QED BY <1>0, <1>2, <2>1
<1>4. /\ DOMAIN records' \subseteq DOMAIN records \cup {KeyOf(r)}
      /\ req[r].key = NoKey => DOMAIN records' = DOMAIN records
      /\ \A k \in DOMAIN records' : records'[k].trip \in Nat
    BY <1>1 DEF IntakeInv
<1>5. \A q \in Requests : Fits(req[q])'
    <2> SUFFICES ASSUME NEW q \in Requests PROVE Fits(req[q])'
        OBVIOUS
    <2>1. CASE q = r
        <3>1. id \in DOMAIN ever' /\ ever'[id] = b
            BY <1>1
        <3>2. req'[q] = x
            BY <1>3, <2>1
        <3> HIDE DEF b, id, x
        <3> QED BY <1>0, <1>2, <3>1, <3>2 DEF Fits, Working
    <2>2. CASE q # r
        <3>1. Fits(req[q]) /\ req'[q] = req[q]
            BY <1>3, <2>2 DEF IntakeInv
        <3>2. (req[q].at \in Working \ {"recalling"} /\ req[q].key # NoKey)
                => <<req[q].key, Fingerprint(req[q].body)>> \notin DOMAIN records'
            <4> SUFFICES ASSUME req[q].at \in Working \ {"recalling"}, req[q].key # NoKey
                         PROVE  KeyOf(q) \notin DOMAIN records'
                BY DEF KeyOf
            <4>1. KeyOf(q) \notin DOMAIN records
                BY NoRecord
            <4>2. req[r].key # NoKey => KeyOf(q) # KeyOf(r)
                BY <1>0, <2>2 DEF IntakeInv, OneHolder
            <4> QED BY <1>4, <4>1, <4>2
        <3>3. \A i \in DOMAIN ever : i \in DOMAIN ever' /\ ever'[i] = ever[i]
            BY <1>1
        <3> HIDE DEF b, id, x
        <3>4. \A c : Met(c) => Met(c)'
            BY <3>3 DEF Met
        <3> QED BY <3>1, <3>2, <3>3, <3>4 DEF Fits
    <2> QED BY <2>1, <2>2
<1>6. OneHolder'
    <2>1. x.at \notin Working
        BY <1>2 DEF Working
    <2> QED BY <1>3, <2>1 DEF IntakeInv, OneHolder, KeyOf
<1>7. UniqueReferences'
    <2>1. \A t \in alive : Reference(ever[t]) \cap Reference(b) = {}
        BY DEF Taken, Columns
    <2>2. \A t \in alive : t \in DOMAIN ever /\ ever'[t] = ever[t] /\ t # id
        BY <1>1 DEF IntakeInv
    <2> QED BY <1>1, <2>1, <2>2 DEF IntakeInv, UniqueReferences
<1>8. NotYours
    BY <1>2, <1>3, OnlyOneIsTold
<1>9. alive' \subseteq DOMAIN ever'
    BY <1>1 DEF IntakeInv
<1> QED BY <1>1, <1>3, <1>4, <1>5, <1>6, <1>7, <1>8, <1>9 DEF IntakeInv

LEMMA InsertStep ==
    ASSUME IntakeInv, NEW r \in Requests, req[r].at = "inserting", Insert(r)
    PROVE  IntakeInv' /\ NotYours
<1>0. req[r].at \in Working \ {"recalling"}
    BY DEF Working
<1>1. (req[r].key # NoKey) => KeyOf(r) \notin DOMAIN records
    BY <1>0, NoRecord
<1>2. ASSUME NEW says \in {"conflict", "error"}, Answer(r, says, 0), UNCHANGED <<ever, alive, records>>,
             says = "conflict" /\ req[r].body.ep = "slip" => Met(req[r].body)
      PROVE  IntakeInv' /\ NotYours
    BY <1>1, <1>2, Refusal
<1>3. CASE Taken("trip_no", req[r].body)
    <2>1. req[r].body.ep = "slip" => Met(req[r].body)
        BY <1>3, FoundIsMet DEF Taken, Columns
    <2> QED BY <1>2, <1>3, <2>1 DEF Insert
<1>4. CASE ~Taken("trip_no", req[r].body) /\ (Taken("slip_no", req[r].body) \/ Taken("reference", req[r].body))
    BY <1>2, <1>4 DEF Insert
<1>5. CASE ~Taken("trip_no", req[r].body) /\ ~Taken("slip_no", req[r].body) /\ ~Taken("reference", req[r].body)
    BY <1>5, StoreStep DEF Insert
<1> QED BY <1>3, <1>4, <1>5

LEMMA ServeStepInv ==
    ASSUME IntakeInv, NEW r \in Requests, ServeStep(r)
    PROVE  IntakeInv' /\ NotYours
<1>1. CASE CreateEmptyReturn(r)
    BY <1>1, InsertStep, Refusal DEF CreateEmptyReturn, Ready
<1>2. CASE IngestTripSlip(r) \/ IngestTripSlipFallback(r) \/ IngestExcelTrip(r) \/ CreateTrip(r)
    BY <1>2, InsertStep DEF IngestTripSlip, IngestTripSlipFallback, IngestExcelTrip, CreateTrip, Ready
<1> QED BY <1>1, <1>2, ClaimStep, RecallStep, FindStep, RereadStep, FailStep DEF ServeStep

\* Nothing is stored but what a request that works was sent with.
LEMMA ServeStores ==
    ASSUME IntakeInv, NEW r \in Requests, ServeStep(r)
    PROVE  ever' = ever \/ (req[r].body \in Bodies /\ ever' = Append(ever, req[r].body))
<1>1. ASSUME Insert(r), req[r].at = "inserting"
      PROVE  ever' = ever \/ (req[r].body \in Bodies /\ ever' = Append(ever, req[r].body))
    BY <1>1 DEF Insert, IntakeInv, Fits
<1> QED BY <1>1 DEF ServeStep, ClaimKey, Recall, FindEarlier, Reread, Fail, IngestTripSlip, IngestTripSlipFallback,
                    IngestExcelTrip, CreateTrip, CreateEmptyReturn, Ready

\* A request is served for itself.
LEMMA ServesOne ==
    ASSUME IntakeInv, NEW r \in Requests, ServeStep(r)
    PROVE  req[r].at # "idle" /\ \A q \in Requests \ {r} : req'[q] = req[q]
<1>1. ASSUME NEW t, Replay(r, t) PROVE \A q \in Requests \ {r} : req'[q] = req[q]
    BY <1>1 DEF Replay, See, Answer, IntakeInv
<1>2. ASSUME Insert(r) PROVE \A q \in Requests \ {r} : req'[q] = req[q]
    BY <1>2 DEF Insert, Answer, IntakeInv
<1>3. CASE ClaimKey(r) \/ Recall(r) \/ Reread(r) \/ Fail(r)
    BY <1>3 DEF ClaimKey, Recall, Reread, Fail, Goto, Answer, IntakeInv
<1>4. CASE FindEarlier(r)
    <2>1. (\E t : Replay(r, t)) \/ Answer(r, "missing", 0) \/ Goto(r, "inserting")
        BY <1>4 DEF FindEarlier
    <2> QED BY <1>1, <1>4, <2>1 DEF FindEarlier, Goto, Answer, IntakeInv
<1>5. CASE IngestTripSlip(r) \/ IngestTripSlipFallback(r) \/ IngestExcelTrip(r) \/ CreateTrip(r)
    BY <1>2, <1>5 DEF IngestTripSlip, IngestTripSlipFallback, IngestExcelTrip, CreateTrip, Ready
<1>6. CASE CreateEmptyReturn(r)
    BY <1>2, <1>6 DEF CreateEmptyReturn, Ready, Answer, IntakeInv
<1> QED BY <1>3, <1>4, <1>5, <1>6 DEF ServeStep

\* What a request was sent with stays, and it does not end by itself.
LEMMA ServeKeeps ==
    ASSUME IntakeInv, NEW r \in Requests, ServeStep(r)
    PROVE  /\ \A q \in Requests : req'[q].key = req[q].key /\ req'[q].body = req[q].body
           /\ \A q \in Requests : req[q].at # "idle" => req'[q].at # "idle"
           /\ \A i \in DOMAIN ever : i \in DOMAIN ever' /\ ever'[i] = ever[i]
<1>0. req \in [Requests -> RequestRows] /\ req[r] \in RequestRows
    BY DEF IntakeInv
<1>1. ASSUME NEW stage \in Working, Goto(r, stage)
      PROVE  \A q \in Requests : /\ req'[q].key = req[q].key /\ req'[q].body = req[q].body
                                 /\ req[q].at # "idle" => req'[q].at # "idle"
    BY <1>0, <1>1 DEF Goto, RequestRows, Working
<1>2. ASSUME NEW t, See(r, t)
      PROVE  \A q \in Requests : /\ req'[q].key = req[q].key /\ req'[q].body = req[q].body
                                 /\ req[q].at # "idle" => req'[q].at # "idle"
    BY <1>0, <1>2 DEF See, RequestRows
<1>3. ASSUME NEW says, NEW t, Answer(r, says, t)
      PROVE  \A q \in Requests : /\ req'[q].key = req[q].key /\ req'[q].body = req[q].body
                                 /\ req[q].at # "idle" => req'[q].at # "idle"
    BY <1>0, <1>3 DEF Answer, RequestRows
<1>4. \/ \E stage \in Working : Goto(r, stage)
      \/ \E t : See(r, t)
      \/ \E says, t : Answer(r, says, t)
    <2>1. CASE ClaimKey(r)
        BY <2>1 DEF ClaimKey, Working
    <2>2. CASE Recall(r)
        BY <2>2 DEF Recall
    <2>3. CASE FindEarlier(r)
        <3>1. (\E t : Replay(r, t)) \/ (\E says, t : Answer(r, says, t)) \/ Goto(r, "inserting")
            BY <2>3 DEF FindEarlier
        <3>2. "inserting" \in Working
            BY DEF Working
        <3> QED BY <3>1, <3>2 DEF Replay
    <2>4. CASE Reread(r) \/ Fail(r)
        BY <2>4 DEF Reread, Fail
    <2>5. CASE Insert(r)
        BY <2>5 DEF Insert
    <2>6. CASE CreateEmptyReturn(r)
        BY <2>5, <2>6 DEF CreateEmptyReturn
    <2> QED BY <2>1, <2>2, <2>3, <2>4, <2>5, <2>6
            DEF ServeStep, IngestTripSlip, IngestTripSlipFallback, IngestExcelTrip, CreateTrip
<1>5. \A i \in DOMAIN ever : i \in DOMAIN ever' /\ ever'[i] = ever[i]
    BY ServeStores, EverGrows
<1>6. \A q \in Requests : /\ req'[q].key = req[q].key /\ req'[q].body = req[q].body
                          /\ req[q].at # "idle" => req'[q].at # "idle"
    BY <1>1, <1>2, <1>3, <1>4
<1> QED BY <1>5, <1>6

-----------------------------------------------------------------------------
(* The conversations.                                                      *)

Sending == {"submit", "waiting", "stored", "replayed", "already"}

TaskRows ==
    [at: {"idle", "store", "confirm", "lookup", "clearState", "clearData", "select", "ask", "copy", "name",
          "date", "dated", "remind", "value", "return", "merge", "correct"} \cup Sending,
     chat: Chats \cup {0}, then: {"idle", "submit"}, data: Data, fields: Fields \cup {NoFields},
     req: Requests \cup {0}]

ConvRows == [state: {"none", "confirming", "correcting", "asking"}, data: Data]

\* What is true of a handler by where it is.
Follows(x) ==
    /\ x.at # "idle" => x.chat \in Chats
    /\ x.then = "submit" => x.at \in {"clearState", "clearData"} \cup Sending
    /\ x.at \in Sending => x.then = "submit"
    /\ x.at = "lookup" \/ x.then = "submit" => Complete(x.data)
    /\ x.at = "waiting" =>
          /\ x.req \in Requests
          /\ req[x.req].at # "idle" /\ req[x.req].key = NoKey
          /\ req[x.req].body = Payload(x.chat, x.data)
    /\ x.at \in {"stored", "replayed"} => \E i \in DOMAIN ever : ever[i] = Payload(x.chat, x.data)
    /\ x.at = "already" => Met(Payload(x.chat, x.data))

OneWaits == \A t, u \in Tasks : (Mine(t, task[t].req) /\ Mine(u, task[t].req)) => t = u

SlipInv ==
    /\ conv \in [Chats -> ConvRows]
    /\ task \in [Tasks -> TaskRows]
    /\ \A t \in Tasks : Follows(task[t])
    /\ OneWaits

LEMMA DataTyped == NoData \in Data /\ NoFields \notin Fields
BY SlipAssumption DEF NoData, Data, NoFields, Fields

LEMMA SlipInitInv == Init => SlipInv
<1> SUFFICES ASSUME Init PROVE SlipInv
    OBVIOUS
<1>1. IdleTask \in TaskRows
    BY DataTyped DEF IdleTask, TaskRows
<1>2. Conversations \subseteq ConvRows
    BY SlipAssumption, DataTyped DEF Conversations, ConvRows, Data, Fields
<1>3. Follows(IdleTask)
    BY DEF Follows, IdleTask, Sending
<1>4. \A t \in Tasks : task[t] = IdleTask
    BY DEF Init
<1>5. OneWaits
    BY <1>4 DEF OneWaits, Mine, IdleTask
<1> QED BY <1>1, <1>2, <1>3, <1>4, <1>5 DEF Init, SlipInv

\* The payload of a complete slip is one that the trip service takes.
LEMMA PayloadTyped ==
    ASSUME NEW c \in Chats, NEW d \in Data, Complete(d)
    PROVE  Payload(c, d) \in Bodies /\ Payload(c, d).ep \in Calling
<1>1. d.msg \in Numbers /\ d.fields \in Fields /\ c \in Drivers
    BY SlipAssumption DEF Complete, Data
<1>2. d.fields \in Contents /\ [of |-> d.msg, read |-> "partly"] \in Contents
    BY <1>1, SlipAssumption DEF Fields
<1> QED BY <1>1, <1>2 DEF Payload, Bodies, Endpoints, Calling

\* A step of one handler that leaves the requests alone and begins no waiting.
LEMMA TaskStep ==
    ASSUME SlipInv, NEW t \in Tasks, NEW x \in TaskRows, task' = [task EXCEPT ![t] = x],
           conv' \in [Chats -> ConvRows], req' = req, ever' = ever, Follows(x), x.at # "waiting"
    PROVE  SlipInv'
<1>1. task' \in [Tasks -> TaskRows] /\ task'[t] = x /\ \A u \in Tasks \ {t} : task'[u] = task[u]
    BY DEF SlipInv
<1>2. \A u \in Tasks : Follows(task[u])'
    <2> SUFFICES ASSUME NEW u \in Tasks PROVE Follows(task[u])'
        OBVIOUS
    <2>1. CASE u = t
        BY <1>1, <2>1 DEF Follows, Met
    <2>2. CASE u # t
        BY <1>1, <2>2 DEF SlipInv, Follows, Met
    <2> QED BY <2>1, <2>2
<1>3. OneWaits'
    BY <1>1 DEF SlipInv, OneWaits, Mine
<1> QED BY <1>1, <1>2, <1>3 DEF SlipInv

\* A step of the trip service or of other clients.
LEMMA OtherStep ==
    ASSUME SlipInv, UNCHANGED <<conv, task>>,
           \A i \in DOMAIN ever : i \in DOMAIN ever' /\ ever'[i] = ever[i],
           \A t \in Tasks : task[t].at = "waiting" =>
               LET r == task[t].req IN
               /\ req[r].at # "idle" => req'[r].at # "idle"
               /\ req'[r].key = req[r].key /\ req'[r].body = req[r].body
    PROVE  SlipInv'
<1>1. \A t \in Tasks : Follows(task[t])'
    <2> SUFFICES ASSUME NEW t \in Tasks PROVE Follows(task[t])'
        OBVIOUS
    <2>1. Follows(task[t]) /\ task'[t] = task[t]
        BY DEF SlipInv
    <2> QED BY <2>1 DEF Follows, Met
<1> QED BY <1>1 DEF SlipInv, OneWaits, Mine

Stages == {"store", "confirm", "clearState", "clearData", "select", "ask", "copy", "name",
           "date", "dated", "remind", "value", "return", "merge", "correct"}

\* A handler that sends nothing follows whatever it carries.
LEMMA GoStep ==
    ASSUME SlipInv, NEW t \in Tasks, NEW x \in TaskRows, x.at \in Stages, x.then = "idle", x.chat \in Chats,
           task' = [task EXCEPT ![t] = x],
           conv' \in [Chats -> ConvRows], req' = req, ever' = ever
    PROVE  SlipInv'
<1>1. Follows(x) /\ x.at # "waiting"
    BY DEF Follows, Stages, Sending
<1> QED BY <1>1, TaskStep

LEMMA StartStep ==
    ASSUME SlipInv, NEW t \in Tasks, NEW at \in Stages, NEW c \in Chats, NEW d \in Data, Start(t, at, c, d),
           conv' \in [Chats -> ConvRows], req' = req, ever' = ever
    PROVE  SlipInv'
<1> DEFINE x == [IdleTask EXCEPT !.at = at, !.chat = c, !.data = d]
<1>1. IdleTask \in TaskRows /\ IdleTask.then = "idle"
    BY DataTyped DEF IdleTask, TaskRows
<1>2. x \in TaskRows /\ x.at \in Stages /\ x.then = "idle" /\ x.chat \in Chats
    BY <1>1 DEF TaskRows, Stages
<1>3. task' = [task EXCEPT ![t] = x]
    BY DEF Start
<1> HIDE DEF x
<1> QED BY <1>2, <1>3, GoStep

LEMMA EndStep ==
    ASSUME SlipInv, NEW t \in Tasks, End(t), conv' \in [Chats -> ConvRows], req' = req, ever' = ever
    PROVE  SlipInv'
<1>1. IdleTask \in TaskRows /\ Follows(IdleTask) /\ IdleTask.at # "waiting"
    BY DataTyped DEF IdleTask, TaskRows, Follows, Sending
<1> QED BY <1>1, TaskStep DEF End

\* What a handler may do to its chat.
LEMMA ChatTyped ==
    ASSUME SlipInv, NEW t \in Tasks, task[t].at # "idle"
    PROVE  /\ task[t] \in TaskRows /\ Follows(task[t]) /\ task[t].chat \in Chats
           /\ DataOf(t) \in Data
           /\ \A s \in {"none", "confirming", "correcting", "asking"} : SetState(t, s) => conv' \in [Chats -> ConvRows]
           /\ \A d \in Data : SetData(t, d) => conv' \in [Chats -> ConvRows]
<1>1. task[t] \in TaskRows /\ Follows(task[t]) /\ conv \in [Chats -> ConvRows]
    BY DEF SlipInv
<1>2. task[t].chat \in Chats
    BY <1>1 DEF Follows
<1>3. DataOf(t) \in Data
    BY <1>1, <1>2 DEF DataOf, ConvRows
<1>4. \A s \in {"none", "confirming", "correcting", "asking"} : SetState(t, s) => conv' \in [Chats -> ConvRows]
    BY <1>1, <1>2 DEF SetState, ConvRows
<1>5. \A d \in Data : SetData(t, d) => conv' \in [Chats -> ConvRows]
    BY <1>1, <1>2 DEF SetData, ConvRows
<1> QED BY <1>1, <1>2, <1>3, <1>4, <1>5

LEMMA Quiet ==
    ASSUME SlipInv, NEW t \in Tasks, task[t].at \in Stages \ {"clearState", "clearData"}
    PROVE  task[t] \in TaskRows /\ task[t].then = "idle" /\ task[t].chat \in Chats
BY DEF SlipInv, Follows, Stages, Sending, TaskRows

LEMMA MoveStep ==
    ASSUME SlipInv, NEW t \in Tasks, task[t].at \in Stages \ {"clearState", "clearData"}, NEW at \in Stages, Move(t, at),
           conv' \in [Chats -> ConvRows], req' = req, ever' = ever
    PROVE  SlipInv'
<1> DEFINE x == [task[t] EXCEPT !.at = at]
<1>1. x \in TaskRows /\ x.at \in Stages /\ x.then = "idle" /\ x.chat \in Chats
    BY Quiet DEF TaskRows, Stages
<1>2. task' = [task EXCEPT ![t] = x]
    BY DEF Move, SlipInv
<1> HIDE DEF x
<1> QED BY <1>1, <1>2, GoStep

LEMMA PhotoStep ==
    ASSUME SlipInv, NEW t \in Tasks, NEW c \in Chats, Photo(t, c)
    PROVE  SlipInv'
<1>1. PICK m \in PhotosOf[c], read \in {"partly", "fully"} :
          Start(t, "store", c, [msg |-> m, fields |-> [of |-> m, read |-> read]])
    BY DEF Photo
<1>2. m \in Numbers
    BY SlipAssumption
<1>3. [msg |-> m, fields |-> [of |-> m, read |-> read]] \in Data
    BY <1>2 DEF Data, Fields
<1>4. conv' \in [Chats -> ConvRows]
    BY DEF Photo, SlipInv, ConvRows
<1> QED BY <1>1, <1>3, <1>4, StartStep DEF Photo, intakeVars, Stages

LEMMA TapStep ==
    ASSUME SlipInv, NEW t \in Tasks, NEW c \in Chats, Tap(t, c)
    PROVE  SlipInv'
<1>1. PICK at \in Stages : Start(t, at, c, NoData)
    BY DEF Tap, Stages
<1>2. conv' \in [Chats -> ConvRows]
    BY DEF Tap, SlipInv
<1> QED BY <1>1, <1>2, StartStep, DataTyped DEF Tap, intakeVars

\* Handlers that send nothing.
LEMMA QuietSteps ==
    ASSUME SlipInv, NEW t \in Tasks,
           \/ StoreSlip(t) \/ SelectField(t) \/ CopyData(t) \/ NameField(t) \/ AskNextDate(t)
           \/ ReadFields(t) \/ ReturnToConfirm(t) \/ WriteFields(t)
    PROVE  SlipInv'
<1>0. /\ task[t].at \in Stages \ {"clearState", "clearData"} /\ task[t].at # "idle"
      /\ req' = req /\ ever' = ever
    BY DEF StoreSlip, SelectField, CopyData, NameField, AskNextDate, ReadFields, ReturnToConfirm, WriteFields,
           Stages, intakeVars
<1>1. /\ task[t] \in TaskRows /\ DataOf(t) \in Data
      /\ task[t].data \in Data /\ task[t].fields \in Fields \cup {NoFields}
      /\ task \in [Tasks -> TaskRows]
    BY <1>0, ChatTyped DEF TaskRows, SlipInv
<1>2. CASE StoreSlip(t)
    <2>1. conv' \in [Chats -> ConvRows]
        BY <1>0, <1>1, <1>2, ChatTyped DEF StoreSlip, Write, PhotoData
    <2> QED BY <1>0, <1>2, <2>1, EndStep DEF StoreSlip
<1>3. CASE SelectField(t)
    <2>1. conv' \in [Chats -> ConvRows]
        BY <1>0, <1>3, ChatTyped DEF SelectField
    <2> QED BY <1>0, <1>3, <2>1, MoveStep DEF SelectField, Stages
<1>4. CASE CopyData(t)
    <2>1. PICK at \in Stages : task' = [task EXCEPT ![t] = [task[t] EXCEPT !.at = at, !.data = DataOf(t)]]
        BY <1>1, <1>4, ZenonT(30) DEF CopyData, Stages
    <2> DEFINE x == [task[t] EXCEPT !.at = at, !.data = DataOf(t)]
    <2>2. x \in TaskRows /\ x.at \in Stages /\ x.then = "idle" /\ x.chat \in Chats
        BY <1>0, <1>1, Quiet, ZenonT(30) DEF TaskRows, Stages
    <2>3. conv' \in [Chats -> ConvRows]
        BY <1>4 DEF CopyData, SlipInv
    <2> HIDE DEF x
    <2> QED BY <1>0, <2>1, <2>2, <2>3, GoStep DEF x
<1>5. CASE NameField(t)
    <2>1. conv' \in [Chats -> ConvRows]
        BY <1>0, <1>1, <1>5, ChatTyped DEF NameField, Write
    <2> QED BY <1>0, <1>5, <2>1, MoveStep, EndStep DEF NameField, Stages
<1>6. CASE AskNextDate(t)
    <2>1. conv' \in [Chats -> ConvRows]
        BY <1>0, <1>6, ChatTyped DEF AskNextDate
    <2> QED BY <1>0, <1>6, <2>1, EndStep DEF AskNextDate
<1>7. CASE ReadFields(t)
    <2>1. conv' \in [Chats -> ConvRows]
        BY <1>7 DEF ReadFields, SlipInv
    <2>2. CASE End(t)
        BY <1>0, <2>1, <2>2, EndStep
    <2>3. CASE /\ DataOf(t).fields # NoFields
               /\ \E read \in {"partly", "corrected"} :
                     task' = [task EXCEPT ![t].at = "return", ![t].fields = [DataOf(t).fields EXCEPT !.read = read]]
        <3>1. PICK read \in {"partly", "corrected"} :
                     task' = [task EXCEPT ![t].at = "return", ![t].fields = [DataOf(t).fields EXCEPT !.read = read]]
            BY <2>3
        <3> DEFINE f == [DataOf(t).fields EXCEPT !.read = read]
        <3>2. f \in Fields
            BY <1>1, <2>3 DEF Data, Fields
        <3> DEFINE x == [task[t] EXCEPT !.at = "return", !.fields = f]
        <3>3. task' = [task EXCEPT ![t] = x]
            BY <1>1, <3>1
        <3> HIDE DEF f
        <3>4. x \in TaskRows /\ x.at \in Stages /\ x.then = "idle" /\ x.chat \in Chats
            BY <1>0, <1>1, <3>2, Quiet DEF TaskRows, Stages
        <3> HIDE DEF x
        <3> QED BY <1>0, <2>1, <3>3, <3>4, GoStep
    <2> QED BY <1>7, <2>2, <2>3 DEF ReadFields
<1>8. CASE ReturnToConfirm(t)
    <2>1. conv' \in [Chats -> ConvRows]
        BY <1>0, <1>8, ChatTyped DEF ReturnToConfirm
    <2> QED BY <1>0, <1>8, <2>1, MoveStep DEF ReturnToConfirm, Stages
<1>9. CASE WriteFields(t)
    <2>1. [task[t].data EXCEPT !.fields = task[t].fields] \in Data
        BY <1>1 DEF Data
    <2>2. conv' \in [Chats -> ConvRows]
        BY <1>0, <1>9, <2>1, ChatTyped DEF WriteFields
    <2> QED BY <1>0, <1>9, <2>2, EndStep DEF WriteFields
<1> QED BY <1>2, <1>3, <1>4, <1>5, <1>6, <1>7, <1>8, <1>9

\* Handlers on the way to a request, and at the end of one.
LEMMA ConfirmSteps ==
    ASSUME SlipInv, NEW t \in Tasks, ReadData(t) \/ LookupPlates(t) \/ ClearState(t) \/ ClearData(t)
    PROVE  SlipInv'
<1>0. /\ task[t].at \in Stages \cup {"lookup"} /\ task[t].at # "idle"
      /\ req' = req /\ ever' = ever
    BY DEF ReadData, LookupPlates, ClearState, ClearData, Stages, intakeVars
<1>1. /\ task[t] \in TaskRows /\ Follows(task[t]) /\ task[t].chat \in Chats /\ DataOf(t) \in Data
      /\ task \in [Tasks -> TaskRows]
    BY <1>0, ChatTyped DEF SlipInv
<1>2. ASSUME NEW x \in TaskRows, task' = [task EXCEPT ![t] = x], conv' \in [Chats -> ConvRows],
             x.at \in {"lookup", "clearState", "clearData", "submit"}, x.chat = task[t].chat,
             x.at = "submit" => x.then = "submit",
             x.at = "lookup" => x.then = "idle",
             x.at = "lookup" \/ x.then = "submit" => Complete(x.data)
      PROVE  SlipInv'
    <2>1. Follows(x) /\ x.at # "waiting"
        BY <1>1, <1>2 DEF Follows, Sending
    <2> QED BY <1>0, <1>2, <2>1, TaskStep
<1>3. CASE ReadData(t)
    <2>1. conv' \in [Chats -> ConvRows]
        BY <1>3 DEF ReadData, SlipInv
    <2>2. task[t].then = "idle"
        BY <1>1, <1>3 DEF ReadData, Follows, Sending, TaskRows
    <2>3. CASE Complete(DataOf(t))
        <3> DEFINE x == [task[t] EXCEPT !.at = "lookup", !.data = DataOf(t)]
        <3>1. /\ x \in TaskRows /\ x.at = "lookup" /\ x.then = "idle" /\ x.data = DataOf(t)
              /\ x.chat = task[t].chat
            BY <1>1, <2>2 DEF TaskRows
        <3>2. task' = [task EXCEPT ![t] = x]
            BY <1>1, <1>3, <2>3 DEF ReadData
        <3> HIDE DEF x
        <3> QED BY <1>2, <2>1, <2>3, <3>1, <3>2
    <2>4. CASE ~Complete(DataOf(t))
        <3> DEFINE x == [task[t] EXCEPT !.at = "clearState", !.then = "idle"]
        <3>1. x \in TaskRows /\ x.at = "clearState" /\ x.then = "idle" /\ x.chat = task[t].chat
            BY <1>1 DEF TaskRows
        <3>2. task' = [task EXCEPT ![t] = x]
            BY <1>1, <1>3, <2>4 DEF ReadData, ClearThen
        <3> HIDE DEF x
        <3> QED BY <1>2, <2>1, <3>1, <3>2
    <2> QED BY <2>3, <2>4
<1>4. CASE LookupPlates(t)
    <2>1. conv' \in [Chats -> ConvRows]
        BY <1>4 DEF LookupPlates, SlipInv
    <2>2. CASE End(t)
        BY <1>0, <2>1, <2>2, EndStep
    <2>3. CASE ClearThen(t, "submit")
        <3> DEFINE x == [task[t] EXCEPT !.at = "clearState", !.then = "submit"]
        <3>1. /\ x \in TaskRows /\ x.at = "clearState" /\ x.then = "submit"
              /\ x.data = task[t].data /\ x.chat = task[t].chat
            BY <1>1 DEF TaskRows
        <3>2. task' = [task EXCEPT ![t] = x]
            BY <1>1, <2>3 DEF ClearThen
        <3>3. Complete(task[t].data)
            BY <1>1, <1>4 DEF Follows, LookupPlates
        <3> HIDE DEF x
        <3> QED BY <1>2, <2>1, <3>1, <3>2, <3>3
    <2> QED BY <1>4, <2>2, <2>3 DEF LookupPlates
<1>5. /\ task[t].then \in {"idle", "submit"}
      /\ task[t].then = "submit" => Complete(task[t].data)
    BY <1>1 DEF TaskRows, Follows
<1>6. CASE ClearState(t)
    <2>1. conv' \in [Chats -> ConvRows]
        BY <1>0, <1>6, ChatTyped DEF ClearState
    <2> DEFINE x == [task[t] EXCEPT !.at = "clearData"]
    <2>2. /\ x \in TaskRows /\ x.at = "clearData" /\ x.then = task[t].then
          /\ x.data = task[t].data /\ x.chat = task[t].chat
        BY <1>1 DEF TaskRows
    <2>3. task' = [task EXCEPT ![t] = x]
        BY <1>1, <1>6 DEF ClearState, Move
    <2> HIDE DEF x
    <2> QED BY <1>2, <1>5, <2>1, <2>2, <2>3
<1>7. CASE ClearData(t)
    <2>1. conv' \in [Chats -> ConvRows]
        BY <1>0, <1>7, ChatTyped, DataTyped DEF ClearData
    <2>2. CASE task[t].then = "idle"
        BY <1>0, <1>7, <2>1, <2>2, EndStep DEF ClearData
    <2>3. CASE task[t].then = "submit"
        <3> DEFINE x == [task[t] EXCEPT !.at = "submit"]
        <3>1. /\ x \in TaskRows /\ x.at = "submit" /\ x.then = "submit"
              /\ x.data = task[t].data /\ x.chat = task[t].chat
            BY <1>1, <2>3 DEF TaskRows, Sending
        <3>2. task' = [task EXCEPT ![t] = x]
            BY <1>1, <1>7, <2>3 DEF ClearData, Move
        <3> HIDE DEF x
        <3> QED BY <1>2, <1>5, <2>1, <2>3, <3>1, <3>2
    <2> QED BY <1>5, <2>2, <2>3
<1> QED BY <1>3, <1>4, <1>6, <1>7

LEMMA LeaveSteps ==
    ASSUME SlipInv, NEW t \in Tasks, GiveUp(t) \/ Told(t)
    PROVE  SlipInv'
<1>1. conv' \in [Chats -> ConvRows] /\ req' = req /\ ever' = ever /\ End(t)
    BY DEF GiveUp, Told, SlipInv, intakeVars
<1> QED BY <1>1, EndStep

LEMMA RestartStep ==
    ASSUME SlipInv, Restart
    PROVE  SlipInv'
<1>1. IdleTask \in TaskRows /\ IdleTask.at = "idle" /\ IdleTask.then = "idle"
    BY DataTyped DEF IdleTask, TaskRows
<1>2. \A t \in Tasks : task'[t] = IdleTask
    BY DEF Restart
<1>3. \A t \in Tasks : Follows(task[t])'
    BY <1>1, <1>2 DEF Follows, Sending
<1>4. OneWaits'
    BY <1>1, <1>2 DEF OneWaits, Mine
<1>5. task' \in [Tasks -> TaskRows] /\ conv' = conv
    BY <1>1 DEF Restart
<1> QED BY <1>3, <1>4, <1>5 DEF SlipInv

LEMMA SubmitStep ==
    ASSUME IntakeInv, SlipInv, NEW t \in Tasks, Submit(t)
    PROVE  IntakeInv' /\ NotYours /\ SlipInv'
<1> DEFINE body == Payload(task[t].chat, task[t].data)
<1>1. PICK r \in Requests : /\ Send(r, NoKey, body)
                            /\ task' = [task EXCEPT ![t].at = "waiting", ![t].req = r]
    BY DEF Submit
<1>2. /\ task \in [Tasks -> TaskRows] /\ task[t] \in TaskRows /\ Follows(task[t]) /\ task[t].at = "submit"
    BY DEF SlipInv, Submit
<1>3. task[t].chat \in Chats /\ task[t].data \in Data /\ Complete(task[t].data) /\ task[t].then = "submit"
    BY <1>2 DEF Follows, Sending, TaskRows
<1>4. body \in Bodies
    BY <1>3, PayloadTyped
<1>5. IntakeInv' /\ NotYours
    BY <1>1, <1>4, SendStep
<1> DEFINE x == [task[t] EXCEPT !.at = "waiting", !.req = r]
<1>6. /\ x \in TaskRows /\ x.at = "waiting" /\ x.req = r /\ x.then = "submit"
      /\ x.chat = task[t].chat /\ x.data = task[t].data
    BY <1>2, <1>3 DEF TaskRows, Sending
<1>7. task' = [task EXCEPT ![t] = x]
    BY <1>1, <1>2
<1>8. task' \in [Tasks -> TaskRows] /\ task'[t] = x /\ \A u \in Tasks \ {t} : task'[u] = task[u]
    BY <1>2, <1>6, <1>7
<1>9. /\ req[r].at = "idle" /\ req'[r].at = "sent" /\ req'[r].key = NoKey /\ req'[r].body = body
      /\ \A q \in Requests \ {r} : req'[q] = req[q]
    <2>1. req[r] = IdleReq /\ req' = [req EXCEPT ![r] = [IdleReq EXCEPT !.at = "sent", !.key = NoKey, !.body = body]]
        BY <1>1 DEF Send
    <2> HIDE DEF body
    <2> QED BY <2>1 DEF IntakeInv, IdleReq
<1>10. ever' = ever /\ conv' = conv
    BY <1>1 DEF Send, Submit
<1>11. \A u \in Tasks : task[u].at = "waiting" => task[u].req # r
    BY <1>9 DEF SlipInv, Follows
<1>12. \A u \in Tasks : Follows(task[u])'
    <2> SUFFICES ASSUME NEW u \in Tasks PROVE Follows(task[u])'
        OBVIOUS
    <2>1. CASE u = t
        <3> HIDE DEF x
        <3> QED BY <1>3, <1>6, <1>8, <1>9, <1>10, <2>1 DEF Follows, Sending
    <2>2. CASE u # t
        <3>1. task'[u] = task[u] /\ Follows(task[u])
            BY <1>8, <2>2 DEF SlipInv
        <3>2. task[u].at = "waiting" => req'[task[u].req] = req[task[u].req]
            BY <1>9, <1>11, <3>1 DEF Follows
        <3> QED BY <1>10, <3>1, <3>2 DEF Follows, Met
    <2> QED BY <2>1, <2>2
<1>13. OneWaits'
    <2> HIDE DEF x
    <2> QED BY <1>6, <1>8, <1>11 DEF SlipInv, OneWaits, Mine
<1> QED BY <1>5, <1>8, <1>10, <1>12, <1>13 DEF SlipInv

\* The answer to a handler is about his own trip.
LEMMA HearStep ==
    ASSUME IntakeInv, SlipInv, NEW t \in Tasks, Hear(t)
    PROVE  IntakeInv' /\ NotYours /\ SlipInv'
<1> DEFINE r == task[t].req
<1>1. /\ task \in [Tasks -> TaskRows] /\ task[t] \in TaskRows /\ Follows(task[t]) /\ task[t].at = "waiting"
      /\ conv' = conv /\ conv \in [Chats -> ConvRows]
    BY DEF SlipInv, Hear
<1>2. /\ r \in Requests /\ req[r].at = "answered" /\ req[r].key = NoKey
      /\ req[r].body = Payload(task[t].chat, task[t].data)
      /\ task[t].then = "submit" /\ Complete(task[t].data)
      /\ task[t].chat \in Chats /\ task[t].data \in Data
    BY <1>1 DEF Hear, Follows, Sending, TaskRows
<1>3. Done(r)
    BY DEF Hear
<1>4. IntakeInv' /\ NotYours
    BY <1>2, <1>3, DoneStep
<1>5. ever' = ever /\ \A q \in Requests \ {r} : req'[q] = req[q]
    BY <1>2, <1>3 DEF Done, IntakeInv
<1>6. \A u \in Tasks \ {t} : task[u].at = "waiting" => task[u].req # r
    BY <1>1 DEF SlipInv, OneWaits, Mine
<1>7. ASSUME NEW x \in TaskRows, task' = [task EXCEPT ![t] = x], x.at # "waiting", Follows(x)
      PROVE  SlipInv'
    <2>1. task' \in [Tasks -> TaskRows] /\ task'[t] = x /\ \A u \in Tasks \ {t} : task'[u] = task[u]
        BY <1>1, <1>7
    <2>2. \A u \in Tasks : Follows(task[u])'
        <3> SUFFICES ASSUME NEW u \in Tasks PROVE Follows(task[u])'
            OBVIOUS
        <3>1. CASE u = t
            BY <1>5, <1>7, <2>1, <3>1 DEF Follows, Met
        <3>2. CASE u # t
            <4>1. task'[u] = task[u] /\ Follows(task[u])
                BY <2>1, <3>2 DEF SlipInv
            <4>2. task[u].at = "waiting" => req'[task[u].req] = req[task[u].req]
                BY <1>5, <1>6, <3>2, <4>1 DEF Follows
            <4> QED BY <1>5, <4>1, <4>2 DEF Follows, Met
        <3> QED BY <3>1, <3>2
    <2>3. OneWaits'
        BY <1>7, <2>1 DEF SlipInv, OneWaits, Mine
    <2> QED BY <1>1, <2>1, <2>2, <2>3 DEF SlipInv
<1>8. CASE req[r].answer.says \in {"stored", "replayed"}
    <2> DEFINE says == req[r].answer.says
               x == [task[t] EXCEPT !.at = says, !.req = 0]
    <2>1. task' = [task EXCEPT ![t] = x]
        BY <1>1, <1>8 DEF Hear, Reply
    <2>2. /\ x \in TaskRows /\ x.at = says /\ x.chat = task[t].chat /\ x.data = task[t].data
          /\ x.then = task[t].then
        BY <1>1, <1>8 DEF TaskRows, Sending
    <2>3. Fits(req[r])
        BY <1>2 DEF IntakeInv
    <2>4. req[r].body.ep \in Calling
        BY <1>2, PayloadTyped
    <2>5. \E i \in DOMAIN ever : ever[i] = Payload(x.chat, x.data)
        <3>1. req[r].answer.trip \in DOMAIN ever /\ ever[req[r].answer.trip] = req[r].body
            BY <1>2, <1>8, <2>3, <2>4 DEF Fits
        <3> QED BY <1>2, <2>2, <3>1
    <2>6. x.at \in {"stored", "replayed"}
        BY <1>8, <2>2
    <2> HIDE DEF x, says
    <2>7. x.at # "waiting" /\ Follows(x)
        BY <1>2, <2>2, <2>5, <2>6 DEF Follows, Sending
    <2> QED BY <1>4, <1>7, <2>1, <2>2, <2>7
<1>9. CASE Reply(req[r]) = "already"
    <2> DEFINE x == [task[t] EXCEPT !.at = "already", !.req = 0]
    <2>1. task' = [task EXCEPT ![t] = x]
        BY <1>1, <1>9 DEF Hear
    <2>2. /\ x \in TaskRows /\ x.at = "already" /\ x.chat = task[t].chat /\ x.data = task[t].data
          /\ x.then = task[t].then
        BY <1>1 DEF TaskRows, Sending
    <2>3. Fits(req[r])
        BY <1>2 DEF IntakeInv
    <2>4. Met(req[r].body)
        BY <1>2, <1>8, <1>9, <2>3 DEF Fits, Reply
    <2> HIDE DEF x
    <2>5. x.at # "waiting" /\ Follows(x)
        BY <1>2, <2>2, <2>4 DEF Follows, Sending
    <2> QED BY <1>4, <1>7, <2>1, <2>2, <2>5
<1>10. CASE Reply(req[r]) = "idle"
    <2>1. IdleTask \in TaskRows /\ Follows(IdleTask) /\ IdleTask.at # "waiting"
        BY DataTyped DEF IdleTask, TaskRows, Follows, Sending
    <2> QED BY <1>4, <1>7, <1>10, <2>1 DEF Hear, End
<1> QED BY <1>8, <1>9, <1>10 DEF Reply

CallsTyped == \E plan \in OtherCalls : calls \subseteq plan

\* Other clients do not touch a request that a handler waits for.
LEMMA OtherClientStep ==
    ASSUME IntakeInv, SlipInv, CallsTyped, OtherClient
    PROVE  IntakeInv' /\ NotYours /\ SlipInv' /\ CallsTyped'
<1>0. UNCHANGED <<conv, task>> /\ req \in [Requests -> RequestRows]
    BY DEF OtherClient, IntakeInv
<1>1. ASSUME NEW r \in Requests, NEW c \in calls, Send(r, c.key, c.body), calls' = calls \ {c}
      PROVE  IntakeInv' /\ NotYours /\ SlipInv' /\ CallsTyped'
    <2>1. c.key \in Keys \cup {NoKey} /\ c.body \in Bodies
        BY SlipAssumption DEF CallsTyped
    <2>2. IntakeInv' /\ NotYours
        BY <1>1, <2>1, SendStep
    <2>3. req[r].at = "idle" /\ ever' = ever /\ \A q \in Requests \ {r} : req'[q] = req[q]
        BY <1>0, <1>1 DEF Send, IdleReq
    <2>4. \A t \in Tasks : task[t].at = "waiting" => task[t].req \in Requests \ {r}
        BY <2>3 DEF SlipInv, Follows
    <2>5. SlipInv'
        BY <1>0, <2>3, <2>4, OtherStep
    <2>6. CallsTyped'
        BY <1>1 DEF CallsTyped
    <2> QED BY <2>2, <2>5, <2>6
<1>2. ASSUME NEW r \in Requests, \A t \in Tasks : ~Mine(t, r), Done(r), calls' = calls
      PROVE  IntakeInv' /\ NotYours /\ SlipInv' /\ CallsTyped'
    <2>1. IntakeInv' /\ NotYours
        BY <1>2, DoneStep
    <2>2. ever' = ever /\ \A q \in Requests \ {r} : req'[q] = req[q]
        BY <1>0, <1>2 DEF Done
    <2>3. \A t \in Tasks : task[t].at = "waiting" => task[t].req \in Requests \ {r}
        BY <1>2 DEF SlipInv, Follows, Mine
    <2>4. SlipInv'
        BY <1>0, <2>2, <2>3, OtherStep
    <2> QED BY <1>2, <2>1, <2>4 DEF CallsTyped
<1> QED BY <1>1, <1>2 DEF OtherClient

LEMMA TripServiceStep ==
    ASSUME IntakeInv, SlipInv, CallsTyped, TripService
    PROVE  IntakeInv' /\ NotYours /\ SlipInv' /\ CallsTyped'
<1>0. UNCHANGED <<conv, task, calls>>
    BY DEF TripService, convVars
<1>1. CallsTyped'
    BY <1>0 DEF CallsTyped
<1>2. \A t \in Tasks : task[t].at = "waiting" => task[t].req \in Requests
    BY DEF SlipInv, Follows
<1>3. CASE Maintain
    <2>1. req' = req /\ ever' = ever
        BY <1>3 DEF Maintain, Expire, HardDelete
    <2>2. SlipInv'
        BY <1>0, <2>1, OtherStep
    <2> QED BY <1>1, <1>3, <2>2, MaintainStep
<1>4. ASSUME NEW r \in Requests, ServeStep(r)
      PROVE  IntakeInv' /\ NotYours /\ SlipInv'
    <2>1. IntakeInv' /\ NotYours
        BY <1>4, ServeStepInv
    <2>2. SlipInv'
        BY <1>0, <1>2, <1>4, ServeKeeps, OtherStep
    <2> QED BY <2>1, <2>2
<1> QED BY <1>1, <1>3, <1>4 DEF TripService

-----------------------------------------------------------------------------
(* All of it.                                                              *)

IInv == IntakeInv /\ SlipInv /\ CallsTyped

LEMMA IntakeStays ==
    ASSUME IntakeInv, UNCHANGED intakeVars
    PROVE  IntakeInv' /\ NotYours
<1>1. ever' = ever /\ alive' = alive /\ records' = records /\ req' = req
    BY DEF intakeVars
<1>2. IntakeInv'
    BY <1>1 DEF IntakeInv, Fits, Met, OneHolder, UniqueReferences, KeyOf
<1>3. \A r \in Requests : req[r].at \in Working => req'[r].answer.says = "nothing"
    BY <1>1, NothingSaid
<1> QED BY <1>2, <1>3 DEF NotYours

LEMMA NextStep == IInv /\ Next => IInv' /\ NotYours
<1> SUFFICES ASSUME IInv, Next PROVE IInv' /\ NotYours
    OBVIOUS
<1>0. IntakeInv /\ SlipInv /\ CallsTyped
    BY DEF IInv
<1>1. ASSUME UNCHANGED intakeVars, calls' = calls, SlipInv' PROVE IInv' /\ NotYours
    BY <1>0, <1>1, IntakeStays DEF IInv, CallsTyped
<1>2. ASSUME NEW t \in Tasks, NEW c \in Chats, Photo(t, c) \/ Tap(t, c) PROVE IInv' /\ NotYours
    <2>1. SlipInv'
        BY <1>0, <1>2, PhotoStep, TapStep
    <2>2. UNCHANGED intakeVars /\ calls' = calls
        BY <1>2 DEF Photo, Tap
    <2> QED BY <1>1, <2>1, <2>2
<1>3. ASSUME NEW t \in Tasks, BotStep(t) PROVE IInv' /\ NotYours
    <2>1. CASE \/ StoreSlip(t) \/ SelectField(t) \/ CopyData(t) \/ NameField(t) \/ AskNextDate(t)
               \/ ReadFields(t) \/ ReturnToConfirm(t) \/ WriteFields(t)
        <3>1. SlipInv'
            BY <1>0, <2>1, QuietSteps
        <3>2. UNCHANGED intakeVars /\ calls' = calls
            BY <2>1 DEF StoreSlip, SelectField, CopyData, NameField, AskNextDate, ReadFields, ReturnToConfirm, WriteFields
        <3> QED BY <1>1, <3>1, <3>2
    <2>2. CASE ReadData(t) \/ LookupPlates(t) \/ ClearState(t) \/ ClearData(t)
        <3>1. SlipInv'
            BY <1>0, <2>2, ConfirmSteps
        <3>2. UNCHANGED intakeVars /\ calls' = calls
            BY <2>2 DEF ReadData, LookupPlates, ClearState, ClearData
        <3> QED BY <1>1, <3>1, <3>2
    <2>3. CASE GiveUp(t) \/ Told(t)
        <3>1. SlipInv'
            BY <1>0, <2>3, LeaveSteps
        <3>2. UNCHANGED intakeVars /\ calls' = calls
            BY <2>3 DEF GiveUp, Told
        <3> QED BY <1>1, <3>1, <3>2
    <2>4. CASE Submit(t)
        <3>1. calls' = calls
            BY <2>4 DEF Submit
        <3> QED BY <1>0, <2>4, <3>1, SubmitStep DEF IInv, CallsTyped
    <2>5. CASE Hear(t)
        <3>1. calls' = calls
            BY <2>5 DEF Hear
        <3> QED BY <1>0, <2>5, <3>1, HearStep DEF IInv, CallsTyped
    <2> QED BY <1>3, <2>1, <2>2, <2>3, <2>4, <2>5 DEF BotStep
<1>4. CASE Restart
    <2>1. SlipInv'
        BY <1>0, <1>4, RestartStep
    <2>2. UNCHANGED intakeVars /\ calls' = calls
        BY <1>4 DEF Restart
    <2> QED BY <1>1, <2>1, <2>2
<1>5. CASE OtherClient
    BY <1>0, <1>5, OtherClientStep DEF IInv
<1>6. CASE TripService
    BY <1>0, <1>6, TripServiceStep DEF IInv
<1> QED BY <1>2, <1>3, <1>4, <1>5, <1>6 DEF Next

LEMMA StutterStep == IInv /\ UNCHANGED vars => IInv' /\ NotYours
<1> SUFFICES ASSUME IInv, UNCHANGED vars PROVE IInv' /\ NotYours
    OBVIOUS
<1>1. UNCHANGED intakeVars /\ calls' = calls /\ conv' = conv /\ task' = task
    BY DEF vars, intakeVars
<1>2. IntakeInv' /\ NotYours
    BY <1>1, IntakeStays DEF IInv
<1>3. SlipInv'
    BY <1>1, OtherStep DEF IInv, intakeVars
<1> QED BY <1>1, <1>2, <1>3 DEF IInv, CallsTyped

LEMMA Always == Spec => []IInv
<1>1. Init => IInv
    BY IntakeInitInv, SlipInitInv DEF Init, IInv, CallsTyped
<1>2. IInv /\ [Next]_vars => IInv'
    BY NextStep, StutterStep
<1> QED BY <1>1, <1>2, PTL DEF Spec

\* A message never has two trips of one driver.
THEOREM OneTrip == Spec => []OneTripPerMessage
<1>1. IInv => OneTripPerMessage
    <2> SUFFICES ASSUME IInv, NEW i \in alive, NEW j \in alive,
                        ever[i].ep \in Calling, ever[j].ep \in Calling, ever[i].no = ever[j].no
                 PROVE  i = j
        BY DEF OneTripPerMessage, Calling
    <2>1. Reference(ever[i]) = {<<"tg", ever[i].no>>} /\ Reference(ever[j]) = {<<"tg", ever[i].no>>}
        BY DEF Reference, Calling
    <2> QED BY <2>1 DEF IInv, IntakeInv, UniqueReferences
<1> QED BY <1>1, Always, PTL

\* A driver who is told that his slip is in has a trip with what he confirmed; one who is
\* told that it is already there has met a trip with its number or its reference.
THEOREM AlwaysTruth == Spec => []ToldTheTruth
<1>1. IInv => ToldTheTruth
    BY DEF IInv, SlipInv, Follows, Met, ToldTheTruth
<1> QED BY <1>1, Always, PTL

\* A request is never in conflict with the record of its own payload.
THEOREM NoOwnConflict == Spec => ConflictIsNotYours
<1>1. IInv /\ [Next]_vars => [NotYours]_intakeVars
    BY NextStep, StutterStep
<1> QED BY <1>1, Always, PTL DEF Spec, ConflictIsNotYours, NotYours
-----------------------------------------------------------------------------
(* Slips of two photos.                                                    *)

Correcting == {"return", "merge", "correct"}

\* A slip with the message of its fields; without fields there is no message, and
\* a correction that was written over a cleared chat has none either.
Pure(d) == d.msg \in {0, d.fields.of}

\* A correction x and the data d of its chat are of one photo.
Matches(x, d) ==
    /\ x.fields.of # 0
    /\ d.fields.of \in {0, x.fields.of}
    /\ x.at = "correct" => x.data.msg \in {0, x.fields.of}

CorrectionsInv(c) ==
    /\ \A t \in Corrections(c) : Matches(task[t], conv[c].data)
    /\ \A t, u \in Corrections(c) : task[t].fields.of = task[u].fields.of

\* In a chat without a race: what the chat and its handlers hold is of one photo
\* each, and all corrections under way are of one photo.
ChatsInv ==
    /\ \A c \in Chats \ raced : Pure(conv[c].data) /\ CorrectionsInv(c)
    /\ \A t \in Tasks : task[t].chat \notin raced => Pure(task[t].data)

Unmixed(b) == (b.ep = "slip" /\ b.by \in Chats) => b.data.of = b.no \/ b.by \in raced

\* So is what the bot has sent, and it is all that is stored of its chats.
BodiesInv ==
    /\ \A r \in Requests : req[r].at # "idle" => Unmixed(req[r].body)
    /\ \A i \in DOMAIN ever : Unmixed(ever[i])

CallsUnmixed == \A c \in calls : c.body.ep = "slip" => c.body.by \notin Chats

RaceInv == ChatsInv /\ BodiesInv /\ CallsUnmixed

LEMMA OfTyped ==
    ASSUME NEW f \in Fields \cup {NoFields}
    PROVE  f # NoFields <=> f.of # 0
BY SlipAssumption DEF Fields, NoFields

LEMMA RaceInitInv == Init => RaceInv
<1> SUFFICES ASSUME Init PROVE RaceInv
    OBVIOUS
<1>1. Pure(NoData) /\ Pure([msg |-> 1, fields |-> [of |-> 1, read |-> "fully"]])
    BY DEF Pure, NoData, NoFields
<1>2. \A t \in Tasks : task[t] = IdleTask
    BY DEF Init
<1>3. \A c \in Chats : Corrections(c) = {} /\ Pure(conv[c].data)
    <2> SUFFICES ASSUME NEW c \in Chats PROVE Corrections(c) = {} /\ Pure(conv[c].data)
        OBVIOUS
    <2>1. conv[c] \in Conversations
        BY DEF Init
    <2> QED BY <1>1, <1>2, <2>1 DEF Conversations, Corrections, IdleTask
<1>4. ChatsInv
    BY <1>1, <1>2, <1>3 DEF ChatsInv, CorrectionsInv, IdleTask
<1>5. BodiesInv
    BY DEF Init, IntakeInit, IdleReq, BodiesInv
<1>6. CallsUnmixed
    BY SlipAssumption DEF Init, CallsUnmixed
<1> QED BY <1>4, <1>5, <1>6 DEF RaceInv

\* Whoever writes whatever to a chat, races are not forgotten.
LEMMA BodiesStay ==
    ASSUME BodiesInv, raced \subseteq raced', UNCHANGED intakeVars
    PROVE  BodiesInv'
<1>1. req' = req /\ ever' = ever
    BY DEF intakeVars
<1> QED BY <1>1 DEF BodiesInv, Unmixed

\* Handler t moves to x and leaves chat c with some data: what they are is of one
\* photo, and of that which others correct.
Respects(t, x, c) ==
    /\ \A e \in Chats \ {c} : conv'[e].data = conv[e].data
    /\ raced \subseteq raced'
    /\ c \notin raced' =>
          /\ Pure(conv'[c].data)
          /\ \A u \in Corrections(c) \ {t} : conv'[c].data.fields.of \in {0, task[u].fields.of}
    /\ x.chat \notin raced' => Pure(x.data)
    /\ x.at \in Correcting =>
          /\ x.chat = c
          /\ c \notin raced' => /\ Matches(x, conv'[c].data)
                                /\ \A u \in Corrections(c) \ {t} : task[u].fields.of = x.fields.of

LEMMA DataStep ==
    ASSUME SlipInv, ChatsInv, NEW t \in Tasks, NEW x \in TaskRows, task' = [task EXCEPT ![t] = x],
           NEW c \in Chats, Respects(t, x, c)
    PROVE  ChatsInv'
<1>1. task'[t] = x /\ \A u \in Tasks \ {t} : task'[u] = task[u]
    BY DEF SlipInv
<1> USE DEF Respects
<1>2. ASSUME NEW e \in Chats \ raced', e # c PROVE Pure(conv'[e].data) /\ CorrectionsInv(e)'
    <2>1. Pure(conv[e].data) /\ CorrectionsInv(e) /\ conv'[e].data = conv[e].data
        BY <1>2 DEF ChatsInv
    <2>2. Corrections(e)' = Corrections(e) \ {t}
        BY <1>1, <1>2 DEF Corrections, Correcting
    <2> QED BY <1>1, <2>1, <2>2 DEF CorrectionsInv, Corrections
<1>3. ASSUME c \notin raced' PROVE Pure(conv'[c].data) /\ CorrectionsInv(c)'
    <2>1. CorrectionsInv(c)
        BY <1>3 DEF ChatsInv
    <2>2. Corrections(c)' \subseteq Corrections(c) \cup {t} /\ Corrections(c) \subseteq Tasks
        BY <1>1 DEF Corrections
    <2>3. t \in Corrections(c)' => x.at \in Correcting
        BY <1>1 DEF Corrections, Correcting
    <2>4. \A u \in Corrections(c) \ {t} : Matches(task'[u], conv'[c].data)
        BY <1>1, <1>3, <2>1, <2>2 DEF CorrectionsInv, Matches
    <2>5. \A u \in Corrections(c)' : Matches(task'[u], conv'[c].data)
        BY <1>1, <1>3, <2>2, <2>3, <2>4
    <2>6. \A u, v \in Corrections(c)' : task'[u].fields.of = task'[v].fields.of
        BY <1>1, <1>3, <2>1, <2>2, <2>3 DEF CorrectionsInv
    <2> QED BY <1>3, <2>5, <2>6 DEF CorrectionsInv
<1>4. \A u \in Tasks : task'[u].chat \notin raced' => Pure(task'[u].data)
    BY <1>1 DEF ChatsInv
<1> QED BY <1>2, <1>3, <1>4 DEF ChatsInv

\* Without a change of data and of corrections.
LEMMA PlainStep ==
    ASSUME SlipInv, ChatsInv, NEW t \in Tasks, NEW x \in TaskRows, task' = [task EXCEPT ![t] = x],
           \A e \in Chats : conv'[e].data = conv[e].data, raced' = raced,
           x.at \notin Correcting, x.chat \notin raced => Pure(x.data)
    PROVE  ChatsInv'
<1>1. CASE Chats = {}
    <2>1. task'[t] = x /\ \A u \in Tasks \ {t} : task'[u] = task[u]
        BY DEF SlipInv
    <2>2. \A u \in Tasks : task'[u].chat \notin raced' => Pure(task'[u].data)
        BY <2>1 DEF ChatsInv
    <2> QED BY <1>1, <2>2 DEF ChatsInv
<1>2. ASSUME NEW c \in Chats PROVE ChatsInv'
    <2>1. c \notin raced => Pure(conv[c].data) /\ \A u \in Corrections(c) \ {t} : conv[c].data.fields.of \in {0, task[u].fields.of}
        BY DEF ChatsInv, CorrectionsInv, Matches
    <2>2. Respects(t, x, c)
        BY <2>1 DEF Respects
    <2> QED BY <2>2, DataStep
<1> QED BY <1>1, <1>2

LEMMA IdlePure == IdleTask \in TaskRows /\ IdleTask.at \notin Correcting /\ Pure(IdleTask.data)
BY DataTyped DEF IdleTask, TaskRows, Correcting, Pure, NoData, NoFields

LEMMA EndRace ==
    ASSUME SlipInv, ChatsInv, NEW t \in Tasks, End(t), \A e \in Chats : conv'[e].data = conv[e].data, raced' = raced
    PROVE  ChatsInv'
BY IdlePure, PlainStep DEF End

\* A state that is set leaves the data of all chats alone.
LEMMA StateOnly ==
    ASSUME SlipInv, NEW t \in Tasks, task[t].at # "idle", NEW s, SetState(t, s)
    PROVE  \A e \in Chats : conv'[e].data = conv[e].data
BY ChatTyped DEF SlipInv, SetState, ConvRows

LEMMA StartRace ==
    ASSUME SlipInv, ChatsInv, NEW t \in Tasks, NEW at \in Stages \ Correcting, NEW c \in Chats, NEW d \in Data, Pure(d),
           Start(t, at, c, d), \A e \in Chats : conv'[e].data = conv[e].data, raced' = raced
    PROVE  ChatsInv'
<1> DEFINE x == [IdleTask EXCEPT !.at = at, !.chat = c, !.data = d]
<1>1. x \in TaskRows /\ x.at \notin Correcting /\ x.data = d
    BY IdlePure DEF TaskRows, IdleTask, Stages
<1>2. task' = [task EXCEPT ![t] = x]
    BY DEF Start
<1> HIDE DEF x
<1> QED BY <1>1, <1>2, PlainStep

LEMMA BeginRaces ==
    ASSUME SlipInv, ChatsInv, NEW t \in Tasks, NEW c \in Chats, Photo(t, c) \/ Tap(t, c)
    PROVE  ChatsInv'
<1>1. CASE Photo(t, c)
    <2>1. PICK m \in PhotosOf[c], read \in {"partly", "fully"} :
              Start(t, "store", c, [msg |-> m, fields |-> [of |-> m, read |-> read]])
        BY <1>1 DEF Photo
    <2> DEFINE d == [msg |-> m, fields |-> [of |-> m, read |-> read]]
    <2>2. m \in Numbers
        BY SlipAssumption
    <2>3. d \in Data /\ Pure(d)
        BY <2>2 DEF Data, Fields, Pure
    <2>4. \A e \in Chats : conv'[e].data = conv[e].data
        BY <1>1 DEF Photo, SlipInv, ConvRows
    <2>5. Start(t, "store", c, d) /\ "store" \in Stages \ Correcting
        BY <2>1 DEF Stages, Correcting
    <2> HIDE DEF d
    <2> QED BY <1>1, <2>3, <2>4, <2>5, StartRace DEF Photo
<1>2. CASE Tap(t, c)
    <2>1. PICK at \in Stages \ Correcting : Start(t, at, c, NoData)
        BY <1>2 DEF Tap, Stages, Correcting
    <2> QED BY <1>2, <2>1, StartRace, DataTyped, IdlePure DEF Tap, IdleTask
<1> QED BY <1>1, <1>2

\* A handler that goes to another stage with its data, or with those of its chat.
LEMMA StageStep ==
    ASSUME SlipInv, ChatsInv, NEW t \in Tasks, task[t].at # "idle", NEW x \in TaskRows, task' = [task EXCEPT ![t] = x],
           x.chat = task[t].chat, x.data \in {task[t].data, DataOf(t)}, x.at \notin Correcting,
           \A e \in Chats : conv'[e].data = conv[e].data, raced' = raced
    PROVE  ChatsInv'
<1>1. task[t].chat \in Chats
    BY ChatTyped
<1>2. x.chat \notin raced => Pure(x.data)
    BY <1>1 DEF ChatsInv, DataOf
<1> QED BY <1>2, PlainStep

\* A whole slip is written: who corrects another one has lost a race.
LEMMA WriteStep ==
    ASSUME SlipInv, ChatsInv, NEW t \in Tasks, task[t].at \notin {"idle"} \cup Correcting,
           NEW x \in TaskRows, task' = [task EXCEPT ![t] = x], x.at \notin Correcting,
           Pure(x.data) \/ (x.data = task[t].data /\ x.chat = task[t].chat),
           Write(t, task[t].data)
    PROVE  ChatsInv'
<1> DEFINE c == task[t].chat
           d == task[t].data
<1>1. c \in Chats /\ conv \in [Chats -> ConvRows] /\ task \in [Tasks -> TaskRows]
    BY ChatTyped DEF SlipInv
<1>2. conv'[c].data = d /\ \A e \in Chats \ {c} : conv'[e].data = conv[e].data
    BY <1>1 DEF Write, SetData, ConvRows
<1>3. raced \subseteq raced'
    BY DEF Write
<1>4. c \notin raced' => /\ Pure(conv'[c].data)
                         /\ \A u \in Corrections(c) \ {t} : conv'[c].data.fields.of \in {0, task[u].fields.of}
    <2> SUFFICES ASSUME c \notin raced'
                 PROVE  Pure(d) /\ \A u \in Corrections(c) \ {t} : d.fields.of \in {0, task[u].fields.of}
        BY <1>2
    <2>1. c \notin raced
        BY <1>3
    <2>2. Pure(d)
        BY <2>1 DEF ChatsInv
    <2> QED BY <2>2 DEF Write
<1>5. x.chat \notin raced' => Pure(x.data)
    BY <1>2, <1>4
<1> HIDE DEF c, d
<1>6. Respects(t, x, c)
    BY <1>2, <1>3, <1>4, <1>5 DEF Respects
<1> QED BY <1>1, <1>6, DataStep

LEMMA QuietRaces ==
    ASSUME SlipInv, ChatsInv, NEW t \in Tasks,
           \/ StoreSlip(t) \/ SelectField(t) \/ CopyData(t) \/ NameField(t) \/ AskNextDate(t)
           \/ ReadFields(t) \/ ReturnToConfirm(t) \/ WriteFields(t)
    PROVE  ChatsInv'
<1>0. task[t].at \in Stages \ {"clearState", "clearData"} /\ task[t].at # "idle"
    BY DEF StoreSlip, SelectField, CopyData, NameField, AskNextDate, ReadFields, ReturnToConfirm, WriteFields, Stages
<1>1. /\ task[t] \in TaskRows /\ DataOf(t) \in Data /\ task[t].chat \in Chats
      /\ task[t].data \in Data /\ task[t].fields \in Fields \cup {NoFields}
      /\ task \in [Tasks -> TaskRows] /\ conv \in [Chats -> ConvRows]
    BY <1>0, ChatTyped DEF TaskRows, SlipInv
<1>2. CASE StoreSlip(t)
    <2>1. Write(t, task[t].data) /\ End(t) /\ task[t].at \notin {"idle"} \cup Correcting
        BY <1>2 DEF StoreSlip, PhotoData, Correcting
    <2> QED BY <2>1, IdlePure, WriteStep DEF End
<1>3. CASE SelectField(t)
    <2> DEFINE x == [task[t] EXCEPT !.at = "copy"]
    <2>1. x \in TaskRows /\ x.chat = task[t].chat /\ x.data = task[t].data /\ x.at \notin Correcting
        BY <1>1 DEF TaskRows, Correcting
    <2>2. task' = [task EXCEPT ![t] = x] /\ raced' = raced
        BY <1>1, <1>3 DEF SelectField, Move
    <2>3. \A e \in Chats : conv'[e].data = conv[e].data
        BY <1>0, <1>3, StateOnly DEF SelectField
    <2> HIDE DEF x
    <2> QED BY <1>0, <2>1, <2>2, <2>3, StageStep
<1>4. CASE CopyData(t) /\ task[t].at # "merge"
    <2>1. PICK at \in {"name", "dated"} : task' = [task EXCEPT ![t] = [task[t] EXCEPT !.at = at, !.data = DataOf(t)]]
        BY <1>1, <1>4 DEF CopyData
    <2> DEFINE x == [task[t] EXCEPT !.at = at, !.data = DataOf(t)]
    <2>2. x \in TaskRows /\ x.chat = task[t].chat /\ x.data = DataOf(t) /\ x.at \notin Correcting
        BY <1>1 DEF TaskRows, Correcting
    <2>3. (\A e \in Chats : conv'[e].data = conv[e].data) /\ raced' = raced
        BY <1>4 DEF CopyData
    <2>4. task' = [task EXCEPT ![t] = x]
        BY <2>1
    <2> HIDE DEF x
    <2> QED BY <1>0, <2>2, <2>3, <2>4, StageStep
<1>5. CASE CopyData(t) /\ task[t].at = "merge"
    <2> DEFINE c == task[t].chat
               x == [task[t] EXCEPT !.at = "correct", !.data = DataOf(t)]
    <2>1. task' = [task EXCEPT ![t] = x] /\ conv' = conv /\ raced' = raced
        BY <1>1, <1>5 DEF CopyData
    <2>2. /\ x \in TaskRows /\ x.chat = c /\ x.data = conv[c].data /\ x.fields = task[t].fields
          /\ x.at = "correct" /\ t \in Corrections(c)
        BY <1>1, <1>5 DEF TaskRows, DataOf, Corrections
    <2>3. c \notin raced => Pure(conv[c].data) /\ CorrectionsInv(c)
        BY <1>1 DEF ChatsInv
    <2> HIDE DEF x, c
    <2>4. c \notin raced => /\ Matches(x, conv[c].data)
                           /\ \A u \in Corrections(c) \ {t} :
                                task[u].fields.of = x.fields.of /\ conv[c].data.fields.of \in {0, task[u].fields.of}
        BY <2>2, <2>3 DEF CorrectionsInv, Matches, Pure
    <2>5. c \in Chats
        BY <1>1 DEF c
    <2>6. Respects(t, x, c)
        BY <2>1, <2>2, <2>3, <2>4 DEF Respects
    <2> QED BY <2>1, <2>2, <2>5, <2>6, DataStep
<1>6. CASE NameField(t)
    <2>1. Write(t, task[t].data) /\ task[t].at \notin {"idle"} \cup Correcting
        BY <1>6 DEF NameField, Correcting
    <2>2. CASE End(t)
        BY <2>1, <2>2, IdlePure, WriteStep DEF End
    <2>3. CASE Move(t, "remind")
        <3> DEFINE x == [task[t] EXCEPT !.at = "remind"]
        <3>1. x \in TaskRows /\ x.chat = task[t].chat /\ x.data = task[t].data /\ x.at \notin Correcting
            BY <1>1 DEF TaskRows, Correcting
        <3>2. task' = [task EXCEPT ![t] = x]
            BY <1>1, <2>3 DEF Move
        <3> HIDE DEF x
        <3> QED BY <1>1, <2>1, <3>1, <3>2, WriteStep
    <2> QED BY <1>6, <2>2, <2>3 DEF NameField
<1>7. CASE AskNextDate(t)
    BY <1>0, <1>7, StateOnly, EndRace DEF AskNextDate
<1>8. CASE ReadFields(t)
    <2>1. conv' = conv /\ raced' = raced
        BY <1>8 DEF ReadFields
    <2>2. CASE End(t)
        BY <2>1, <2>2, EndRace
    <2>3. ASSUME DataOf(t).fields # NoFields, NEW read \in {"partly", "corrected"},
                 task' = [task EXCEPT ![t].at = "return", ![t].fields = [DataOf(t).fields EXCEPT !.read = read]]
          PROVE  ChatsInv'
        <3> DEFINE c == task[t].chat
                   f == [DataOf(t).fields EXCEPT !.read = read]
                   x == [task[t] EXCEPT !.at = "return", !.fields = f]
        <3>1. f \in Fields /\ f.of = conv[c].data.fields.of /\ f.of # 0
            BY <1>1, <2>3, OfTyped DEF Data, Fields, DataOf
        <3>2. task' = [task EXCEPT ![t] = x]
            BY <1>1, <2>3
        <3> HIDE DEF f
        <3>3. x \in TaskRows /\ x.chat = c /\ x.data = task[t].data /\ x.fields = f /\ x.at = "return"
            BY <1>1, <3>1 DEF TaskRows
        <3>4. c \in Chats
            BY <1>1
        <3>5. c \notin raced => Pure(conv[c].data) /\ CorrectionsInv(c) /\ Pure(task[t].data)
            BY <1>1 DEF ChatsInv
        <3> HIDE DEF x, c
        <3>6. Matches(x, conv[c].data)
            BY <3>1, <3>3 DEF Matches
        <3>7. c \notin raced => \A u \in Corrections(c) \ {t} : task[u].fields.of = x.fields.of
            BY <3>1, <3>3, <3>5 DEF CorrectionsInv, Matches
        <3>8. c \notin raced => \A u \in Corrections(c) \ {t} : conv[c].data.fields.of \in {0, task[u].fields.of}
            BY <3>5 DEF CorrectionsInv, Matches
        <3>9. Respects(t, x, c)
            BY <2>1, <3>3, <3>5, <3>6, <3>7, <3>8 DEF Respects
        <3> QED BY <3>2, <3>3, <3>4, <3>9, DataStep
    <2> QED BY <1>8, <2>2, <2>3 DEF ReadFields
<1>9. CASE ReturnToConfirm(t)
    <2> DEFINE c == task[t].chat
               x == [task[t] EXCEPT !.at = "merge"]
    <2>1. task' = [task EXCEPT ![t] = x] /\ raced' = raced
        BY <1>1, <1>9 DEF ReturnToConfirm, Move
    <2>2. /\ x \in TaskRows /\ x.chat = c /\ x.data = task[t].data /\ x.fields = task[t].fields
          /\ x.at = "merge" /\ t \in Corrections(c)
        BY <1>1, <1>9 DEF TaskRows, Corrections, ReturnToConfirm
    <2>3. \A e \in Chats : conv'[e].data = conv[e].data
        BY <1>0, <1>9, StateOnly DEF ReturnToConfirm
    <2>4. c \in Chats
        BY <1>1
    <2>5. c \notin raced => Pure(conv[c].data) /\ CorrectionsInv(c) /\ Pure(task[t].data)
        BY <1>1 DEF ChatsInv
    <2> HIDE DEF x, c
    <2>6. c \notin raced => Matches(x, conv[c].data)
        BY <2>2, <2>5 DEF CorrectionsInv, Matches
    <2>7. c \notin raced => \A u \in Corrections(c) \ {t} :
              task[u].fields.of = x.fields.of /\ conv[c].data.fields.of \in {0, task[u].fields.of}
        BY <2>2, <2>5 DEF CorrectionsInv, Matches
    <2>8. Respects(t, x, c)
        BY <2>1, <2>2, <2>3, <2>4, <2>5, <2>6, <2>7 DEF Respects
    <2> QED BY <2>1, <2>2, <2>4, <2>8, DataStep
<1>10. CASE WriteFields(t)
    <2> DEFINE c == task[t].chat
               d == [task[t].data EXCEPT !.fields = task[t].fields]
    <2>1. End(t) /\ SetData(t, d) /\ raced' = raced
        BY <1>10 DEF WriteFields
    <2>2. t \in Corrections(c) /\ d.msg = task[t].data.msg /\ d.fields = task[t].fields
        BY <1>1, <1>10 DEF WriteFields, Corrections, Data
    <2>3. c \in Chats /\ conv'[c].data = d /\ \A e \in Chats \ {c} : conv'[e].data = conv[e].data
        BY <1>1, <2>1 DEF SetData, ConvRows
    <2>4. c \notin raced => CorrectionsInv(c)
        BY <1>1 DEF ChatsInv
    <2> HIDE DEF d, c
    <2>5. c \notin raced => Pure(d) /\ \A u \in Corrections(c) \ {t} : d.fields.of \in {0, task[u].fields.of}
        BY <1>10, <2>2, <2>4 DEF CorrectionsInv, Matches, Pure, WriteFields
    <2>6. Respects(t, IdleTask, c)
        BY <2>1, <2>3, <2>5, IdlePure DEF Respects
    <2> QED BY <2>1, <2>3, <2>6, IdlePure, DataStep DEF End
<1> QED BY <1>2, <1>3, <1>4, <1>5, <1>6, <1>7, <1>8, <1>9, <1>10

LEMMA ConfirmRaces ==
    ASSUME SlipInv, ChatsInv, NEW t \in Tasks, ReadData(t) \/ LookupPlates(t) \/ ClearState(t) \/ ClearData(t)
    PROVE  ChatsInv'
<1>0. task[t].at # "idle" /\ raced' = raced
    BY DEF ReadData, LookupPlates, ClearState, ClearData
<1>1. /\ task[t] \in TaskRows /\ task[t].chat \in Chats /\ DataOf(t) \in Data
      /\ task \in [Tasks -> TaskRows] /\ conv \in [Chats -> ConvRows]
    BY <1>0, ChatTyped DEF SlipInv
<1>2. ASSUME NEW at \in {"clearState", "clearData"}, NEW then \in {"idle", "submit"},
             task' = [task EXCEPT ![t].at = at, ![t].then = then], \A e \in Chats : conv'[e].data = conv[e].data
      PROVE  ChatsInv'
    <2> DEFINE x == [task[t] EXCEPT !.at = at, !.then = then]
    <2>1. x \in TaskRows /\ x.chat = task[t].chat /\ x.data = task[t].data /\ x.at \notin Correcting
        BY <1>1 DEF TaskRows, Correcting
    <2>2. task' = [task EXCEPT ![t] = x]
        BY <1>1, <1>2
    <2> HIDE DEF x
    <2> QED BY <1>0, <1>2, <2>1, <2>2, StageStep
<1>3. CASE ReadData(t)
    <2>1. CASE Complete(DataOf(t))
        <3> DEFINE x == [task[t] EXCEPT !.at = "lookup", !.data = DataOf(t)]
        <3>1. x \in TaskRows /\ x.chat = task[t].chat /\ x.data = DataOf(t) /\ x.at \notin Correcting
            BY <1>1 DEF TaskRows, Correcting
        <3>2. task' = [task EXCEPT ![t] = x] /\ conv' = conv
            BY <1>1, <1>3, <2>1 DEF ReadData
        <3> HIDE DEF x
        <3> QED BY <1>0, <3>1, <3>2, StageStep
    <2>2. CASE ~Complete(DataOf(t))
        BY <1>2, <1>3, <2>2 DEF ReadData, ClearThen
    <2> QED BY <2>1, <2>2
<1>4. CASE LookupPlates(t)
    BY <1>0, <1>2, <1>4, EndRace DEF LookupPlates, ClearThen
<1>5. CASE ClearState(t)
    <2>1. \A e \in Chats : conv'[e].data = conv[e].data
        BY <1>0, <1>5, StateOnly DEF ClearState
    <2>2. task' = [task EXCEPT ![t].at = "clearData", ![t].then = task[t].then]
        BY <1>1, <1>5 DEF ClearState, Move, TaskRows
    <2>3. task[t].then \in {"idle", "submit"}
        BY <1>1 DEF TaskRows
    <2> QED BY <1>2, <2>1, <2>2, <2>3
<1>6. CASE ClearData(t)
    <2> DEFINE c == task[t].chat
    <2>1. c \in Chats /\ conv'[c].data = NoData /\ \A e \in Chats \ {c} : conv'[e].data = conv[e].data
        BY <1>1, <1>6 DEF ClearData, SetData, ConvRows
    <2>2. NoData.fields.of = 0 /\ Pure(NoData)
        BY DEF NoData, NoFields, Pure
    <2>3. ASSUME NEW x \in TaskRows, task' = [task EXCEPT ![t] = x], x.at \notin Correcting,
                 x.chat \notin raced => Pure(x.data)
          PROVE  ChatsInv'
        <3>1. Respects(t, x, c)
            BY <1>0, <2>1, <2>2, <2>3 DEF Respects
        <3> QED BY <2>1, <2>3, <3>1, DataStep
    <2> HIDE DEF c
    <2>4. CASE task[t].then = "idle"
        BY <1>6, <2>3, <2>4, IdlePure DEF ClearData, End
    <2>5. CASE task[t].then = "submit"
        <3> DEFINE x == [task[t] EXCEPT !.at = "submit"]
        <3>1. x \in TaskRows /\ x.chat = task[t].chat /\ x.data = task[t].data /\ x.at \notin Correcting
            BY <1>1 DEF TaskRows, Correcting, Sending
        <3>2. task' = [task EXCEPT ![t] = x]
            BY <1>1, <1>6, <2>5 DEF ClearData, Move
        <3>3. x.chat \notin raced => Pure(x.data)
            BY <3>1 DEF ChatsInv
        <3> HIDE DEF x
        <3> QED BY <2>3, <3>1, <3>2, <3>3
    <2> QED BY <1>1, <2>4, <2>5 DEF TaskRows
<1> QED BY <1>3, <1>4, <1>5, <1>6

LEMMA RestartRaces ==
    ASSUME ChatsInv, Restart
    PROVE  ChatsInv'
<1>1. \A t \in Tasks : task'[t] = IdleTask
    BY DEF Restart
<1>2. conv' = conv /\ raced' = raced
    BY DEF Restart
<1>3. \A c \in Chats : Corrections(c)' = {}
    BY <1>1 DEF Corrections, IdleTask
<1> QED BY <1>1, <1>2, <1>3, IdlePure DEF ChatsInv, CorrectionsInv

\* A request is sent, taken back or goes on with what it was sent with.
LEMMA BodyStep ==
    ASSUME IntakeInv, BodiesInv, NEW r \in Requests, \A q \in Requests \ {r} : req'[q] = req[q], raced' = raced, ever' = ever,
           req'[r].at # "idle" => Unmixed(req'[r].body)
    PROVE  BodiesInv'
<1>1. \A q \in Requests : req'[q].at # "idle" => Unmixed(req'[q].body)
    BY DEF BodiesInv
<1> QED BY <1>1 DEF BodiesInv, Unmixed

\* What a handler sends is what it carries: the message of a slip is that of its fields.
LEMMA CarriesUnmixed ==
    ASSUME SlipInv, ChatsInv, NEW t \in Tasks, task[t].at = "submit"
    PROVE  Unmixed(Payload(task[t].chat, task[t].data))
<1>1. task[t].chat \in Chats /\ task[t].data \in Data /\ Complete(task[t].data)
    BY DEF SlipInv, Follows, Sending, TaskRows
<1>2. task[t].chat \notin raced => task[t].data.msg = task[t].data.fields.of
    BY <1>1 DEF ChatsInv, Pure, Complete
<1> QED BY <1>2 DEF Unmixed, Payload

LEMMA CallRaces ==
    ASSUME IntakeInv, SlipInv, ChatsInv, BodiesInv, NEW t \in Tasks, Submit(t) \/ Hear(t)
    PROVE  ChatsInv' /\ BodiesInv'
<1>0. /\ task[t].at # "idle" /\ conv' = conv /\ raced' = raced
    BY DEF Submit, Hear
<1>1. task[t] \in TaskRows /\ task \in [Tasks -> TaskRows] /\ req \in [Requests -> RequestRows]
    BY DEF SlipInv, IntakeInv
<1>2. CASE Submit(t)
    <2> DEFINE body == Payload(task[t].chat, task[t].data)
    <2>1. PICK r \in Requests : Send(r, NoKey, body) /\ task' = [task EXCEPT ![t].at = "waiting", ![t].req = r]
        BY <1>2 DEF Submit
    <2> DEFINE x == [task[t] EXCEPT !.at = "waiting", !.req = r]
    <2>2. x \in TaskRows /\ x.chat = task[t].chat /\ x.data = task[t].data /\ x.at \notin Correcting
        BY <1>1 DEF TaskRows, Correcting, Sending
    <2>3. task' = [task EXCEPT ![t] = x]
        BY <1>1, <2>1
    <2>4. Unmixed(body)
        BY <1>2, CarriesUnmixed DEF Submit
    <2> HIDE DEF x, body
    <2>5. ever' = ever /\ req'[r].body = body /\ \A q \in Requests \ {r} : req'[q] = req[q]
        BY <1>1, <2>1 DEF Send, IdleReq
    <2>6. BodiesInv'
        <3>1. Unmixed(req'[r].body)
            BY <2>4, <2>5
        <3> QED BY <1>0, <2>5, <3>1, BodyStep
    <2>7. ChatsInv'
        BY <1>0, <2>2, <2>3, StageStep
    <2> QED BY <2>6, <2>7
<1>3. CASE Hear(t)
    <2> DEFINE r == task[t].req
    <2>1. r \in Requests /\ Done(r)
        BY <1>3 DEF Hear, SlipInv, Follows
    <2>2. ever' = ever /\ req'[r].at = "idle" /\ \A q \in Requests \ {r} : req'[q] = req[q]
        BY <1>1, <2>1 DEF Done, IdleReq
    <2>3. BodiesInv'
        BY <1>0, <2>1, <2>2, BodyStep
    <2>4. CASE End(t)
        BY <1>0, <2>3, <2>4, EndRace
    <2>5. ASSUME NEW says \in {"stored", "replayed", "already"}, task' = [task EXCEPT ![t].at = says, ![t].req = 0]
          PROVE  ChatsInv'
        <3> DEFINE x == [task[t] EXCEPT !.at = says, !.req = 0]
        <3>1. x \in TaskRows /\ x.chat = task[t].chat /\ x.data = task[t].data /\ x.at \notin Correcting
            BY <1>1 DEF TaskRows, Correcting, Sending
        <3>2. task' = [task EXCEPT ![t] = x]
            BY <1>1, <2>5
        <3> HIDE DEF x
        <3> QED BY <1>0, <3>1, <3>2, StageStep
    <2> QED BY <1>3, <2>3, <2>4, <2>5 DEF Hear, Reply
<1> QED BY <1>2, <1>3

\* The trip service and other clients do not touch the chats.
LEMMA OthersRace ==
    ASSUME IntakeInv, BodiesInv, CallsUnmixed, OtherClient \/ TripService
    PROVE  BodiesInv' /\ CallsUnmixed'
<1>0. raced' = raced /\ req \in [Requests -> RequestRows] /\ ever \in Seq(Bodies)
    BY DEF OtherClient, TripService, convVars, IntakeInv
<1>1. CallsUnmixed'
    BY DEF OtherClient, TripService, convVars, CallsUnmixed
<1>2. CASE OtherClient
    <2>1. ASSUME NEW r \in Requests, NEW c \in calls, Send(r, c.key, c.body) PROVE BodiesInv'
        <3>1. ever' = ever /\ req'[r].body = c.body /\ \A q \in Requests \ {r} : req'[q] = req[q]
            BY <1>0, <2>1 DEF Send, IdleReq
        <3>2. Unmixed(c.body)
            BY DEF CallsUnmixed, Unmixed
        <3>3. Unmixed(req'[r].body)
            BY <3>1, <3>2
        <3> QED BY <1>0, <3>1, <3>3, BodyStep
    <2>2. ASSUME NEW r \in Requests, Done(r) PROVE BodiesInv'
        <3>1. ever' = ever /\ req'[r].at = "idle" /\ \A q \in Requests \ {r} : req'[q] = req[q]
            BY <1>0, <2>2 DEF Done, IdleReq
        <3> QED BY <1>0, <3>1, BodyStep
    <2> QED BY <1>1, <1>2, <2>1, <2>2 DEF OtherClient
<1>3. CASE Maintain
    <2>1. req' = req /\ ever' = ever
        BY <1>3 DEF Maintain, Expire, HardDelete
    <2> QED BY <1>0, <1>1, <2>1 DEF BodiesInv, Unmixed
<1>4. ASSUME NEW r \in Requests, ServeStep(r) PROVE BodiesInv'
    <2>1. req[r].at # "idle" /\ \A q \in Requests \ {r} : req'[q] = req[q]
        BY <1>4, ServesOne
    <2>2. req'[r].body = req[r].body /\ Unmixed(req[r].body)
        BY <1>4, <2>1, ServeKeeps DEF BodiesInv
    <2>3. \A q \in Requests : req'[q].at # "idle" => Unmixed(req'[q].body)
        BY <2>1, <2>2 DEF BodiesInv
    <2>4. \A i \in DOMAIN ever' : Unmixed(ever'[i])
        <3>1. CASE ever' = ever
            BY <3>1 DEF BodiesInv
        <3>2. CASE ever' = Append(ever, req[r].body) /\ req[r].body \in Bodies
            <4>1. \A i \in DOMAIN ever' : ever'[i] = req[r].body \/ (i \in DOMAIN ever /\ ever'[i] = ever[i])
                BY <1>0, <3>2
            <4> QED BY <2>2, <4>1 DEF BodiesInv
        <3> QED BY <1>4, <3>1, <3>2, ServeStores
    <2> QED BY <1>0, <2>3, <2>4 DEF BodiesInv, Unmixed
<1> QED BY <1>1, <1>2, <1>3, <1>4 DEF TripService

LEMMA RaceStep == IInv /\ RaceInv /\ [Next]_vars => RaceInv'
<1> SUFFICES ASSUME IInv, RaceInv, [Next]_vars PROVE RaceInv'
    OBVIOUS
<1>0. IntakeInv /\ SlipInv /\ ChatsInv /\ BodiesInv /\ CallsUnmixed
    BY DEF IInv, RaceInv
<1>1. ASSUME UNCHANGED intakeVars, calls' = calls, raced \subseteq raced', ChatsInv' PROVE RaceInv'
    BY <1>0, <1>1, BodiesStay DEF RaceInv, CallsUnmixed
<1>2. ASSUME NEW t \in Tasks, NEW c \in Chats, Photo(t, c) \/ Tap(t, c) PROVE RaceInv'
    <2>1. UNCHANGED intakeVars /\ calls' = calls /\ raced' = raced
        BY <1>2 DEF Photo, Tap
    <2> QED BY <1>0, <1>1, <1>2, <2>1, BeginRaces
<1>3. ASSUME NEW t \in Tasks, BotStep(t) PROVE RaceInv'
    <2>1. CASE \/ StoreSlip(t) \/ SelectField(t) \/ CopyData(t) \/ NameField(t) \/ AskNextDate(t)
               \/ ReadFields(t) \/ ReturnToConfirm(t) \/ WriteFields(t)
        <3>1. UNCHANGED intakeVars /\ calls' = calls /\ raced \subseteq raced'
            BY <2>1 DEF StoreSlip, SelectField, CopyData, NameField, AskNextDate, ReadFields, ReturnToConfirm,
                        WriteFields, Write
        <3> QED BY <1>0, <1>1, <2>1, <3>1, QuietRaces
    <2>2. CASE ReadData(t) \/ LookupPlates(t) \/ ClearState(t) \/ ClearData(t)
        <3>1. UNCHANGED intakeVars /\ calls' = calls /\ raced' = raced
            BY <2>2 DEF ReadData, LookupPlates, ClearState, ClearData
        <3> QED BY <1>0, <1>1, <2>2, <3>1, ConfirmRaces
    <2>3. CASE GiveUp(t) \/ Told(t)
        <3>1. UNCHANGED intakeVars /\ calls' = calls /\ raced' = raced /\ conv' = conv /\ End(t)
            BY <2>3 DEF GiveUp, Told
        <3> QED BY <1>0, <1>1, <3>1, EndRace
    <2>4. CASE Submit(t) \/ Hear(t)
        <3>1. calls' = calls
            BY <2>4 DEF Submit, Hear
        <3> QED BY <1>0, <2>4, <3>1, CallRaces DEF RaceInv, CallsUnmixed
    <2> QED BY <1>3, <2>1, <2>2, <2>3, <2>4 DEF BotStep
<1>4. CASE Restart
    <2>1. UNCHANGED intakeVars /\ calls' = calls /\ raced' = raced
        BY <1>4 DEF Restart
    <2> QED BY <1>0, <1>1, <1>4, <2>1, RestartRaces
<1>5. CASE OtherClient \/ TripService
    <2>1. conv' = conv /\ task' = task /\ raced' = raced
        BY <1>5 DEF OtherClient, TripService, convVars
    <2>2. ChatsInv'
        BY <1>0, <2>1 DEF ChatsInv, CorrectionsInv, Corrections
    <2> QED BY <1>0, <1>5, <2>2, OthersRace DEF RaceInv
<1>6. CASE UNCHANGED vars
    <2>1. UNCHANGED intakeVars /\ calls' = calls /\ raced' = raced /\ conv' = conv /\ task' = task
        BY <1>6 DEF vars, intakeVars
    <2>2. ChatsInv'
        BY <1>0, <2>1 DEF ChatsInv, CorrectionsInv, Corrections
    <2> QED BY <1>1, <2>1, <2>2
<1> QED BY <1>2, <1>3, <1>4, <1>5, <1>6 DEF Next

\* Whatever handlers, photos, corrections, restarts and late requests there are: a trip
\* has the message of one photo and the fields of another only if the slip of one was
\* stored while a correction of the other was being written back.
THEOREM MixedInARace == Spec => []MixedOnlyByRace
<1>1. Init => RaceInv
    BY RaceInitInv
<1>2. RaceInv => MixedOnlyByRace
    BY DEF RaceInv, BodiesInv, Unmixed, MixedOnlyByRace
<1> QED BY <1>1, <1>2, RaceStep, Always, PTL DEF Spec

=============================================================================
