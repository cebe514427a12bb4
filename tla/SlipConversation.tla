--------------------------- MODULE SlipConversation ---------------------------
(***************************************************************************)
(* The slip conversation of the Telegram bot (handlers/slip.py) with the   *)
(* trip service behind it.  aiogram handles updates as concurrent tasks    *)
(* without isolation: a task checks the state of the chat, waits for       *)
(* Telegram or another service, and then reads or writes the chat as it is *)
(* by then.  In production the chats are in Redis, the state under one key *)
(* and the data under another, and update_data is a read of all data       *)
(* followed by a write of all data.  The requests of TripIntake go on when *)
(* the bot gives up on them after ten seconds or restarts.                 *)
(***************************************************************************)
EXTENDS TripIntake

CONSTANTS Tasks,      \* handlers under way at a time
          Chats,      \* the drivers whose conversations are followed
          PhotosOf,   \* the messages of each chat that are photos of slips
          OtherCalls, \* what other clients may send: sets of calls [nth, key, body]
          MaxTaps     \* bound on the updates of the chats and the calls of others

VARIABLES sent,   \* the photos of each chat so far
          conv,   \* the FSM state and data of each chat
          task,   \* the handlers, with their copies of the data
          raced,  \* chats that were given another slip between the read and the write of a correction
          taps,   \* updates and calls so far
          calls   \* the calls of other clients still to come

convVars == <<sent, conv, task, raced, taps, calls>>
vars == <<ever, alive, records, req, sent, conv, task, raced, taps, calls>>

\* What the bot has read on the photo of a message: not all of the slip, all of
\* it, or all of it with a correction.  A chat that was cleared has no message.
Fields == [of: Numbers, read: {"partly", "fully", "corrected"}]
NoFields == [of |-> 0, read |-> "partly"]
NoData == [msg |-> 0, fields |-> NoFields]
Data == [msg: Numbers \cup {0}, fields: Fields \cup {NoFields}]
Complete(d) == d.msg # 0 /\ d.fields # NoFields

ASSUME SlipAssumption ==
    /\ Chats \subseteq Drivers /\ Fields \subseteq Contents
    /\ 1 \in Numbers /\ 0 \notin Numbers
    /\ PhotosOf \in [Chats -> SUBSET Numbers]
    /\ \A plan \in OtherCalls :
        /\ plan \subseteq [nth: Nat, key: Keys \cup {NoKey}, body: Bodies]
        /\ \A c \in plan : c.body.ep = "slip" => c.body.by \notin Chats  \* those come from the bot

IdleTask == [at |-> "idle", chat |-> 0, then |-> "idle", data |-> NoData, fields |-> NoFields, req |-> 0]

TypeOK ==
    /\ ever \in Seq(Bodies) /\ Len(ever) <= MaxTrips
    /\ alive \subseteq DOMAIN ever
    /\ \A k \in DOMAIN records : records[k].trip \in DOMAIN ever
    /\ \A r \in Requests : req[r].answer.trip \in DOMAIN ever \cup {0}
    /\ \A c \in Chats : sent[c] \subseteq PhotosOf[c]
    /\ conv \in [Chats -> [state: {"none", "confirming", "correcting", "asking"}, data: Data]]
    /\ \A t \in Tasks : task[t].data \in Data /\ task[t].fields \in Fields \cup {NoFields}
    /\ raced \subseteq Chats
    /\ taps \in 0 .. MaxTaps
    /\ \E plan \in OtherCalls : calls \subseteq plan

\* The chats a bot that starts may find in Redis.
Conversations ==
    {[state |-> "none", data |-> NoData],
     [state |-> "confirming", data |-> [msg |-> 1, fields |-> [of |-> 1, read |-> "fully"]]]}

Init ==
    /\ IntakeInit
    /\ conv \in [Chats -> Conversations]
    /\ sent = [c \in Chats |-> IF conv[c].data = NoData THEN {} ELSE {conv[c].data.msg}]
    /\ task = [t \in Tasks |-> IdleTask]
    /\ raced = {}
    /\ taps = 0
    /\ calls \in OtherCalls

-----------------------------------------------------------------------------
Start(t, stage, c, d) ==
    /\ task[t] = IdleTask
    /\ taps < MaxTaps /\ taps' = taps + 1
    /\ task' = [task EXCEPT ![t] = [IdleTask EXCEPT !.at = stage, !.chat = c, !.data = d]]
Move(t, stage) == task' = [task EXCEPT ![t].at = stage]
End(t) == task' = [task EXCEPT ![t] = IdleTask]

SetState(t, s) == conv' = [conv EXCEPT ![task[t].chat].state = s]
SetData(t, d) == conv' = [conv EXCEPT ![task[t].chat].data = d]
DataOf(t) == conv[task[t].chat].data

\* handle_photo: a slip has been read.  Photos of a chat may be finished in any
\* order; message numbers are those of the chat.
Photo(t, c) ==
    \E m \in PhotosOf[c] \ sent[c], read \in {"partly", "fully"} :
        /\ Start(t, "store", c, [msg |-> m, fields |-> [of |-> m, read |-> read]])
        /\ sent' = [sent EXCEPT ![c] = @ \cup {m}]
        /\ conv' = [conv EXCEPT ![c].state = "confirming"]
        /\ UNCHANGED <<raced, calls, intakeVars>>

\* The corrections of the chat that have been read and not yet written back.
Corrections(c) == {t \in Tasks : task[t].chat = c /\ task[t].at \in {"return", "merge", "correct"}}

\* set_data of a whole slip.
Write(t, d) ==
    /\ SetData(t, d)
    /\ raced' = IF \E u \in Corrections(task[t].chat) : d.fields.of \notin {0, task[u].fields.of}
                THEN raced \cup {task[t].chat} ELSE raced

FirstMessage(t, d) == IF DataOf(t).msg = 0 THEN d ELSE [d EXCEPT !.msg = DataOf(t).msg]

\* update_data with the fields, the driver and the message of a photo.
PhotoData(t, d) == d

StoreSlip(t) ==
    /\ task[t].at = "store"
    /\ Write(t, PhotoData(t, task[t].data)) /\ End(t)
    /\ UNCHANGED <<sent, taps, calls, intakeVars>>

\* A tap on a keyboard, old or new, is dispatched while the chat is confirming, a
\* text while it is correcting or asked for the dates of a statement; a command
\* begins a statement unless it is taken for a correction.
Tap(t, c) ==
    /\ \/ conv[c].state = "confirming" /\ \E stage \in {"confirm", "clearState", "select"} : Start(t, stage, c, NoData)
       \/ conv[c].state = "correcting" /\ Start(t, "value", c, NoData)
       \/ conv[c].state = "asking" /\ \E stage \in {"date", "clearState"} : Start(t, stage, c, NoData)
       \/ conv[c].state # "correcting" /\ Start(t, "ask", c, NoData)
    /\ UNCHANGED <<sent, conv, raced, calls, intakeVars>>

\* handle_cancel goes straight to clear(), which resets the state and then the data, whatever they are by then.
ClearThen(t, stage) == task' = [task EXCEPT ![t].at = "clearState", ![t].then = stage]

\* handle_confirm reads the data; without a slip the chat is cleared.
ReadData(t) ==
    /\ task[t].at = "confirm"
    /\ IF Complete(DataOf(t)) THEN task' = [task EXCEPT ![t].at = "lookup", ![t].data = DataOf(t)]
                              ELSE ClearThen(t, "idle")
    /\ UNCHANGED <<sent, conv, raced, taps, calls, intakeVars>>

\* The plates are looked up: with both found the chat is cleared and the slip
\* sent, otherwise the driver is asked to check the plate and nothing changes.
LookupPlates(t) ==
    /\ task[t].at = "lookup"
    /\ ClearThen(t, "submit") \/ End(t)
    /\ UNCHANGED <<sent, conv, raced, taps, calls, intakeVars>>

ClearState(t) ==
    /\ task[t].at = "clearState"
    /\ SetState(t, "none") /\ Move(t, "clearData")
    /\ UNCHANGED <<sent, raced, taps, calls, intakeVars>>

ClearData(t) ==
    /\ task[t].at = "clearData"
    /\ SetData(t, NoData)
    /\ IF task[t].then = "idle" THEN End(t) ELSE Move(t, task[t].then)
    /\ UNCHANGED <<sent, raced, taps, calls, intakeVars>>

\* handle_field_select and cmd_seferlerim: set_state, and update_data with the name
\* of the field or the driver.  handle_date_from does them the other way round.
SelectField(t) ==
    /\ task[t].at \in {"select", "ask"}
    /\ SetState(t, IF task[t].at = "ask" THEN "asking" ELSE "correcting")
    /\ Move(t, "copy")
    /\ UNCHANGED <<sent, raced, taps, calls, intakeVars>>

CopyData(t) ==
    /\ task[t].at \in {"copy", "date", "merge"}
    /\ task' = [task EXCEPT ![t].data = DataOf(t),
                           ![t].at = CASE @ = "copy" -> "name" [] @ = "date" -> "dated" [] @ = "merge" -> "correct"]
    /\ UNCHANGED <<sent, conv, raced, taps, calls, intakeVars>>

NameField(t) ==
    /\ task[t].at \in {"name", "dated"}
    /\ Write(t, task[t].data)
    /\ IF task[t].at = "dated" THEN Move(t, "remind") ELSE End(t)
    /\ UNCHANGED <<sent, taps, calls, intakeVars>>

AskNextDate(t) ==
    /\ task[t].at = "remind"
    /\ SetState(t, "asking") /\ End(t)
    /\ UNCHANGED <<sent, raced, taps, calls, intakeVars>>

\* handle_field_value: get_data (which raises without fields, and the value may not
\* be a number), set_state, and update_data with the corrected fields.
ReadFields(t) ==
    /\ task[t].at = "value"
    /\ \/ End(t)
       \/ DataOf(t).fields # NoFields /\ \E read \in {"partly", "corrected"} :
              task' = [task EXCEPT ![t].at = "return", ![t].fields = [DataOf(t).fields EXCEPT !.read = read]]
    /\ UNCHANGED <<sent, conv, raced, taps, calls, intakeVars>>

ReturnToConfirm(t) ==
    /\ task[t].at = "return"
    /\ SetState(t, "confirming") /\ Move(t, "merge")
    /\ UNCHANGED <<sent, raced, taps, calls, intakeVars>>

WriteFields(t) ==
    /\ task[t].at = "correct"
    /\ SetData(t, [task[t].data EXCEPT !.fields = task[t].fields]) /\ End(t)
    /\ UNCHANGED <<sent, raced, taps, calls, intakeVars>>

\* The payload of ingest_slip or, for an incomplete slip, of ingest_fallback,
\* which names the moment of the photo instead of its fields.
Payload(c, data) ==
    IF data.fields.read = "partly"
    THEN [ep |-> "fallback", by |-> c, no |-> data.msg, data |-> [of |-> data.msg, read |-> "partly"]]
    ELSE [ep |-> "slip", by |-> c, no |-> data.msg, data |-> data.fields]

\* The reference and the slip number are the message; no Idempotency-Key is sent.
Submit(t) ==
    /\ task[t].at = "submit"
    /\ \E r \in Requests :
        /\ Send(r, NoKey, Payload(task[t].chat, task[t].data))
        /\ task' = [task EXCEPT ![t].at = "waiting", ![t].req = r]
    /\ UNCHANGED <<sent, conv, raced, taps, calls>>

Mine(t, r) == task[t].at = "waiting" /\ task[t].req = r

\* What the driver reads: a conflict is taken for a repetition of his own slip, but
\* by the fallback for an error like any other.
Reply(x) ==
    CASE x.answer.says \in {"stored", "replayed"} -> x.answer.says
      [] x.answer.says = "conflict" /\ x.body.ep = "slip" -> "already"
      [] OTHER -> "idle"

\* The answer arrives and the driver is told.
Hear(t) ==
    /\ task[t].at = "waiting" /\ req[task[t].req].at = "answered"
    /\ LET reply == Reply(req[task[t].req])
       IN IF reply # "idle" THEN task' = [task EXCEPT ![t].at = reply, ![t].req = 0]
                            ELSE End(t)
    /\ Done(task[t].req)
    /\ UNCHANGED <<sent, conv, raced, taps, calls>>

\* No answer within the timeout, or none of the requests can be sent.
GiveUp(t) ==
    /\ task[t].at \in {"submit", "waiting"}
    /\ End(t)
    /\ UNCHANGED <<sent, conv, raced, taps, calls, intakeVars>>

Told(t) ==
    /\ task[t].at \in {"stored", "replayed", "already"}
    /\ End(t)
    /\ UNCHANGED <<sent, conv, raced, taps, calls, intakeVars>>

\* The bot restarts in the middle of its handlers; the chats are in Redis.
Restart ==
    /\ \E t \in Tasks : task[t] # IdleTask
    /\ task' = [t \in Tasks |-> IdleTask]
    /\ UNCHANGED <<sent, conv, raced, taps, calls, intakeVars>>

\* The importer, the administration and other chats send, and nobody hears answers to
\* requests that were given up.
OtherClient ==
    /\ \/ /\ taps < MaxTaps /\ taps' = taps + 1
          /\ \E r \in Requests, c \in calls : Send(r, c.key, c.body) /\ calls' = calls \ {c}
       \/ \E r \in Requests : (\A t \in Tasks : ~Mine(t, r)) /\ Done(r) /\ UNCHANGED <<calls, taps>>
    /\ UNCHANGED <<sent, conv, task, raced>>

TripService == (Maintain \/ \E r \in Requests : ServeStep(r)) /\ UNCHANGED convVars

BotStep(t) ==
    \/ StoreSlip(t) \/ ReadData(t) \/ LookupPlates(t) \/ ClearState(t) \/ ClearData(t)
    \/ SelectField(t) \/ CopyData(t) \/ NameField(t) \/ AskNextDate(t)
    \/ ReadFields(t) \/ ReturnToConfirm(t) \/ WriteFields(t)
    \/ Submit(t) \/ Hear(t) \/ GiveUp(t) \/ Told(t)

Next ==
    \/ \E t \in Tasks, c \in Chats : Photo(t, c) \/ Tap(t, c)
    \/ \E t \in Tasks : BotStep(t)
    \/ Restart
    \/ OtherClient
    \/ TripService

Spec == Init /\ [][Next]_vars

-----------------------------------------------------------------------------
\* Trips that the trip service takes for one: a number or a reference in common.
Resembles(b, e) == TripNo(b) \cap TripNo(e) # {} \/ Reference(b) \cap Reference(e) # {}

\* A driver who is told that his slip is in, or that it awaits completion, has a
\* trip of his own with the data he confirmed: no reply to a double tap, an older
\* attempt or a slip of another chat with the same message number is taken for it.
\* One who is told that it is already in the system has at least met a trip with
\* its number or its reference, if not his own.
ToldTheTruth ==
    \A t \in Tasks :
        LET slip == Payload(task[t].chat, task[t].data)
        IN /\ task[t].at \in {"stored", "replayed"} => \E i \in DOMAIN ever : ever[i] = slip
           /\ task[t].at = "already" => \E i \in DOMAIN ever : Resembles(slip, ever[i])

\* Photos, corrections and taps of a chat overtake each other: a trip combines the
\* message of one photo with the fields of another only if the slip of one was stored
\* while a correction of the other was being written back.
MixedOnlyByRace ==
    \A i \in DOMAIN ever : ever[i].ep = "slip" /\ ever[i].by \in Chats =>
        \/ ever[i].data.of = ever[i].no
        \/ ever[i].by \in raced

\* At most one trip of a driver stands for a message, whichever endpoint, repetition
\* or late request stored it.
OneTripPerMessage ==
    \A i, j \in alive :
        /\ {ever[i].ep, ever[j].ep} \subseteq {"slip", "fallback"}
        /\ ever[i].by = ever[j].by /\ ever[i].no = ever[j].no
        => i = j

-----------------------------------------------------------------------------
(* What the code does not ensure: TLC refutes it.                          *)

\* A driver who is told "This slip is already in the system" has sent the slip of
\* that message before: some trip of his stands for it, or has stood.
AlreadyIsHisOwn ==
    \A t \in Tasks : task[t].at = "already" =>
        \E i \in DOMAIN ever : /\ ever[i].ep \in {"slip", "fallback"}
                               /\ ever[i].by = task[t].chat /\ ever[i].no = task[t].data.msg
=============================================================================
