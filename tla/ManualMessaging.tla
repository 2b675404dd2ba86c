--------------------------- MODULE ManualMessaging ---------------------------
(***************************************************************************)
(* Manual messaging, packages/database/src/manual-messaging.ts, over the   *)
(* lead of the internal pilot: an operator prepares a WhatsApp message,    *)
(* opens it, confirms what became of it and records the reply. An event is *)
(* two steps: exactEligibleContact takes the advisory locks of the lead    *)
(* and then the rows of run, association, lead and contact (LockMessage);  *)
(* the event is checked against those already there and inserted           *)
(* (RecordMessage), or answered without a write (AnswerMessage).           *)
(*                                                                         *)
(* The local console of scripts/manual-whatsapp-console.ts is a client of  *)
(* that API: it keeps the preparations of its session in a map, resolves   *)
(* the contact over its own connection, and shows the link only after the  *)
(* API answered that the opening is recorded. Its calls time out after ten *)
(* seconds while the API may still commit them; a restart loses the map.   *)
(***************************************************************************)
EXTENDS InternalPilot

CONSTANTS
  MessageKeys,      \* idempotency keys of preparations, one preparation each
  MessageRun,       \* the pilot run the messages belong to
  Operators         \* principals; "console" is the local console's

ASSUME ManualMessagingAssumption == MessageRun \in PilotRuns

VARIABLES
  prepared,         \* pilot_manual_message_preparations: who and fp (contactFingerprint)
  messages,         \* pilot_manual_message_events of each preparation, in order
  messageTx,        \* the transaction that holds the lead: who, key, type and result
  session,          \* the console's map: preparations it was answered
  consoleCall,      \* the call the console waits for: key, type, result and fp
  link              \* fingerprint of the contact whose link the console showed; 0 is none

messageVars == <<prepared, messages, messageTx, session, consoleCall, link>>

ConfirmResults == {"SENT_CONFIRMED", "NOT_SENT", "INVALID_CONTACT", "CHANNEL_UNAVAILABLE", "OPERATIONAL_ERROR"}
ReplyResults == {"POSITIVE_REPLY", "NEGATIVE_REPLY", "OPT_OUT"}
MessageRequests ==
  [type : {"OPENED"}, result : {"NONE"}]
    \cup [type : {"CONTACT_CONFIRMED"}, result : ConfirmResults]
    \cup [type : {"RESPONSE_RECORDED"}, result : ReplyResults]

NoPreparation == [who |-> "NONE", fp |-> 0]
NoMessageTx == [who |-> "NONE", key |-> "NONE", type |-> "NONE", result |-> "NONE"]
NoCall == [key |-> "NONE", type |-> "NONE", result |-> "NONE", fp |-> 0]

MessageInit ==
  /\ prepared = [k \in MessageKeys |-> NoPreparation]
  /\ messages = [k \in MessageKeys |-> <<>>]
  /\ messageTx = NoMessageTx
  /\ session = {} /\ consoleCall = NoCall
  /\ link = [k \in MessageKeys |-> 0]

\* The WHERE of exactEligibleContact and of resolve_narrow_contact for WHATSAPP
MessageEligible ==
  /\ pilotRun[MessageRun].status = "RUNNING"
  /\ seat[MessageRun] > 0 /\ review[MessageRun].decision = "APPROVED"
  /\ ~SuppressedFor(lead, optOuts, "WHATSAPP")
  /\ HasUsableContact
  /\ authorization = "GRANTED"

\* What exactEligibleContact waits for: the advisory locks, then the rows.
MessageRowsFree == SuppressionFree /\ RunRowFree(MessageRun)

\* validatePreparedSnapshot: the stored snapshot still renders to what was prepared, of
\* which the contact's fingerprint is what may change.
SnapshotStands(k) == contact.fp = prepared[k].fp

\* prepareManualMessage with a new key. A known key is answered, after the same
\* checks, from the persisted snapshot; EMAIL ends in EMAIL_CONSUMER_UNAVAILABLE.
PrepareMessage(who, k) ==
  /\ prepared[k] = NoPreparation
  /\ MessageRowsFree
  /\ MessageEligible
  /\ prepared' = [prepared EXCEPT ![k] = [who |-> who, fp |-> contact.fp]]
  /\ UNCHANGED <<messages, messageTx, leadVars, pilotVars>>

\* Fault: the eligibility is read before the locks of the lead are taken.
LockMessageUnlocked(who, k, request) ==
  /\ messageTx = NoMessageTx
  /\ prepared[k] # NoPreparation
  /\ MessageRowsFree
  /\ MessageEligible
  /\ request.type = "OPENED" => SnapshotStands(k)
  /\ messageTx' = [who |-> who, key |-> k, type |-> request.type, result |-> request.result]
  /\ UNCHANGED <<leadVars, prepared, messages, pilotVars>>

\* event(): the preparation, then the locks of the lead and the eligibility under
\* them; an opening also needs the contact the message was prepared for.
LockMessage(who, k, request) ==
  /\ messageTx = NoMessageTx
  /\ prepared[k] # NoPreparation
  /\ MessageRowsFree
  /\ MessageEligible
  /\ request.type = "OPENED" => SnapshotStands(k)
  /\ messageTx' = [who |-> who, key |-> k, type |-> request.type, result |-> request.result]
  /\ rowLock' = "message" /\ msgLock' = "message"
  /\ UNCHANGED <<lead, contact, optOuts, authorization, timeline, prepared, messages, pilotVars>>

Told(k, type) == \E i \in 1 .. Len(messages[k]) : messages[k][i].type = type
Confirmed(k, result) ==
  \E i \in 1 .. Len(messages[k]) : messages[k][i].type = "CONTACT_CONFIRMED" /\ messages[k][i].result = result

\* The transitions, which the trigger and the unique indexes of migration 0019 repeat
MessageInOrder(k, type) ==
  /\ ~Told(k, type) /\ ~Told(k, "RESPONSE_RECORDED")
  /\ type = "OPENED" => ~Told(k, "CONTACT_CONFIRMED")
  /\ type = "CONTACT_CONFIRMED" => Told(k, "OPENED")
  /\ type = "RESPONSE_RECORDED" => Confirmed(k, "SENT_CONFIRMED")

EndMessageTx ==
  /\ messageTx' = NoMessageTx
  /\ rowLock' = "FREE" /\ msgLock' = "FREE"
  /\ UNCHANGED <<lead, contact, authorization, timeline, prepared, pilotVars>>

\* The event is inserted; the reply OPT_OUT inserts the opt-out with it.
RecordMessage ==
  LET k == messageTx.key IN
  /\ messageTx # NoMessageTx
  /\ MessageInOrder(k, messageTx.type)
  /\ messages' = [messages EXCEPT ![k] = Append(@, messageTx)]
  /\ optOuts' = optOuts \cup (IF messageTx.result = "OPT_OUT" THEN {"WHATSAPP"} ELSE {})
  /\ EndMessageTx

\* The event of that type is there: the same one is replayed, another is refused.
ReplaysMessage ==
  \E i \in 1 .. Len(messages[messageTx.key]) :
    /\ messages[messageTx.key][i] = messageTx
    /\ messageTx.type = "OPENED" => ~Told(messageTx.key, "CONTACT_CONFIRMED")

AnswerMessage ==
  /\ messageTx # NoMessageTx
  /\ UNCHANGED <<messages, optOuts>>
  /\ EndMessageTx

(***************************************************************************)
(* The console.                                                            *)
(***************************************************************************)
Calls(k, type) == consoleCall.key = k /\ consoleCall.type = type

\* The console reads an answer to the call it still waits for: an opening shows
\* the link it built from the resolved contact, a confirmation leaves the session.
ConsoleHears ==
  LET k == consoleCall.key IN
  /\ consoleCall' = NoCall
  /\ link' = IF consoleCall.type = "OPENED" THEN [link EXCEPT ![k] = consoleCall.fp] ELSE link
  /\ session' = IF consoleCall.type = "CONTACT_CONFIRMED" THEN session \ {k} ELSE session

ConsoleIdle == UNCHANGED <<session, consoleCall, link>>

\* The answer of the transaction reaches the console when it is the console's own.
Heard ==
  IF messageTx.who = "console" /\ Calls(messageTx.key, messageTx.type)
       /\ consoleCall.result = messageTx.result
    THEN ConsoleHears ELSE ConsoleIdle

\* POST /prepare: the answer, when it arrives, enters the map of the session.
ConsolePrepare(k) ==
  /\ PrepareMessage("console", k)
  /\ session' \in {session, session \cup {k}}
  /\ UNCHANGED <<consoleCall, link>>

\* resolveNarrowContact, and its answer against the fingerprint in the session
Resolves(k) == SuppressionFree /\ MessageEligible /\ contact.fp = prepared[k].fp

\* Fault: the link is shown as soon as the contact is resolved, before the API has recorded the opening.
ConsoleResolveAndShow(k) ==
  /\ k \in session /\ consoleCall = NoCall
  /\ Resolves(k)
  /\ consoleCall' = [key |-> k, type |-> "OPENED", result |-> "NONE", fp |-> contact.fp]
  /\ link' = [link EXCEPT ![k] = contact.fp]
  /\ UNCHANGED <<leadVars, pilotVars, prepared, messages, messageTx, session>>

\* POST /open: the contact is resolved before the API is asked to record the opening.
ConsoleResolve(k) ==
  /\ k \in session /\ consoleCall = NoCall
  /\ Resolves(k)
  /\ consoleCall' = [key |-> k, type |-> "OPENED", result |-> "NONE", fp |-> contact.fp]
  /\ UNCHANGED <<leadVars, pilotVars, prepared, messages, messageTx, session, link>>

\* The page of a preparation offers two of the results.
ConsoleResults == {"SENT_CONFIRMED", "NOT_SENT"}

\* POST /confirm
ConsoleConfirm(k, result) ==
  /\ k \in session /\ consoleCall = NoCall
  /\ consoleCall' = [key |-> k, type |-> "CONTACT_CONFIRMED", result |-> result, fp |-> 0]
  /\ UNCHANGED <<leadVars, pilotVars, prepared, messages, messageTx, session, link>>

\* The API starts on the console's call.
ConsoleSends ==
  /\ consoleCall # NoCall
  /\ LockMessage("console", consoleCall.key, [type |-> consoleCall.type, result |-> consoleCall.result])
  /\ ConsoleIdle

\* Ten seconds without an answer, a refusal, or an answer that is lost
ConsoleTimesOut ==
  /\ consoleCall # NoCall
  /\ consoleCall' = NoCall
  /\ UNCHANGED <<leadVars, pilotVars, prepared, messages, messageTx, session, link>>

ConsoleRestarts ==
  /\ session # {}
  /\ session' = {} /\ consoleCall' = NoCall
  /\ UNCHANGED <<leadVars, pilotVars, prepared, messages, messageTx, link>>

MessageNext ==
  \/ \E who \in Operators, k \in MessageKeys : PrepareMessage(who, k) /\ ConsoleIdle
  \/ \E who \in Operators, k \in MessageKeys, request \in MessageRequests :
       LockMessage(who, k, request) /\ ConsoleIdle
  \/ RecordMessage /\ Heard
  \/ AnswerMessage /\ (IF ReplaysMessage THEN Heard ELSE ConsoleIdle)
  \/ \E k \in MessageKeys : ConsolePrepare(k) \/ ConsoleResolve(k)
  \/ \E k \in MessageKeys, result \in ConsoleResults : ConsoleConfirm(k, result)
  \/ ConsoleSends \/ ConsoleTimesOut \/ ConsoleRestarts

\* Nothing is prepared, opened, confirmed or answered for a lead that is
\* suppressed, whose authorization is revoked or whose run has stopped at that very
\* moment, whatever committed between the eligibility check and the insert; and an
\* opening is for the spelling of the contact that the message was prepared for.
MessageRecordedWhileEligible ==
  [][\A k \in MessageKeys :
       messages'[k] # messages[k] \/ prepared'[k] # prepared[k] =>
         /\ MessageEligible
         /\ (messages[k] = <<>> /\ messages'[k] # <<>>) => contact.fp = prepared[k].fp]_<<messages, prepared>>

\* The link the operator sees is backed by the record: the opening is in the history
\* of the preparation and the link is that of the contact it was prepared for, after
\* any time-out, late commit, retry and restart; a history is a prefix of opening,
\* confirmation, reply; and a reply that opts out has left its opt-out.
LinkRestsOnTheRecord ==
  \A k \in MessageKeys :
    /\ link[k] # 0 => Told(k, "OPENED") /\ link[k] = prepared[k].fp
    /\ \A i \in 1 .. Len(messages[k]) :
         messages[k][i].type = <<"OPENED", "CONTACT_CONFIRMED", "RESPONSE_RECORDED">>[i]
    /\ (\E i \in 1 .. Len(messages[k]) : messages[k][i].result = "OPT_OUT") => "WHATSAPP" \in optOuts
=============================================================================
