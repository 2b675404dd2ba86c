---------------------------- MODULE OperatorTest ----------------------------
(***************************************************************************)
(* The operator's own channel test: the local console of                   *)
(* scripts/operator-test-console.ts asks the API (operator-test-routes.ts, *)
(* packages/database/src/operator-channel-test.ts) to record a preparation *)
(* and its opening, confirmation and reply, and redirects the browser to   *)
(* the WhatsApp link of its own configured phone once the opening is       *)
(* recorded. The two ends hold their own configuration; a keyed proof and  *)
(* a receipt (operator-test-recipient-binding.ts) tie them to one phone.   *)
(*                                                                         *)
(* A keyed digest is the value it digests, tagged with its key. Every      *)
(* handler of the API is one transaction under an advisory lock: one step. *)
(* The principal is the one behind the console's token.                    *)
(* A call stays on the wire until the API serves it, also after the        *)
(* console stopped waiting.                                                *)
(***************************************************************************)
EXTENDS Naturals, FiniteSets

CONSTANTS
  OpPhones,         \* phones an end may be configured with
  OpKeys,           \* idempotency keys of preparations; each is drawn once
  FingerprintKeys,  \* keys the API fingerprints with, one at a time
  MaxOnWire,        \* bound on the calls on the wire
  MaxReconfigured   \* bound on the restarts of either end with another configuration

VARIABLES
  opApi,            \* the API's runtime: phone ("NONE": disabled, kill switch, invalid), fk, bound
  opPreps,          \* operator_channel_test_preparations: fk, key, phone
  opEvents,         \* operator_channel_test_events: prep, type, result
  opPhone,          \* the phone the console is configured with
  opSession,        \* the console's map of preparations
  opAsked,          \* idempotency keys the console has drawn
  opWait,           \* the call the console waits for
  opWire,           \* calls on their way to the API
  opLink,           \* the last link the browser was redirected to: prep and phone
  opRestarts        \* restarts so far

opVars == <<opApi, opPreps, opEvents, opPhone, opSession, opAsked, opWait, opWire, opLink, opRestarts>>

\* The page of a preparation offers two of the confirmations.
ConfirmationResults == {"SENT_CONFIRMED", "NOT_SENT"}
\* Every reply is recorded in the same way.
ResponseResults == {"RECEIVED_CONFIRMED"}

NoOpPrep == [fk |-> "NONE", key |-> "NONE", phone |-> "NONE"]
NoOpCall == [kind |-> "NONE", key |-> "NONE", phone |-> "NONE", prep |-> NoOpPrep, result |-> "NONE"]
NoOpLink == [prep |-> NoOpPrep, phone |-> "NONE"]

OpInit ==
  /\ opApi \in [phone : OpPhones, fk : FingerprintKeys, bound : {TRUE}]
  /\ opPhone \in OpPhones
  /\ opPreps = {} /\ opEvents = {} /\ opSession = {} /\ opAsked = {}
  /\ opWait = NoOpCall /\ opWire = {} /\ opLink = NoOpLink
  /\ opRestarts = 0

(***************************************************************************)
(* The API.                                                                *)
(***************************************************************************)
\* verifyOperatorRecipientProof: the proof was made with the API's key over the API's phone.
ProofVerified(phone) == opApi.bound /\ phone = opApi.phone

\* POST /operator-tests/whatsapp/preparations. The payload names the recipient, so a
\* known key of the same principal conflicts unless it is for the same phone; then
\* it is replayed.
Preparable(key, phone) ==
  /\ ProofVerified(phone)
  /\ \A p \in opPreps : p.fk = opApi.fk /\ p.key = key => p.phone = opApi.phone

OpTold(p, type) == \E e \in opEvents : e.prep = p /\ e.type = type

\* The preparation is the principal's and for the recipient of this runtime.
PreparationStands(p) == p \in opPreps /\ p.fk = opApi.fk /\ p.phone = opApi.phone

OpInOrder(p, type) ==
  /\ ~OpTold(p, type) /\ ~OpTold(p, "RESPONSE_RECORDED")
  /\ type = "OPENED" => ~OpTold(p, "CONTACT_CONFIRMED")
  /\ type = "CONTACT_CONFIRMED" => OpTold(p, "OPENED")
  /\ type = "RESPONSE_RECORDED" =>
       [prep |-> p, type |-> "CONTACT_CONFIRMED", result |-> "SENT_CONFIRMED"] \in opEvents

\* operatorTestEvent: the same event is replayed, another of its type refused.
Recordable(p, event) ==
  /\ PreparationStands(p)
  /\ event \in opEvents \/ OpInOrder(p, event.type)

EventOf(call) == [prep |-> call.prep, type |-> call.kind, result |-> call.result]

Acceptable(call) ==
  /\ opApi.phone # "NONE"
  /\ IF call.kind = "PREPARE" THEN Preparable(call.key, call.phone)
     ELSE Recordable(call.prep, EventOf(call))

ApiAccepts(call) ==
  /\ Acceptable(call)
  /\ opPreps' = IF call.kind = "PREPARE"
                  THEN opPreps \cup {[fk |-> opApi.fk, key |-> call.key, phone |-> opApi.phone]}
                  ELSE opPreps
  /\ opEvents' = IF call.kind = "PREPARE" THEN opEvents ELSE opEvents \cup {EventOf(call)}

(***************************************************************************)
(* The console.                                                            *)
(***************************************************************************)
\* A form was posted: the console calls the API and waits for at most ten seconds.
ConsoleAsks(call) ==
  /\ opWait = NoOpCall /\ Cardinality(opWire) < MaxOnWire
  /\ opWait' = call
  /\ opWire' = opWire \cup {call}
  /\ UNCHANGED <<opApi, opPreps, opEvents, opPhone, opSession, opLink, opRestarts>>

\* POST /prepare: a fresh key, and the proof over the configured phone.
ConsoleAsksPreparation(key) ==
  /\ key \notin opAsked
  /\ opAsked' = opAsked \cup {key}
  /\ ConsoleAsks([NoOpCall EXCEPT !.kind = "PREPARE", !.key = key, !.phone = opPhone])

\* validateOperatorPreparationReceipt: the receipt is for the configured phone.
ReceiptVerified(p) == p.phone = opPhone

\* POST /open, /confirm and /response of a preparation of this session.
ConsoleAsksEvent(p, kind, result) ==
  /\ p \in opSession /\ ReceiptVerified(p)
  /\ ConsoleAsks([NoOpCall EXCEPT !.kind = kind, !.prep = p, !.result = result])
  /\ UNCHANGED opAsked

\* What the console does with the answer it waited for
ConsoleAccepts(call) ==
  /\ opWait' = NoOpCall
  /\ opSession' =
       CASE call.kind = "PREPARE" ->
              opSession \cup {p \in opPreps' : p.fk = opApi.fk /\ p.key = call.key /\ ReceiptVerified(p)}
         [] call.kind = "RESPONSE_RECORDED" \/ call.result = "NOT_SENT" -> opSession \ {call.prep}
         [] OTHER -> opSession
  /\ opLink' = IF call.kind = "OPENED" THEN [prep |-> call.prep, phone |-> opPhone] ELSE opLink

\* Fault: the console does not look at the status of the answer.
ConsoleTakesRefusal(call) == ConsoleAccepts(call)

ConsoleRefused(call) ==
  /\ opWait' = NoOpCall
  /\ UNCHANGED <<opSession, opLink>>

ConsoleMisses == UNCHANGED <<opWait, opSession, opLink>>

\* The API serves a call; its answer reaches the console if it still waits, or is lost.
ApiServes(call) ==
  /\ call \in opWire
  /\ opWire' = opWire \ {call}
  /\ \/ ApiAccepts(call) /\ (ConsoleMisses \/ (opWait = call /\ ConsoleAccepts(call)))
     \/ /\ ~Acceptable(call)
        /\ UNCHANGED <<opPreps, opEvents>>
        /\ ConsoleMisses \/ (opWait = call /\ ConsoleRefused(call))
  /\ UNCHANGED <<opApi, opPhone, opAsked, opRestarts>>

\* AbortSignal.timeout
ConsoleGivesUp ==
  /\ opWait # NoOpCall
  /\ opWait' = NoOpCall
  /\ UNCHANGED <<opApi, opPreps, opEvents, opPhone, opSession, opAsked, opWire, opLink, opRestarts>>

\* The console restarts with an empty map, perhaps for another phone.
ConsoleReconfigured(phone) ==
  /\ opRestarts < MaxReconfigured /\ opRestarts' = opRestarts + 1
  /\ opPhone' = phone
  /\ opSession' = {} /\ opWait' = NoOpCall
  /\ UNCHANGED <<opApi, opPreps, opEvents, opAsked, opWire, opLink>>

\* The API restarts: another phone, the switch off, another fingerprint or binding key.
ApiReconfigured(api) ==
  /\ opRestarts < MaxReconfigured /\ opRestarts' = opRestarts + 1
  /\ api # opApi /\ opApi' = api
  /\ UNCHANGED <<opPreps, opEvents, opPhone, opSession, opAsked, opWait, opWire, opLink>>

OpEventRequests ==
  ({"OPENED"} \X {"NONE"}) \cup ({"CONTACT_CONFIRMED"} \X ConfirmationResults)
    \cup ({"RESPONSE_RECORDED"} \X ResponseResults)

OpNext ==
  \/ \E key \in OpKeys : ConsoleAsksPreparation(key)
  \/ \E p \in opSession, request \in OpEventRequests : ConsoleAsksEvent(p, request[1], request[2])
  \/ \E call \in opWire : ApiServes(call)
  \/ ConsoleGivesUp
  \/ \E phone \in OpPhones : ConsoleReconfigured(phone)
  \/ \E api \in [phone : OpPhones \cup {"NONE"}, fk : FingerprintKeys, bound : BOOLEAN] : ApiReconfigured(api)

OpSpec == OpInit /\ [][OpNext]_opVars

(***************************************************************************)
(* Properties.                                                             *)
(***************************************************************************)
\* The browser is only sent to the phone that the API had authorised when it recorded the
\* preparation and its opening, although each end may be restarted with another phone or
\* key at any time and answers are lost; and no preparation has two confirmations, a
\* confirmation without an opening, or a reply to a message that was not sent.
OperatorLinkIsAuthorised ==
  /\ opLink # NoOpLink => opLink.phone = opLink.prep.phone /\ OpTold(opLink.prep, "OPENED")
  /\ \A e, f \in opEvents : e.prep = f.prep /\ e.type = f.type => e = f
  /\ \A e \in opEvents :
       /\ e.type # "OPENED" => OpTold(e.prep, "OPENED")
       /\ e.type = "RESPONSE_RECORDED" =>
            [prep |-> e.prep, type |-> "CONTACT_CONFIRMED", result |-> "SENT_CONFIRMED"] \in opEvents
=============================================================================
