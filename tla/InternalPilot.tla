---------------------------- MODULE InternalPilot ----------------------------
(***************************************************************************)
(* The internal pilot of packages/database/src/pilot.ts and                *)
(* packages/shared/src/pilot.ts over one lead: runs that take the lead in, *)
(* review it, contact it by hand and record what came of it.               *)
(*                                                                         *)
(* A transaction that needs the lead's eligibility is two steps. The       *)
(* statement of eligibility() takes its snapshot, in which it looks for    *)
(* opt-outs and for a usable contact (ReadEligibility); it then waits for  *)
(* the lead's row and re-evaluates the row, but not those two, on what it  *)
(* finds there (the Record actions). The other mutations are single steps  *)
(* under FOR UPDATE. A replayed idempotency key is a stutter.              *)
(*                                                                         *)
(* recorded_at of a contact and of a result is the start of the            *)
(* transaction that wrote it, which says nothing about the order in which  *)
(* the rows were written: each is recorded at any instant.                 *)
(***************************************************************************)
EXTENDS CommercialLead, FiniteSetsExt

CONSTANTS
  PilotRuns,        \* ids of pilot_runs
  MaxResults,       \* bound on the distinct results of all the runs
  MaxReviews,       \* bound on the versions of a lead's review
  MaxInstant,       \* bound on the values of recorded_at
  MaxSeatVersion    \* bound on pilot_leads.version

ASSUME InternalPilotAssumption == MaxInstant \in Nat \ {0}

VARIABLES
  pilotRun,         \* status, started (started_at is set), completed (completed_at is set)
  seat,             \* pilot_leads.version of the lead in the run; 0 when it is not in the run
  contacts,         \* recorded_at of the lead's pilot_manual_contacts in the run
  review,           \* decision and ver of the current pilot_reviews row
  results,          \* pilot_results of the lead in the run: the last one and all of them
  pilotTx,          \* the transaction that holds a run's row: op, run and clear (what its snapshot saw)
  pilotSafety       \* shadow mode on, no real provider, no collection egress

pilotVars == <<pilotRun, seat, contacts, review, results, pilotTx, pilotSafety>>

Instants == 1 .. MaxInstant

RunTransition(from) ==
  CASE from = "DRAFT"   -> {"READY"}
    [] from = "READY"   -> {"RUNNING", "CANCELLED"}
    [] from = "RUNNING" -> {"PAUSED", "COMPLETED", "CANCELLED"}
    [] from = "PAUSED"  -> {"RUNNING", "CANCELLED"}
    [] OTHER            -> {}

ResultTransition(from) ==
  CASE from = "NOT_CONTACTED" -> {"CONTACTED", "INVALID_CONTACT", "DO_NOT_CONTACT"}
    [] from = "CONTACTED"   -> {"NO_RESPONSE", "RESPONDED", "INVALID_CONTACT", "DO_NOT_CONTACT"}
    [] from = "NO_RESPONSE" -> {"CONTACTED", "RESPONDED", "INVALID_CONTACT", "DO_NOT_CONTACT"}
    [] from = "RESPONDED"   -> {"INTERESTED", "NOT_INTERESTED", "MEETING_REQUESTED",
                                "PROPOSAL_REQUESTED", "DO_NOT_CONTACT"}
    [] from = "INTERESTED"  -> {"MEETING_REQUESTED", "PROPOSAL_REQUESTED", "NOT_INTERESTED", "DO_NOT_CONTACT"}
    [] from = "MEETING_REQUESTED"  -> {"PROPOSAL_REQUESTED", "NOT_INTERESTED", "DO_NOT_CONTACT"}
    [] from = "PROPOSAL_REQUESTED" -> {"CONVERTED", "NOT_INTERESTED", "DO_NOT_CONTACT"}
    [] from = "NOT_INTERESTED"     -> {"DO_NOT_CONTACT"}
    [] OTHER -> {}

PilotResults ==
  {"NOT_CONTACTED", "CONTACTED", "NO_RESPONSE", "RESPONDED", "INTERESTED", "MEETING_REQUESTED",
   "PROPOSAL_REQUESTED", "NOT_INTERESTED", "INVALID_CONTACT", "DO_NOT_CONTACT", "CONVERTED"}

\* Results that need a persisted manual contact
ContactedResults == PilotResults \ {"NOT_CONTACTED", "INVALID_CONTACT", "DO_NOT_CONTACT"}

NoPilotTx == [op |-> "NONE", run |-> "NONE", clear |-> TRUE]
NoResults == [last |-> "NONE", all |-> {}]
NoRun == [status |-> "ABSENT", started |-> FALSE, completed |-> FALSE]

PilotInit ==
  /\ pilotRun = [r \in PilotRuns |-> NoRun]
  /\ seat = [r \in PilotRuns |-> 0]
  /\ contacts = [r \in PilotRuns |-> {}]
  /\ review = [r \in PilotRuns |-> [decision |-> "NONE", ver |-> 0]]
  /\ results = [r \in PilotRuns |-> NoResults]
  /\ pilotTx = NoPilotTx
  /\ pilotSafety = TRUE

HasUsableContact == contact.valid /\ contact.verified

\* eligibility(), on the lead's current row; opt-outs and contact are the snapshot's.
PilotEligible ==
  /\ lead.qual = "SEM_SITE_CONFIRMADO" /\ ~lead.blocked /\ ~lead.dnc
  /\ lead.stage # "NAO_CONTATAR"
  /\ pilotTx.clear

Active(r) == pilotRun[r].status \notin {"ABSENT", "COMPLETED", "CANCELLED"}
RunRowFree(r) == pilotTx.run # r /\ RowFree

\* createPilotRun
CreatePilotRun(r) ==
  /\ pilotRun[r] = NoRun
  /\ pilotRun' = [pilotRun EXCEPT ![r].status = "DRAFT"]
  /\ UNCHANGED <<seat, contacts, review, results, pilotTx, pilotSafety, leadVars>>

\* assertReady and evaluatePilotReadiness over the lead of the run
PilotReady(r) ==
  /\ seat[r] > 0 /\ review[r].decision = "APPROVED"
  /\ lead.qual = "SEM_SITE_CONFIRMADO" /\ HasUsableContact
  /\ ~lead.blocked /\ ~lead.dnc /\ lead.stage # "NAO_CONTATAR" /\ optOuts = {}
  /\ pilotSafety

\* updatePilotRunStatus. The table's CHECK (completed_at only after started_at)
\* rolls back the cancellation of a run that never ran.
UpdateRunStatus(r, status) ==
  /\ RunRowFree(r) /\ (seat[r] > 0 => SuppressionFree)
  /\ status \in RunTransition(pilotRun[r].status)
  /\ status \in {"READY", "RUNNING"} => PilotReady(r)
  /\ LET started   == pilotRun[r].started \/ status = "RUNNING"
         completed == pilotRun[r].completed \/ status \in {"COMPLETED", "CANCELLED"}
     IN /\ completed => started
        /\ pilotRun' = [pilotRun EXCEPT ![r] =
             [status |-> status, started |-> started, completed |-> completed]]
  /\ UNCHANGED <<seat, contacts, review, results, pilotTx, pilotSafety, leadVars>>

\* reviewPilotLead: only in DRAFT, one version after the other
ReviewPilotLead(r, decision) ==
  /\ RunRowFree(r) /\ SuppressionFree
  /\ pilotRun[r].status = "DRAFT" /\ seat[r] > 0
  /\ review[r].ver < MaxReviews
  /\ review' = [review EXCEPT ![r] = [decision |-> decision, ver |-> @.ver + 1]]
  /\ UNCHANGED <<pilotRun, seat, contacts, results, pilotTx, pilotSafety, leadVars>>

\* The run's row is locked, its state checked, and eligibility() takes its snapshot.
ReadEligibility(r, op) ==
  /\ pilotTx = NoPilotTx /\ RowFree
  /\ op = "ADD" => pilotRun[r].status = "DRAFT"
  /\ op # "ADD" => pilotRun[r].status = "RUNNING" /\ review[r].decision = "APPROVED"
  /\ pilotTx' = [op |-> op, run |-> r, clear |-> optOuts = {} /\ HasUsableContact]
  /\ UNCHANGED <<pilotRun, seat, contacts, review, results, pilotSafety, leadVars>>

\* addPilotLead: the trigger refuses a lead that another active run holds.
RecordPilotLead(r) ==
  /\ pilotTx.op = "ADD" /\ pilotTx.run = r /\ RowFree
  /\ PilotEligible
  /\ seat[r] = 0
  /\ \A q \in PilotRuns \ {r} : seat[q] > 0 => ~Active(q)
  /\ seat' = [seat EXCEPT ![r] = 1]
  /\ pilotTx' = NoPilotTx
  /\ UNCHANGED <<pilotRun, contacts, review, results, pilotSafety, leadVars>>

\* recordPilotManualContact: the contact, and the next version of the association.
RecordManualContact(r, at) ==
  /\ pilotTx.op = "CONTACT" /\ pilotTx.run = r /\ RowFree
  /\ PilotEligible
  /\ seat[r] > 0 /\ seat[r] < MaxSeatVersion
  /\ seat' = [seat EXCEPT ![r] = @ + 1]
  /\ contacts' = [contacts EXCEPT ![r] = @ \cup {at}]
  /\ pilotTx' = NoPilotTx
  /\ UNCHANGED <<pilotRun, review, results, pilotSafety, leadVars>>

HasManualContact(r) == contacts[r] # {}

\* Fault: a first CONTACTED is accepted without a persisted manual contact.
FirstResultUnbacked(r, result) ==
  result \in {"NOT_CONTACTED", "INVALID_CONTACT", "DO_NOT_CONTACT", "CONTACTED"}

FirstResultAllowed(r, result) ==
  \/ result \in {"NOT_CONTACTED", "INVALID_CONTACT", "DO_NOT_CONTACT"}
  \/ result = "CONTACTED" /\ HasManualContact(r)

\* Fault: the result graph alone decides.
ResultAllowedByGraph(r, result) ==
  IF results[r] = NoResults THEN FirstResultUnbacked(r, result)
  ELSE result \in ResultTransition(results[r].last)

ResultAllowed(r, result) ==
  /\ IF results[r] = NoResults THEN FirstResultAllowed(r, result)
     ELSE result \in ResultTransition(results[r].last)
  /\ result \in ContactedResults => HasManualContact(r)

\* recordPilotResult: DO_NOT_CONTACT suppresses the lead and INVALID_CONTACT its still
\* usable contact in the same transaction. CONVERTED stands for a confirmed conversion.
RecordPilotResult(r, result, at) ==
  /\ pilotTx.op = "RESULT" /\ pilotTx.run = r /\ RowFree
  /\ PilotEligible
  /\ seat[r] > 0
  /\ ResultAllowed(r, result)
  /\ MapThenSumSet(LAMBDA q : Cardinality(results[q].all), PilotRuns) < MaxResults
  /\ results' = [results EXCEPT ![r] =
       [last |-> result, all |-> @.all \cup {[result |-> result, at |-> at]}]]
  /\ CASE result = "DO_NOT_CONTACT"  -> MarkDoNotContact
       [] result = "INVALID_CONTACT" ->
            /\ HasUsableContact
            /\ contact' = [contact EXCEPT !.valid = FALSE]
            /\ UNCHANGED <<lead, optOuts, authorization, timeline, rowLock, msgLock>>
       [] OTHER -> UNCHANGED leadVars
  /\ pilotTx' = NoPilotTx
  /\ UNCHANGED <<pilotRun, seat, contacts, review, pilotSafety>>

\* A refusal, a conflict or a lost connection
RollBackPilot ==
  /\ pilotTx # NoPilotTx
  /\ pilotTx' = NoPilotTx
  /\ UNCHANGED <<pilotRun, seat, contacts, review, results, pilotSafety, leadVars>>

\* The API restarts with another configuration.
ReconfigurePilot ==
  /\ pilotSafety' = ~pilotSafety
  /\ UNCHANGED <<pilotRun, seat, contacts, review, results, pilotTx, leadVars>>

RunStatuses == {"READY", "RUNNING", "PAUSED", "COMPLETED", "CANCELLED"}

RunNext ==
  \/ \E r \in PilotRuns, status \in RunStatuses : UpdateRunStatus(r, status)
  \/ ReconfigurePilot

PilotNext ==
  \/ \E r \in PilotRuns : CreatePilotRun(r) \/ RecordPilotLead(r)
  \/ \E r \in PilotRuns, at \in Instants : RecordManualContact(r, at)
  \/ RunNext
  \/ \E r \in PilotRuns, d \in {"APPROVED", "REJECTED", "NEEDS_REVIEW"} : ReviewPilotLead(r, d)
  \/ \E r \in PilotRuns, op \in {"ADD", "CONTACT", "RESULT"} : ReadEligibility(r, op)
  \/ \E r \in PilotRuns, result \in PilotResults, at \in Instants : RecordPilotResult(r, result, at)
  \/ RollBackPilot

(***************************************************************************)
(* getPilotSnapshot: every metric counts distinct leads that reached a     *)
(* milestone; over one lead a count is 0 or 1. Contacts and results count  *)
(* when they were recorded within the period, the rest as it now stands.   *)
(***************************************************************************)
Counted(condition) == IF condition THEN 1 ELSE 0
Reached(r, milestones) == \E x \in results[r].all : x.result \in milestones

PilotSnapshot(r, from, to) ==
  LET Within(at)          == from <= at /\ at <= to
      Achieved(milestones) == Counted(\E x \in results[r].all : x.result \in milestones /\ Within(x.at))
  IN [associated    |-> Counted(seat[r] > 0),
      approved      |-> Counted(seat[r] > 0 /\ review[r].decision = "APPROVED"),
      manualContact |-> Counted(\E at \in contacts[r] : Within(at)),
      responses     |-> Achieved({"RESPONDED", "INTERESTED", "MEETING_REQUESTED",
                                  "PROPOSAL_REQUESTED", "CONVERTED"}),
      interested    |-> Achieved({"INTERESTED", "MEETING_REQUESTED", "PROPOSAL_REQUESTED", "CONVERTED"}),
      meetings      |-> Achieved({"MEETING_REQUESTED"}),
      proposals     |-> Achieved({"PROPOSAL_REQUESTED", "CONVERTED"}),
      conversions   |-> Achieved({"CONVERTED"}),
      optOuts       |-> Counted(seat[r] > 0 /\ optOuts # {}),
      blocked       |-> Counted(seat[r] > 0 /\ lead.blocked)]

\* The funnel narrows: in any period each stage of a run's snapshot counts no lead
\* that the stage before it does not count, except that a period may show a response
\* without the contact it answers when the contact was recorded outside it: over the
\* whole record the contact is there. This holds whatever order reviews, contacts and
\* results of the runs come in and whatever instants they are recorded at.
FunnelNarrows ==
  \A r \in PilotRuns : \A from, to \in Instants :
    LET s     == PilotSnapshot(r, from, to)
        whole == PilotSnapshot(r, 1, MaxInstant)
    IN /\ s.conversions <= s.proposals /\ s.proposals <= s.interested
       /\ s.meetings <= s.interested /\ s.interested <= s.responses
       /\ s.responses <= whole.manualContact /\ s.manualContact <= s.approved
       /\ s.approved <= s.associated

\* A lead sits in at most one active run, and a run that recorded DO_NOT_CONTACT
\* left the lead blocked with a global opt-out for every later run.
PilotClaimsAreExclusive ==
  /\ \A r, q \in PilotRuns : seat[r] > 0 /\ seat[q] > 0 /\ Active(r) /\ Active(q) => r = q
  /\ \A r \in PilotRuns : Reached(r, {"DO_NOT_CONTACT"}) =>
       lead.blocked /\ lead.dnc /\ "ALL" \in optOuts
=============================================================================
