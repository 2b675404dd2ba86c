------------------------ MODULE CommercialDeskProofs ------------------------
(***************************************************************************)
(* Proofs about CommercialDesk: any number of CRM clients, of runs, of     *)
(* preparations and of operators, all at work on the lead at once.         *)
(***************************************************************************)
EXTENDS MCCommercialLead, SequenceTheorems, FiniteSetTheorems, TLAPS

\* The types of the variables the proofs are about.
LeadRow == [qual : LeadStatuses, blocked : BOOLEAN, dnc : BOOLEAN, stage : CrmStages, ver : Nat]
LeadType ==
  /\ lead \in LeadRow
  /\ contact \in [valid : BOOLEAN, verified : BOOLEAN, fp : Nat \ {0}]
  /\ optOuts \subseteq OptOutChannels
  /\ rowLock \in {"FREE", "message"} \cup CrmClients /\ msgLock \in {"FREE", "message"}

CrmTransactions ==
  [scope : CrmScopes \cup {"IDLE"}, key : CrmKeys \cup {"NONE"},
   arg : UNION {CrmArguments(scope) : scope \in CrmScopes \cup {"IDLE"}},
   expected : Nat, seen : [value : CrmStages \cup {"LEAD", "ABSENT", "NONE"}, ver : Nat]]
OpportunityRow == [outcome : {"ABSENT", "NONE", "GANHO", "PERDIDO"}, reason : BOOLEAN, ver : Nat]
CrmType ==
  /\ crmTx \in [CrmClients -> CrmTransactions]
  /\ opportunity \in OpportunityRow
  /\ \A c \in CrmClients : crmTx[c].scope = "stage" => crmTx[c].arg.to \in CrmStages

PilotType ==
  /\ pilotRun \in [PilotRuns -> [status : RunStatuses \cup {"ABSENT", "DRAFT"},
                                 started : BOOLEAN, completed : BOOLEAN]]
  /\ seat \in [PilotRuns -> Nat]
  /\ contacts \in [PilotRuns -> SUBSET Instants]
  /\ review \in [PilotRuns -> [decision : {"NONE", "APPROVED", "REJECTED", "NEEDS_REVIEW"}, ver : Nat]]
  /\ results \in [PilotRuns -> [last : PilotResults \cup {"NONE"}, all : SUBSET [result : PilotResults, at : Instants]]]
  /\ pilotTx \in [op : {"NONE", "ADD", "CONTACT", "RESULT"}, run : PilotRuns \cup {"NONE"}, clear : BOOLEAN]
  /\ pilotTx.op # "NONE" => pilotTx.run \in PilotRuns

MessageTypes == {"OPENED", "CONTACT_CONFIRMED", "RESPONSE_RECORDED"}
MessageResults == {"NONE"} \cup ConfirmResults \cup ReplyResults
Writers == Operators \cup {"console"}
MessageEvents == [who : Writers, key : MessageKeys, type : MessageTypes, result : MessageResults]
MessageType ==
  /\ prepared \in [MessageKeys -> [who : Writers \cup {"NONE"}, fp : Nat]]
  /\ messages \in [MessageKeys -> Seq(MessageEvents)]
  /\ messageTx \in MessageEvents \cup {NoMessageTx}
  /\ session \subseteq MessageKeys
  /\ consoleCall \in [key : MessageKeys, type : MessageTypes, result : MessageResults, fp : Nat] \cup {NoCall}
  /\ link \in [MessageKeys -> Nat]

DeskTypeOK == LeadType /\ CrmType /\ PilotType /\ MessageType

(***************************************************************************)
(* The pilot: what a run holds follows its status, and an open transaction *)
(* still finds its run as it read it.                                      *)
(***************************************************************************)
RunHolds(r) ==
  /\ pilotRun[r].status = "ABSENT" => seat[r] = 0
  /\ HasManualContact(r) => /\ seat[r] > 0 /\ review[r].decision = "APPROVED"
                            /\ pilotRun[r].status \notin {"ABSENT", "DRAFT"}
  /\ Reached(r, ContactedResults) => HasManualContact(r)

TransactionFindsItsRun ==
  /\ pilotTx.op = "ADD" => pilotRun[pilotTx.run].status = "DRAFT"
  /\ pilotTx.op \in {"CONTACT", "RESULT"} =>
       pilotRun[pilotTx.run].status = "RUNNING" /\ review[pilotTx.run].decision = "APPROVED"

PilotInv ==
  /\ \A r \in PilotRuns : RunHolds(r)
  /\ TransactionFindsItsRun
  /\ PilotClaimsAreExclusive

(***************************************************************************)
(* The messaging: the transaction has both locks of the lead and finds the *)
(* lead as it checked it; a history is opening, confirmation, reply.       *)
(***************************************************************************)
MessageHolds ==
  /\ rowLock = "message" <=> messageTx # NoMessageTx
  /\ msgLock = "message" <=> messageTx # NoMessageTx
  /\ messageTx # NoMessageTx =>
       /\ MessageEligible
       /\ prepared[messageTx.key].fp # 0
       /\ messageTx.type = "OPENED" => SnapshotStands(messageTx.key)

History == <<"OPENED", "CONTACT_CONFIRMED", "RESPONSE_RECORDED">>
HistoryInOrder(k) ==
  /\ Len(messages[k]) <= 3
  /\ \A i \in 1 .. Len(messages[k]) : messages[k][i].type = History[i]

CallIsPrepared ==
  consoleCall.type = "OPENED" => consoleCall.fp = prepared[consoleCall.key].fp /\ consoleCall.fp # 0

PreparedForAContact == \A k \in MessageKeys : prepared[k] # NoPreparation => prepared[k].fp # 0

MessageInv ==
  /\ MessageHolds
  /\ PreparedForAContact
  /\ \A k \in MessageKeys : HistoryInOrder(k)
  /\ CallIsPrepared
  /\ LinkRestsOnTheRecord

DeskInv == DeskTypeOK /\ PilotInv /\ MessageInv

(***************************************************************************)
(* The CRM: every event of the timeline belongs to one mutation, and what  *)
(* a mutation read without a lock still stands where its guard lets it     *)
(* write.                                                                  *)
(***************************************************************************)
TimelineRows ==
  [type : StageEvents \cup TagEvents \cup OpportunityEvents \cup
            {"ASSIGNMENT_UPDATED", "NOTE_ADDED", "TASK_CREATED", "TASK_COMPLETED", "TASK_RESCHEDULED"},
   from : CrmStages \cup {"LEAD", "ABSENT", "TAG", "NONE", "PENDENTE"},
   to   : CrmStages \cup {"LEAD", "ABSENT", "TAG", "NONE", "PENDENTE", "CONCLUIDA", "OPPORTUNITY"},
   read : Nat, quoted : Nat, ver : Nat]

OpportunityTyped ==
  /\ opportunity \in OpportunityRow
  /\ opportunity.ver = 0 <=> opportunity.outcome = "ABSENT"
CrmRowsType ==
  /\ timeline \in Seq(TimelineRows)
  /\ OpportunityTyped
  /\ tagged \in BOOLEAN
  /\ crmRemembered \subseteq CrmScopes \X CrmKeys /\ IsFiniteSet(crmRemembered)

\* What an open mutation may rely on: its key is not remembered, and an update found an
\* opportunity.
MutationStands(c) ==
  crmTx[c].scope # "IDLE" =>
    /\ crmTx[c].scope \in CrmScopes /\ crmTx[c].key \in CrmKeys
    /\ crmTx[c].arg \in CrmArguments(crmTx[c].scope)
    /\ <<crmTx[c].scope, crmTx[c].key>> \notin crmRemembered
    /\ crmTx[c].scope = "opportunity:update" => crmTx[c].expected # 0

KeysApart ==
  \A c, d \in CrmClients :
    crmTx[c].scope # "IDLE" /\ crmTx[c].scope = crmTx[d].scope /\ crmTx[c].key = crmTx[d].key => c = d

\* What the open mutations of a scope read is what the row held at a version it has had,
\* by the same history that the events tell.
SeenStood(scope, types, first, row) ==
  /\ VersionsTold(timeline, types, first, row)
  /\ \A c \in CrmClients : crmTx[c].scope = scope =>
       crmTx[c].seen.ver <= row.ver /\ StoodAt(timeline, types, first, crmTx[c].seen)

LeadSeen == Seen(lead.stage, lead.ver)
OpportunitySeen == Seen(opportunity.outcome, opportunity.ver)

VersionsInv ==
  /\ \E first \in FirstStages : SeenStood("stage", StageEvents, first, LeadSeen)
  /\ SeenStood("opportunity:update", OpportunityEvents, "ABSENT", OpportunitySeen)

\* The rest of what the timeline tells
TagsTold ==
  /\ TellsHistory(timeline, TagEvents, IF tagged THEN "TAG" ELSE "ABSENT")
  /\ tagged => EventsOf(timeline, TagEvents) # {}
  /\ opportunity.outcome = "ABSENT" <=> EventsOf(timeline, OpportunityEvents) = {}

HistoryInv ==
  /\ CrmRowsType /\ KeysApart /\ \A c \in CrmClients : MutationStands(c)
  /\ VersionsInv /\ TagsTold /\ CrmKeyAppliedOnce

------------------------------------------------------------------------------
(* The lead and its locks.                                                 *)

\* The invariant holds when nothing has happened yet.
LEMMA LeadInitial ==
  ASSUME CrmInit, MessageInit
  PROVE  LeadType /\ CrmType /\ MessageType /\ MessageInv
<1> USE DEF CrmInit, LeadInit, MessageInit
<1>1. LeadType
  <2>1. FirstStages \subseteq CrmStages
    BY CommercialLeadAssumption
  <2>2. lead \in [qual : {"SEM_SITE_CONFIRMADO"}, blocked : BOOLEAN, dnc : BOOLEAN,
                  stage : FirstStages, ver : {1}]
    OBVIOUS
  <2>3. lead \in LeadRow
    BY <2>1, <2>2 DEF LeadRow, LeadStatuses
  <2> QED BY <2>3 DEF LeadType, OptOutChannels
<1>2. CrmType
  <2>1. IdleTx.arg \in CrmArguments("IDLE")
    BY DEF IdleTx, CrmArguments
  <2>2. IdleTx \in CrmTransactions
    BY <2>1 DEF IdleTx, CrmTransactions, CrmStages, Seen
  <2> QED BY <2>2 DEF CrmType, IdleTx, NoOpportunity, OpportunityRow
<1>3. MessageType
  BY DEF MessageType, NoPreparation
<1>4. MessageInv
  BY DEF MessageInv, MessageHolds, PreparedForAContact, HistoryInOrder, CallIsPrepared,
         LinkRestsOnTheRecord, NoCall
<1> QED BY <1>1, <1>2, <1>3, <1>4

LEMMA DeskInitial == DeskInit => DeskInv
<1> SUFFICES ASSUME DeskInit PROVE DeskInv
  OBVIOUS
<1> USE DEF DeskInit, PilotInit
<1>1. PilotType
  BY DEF PilotType, NoRun, NoResults, NoPilotTx, PilotResults
<1>2. PilotInv
  BY DEF PilotInv, RunHolds, TransactionFindsItsRun, PilotClaimsAreExclusive, HasManualContact,
         Reached, NoResults, NoPilotTx, NoRun
<1> QED BY <1>1, <1>2, LeadInitial DEF DeskInv, DeskTypeOK

\* What every writer of the lead but the messaging respects: no suppression is taken
\* back, a transaction of the messaging keeps its locks and what they protect.
SuppressionStays ==
  (lead.blocked => lead'.blocked) /\ (lead.dnc => lead'.dnc) /\ optOuts \subseteq optOuts'
Respects ==
  /\ LeadType' /\ SuppressionStays
  /\ rowLock' = "message" <=> rowLock = "message"
  /\ msgLock' = msgLock
  /\ rowLock = "message" /\ msgLock = "message" => UNCHANGED <<lead, contact, optOuts, authorization>>

\* A suppression may always be written when the locks are free.
LEMMA MarkRespects ==
  ASSUME LeadType, MarkDoNotContact
  PROVE  Respects /\ lead'.blocked /\ lead'.dnc /\ "ALL" \in optOuts'
<1> USE DEF LeadType, MarkDoNotContact, SuppressionFree, RowFree
<1>1. lead' \in LeadRow
  <2>1. lead.ver + 1 \in Nat /\ "NAO_CONTATAR" \in CrmStages
    BY DEF LeadRow, CrmStages
  <2> QED BY <2>1 DEF LeadRow
<1>2. lead'.blocked /\ lead'.dnc
  BY DEF LeadRow
<1> QED BY <1>1, <1>2 DEF Respects, SuppressionStays, OptOutChannels

\* The screens of the lead respect the messaging.
LEMMA LeadRespects ==
  ASSUME LeadType, LeadNext
  PROVE  Respects
<1> USE DEF LeadType, SuppressionFree, RowFree
<1>1. ASSUME NEW status \in LeadStatuses, NEW flags \in LeadFlags, UpdateQualification(status, flags)
      PROVE  Respects
  <2> USE <1>1 DEF UpdateQualification
  <2>1. Merged(lead.blocked, flags.blocked) \in BOOLEAN /\ Merged(lead.dnc, flags.dnc) \in BOOLEAN
    BY DEF Merged, LeadRow
  <2>2. lead' \in LeadRow
    BY <2>1 DEF LeadRow
  <2>3. (lead.blocked => lead'.blocked) /\ (lead.dnc => lead'.dnc)
    BY DEF AttemptsToClear, Merged, LeadFlags, LeadRow
  <2> QED BY <2>2, <2>3 DEF Respects, SuppressionStays
<1>2. ASSUME NEW valid \in BOOLEAN, NEW verified \in BOOLEAN, NEW respelled \in BOOLEAN,
             UpsertContact(valid, verified, respelled)
      PROVE  Respects
  BY <1>2 DEF UpsertContact, Respects, SuppressionStays
<1>3. ASSUME NEW channel \in OptOutChannels, RecordOptOut(channel) PROVE Respects
  BY <1>3 DEF RecordOptOut, Respects, SuppressionStays
<1>4. ASSUME NEW state \in {"GRANTED", "REVOKED"}, Authorize(state) PROVE Respects
  BY <1>4 DEF Authorize, Respects, SuppressionStays
<1> QED BY <1>1, <1>2, <1>3, <1>4 DEF LeadNext, QualificationNext, ContactNext

\* The CRM respects the messaging: what it writes waits for the lead's row.
LEMMA CrmRespects ==
  ASSUME LeadType, CrmType, CrmNext
  PROVE  Respects /\ CrmType'
<1> USE DEF LeadType, RowFree, SuppressionFree
<1>1. PICK c \in CrmClients : CrmClientNext(c)
  BY DEF CrmNext
<1>2. c \notin {"FREE", "message"}
  BY DeskAssumption
<1>3. IdleTx \in CrmTransactions /\ IdleTx.scope # "stage"
  <2>1. IdleTx.arg \in CrmArguments("IDLE")
    BY DEF IdleTx, CrmArguments
  <2> QED BY <2>1 DEF IdleTx, CrmTransactions, CrmStages, Seen
<1>4. crmTx' = [crmTx EXCEPT ![c] = IdleTx] /\ opportunity' \in OpportunityRow => CrmType'
  BY <1>3 DEF CrmType
<1>5. ASSUME NEW scope \in CrmScopes, NEW key \in CrmKeys, NEW arg \in CrmArguments(scope),
             NEW expected \in (IF scope \in Versioned THEN 1 .. MaxQuoted ELSE {0}),
             BeginMutation(c, scope, key, arg, expected)
      PROVE  Respects /\ CrmType'
  <2>1. expected \in Nat
    BY <1>5
  <2>2. [scope |-> scope, key |-> key, arg |-> arg, expected |-> expected, seen |-> PreviousValue(scope)]
          \in CrmTransactions
    <3>1. arg \in UNION {CrmArguments(s) : s \in CrmScopes \cup {"IDLE"}}
      OBVIOUS
    <3>2. PreviousValue(scope) \in [value : CrmStages \cup {"LEAD", "ABSENT", "NONE"}, ver : Nat]
      BY DEF PreviousValue, Seen, LeadRow, CrmType, OpportunityRow, CrmStages
    <3> QED BY <2>1, <3>1, <3>2 DEF CrmTransactions
  <2>3. scope = "stage" => arg.to \in CrmStages
    BY <1>5 DEF CrmArguments
  <2>4. CrmType'
    BY <1>5, <2>2, <2>3 DEF BeginMutation, CrmType
  <2> QED BY <1>2, <1>5, <2>4 DEF BeginMutation, Respects, SuppressionStays
<1>6. CASE WriteStage(c)
  <2>1. lead' \in LeadRow /\ lead'.blocked = lead.blocked /\ lead'.dnc = lead.dnc
    <3>1. crmTx[c].arg.to \in CrmStages /\ lead.ver + 1 \in Nat
      BY <1>6 DEF WriteStage, LeadRow, CrmType
    <3> QED BY <1>6, <3>1 DEF WriteStage, LeadRow
  <2> QED BY <1>2, <1>4, <1>6, <2>1 DEF WriteStage, Remember, Respects, SuppressionStays, CrmType
<1>7. CASE WriteAssignment(c)
  <2>1. lead' \in LeadRow /\ lead'.blocked = lead.blocked /\ lead'.dnc = lead.dnc
    BY <1>7 DEF WriteAssignment, LeadRow
  <2> QED BY <1>2, <1>4, <1>7, <2>1 DEF WriteAssignment, Remember, Respects, SuppressionStays, CrmType
<1>8. ASSUME UNCHANGED lead, Remember(c), opportunity' \in OpportunityRow PROVE Respects /\ CrmType'
  BY <1>2, <1>4, <1>8 DEF Remember, Respects, SuppressionStays
<1>9. CASE RollBackMutation(c)
  BY <1>2, <1>4, <1>9 DEF RollBackMutation, Respects, SuppressionStays, CrmType
<1>10. UNCHANGED opportunity => opportunity' \in OpportunityRow
  BY DEF CrmType
<1>11. WriteOpportunityCreated(c) => opportunity' \in OpportunityRow
  BY DEF WriteOpportunityCreated, OpportunityRow
<1>12. CASE WriteOpportunityUpdated(c)
  <2>1. PICK outcome, reason : outcome = Outcome(crmTx[c].arg.to) /\ reason = LossReason(crmTx[c].arg)
    OBVIOUS
  <2>2. outcome \in {"ABSENT", "NONE", "GANHO", "PERDIDO"} /\ reason \in BOOLEAN
    BY <2>1 DEF Outcome, LossReason, CrmType, OpportunityRow
  <2>3. opportunity' = [outcome |-> outcome, reason |-> reason, ver |-> opportunity.ver + 1]
    BY <1>12, <2>1 DEF WriteOpportunityUpdated
  <2>4. opportunity' \in OpportunityRow
    BY <2>2, <2>3 DEF CrmType, OpportunityRow
  <2> QED BY <1>8, <1>12, <2>4 DEF WriteOpportunityUpdated
<1> QED
  BY <1>1, <1>5, <1>6, <1>7, <1>8, <1>9, <1>10, <1>11, <1>12
     DEF CrmClientNext, WriteMutation, WriteNote, WriteTagAdded, WriteTagRemoved, WriteTaskCreated,
         WriteTaskMutated, WriteOpportunityCreated

------------------------------------------------------------------------------
(* The pilot.                                                              *)

\* While the messaging has the lead, a running run stays as it is.
RunsKept ==
  rowLock = "message" => \A r \in PilotRuns : pilotRun[r].status = "RUNNING" =>
    pilotRun'[r] = pilotRun[r] /\ seat'[r] = seat[r] /\ review'[r] = review[r]

\* Nothing the other parts do to the lead disturbs the pilot.
LEMMA PilotUndisturbed ==
  ASSUME PilotType, PilotInv, SuppressionStays, UNCHANGED pilotVars
  PROVE  PilotType' /\ PilotInv'
BY DEF PilotType, PilotInv, SuppressionStays, pilotVars, RunHolds, TransactionFindsItsRun,
       PilotClaimsAreExclusive, HasManualContact, Reached, Active

\* Each operation of the pilot keeps its invariant.
LEMMA PilotStep ==
  ASSUME LeadType, PilotType, PilotInv, PilotNext
  PROVE  Respects /\ PilotType' /\ PilotInv' /\ RunsKept
<1> USE DEF PilotType, PilotInv, RunHolds, TransactionFindsItsRun, PilotClaimsAreExclusive,
            HasManualContact, Reached, Active
<1>1. UNCHANGED leadVars => Respects
  BY DEF leadVars, LeadType, Respects, SuppressionStays
<1>2. ASSUME NEW r \in PilotRuns, CreatePilotRun(r)
      PROVE  Respects /\ PilotType' /\ PilotInv' /\ RunsKept
  <2> USE <1>2 DEF CreatePilotRun, NoRun
  <2>1. /\ seat[r] = 0 /\ pilotRun'[r].status = "DRAFT"
        /\ pilotTx.op # "NONE" => pilotTx.run # r
        /\ \A q \in PilotRuns \ {r} : pilotRun'[q] = pilotRun[q]
    OBVIOUS
  <2>2. PilotType'
    OBVIOUS
  <2>3. UNCHANGED <<seat, contacts, review, results, pilotTx, lead, optOuts>>
    BY DEF leadVars
  <2>4. contacts[r] = {} /\ ~Reached(r, ContactedResults)
    BY <2>1
  <2>5. \A q \in PilotRuns : RunHolds(q)'
    BY <2>1, <2>3, <2>4
  <2>6. TransactionFindsItsRun'
    BY <2>1, <2>3
  <2>7. PilotClaimsAreExclusive'
    BY <2>1, <2>3
  <2>8. PilotInv'
    BY <2>5, <2>6, <2>7
  <2> QED BY <1>1, <2>1, <2>2, <2>8 DEF RunsKept
<1>3. ASSUME NEW r \in PilotRuns, RecordPilotLead(r)
      PROVE  Respects /\ PilotType' /\ PilotInv' /\ RunsKept
  <2> USE <1>3 DEF RecordPilotLead, NoPilotTx
  <2>1. seat'[r] = 1 /\ \A q \in PilotRuns \ {r} : seat'[q] = seat[q]
    OBVIOUS
  <2>2. pilotRun[r].status = "DRAFT" /\ ~Reached(r, ContactedResults)
    OBVIOUS
  <2>3. PilotType'
    OBVIOUS
  <2>4. UNCHANGED <<pilotRun, contacts, review, results, lead, optOuts>> /\ contacts[r] = {}
    BY <2>2 DEF leadVars
  <2>5. \A q \in PilotRuns : RunHolds(q)'
    BY <2>1, <2>2, <2>4
  <2>6. PilotClaimsAreExclusive'
    BY <2>1, <2>4
  <2>7. PilotInv'
    BY <2>5, <2>6
  <2> QED BY <1>1, <2>3, <2>7 DEF RunsKept, RowFree
<1>4. ASSUME NEW r \in PilotRuns, NEW at \in Instants, RecordManualContact(r, at)
      PROVE  Respects /\ PilotType' /\ PilotInv' /\ RunsKept
  <2> USE <1>4 DEF RecordManualContact, NoPilotTx
  <2>1. /\ seat'[r] = seat[r] + 1 /\ seat[r] > 0 /\ contacts'[r] = contacts[r] \cup {at}
        /\ \A q \in PilotRuns \ {r} : seat'[q] = seat[q] /\ contacts'[q] = contacts[q]
    OBVIOUS
  <2>2. pilotRun[r].status = "RUNNING" /\ review[r].decision = "APPROVED"
    OBVIOUS
  <2>3. PilotType'
    OBVIOUS
  <2>4. PilotInv'
    BY <2>1, <2>2, <2>3 DEF leadVars
  <2> QED BY <1>1, <2>3, <2>4 DEF RunsKept, RowFree
<1>5. ASSUME NEW r \in PilotRuns, NEW status \in RunStatuses, UpdateRunStatus(r, status)
      PROVE  Respects /\ PilotType' /\ PilotInv' /\ RunsKept
  <2> USE <1>5 DEF UpdateRunStatus, RunRowFree, RunStatuses
  <2>1. /\ pilotRun'[r].status = status /\ pilotTx.run # r
        /\ \A q \in PilotRuns \ {r} : pilotRun'[q] = pilotRun[q]
    OBVIOUS
  <2>2. pilotRun[r].status \notin {"ABSENT", "COMPLETED", "CANCELLED"}
    BY DEF RunTransition
  <2>3. PilotType'
    OBVIOUS
  <2>4. PilotInv'
    BY <2>1, <2>2, <2>3 DEF leadVars
  <2> QED BY <1>1, <2>3, <2>4 DEF RunsKept, RowFree
<1>6. CASE ReconfigurePilot
  BY <1>1, <1>6 DEF ReconfigurePilot, RunsKept, leadVars
<1>7. ASSUME NEW r \in PilotRuns, NEW d \in {"APPROVED", "REJECTED", "NEEDS_REVIEW"},
             ReviewPilotLead(r, d)
      PROVE  Respects /\ PilotType' /\ PilotInv' /\ RunsKept
  <2> USE <1>7 DEF ReviewPilotLead, RunRowFree
  <2>1. /\ pilotRun[r].status = "DRAFT" /\ pilotTx.run # r
        /\ \A q \in PilotRuns \ {r} : review'[q] = review[q]
    OBVIOUS
  <2>2. PilotType'
    OBVIOUS
  <2>3. PilotInv'
    BY <2>1, <2>2 DEF leadVars
  <2> QED BY <1>1, <2>2, <2>3 DEF RunsKept, RowFree
<1>8. ASSUME NEW r \in PilotRuns, NEW op \in {"ADD", "CONTACT", "RESULT"}, ReadEligibility(r, op)
      PROVE  Respects /\ PilotType' /\ PilotInv' /\ RunsKept
  <2>1. PilotType'
    BY <1>8 DEF ReadEligibility
  <2>2. PilotInv'
    BY <1>8, <2>1 DEF ReadEligibility, leadVars
  <2> QED BY <1>1, <1>8, <2>1, <2>2 DEF ReadEligibility, RunsKept
<1>9. ASSUME NEW r \in PilotRuns, NEW result \in PilotResults, NEW at \in Instants,
             RecordPilotResult(r, result, at)
      PROVE  Respects /\ PilotType' /\ PilotInv' /\ RunsKept
  <2> USE <1>9 DEF RecordPilotResult, NoPilotTx
  <2>1. /\ results'[r].all = results[r].all \cup {[result |-> result, at |-> at]}
        /\ \A q \in PilotRuns \ {r} : results'[q] = results[q]
    OBVIOUS
  <2>2. Respects /\ (result = "DO_NOT_CONTACT" => lead'.blocked /\ lead'.dnc /\ "ALL" \in optOuts')
    <3>1. CASE result = "DO_NOT_CONTACT"
      BY <3>1, MarkRespects
    <3>2. CASE result = "INVALID_CONTACT"
      <4>1. contact' = [contact EXCEPT !.valid = FALSE]
            /\ UNCHANGED <<lead, optOuts, authorization, timeline, rowLock, msgLock>>
        BY <3>2
      <4>2. contact' \in [valid : BOOLEAN, verified : BOOLEAN, fp : Nat \ {0}]
        BY <4>1 DEF LeadType
      <4> QED BY <3>2, <4>1, <4>2 DEF Respects, SuppressionStays, LeadType, RowFree
    <3>3. CASE result \notin {"DO_NOT_CONTACT", "INVALID_CONTACT"}
      BY <3>3, <1>1
    <3> QED BY <3>1, <3>2, <3>3
  <2>3. result \in ContactedResults => HasManualContact(r)
    BY DEF ResultAllowed
  <2>4. PilotType'
    OBVIOUS
  <2>5. PilotInv'
    BY <2>1, <2>2, <2>3, <2>4 DEF SuppressionStays, Respects
  <2> QED BY <2>2, <2>4, <2>5 DEF RunsKept, RowFree
<1>10. CASE RollBackPilot
  BY <1>1, <1>10 DEF RollBackPilot, NoPilotTx, RunsKept, leadVars
<1> HIDE DEF PilotType, PilotInv, RunHolds, TransactionFindsItsRun, PilotClaimsAreExclusive,
             HasManualContact, Reached, Active
<1>11. CASE \E r \in PilotRuns : CreatePilotRun(r) \/ RecordPilotLead(r)
  BY <1>2, <1>3, <1>11
<1>12. CASE \E r \in PilotRuns, at \in Instants : RecordManualContact(r, at)
  BY <1>4, <1>12
<1>13. CASE RunNext
  BY <1>5, <1>6, <1>13 DEF RunNext
<1>14. CASE \E r \in PilotRuns, d \in {"APPROVED", "REJECTED", "NEEDS_REVIEW"} : ReviewPilotLead(r, d)
  BY <1>7, <1>14
<1>15. CASE \E r \in PilotRuns, op \in {"ADD", "CONTACT", "RESULT"} : ReadEligibility(r, op)
  BY <1>8, <1>15
<1>16. CASE \E r \in PilotRuns, result \in PilotResults, at \in Instants : RecordPilotResult(r, result, at)
  BY <1>9, <1>16
<1> QED BY <1>10, <1>11, <1>12, <1>13, <1>14, <1>15, <1>16 DEF PilotNext

------------------------------------------------------------------------------
(* The messaging.                                                          *)

\* Nothing the other parts do disturbs the messaging: while it holds the lead they wait.
LEMMA MessageUndisturbed ==
  ASSUME LeadType, PilotType, MessageType, MessageInv,
         Respects, RunsKept, UNCHANGED messageVars
  PROVE  MessageType' /\ MessageInv'
<1> USE DEF messageVars
<1>1. MessageType'
  BY DEF MessageType
<1>2. MessageHolds'
  <2>1. ASSUME messageTx # NoMessageTx
        PROVE  MessageEligible' /\ UNCHANGED contact
    <3>1. rowLock = "message" /\ msgLock = "message" /\ MessageEligible
      BY <2>1 DEF MessageInv, MessageHolds
    <3>2. UNCHANGED <<lead, contact, optOuts, authorization>>
      BY <3>1 DEF Respects
    <3>3. /\ pilotRun'[MessageRun] = pilotRun[MessageRun] /\ seat'[MessageRun] = seat[MessageRun]
          /\ review'[MessageRun] = review[MessageRun]
      BY <3>1, ManualMessagingAssumption DEF RunsKept, MessageEligible
    <3> QED BY <3>1, <3>2, <3>3 DEF MessageEligible, SuppressedFor, HasUsableContact
  <2> QED BY <2>1 DEF MessageInv, MessageHolds, Respects, SnapshotStands
<1>3. PreparedForAContact' /\ (\A k \in MessageKeys : HistoryInOrder(k))' /\ CallIsPrepared'
  BY DEF MessageInv, PreparedForAContact, HistoryInOrder, CallIsPrepared
<1>4. LinkRestsOnTheRecord'
  BY DEF MessageInv, LinkRestsOnTheRecord, Told, Respects, SuppressionStays
<1> QED BY <1>1, <1>2, <1>3, <1>4 DEF MessageInv

\* What every step of the messaging does to the rest.
MessageLeaves == LeadType' /\ SuppressionStays /\ UNCHANGED pilotVars

\* A preparation is stored, whether or not the console hears of it.
LEMMA PrepareKeeps ==
  ASSUME LeadType, MessageType, MessageInv, NEW who \in Writers, NEW k \in MessageKeys,
         PrepareMessage(who, k), session' \subseteq MessageKeys, UNCHANGED <<consoleCall, link>>
  PROVE  MessageLeaves /\ MessageType' /\ MessageInv'
<1> USE DEF PrepareMessage, MessageRowsFree, SuppressionFree, RowFree, leadVars
<1>1. contact.fp \in Nat \ {0}
  BY DEF LeadType
<1>2. /\ prepared[k].fp = 0 /\ prepared'[k].fp = contact.fp
      /\ \A j \in MessageKeys \ {k} : prepared'[j] = prepared[j]
  BY DEF MessageType, NoPreparation
<1>3. MessageType'
  BY <1>1 DEF MessageType
<1>4. MessageLeaves
  BY DEF MessageLeaves, LeadType, SuppressionStays
<1>5. messageTx = NoMessageTx /\ MessageHolds'
  BY DEF MessageInv, MessageHolds
<1>6. PreparedForAContact' /\ (\A j \in MessageKeys : HistoryInOrder(j))'
  BY <1>1, <1>2 DEF MessageInv, PreparedForAContact, HistoryInOrder
<1>7. CallIsPrepared'
  <2>1. consoleCall.type = "OPENED" => consoleCall.key \in MessageKeys \ {k}
    BY <1>2 DEF MessageInv, CallIsPrepared, MessageType, NoCall
  <2> QED BY <1>2, <2>1 DEF MessageInv, CallIsPrepared
<1>8. LinkRestsOnTheRecord'
  BY <1>2 DEF MessageInv, LinkRestsOnTheRecord, Told
<1> QED BY <1>3, <1>4, <1>5, <1>6, <1>7, <1>8 DEF MessageInv

\* The transaction of an event takes both locks of the lead.
LEMMA LockKeeps ==
  ASSUME LeadType, MessageType, MessageInv, NEW who \in Writers, NEW k \in MessageKeys,
         NEW request \in [type : MessageTypes, result : MessageResults],
         LockMessage(who, k, request), ConsoleIdle
  PROVE  MessageLeaves /\ MessageType' /\ MessageInv'
<1> USE DEF LockMessage, ConsoleIdle
<1>1. messageTx' \in MessageEvents /\ messageTx'.key = k /\ messageTx'.type = request.type
      /\ messageTx' # NoMessageTx
  BY DEF MessageEvents, NoMessageTx, MessageTypes
<1>2. MessageType'
  BY <1>1 DEF MessageType
<1>3. MessageLeaves
  BY DEF MessageLeaves, LeadType, SuppressionStays
<1>4. prepared[k].fp # 0
  BY DEF MessageInv, PreparedForAContact
<1>5. MessageHolds'
  BY <1>1, <1>4 DEF MessageHolds, MessageEligible, SuppressedFor, HasUsableContact, SnapshotStands, pilotVars
<1>6. PreparedForAContact' /\ (\A j \in MessageKeys : HistoryInOrder(j))' /\ CallIsPrepared'
  BY DEF MessageInv, PreparedForAContact, HistoryInOrder, CallIsPrepared
<1>7. LinkRestsOnTheRecord'
  BY DEF MessageInv, LinkRestsOnTheRecord, Told
<1> QED BY <1>2, <1>3, <1>5, <1>6, <1>7 DEF MessageInv

\* What the console hears of the end of a transaction of its own.
LEMMA HeardForms ==
  ASSUME Heard
  PROVE  \/ UNCHANGED <<session, consoleCall, link>>
         \/ /\ consoleCall' = NoCall /\ session' \subseteq session
            /\ consoleCall.key = messageTx.key /\ consoleCall.type = messageTx.type
            /\ link' = IF consoleCall.type = "OPENED" THEN [link EXCEPT ![consoleCall.key] = consoleCall.fp]
                       ELSE link
BY DEF Heard, ConsoleHears, ConsoleIdle, Calls

\* The link shown is that of the call, once the opening is in the history.
LEMMA LinkShown ==
  ASSUME MessageType, MessageInv, NEW t \in MessageKeys, t = messageTx.key,
         Heard, messageTx.type = "OPENED" => Told(t, "OPENED")',
         \A k \in MessageKeys : Told(k, "OPENED") => Told(k, "OPENED")',
         UNCHANGED prepared, NEW k \in MessageKeys, link'[k] # 0
  PROVE  Told(k, "OPENED")' /\ link'[k] = prepared[k].fp
<1>1. CASE link'[k] = link[k]
  BY <1>1 DEF MessageInv, LinkRestsOnTheRecord
<1>2. CASE link'[k] # link[k]
  <2>1. /\ consoleCall.type = "OPENED" /\ messageTx.type = "OPENED" /\ consoleCall.key = messageTx.key
        /\ link' = [link EXCEPT ![consoleCall.key] = consoleCall.fp]
    BY <1>2, HeardForms
  <2>2. k = t /\ link'[k] = consoleCall.fp
    BY <1>2, <2>1 DEF MessageType
  <2> QED BY <2>1, <2>2 DEF MessageInv, CallIsPrepared
<1> QED BY <1>1, <1>2

\* The end of a transaction frees both locks.
LEMMA EndKeeps ==
  ASSUME LeadType, MessageType, MessageInv, EndMessageTx, Heard,
         optOuts \subseteq optOuts', optOuts' \subseteq OptOutChannels
  PROVE  /\ MessageLeaves /\ MessageHolds' /\ PreparedForAContact' /\ CallIsPrepared'
         /\ (messages' \in [MessageKeys -> Seq(MessageEvents)] => MessageType')
<1> USE DEF EndMessageTx
<1>1. MessageLeaves
  BY DEF MessageLeaves, LeadType, SuppressionStays
<1>2. MessageHolds' /\ PreparedForAContact'
  BY DEF MessageHolds, MessageInv, PreparedForAContact
<1>3. consoleCall' \in {consoleCall, NoCall} /\ session' \subseteq session
      /\ link' \in [MessageKeys -> Nat]
  <2>1. CASE UNCHANGED <<session, consoleCall, link>>
    BY <2>1 DEF MessageType
  <2>2. CASE ~UNCHANGED <<session, consoleCall, link>>
    <3>1. consoleCall.fp \in Nat
      BY DEF MessageType, NoCall
    <3>2. /\ consoleCall' = NoCall /\ session' \subseteq session
          /\ link' = IF consoleCall.type = "OPENED" THEN [link EXCEPT ![consoleCall.key] = consoleCall.fp]
                     ELSE link
      BY <2>2, HeardForms
    <3> QED BY <3>1, <3>2 DEF MessageType
  <2> QED BY <2>1, <2>2
<1>4. CallIsPrepared'
  BY <1>3 DEF CallIsPrepared, MessageInv, NoCall
<1>5. messages' \in [MessageKeys -> Seq(MessageEvents)] => MessageType'
  BY <1>3 DEF MessageType
<1> QED BY <1>1, <1>2, <1>4, <1>5

\* An event of an unfinished history comes next in it.
LEMMA NextInHistory ==
  ASSUME MessageType, MessageInv, messageTx # NoMessageTx, MessageInOrder(messageTx.key, messageTx.type)
  PROVE  Len(messages[messageTx.key]) < 3
         /\ messageTx.type = History[Len(messages[messageTx.key]) + 1]
<1> DEFINE s == messages[messageTx.key]
<1>1. messageTx \in MessageEvents
  BY DEF MessageType
<1>2. messageTx.key \in MessageKeys /\ messageTx.type \in MessageTypes /\ s \in Seq(MessageEvents)
  BY <1>1 DEF MessageEvents, MessageType
<1>3. /\ Len(s) \in Nat /\ Len(s) <= 3
      /\ Len(s) = 0 \/ Len(s) = 1 \/ Len(s) = 2 \/ Len(s) = 3
      /\ \A i \in 1 .. Len(s) : s[i].type = History[i]
  <2>1. Len(s) \in Nat
    BY <1>2, LenProperties
  <2>2. Len(s) <= 3 /\ \A i \in 1 .. Len(s) : s[i].type = History[i]
    BY <1>2 DEF MessageInv, HistoryInOrder
  <2>3. \A n \in Nat : n <= 3 => n = 0 \/ n = 1 \/ n = 2 \/ n = 3
    OBVIOUS
  <2>4. Len(s) = 0 \/ Len(s) = 1 \/ Len(s) = 2 \/ Len(s) = 3
    BY <2>1, <2>2, <2>3, Zenon
  <2> QED BY <2>1, <2>2, <2>4
<1>4. History[1] = "OPENED" /\ History[2] = "CONTACT_CONFIRMED" /\ History[3] = "RESPONSE_RECORDED"
  BY DEF History
<1>5. \A type \in MessageTypes : Told(messageTx.key, type) <=> \E i \in 1 .. Len(s) : History[i] = type
  BY <1>3 DEF Told
<1>6. /\ Told(messageTx.key, "OPENED") <=> Len(s) >= 1
      /\ Told(messageTx.key, "CONTACT_CONFIRMED") <=> Len(s) >= 2
      /\ Told(messageTx.key, "RESPONSE_RECORDED") <=> Len(s) >= 3
  <2> HIDE DEF s
  <2> QED BY <1>3, <1>4, <1>5 DEF MessageTypes
<1>7. messageTx.type = "RESPONSE_RECORDED" => Told(messageTx.key, "CONTACT_CONFIRMED")
  BY DEF MessageInOrder, Confirmed, Told
<1> HIDE DEF s
<1> QED
  <2>1. CASE messageTx.type = "OPENED"
    BY <1>3, <1>4, <1>6, <2>1 DEF MessageInOrder, s
  <2>2. CASE messageTx.type = "CONTACT_CONFIRMED"
    BY <1>3, <1>4, <1>6, <2>2 DEF MessageInOrder, s
  <2>3. CASE messageTx.type = "RESPONSE_RECORDED"
    BY <1>3, <1>4, <1>6, <1>7, <2>3 DEF MessageInOrder, s
  <2> QED BY <1>2, <2>1, <2>2, <2>3 DEF MessageTypes

\* The insert appends the next event of the history, with its opt-out.
LEMMA RecordKeeps ==
  ASSUME LeadType, MessageType, MessageInv, RecordMessage, Heard
  PROVE  MessageLeaves /\ MessageType' /\ MessageInv'
<1> DEFINE t == messageTx.key
           s == messages[t]
<1> USE DEF RecordMessage
<1>1. messageTx \in MessageEvents /\ t \in MessageKeys /\ s \in Seq(MessageEvents)
  BY DEF MessageType, MessageEvents
<1>2. /\ messages'[t] = Append(s, messageTx) /\ messages'[t] \in Seq(MessageEvents)
      /\ \A j \in MessageKeys \ {t} : messages'[j] = messages[j]
      /\ messages' \in [MessageKeys -> Seq(MessageEvents)]
  BY <1>1 DEF MessageType
<1>3. /\ Len(s) \in Nat /\ Len(messages'[t]) = Len(s) + 1
      /\ \A i \in 1 .. Len(s) : messages'[t][i] = s[i]
      /\ messages'[t][Len(s) + 1] = messageTx
  <2> HIDE DEF s
  <2> QED BY <1>1, <1>2, AppendProperties, LenProperties
<1>4. optOuts \subseteq optOuts' /\ optOuts' \subseteq OptOutChannels
  BY DEF LeadType, OptOutChannels
<1>5. MessageLeaves /\ MessageHolds' /\ PreparedForAContact' /\ CallIsPrepared' /\ MessageType'
  BY <1>2, <1>4, EndKeeps
<1>6. Len(s) < 3 /\ messageTx.type = History[Len(s) + 1]
  BY NextInHistory
<1>7. ASSUME NEW k \in MessageKeys PROVE HistoryInOrder(k)'
  <2>1. CASE k = t
    <3>1. HistoryInOrder(t)
      BY <1>1 DEF MessageInv
    <3>2. \A i \in 1 .. Len(s) : s[i].type = History[i]
      BY <3>1 DEF HistoryInOrder
    <3> HIDE DEF s
    <3>3. Len(messages'[t]) <= 3
      BY <1>3, <1>6
    <3>4. \A i \in 1 .. Len(messages'[t]) : i \in 1 .. Len(s) \/ i = Len(s) + 1
      BY <1>3
    <3>5. \A i \in 1 .. Len(messages'[t]) : messages'[t][i].type = History[i]
      BY <1>3, <1>6, <3>2, <3>4
    <3> QED BY <2>1, <3>3, <3>5 DEF HistoryInOrder
  <2>2. CASE k # t
    BY <1>2, <2>2 DEF MessageInv, HistoryInOrder
  <2> QED BY <2>1, <2>2
<1>8. \A k \in MessageKeys, type \in MessageTypes : Told(k, type) => Told(k, type)'
  <2>1. ASSUME NEW k \in MessageKeys, NEW type \in MessageTypes, Told(k, type) PROVE Told(k, type)'
    <3>1. CASE k = t
      <4>1. PICK i \in 1 .. Len(s) : s[i].type = type
        BY <2>1, <3>1 DEF Told
      <4> HIDE DEF s
      <4>2. i \in 1 .. Len(messages'[t]) /\ messages'[t][i].type = type
        BY <1>3, <4>1
      <4> QED BY <3>1, <4>2 DEF Told
    <3>2. CASE k # t
      BY <1>2, <2>1, <3>2 DEF Told
    <3> QED BY <3>1, <3>2
  <2> QED BY <2>1
<1>9. messageTx.type = "OPENED" => \E i \in 1 .. Len(messages'[t]) : messages'[t][i].type = "OPENED"
  <2> HIDE DEF s
  <2>1. Len(s) + 1 \in 1 .. Len(messages'[t])
    BY <1>3
  <2> QED BY <1>3, <2>1
<1>10. LinkRestsOnTheRecord'
  <2> SUFFICES ASSUME NEW k \in MessageKeys
               PROVE  /\ link'[k] # 0 => Told(k, "OPENED")' /\ link'[k] = prepared'[k].fp
                      /\ \A i \in 1 .. Len(messages'[k]) : messages'[k][i].type = History[i]
                      /\ (\E i \in 1 .. Len(messages'[k]) : messages'[k][i].result = "OPT_OUT") => "WHATSAPP" \in optOuts'
    BY DEF LinkRestsOnTheRecord, History
  <2>1. link'[k] # 0 => Told(k, "OPENED")' /\ link'[k] = prepared'[k].fp
    <3>1. PICK q \in MessageKeys : q = messageTx.key
      BY <1>1
    <3>2. messageTx.type = "OPENED" => Told(q, "OPENED")'
      BY <1>9, <3>1 DEF Told
    <3>3. \A j \in MessageKeys : Told(j, "OPENED") => Told(j, "OPENED")'
      BY <1>8 DEF MessageTypes
    <3>4. UNCHANGED prepared
      BY DEF EndMessageTx
    <3> QED BY <3>1, <3>2, <3>3, <3>4, LinkShown
  <2>2. \A i \in 1 .. Len(messages'[k]) : messages'[k][i].type = History[i]
    BY <1>7 DEF HistoryInOrder
  <2>3. ASSUME NEW i \in 1 .. Len(messages'[k]), messages'[k][i].result = "OPT_OUT"
        PROVE  "WHATSAPP" \in optOuts'
    <3>1. CASE messageTx.result = "OPT_OUT"
      BY <3>1
    <3>2. CASE messageTx.result # "OPT_OUT"
      <4>1. \E j \in 1 .. Len(messages[k]) : messages[k][j].result = "OPT_OUT"
        <5>1. CASE k = t
          <6> HIDE DEF s
          <6>1. i \in 1 .. Len(s) \/ i = Len(s) + 1
            BY <1>3, <5>1
          <6>2. i \in 1 .. Len(s) /\ s[i].result = "OPT_OUT"
            BY <1>3, <2>3, <3>2, <5>1, <6>1
          <6> QED BY <5>1, <6>2 DEF s
        <5>2. CASE k # t
          BY <1>2, <2>3, <5>2
        <5> QED BY <5>1, <5>2
      <4> QED BY <1>4, <4>1 DEF MessageInv, LinkRestsOnTheRecord
    <3> QED BY <3>1, <3>2
  <2> QED BY <2>1, <2>2, <2>3
<1> QED BY <1>5, <1>7, <1>10 DEF MessageInv

\* An answer without a write leaves the history; a replay answers what is in it.
LEMMA AnswerKeeps ==
  ASSUME LeadType, MessageType, MessageInv, AnswerMessage, IF ReplaysMessage THEN Heard ELSE ConsoleIdle
  PROVE  MessageLeaves /\ MessageType' /\ MessageInv'
<1> USE DEF AnswerMessage
<1>1. PICK t \in MessageKeys : t = messageTx.key
  BY DEF MessageType, MessageEvents
<1>2. (\A k \in MessageKeys : HistoryInOrder(k))' /\ \A k \in MessageKeys : Told(k, "OPENED") <=> Told(k, "OPENED")'
  BY DEF MessageInv, HistoryInOrder, Told
<1>3. CASE ReplaysMessage
  <2>1. MessageLeaves /\ MessageHolds' /\ PreparedForAContact' /\ CallIsPrepared' /\ MessageType'
    BY <1>3, EndKeeps DEF LeadType, MessageType
  <2>2. messageTx.type = "OPENED" => Told(t, "OPENED")'
    BY <1>1, <1>3 DEF ReplaysMessage, Told
  <2>3. \A k \in MessageKeys : link'[k] # 0 => Told(k, "OPENED")' /\ link'[k] = prepared[k].fp
    BY <1>1, <1>2, <1>3, <2>2, LinkShown DEF EndMessageTx
  <2>4. LinkRestsOnTheRecord'
    BY <2>3 DEF MessageInv, LinkRestsOnTheRecord, EndMessageTx
  <2> QED BY <1>2, <2>1, <2>4 DEF MessageInv
<1>4. CASE ~ReplaysMessage
  <2> USE <1>4 DEF EndMessageTx, ConsoleIdle
  <2>1. MessageLeaves /\ MessageType'
    BY DEF MessageLeaves, LeadType, SuppressionStays, MessageType
  <2>2. MessageHolds' /\ PreparedForAContact' /\ CallIsPrepared' /\ LinkRestsOnTheRecord'
    BY DEF MessageHolds, MessageInv, PreparedForAContact, CallIsPrepared, LinkRestsOnTheRecord, Told
  <2> QED BY <1>2, <2>1, <2>2 DEF MessageInv
<1> QED BY <1>3, <1>4

\* The console's own steps touch its session and its call only.
LEMMA ConsoleKeeps ==
  ASSUME LeadType, MessageType, MessageInv,
         UNCHANGED <<leadVars, pilotVars, prepared, messages, messageTx, link>>,
         session' \subseteq session,
         consoleCall' \in [key : MessageKeys, type : MessageTypes, result : MessageResults, fp : Nat] \cup {NoCall},
         consoleCall'.type = "OPENED" => consoleCall'.fp = prepared[consoleCall'.key].fp /\ consoleCall'.fp # 0
  PROVE  MessageLeaves /\ MessageType' /\ MessageInv'
<1>1. MessageLeaves /\ MessageType'
  BY DEF MessageLeaves, LeadType, SuppressionStays, MessageType, leadVars
<1>2. MessageHolds'
  BY DEF MessageInv, MessageHolds, MessageEligible, SuppressedFor, HasUsableContact, SnapshotStands,
         leadVars, pilotVars
<1>3. PreparedForAContact' /\ (\A k \in MessageKeys : HistoryInOrder(k))' /\ CallIsPrepared' /\ LinkRestsOnTheRecord'
  BY DEF MessageInv, PreparedForAContact, HistoryInOrder, CallIsPrepared, LinkRestsOnTheRecord, Told, leadVars
<1> QED BY <1>1, <1>2, <1>3 DEF MessageInv

\* Each step of the messaging keeps its invariant.
LEMMA MessageStep ==
  ASSUME LeadType, MessageType, MessageInv, MessageNext
  PROVE  MessageLeaves /\ MessageType' /\ MessageInv'
<1>1. ASSUME NEW who \in Operators, NEW k \in MessageKeys, PrepareMessage(who, k), ConsoleIdle
      PROVE  MessageLeaves /\ MessageType' /\ MessageInv'
  BY <1>1, PrepareKeeps DEF ConsoleIdle, Writers, MessageType
<1>2. ASSUME NEW who \in Operators, NEW k \in MessageKeys, NEW request \in MessageRequests,
             LockMessage(who, k, request), ConsoleIdle
      PROVE  MessageLeaves /\ MessageType' /\ MessageInv'
  <2>1. request \in [type : MessageTypes, result : MessageResults]
    BY DEF MessageRequests, MessageTypes, MessageResults
  <2> QED BY <1>2, <2>1, LockKeeps DEF Writers
<1>3. CASE RecordMessage /\ Heard
  BY <1>3, RecordKeeps
<1>4. CASE AnswerMessage /\ (IF ReplaysMessage THEN Heard ELSE ConsoleIdle)
  BY <1>4, AnswerKeeps
<1>5. ASSUME NEW k \in MessageKeys, ConsolePrepare(k)
      PROVE  MessageLeaves /\ MessageType' /\ MessageInv'
  <2>1. session' \subseteq MessageKeys /\ "console" \in Writers
    BY <1>5 DEF ConsolePrepare, MessageType, Writers
  <2> QED BY <1>5, <2>1, PrepareKeeps DEF ConsolePrepare
<1>6. ASSUME NEW k \in MessageKeys, ConsoleResolve(k)
      PROVE  MessageLeaves /\ MessageType' /\ MessageInv'
  <2> USE <1>6 DEF ConsoleResolve
  <2>1. contact.fp \in Nat \ {0} /\ contact.fp = prepared[k].fp
    BY DEF LeadType, Resolves
  <2>2. consoleCall' \in [key : MessageKeys, type : MessageTypes, result : MessageResults, fp : Nat]
    BY <2>1 DEF MessageTypes, MessageResults
  <2>3. consoleCall'.fp = prepared[consoleCall'.key].fp /\ consoleCall'.fp # 0
    BY <2>1
  <2> QED BY <2>2, <2>3, ConsoleKeeps
<1>7. ASSUME NEW k \in MessageKeys, NEW result \in ConsoleResults, ConsoleConfirm(k, result)
      PROVE  MessageLeaves /\ MessageType' /\ MessageInv'
  <2> USE <1>7 DEF ConsoleConfirm
  <2>1. /\ consoleCall' \in [key : MessageKeys, type : MessageTypes, result : MessageResults, fp : Nat]
        /\ consoleCall'.type # "OPENED"
    BY DEF MessageTypes, MessageResults, ConsoleResults, ConfirmResults
  <2> QED BY <2>1, ConsoleKeeps
<1>8. CASE ConsoleSends
  <2> DEFINE request == [type |-> consoleCall.type, result |-> consoleCall.result]
  <2>1. /\ consoleCall.key \in MessageKeys /\ request \in [type : MessageTypes, result : MessageResults]
        /\ "console" \in Writers
    BY <1>8 DEF ConsoleSends, MessageType, Writers
  <2>2. LockMessage("console", consoleCall.key, request) /\ ConsoleIdle
    BY <1>8 DEF ConsoleSends
  <2> HIDE DEF request
  <2> QED BY <2>1, <2>2, LockKeeps
<1>9. CASE ConsoleTimesOut \/ ConsoleRestarts
  <2>1. consoleCall' = NoCall /\ session' \subseteq session
        /\ UNCHANGED <<leadVars, pilotVars, prepared, messages, messageTx, link>>
    BY <1>9 DEF ConsoleTimesOut, ConsoleRestarts
  <2> QED BY <2>1, ConsoleKeeps DEF NoCall
<1> QED BY <1>1, <1>2, <1>3, <1>4, <1>5, <1>6, <1>7, <1>8, <1>9 DEF MessageNext

------------------------------------------------------------------------------
(* The composition.                                                        *)

\* Each part keeps its own invariant and leaves the others theirs.
LEMMA DeskStep ==
  ASSUME DeskInv, [DeskNext]_deskVars
  PROVE  DeskInv'
<1> USE DEF DeskInv, DeskTypeOK
<1>1. ASSUME Respects, CrmType', UNCHANGED <<pilotVars, messageVars>> PROVE DeskInv'
  <2>1. RunsKept
    BY <1>1 DEF RunsKept, pilotVars
  <2> QED BY <1>1, <2>1, PilotUndisturbed, MessageUndisturbed DEF Respects
<1>2. CASE LeadNext /\ UNCHANGED <<crmVars, pilotVars, messageVars>>
  <2>1. CrmType'
    BY <1>2 DEF crmVars, CrmType
  <2> QED BY <1>1, <1>2, <2>1, LeadRespects
<1>3. CASE CrmNext /\ UNCHANGED <<pilotVars, messageVars>>
  BY <1>1, <1>3, CrmRespects
<1>4. CASE PilotNext /\ UNCHANGED <<crmVars, messageVars>>
  <2>1. CrmType'
    BY <1>4 DEF crmVars, CrmType
  <2> QED BY <1>4, <2>1, PilotStep, MessageUndisturbed DEF Respects
<1>5. CASE MessageNext /\ UNCHANGED crmVars
  <2>1. CrmType'
    BY <1>5 DEF crmVars, CrmType
  <2> QED BY <1>5, <2>1, MessageStep, PilotUndisturbed DEF MessageLeaves
<1>6. CASE UNCHANGED deskVars
  <2>1. Respects /\ CrmType'
    BY <1>6 DEF deskVars, leadVars, crmVars, CrmType, LeadType, Respects, SuppressionStays
  <2> QED BY <1>1, <1>6, <2>1 DEF deskVars
<1> QED BY <1>2, <1>3, <1>4, <1>5, <1>6 DEF DeskNext

\* Every reachable state of the composition satisfies the invariant.
THEOREM DeskInvariant == DeskSpec => []DeskInv
<1>1. DeskInit => DeskInv
  BY DeskInitial
<1>2. DeskInv /\ [DeskNext]_deskVars => DeskInv'
  BY DeskStep
<1> QED BY <1>1, <1>2, PTL DEF DeskSpec

\* With any number of runs at once the lead sits in at most one active run (the trigger
\* of migration 0011), and a run that recorded DO_NOT_CONTACT left the lead blocked with
\* a global opt-out that no screen, transaction or message takes back.
THEOREM PilotClaimsExclusive == DeskSpec => []PilotClaimsAreExclusive
<1>1. DeskInv => PilotClaimsAreExclusive
  BY DEF DeskInv, PilotInv
<1> QED BY <1>1, DeskInvariant, PTL

LEMMA FunnelHolds == DeskInv => FunnelNarrows
<1> SUFFICES ASSUME DeskInv, NEW r \in PilotRuns, NEW from \in Instants, NEW to \in Instants
             PROVE  LET s     == PilotSnapshot(r, from, to)
                        whole == PilotSnapshot(r, 1, MaxInstant)
                    IN /\ s.conversions <= s.proposals /\ s.proposals <= s.interested
                       /\ s.meetings <= s.interested /\ s.interested <= s.responses
                       /\ s.responses <= whole.manualContact /\ s.manualContact <= s.approved
                       /\ s.approved <= s.associated
  BY DEF FunnelNarrows
<1> DEFINE Achieved(milestones) == \E x \in results[r].all : x.result \in milestones /\ from <= x.at /\ x.at <= to
<1>1. /\ Achieved({"CONVERTED"}) => Achieved({"PROPOSAL_REQUESTED", "CONVERTED"})
      /\ Achieved({"PROPOSAL_REQUESTED", "CONVERTED"}) =>
           Achieved({"INTERESTED", "MEETING_REQUESTED", "PROPOSAL_REQUESTED", "CONVERTED"})
      /\ Achieved({"MEETING_REQUESTED"}) =>
           Achieved({"INTERESTED", "MEETING_REQUESTED", "PROPOSAL_REQUESTED", "CONVERTED"})
      /\ Achieved({"INTERESTED", "MEETING_REQUESTED", "PROPOSAL_REQUESTED", "CONVERTED"}) =>
           Achieved({"RESPONDED", "INTERESTED", "MEETING_REQUESTED", "PROPOSAL_REQUESTED", "CONVERTED"})
  OBVIOUS
<1>2. Achieved({"RESPONDED", "INTERESTED", "MEETING_REQUESTED", "PROPOSAL_REQUESTED", "CONVERTED"}) =>
        \E at \in contacts[r] : 1 <= at /\ at <= MaxInstant
  <2>1. {"RESPONDED", "INTERESTED", "MEETING_REQUESTED", "PROPOSAL_REQUESTED", "CONVERTED"} \subseteq ContactedResults
    BY DEF ContactedResults, PilotResults
  <2>2. Reached(r, ContactedResults) => contacts[r] # {}
    BY DEF DeskInv, PilotInv, RunHolds, HasManualContact
  <2>3. \A at \in contacts[r] : 1 <= at /\ at <= MaxInstant
    BY InternalPilotAssumption DEF DeskInv, DeskTypeOK, PilotType, Instants
  <2> QED BY <2>1, <2>2, <2>3 DEF Reached
<1>3. (\E at \in contacts[r] : from <= at /\ at <= to) => seat[r] > 0 /\ review[r].decision = "APPROVED"
  BY DEF DeskInv, PilotInv, RunHolds, HasManualContact
<1> QED BY <1>1, <1>2, <1>3 DEF PilotSnapshot, Counted

\* The metrics of getPilotSnapshot narrow, stage by stage, in every run and every period,
\* but for a response whose contact was recorded outside the period.
THEOREM PilotFunnelNarrows == DeskSpec => []FunnelNarrows
BY FunnelHolds, DeskInvariant, PTL

\* The link the console shows is backed by the recorded opening, and a history of
\* manual_message_events is opening, confirmation, reply, with the opt-out it brought.
THEOREM LinkIsRecorded == DeskSpec => []LinkRestsOnTheRecord
<1>1. DeskInv => LinkRestsOnTheRecord
  BY DEF DeskInv, MessageInv
<1> QED BY <1>1, DeskInvariant, PTL

\* What an insertion into the two tables of the messaging finds.
EligibleAt(k) ==
  messages'[k] # messages[k] \/ prepared'[k] # prepared[k] =>
    /\ MessageEligible
    /\ (messages[k] = <<>> /\ messages'[k] # <<>>) => contact.fp = prepared[k].fp

LEMMA MessagesFindEligible ==
  ASSUME DeskInv, [DeskNext]_deskVars
  PROVE  [\A k \in MessageKeys : EligibleAt(k)]_<<messages, prepared>>
<1> USE DEF DeskInv, DeskTypeOK
<1>1. ASSUME NEW who, NEW k \in MessageKeys, PrepareMessage(who, k)
      PROVE  \A j \in MessageKeys : EligibleAt(j)
  BY <1>1 DEF PrepareMessage, EligibleAt
<1>2. CASE RecordMessage
  <2> DEFINE t == messageTx.key
  <2>1. t \in MessageKeys /\ messageTx.type \in MessageTypes
    BY <1>2 DEF RecordMessage, MessageType, MessageEvents
  <2>2. MessageEligible /\ (messageTx.type = "OPENED" => SnapshotStands(t))
    BY <1>2 DEF RecordMessage, MessageInv, MessageHolds
  <2>3. messages[t] = <<>> => messageTx.type = "OPENED"
    BY <1>2, <2>1 DEF RecordMessage, MessageInOrder, Told, Confirmed, MessageTypes
  <2>4. \A j \in MessageKeys : j # t => messages'[j] = messages[j]
    BY <1>2 DEF RecordMessage, MessageType
  <2>5. UNCHANGED prepared
    BY <1>2 DEF RecordMessage, EndMessageTx
  <2> QED BY <2>2, <2>3, <2>4, <2>5 DEF SnapshotStands, EligibleAt
<1>3. CASE UNCHANGED <<messages, prepared>>
  BY <1>3
<1>4. CASE MessageNext
  <2>1. ASSUME NEW who, NEW k, NEW request, LockMessage(who, k, request)
        PROVE  UNCHANGED <<messages, prepared>>
    BY <2>1 DEF LockMessage
  <2>2. AnswerMessage => UNCHANGED <<messages, prepared>>
    BY DEF AnswerMessage, EndMessageTx
  <2> QED
    BY <1>1, <1>2, <1>3, <1>4, <2>1, <2>2
       DEF MessageNext, ConsolePrepare, ConsoleResolve, ConsoleConfirm, ConsoleSends, ConsoleTimesOut,
           ConsoleRestarts
<1> QED BY <1>3, <1>4 DEF DeskNext, deskVars, messageVars

\* The locks of exactEligibleContact hold the CRM, the pilot and the screens off: an event
\* is inserted for a lead that is still eligible.
THEOREM MessagesReachEligibleLeads == DeskSpec => MessageRecordedWhileEligible
<1>1. DeskInv /\ [DeskNext]_deskVars => [\A k \in MessageKeys : EligibleAt(k)]_<<messages, prepared>>
  BY MessagesFindEligible
<1>2. DeskSpec => [][\A k \in MessageKeys : EligibleAt(k)]_<<messages, prepared>>
  BY <1>1, DeskInvariant, PTL DEF DeskSpec
<1> QED BY <1>2 DEF MessageRecordedWhileEligible, EligibleAt

------------------------------------------------------------------------------
(* The history of the CRM.                                                 *)

\* One row more: which events there are.
LEMMA EventsGrow ==
  ASSUME NEW rows \in Seq(TimelineRows), NEW e \in TimelineRows, NEW types
  PROVE  /\ Len(rows) \in Nat /\ EventsOf(rows, types) \subseteq 1 .. Len(rows)
         /\ EventsOf(Append(rows, e), types) =
              IF e.type \in types THEN EventsOf(rows, types) \cup {Len(rows) + 1} ELSE EventsOf(rows, types)
<1> HIDE DEF TimelineRows
<1>1. /\ Len(rows) \in Nat /\ DOMAIN rows = 1 .. Len(rows)
      /\ DOMAIN Append(rows, e) = 1 .. Len(rows) + 1 /\ Append(rows, e)[Len(rows) + 1] = e
      /\ \A i \in 1 .. Len(rows) : Append(rows, e)[i] = rows[i]
  OBVIOUS
<1> QED BY <1>1 DEF EventsOf

\* One row more: an event of the types that starts where the history had ended continues it.
LEMMA HistoryGrows ==
  ASSUME NEW rows \in Seq(TimelineRows), NEW e \in TimelineRows, NEW types, NEW now, NEW new,
         TellsHistory(rows, types, now),
         IF e.type \in types THEN e.from = now /\ e.to = new ELSE new = now
  PROVE  TellsHistory(Append(rows, e), types, new)
<1> DEFINE all == Append(rows, e)
<1> DEFINE last == Len(rows) + 1
<1> DEFINE After(i) == {j \in EventsOf(rows, types) : j > i}
<1>1. Len(rows) \in Nat /\ EventsOf(rows, types) \subseteq 1 .. Len(rows)
  BY EventsGrow
<1>2. all[last] = e /\ \A i \in 1 .. Len(rows) : all[i] = rows[i]
  OBVIOUS
<1>3. \A i \in EventsOf(rows, types) :
        /\ After(i) = {} => rows[i].to = now
        /\ \A j \in After(i) : (\A k \in After(i) : j <= k) => rows[j].from = rows[i].to
  BY DEF TellsHistory
<1>4. CASE e.type \notin types
  <2>1. EventsOf(all, types) = EventsOf(rows, types) /\ new = now
    BY <1>4, EventsGrow
  <2> SUFFICES ASSUME NEW i \in EventsOf(all, types), NEW later, later = {j \in EventsOf(all, types) : j > i}
               PROVE  /\ later = {} => all[i].to = new
                      /\ \A j \in later : (\A k \in later : j <= k) => all[j].from = all[i].to
    BY DEF TellsHistory
  <2> HIDE DEF all
  <2>2. later = After(i) /\ i \in 1 .. Len(rows) /\ After(i) \subseteq 1 .. Len(rows)
    BY <1>1, <2>1
  <2>3. \A j \in later : all[j] = rows[j]
    BY <1>2, <2>2
  <2> QED BY <1>2, <1>3, <2>1, <2>2, <2>3
<1>5. CASE e.type \in types
  <2>1. EventsOf(all, types) = EventsOf(rows, types) \cup {last} /\ e.from = now /\ e.to = new
    BY <1>5, EventsGrow
  <2> SUFFICES ASSUME NEW i \in EventsOf(all, types), NEW later, later = {j \in EventsOf(all, types) : j > i}
               PROVE  /\ later = {} => all[i].to = new
                      /\ \A j \in later : (\A k \in later : j <= k) => all[j].from = all[i].to
    BY DEF TellsHistory
  <2> HIDE DEF all
  <2>2. CASE i = last
    <3>1. later = {}
      BY <1>1, <2>1, <2>2
    <3> QED BY <1>2, <2>1, <2>2, <3>1
  <2>3. CASE i # last
    <3>1. i \in EventsOf(rows, types) /\ i \in 1 .. Len(rows) /\ later = After(i) \cup {last}
      BY <1>1, <2>1, <2>3
    <3>2. ASSUME NEW j \in later, \A k \in later : j <= k PROVE all[j].from = all[i].to
      <4>1. CASE j = last
        <5>1. After(i) = {}
          BY <1>1, <3>1, <3>2, <4>1
        <5> QED BY <1>2, <1>3, <2>1, <3>1, <4>1, <5>1
      <4>2. CASE j # last
        <5>1. j \in After(i) /\ \A k \in After(i) : j <= k
          BY <3>1, <3>2, <4>2
        <5>2. rows[j].from = rows[i].to /\ j \in 1 .. Len(rows)
          BY <1>1, <1>3, <3>1, <5>1
        <5> QED BY <1>2, <3>1, <5>2
      <4> QED BY <4>1, <4>2
    <3> QED BY <3>1, <3>2
  <2> QED BY <2>2, <2>3
<1> QED BY <1>4, <1>5

\* One row more, which makes a version the row did not have: what was read stood as before.
LEMMA StoodStays ==
  ASSUME NEW rows \in Seq(TimelineRows), NEW e \in TimelineRows, NEW types, NEW first, NEW seen,
         seen.ver \in Nat, e.type \in types => seen.ver < e.ver, StoodAt(rows, types, first, seen)
  PROVE  StoodAt(Append(rows, e), types, first, seen)
<1> DEFINE all == Append(rows, e)
<1> DEFINE known == {i \in EventsOf(rows, types) : rows[i].ver <= seen.ver}
<1>1. Len(rows) \in Nat /\ EventsOf(rows, types) \subseteq 1 .. Len(rows) /\ e.ver \in Nat
  BY EventsGrow DEF TimelineRows
<1>2. all[Len(rows) + 1] = e /\ \A i \in 1 .. Len(rows) : all[i] = rows[i]
  OBVIOUS
<1>3. EventsOf(all, types) = IF e.type \in types THEN EventsOf(rows, types) \cup {Len(rows) + 1}
                             ELSE EventsOf(rows, types)
  BY EventsGrow
<1>4. (known = {} => seen.value = first)
      /\ \A i \in known : (\A j \in known : j <= i) => seen.value = rows[i].to
  BY DEF StoodAt
<1> HIDE DEF all
<1>5. {i \in EventsOf(all, types) : all[i].ver <= seen.ver} = known
  <2>1. CASE e.type \in types
    <3>1. ~(all[Len(rows) + 1].ver <= seen.ver)
      BY <1>1, <1>2, <2>1
    <3> QED BY <1>1, <1>2, <1>3, <2>1, <3>1
  <2>2. CASE e.type \notin types
    BY <1>1, <1>2, <1>3, <2>2
  <2> QED BY <2>1, <2>2
<1>6. \A i \in known : all[i] = rows[i]
  BY <1>1, <1>2
<1> HIDE DEF known
<1>7. StoodAt(all, types, first, seen)
  BY <1>4, <1>5, <1>6 DEF StoodAt
<1> QED BY <1>7 DEF all

\* One row more: an event of the types replaces the value of the row, from what it had read.
LEMMA VersionsGrow ==
  ASSUME NEW rows \in Seq(TimelineRows), NEW e \in TimelineRows, NEW types, NEW first, NEW row, NEW new,
         row.ver \in Nat, new.ver \in Nat, VersionsTold(rows, types, first, row),
         IF e.type \in types
           THEN /\ StoodAt(rows, types, first, Seen(e.from, e.read)) /\ e.read <= row.ver
                /\ e.quoted <= e.read => e.read + 1 = e.ver
                /\ row.ver < e.ver /\ new.value = e.to /\ new.ver = e.ver
           ELSE new.value = row.value /\ row.ver <= new.ver
  PROVE  VersionsTold(Append(rows, e), types, first, new)
<1> DEFINE all == Append(rows, e)
<1> DEFINE last == Len(rows) + 1
<1> DEFINE E == EventsOf(rows, types)
<1>1. Len(rows) \in Nat /\ E \subseteq 1 .. Len(rows)
  BY EventsGrow
<1>2. all[last] = e /\ \A i \in E : all[i] = rows[i] /\ i < last
  BY <1>1
<1>3. EventsOf(all, types) = IF e.type \in types THEN E \cup {last} ELSE E
  BY EventsGrow
<1>4. \A i \in E : rows[i] \in TimelineRows
  <2> HIDE DEF TimelineRows
  <2> QED BY <1>1
<1>5. e.ver \in Nat /\ e.read \in Nat /\ e.quoted \in Nat
      /\ \A i \in E : rows[i].ver \in Nat /\ rows[i].read \in Nat /\ rows[i].quoted \in Nat
  BY <1>4 DEF TimelineRows
<1>6. /\ \A i, j \in E : i < j => rows[i].ver < rows[j].ver
      /\ \A i \in E : /\ rows[i].read < rows[i].ver /\ rows[i].ver <= row.ver
                      /\ rows[i].quoted <= rows[i].read => rows[i].read + 1 = rows[i].ver
                      /\ StoodAt(rows, types, first, Seen(rows[i].from, rows[i].read))
      /\ StoodAt(rows, types, first, row)
  BY DEF VersionsTold
<1>7. \A i \in E : StoodAt(all, types, first, Seen(rows[i].from, rows[i].read))
  <2> TAKE i \in E
  <2>1. Seen(rows[i].from, rows[i].read).ver = rows[i].read
    BY DEF Seen
  <2>2. e.type \in types => rows[i].read < e.ver
    BY <1>5, <1>6
  <2> QED BY <1>5, <1>6, <2>1, <2>2, StoodStays
<1>8. CASE e.type \notin types
  <2>1. EventsOf(all, types) = E /\ \A i \in E : all[i] = rows[i]
    BY <1>2, <1>3, <1>8
  <2>2. StoodAt(all, types, first, row)
    BY <1>6, <1>8, StoodStays
  <2> HIDE DEF all, E
  <2>3. {i \in E : all[i].ver <= row.ver} = E /\ {i \in E : all[i].ver <= new.ver} = E
    BY <1>5, <1>6, <1>8, <2>1
  <2>4. StoodAt(all, types, first, new)
    BY <1>8, <2>1, <2>2, <2>3 DEF StoodAt
  <2>5. \A i \in E : rows[i].ver <= new.ver
    BY <1>5, <1>6, <1>8
  <2>6. VersionsTold(all, types, first, new)
    BY <1>6, <1>7, <2>1, <2>4, <2>5 DEF VersionsTold
  <2> QED BY <2>6 DEF all
<1>9. CASE e.type \in types
  <2>1. EventsOf(all, types) = E \cup {last} /\ new.ver = e.ver /\ new.value = e.to
    BY <1>3, <1>9
  <2>2. StoodAt(all, types, first, Seen(e.from, e.read))
    <3>1. Seen(e.from, e.read).ver = e.read
      BY DEF Seen
    <3> QED BY <1>5, <1>9, <3>1, StoodStays
  <2> HIDE DEF all, E, last
  <2>3. \A i \in E \cup {last} : all[i].ver <= new.ver
    BY <1>2, <1>5, <1>6, <1>9, <2>1
  <2>4. StoodAt(all, types, first, new)
    <3>1. {i \in E \cup {last} : all[i].ver <= new.ver} = E \cup {last}
      BY <2>3
    <3>2. \A i \in E \cup {last} : (\A j \in E \cup {last} : j <= i) => i = last
      <4>1. \A i \in E : ~(last <= i)
        BY <1>1, <1>2 DEF last
      <4> QED BY <4>1
    <3> QED BY <1>2, <2>1, <3>1, <3>2 DEF StoodAt
  <2>5. \A i, j \in E \cup {last} : i < j => all[i].ver < all[j].ver
    <3>1. \A i \in E : ~(last < i) /\ rows[i].ver < e.ver
      BY <1>1, <1>2, <1>5, <1>6, <1>9 DEF last
    <3>2. ~(last < last)
      BY <1>1 DEF last
    <3> QED BY <1>2, <1>6, <3>1, <3>2
  <2>6. e.read < e.ver
    BY <1>5, <1>9
  <2>7. ASSUME NEW i \in E \cup {last}
        PROVE  /\ all[i].read < all[i].ver /\ all[i].ver <= new.ver
               /\ all[i].quoted <= all[i].read => all[i].read + 1 = all[i].ver
               /\ StoodAt(all, types, first, Seen(all[i].from, all[i].read))
    <3>1. CASE i = last
      BY <1>2, <1>9, <2>2, <2>3, <2>6, <3>1
    <3>2. CASE i \in E
      BY <1>2, <1>6, <1>7, <2>3, <3>2
    <3> QED BY <3>1, <3>2
  <2>8. VersionsTold(all, types, first, new)
    BY <2>1, <2>4, <2>5, <2>7 DEF VersionsTold
  <2> QED BY <2>8 DEF all
<1> QED BY <1>8, <1>9

\* A version more without an event leaves the value as it was.
LEMMA VersionsStay ==
  ASSUME NEW rows \in Seq(TimelineRows), NEW types, NEW first, NEW row, NEW new,
         row.ver \in Nat, new.ver \in Nat, row.ver <= new.ver, new.value = row.value,
         VersionsTold(rows, types, first, row)
  PROVE  VersionsTold(rows, types, first, new)
<1>1. \A i \in EventsOf(rows, types) : rows[i].ver \in Nat /\ rows[i].ver <= row.ver
  <2>1. \A i \in EventsOf(rows, types) : rows[i] \in TimelineRows
    <3> HIDE DEF TimelineRows
    <3> QED BY DEF EventsOf
  <2> QED BY <2>1 DEF VersionsTold, TimelineRows
<1> DEFINE E == EventsOf(rows, types)
<1>2. {i \in E : rows[i].ver <= row.ver} = E /\ {i \in E : rows[i].ver <= new.ver} = E
  BY <1>1
<1>3. StoodAt(rows, types, first, new)
  BY <1>2 DEF StoodAt, VersionsTold
<1> QED BY <1>1, <1>3 DEF VersionsTold

\* The history of one row of the CRM and the open mutations that have read the row go on
\* together: the event, if it is one of the row's, started at what one of them had read.
LEMMA SeenGrows ==
  ASSUME CrmType, timeline \in Seq(TimelineRows), NEW e \in TimelineRows, timeline' = Append(timeline, e),
         NEW scope, NEW types, NEW first, NEW row, NEW new, scope # "IDLE",
         row.ver \in Nat, new.ver \in Nat, SeenStood(scope, types, first, row),
         \A c \in CrmClients : crmTx'[c] = crmTx[c] \/ crmTx'[c].scope = "IDLE",
         IF e.type \in types
           THEN /\ \/ Seen(e.from, e.read) = row
                   \/ Seen(e.from, e.read) = Seen(first, 0) /\ EventsOf(timeline, types) = {}
                   \/ \E c \in CrmClients : crmTx[c].scope = scope /\ Seen(e.from, e.read) = crmTx[c].seen
                /\ e.quoted <= e.read => e.read + 1 = e.ver
                /\ row.ver < e.ver /\ new = Seen(e.to, e.ver)
           ELSE new.value = row.value /\ row.ver <= new.ver
  PROVE  VersionsTold(timeline', types, first, new)
         /\ \A c \in CrmClients : crmTx'[c].scope = scope =>
              crmTx'[c].seen.ver <= new.ver /\ StoodAt(timeline', types, first, crmTx'[c].seen)
<1>1. e.ver \in Nat /\ e.read \in Nat /\ \A c \in CrmClients : crmTx[c].seen.ver \in Nat
  BY DEF TimelineRows, CrmType, CrmTransactions
<1>2. e.type \in types => new.value = e.to /\ new.ver = e.ver
  BY DEF Seen
<1>3. e.type \in types => StoodAt(timeline, types, first, Seen(e.from, e.read)) /\ e.read <= row.ver
  <2>1. Seen(e.from, e.read).ver = e.read
    BY DEF Seen
  <2>2. Seen(e.from, e.read) = row => StoodAt(timeline, types, first, Seen(e.from, e.read)) /\ e.read <= row.ver
    BY <1>1, <2>1 DEF SeenStood, VersionsTold
  <2>3. EventsOf(timeline, types) = {} => StoodAt(timeline, types, first, Seen(first, 0))
    BY DEF StoodAt, Seen
  <2>4. Seen(e.from, e.read) = Seen(first, 0) => e.read <= row.ver
    BY <1>1, <2>1 DEF Seen
  <2>5. \A c \in CrmClients : crmTx[c].scope = scope =>
          crmTx[c].seen.ver <= row.ver /\ StoodAt(timeline, types, first, crmTx[c].seen)
    BY DEF SeenStood
  <2> QED BY <2>1, <2>2, <2>3, <2>4, <2>5
<1>4. VersionsTold(timeline', types, first, new)
  <2>1. VersionsTold(timeline, types, first, row)
    BY DEF SeenStood
  <2> QED BY <1>2, <1>3, <2>1, VersionsGrow
<1>5. ASSUME NEW c \in CrmClients, crmTx'[c].scope = scope
      PROVE  crmTx'[c].seen.ver <= new.ver /\ StoodAt(timeline', types, first, crmTx'[c].seen)
  <2>1. crmTx'[c] = crmTx[c] /\ crmTx[c].scope = scope
    BY <1>5
  <2>2. crmTx[c].seen.ver <= row.ver /\ StoodAt(timeline, types, first, crmTx[c].seen)
    BY <2>1 DEF SeenStood
  <2>3. crmTx[c].seen.ver <= new.ver /\ (e.type \in types => crmTx[c].seen.ver < e.ver)
    BY <1>1, <1>2, <2>2
  <2> QED BY <1>1, <2>1, <2>2, <2>3, StoodStays
<1> QED BY <1>4, <1>5

\* The row of the lead moves on: its version grows, or its stage stays with its version.
LeadMoves ==
  /\ {lead.ver, lead'.ver} \subseteq Nat
  /\ lead'.ver > lead.ver \/ (lead'.ver = lead.ver /\ lead'.stage = lead.stage)

\* A row and a mutation more or less that record nothing
LEMMA VersionsKept ==
  ASSUME CrmType, CrmRowsType, VersionsInv, LeadMoves, lead'.stage = lead.stage,
         UNCHANGED <<timeline, opportunity>>,
         \A c \in CrmClients : \/ crmTx'[c] = crmTx[c] \/ crmTx'[c].scope = "IDLE"
                               \/ UNCHANGED lead /\ crmTx'[c].seen = PreviousValue(crmTx'[c].scope)
  PROVE  VersionsInv'
<1>1. timeline \in Seq(TimelineRows) /\ opportunity.ver \in Nat /\ lead.ver \in Nat /\ lead'.ver \in Nat
      /\ \A c \in CrmClients : crmTx[c].seen.ver \in Nat
  BY DEF CrmRowsType, OpportunityTyped, OpportunityRow, LeadMoves, CrmType, CrmTransactions
<1>2. PICK first \in FirstStages : SeenStood("stage", StageEvents, first, LeadSeen)
  BY DEF VersionsInv
<1>3. SeenStood("stage", StageEvents, first, LeadSeen)'
  <2>1. LeadSeen.ver = lead.ver /\ LeadSeen'.ver = lead'.ver /\ LeadSeen.value = LeadSeen'.value
        /\ lead.ver <= lead'.ver
    BY <1>1 DEF LeadSeen, Seen, LeadMoves
  <2>2. VersionsTold(timeline, StageEvents, first, LeadSeen')
    BY <1>1, <1>2, <2>1, VersionsStay DEF SeenStood
  <2>3. ASSUME NEW c \in CrmClients, crmTx'[c].scope = "stage"
        PROVE  crmTx'[c].seen.ver <= lead'.ver /\ StoodAt(timeline, StageEvents, first, crmTx'[c].seen)
    <3>1. CASE crmTx'[c] = crmTx[c]
      BY <1>1, <1>2, <2>1, <2>3, <3>1 DEF SeenStood
    <3>2. CASE UNCHANGED lead /\ crmTx'[c].seen = PreviousValue(crmTx'[c].scope)
      <4>1. crmTx'[c].seen = LeadSeen
        BY <2>3, <3>2 DEF PreviousValue, LeadSeen
      <4> QED BY <1>1, <1>2, <2>1, <4>1 DEF SeenStood, VersionsTold
    <3> QED BY <2>3, <3>1, <3>2
  <2> QED BY <2>1, <2>2, <2>3 DEF SeenStood
<1>4. SeenStood("opportunity:update", OpportunityEvents, "ABSENT", OpportunitySeen)'
  <2>1. OpportunitySeen' = OpportunitySeen /\ OpportunitySeen.ver = opportunity.ver
    BY DEF OpportunitySeen, Seen
  <2>2. VersionsTold(timeline, OpportunityEvents, "ABSENT", OpportunitySeen)
    BY DEF VersionsInv, SeenStood
  <2>3. ASSUME NEW c \in CrmClients, crmTx'[c].scope = "opportunity:update"
        PROVE  /\ crmTx'[c].seen.ver <= OpportunitySeen.ver
               /\ StoodAt(timeline, OpportunityEvents, "ABSENT", crmTx'[c].seen)
    <3>1. CASE crmTx'[c] = crmTx[c]
      BY <2>3, <3>1 DEF VersionsInv, SeenStood
    <3>2. CASE crmTx'[c].seen = PreviousValue(crmTx'[c].scope)
      <4>1. crmTx'[c].seen = OpportunitySeen
        BY <2>3, <3>2 DEF PreviousValue, OpportunitySeen
      <4> QED BY <1>1, <2>1, <2>2, <4>1 DEF VersionsTold
    <3> QED BY <2>3, <3>1, <3>2
  <2> QED BY <2>1, <2>2, <2>3 DEF SeenStood
<1> QED BY <1>3, <1>4 DEF VersionsInv

\* How an event that is one of the lead's stages, or of its opportunity, tells the change.
StageEventTells(e) ==
  IF e.type \in StageEvents
    THEN /\ \/ Seen(e.from, e.read) = LeadSeen
            \/ \E c \in CrmClients : crmTx[c].scope = "stage" /\ Seen(e.from, e.read) = crmTx[c].seen
         /\ e.quoted <= e.read => e.read + 1 = e.ver
         /\ lead.ver < e.ver /\ e.to = lead'.stage /\ e.ver = lead'.ver
    ELSE lead'.stage = lead.stage

OpportunityEventTells(e) ==
  IF e.type \in OpportunityEvents
    THEN /\ \/ opportunity.outcome = "ABSENT" /\ e.from = "ABSENT" /\ e.read = 0
            \/ \E c \in CrmClients :
                 crmTx[c].scope = "opportunity:update" /\ Seen(e.from, e.read) = crmTx[c].seen
         /\ e.quoted <= e.read => e.read + 1 = e.ver
         /\ opportunity.ver < e.ver /\ e.to = opportunity'.outcome /\ e.ver = opportunity'.ver
         /\ opportunity'.outcome # "ABSENT"
    ELSE UNCHANGED opportunity

\* One event more, which starts at what its mutation read and ends at what the rows then hold.
LEMMA TimelineGrows ==
  ASSUME CrmType, CrmRowsType, VersionsInv, TagsTold, LeadMoves, OpportunityTyped', tagged' \in BOOLEAN,
         NEW e \in TimelineRows, timeline' = Append(timeline, e),
         \A c \in CrmClients : crmTx'[c] = crmTx[c] \/ crmTx'[c].scope = "IDLE",
         StageEventTells(e), OpportunityEventTells(e),
         IF e.type \in TagEvents THEN /\ e.from = IF tagged THEN "TAG" ELSE "ABSENT"
                                      /\ e.to = IF tagged' THEN "TAG" ELSE "ABSENT"
                                 ELSE tagged' = tagged
  PROVE  VersionsInv' /\ TagsTold' /\ timeline' \in Seq(TimelineRows)
<1>1. timeline \in Seq(TimelineRows)
  BY DEF CrmRowsType
<1>2. timeline' \in Seq(TimelineRows)
  <2> HIDE DEF TimelineRows
  <2> QED BY <1>1
<1>3. PICK t, u : t = (IF tagged THEN "TAG" ELSE "ABSENT") /\ u = (IF tagged' THEN "TAG" ELSE "ABSENT")
  OBVIOUS
<1>4. PICK first \in FirstStages : SeenStood("stage", StageEvents, first, LeadSeen)
  BY DEF VersionsInv
<1>5. SeenStood("stage", StageEvents, first, LeadSeen)'
  <2>1. /\ LeadSeen.ver = lead.ver /\ LeadSeen.value = lead.stage
        /\ LeadSeen'.ver = lead'.ver /\ LeadSeen'.value = lead'.stage
        /\ lead.ver \in Nat /\ lead'.ver \in Nat /\ lead.ver <= lead'.ver
    BY DEF LeadSeen, Seen, LeadMoves
  <2>2. e.type \in StageEvents => LeadSeen' = Seen(e.to, e.ver)
    BY DEF StageEventTells, LeadSeen
  <2>3. PICK new : new = LeadSeen'
    OBVIOUS
  <2>4. VersionsTold(timeline', StageEvents, first, new)
        /\ \A c \in CrmClients : crmTx'[c].scope = "stage" =>
             crmTx'[c].seen.ver <= new.ver /\ StoodAt(timeline', StageEvents, first, crmTx'[c].seen)
    <3>1. IF e.type \in StageEvents
           THEN /\ \/ Seen(e.from, e.read) = LeadSeen
                   \/ \E c \in CrmClients : crmTx[c].scope = "stage" /\ Seen(e.from, e.read) = crmTx[c].seen
                /\ e.quoted <= e.read => e.read + 1 = e.ver
                /\ LeadSeen.ver < e.ver /\ new = Seen(e.to, e.ver)
           ELSE new.value = LeadSeen.value /\ LeadSeen.ver <= new.ver
      BY <2>1, <2>2, <2>3 DEF StageEventTells
    <3>2. LeadSeen.ver \in Nat /\ new.ver \in Nat /\ "stage" # "IDLE"
      BY <2>1, <2>3
    <3> QED BY <1>1, <1>4, <3>1, <3>2, SeenGrows
  <2> QED BY <2>3, <2>4 DEF SeenStood
<1>6. SeenStood("opportunity:update", OpportunityEvents, "ABSENT", OpportunitySeen)'
  <2>1. /\ OpportunitySeen.ver = opportunity.ver /\ OpportunitySeen.value = opportunity.outcome
        /\ OpportunitySeen'.ver = opportunity'.ver /\ OpportunitySeen'.value = opportunity'.outcome
        /\ opportunity.ver \in Nat /\ opportunity'.ver \in Nat
    BY DEF OpportunitySeen, Seen, OpportunityTyped, CrmRowsType, OpportunityRow
  <2>2. e.type \in OpportunityEvents => OpportunitySeen' = Seen(e.to, e.ver)
    BY DEF OpportunityEventTells, OpportunitySeen
  <2>3. PICK new : new = OpportunitySeen'
    OBVIOUS
  <2>4. SeenStood("opportunity:update", OpportunityEvents, "ABSENT", OpportunitySeen)
    BY DEF VersionsInv
  <2>5. VersionsTold(timeline', OpportunityEvents, "ABSENT", new)
        /\ \A c \in CrmClients : crmTx'[c].scope = "opportunity:update" =>
             crmTx'[c].seen.ver <= new.ver /\ StoodAt(timeline', OpportunityEvents, "ABSENT", crmTx'[c].seen)
    <3>1. opportunity.outcome = "ABSENT" => EventsOf(timeline, OpportunityEvents) = {}
      BY DEF TagsTold
    <3>2. IF e.type \in OpportunityEvents
           THEN /\ \/ Seen(e.from, e.read) = Seen("ABSENT", 0) /\ EventsOf(timeline, OpportunityEvents) = {}
                   \/ \E c \in CrmClients :
                        crmTx[c].scope = "opportunity:update" /\ Seen(e.from, e.read) = crmTx[c].seen
                /\ e.quoted <= e.read => e.read + 1 = e.ver
                /\ OpportunitySeen.ver < e.ver /\ new = Seen(e.to, e.ver)
           ELSE new.value = OpportunitySeen.value /\ OpportunitySeen.ver <= new.ver
      BY <2>1, <2>2, <2>3, <3>1 DEF OpportunityEventTells
    <3>3. OpportunitySeen.ver \in Nat /\ new.ver \in Nat /\ "opportunity:update" # "IDLE"
      BY <2>1, <2>3
    <3> QED BY <1>1, <2>4, <3>2, <3>3, SeenGrows
  <2> QED BY <2>3, <2>5 DEF SeenStood
<1>7. TellsHistory(timeline', TagEvents, u)
  <2>1. TellsHistory(timeline, TagEvents, t)
    BY <1>3 DEF TagsTold
  <2>2. IF e.type \in TagEvents THEN e.from = t /\ e.to = u ELSE u = t
    BY <1>3
  <2> QED BY <1>1, <2>1, <2>2, HistoryGrows
<1>8. tagged' => EventsOf(timeline', TagEvents) # {}
  <2>1. CASE e.type \in TagEvents
    BY <1>1, <2>1, EventsGrow
  <2>2. CASE e.type \notin TagEvents
    <3>1. EventsOf(timeline', TagEvents) = EventsOf(timeline, TagEvents) /\ tagged' = tagged
      BY <1>1, <2>2, EventsGrow
    <3>2. tagged => EventsOf(timeline, TagEvents) # {}
      BY DEF TagsTold
    <3> QED BY <3>1, <3>2
  <2> QED BY <2>1, <2>2
<1>9. opportunity'.outcome = "ABSENT" <=> EventsOf(timeline', OpportunityEvents) = {}
  <2>1. opportunity.outcome = "ABSENT" <=> EventsOf(timeline, OpportunityEvents) = {}
    BY DEF TagsTold
  <2> QED BY <1>1, <2>1, EventsGrow DEF OpportunityEventTells
<1> QED BY <1>2, <1>3, <1>4, <1>5, <1>6, <1>7, <1>8, <1>9 DEF VersionsInv, TagsTold

\* The versions and the rest are what the timeline tells.
LEMMA HistoryTold == VersionsInv /\ TagsTold => TimelineTellsTheState
BY DEF VersionsInv, SeenStood, TagsTold, TimelineTellsTheState, LeadSeen, OpportunitySeen

\* An event more of one scope and a key more of that scope, or neither.
LEMMA KeysCounted ==
  ASSUME CrmRowsType, CrmKeyAppliedOnce,
         \A scope \in CrmScopes \ {"tag:add"} :
           \/ /\ EventsOf(timeline', ScopeEvents(scope)) = EventsOf(timeline, ScopeEvents(scope))
              /\ \A p : p[1] = scope => (p \in crmRemembered' <=> p \in crmRemembered)
           \/ \E i, p :
              /\ EventsOf(timeline', ScopeEvents(scope)) = EventsOf(timeline, ScopeEvents(scope)) \cup {i}
              /\ i \notin EventsOf(timeline, ScopeEvents(scope))
              /\ crmRemembered' = crmRemembered \cup {p} /\ p[1] = scope /\ p \notin crmRemembered
  PROVE  CrmKeyAppliedOnce'
<1> SUFFICES ASSUME NEW scope \in CrmScopes \ {"tag:add"}
             PROVE  Cardinality(EventsOf(timeline', ScopeEvents(scope))) =
                      Cardinality({p \in crmRemembered' : p[1] = scope})
  BY DEF CrmKeyAppliedOnce, ScopeEvents
<1> DEFINE events == EventsOf(timeline, ScopeEvents(scope))
<1> DEFINE keys == {p \in crmRemembered : p[1] = scope}
<1>1. Cardinality(events) = Cardinality(keys)
  BY DEF CrmKeyAppliedOnce
<1>2. IsFiniteSet(events)
  <2>1. Len(timeline) \in Nat /\ events \subseteq 1 .. Len(timeline)
    <3>1. DOMAIN timeline = 1 .. Len(timeline) /\ Len(timeline) \in Nat
      BY DEF CrmRowsType
    <3> QED BY <3>1 DEF EventsOf
  <2> HIDE DEF events
  <2>2. IsFiniteSet(1 .. Len(timeline))
    BY <2>1, FS_Interval
  <2> QED BY <2>1, <2>2, FS_Subset
<1>3. IsFiniteSet(keys)
  <2>1. keys \subseteq crmRemembered /\ IsFiniteSet(crmRemembered)
    BY DEF CrmRowsType
  <2> HIDE DEF keys
  <2> QED BY <2>1, FS_Subset
<1>4. CASE /\ EventsOf(timeline', ScopeEvents(scope)) = events
           /\ \A p : p[1] = scope => (p \in crmRemembered' <=> p \in crmRemembered)
  <2>1. {p \in crmRemembered' : p[1] = scope} = keys
    BY <1>4
  <2> QED BY <1>1, <1>4, <2>1
<1>5. ASSUME NEW i, NEW p, EventsOf(timeline', ScopeEvents(scope)) = events \cup {i}, i \notin events,
             crmRemembered' = crmRemembered \cup {p}, p[1] = scope, p \notin crmRemembered
      PROVE  Cardinality(EventsOf(timeline', ScopeEvents(scope))) =
               Cardinality({q \in crmRemembered' : q[1] = scope})
  <2>1. {q \in crmRemembered' : q[1] = scope} = keys \cup {p} /\ p \notin keys
    BY <1>5
  <2> HIDE DEF events, keys
  <2>2. Cardinality(events \cup {i}) = Cardinality(events) + 1
    BY <1>2, <1>5, FS_AddElement
  <2>3. Cardinality(keys \cup {p}) = Cardinality(keys) + 1
    BY <1>3, <2>1, FS_AddElement
  <2> QED BY <1>1, <1>5, <2>1, <2>2, <2>3
<1> QED BY <1>4, <1>5

\* Every scope but that of adding a tag has an event of its own.
LEMMA ScopesApart ==
  ASSUME NEW s \in CrmScopes \ {"tag:add"}, NEW t \in CrmScopes \ {"tag:add"}, NEW type \in ScopeEvents(s)
  PROVE  type \notin {"TAG_ADDED", "DO_NOT_CONTACT"} /\ (type \in ScopeEvents(t) => s = t)
BY DEF CrmScopes, ScopeEvents

\* A mutation ends: the others stand, for none of them works under its key.
LEMMA OthersStand ==
  ASSUME CrmType, HistoryInv, NEW c \in CrmClients, crmTx[c].scope # "IDLE",
         crmTx' = [crmTx EXCEPT ![c] = IdleTx],
         crmRemembered' \subseteq crmRemembered \cup {<<crmTx[c].scope, crmTx[c].key>>}
  PROVE  KeysApart' /\ \A d \in CrmClients : MutationStands(d)'
<1>1. crmTx'[c].scope = "IDLE" /\ \A d \in CrmClients \ {c} : crmTx'[d] = crmTx[d] /\ crmTx[d].expected \in Nat
  BY DEF CrmType, CrmTransactions, IdleTx
<1>2. KeysApart'
  BY <1>1 DEF HistoryInv, KeysApart
<1>3. ASSUME NEW d \in CrmClients \ {c}, crmTx[d].scope # "IDLE"
      PROVE  <<crmTx[d].scope, crmTx[d].key>> \notin crmRemembered'
  BY <1>3 DEF HistoryInv, KeysApart, MutationStands
<1>4. ASSUME NEW d \in CrmClients \ {c} PROVE MutationStands(d)'
  BY <1>1, <1>3, <1>4 DEF HistoryInv, MutationStands
<1>5. MutationStands(c)'
  BY <1>1 DEF MutationStands
<1> QED BY <1>2, <1>4, <1>5

\* A mutation that records its event and its key keeps the invariant, if its event tells
\* what it changed.
LEMMA EventKeeps ==
  ASSUME CrmType, HistoryInv, NEW c \in CrmClients, crmTx[c].scope \in CrmScopes, Remember(c),
         NEW e \in TimelineRows, timeline' = Append(timeline, e),
         IF crmTx[c].scope = "tag:add" THEN e.type = "TAG_ADDED" ELSE e.type \in ScopeEvents(crmTx[c].scope),
         OpportunityTyped', tagged' \in BOOLEAN, VersionsInv', TagsTold', timeline' \in Seq(TimelineRows)
  PROVE  HistoryInv'
<1> DEFINE own == <<crmTx[c].scope, crmTx[c].key>>
<1>1. crmRemembered' = crmRemembered \cup {own} /\ crmTx' = [crmTx EXCEPT ![c] = IdleTx]
  BY DEF Remember
<1>2. crmTx[c].scope # "IDLE" /\ own \notin crmRemembered /\ own \in CrmScopes \X CrmKeys
  BY DEF HistoryInv, MutationStands, CrmScopes
<1>3. CrmRowsType'
  <2>1. IsFiniteSet(crmRemembered')
    BY <1>1, FS_AddElement DEF HistoryInv, CrmRowsType
  <2> QED BY <1>1, <1>2, <2>1 DEF HistoryInv, CrmRowsType
<1>4. KeysApart' /\ \A d \in CrmClients : MutationStands(d)'
  BY <1>1, <1>2, OthersStand
<1>5. CrmKeyAppliedOnce'
  <2>1. timeline \in Seq(TimelineRows)
    BY DEF HistoryInv, CrmRowsType
  <2>2. \A scope \in CrmScopes \ {"tag:add"} :
           \/ /\ EventsOf(timeline', ScopeEvents(scope)) = EventsOf(timeline, ScopeEvents(scope))
              /\ \A p : p[1] = scope => (p \in crmRemembered' <=> p \in crmRemembered)
           \/ \E i, p :
              /\ EventsOf(timeline', ScopeEvents(scope)) = EventsOf(timeline, ScopeEvents(scope)) \cup {i}
              /\ i \notin EventsOf(timeline, ScopeEvents(scope))
              /\ crmRemembered' = crmRemembered \cup {p} /\ p[1] = scope /\ p \notin crmRemembered
    <3> TAKE scope \in CrmScopes \ {"tag:add"}
    <3>1. CASE scope = crmTx[c].scope
      <4>1. EventsOf(timeline', ScopeEvents(scope)) = EventsOf(timeline, ScopeEvents(scope)) \cup {Len(timeline) + 1}
        BY <2>1, <3>1, EventsGrow
      <4>2. Len(timeline) + 1 \notin EventsOf(timeline, ScopeEvents(scope))
        BY <2>1, EventsGrow
      <4>3. own[1] = scope
        BY <3>1
      <4> HIDE DEF own
      <4> QED BY <1>1, <1>2, <4>1, <4>2, <4>3
    <3>2. CASE scope # crmTx[c].scope
      <4>1. e.type \notin ScopeEvents(scope)
        <5>1. CASE crmTx[c].scope = "tag:add"
          <6>1. "TAG_ADDED" \notin ScopeEvents(scope)
            BY ScopesApart
          <6> QED BY <5>1, <6>1
        <5>2. CASE crmTx[c].scope # "tag:add"
          BY <3>2, <5>2, ScopesApart
        <5> QED BY <5>1, <5>2
      <4>2. EventsOf(timeline', ScopeEvents(scope)) = EventsOf(timeline, ScopeEvents(scope))
        BY <2>1, <4>1, EventsGrow
      <4>3. own[1] # scope
        BY <3>2
      <4> HIDE DEF own
      <4> QED BY <1>1, <4>2, <4>3
    <3> QED BY <3>1, <3>2
  <2> QED BY <2>2, KeysCounted DEF HistoryInv
<1> QED BY <1>3, <1>4, <1>5 DEF HistoryInv

\* A tag that is there already is added again: the key is remembered, there is no event.
LEMMA AddedAgainKeeps ==
  ASSUME CrmType, HistoryInv, LeadMoves, NEW c \in CrmClients, crmTx[c].scope = "tag:add", Remember(c),
         UNCHANGED <<lead, timeline, opportunity, tagged>>
  PROVE  HistoryInv'
<1> DEFINE own == <<crmTx[c].scope, crmTx[c].key>>
<1>1. crmRemembered' = crmRemembered \cup {own} /\ crmTx' = [crmTx EXCEPT ![c] = IdleTx]
  BY DEF Remember
<1>2. own \in CrmScopes \X CrmKeys
  BY DEF HistoryInv, MutationStands
<1>3. CrmRowsType'
  <2>1. IsFiniteSet(crmRemembered')
    BY <1>1, FS_AddElement DEF HistoryInv, CrmRowsType
  <2> QED BY <1>1, <1>2, <2>1 DEF HistoryInv, CrmRowsType, OpportunityTyped
<1>4. KeysApart' /\ \A d \in CrmClients : MutationStands(d)'
  BY <1>1, OthersStand
<1>5. CrmKeyAppliedOnce'
  <2>1. ASSUME NEW scope \in CrmScopes \ {"tag:add"}, NEW p, p[1] = scope
        PROVE  p \in crmRemembered' <=> p \in crmRemembered
    <3>1. own[1] = "tag:add"
      OBVIOUS
    <3> HIDE DEF own
    <3> QED BY <1>1, <2>1, <3>1
  <2> QED BY <2>1, KeysCounted DEF HistoryInv
<1>6. VersionsInv' /\ TagsTold'
  <2>1. \A d \in CrmClients : crmTx'[d] = crmTx[d] \/ crmTx'[d].scope = "IDLE"
    BY <1>1 DEF CrmType, IdleTx
  <2> QED BY <2>1, VersionsKept DEF HistoryInv, TagsTold
<1> QED BY <1>3, <1>4, <1>5, <1>6 DEF HistoryInv

\* What leaves the rows of the CRM alone and records nothing keeps the invariant.
LEMMA NothingRecorded ==
  ASSUME CrmType, HistoryInv, LeadMoves, lead'.stage = lead.stage,
         UNCHANGED <<timeline, crmVars>>
  PROVE  HistoryInv'
<1>1. CrmRowsType' /\ KeysApart' /\ CrmKeyAppliedOnce' /\ TagsTold'
  BY DEF crmVars, HistoryInv, CrmRowsType, OpportunityTyped, KeysApart, CrmKeyAppliedOnce, TagsTold
<1>2. \A c \in CrmClients : MutationStands(c)'
  BY DEF crmVars, HistoryInv, MutationStands
<1>3. VersionsInv'
  BY VersionsKept DEF HistoryInv, crmVars
<1> QED BY <1>1, <1>2, <1>3 DEF HistoryInv

\* The pilot suppresses the lead: the stage event of the timeline belongs to no key.
LEMMA SuppressionRecorded ==
  ASSUME LeadType, CrmType, HistoryInv, MarkDoNotContact, UNCHANGED crmVars
  PROVE  HistoryInv'
<1>1. PICK e : /\ e = Change("DO_NOT_CONTACT", Seen(lead.stage, lead.ver), "NAO_CONTATAR", lead.ver, lead.ver + 1)
               /\ timeline' = Append(timeline, e)
  BY DEF MarkDoNotContact, Recorded
<1>2. /\ e.type = "DO_NOT_CONTACT" /\ e.from = lead.stage /\ e.to = "NAO_CONTATAR"
      /\ e.read = lead.ver /\ e.ver = lead.ver + 1
  BY <1>1 DEF Change, Seen
<1>3. lead.stage \in CrmStages /\ lead.ver \in Nat
  BY DEF LeadType, LeadRow
<1>4. e \in TimelineRows
  BY <1>1, <1>3 DEF Change, Seen, TimelineRows, StageEvents, CrmStages
<1>5. lead'.stage = "NAO_CONTATAR" /\ lead'.ver = lead.ver + 1
  BY DEF MarkDoNotContact, LeadType, LeadRow
<1>6. VersionsInv' /\ TagsTold' /\ timeline' \in Seq(TimelineRows)
  <2>1. e.type \in StageEvents /\ e.type \notin TagEvents /\ e.type \notin OpportunityEvents
    BY <1>2 DEF StageEvents, TagEvents, OpportunityEvents
  <2>2. tagged' \in BOOLEAN /\ UNCHANGED <<tagged, opportunity>>
    BY DEF HistoryInv, CrmRowsType, crmVars
  <2>3. LeadMoves
    BY <1>3, <1>5 DEF LeadMoves
  <2>4. StageEventTells(e)
    BY <1>2, <1>3, <1>5, <2>1 DEF StageEventTells, LeadSeen
  <2>5. OpportunityEventTells(e)
    BY <2>1, <2>2 DEF OpportunityEventTells
  <2>6. OpportunityTyped'
    BY <2>2 DEF HistoryInv, CrmRowsType, OpportunityTyped
  <2>7. timeline' = Append(timeline, e) /\ UNCHANGED crmTx
    BY <1>1 DEF crmVars
  <2> QED BY <1>4, <2>1, <2>2, <2>3, <2>4, <2>5, <2>6, <2>7, TimelineGrows DEF HistoryInv
<1>7. CrmRowsType' /\ KeysApart'
  BY <1>6 DEF HistoryInv, CrmRowsType, OpportunityTyped, KeysApart, crmVars
<1>8. \A c \in CrmClients : MutationStands(c)'
  BY DEF crmVars, HistoryInv, MutationStands
<1>9. CrmKeyAppliedOnce'
  <2>1. \A scope \in CrmScopes \ {"tag:add"} :
          EventsOf(timeline', ScopeEvents(scope)) = EventsOf(timeline, ScopeEvents(scope))
    <3> TAKE scope \in CrmScopes \ {"tag:add"}
    <3>1. e.type \notin ScopeEvents(scope) /\ timeline \in Seq(TimelineRows)
      BY <1>2, ScopesApart DEF HistoryInv, CrmRowsType
    <3> QED BY <1>1, <1>4, <3>1, EventsGrow
  <2> QED BY <2>1, KeysCounted DEF HistoryInv, crmVars
<1> QED BY <1>6, <1>7, <1>8, <1>9 DEF HistoryInv

\* A mutation begins under a key nobody works under or has used.
LEMMA BeginKeeps ==
  ASSUME LeadType, CrmType, HistoryInv, NEW c \in CrmClients, NEW scope \in CrmScopes, NEW key \in CrmKeys,
         NEW arg \in CrmArguments(scope),
         NEW expected \in (IF scope \in Versioned THEN 1 .. MaxQuoted ELSE {0}),
         BeginMutation(c, scope, key, arg, expected)
  PROVE  HistoryInv'
<1>1. PICK tx : tx = [scope |-> scope, key |-> key, arg |-> arg, expected |-> expected,
                      seen |-> PreviousValue(scope)]
  OBVIOUS
<1>2. /\ tx.scope = scope /\ tx.key = key /\ tx.arg = arg /\ tx.expected = expected
      /\ tx.seen = PreviousValue(scope)
      /\ crmTx' = [crmTx EXCEPT ![c] = tx]
      /\ UNCHANGED <<lead, timeline, crmRemembered, opportunity, tagged>>
  BY <1>1 DEF BeginMutation
<1>3. crmTx'[c] = tx /\ \A d \in CrmClients \ {c} : crmTx'[d] = crmTx[d]
  BY <1>2 DEF CrmType
<1>4. CrmRowsType' /\ TagsTold' /\ CrmKeyAppliedOnce'
  BY <1>2 DEF HistoryInv, CrmRowsType, OpportunityTyped, TagsTold, CrmKeyAppliedOnce
<1>5. KeysApart'
  <2>1. \A d \in CrmClients : ~(crmTx[d].scope = scope /\ crmTx[d].key = key)
    BY DEF BeginMutation, KeyLockHeld
  <2> QED BY <1>2, <1>3, <2>1 DEF HistoryInv, KeysApart
<1>6. \A d \in CrmClients \ {c} : MutationStands(d)'
  BY <1>2, <1>3 DEF HistoryInv, MutationStands
<1>7. MutationStands(c)'
  <2>1. <<scope, key>> \notin crmRemembered
    BY DEF BeginMutation
  <2>2. scope = "opportunity:update" => expected # 0
    BY DEF Versioned
  <2> QED BY <1>2, <1>3, <2>1, <2>2 DEF MutationStands
<1>8. VersionsInv'
  <2>1. LeadMoves
    BY <1>2 DEF LeadMoves, LeadType, LeadRow
  <2> QED BY <1>2, <1>3, <2>1, VersionsKept DEF HistoryInv
<1> QED BY <1>4, <1>5, <1>6, <1>7, <1>8 DEF HistoryInv

\* A mutation that is rolled back leaves the others as they were.
LEMMA RollBackKeeps ==
  ASSUME LeadType, CrmType, HistoryInv, NEW c \in CrmClients, RollBackMutation(c)
  PROVE  HistoryInv'
<1>1. /\ crmTx' = [crmTx EXCEPT ![c] = IdleTx] /\ UNCHANGED <<lead, timeline, crmRemembered, opportunity, tagged>>
  BY DEF RollBackMutation
<1>2. CrmRowsType' /\ TagsTold' /\ CrmKeyAppliedOnce'
  BY <1>1 DEF HistoryInv, CrmRowsType, OpportunityTyped, TagsTold, CrmKeyAppliedOnce
<1>3. crmTx'[c].scope = "IDLE" /\ \A d \in CrmClients \ {c} : crmTx'[d] = crmTx[d]
  BY <1>1 DEF CrmType, IdleTx
<1>4. KeysApart' /\ \A d \in CrmClients : MutationStands(d)'
  BY <1>1, <1>3 DEF HistoryInv, KeysApart, MutationStands
<1>5. VersionsInv'
  <2>1. LeadMoves
    BY <1>1 DEF LeadMoves, LeadType, LeadRow
  <2> QED BY <1>1, <1>3, <2>1, VersionsKept DEF HistoryInv
<1> QED BY <1>2, <1>4, <1>5 DEF HistoryInv

\* The write of a mutation records one event that tells what it changed.
LEMMA WriteKeeps ==
  ASSUME LeadType, CrmType, HistoryInv, NEW c \in CrmClients, WriteMutation(c)
  PROVE  HistoryInv'
<1> DEFINE tx == crmTx[c]
<1>1. /\ lead.ver \in Nat /\ lead.stage \in CrmStages /\ lead \in LeadRow
      /\ opportunity \in OpportunityRow /\ (opportunity.ver = 0 <=> opportunity.outcome = "ABSENT")
      /\ tagged \in BOOLEAN /\ CrmRowsType
      /\ tx.seen \in [value : CrmStages \cup {"LEAD", "ABSENT", "NONE"}, ver : Nat] /\ tx.expected \in Nat
  BY DEF LeadType, LeadRow, HistoryInv, CrmRowsType, OpportunityTyped, CrmType, CrmTransactions
<1>2. MutationStands(c)
  BY DEF HistoryInv
<1>3. UNCHANGED lead => LeadMoves
  BY <1>1 DEF LeadMoves
<1>4. ASSUME NEW e \in TimelineRows, timeline' = Append(timeline, e), tx.scope \in CrmScopes, Remember(c), LeadMoves,
             IF tx.scope = "tag:add" THEN e.type = "TAG_ADDED" ELSE e.type \in ScopeEvents(tx.scope),
             OpportunityTyped', tagged' \in BOOLEAN, StageEventTells(e), OpportunityEventTells(e),
             IF e.type \in TagEvents THEN /\ e.from = IF tagged THEN "TAG" ELSE "ABSENT"
                                          /\ e.to = IF tagged' THEN "TAG" ELSE "ABSENT"
                                     ELSE tagged' = tagged
      PROVE  HistoryInv'
  <2>1. \A d \in CrmClients : crmTx'[d] = crmTx[d] \/ crmTx'[d].scope = "IDLE"
    BY <1>4 DEF Remember, CrmType, IdleTx
  <2>2. VersionsInv' /\ TagsTold' /\ timeline' \in Seq(TimelineRows)
    BY <1>1, <1>4, <2>1, TimelineGrows DEF HistoryInv
  <2> QED BY <1>4, <2>2, EventKeeps
<1>5. /\ UNCHANGED opportunity => OpportunityTyped'
      /\ \A e : e.type \notin OpportunityEvents /\ UNCHANGED opportunity => OpportunityEventTells(e)
      /\ \A e : e.type \notin StageEvents /\ lead'.stage = lead.stage => StageEventTells(e)
  BY <1>1 DEF OpportunityTyped, OpportunityEventTells, StageEventTells
<1>6. CASE WriteStage(c)
  <2>1. /\ tx.scope = "stage" /\ lead.ver = tx.expected /\ Remember(c)
        /\ lead' = [lead EXCEPT !.stage = tx.arg.to, !.ver = @ + 1]
        /\ UNCHANGED <<opportunity, tagged>>
    BY <1>6 DEF WriteStage
  <2>2. PICK e : /\ e = Change("STAGE_CHANGED", tx.seen, tx.arg.to, tx.expected, lead.ver + 1)
                 /\ timeline' = Append(timeline, e)
    BY <1>6 DEF WriteStage, Recorded
  <2>3. tx.arg.to \in CrmStages /\ tx.seen.ver <= lead.ver
    <3>1. tx.arg.to \in CrmStages
      BY <1>2, <2>1 DEF MutationStands, CrmArguments
    <3>2. tx.seen.ver <= lead.ver
      BY <2>1 DEF HistoryInv, VersionsInv, SeenStood, LeadSeen, Seen
    <3> QED BY <3>1, <3>2
  <2>4. /\ e.type = "STAGE_CHANGED" /\ Seen(e.from, e.read) = tx.seen /\ e.to = tx.arg.to
        /\ e.read = tx.seen.ver /\ e.quoted = tx.expected /\ e.ver = lead.ver + 1
    BY <1>1, <2>2 DEF Change, Seen
  <2>5. e \in TimelineRows
    BY <1>1, <2>2, <2>3 DEF Change, TimelineRows, StageEvents
  <2>6. lead'.stage = tx.arg.to /\ lead'.ver = lead.ver + 1
    BY <1>1, <2>1 DEF LeadRow
  <2>7. LeadMoves
    BY <1>1, <2>6 DEF LeadMoves
  <2>8. e.type \in StageEvents /\ e.type \notin TagEvents \cup OpportunityEvents
    BY <2>4 DEF StageEvents, TagEvents, OpportunityEvents
  <2>9. tx.scope \in CrmScopes /\ tx.scope # "tag:add" /\ e.type \in ScopeEvents(tx.scope)
    BY <2>1, <2>4 DEF CrmScopes, ScopeEvents
  <2>10. StageEventTells(e)
    BY <1>1, <2>1, <2>3, <2>4, <2>6, <2>8 DEF StageEventTells
  <2>11. OpportunityEventTells(e) /\ OpportunityTyped'
    BY <1>5, <2>1, <2>8
  <2> QED BY <1>1, <1>4, <2>1, <2>2, <2>5, <2>7, <2>8, <2>9, <2>10, <2>11
<1>7. CASE WriteAssignment(c)
  <2>1. /\ tx.scope = "assignment" /\ Remember(c) /\ lead' = [lead EXCEPT !.ver = @ + 1]
        /\ UNCHANGED <<opportunity, tagged>>
    BY <1>7 DEF WriteAssignment
  <2>2. PICK e : e = Entry("ASSIGNMENT_UPDATED", "LEAD", "LEAD") /\ timeline' = Append(timeline, e)
    BY <1>7 DEF WriteAssignment, Recorded
  <2>3. e.type = "ASSIGNMENT_UPDATED" /\ e \in TimelineRows
    BY <2>2 DEF Entry, Change, Seen, TimelineRows
  <2>4. lead'.stage = lead.stage /\ LeadMoves
    BY <1>1, <2>1 DEF LeadRow, LeadMoves
  <2>5. e.type \notin StageEvents \cup TagEvents \cup OpportunityEvents
    BY <2>3 DEF StageEvents, TagEvents, OpportunityEvents
  <2>6. tx.scope \in CrmScopes /\ tx.scope # "tag:add" /\ e.type \in ScopeEvents(tx.scope)
    BY <2>1, <2>3 DEF CrmScopes, ScopeEvents
  <2> QED BY <1>1, <1>4, <1>5, <2>1, <2>2, <2>3, <2>4, <2>5, <2>6
<1>8. CASE WriteNote(c)
  <2>1. tx.scope = "note" /\ Remember(c) /\ UNCHANGED <<lead, opportunity, tagged>>
    BY <1>8 DEF WriteNote
  <2>2. PICK e : e = Entry("NOTE_ADDED", "LEAD", tx.arg.how) /\ timeline' = Append(timeline, e)
    BY <1>8 DEF WriteNote, Recorded
  <2>3. tx.scope \in CrmScopes /\ tx.arg.how \in {"LEAD", "OPPORTUNITY"}
    BY <1>2, <2>1 DEF MutationStands, CrmArguments, CrmScopes
  <2>4. e.type = "NOTE_ADDED" /\ e \in TimelineRows
    BY <2>2, <2>3 DEF Entry, Change, Seen, TimelineRows
  <2>5. e.type \notin StageEvents \cup TagEvents \cup OpportunityEvents
    BY <2>4 DEF StageEvents, TagEvents, OpportunityEvents
  <2>6. tx.scope # "tag:add" /\ e.type \in ScopeEvents(tx.scope)
    BY <2>1, <2>4 DEF ScopeEvents
  <2> QED BY <1>1, <1>3, <1>4, <1>5, <2>1, <2>2, <2>3, <2>4, <2>5, <2>6
<1>9. CASE WriteTagAdded(c)
  <2>1. tx.scope = "tag:add" /\ Remember(c) /\ tagged' = TRUE /\ UNCHANGED <<lead, opportunity>>
    BY <1>9 DEF WriteTagAdded
  <2>2. CASE tagged
    <3>1. UNCHANGED <<timeline, tagged>>
      BY <1>1, <1>9, <2>1, <2>2 DEF WriteTagAdded
    <3> QED BY <1>3, <2>1, <3>1, AddedAgainKeeps
  <2>3. CASE ~tagged
    <3>1. PICK e : e = Entry("TAG_ADDED", "ABSENT", "TAG") /\ timeline' = Append(timeline, e)
      BY <1>9, <2>3 DEF WriteTagAdded, Recorded
    <3>2. e.type = "TAG_ADDED" /\ e.from = "ABSENT" /\ e.to = "TAG" /\ e \in TimelineRows
      BY <3>1 DEF Entry, Change, Seen, TimelineRows, TagEvents
    <3>3. e.type \in TagEvents /\ e.type \notin StageEvents \cup OpportunityEvents
      BY <3>2 DEF StageEvents, TagEvents, OpportunityEvents
    <3>4. tx.scope \in CrmScopes
      BY <2>1 DEF CrmScopes
    <3> QED BY <1>1, <1>3, <1>4, <1>5, <2>1, <2>3, <3>1, <3>2, <3>3, <3>4
  <2> QED BY <2>2, <2>3
<1>10. CASE WriteTagRemoved(c)
  <2>1. tx.scope = "tag:remove" /\ tagged /\ tagged' = FALSE /\ Remember(c) /\ UNCHANGED <<lead, opportunity>>
    BY <1>10 DEF WriteTagRemoved
  <2>2. PICK e : e = Entry("TAG_REMOVED", "TAG", "ABSENT") /\ timeline' = Append(timeline, e)
    BY <1>10 DEF WriteTagRemoved, Recorded
  <2>3. e.type = "TAG_REMOVED" /\ e.from = "TAG" /\ e.to = "ABSENT" /\ e \in TimelineRows
    BY <2>2 DEF Entry, Change, Seen, TimelineRows, TagEvents
  <2>4. e.type \in TagEvents /\ e.type \notin StageEvents \cup OpportunityEvents
    BY <2>3 DEF StageEvents, TagEvents, OpportunityEvents
  <2>5. tx.scope \in CrmScopes /\ tx.scope # "tag:add" /\ e.type \in ScopeEvents(tx.scope)
    BY <2>1, <2>3 DEF CrmScopes, ScopeEvents
  <2> QED BY <1>1, <1>3, <1>4, <1>5, <2>1, <2>2, <2>3, <2>4, <2>5
<1>11. CASE WriteTaskCreated(c)
  <2>1. tx.scope = "task:create" /\ Remember(c) /\ UNCHANGED <<lead, opportunity, tagged>>
    BY <1>11 DEF WriteTaskCreated
  <2>2. PICK e : e = Entry("TASK_CREATED", "LEAD", tx.arg.how) /\ timeline' = Append(timeline, e)
    BY <1>11 DEF WriteTaskCreated, Recorded
  <2>3. tx.scope \in CrmScopes /\ tx.arg.how \in {"LEAD", "OPPORTUNITY"}
    BY <1>2, <2>1 DEF MutationStands, CrmArguments, CrmScopes
  <2>4. e.type = "TASK_CREATED" /\ e \in TimelineRows
    BY <2>2, <2>3 DEF Entry, Change, Seen, TimelineRows
  <2>5. e.type \notin StageEvents \cup TagEvents \cup OpportunityEvents
    BY <2>4 DEF StageEvents, TagEvents, OpportunityEvents
  <2>6. tx.scope # "tag:add" /\ e.type \in ScopeEvents(tx.scope)
    BY <2>1, <2>4 DEF ScopeEvents
  <2> QED BY <1>1, <1>3, <1>4, <1>5, <2>1, <2>2, <2>3, <2>4, <2>5, <2>6
<1>12. CASE WriteTaskMutated(c)
  <2>1. /\ tx.scope \in {"task:complete", "task:reschedule"} /\ Remember(c)
        /\ UNCHANGED <<lead, opportunity, tagged>>
    BY <1>12 DEF WriteTaskMutated
  <2>2. task'.status = IF tx.scope = "task:complete" THEN "CONCLUIDA" ELSE "PENDENTE"
    BY <1>12 DEF WriteTaskMutated
  <2>3. PICK e : /\ timeline' = Append(timeline, e)
                 /\ e = Entry(IF tx.scope = "task:complete" THEN "TASK_COMPLETED" ELSE "TASK_RESCHEDULED",
                              "PENDENTE", task'.status)
    BY <1>12 DEF WriteTaskMutated, Recorded
  <2>4. e.type = (IF tx.scope = "task:complete" THEN "TASK_COMPLETED" ELSE "TASK_RESCHEDULED") /\ e \in TimelineRows
    BY <2>2, <2>3 DEF Entry, Change, Seen, TimelineRows
  <2>5. e.type \notin StageEvents \cup TagEvents \cup OpportunityEvents
    BY <2>4 DEF StageEvents, TagEvents, OpportunityEvents
  <2>6. tx.scope \in CrmScopes /\ tx.scope # "tag:add" /\ e.type \in ScopeEvents(tx.scope)
    BY <2>1, <2>4 DEF ScopeEvents, CrmScopes
  <2> QED BY <1>1, <1>3, <1>4, <1>5, <2>1, <2>3, <2>4, <2>5, <2>6
<1>13. CASE WriteOpportunityCreated(c)
  <2>1. /\ tx.scope = "opportunity:create" /\ opportunity = NoOpportunity /\ Remember(c)
        /\ opportunity' = [outcome |-> "NONE", reason |-> FALSE, ver |-> 1] /\ UNCHANGED <<lead, tagged>>
    BY <1>13 DEF WriteOpportunityCreated
  <2>2. PICK e : /\ e = Change("OPPORTUNITY_CREATED", Seen("ABSENT", 0), "NONE", 0, 1)
                 /\ timeline' = Append(timeline, e)
    BY <1>13 DEF WriteOpportunityCreated, Recorded
  <2>3. /\ e.type = "OPPORTUNITY_CREATED" /\ e.from = "ABSENT" /\ e.to = "NONE"
        /\ e.read = 0 /\ e.ver = 1 /\ e \in TimelineRows
    BY <2>2 DEF Change, Seen, TimelineRows, OpportunityEvents
  <2>4. /\ opportunity.outcome = "ABSENT" /\ opportunity.ver = 0
        /\ opportunity'.outcome = "NONE" /\ opportunity'.ver = 1 /\ OpportunityTyped'
    BY <2>1 DEF NoOpportunity, OpportunityTyped, OpportunityRow
  <2>5. e.type \in OpportunityEvents /\ e.type \notin StageEvents \cup TagEvents
    BY <2>3 DEF StageEvents, TagEvents, OpportunityEvents
  <2>6. tx.scope \in CrmScopes /\ tx.scope # "tag:add" /\ e.type \in ScopeEvents(tx.scope)
    BY <2>1, <2>3 DEF ScopeEvents, CrmScopes
  <2>7. OpportunityEventTells(e)
    BY <2>3, <2>4, <2>5 DEF OpportunityEventTells
  <2>8. StageEventTells(e)
    BY <1>5, <2>1, <2>5
  <2> QED BY <1>1, <1>3, <1>4, <2>1, <2>2, <2>3, <2>4, <2>5, <2>6, <2>7, <2>8
<1>14. CASE WriteOpportunityUpdated(c)
  <2>1. PICK outcome, reason : outcome = Outcome(tx.arg.to) /\ reason = LossReason(tx.arg)
    OBVIOUS
  <2>2. /\ tx.scope = "opportunity:update" /\ opportunity.ver = tx.expected /\ Remember(c)
        /\ opportunity' = [outcome |-> outcome, reason |-> reason, ver |-> opportunity.ver + 1]
        /\ UNCHANGED <<lead, tagged>>
    BY <1>14, <2>1 DEF WriteOpportunityUpdated
  <2>3. opportunity.outcome \in {"NONE", "GANHO", "PERDIDO"}
    BY <1>1, <1>2, <2>2 DEF MutationStands, CrmScopes, OpportunityRow
  <2>4. outcome \in {"NONE", "GANHO", "PERDIDO"} /\ reason \in BOOLEAN
    BY <1>1, <2>1, <2>3 DEF Outcome, LossReason, OpportunityRow
  <2>5. opportunity'.outcome = outcome /\ OpportunityTyped'
    BY <1>1, <2>2, <2>4 DEF OpportunityTyped, OpportunityRow
  <2>6. PICK e : /\ e = Change("OPPORTUNITY_UPDATED", tx.seen, outcome, tx.expected, opportunity.ver + 1)
                 /\ timeline' = Append(timeline, e)
    BY <1>14, <2>1 DEF WriteOpportunityUpdated, Recorded
  <2>7. /\ e.type = "OPPORTUNITY_UPDATED" /\ Seen(e.from, e.read) = tx.seen /\ e.to = outcome
        /\ e.read = tx.seen.ver /\ e.quoted = tx.expected /\ e.ver = opportunity.ver + 1
    BY <1>1, <2>6 DEF Change, Seen
  <2>8. e \in TimelineRows /\ opportunity.ver \in Nat /\ opportunity'.ver = opportunity.ver + 1
    BY <1>1, <2>2, <2>4, <2>6 DEF Change, TimelineRows, OpportunityEvents, OpportunityRow, CrmStages
  <2>9. e.type \in OpportunityEvents /\ e.type \notin StageEvents \cup TagEvents
    BY <2>7 DEF StageEvents, TagEvents, OpportunityEvents
  <2>10. tx.scope \in CrmScopes /\ tx.scope # "tag:add" /\ e.type \in ScopeEvents(tx.scope)
    BY <2>2, <2>7 DEF ScopeEvents, CrmScopes
  <2>11. outcome # "ABSENT"
    BY <2>4
  <2>12. tx.seen.ver <= opportunity.ver
    BY <2>2 DEF HistoryInv, VersionsInv, SeenStood, OpportunitySeen, Seen
  <2>13. OpportunityEventTells(e)
    BY <1>1, <2>2, <2>5, <2>7, <2>8, <2>9, <2>11, <2>12 DEF OpportunityEventTells
  <2>14. StageEventTells(e)
    BY <1>5, <2>2, <2>9
  <2> QED BY <1>1, <1>3, <1>4, <2>2, <2>5, <2>6, <2>8, <2>9, <2>10, <2>13, <2>14
<1> QED BY <1>6, <1>7, <1>8, <1>9, <1>10, <1>11, <1>12, <1>13, <1>14 DEF WriteMutation

\* Neither the screens nor the messaging change the stage or the timeline, and the pilot
\* does only where it suppresses the lead.
LEMMA OthersRecordNothing ==
  ASSUME LeadType, UNCHANGED crmVars,
         LeadNext \/ PilotNext \/ MessageNext
  PROVE  MarkDoNotContact \/ (UNCHANGED timeline /\ lead'.stage = lead.stage /\ LeadMoves)
<1>1. lead.ver \in Nat
  BY DEF LeadType, LeadRow
<1>2. UNCHANGED <<lead, timeline>> => UNCHANGED timeline /\ lead'.stage = lead.stage /\ LeadMoves
  BY <1>1 DEF LeadMoves
<1>3. CASE LeadNext
  <2>1. ASSUME NEW status \in LeadStatuses, NEW flags \in LeadFlags, UpdateQualification(status, flags)
        PROVE  UNCHANGED timeline /\ lead'.stage = lead.stage /\ lead'.ver = lead.ver
    BY <2>1 DEF UpdateQualification, LeadType, LeadRow
  <2>2. LeadNext => \/ \E status \in LeadStatuses, flags \in LeadFlags : UpdateQualification(status, flags)
                    \/ UNCHANGED <<lead, timeline>>
    BY DEF LeadNext, QualificationNext, ContactNext, UpsertContact, RecordOptOut, Authorize
  <2> QED BY <1>1, <1>2, <1>3, <2>1, <2>2 DEF LeadMoves
<1>4. CASE PilotNext
  <2>1. ASSUME NEW r \in PilotRuns, NEW result \in PilotResults, NEW at \in Instants,
               RecordPilotResult(r, result, at)
        PROVE  MarkDoNotContact \/ UNCHANGED <<lead, timeline>>
    BY <2>1 DEF RecordPilotResult, leadVars
  <2>2. \/ \E r \in PilotRuns, result \in PilotResults, at \in Instants : RecordPilotResult(r, result, at)
        \/ UNCHANGED <<lead, timeline>>
    BY <1>4 DEF PilotNext, RunNext, CreatePilotRun, RecordPilotLead, RecordManualContact, UpdateRunStatus,
                ReconfigurePilot, ReviewPilotLead, ReadEligibility, RollBackPilot, leadVars
  <2> QED BY <1>2, <2>1, <2>2
<1>5. CASE MessageNext
  <2>1. UNCHANGED <<lead, timeline>>
    BY <1>5 DEF MessageNext, PrepareMessage, LockMessage, RecordMessage, AnswerMessage, EndMessageTx,
                ConsolePrepare, ConsoleResolve, ConsoleConfirm, ConsoleSends, ConsoleTimesOut,
                ConsoleRestarts, leadVars
  <2> QED BY <1>2, <2>1
<1> QED BY <1>3, <1>4, <1>5

\* Nothing has happened yet.
LEMMA HistoryInitial == CrmInit => HistoryInv
<1> SUFFICES ASSUME CrmInit PROVE HistoryInv
  OBVIOUS
<1> USE DEF CrmInit, LeadInit
<1>1. timeline = <<>> /\ \A types : EventsOf(timeline, types) = {}
  BY DEF EventsOf
<1>2. CrmRowsType
  <2>1. timeline \in Seq(TimelineRows)
    <3> HIDE DEF TimelineRows
    <3> QED BY <1>1
  <2>2. IsFiniteSet(crmRemembered)
    BY FS_EmptySet
  <2> QED BY <2>1, <2>2 DEF CrmRowsType, NoOpportunity, OpportunityTyped, OpportunityRow
<1>3. KeysApart /\ \A c \in CrmClients : MutationStands(c)
  BY DEF KeysApart, MutationStands, IdleTx
<1>4. VersionsInv /\ TagsTold
  <2>1. \A types, row : VersionsTold(timeline, types, row.value, row)
    BY <1>1 DEF VersionsTold, StoodAt
  <2>2. \A c \in CrmClients : crmTx[c].scope = "IDLE"
    BY DEF IdleTx
  <2>3. lead.stage \in FirstStages /\ LeadSeen.value = lead.stage /\ OpportunitySeen.value = "ABSENT"
    BY DEF LeadSeen, OpportunitySeen, Seen, NoOpportunity
  <2>4. \A scope, types, first, row :
          scope # "IDLE" /\ row.value = first => SeenStood(scope, types, first, row)
    <3> TAKE scope, types, first, row
    <3> HAVE scope # "IDLE" /\ row.value = first
    <3>1. VersionsTold(timeline, types, first, row)
      BY <2>1
    <3> QED BY <2>2, <3>1 DEF SeenStood
  <2>5. VersionsInv
    <3>1. SeenStood("stage", StageEvents, lead.stage, LeadSeen)
          /\ SeenStood("opportunity:update", OpportunityEvents, "ABSENT", OpportunitySeen)
      BY <2>3, <2>4
    <3> QED BY <2>3, <3>1 DEF VersionsInv
  <2> QED BY <1>1, <2>5 DEF TagsTold, TellsHistory, NoOpportunity
<1>5. CrmKeyAppliedOnce
  BY <1>1 DEF CrmKeyAppliedOnce
<1> QED BY <1>2, <1>3, <1>4, <1>5 DEF HistoryInv

\* HistoryInv is inductive, given the types of the lead and of the open mutations.
LEMMA HistoryStep ==
  ASSUME DeskInv, HistoryInv, [DeskNext]_deskVars
  PROVE  HistoryInv'
<1>1. LeadType /\ CrmType
  BY DEF DeskInv, DeskTypeOK
<1>2. CASE CrmNext
  BY <1>1, <1>2, BeginKeeps, WriteKeeps, RollBackKeeps DEF CrmNext, CrmClientNext
<1>3. CASE UNCHANGED crmVars /\ (LeadNext \/ PilotNext \/ MessageNext)
  BY <1>1, <1>3, OthersRecordNothing, SuppressionRecorded, NothingRecorded
<1>4. CASE UNCHANGED deskVars
  <2>1. UNCHANGED crmVars /\ UNCHANGED timeline /\ lead'.stage = lead.stage /\ LeadMoves
    BY <1>1, <1>4 DEF deskVars, leadVars, LeadMoves, LeadType, LeadRow
  <2> QED BY <1>1, <2>1, NothingRecorded
<1> QED BY <1>2, <1>3, <1>4 DEF DeskNext

LEMMA HistoryInvariant == DeskSpec => []HistoryInv
<1>1. DeskInv /\ HistoryInv /\ [DeskNext]_deskVars => HistoryInv'
  BY HistoryStep
<1>2. DeskInit => HistoryInv
  BY HistoryInitial DEF DeskInit
<1> QED BY <1>1, <1>2, DeskInvariant, PTL DEF DeskSpec

\* The timeline is the history of the lead's stage, of its tag and of its opportunity,
\* whichever of the CRM and the pilot wrote it and however stale their reads were.
THEOREM TimelineIsHistory == DeskSpec => []TimelineTellsTheState
<1>1. HistoryInv => TimelineTellsTheState
  BY HistoryTold DEF HistoryInv
<1> QED BY <1>1, HistoryInvariant, PTL

\* An idempotency key of the CRM is worth one effect, whatever is retried, rolled back or
\* done at once.
THEOREM CrmKeysTakeEffectOnce == DeskSpec => []CrmKeyAppliedOnce
<1>1. HistoryInv => CrmKeyAppliedOnce
  BY DEF HistoryInv
<1> QED BY <1>1, HistoryInvariant, PTL

------------------------------------------------------------------------------
(* The scenes: the specification the platform's run of the lead checks. It *)
(* begins, beside the three parts with nothing done, in a running run with *)
(* its lead approved, and it lets a suppression come from anywhere.        *)

LEMMA SceneInitial == Init => DeskInv /\ HistoryInv
<1> SUFFICES ASSUME Init PROVE DeskInv /\ HistoryInv
  OBVIOUS
<1>1. CrmInit /\ MessageInit /\ (PilotInit \/ RunningPilot)
  BY DEF Init
<1>2. CASE PilotInit
  BY <1>1, <1>2, DeskInitial, HistoryInitial DEF DeskInit
<1>3. CASE RunningPilot
  <2> USE <1>3 DEF RunningPilot
  <2>1. PilotType
    BY DEF PilotType, NoResults, NoPilotTx, PilotResults, RunStatuses
  <2>2. \A r \in PilotRuns : seat[r] > 0 => r = MessageRun
    OBVIOUS
  <2>3. PilotInv
    BY <2>2 DEF PilotInv, RunHolds, TransactionFindsItsRun, PilotClaimsAreExclusive, HasManualContact,
                Reached, NoResults, NoPilotTx
  <2> QED BY <1>1, <2>1, <2>3, LeadInitial, HistoryInitial DEF DeskInv, DeskTypeOK
<1> QED BY <1>1, <1>2, <1>3

\* A scene takes steps of the composition; the one it adds is a suppression.
LEMMA SceneIsDesk ==
  [Next]_mcVars => \/ [DeskNext]_deskVars
                   \/ MarkDoNotContact /\ UNCHANGED <<crmVars, pilotVars, messageVars>>
<1> SUFFICES ASSUME [Next]_mcVars PROVE \/ [DeskNext]_deskVars
                                        \/ MarkDoNotContact /\ UNCHANGED <<crmVars, pilotVars, messageVars>>
  OBVIOUS
<1>1. UNCHANGED mcVars => UNCHANGED deskVars
  BY DEF mcVars, deskVars
<1>2. ASSUME NEW b \in {"ABSENT", "TRUE", "FALSE"}, NEW d \in {"ABSENT", "TRUE", "FALSE"}
      PROVE  Flags(b, d) \in LeadFlags
  BY DEF Flags, LeadFlags
<1>3. ASSUME NEW statuses \in SUBSET LeadStatuses, NEW flagSets \in SUBSET LeadFlags,
             QualificationNext(statuses, flagSets)
      PROVE  LeadNext
  BY <1>3 DEF LeadNext, QualificationNext
<1>4. ASSUME NEW verifications \in SUBSET BOOLEAN, NEW respellings \in SUBSET BOOLEAN,
             ContactNext(verifications, respellings, {"WHATSAPP"})
      PROVE  LeadNext
  BY <1>4 DEF LeadNext, ContactNext, OptOutChannels
<1>5. CASE CrmScene /\ UNCHANGED <<pilotVars, messageVars>>
  <2>1. QualificationNext({"SEM_SITE_CONFIRMADO"}, {Flags("TRUE", "ABSENT")}) => LeadNext
    BY <1>2, <1>3 DEF LeadStatuses
  <2> QED BY <1>5, <2>1 DEF CrmScene, DeskNext
<1>6. CASE PilotScene /\ UNCHANGED <<crmVars, messageVars>>
  <2>1. QualificationNext({"SEM_SITE_CONFIRMADO", "VALIDANDO"},
                          {Flags("ABSENT", "ABSENT"), Flags("ABSENT", "FALSE")}) => LeadNext
    BY <1>2, <1>3 DEF LeadStatuses
  <2>2. ContactNext({TRUE}, {FALSE}, {"WHATSAPP"}) => LeadNext
    BY <1>4
  <2> QED BY <1>6, <2>1, <2>2 DEF PilotScene, DeskNext
<1>7. CASE MessagingScene /\ UNCHANGED crmVars
  <2>1. (\E status \in {"PAUSED", "RUNNING", "COMPLETED"} : UpdateRunStatus(MessageRun, status)) => PilotNext
    BY ManualMessagingAssumption DEF PilotNext, RunNext, RunStatuses
  <2>2. ContactNext({TRUE}, BOOLEAN, {"WHATSAPP"}) => LeadNext
    BY <1>4
  <2>3. (\E state \in {"GRANTED", "REVOKED"} : Authorize(state)) => LeadNext
    BY DEF LeadNext
  <2> QED BY <1>7, <2>1, <2>2, <2>3 DEF MessagingScene, DeskNext
<1> QED BY <1>1, <1>5, <1>6, <1>7 DEF Next

\* A suppression that comes from elsewhere keeps every part's invariant.
LEMMA SuppressionKeeps ==
  ASSUME DeskInv, HistoryInv, MarkDoNotContact, UNCHANGED <<crmVars, pilotVars, messageVars>>
  PROVE  DeskInv' /\ HistoryInv'
<1> USE DEF DeskInv, DeskTypeOK
<1>1. Respects /\ LeadType'
  BY MarkRespects DEF Respects
<1>2. CrmType'
  BY DEF crmVars, CrmType
<1>3. RunsKept
  BY DEF RunsKept, pilotVars
<1>4. PilotType' /\ PilotInv'
  BY <1>1, PilotUndisturbed DEF Respects
<1>5. MessageType' /\ MessageInv'
  BY <1>1, <1>3, MessageUndisturbed
<1>6. HistoryInv'
  BY SuppressionRecorded
<1> QED BY <1>1, <1>2, <1>4, <1>5, <1>6

\* All that the run of the lead checks, for any number of clients, runs, preparations and
\* operators: the timeline and the keys of the CRM, the claims and the metrics of the pilot,
\* the link of the console, and that no message reaches a lead that is not eligible.
THEOREM CommercialLeadCorrect ==
  Spec => /\ [](/\ TimelineTellsTheState /\ CrmKeyAppliedOnce
                /\ FunnelNarrows /\ PilotClaimsAreExclusive /\ LinkRestsOnTheRecord)
          /\ MessageRecordedWhileEligible
<1>1. DeskInv /\ HistoryInv /\ [Next]_mcVars => (DeskInv /\ HistoryInv)'
  BY SceneIsDesk, SuppressionKeeps, DeskStep, HistoryStep
<1>2. Spec => [](DeskInv /\ HistoryInv)
  BY <1>1, SceneInitial, PTL DEF Spec
<1>3. DeskInv /\ HistoryInv =>
        /\ TimelineTellsTheState /\ CrmKeyAppliedOnce
        /\ FunnelNarrows /\ PilotClaimsAreExclusive /\ LinkRestsOnTheRecord
  BY FunnelHolds, HistoryTold DEF DeskInv, PilotInv, MessageInv, HistoryInv
<1>4. DeskInv /\ [Next]_mcVars => [\A k \in MessageKeys : EligibleAt(k)]_<<messages, prepared>>
  <2>1. UNCHANGED messageVars => UNCHANGED <<messages, prepared>>
    BY DEF messageVars
  <2> QED BY <2>1, SceneIsDesk, MessagesFindEligible
<1>5. Spec => [][\A k \in MessageKeys : EligibleAt(k)]_<<messages, prepared>>
  BY <1>2, <1>4, PTL DEF Spec
<1>6. Spec => MessageRecordedWhileEligible
  BY <1>5 DEF MessageRecordedWhileEligible, EligibleAt
<1> QED BY <1>2, <1>3, <1>6, PTL
=============================================================================
