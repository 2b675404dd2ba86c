----------------------------- MODULE CrmPipeline -----------------------------
(***************************************************************************)
(* The CRM of packages/database/src/crm.ts over one lead: its stage, its   *)
(* assignment, one opportunity, one tag, one task and its notes. Every     *)
(* mutation is a transaction of two steps: it takes the advisory lock of   *)
(* its idempotency key, looks the key up and reads the lead without a lock *)
(* (BeginMutation); it then writes, guarded by a version, and remembers    *)
(* the key (one Write action per command). Between the two the other       *)
(* client, the qualification and the pilot may commit. A request quotes    *)
(* any positive version: one the row has had, has, or does not have yet.   *)
(***************************************************************************)
EXTENDS CommercialLead

CONSTANTS
  CrmClients,       \* concurrent requests of the CRM
  CrmKeys,          \* idempotency keys the clients draw from
  MaxQuoted         \* bound on the versions the requests quote

ASSUME CrmPipelineAssumption == MaxQuoted \in Nat \ {0}

VARIABLES
  crmTx,            \* the open transaction of a client
  crmRemembered,    \* crm_idempotency_keys: pairs of scope and key
  opportunity,      \* outcome, reason (loss_reason) and ver; "ABSENT" before it is created
  task,             \* status and ver
  tagged            \* crm_lead_tags holds the tag

crmVars == <<crmTx, crmRemembered, opportunity, task, tagged>>

CrmScopes ==
  {"stage", "assignment", "note", "tag:add", "tag:remove", "task:create", "task:complete",
   "task:reschedule", "opportunity:create", "opportunity:update"}

Versioned == {"stage", "assignment", "task:complete", "task:reschedule", "opportunity:update"}

CrmTransition(from) ==
  CASE from = "NOVO"             -> {"EM_VALIDACAO", "NAO_CONTATAR"}
    [] from = "EM_VALIDACAO"     -> {"NOVO", "QUALIFICADO", "PERDIDO", "NAO_CONTATAR"}
    [] from = "QUALIFICADO"      -> {"EM_VALIDACAO", "CONTATO_PENDENTE", "PERDIDO", "NAO_CONTATAR"}
    [] from = "CONTATO_PENDENTE" -> {"QUALIFICADO", "CONTATADO", "PERDIDO", "NAO_CONTATAR"}
    [] from = "CONTATADO"        -> {"CONTATO_PENDENTE", "RESPONDEU", "PERDIDO", "NAO_CONTATAR"}
    [] from = "RESPONDEU"        -> {"CONTATADO", "REUNIAO", "PERDIDO", "NAO_CONTATAR"}
    [] from = "REUNIAO"          -> {"RESPONDEU", "PROPOSTA", "PERDIDO", "NAO_CONTATAR"}
    [] from = "PROPOSTA"         -> {"REUNIAO", "GANHO", "PERDIDO", "NAO_CONTATAR"}
    [] OTHER                     -> {}

\* assertCrmTransition: the controlled exits of the terminal stages, else the graph.
\* action "REACTIVATE" stands for one whose principal holds the permission.
CrmMoveAllowed(from, to, action) ==
  CASE from = "NAO_CONTATAR" /\ action = "REACTIVATE"     -> to = "NOVO"
    [] from \in {"GANHO", "PERDIDO"} /\ action = "REOPEN" -> to = "QUALIFICADO"
    [] OTHER                                              -> to \in CrmTransition(from)

\* What a command asks for: "to" is the new stage or status, "how" the action,
\* or whether a reason or an opportunity is named.
CrmArguments(scope) ==
  CASE scope = "stage" -> [to : CrmStages, how : {"TRANSITION", "REACTIVATE", "REOPEN"}]
    [] scope = "opportunity:update" ->
         [to : {"UNDEFINED", "ABERTA", "GANHA", "PERDIDA"}, how : {"REASON", "UNDEFINED"}]
    [] scope \in {"note", "task:create"} -> [to : {"LEAD"}, how : {"LEAD", "OPPORTUNITY"}]
    [] OTHER -> [to : {"LEAD"}, how : {"LEAD"}]

NoOpportunity == [outcome |-> "ABSENT", reason |-> FALSE, ver |-> 0]
NoTask == [status |-> "ABSENT", ver |-> 0]
IdleTx == [scope |-> "IDLE", key |-> "NONE", arg |-> [to |-> "LEAD", how |-> "LEAD"],
           expected |-> 0, seen |-> Seen("LEAD", 0)]

CrmInit ==
  /\ LeadInit
  /\ crmTx = [c \in CrmClients |-> IdleTx]
  /\ crmRemembered = {}
  /\ opportunity = NoOpportunity
  /\ task = NoTask
  /\ tagged = FALSE

\* The row a command reads without a lock and names in its event as the previous value.
PreviousValue(scope) ==
  CASE scope = "stage"              -> Seen(lead.stage, lead.ver)
    [] scope = "opportunity:update" -> Seen(opportunity.outcome, opportunity.ver)
    [] OTHER                        -> Seen("LEAD", 0)

\* requireCommercialLead, and the weaker condition a reactivation meets instead.
CommercialGate(scope, arg) ==
  IF scope = "stage" /\ lead.stage = "NAO_CONTATAR"
    THEN lead.qual = "SEM_SITE_CONFIRMADO" /\ ~lead.blocked /\ ~lead.dnc
    ELSE CommercialQueueEligible(lead)

KeyLockHeld(scope, key) == \E c \in CrmClients : crmTx[c].scope = scope /\ crmTx[c].key = key

\* replay() found no row, then the unlocked reads. createOpportunity takes the lead's
\* row here and keeps it; updateOpportunity reads the opportunity before it waits for
\* the lead's row, and is judged on the lead it then finds.
BeginMutation(c, scope, key, arg, expected) ==
  /\ crmTx[c] = IdleTx
  /\ ~KeyLockHeld(scope, key)
  /\ <<scope, key>> \notin crmRemembered
  /\ scope # "opportunity:update" => CommercialGate(scope, arg)
  /\ scope = "stage" => CrmMoveAllowed(lead.stage, arg.to, arg.how)
  /\ scope = "opportunity:update" => opportunity # NoOpportunity
  /\ scope \in {"task:complete", "task:reschedule"} => task # NoTask
  /\ arg.how = "OPPORTUNITY" => opportunity # NoOpportunity
  /\ scope = "opportunity:create" => RowFree
  /\ crmTx' = [crmTx EXCEPT ![c] = [scope |-> scope, key |-> key, arg |-> arg,
                                    expected |-> expected, seen |-> PreviousValue(scope)]]
  /\ rowLock' = IF scope = "opportunity:create" THEN c ELSE rowLock
  /\ UNCHANGED <<lead, contact, optOuts, authorization, timeline, msgLock,
                 crmRemembered, opportunity, task, tagged>>

\* Fault: a completed or rescheduled task does not remember its key.
RememberButTasks(c) ==
  /\ crmRemembered' = IF crmTx[c].scope \in {"task:complete", "task:reschedule"} THEN crmRemembered
                      ELSE crmRemembered \cup {<<crmTx[c].scope, crmTx[c].key>>}
  /\ crmTx' = [crmTx EXCEPT ![c] = IdleTx]
  /\ rowLock' = IF rowLock = c THEN "FREE" ELSE rowLock
  /\ UNCHANGED <<contact, optOuts, authorization, msgLock>>

\* remember() and the end of the transaction
Remember(c) ==
  /\ crmRemembered' = crmRemembered \cup {<<crmTx[c].scope, crmTx[c].key>>}
  /\ crmTx' = [crmTx EXCEPT ![c] = IdleTx]
  /\ rowLock' = IF rowLock = c THEN "FREE" ELSE rowLock
  /\ UNCHANGED <<contact, optOuts, authorization, msgLock>>

\* Fault: the UPDATE of the stage is not guarded by the quoted version.
WriteStageUnguarded(c) ==
  /\ crmTx[c].scope = "stage" /\ SuppressionFree
  /\ lead.ver < MaxCrmVersion
  /\ lead' = [lead EXCEPT !.stage = crmTx[c].arg.to, !.ver = @ + 1]
  /\ Recorded(Change("STAGE_CHANGED", crmTx[c].seen, crmTx[c].arg.to, crmTx[c].expected, lead.ver + 1))
  /\ Remember(c)
  /\ UNCHANGED <<opportunity, task, tagged>>

\* changeCrmStage: the UPDATE matches only the version the caller quoted.
WriteStage(c) ==
  /\ crmTx[c].scope = "stage" /\ SuppressionFree
  /\ lead.ver = crmTx[c].expected /\ lead.ver < MaxCrmVersion
  /\ lead' = [lead EXCEPT !.stage = crmTx[c].arg.to, !.ver = @ + 1]
  /\ Recorded(Change("STAGE_CHANGED", crmTx[c].seen, crmTx[c].arg.to, crmTx[c].expected, lead.ver + 1))
  /\ Remember(c)
  /\ UNCHANGED <<opportunity, task, tagged>>

\* updateCrmAssignment: owner, priority and next action, under the same version.
WriteAssignment(c) ==
  /\ crmTx[c].scope = "assignment" /\ RowFree
  /\ lead.ver = crmTx[c].expected /\ lead.ver < MaxCrmVersion
  /\ lead' = [lead EXCEPT !.ver = @ + 1]
  /\ Recorded(Entry("ASSIGNMENT_UPDATED", "LEAD", "LEAD"))
  /\ Remember(c)
  /\ UNCHANGED <<opportunity, task, tagged>>

\* addNote
WriteNote(c) ==
  /\ crmTx[c].scope = "note"
  /\ Recorded(Entry("NOTE_ADDED", "LEAD", crmTx[c].arg.how))
  /\ Remember(c)
  /\ UNCHANGED <<lead, opportunity, task, tagged>>

\* addTag: the association is inserted on conflict do nothing, and only a new one is an event.
WriteTagAdded(c) ==
  /\ crmTx[c].scope = "tag:add"
  /\ tagged' = TRUE
  /\ IF tagged THEN UNCHANGED timeline ELSE Recorded(Entry("TAG_ADDED", "ABSENT", "TAG"))
  /\ Remember(c)
  /\ UNCHANGED <<lead, opportunity, task>>

\* removeTag: nothing removed is NOT_FOUND.
WriteTagRemoved(c) ==
  /\ crmTx[c].scope = "tag:remove" /\ tagged
  /\ tagged' = FALSE
  /\ Recorded(Entry("TAG_REMOVED", "TAG", "ABSENT"))
  /\ Remember(c)
  /\ UNCHANGED <<lead, opportunity, task>>

\* createTask
WriteTaskCreated(c) ==
  /\ crmTx[c].scope = "task:create" /\ task = NoTask
  /\ task' = [status |-> "PENDENTE", ver |-> 1]
  /\ Recorded(Entry("TASK_CREATED", "LEAD", crmTx[c].arg.how))
  /\ Remember(c)
  /\ UNCHANGED <<lead, opportunity, tagged>>

\* mutateTask: complete and reschedule match a pending task of the quoted version.
WriteTaskMutated(c) ==
  /\ crmTx[c].scope \in {"task:complete", "task:reschedule"}
  /\ task.status = "PENDENTE" /\ task.ver = crmTx[c].expected
  /\ LET completes == crmTx[c].scope = "task:complete" IN
     /\ task' = [status |-> IF completes THEN "CONCLUIDA" ELSE "PENDENTE", ver |-> task.ver + 1]
     /\ Recorded(Entry(IF completes THEN "TASK_COMPLETED" ELSE "TASK_RESCHEDULED", "PENDENTE", task'.status))
  /\ Remember(c)
  /\ UNCHANGED <<lead, opportunity, tagged>>

\* createOpportunity
WriteOpportunityCreated(c) ==
  /\ crmTx[c].scope = "opportunity:create" /\ opportunity = NoOpportunity
  /\ opportunity' = [outcome |-> "NONE", reason |-> FALSE, ver |-> 1]
  /\ Recorded(Change("OPPORTUNITY_CREATED", Seen("ABSENT", 0), "NONE", 0, 1))
  /\ Remember(c)
  /\ UNCHANGED <<lead, task, tagged>>

Outcome(status) ==
  CASE status = "GANHA" -> "GANHO" [] status = "PERDIDA" -> "PERDIDO" [] status = "ABERTA" -> "NONE"
    [] OTHER -> opportunity.outcome

\* lossReason: kept when the command is silent, cleared by ABERTA.
LossReason(arg) ==
  IF arg.how = "REASON" THEN TRUE ELSE IF arg.to = "ABERTA" THEN FALSE ELSE opportunity.reason

\* updateOpportunity, within the CHECK constraint that ties the loss reason to PERDIDO:
\* a row that breaks it rolls the transaction back.
WriteOpportunityUpdated(c) ==
  /\ crmTx[c].scope = "opportunity:update" /\ RowFree
  /\ CommercialGate("opportunity:update", crmTx[c].arg)
  /\ opportunity.ver = crmTx[c].expected
  /\ LET arg == crmTx[c].arg IN
     /\ arg.to = "PERDIDA" => arg.how = "REASON"
     /\ LossReason(arg) <=> Outcome(arg.to) = "PERDIDO"
     /\ opportunity' = [outcome |-> Outcome(arg.to), reason |-> LossReason(arg),
                        ver |-> opportunity.ver + 1]
     /\ Recorded(Change("OPPORTUNITY_UPDATED", crmTx[c].seen, Outcome(arg.to),
                        crmTx[c].expected, opportunity.ver + 1))
  /\ Remember(c)
  /\ UNCHANGED <<lead, task, tagged>>

\* A conflict, a failed CHECK or a lost connection: the transaction leaves nothing.
RollBackMutation(c) ==
  /\ crmTx[c] # IdleTx
  /\ crmTx' = [crmTx EXCEPT ![c] = IdleTx]
  /\ rowLock' = IF rowLock = c THEN "FREE" ELSE rowLock
  /\ UNCHANGED <<lead, contact, optOuts, authorization, timeline, msgLock,
                 crmRemembered, opportunity, task, tagged>>

WriteMutation(c) ==
  \/ WriteStage(c) \/ WriteAssignment(c) \/ WriteNote(c)
  \/ WriteTagAdded(c) \/ WriteTagRemoved(c)
  \/ WriteTaskCreated(c) \/ WriteTaskMutated(c)
  \/ WriteOpportunityCreated(c) \/ WriteOpportunityUpdated(c)

CrmClientNext(c) ==
  \/ \E scope \in CrmScopes, key \in CrmKeys : \E arg \in CrmArguments(scope) :
       \E expected \in (IF scope \in Versioned THEN 1 .. MaxQuoted ELSE {0}) :
         BeginMutation(c, scope, key, arg, expected)
  \/ WriteMutation(c)
  \/ RollBackMutation(c)

CrmNext == \E c \in CrmClients : CrmClientNext(c)

(***************************************************************************)
(* Properties.                                                             *)
(***************************************************************************)
EventsOf(rows, types) == {i \in DOMAIN rows : rows[i].type \in types}

\* The events of these types start where the one before ended, and the last ended at "now".
TellsHistory(rows, types, now) ==
  \A i \in EventsOf(rows, types) :
    LET later == {j \in EventsOf(rows, types) : j > i} IN
    /\ later = {} => rows[i].to = now
    /\ \A j \in later : (\A k \in later : j <= k) => rows[j].from = rows[i].to

\* "seen" is what the row held at the version seen: what the last event known at that
\* version left, or what it held first.
StoodAt(rows, types, first, seen) ==
  LET known == {i \in EventsOf(rows, types) : rows[i].ver <= seen.ver} IN
  /\ known = {} => seen.value = first
  /\ \A i \in known : (\A j \in known : j <= i) => seen.value = rows[i].to

\* The events tell the versions of a row that held "first" and now is "row": each makes
\* a later version than those before it and starts at what the row held at the version
\* it names as read, which is the one it replaced unless its request quoted a version
\* beyond the one read.
VersionsTold(rows, types, first, row) ==
  /\ \A i, j \in EventsOf(rows, types) : i < j => rows[i].ver < rows[j].ver
  /\ \A i \in EventsOf(rows, types) :
       /\ rows[i].read < rows[i].ver /\ rows[i].ver <= row.ver
       /\ rows[i].quoted <= rows[i].read => rows[i].read + 1 = rows[i].ver
       /\ StoodAt(rows, types, first, Seen(rows[i].from, rows[i].read))
  /\ StoodAt(rows, types, first, row)

StageEvents == {"STAGE_CHANGED", "DO_NOT_CONTACT"}
TagEvents == {"TAG_ADDED", "TAG_REMOVED"}
OpportunityEvents == {"OPPORTUNITY_CREATED", "OPPORTUNITY_UPDATED"}

\* The timeline is the history of the lead, whichever of the CRM and the pilot wrote
\* it and however stale the reads of the transactions were: every stage event starts
\* at the stage the lead had at the version it names as read, which is the one it
\* replaced (so that it starts where the event before it ended) unless the request
\* quoted a version that the lead did not have yet, and the last one ends at the stage
\* of the row; likewise the events of the opportunity and its outcome, and the tag
\* events tell whether the tag is there.
TimelineTellsTheState ==
  /\ \E first \in FirstStages : VersionsTold(timeline, StageEvents, first, Seen(lead.stage, lead.ver))
  /\ TellsHistory(timeline, TagEvents, IF tagged THEN "TAG" ELSE "ABSENT")
  /\ tagged => EventsOf(timeline, TagEvents) # {}
  /\ VersionsTold(timeline, OpportunityEvents, "ABSENT", Seen(opportunity.outcome, opportunity.ver))
  /\ opportunity.outcome = "ABSENT" <=> EventsOf(timeline, OpportunityEvents) = {}

ScopeEvents(scope) ==
  CASE scope = "stage" -> {"STAGE_CHANGED"} [] scope = "assignment" -> {"ASSIGNMENT_UPDATED"}
    [] scope = "note" -> {"NOTE_ADDED"} [] scope = "tag:remove" -> {"TAG_REMOVED"}
    [] scope = "task:create" -> {"TASK_CREATED"} [] scope = "task:complete" -> {"TASK_COMPLETED"}
    [] scope = "task:reschedule" -> {"TASK_RESCHEDULED"}
    [] scope = "opportunity:create" -> {"OPPORTUNITY_CREATED"}
    [] scope = "opportunity:update" -> {"OPPORTUNITY_UPDATED"}

\* A key is worth one effect: whatever is retried, after however many
\* conflicts and lost answers, each scope has as many events as remembered keys.
CrmKeyAppliedOnce ==
  \A scope \in CrmScopes \ {"tag:add"} :
    Cardinality(EventsOf(timeline, ScopeEvents(scope))) = Cardinality({p \in crmRemembered : p[1] = scope})
=============================================================================
