--------------------------- MODULE CommercialLead ---------------------------
(***************************************************************************)
(* The lead that the qualification screens, the CRM, the internal pilot    *)
(* and the manual messaging all work on: its row of "leads", its contact,  *)
(* its opt-outs and its channel authorization, with the writers of         *)
(* packages/database/src/qualification.ts and the opt-out writer of        *)
(* packages/database/src/campaign.ts.                                      *)
(*                                                                         *)
(* Transactions that only take locks they hold to their end are single     *)
(* steps. Two locks are held by transactions of several steps:             *)
(*   rowLock  FOR UPDATE on the lead's row (and, for the messaging, on its *)
(*            run, its association and its contact);                       *)
(*   msgLock  the advisory lock 'manual-messaging:<lead>' that migrations  *)
(*            0019 and 0025 make every writer of suppression facts take.   *)
(***************************************************************************)
EXTENDS Naturals, Sequences, FiniteSets

CONSTANTS
  FirstStages,      \* stages of the CRM in which a history may begin
  MaxCrmVersion,    \* bound on leads.crm_version
  MaxTimeline,      \* bound on the rows of crm_timeline_events
  MaxFingerprint    \* bound on the rotations of the contact's fingerprint

VARIABLES
  lead,             \* the row of leads: qual, blocked, dnc, stage and ver (crm_version)
  contact,          \* the row of lead_contacts: valid, verified and fp
  optOuts,          \* campaign_opt_outs of the lead; "ALL" is the channel NULL
  authorization,    \* contact_channel_authorizations and their revocations
  timeline,         \* crm_timeline_events
  rowLock, msgLock  \* "FREE" or the transaction that holds the lock

leadVars == <<lead, contact, optOuts, authorization, timeline, rowLock, msgLock>>

CrmStages ==
  {"NOVO", "EM_VALIDACAO", "QUALIFICADO", "CONTATO_PENDENTE", "CONTATADO", "RESPONDEU",
   "REUNIAO", "PROPOSTA", "GANHO", "PERDIDO", "NAO_CONTATAR"}

ASSUME CommercialLeadAssumption ==
  /\ FirstStages \subseteq CrmStages \ {"NAO_CONTATAR"}
  /\ {MaxCrmVersion, MaxTimeline, MaxFingerprint} \subseteq Nat \ {0}

QualificationTransition(from) ==
  CASE from = "PENDENTE"   -> {"VALIDANDO", "DESCARTADO"}
    [] from = "VALIDANDO"  -> {"SITE_ENCONTRADO", "SEM_SITE_CONFIRMADO", "INCONCLUSIVO", "DESCARTADO"}
    [] from = "DESCARTADO" -> {}
    [] OTHER               -> {"VALIDANDO", "DESCARTADO"}

\* isEligibleForCommercialQueue
CommercialQueueEligible(l) ==
  /\ l.qual = "SEM_SITE_CONFIRMADO"
  /\ ~l.blocked /\ ~l.dnc
  /\ l.stage # "NAO_CONTATAR"

\* isEligibleForOutreach: what getQualification reports
OutreachEligible(l, c) ==
  l.qual = "SEM_SITE_CONFIRMADO" /\ ~l.blocked /\ ~l.dnc /\ c.valid /\ c.verified

\* listOutreachEligibleLeads: the rows the outreach list shows
OutreachListed(l, c) == OutreachEligible(l, c) /\ l.stage # "NAO_CONTATAR"

\* Suppressed for a channel: a flag, the stage or an opt-out forbids the contact.
SuppressedFor(l, outs, channel) ==
  l.blocked \/ l.dnc \/ l.stage = "NAO_CONTATAR" \/ outs \cap {"ALL", channel} # {}

(***************************************************************************)
(* The lead's writers.                                                     *)
(***************************************************************************)
LeadInit ==
  /\ lead \in [qual : {"SEM_SITE_CONFIRMADO"}, blocked : {FALSE}, dnc : {FALSE},
               stage : FirstStages, ver : {1}]
  /\ contact = [valid |-> TRUE, verified |-> TRUE, fp |-> 1]
  /\ optOuts = {}
  /\ authorization = "NONE"
  /\ timeline = <<>>
  /\ rowLock = "FREE" /\ msgLock = "FREE"

RowFree == rowLock = "FREE"
SuppressionFree == RowFree /\ msgLock = "FREE"

\* Fault: a generic update may clear the flag a suppression has set.
AttemptsToClearBlockOnly(l, flags) == l.blocked /\ flags.blocked = "FALSE"

\* attemptsToClearNonContact: a generic update may set the flags, never clear them.
AttemptsToClear(l, flags) ==
  (l.blocked /\ flags.blocked = "FALSE") \/ (l.dnc /\ flags.dnc = "FALSE")

Merged(old, requested) == IF requested = "ABSENT" THEN old ELSE requested = "TRUE"

\* updateQualification: the status and the flags under FOR UPDATE; crm_version stays.
UpdateQualification(status, flags) ==
  /\ SuppressionFree
  /\ ~AttemptsToClear(lead, flags)
  /\ status = lead.qual \/ status \in QualificationTransition(lead.qual)
  /\ lead' = [lead EXCEPT !.qual = status,
                          !.blocked = Merged(@, flags.blocked),
                          !.dnc = Merged(@, flags.dnc)]
  /\ UNCHANGED <<contact, optOuts, authorization, timeline, rowLock, msgLock>>

\* upsertContact: overwrites validity and verification; a new spelling of the
\* value rotates the fingerprint (trigger of migration 0025).
UpsertContact(valid, verified, respelled) ==
  /\ RowFree
  /\ respelled => contact.fp < MaxFingerprint
  /\ contact' = [valid |-> valid, verified |-> verified,
                 fp |-> contact.fp + (IF respelled THEN 1 ELSE 0)]
  /\ UNCHANGED <<lead, optOuts, authorization, timeline, rowLock, msgLock>>

\* recordOptOut: an existing row is the answer, else one is inserted.
RecordOptOut(channel) ==
  /\ SuppressionFree
  /\ optOuts' = optOuts \cup {channel}
  /\ UNCHANGED <<lead, contact, authorization, timeline, rowLock, msgLock>>

\* An authorization is granted or revoked by inserting a row; both wait for the advisory lock.
Authorize(state) ==
  /\ SuppressionFree
  /\ <<authorization, state>> \in {<<"NONE", "GRANTED">>, <<"GRANTED", "REVOKED">>}
  /\ authorization' = state
  /\ UNCHANGED <<lead, contact, optOuts, timeline, rowLock, msgLock>>

\* A row of the timeline. A change of a versioned row also names the version its
\* previousValue was read at ("read") and the one it made ("ver"). "quoted", the
\* version the request asked the row to have, is no column: the properties use it.
Seen(value, ver) == [value |-> value, ver |-> ver]

Change(type, seen, to, quoted, ver) ==
  [type |-> type, from |-> seen.value, to |-> to, read |-> seen.ver, quoted |-> quoted, ver |-> ver]

Entry(type, from, to) == Change(type, Seen(from, 0), to, 0, 0)
Recorded(entry) == Len(timeline) < MaxTimeline /\ timeline' = Append(timeline, entry)

\* The part of recordPilotResult that suppresses the lead (DO_NOT_CONTACT).
MarkDoNotContact ==
  /\ SuppressionFree
  /\ lead.ver < MaxCrmVersion
  /\ lead' = [lead EXCEPT !.blocked = TRUE, !.dnc = TRUE,
                          !.stage = "NAO_CONTATAR", !.ver = @ + 1]
  /\ optOuts' = optOuts \cup {"ALL"}
  /\ Recorded(Change("DO_NOT_CONTACT", Seen(lead.stage, lead.ver), "NAO_CONTATAR", lead.ver, lead.ver + 1))
  /\ UNCHANGED <<contact, authorization, rowLock, msgLock>>

\* The requests of the qualification screen and of the contact screen, from small sets.
QualificationNext(statuses, flagSets) ==
  \E status \in statuses, flags \in flagSets : UpdateQualification(status, flags)

ContactNext(verifications, respellings, channels) ==
  \/ \E valid \in BOOLEAN, verified \in verifications, respelled \in respellings :
       UpsertContact(valid, verified, respelled)
  \/ \E channel \in channels : RecordOptOut(channel)
=============================================================================
