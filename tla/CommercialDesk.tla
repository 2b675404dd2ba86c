---------------------------- MODULE CommercialDesk ----------------------------
(***************************************************************************)
(* The composition: the CRM, the internal pilot, the manual messaging and  *)
(* the screens of qualification, contacts, opt-outs and authorizations all *)
(* at work on the one lead. They meet in the lead's tables and in its two  *)
(* locks; every other variable belongs to one part.                        *)
(***************************************************************************)
EXTENDS CrmPipeline, ManualMessaging

\* A client of the CRM is told apart from the other holders of the lead's row.
ASSUME DeskAssumption == CrmClients \cap {"FREE", "message"} = {}

deskVars == <<leadVars, crmVars, pilotVars, messageVars>>

DeskInit == CrmInit /\ PilotInit /\ MessageInit

LeadStatuses ==
  {"PENDENTE", "VALIDANDO", "SITE_ENCONTRADO", "SEM_SITE_CONFIRMADO", "INCONCLUSIVO", "DESCARTADO"}
LeadFlags == [blocked : {"ABSENT", "TRUE", "FALSE"}, dnc : {"ABSENT", "TRUE", "FALSE"}]
OptOutChannels == {"ALL", "WHATSAPP", "EMAIL"}

\* The writers of the lead that belong to none of the three parts
LeadNext ==
  \/ QualificationNext(LeadStatuses, LeadFlags)
  \/ ContactNext(BOOLEAN, BOOLEAN, OptOutChannels)
  \/ \E state \in {"GRANTED", "REVOKED"} : Authorize(state)

DeskNext ==
  \/ LeadNext /\ UNCHANGED <<crmVars, pilotVars, messageVars>>
  \/ CrmNext /\ UNCHANGED <<pilotVars, messageVars>>
  \/ PilotNext /\ UNCHANGED <<crmVars, messageVars>>
  \/ MessageNext /\ UNCHANGED crmVars

DeskSpec == DeskInit /\ [][DeskNext]_deskVars
=============================================================================
