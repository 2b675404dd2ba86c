-------------------------- MODULE MCCommercialLead --------------------------
(***************************************************************************)
(* One lead, worked on by the CRM, by the internal pilot or by the manual  *)
(* messaging, each with the writers of the other parts that can commit     *)
(* under it. The variable scene says which part a behaviour is about: the  *)
(* variables of the others stay as they were, so the state spaces add up   *)
(* and do not multiply. The CRM has two scenes: the commands with one key  *)
(* (but no update of an opportunity), and those on the opportunity alone   *)
(* with every key. So has the pilot: both runs with one instant for their  *)
(* records and two results each, and one run under way with every instant  *)
(* and as many results as MaxResults allows.                               *)
(***************************************************************************)
EXTENDS CommercialDesk, TLC

CONSTANTS c1, c2, r1, r2

VARIABLE scene

mcVars == <<leadVars, crmVars, pilotVars, messageVars, scene>>

Symmetry == Permutations(CrmClients)

\* The scenes of the funnel and of the messaging start with an approved lead in a running run.
RunningPilot ==
  /\ pilotRun = [r \in PilotRuns |-> [status |-> "RUNNING", started |-> TRUE, completed |-> FALSE]]
  /\ seat = [r \in PilotRuns |-> IF r = MessageRun THEN 1 ELSE 0]
  /\ contacts = [r \in PilotRuns |-> {}]
  /\ review = [r \in PilotRuns |-> [decision |-> "APPROVED", ver |-> 1]]
  /\ results = [r \in PilotRuns |-> NoResults]
  /\ pilotTx = NoPilotTx /\ pilotSafety = TRUE

Init ==
  /\ scene \in {"crm", "opportunity", "pilot", "funnel", "message"}
  /\ CrmInit /\ MessageInit
  /\ IF scene \in {"funnel", "message"} THEN RunningPilot ELSE PilotInit

Flags(b, d) == [blocked |-> b, dnc |-> d]

CrmScene ==
  \/ CrmNext
  \/ /\ \/ QualificationNext({"SEM_SITE_CONFIRMADO"}, {Flags("TRUE", "ABSENT")})
        \/ MarkDoNotContact
     /\ UNCHANGED crmVars

OneKey ==
  \A c \in CrmClients : crmTx'[c].key \in {"NONE", "k1"} /\ crmTx'[c].scope # "opportunity:update"
OnlyOpportunities ==
  \A c \in CrmClients : crmTx'[c].scope \in {"IDLE", "opportunity:create", "opportunity:update"}

PilotScene ==
  \/ PilotNext
  \/ /\ \/ QualificationNext({"SEM_SITE_CONFIRMADO", "VALIDANDO"},
                             {Flags("ABSENT", "ABSENT"), Flags("ABSENT", "FALSE")})
        \/ ContactNext({TRUE}, {FALSE}, {"WHATSAPP"})
     /\ UNCHANGED pilotVars

OneInstant ==
  /\ \A r \in PilotRuns : contacts'[r] \subseteq {1}
  /\ \A r \in PilotRuns : \A x \in results'[r].all : x.at = 1
TwoResults == \A r \in PilotRuns : Cardinality(results'[r].all) <= 2
OneRun ==
  /\ pilotTx'.run \in {"NONE", MessageRun}
  /\ \A r \in PilotRuns \ {MessageRun} : pilotRun'[r] = pilotRun[r]
  /\ pilotSafety'

MessagingScene ==
  \/ MessageNext
  \/ /\ \/ \E status \in {"PAUSED", "RUNNING", "COMPLETED"} : UpdateRunStatus(MessageRun, status)
        \/ /\ \/ ContactNext({TRUE}, BOOLEAN, {"WHATSAPP"})
              \/ \E state \in {"GRANTED", "REVOKED"} : Authorize(state)
              \/ MarkDoNotContact
           /\ UNCHANGED pilotVars
     /\ UNCHANGED messageVars

Next ==
  /\ UNCHANGED scene
  /\ \/ scene = "crm" /\ CrmScene /\ OneKey /\ UNCHANGED <<pilotVars, messageVars>>
     \/ /\ scene = "opportunity" /\ CrmScene /\ OnlyOpportunities
        /\ UNCHANGED <<pilotVars, messageVars>>
     \/ /\ \/ scene = "pilot" /\ PilotScene /\ OneInstant /\ TwoResults
           \/ scene = "funnel" /\ PilotScene /\ OneRun
        /\ UNCHANGED <<crmVars, messageVars>>
     \/ scene = "message" /\ MessagingScene /\ UNCHANGED crmVars

Spec == Init /\ [][Next]_mcVars
=============================================================================
