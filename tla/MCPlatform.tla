----------------------------- MODULE MCPlatform -----------------------------
(***************************************************************************)
(* The parts around the campaigns: the operator channel test, releases and *)
(* restores, the prospecting of cities, the collection of leads, their     *)
(* evaluation, the experiment on messages, and the environment of the      *)
(* processes. They share no state: the variable scene says which part a    *)
(* behaviour is about, so the state spaces add up and do not multiply.     *)
(***************************************************************************)
EXTENDS OperatorTest, Release, Prospecting, Collection, LeadQuality, CommunicationLab, Configuration

CONSTANTS caller1, caller2, f1, f2, f3, w1, w2

VARIABLE scene

mcVars == <<opVars, releaseVars, prospectVars, collectVars, check, lab, confVars, scene>>

(***************************************************************************)
(* Values of the constants.                                                *)
(***************************************************************************)
MigrationList == <<"m1", "m2", "m3", "m4">>

\* What becomes of the objects of a migration that the backup does not have
FateOfObjects == [m1 |-> "CONFLICTS", m2 |-> "REPLACED", m3 |-> "KEPT", m4 |-> "CONFLICTS"]

Counts(found, approved, structural, ambiguous, safety) ==
  [found |-> found, approved |-> approved, sent |-> approved, structural |-> structural, ambiguous |-> ambiguous,
   safety |-> safety, audit |-> 0, other |-> 0]

\* Runs of a low yield: for structural reasons, for structural reasons with a few safety
\* ones, and for ambiguous ones.
CountsOfRuns == {Counts(7, 2, 4, 0, 1), Counts(9, 3, 5, 0, 1), Counts(4, 1, 2, 1, 0)}

Element(id, fields, closed) == [id |-> id, fields |-> fields, closed |-> closed]
Elements == {Element(1, {"name", "phone"}, FALSE), Element(1, {"name", "phone", "website"}, FALSE),
             Element(1, {}, TRUE), Element(2, {"name", "whatsapp", "phone", "email"}, FALSE)}

Signals == <<"HARD_BOUNCE", "OPT_OUT">>

\* All evidence, all but one fact, none, and evidence of an unexpected form.
FactsOfLead == {"apparentActivity", "noOfficialDomain", "publicBusinessEmail", "noPreviousContact", "noSuppressionOrBounce"}
EvidenceOfLeads == {FactsOfLead, {}, {"BAD"}} \cup {FactsOfLead \ {f} : f \in FactsOfLead}

\* The niches with the shortest and the longest text, and one between.
NichesOfLab == <<"FOOD", "PET", "FITNESS_EDUCATION">>

Environment(on, profile, operator) == [on |-> on, profile |-> profile, operator |-> operator]
EnvironmentFiles ==
  {Environment({"HOMOLOGATION", "SHADOW", "PILOT_PERMISSIONS", "API_BATCH", "CRON_SECRET"}, "oracle-vps", "OFF"),
   Environment({"EGRESS", "OVERPASS_URL", "EXTERNAL_SURFACE"}, "oracle-vps", "COMPLETE"),
   Environment({"SHADOW", "CRON_SECRET", "API_BATCH", "INVERTED_WINDOW"}, "supabase-render", "INCOMPLETE")}

(***************************************************************************)
(* The scenes.                                                             *)
(***************************************************************************)
NoCheck == [step |-> "DONE", result |-> NoResult, answered |-> FALSE, resolver |-> "NONE", eligible |-> FALSE,
            input |-> NoInput, evidence |-> {}, requested |-> {}]
IdleFile == With(CHOOSE e \in EnvironmentFiles : TRUE, FALSE)

\* Fingerprints are interchangeable: a call brings one that is in use or the next one.
Fingerprints == <<f1, f2, f3>>
InUse == {cityRuns[i].fp : i \in DOMAIN cityRuns} \cup {cityCalls[k].fp : k \in ProspectCallers}
FingerprintsInOrder ==
  \A k \in ProspectCallers, i \in 2 .. Len(Fingerprints) :
    cityCalls'[k].fp = Fingerprints[i] => InUse \cap {Fingerprints[i - 1], Fingerprints[i]} # {}

\* A part outside its own scene has one initial state.
Init ==
  /\ scene \in {"operator", "release", "prospecting", "collection", "quality", "lab", "configuration"}
  /\ ProspectInit /\ LabInit
  /\ OpInit /\ (scene # "operator" => opApi.phone = "p1" /\ opPhone = "p1")
  /\ ReleaseInit /\ (scene # "release" => db.imported = {})
  /\ CollectInit /\ (scene # "collection" => ~apiEgress)
  /\ IF scene = "configuration" THEN ConfigurationInit
     ELSE /\ envFile = IdleFile /\ process = [p \in Processes |-> [step |-> "DOWN", env |-> IdleFile]]
          /\ freeze = NoFreeze /\ evidence = {}
          /\ drilled = {} /\ switch = "RELEASED" /\ report = "NOT_READY"
  /\ IF scene = "quality" THEN QualityInit ELSE check = NoCheck

Next ==
  /\ UNCHANGED scene
  /\ \/ scene = "operator" /\ OpNext
        /\ UNCHANGED <<releaseVars, prospectVars, collectVars, check, lab, confVars>>
     \/ scene = "release" /\ ReleaseNext
        /\ UNCHANGED <<opVars, prospectVars, collectVars, check, lab, confVars>>
     \/ scene = "prospecting" /\ ProspectNext /\ FingerprintsInOrder
        /\ UNCHANGED <<opVars, releaseVars, collectVars, check, lab, confVars>>
     \/ scene = "collection" /\ CollectNext
        /\ UNCHANGED <<opVars, releaseVars, prospectVars, check, lab, confVars>>
     \/ scene = "quality" /\ QualityNext
        /\ UNCHANGED <<opVars, releaseVars, prospectVars, collectVars, lab, confVars>>
     \/ scene = "lab" /\ LabNext
        /\ UNCHANGED <<opVars, releaseVars, prospectVars, collectVars, check, confVars>>
     \/ scene = "configuration" /\ ConfigurationNext
        /\ UNCHANGED <<opVars, releaseVars, prospectVars, collectVars, check, lab>>

Spec == Init /\ [][Next]_mcVars

\* Whatever is missing, late or inconsistent, a lead is eligible and a message is
\* recommended only on what is known: the evaluation of leads and the report on messages
\* never let an unknown pass.
DecisionsFailClosed == EligibleLeadIsVerified /\ (scene = "lab" => RecommendationsAreSound)
=============================================================================
