---------------------------- MODULE Prospecting ----------------------------
(***************************************************************************)
(* The record of prospecting runs and the city each campaign prospects     *)
(* (packages/database/src/prospecting-metrics.ts, migration 0027), with    *)
(* the saturation rule that moves a campaign to its next city              *)
(* (prospecting-orchestrator/src/city-saturation.ts).                      *)
(*                                                                         *)
(* Cities are their positions. createProspectingRun reads the fingerprint, *)
(* and then locks the state of the campaign: what follows the lock is one  *)
(* step. A call of the same run may come at any time, in any number.       *)
(***************************************************************************)
EXTENDS Integers, Sequences, FiniteSets, SequencesExt

CONSTANTS
  ProspectCallers,       \* concurrent calls of createProspectingRun
  ProspectFingerprints,  \* execution fingerprints
  ProspectCampaigns,     \* campaign keys
  ProspectMetrics,       \* the counts a run may report
  LastCity,              \* position of Indaiatuba
  MaxCityVersion         \* bound on the version of a campaign's state

ASSUME ProspectAssumption == LastCity \in Nat \ {0}

VARIABLES
  cityRuns,         \* prospecting_runs in the order of created_at
  cityState,        \* prospecting_city_state: city (0: no row), low yield runs, version
  cityTransitions,  \* prospecting_city_transitions
  cityCalls         \* calls: what they ask for, their answer and the runs there were then

prospectVars == <<cityRuns, cityState, cityTransitions, cityCalls>>

EARNED == "TWO_CONSECUTIVE_LOW_YIELD_STRUCTURAL_RUNS"

NoCall == [step |-> "NONE", fp |-> "NONE", campaign |-> "NONE", city |-> 0, answer |-> "NONE", at |-> 0]

ProspectInit ==
  /\ cityRuns = <<>>
  /\ cityState = [c \in ProspectCampaigns |-> [city |-> 0, low |-> 0, version |-> 0]]
  /\ cityTransitions = {}
  /\ cityCalls = [k \in ProspectCallers |-> NoCall]

(***************************************************************************)
(* The saturation rule. The reasons of a rejection are counted in groups:  *)
(* ambiguous is one of the structural ones and audit one of the safety     *)
(* ones, and each also counts alone.                                       *)
(***************************************************************************)
RejectedIn(m) == m.structural + m.ambiguous + m.safety + m.audit + m.other

\* buildProspectingCityRunMetrics
MetricsAccepted(m) == m.approved + RejectedIn(m) <= m.found /\ m.sent <= m.approved

LowYield(m) == m.approved <= 2
StructuralPredominant(m) == m.structural + m.ambiguous > m.safety + m.audit

\* saturationIndex >= 70: 70 * structural / found, and 30 for a low yield
ThresholdReached(m) ==
  IF LowYield(m) THEN m.found > 0 /\ 7 * (m.structural + m.ambiguous) >= 4 * m.found
  ELSE m.found > 0 /\ m.structural + m.ambiguous >= m.found

\* shouldAdvance of calculateCitySaturation
Saturates(m) ==
  /\ LowYield(m) /\ StructuralPredominant(m) /\ ThresholdReached(m)
  /\ m.audit = 0 /\ m.ambiguous = 0

\* The runs of the campaign in the city, by position, and those before the last one
RunsOf(runs, c, city) == {i \in DOMAIN runs : runs[i].campaign = c /\ runs[i].city = city}
Before(here) == here \ {Max(here)}

\* evaluateCityTransition over the last two runs
Advances(runs, here, city) ==
  /\ city < LastCity
  /\ Before(here) # {} /\ \A i \in {Max(here), Max(Before(here))} : Saturates(runs[i].metrics)

ConsecutiveLowYield(runs, here, city) ==
  IF city = LastCity \/ ~LowYield(runs[Max(here)].metrics) THEN 0
  ELSE IF Before(here) # {} /\ LowYield(runs[Max(Before(here))].metrics) THEN 2 ELSE 1

(***************************************************************************)
(* createProspectingRun.                                                   *)
(***************************************************************************)
Recorded(fp) == {i \in DOMAIN cityRuns : cityRuns[i].fp = fp}
InScope(call, i) == cityRuns[i].campaign = call.campaign /\ cityRuns[i].city = call.city

Answers(k, answer) ==
  cityCalls' = [cityCalls EXCEPT ![k].step = "DONE", ![k].answer = answer, ![k].at = Len(cityRuns')]

\* The call's metrics are named where they are first used.
Asks(k, fp, c, city) ==
  /\ cityCalls[k].step \in {"NONE", "DONE"}
  /\ cityCalls' = [cityCalls EXCEPT ![k] = [NoCall EXCEPT !.step = "READ", !.fp = fp, !.campaign = c, !.city = city]]
  /\ UNCHANGED <<cityRuns, cityState, cityTransitions>>

\* A recorded fingerprint is replayed for its campaign and city and refused for another.
AnswersRecorded(k) ==
  /\ Recorded(cityCalls[k].fp) # {}
  /\ UNCHANGED <<cityRuns, cityState, cityTransitions>>
  /\ Answers(k, IF \A i \in Recorded(cityCalls[k].fp) : InScope(cityCalls[k], i)
                THEN "REPLAYED" ELSE "SCOPE_MISMATCH")

\* The read before the lock
ReadsFingerprint(k) ==
  /\ cityCalls[k].step = "READ"
  /\ \/ AnswersRecorded(k)
     \/ /\ Recorded(cityCalls[k].fp) = {}
        /\ cityCalls' = [cityCalls EXCEPT ![k].step = "LOCK"]
        /\ UNCHANGED <<cityRuns, cityState, cityTransitions>>

\* The row of the campaign's state; a new campaign starts in Campinas.
CityOf(c) == IF cityState[c].city = 0 THEN 1 ELSE cityState[c].city

\* advance_prospecting_city_state: one position, once per city.
MovedOn(c, version, run, reason) ==
  /\ CityOf(c) < LastCity
  /\ ~\E t \in cityTransitions : t.campaign = c /\ t.from = CityOf(c)
  /\ cityTransitions' = cityTransitions \cup
       {[campaign |-> c, from |-> CityOf(c), to |-> CityOf(c) + 1, reason |-> reason, run |-> run]}
  /\ cityState' = [cityState EXCEPT ![c] = [city |-> CityOf(c) + 1, low |-> 0, version |-> version + 1]]

\* The run with its reasons, and the move or the progress it makes. A state that is
\* created has version 1.
Records(k, m) ==
  LET call == cityCalls[k]
      c == call.campaign
      here == RunsOf(cityRuns', c, call.city)
      version == IF cityState[c].city = 0 THEN 1 ELSE cityState[c].version
  IN /\ MetricsAccepted(m)
     /\ cityRuns' = Append(cityRuns, [fp |-> call.fp, campaign |-> c, city |-> call.city, metrics |-> m])
     /\ IF Advances(cityRuns', here, call.city) THEN MovedOn(c, version, Len(cityRuns'), EARNED)
        ELSE /\ cityState' = [cityState EXCEPT ![c] = [city |-> CityOf(c), version |-> version + 1,
                                                       low |-> ConsecutiveLowYield(cityRuns', here, call.city)]]
             /\ UNCHANGED cityTransitions
     /\ Answers(k, "RECORDED")

Refuses(k, answer) ==
  /\ UNCHANGED <<cityRuns, cityState, cityTransitions>>
  /\ Answers(k, answer)

\* Fault: the fingerprint is not read again after the lock.
RecordsOnTheFirstRead(k) ==
  LET call == cityCalls[k]
  IN /\ call.step = "LOCK"
     /\ \/ CityOf(call.campaign) # call.city /\ Refuses(k, "CITY_MISMATCH")
        \/ /\ CityOf(call.campaign) = call.city /\ cityState[call.campaign].version < MaxCityVersion
           /\ IF Recorded(call.fp) # {} THEN AnswersRecorded(k) ELSE \E m \in ProspectMetrics : Records(k, m)

\* Under the lock: the fingerprint again, then the city, then the run.
RecordsUnderLock(k) ==
  LET call == cityCalls[k]
  IN /\ call.step = "LOCK"
     /\ \/ AnswersRecorded(k)
        \/ /\ Recorded(call.fp) = {}
           /\ \/ CityOf(call.campaign) # call.city /\ Refuses(k, "CITY_MISMATCH")
              \/ /\ CityOf(call.campaign) = call.city /\ cityState[call.campaign].version < MaxCityVersion
                 /\ \E m \in ProspectMetrics : Records(k, m)

(***************************************************************************)
(* The other writers: a caller that read the state and still finds its     *)
(* city and version there. (One that does not is refused.)                 *)
(***************************************************************************)
Changeable(c) == cityState[c].city # 0 /\ cityState[c].version < MaxCityVersion

\* updateProspectingCityState
UpdateProspectingCityState(c, low) ==
  /\ Changeable(c)
  /\ cityState' = [cityState EXCEPT ![c].low = low, ![c].version = @ + 1]
  /\ UNCHANGED <<cityRuns, cityTransitions, cityCalls>>

\* advanceProspectingCityState with a reason of the caller, who may name any, the earned one
\* too: here it is MANUAL, for who made the transition.
AdvanceProspectingCityState(c, run) ==
  /\ Changeable(c)
  /\ cityRuns[run].campaign = c /\ cityRuns[run].city = cityState[c].city
  /\ MovedOn(c, cityState[c].version, run, "MANUAL")
  /\ UNCHANGED <<cityRuns, cityCalls>>

ProspectNext ==
  \/ \E k \in ProspectCallers :
       \/ \E fp \in ProspectFingerprints, c \in ProspectCampaigns, city \in 1 .. LastCity : Asks(k, fp, c, city)
       \/ ReadsFingerprint(k) \/ RecordsUnderLock(k)
  \/ \E c \in ProspectCampaigns : UpdateProspectingCityState(c, 0) \/ UpdateProspectingCityState(c, 2)
  \/ \E c \in ProspectCampaigns, run \in DOMAIN cityRuns : AdvanceProspectingCityState(c, run)

ProspectSpec == ProspectInit /\ [][ProspectNext]_prospectVars

(***************************************************************************)
(* Properties.                                                             *)
(***************************************************************************)
\* The status of a city in getProspectingCityMetricsSnapshot
CityComplete(c, city) == city < CityOf(c)
\* A transition made by a run: the run and the one before it in the city both saturated.
EarnedBy(t) ==
  LET here == {i \in 1 .. t.run : cityRuns[i].campaign = t.campaign /\ cityRuns[i].city = t.from}
      before == here \ {t.run}
  IN /\ t.run \in here /\ before # {}
     /\ Saturates(cityRuns[t.run].metrics) /\ Saturates(cityRuns[Max(before)].metrics)

\* A campaign leaves a city once, for the next one, and automatically only when the run
\* that moves it and the one before it there both saturated; it records no run in a city
\* it has left, no execution twice, and a repeated call whose run moved the campaign on
\* is replayed and not refused for its city.
CampaignMovesWhenEarned ==
  /\ \A c \in ProspectCampaigns, city \in 1 .. LastCity :
       LET left == {t \in cityTransitions : t.campaign = c /\ t.from = city}
       IN /\ CityComplete(c, city) <=> left # {}
          /\ \A t \in left :
               /\ left = {t} /\ t.to = city + 1
               /\ t.reason = EARNED => EarnedBy(t) /\ ~\E i \in DOMAIN cityRuns :
                    i > t.run /\ cityRuns[i].campaign = c /\ cityRuns[i].city <= city
  /\ \A fp \in ProspectFingerprints : Cardinality(Recorded(fp)) <= 1
  /\ \A k \in ProspectCallers : cityCalls[k].answer = "CITY_MISMATCH" =>
       ~\E i \in 1 .. cityCalls[k].at : cityRuns[i].fp = cityCalls[k].fp /\ InScope(cityCalls[k], i)
=============================================================================
