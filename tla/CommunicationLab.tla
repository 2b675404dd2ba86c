-------------------------- MODULE CommunicationLab --------------------------
(***************************************************************************)
(* The synthetic experiment on messages: the matrix of message variants    *)
(* and their evaluation (packages/messaging/src/communication-lab.ts and   *)
(* communication-evidence-guards.ts), and the report that recommends three *)
(* of them for each niche and opportunity and stage of the contact         *)
(* (scripts/guarded-communication-recommendations.ts).                     *)
(*                                                                         *)
(* A text is its length: the fixed texts hold no claim, address or number  *)
(* that the patterns of the evaluation look for.                           *)
(***************************************************************************)
EXTENDS Integers, Sequences, FiniteSets, Functions, SequencesExt

CONSTANT LabNiches    \* the niches of the matrix in their order

VARIABLE lab          \* the report: its stage, the intersections done, its error

NicheLength == [BEAUTY |-> 26, AUTOMOTIVE |-> 20, FOOD |-> 22, HOME_SERVICES |-> 34, LOCAL_RETAIL |-> 25, PET |-> 18,
                FITNESS_EDUCATION |-> 35, CREATIVE_EVENTS |-> 28, LOCAL_B2B |-> 19]

ASSUME LabNichesAssumption == LabNiches \in Seq(DOMAIN NicheLength) /\ Len(LabNiches) > 0

Opportunities == <<"NO_SITE", "THIRD_PARTY_ONLY", "WEAK_SITE", "BROKEN_SITE", "WEAK_CONVERSION">>
Channels == <<"EMAIL", "CONTACT_FORM", "BUSINESS_DM", "WHATSAPP_OPT_IN">>
Openings == <<"PERMISSION_FIRST", "DIAGNOSIS_FIRST", "BENEFIT_FIRST", "CREDIBILITY_FIRST">>
Tones == <<"DIRECT", "CONSULTATIVE", "FRIENDLY">>
CallsToAction == <<"ASK_PERMISSION", "ASK_BEST_CHANNEL", "ASK_INTEREST">>
Personalizations == <<"BASIC", "SEGMENT", "DIAGNOSIS">>
OptOuts == <<"EXPLICIT", "SHORT", "MISSING">>
LinkPolicies == <<"NONE", "OWN_DOMAIN", "THIRD_PARTY">>
Diagnosable == {"WEAK_SITE", "BROKEN_SITE", "WEAK_CONVERSION"}

(***************************************************************************)
(* The evaluation of a variant.                                            *)
(***************************************************************************)
OpportunityLength == [NO_SITE |-> 84, THIRD_PARTY_ONLY |-> 67, WEAK_SITE |-> 74, BROKEN_SITE |-> 74, WEAK_CONVERSION |-> 72]
OpeningLength(v) ==
  CASE v.opening = "PERMISSION_FIRST"  -> 97
    [] v.opening = "DIAGNOSIS_FIRST"   -> 66 + OpportunityLength[v.opportunity]
    [] v.opening = "BENEFIT_FIRST"     -> IF v.opportunity = "WEAK_CONVERSION" THEN 57 ELSE 90
    [] v.opening = "CREDIBILITY_FIRST" -> 125
ToneLength == [DIRECT |-> 15, CONSULTATIVE |-> 79, FRIENDLY |-> 74]
CtaLength == [ASK_PERMISSION |-> 57, ASK_BEST_CHANNEL |-> 73, ASK_INTEREST |-> 56]
OptOutLength == [EXPLICIT |-> 93, SHORT |-> 60, MISSING |-> 0]
SourceLength == [OFFICIAL_WEBSITE |-> 26, OFFICIAL_CONTACT_FORM |-> 32, OFFICIAL_BUSINESS_PROFILE |-> 29,
                 PUBLIC_BUSINESS_DIRECTORY |-> 32, DIRECTLY_PROVIDED |-> 46, PURCHASED_LIST |-> 22, LEAKED_DATA |-> 33]
LinkLength == [NONE |-> 0, OWN_DOMAIN |-> 47, THIRD_PARTY |-> 32]
MessageLimit == [EMAIL |-> 1200, CONTACT_FORM |-> 700, BUSINESS_DM |-> 650, WHATSAPP_OPT_IN |-> 900]

\* renderCommunicationVariant: the parts that are not empty, with a space between them
Spaced(length) == IF length = 0 THEN 0 ELSE length + 1
BodyLength(v) ==
  LET warm == v.channel = "WHATSAPP_OPT_IN"
      personalization == CASE v.personalization = "DIAGNOSIS" -> 38 + OpportunityLength[v.opportunity]
                           [] v.personalization = "SEGMENT"   -> 38 + NicheLength[v.niche]
                           [] v.personalization = "BASIC"     -> 54
  IN Spaced(IF warm THEN 76 ELSE 25) + Spaced(47) + Spaced(IF warm THEN 0 ELSE 32 + SourceLength[v.sourceType])
       + Spaced(ToneLength[v.tone]) + Spaced(OpeningLength(v)) + Spaced(personalization)
       + Spaced(LinkLength[v.linkPolicy]) + Spaced(CtaLength[v.cta]) + Spaced(OptOutLength[v.optOut]) - 1

ApprovedWhatsAppAuthorization == {"DIRECT_OPT_IN", "FORM_OPT_IN", "SIGNED_RECORD"}
Approved(v) == v.channel = "WHATSAPP_OPT_IN" /\ v.authorization \in ApprovedWhatsAppAuthorization

Codes(v) ==
  {c \in {"SOURCE_REJECTED", "WHATSAPP_OPT_IN_REQUIRED", "OPT_OUT_REQUIRED", "THIRD_PARTY_LINK_BLOCKED", "MESSAGE_TOO_LONG"} :
     CASE c = "SOURCE_REJECTED"          -> v.sourceType \in {"PURCHASED_LIST", "LEAKED_DATA"}
       [] c = "WHATSAPP_OPT_IN_REQUIRED" -> v.channel = "WHATSAPP_OPT_IN" /\ ~Approved(v)
       [] c = "OPT_OUT_REQUIRED"         -> v.optOut = "MISSING"
       [] c = "THIRD_PARTY_LINK_BLOCKED" -> v.linkPolicy = "THIRD_PARTY"
       [] c = "MESSAGE_TOO_LONG"         -> BodyLength(v) > MessageLimit[v.channel]}

RawScore(v) ==
  10 + [NO_SITE |-> 8, THIRD_PARTY_ONLY |-> 7, WEAK_SITE |-> 9, BROKEN_SITE |-> 12, WEAK_CONVERSION |-> 11][v.opportunity]
     + [EMAIL |-> 8, CONTACT_FORM |-> 7, BUSINESS_DM |-> 6, WHATSAPP_OPT_IN |-> 10][v.channel]
     + [PERMISSION_FIRST |-> 9, DIAGNOSIS_FIRST |-> IF v.opportunity \in Diagnosable THEN 12 ELSE 6,
        BENEFIT_FIRST |-> 6, CREDIBILITY_FIRST |-> 5][v.opening]
     + [DIRECT |-> 4, CONSULTATIVE |-> 8, FRIENDLY |-> 6][v.tone]
     + [ASK_PERMISSION |-> 10, ASK_BEST_CHANNEL |-> 8, ASK_INTEREST |-> 6][v.cta]
     + [BASIC |-> 3, SEGMENT |-> 8, DIAGNOSIS |-> 12][v.personalization]
     + [EXPLICIT |-> 5, SHORT |-> 3, MISSING |-> -20][v.optOut]
     + [NONE |-> 3, OWN_DOMAIN |-> 1, THIRD_PARTY |-> -20][v.linkPolicy]
     + (IF Approved(v) THEN 3 ELSE 0)
     + (IF v.sourceType \in {"OFFICIAL_WEBSITE", "DIRECTLY_PROVIDED"} THEN 3 ELSE 0)
     + (IF v.personalization = "DIAGNOSIS" /\ v.opening = "DIAGNOSIS_FIRST" THEN 3 ELSE 0)

Clamp(n) == IF n < 0 THEN 0 ELSE IF n > 100 THEN 100 ELSE n

\* The guards on the evidence behind a variant
AllowedSources == [EMAIL |-> {"OFFICIAL_WEBSITE", "PUBLIC_BUSINESS_DIRECTORY", "DIRECTLY_PROVIDED"},
                   CONTACT_FORM |-> {"OFFICIAL_CONTACT_FORM"}, BUSINESS_DM |-> {"OFFICIAL_BUSINESS_PROFILE"},
                   WHATSAPP_OPT_IN |-> {"DIRECTLY_PROVIDED"}]
RequiresDiagnosis(v) == v.opening = "DIAGNOSIS_FIRST" \/ v.personalization = "DIAGNOSIS"
EvidenceCodes(v, evidence) ==
  (IF v.sourceType \in AllowedSources[v.channel] THEN {} ELSE {"CHANNEL_SOURCE_MISMATCH"})
    \cup (IF RequiresDiagnosis(v) /\ evidence # "VERIFIED" THEN {"DIAGNOSTIC_EVIDENCE_REQUIRED"} ELSE {})

Evaluated(v, evidence) ==
  LET codes == Codes(v) \cup EvidenceCodes(v, evidence)
  IN [variant |-> v, codes |-> codes, eligible |-> codes = {}, score |-> IF codes = {} THEN Clamp(RawScore(v)) ELSE 0]

(***************************************************************************)
(* The matrices.                                                           *)
(***************************************************************************)
AuthorizationForChannel(channel) == IF channel = "WHATSAPP_OPT_IN" THEN "DIRECT_OPT_IN" ELSE "NOT_REQUIRED"
SourceForChannel == [EMAIL |-> "OFFICIAL_WEBSITE", CONTACT_FORM |-> "OFFICIAL_CONTACT_FORM",
                     BUSINESS_DM |-> "OFFICIAL_BUSINESS_PROFILE", WHATSAPP_OPT_IN |-> "DIRECTLY_PROVIDED"]

\* The n-th combination of nested loops over these sequences, the last one the innermost
Digit(n, inner, list) == list[1 + ((n \div inner) % Len(list))]

ExtendedSize == 324
ExtendedCase(niche, opportunity, index) ==
  LET channel == Digit(index, 1, Channels) IN
  [index |-> index, niche |-> niche, opportunity |-> opportunity, channel |-> channel,
   opening |-> Digit(index, 81, Openings), tone |-> Digit(index, 27, Tones), cta |-> Digit(index, 9, CallsToAction),
   personalization |-> Digit(index, 3, Personalizations), optOut |-> Digit(index, 1, OptOuts),
   linkPolicy |-> Digit(index, 1, LinkPolicies), authorization |-> AuthorizationForChannel(channel),
   sourceType |-> SourceForChannel[channel]]

CoreSize == 24
CoreCase(niche, opportunity, index) ==
  LET channel == Digit(index, 1, Channels)
      opening == Digit(index, 6, Openings) IN
  [index |-> index, niche |-> niche, opportunity |-> opportunity, channel |-> channel, opening |-> opening,
   tone |-> Digit(index, 2, Tones), cta |-> Digit(index, 1, SubSeq(CallsToAction, 1, 2)),
   personalization |-> IF opportunity \in Diagnosable THEN "DIAGNOSIS" ELSE "SEGMENT", optOut |-> "EXPLICIT",
   linkPolicy |-> IF opening = "CREDIBILITY_FIRST" /\ channel = "EMAIL" THEN "OWN_DOMAIN" ELSE "NONE",
   authorization |-> AuthorizationForChannel(channel), sourceType |-> SourceForChannel[channel]]

(***************************************************************************)
(* The report: one stage after the other, one intersection after the       *)
(* other, then the validations of the stage, which throw.                  *)
(***************************************************************************)
Stages == <<"COLD_ACQUISITION", "POST_OPT_IN", "ALL_GUARDED">>
StageChannels == [COLD_ACQUISITION |-> {"EMAIL", "CONTACT_FORM", "BUSINESS_DM"}, POST_OPT_IN |-> {"WHATSAPP_OPT_IN"},
                  ALL_GUARDED |-> ToSet(Channels)]
PerGroup == 3

Intersections == Len(LabNiches) * Len(Opportunities)
NicheAt(i) == Digit(i, Len(Opportunities), LabNiches)
OpportunityAt(i) == Digit(i, 1, Opportunities)

\* Every variant is evaluated with the evidence it needs; those of a stage's channels count.
ItemsOf(stage, i) ==
  {e \in {Evaluated(v, IF RequiresDiagnosis(v) THEN "VERIFIED" ELSE "NOT_APPLICABLE") :
            v \in {ExtendedCase(NicheAt(i), OpportunityAt(i), ExtendedSize * i + n) : n \in 0 .. ExtendedSize - 1}} :
     e.variant.channel \in StageChannels[stage]}

\* rankEligible: the higher score first, then the identifier
Outranks(a, b) == a.score > b.score \/ (a.score = b.score /\ a.variant.index < b.variant.index)
EligibleOf(items) == {e \in items : e.eligible}
Rank(e, items) == Cardinality({f \in items : Outranks(f, e)})
Top(items, n) ==
  [k \in 1 .. (IF Cardinality(items) < n THEN Cardinality(items) ELSE n) |-> CHOOSE e \in items : Rank(e, items) = k - 1]

\* What the report holds of the i-th intersection, counted from 0
SummaryOf(stage, i) ==
  LET items == ItemsOf(stage, i)
      eligible == EligibleOf(items)
  IN [total |-> Cardinality(items), eligible |-> Cardinality(eligible), blocked |-> Cardinality(items \ eligible),
      top |-> Top(eligible, PerGroup)]

LabInit == lab = [stage |-> 1, done |-> <<>>, error |-> "NONE"]

StageNow == Stages[lab.stage]

SummariseIntersection ==
  /\ lab.error = "NONE" /\ lab.stage <= Len(Stages) /\ Len(lab.done) < Intersections
  /\ lab' = [lab EXCEPT !.done = Append(@, SummaryOf(StageNow, Len(@)))]

\* summarizeCommunicationExperiment: the variants of these intersections are counted in the
\* stage as a whole, and have to agree with what the report holds of each.
StageSummary(cells) ==
  [total    |-> SumFunction([i \in cells |-> Cardinality(ItemsOf(StageNow, i - 1))]),
   eligible |-> SumFunction([i \in cells |-> Cardinality(EligibleOf(ItemsOf(StageNow, i - 1)))])]
Reconciles(cells) ==
  /\ SumFunction([i \in cells |-> lab.done[i].total]) = StageSummary(cells).total
  /\ SumFunction([i \in cells |-> lab.done[i].eligible]) = StageSummary(cells).eligible

Cells == 1 .. Intersections
CellsOfNiche(niche) == {i \in Cells : NicheAt(i - 1) = niche}
CellsOfOpportunity(opportunity) == {i \in Cells : OpportunityAt(i - 1) = opportunity}

\* validateCrossStratification and validateCrossSummaries. (Averages of scores, which are
\* finite, are left out.)
StageError ==
  CASE \E i \in Cells : Len(lab.done[i].top) # PerGroup -> "CROSS_RECOMMENDATIONS_MISSING"
    [] \E i \in Cells : ~IsInjective(lab.done[i].top) -> "CROSS_RECOMMENDATION_DUPLICATE"
    [] \E i \in Cells, k \in 1 .. PerGroup :
          \/ lab.done[i].top[k].variant.niche # NicheAt(i - 1)
          \/ lab.done[i].top[k].variant.opportunity # OpportunityAt(i - 1) -> "CROSS_RECOMMENDATION_MISMATCH"
    [] \E i \in Cells : lab.done[i].total # lab.done[i].eligible + lab.done[i].blocked
          \/ lab.done[i].total = 0 -> "CROSS_SUMMARY_INVALID"
    [] \E n \in ToSet(LabNiches) : ~Reconciles(CellsOfNiche(n)) -> "CROSS_SUMMARY_NICHE_RECONCILIATION_FAILED"
    [] \E o \in ToSet(Opportunities) : ~Reconciles(CellsOfOpportunity(o)) -> "CROSS_SUMMARY_OPPORTUNITY_RECONCILIATION_FAILED"
    [] ~Reconciles(Cells) -> "CROSS_SUMMARY_STAGE_RECONCILIATION_FAILED"
    [] OTHER -> "NONE"

FinishStage ==
  /\ lab.error = "NONE" /\ lab.stage <= Len(Stages) /\ Len(lab.done) = Intersections
  /\ lab' = IF StageError = "NONE" THEN [lab EXCEPT !.stage = @ + 1, !.done = <<>>] ELSE [lab EXCEPT !.error = StageError]

LabNext == SummariseIntersection \/ FinishStage

LabSpec == LabInit /\ [][LabNext]_lab

(***************************************************************************)
(* Properties.                                                             *)
(***************************************************************************)
\* Every stage of the report has three different recommendations for every niche and
\* opportunity although channel, link and opt-out follow the index of the variant and are not
\* crossed with one another; a recommendation uses a channel of its stage, WhatsApp only with
\* an approved authorization, and no eligible variant that is left out outranks it.
RecommendationsAreSound ==
  /\ lab.error = "NONE"
  /\ lab.done # <<>> =>
       LET i == Len(lab.done)
           top == lab.done[i].top
           rest == EligibleOf(ItemsOf(StageNow, i - 1)) \ ToSet(top) IN
       /\ Len(top) = PerGroup /\ IsInjective(top)
       /\ \A k \in 1 .. PerGroup :
            /\ top[k].eligible /\ top[k].variant.channel \in StageChannels[StageNow]
            /\ top[k].variant.optOut # "MISSING" /\ top[k].variant.linkPolicy # "THIRD_PARTY"
            /\ top[k].variant.channel = "WHATSAPP_OPT_IN" => top[k].variant.authorization \in ApprovedWhatsAppAuthorization
            /\ \A e \in rest : Outranks(top[k], e)
  \* Every core case of the intersection is eligible, with a score the tests expect.
  /\ Len(lab.done) < Intersections /\ lab.stage = 1 =>
       LET i == Len(lab.done) IN
       \A n \in 0 .. CoreSize - 1 :
         LET e == Evaluated(CoreCase(NicheAt(i), OpportunityAt(i), CoreSize * i + n), "VERIFIED")
         IN e.eligible /\ e.score \in 35 .. 100
=============================================================================
