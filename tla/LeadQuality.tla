---------------------------- MODULE LeadQuality ----------------------------
(***************************************************************************)
(* The evaluation of a lead before it is prospected: the technical check   *)
(* of its e-mail against a DNS resolver that may be late or fail           *)
(* (prospecting-orchestrator/src/email-qualification.ts), and the decision *)
(* on the lead from its evidence and that check (lead-quality.ts).         *)
(*                                                                         *)
(* An address is the class that inspectEmailSyntax finds it in; evidence   *)
(* that is missing or has another type than expected is "UNKNOWN".         *)
(***************************************************************************)
EXTENDS Integers, Sequences, FiniteSets, FiniteSetsExt, SequencesExt

CONSTANTS
  EmailSignals,   \* safety signals in their order, the first one names the reason
  Evidences       \* evidence that leads come with: the facts that hold, or BadEvidence

VARIABLE check          \* the evaluation of one lead

Syntaxes == {"INVALID_INPUT", "INVALID_SYNTAX", "VALID"}
Existence == {"YES", "NO", "UNKNOWN"}
MxStatuses == {"PRESENT", "ABSENT", "UNKNOWN"}
Provenances == {"CONFIRMED", "NOT_CONFIRMED", "UNKNOWN"}
States == {"VALID", "INVALID", "UNCERTAIN", "BLOCKED"}
ResolverIssues == {"DNS_TIMEOUT", "DNS_RESOLVER_ERROR", "DNS_RESPONSE_MALFORMED", "DNS_RESULT_UNKNOWN"}
InvalidReasons == {"INVALID_SYNTAX", "DOMAIN_NOT_FOUND", "MX_NOT_FOUND"}
Reasons == {"VALIDATED", "INVALID_INPUT", "PUBLIC_BUSINESS_PROVENANCE_UNCERTAIN", "SUPPRESSION_EVIDENCE_UNKNOWN"}
           \cup InvalidReasons \cup ResolverIssues \cup ToSet(EmailSignals)

\* normalizeDomainResolution of what a resolver answers
Resolutions == [domainExists : Existence, mx : MxStatuses, malformed : {FALSE}]
UnknownResolution == [domainExists |-> "UNKNOWN", mx |-> "UNKNOWN", malformed |-> FALSE]
MalformedResolution == [UnknownResolution EXCEPT !.malformed = TRUE]

(***************************************************************************)
(* classifyTechnicalEmail: the first rule that applies.                    *)
(***************************************************************************)
BlockedBy(suppression) == {s \in ToSet(EmailSignals) : suppression[s] = "YES"}
FirstSignal(signals) == EmailSignals[CHOOSE i \in DOMAIN EmailSignals :
                          EmailSignals[i] \in signals /\ \A j \in 1 .. i - 1 : EmailSignals[j] \notin signals]

\* Fault: suppression evidence that is unknown counts as none.
SuppressionKnownOrMissing(suppression) == BlockedBy(suppression) = {}

SuppressionKnown(suppression) == \A s \in ToSet(EmailSignals) : suppression[s] = "NO"

Rules(input, dns, issue) ==
  << [if |-> input.syntax = "INVALID_INPUT", state |-> "UNCERTAIN", reason |-> "INVALID_INPUT"],
     [if |-> input.syntax = "INVALID_SYNTAX", state |-> "INVALID", reason |-> "INVALID_SYNTAX"],
     [if |-> dns.domainExists = "NO", state |-> "INVALID", reason |-> "DOMAIN_NOT_FOUND"],
     [if |-> dns.mx = "ABSENT", state |-> "INVALID", reason |-> "MX_NOT_FOUND"],
     [if |-> issue # "NONE", state |-> "UNCERTAIN", reason |-> issue],
     [if |-> dns.malformed, state |-> "UNCERTAIN", reason |-> "DNS_RESPONSE_MALFORMED"],
     [if |-> "UNKNOWN" \in {dns.domainExists, dns.mx}, state |-> "UNCERTAIN", reason |-> "DNS_RESULT_UNKNOWN"],
     [if |-> ~SuppressionKnown(input.suppression), state |-> "UNCERTAIN", reason |-> "SUPPRESSION_EVIDENCE_UNKNOWN"],
     [if |-> input.provenance # "CONFIRMED", state |-> "UNCERTAIN", reason |-> "PUBLIC_BUSINESS_PROVENANCE_UNCERTAIN"],
     [if |-> TRUE, state |-> "VALID", reason |-> "VALIDATED"] >>

SyntaxOf(input) ==
  CASE input.syntax = "INVALID_INPUT" -> "UNKNOWN" [] input.syntax = "INVALID_SYNTAX" -> "INVALID" [] OTHER -> "VALID"

ClassifyTechnicalEmail(input, dns, issue) ==
  LET blocked == BlockedBy(input.suppression)
      rules == Rules(input, dns, issue)
      first == rules[CHOOSE i \in DOMAIN rules : rules[i].if /\ \A j \in 1 .. i - 1 : ~rules[j].if]
      verdict == IF blocked # {} THEN [state |-> "BLOCKED", reason |-> FirstSignal(blocked)] ELSE first
  IN [state |-> verdict.state, reason |-> verdict.reason, blockedBy |-> blocked, syntax |-> SyntaxOf(input),
      domain |-> input.syntax = "VALID", domainExists |-> dns.domainExists, mx |-> dns.mx,
      provenance |-> input.provenance]

(***************************************************************************)
(* evaluateLeadQualification.                                              *)
(***************************************************************************)
\* normalizeTechnicalEmailResult: a result is taken when it agrees with itself.
Consistent(r) ==
  /\ r.blockedBy # {} <=> r.state = "BLOCKED"
  /\ r.state = "BLOCKED" => r.reason \in r.blockedBy
  /\ r.state = "VALID" => /\ r.syntax = "VALID" /\ r.domainExists = "YES" /\ r.mx = "PRESENT"
                          /\ r.provenance = "CONFIRMED" /\ r.reason = "VALIDATED" /\ r.domain
  /\ r.state = "INVALID" => r.reason \in InvalidReasons
  /\ r.state = "UNCERTAIN" => r.reason \notin {"VALIDATED"} \cup ToSet(EmailSignals)

NoResult == [state |-> "NONE"]

\* technicalEmailBlockingReasons, with the fallback for a result that is not taken
EmailBlocks(r) ==
  CASE r = NoResult            -> {}
    [] r # NoResult /\ ~Consistent(r) -> {"AMBIGUOUS_RESULT"}
    [] r # NoResult /\ Consistent(r)  ->
         CASE r.state = "BLOCKED"   -> r.blockedBy
           [] r.state = "VALID"     -> {}
           [] r.state = "INVALID"   -> {"BUSINESS_EMAIL_NOT_CONFIRMED"}
           [] r.state = "UNCERTAIN" -> {"AMBIGUOUS_RESULT"}

Weight == [apparentActivity |-> 20, noOfficialDomain |-> 25, publicBusinessEmail |-> 25,
           noPreviousContact |-> 15, noSuppressionOrBounce |-> 15]

\* Evidence is the set of the facts that hold, or of an unexpected form.
BadEvidence == {"BAD"}
LeadQualityScore(evidence) == IF evidence = BadEvidence THEN 0 ELSE MapThenSumSet(LAMBDA f : Weight[f], evidence)

\* What the caller blocks for: nothing, a known reason, or one that is not known.
Requested == {{}, {"DUPLICATE_FOUND"}, {"NOT_A_REASON"}}
BlockingReasons(evidence, requested, r) ==
  (requested \cap {"DUPLICATE_FOUND"}) \cup EmailBlocks(r)
    \cup (IF "NOT_A_REASON" \in requested \/ evidence = BadEvidence THEN {"AMBIGUOUS_RESULT"} ELSE {})

LeadEligible(evidence, requested, r) ==
  /\ evidence # BadEvidence /\ LeadQualityScore(evidence) >= 80
  /\ BlockingReasons(evidence, requested, r) = {}

(***************************************************************************)
(* One evaluation.                                                         *)
(***************************************************************************)
NoInput == [syntax |-> "NONE"]

\* An e-mail is to be evaluated, with a resolver or without; or the lead comes with a
\* result from elsewhere, or without any.
QualityInit ==
  \/ \E syntax \in Syntaxes, prov \in Provenances, supp \in [ToSet(EmailSignals) -> {"YES", "NO", "UNKNOWN"}],
        given \in Resolutions \cup {MalformedResolution}, resolver \in {"NONE", "BAD_TIMEOUT", "USED"} :
       check = [step |-> "EMAIL", result |-> NoResult, answered |-> FALSE, resolver |-> resolver, eligible |-> FALSE,
                input |-> [syntax |-> syntax, provenance |-> prov, suppression |-> supp, given |-> given],
                evidence |-> {}, requested |-> {}]
  \/ \E r \in {NoResult} \cup [state : States, reason : Reasons, blockedBy : SUBSET ToSet(EmailSignals), domain : BOOLEAN,
                                syntax : {"VALID", "INVALID"}, domainExists : {"YES", "UNKNOWN"},
                                mx : {"PRESENT", "UNKNOWN"}, provenance : {"CONFIRMED", "UNKNOWN"}] :
       check = [step |-> "LEAD", result |-> r, answered |-> FALSE, resolver |-> "NONE", eligible |-> FALSE,
                input |-> NoInput, evidence |-> {}, requested |-> {}]

Classified(dns, issue, answered) ==
  check' = [check EXCEPT !.step = "LEAD", !.answered = answered,
                         !.result = ClassifyTechnicalEmail(check.input, dns, issue)]

\* evaluateTechnicalEmail before it asks the resolver
EvaluateWithoutResolver ==
  /\ check.step = "EMAIL"
  /\ \/ check.input.syntax # "VALID" /\ Classified(check.input.given, "NONE", FALSE)
     \/ check.input.syntax = "VALID" /\ check.resolver = "NONE" /\ Classified(check.input.given, "DNS_RESULT_UNKNOWN", FALSE)
     \/ check.input.syntax = "VALID" /\ check.resolver = "BAD_TIMEOUT" /\ Classified(check.input.given, "DNS_RESOLVER_ERROR", FALSE)

Resolving == check.step = "EMAIL" /\ check.input.syntax = "VALID" /\ check.resolver = "USED"

\* resolveWithTimeout: the first of the answer, the failure and the timer counts; an
\* answer that comes later is not looked at.
ResolverAnswers(dns) == Resolving /\ Classified(dns, "NONE", TRUE)
ResolverFails == Resolving /\ Classified(UnknownResolution, "DNS_RESOLVER_ERROR", FALSE)
TimerFires == Resolving /\ Classified(UnknownResolution, "DNS_TIMEOUT", FALSE)

EvaluateLead(evidence, requested) ==
  /\ check.step = "LEAD"
  /\ check' = [check EXCEPT !.step = "DONE", !.evidence = evidence, !.requested = requested,
                            !.eligible = LeadEligible(evidence, requested, check.result)]

QualityNext ==
  \/ EvaluateWithoutResolver \/ ResolverFails \/ TimerFires
  \/ \E dns \in Resolutions \cup {MalformedResolution} : ResolverAnswers(dns)
  \/ \E evidence \in Evidences, requested \in Requested : EvaluateLead(evidence, requested)

QualitySpec == QualityInit /\ [][QualityNext]_check

(***************************************************************************)
(* Properties.                                                             *)
(***************************************************************************)
\* An eligible lead has at least 80 points and no blocking reason, and if its e-mail was
\* evaluated, then a resolver found domain and MX before the timeout, every suppression
\* signal is known to be absent and its provenance is confirmed; a result from elsewhere
\* cannot claim less. A suppressed address is BLOCKED whatever DNS says.
EligibleLeadIsVerified ==
  /\ check.eligible =>
       /\ LeadQualityScore(check.evidence) >= 80 /\ check.requested = {}
       /\ check.result # NoResult =>
            /\ check.result.state = "VALID" /\ check.result.blockedBy = {}
            /\ check.result.domainExists = "YES" /\ check.result.mx = "PRESENT"
       /\ check.input # NoInput =>
            /\ check.answered /\ check.input.syntax = "VALID" /\ check.input.provenance = "CONFIRMED"
            /\ \A s \in ToSet(EmailSignals) : check.input.suppression[s] = "NO"
  /\ check.input # NoInput /\ check.step # "EMAIL" =>
       (check.result.state = "BLOCKED" <=> "YES" \in Range(check.input.suppression))
=============================================================================
