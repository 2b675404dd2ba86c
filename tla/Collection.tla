----------------------------- MODULE Collection -----------------------------
(***************************************************************************)
(* Collection jobs: POST /collect enqueues them (apps/api/src/app.ts,      *)
(* database/src/index.ts), workers claim them, ask the Overpass provider   *)
(* with retries (overpass-client), insert the leads without a website and  *)
(* finish the job (worker/src/process-job.ts). Egress is switched by the   *)
(* configuration of each process (collection-egress.ts). A worker stops    *)
(* gracefully (graceful-stop.ts), or at once.                              *)
(*                                                                         *)
(* An element of the provider is a record: its id, the fields it fills and *)
(* whether it is closed; the text of the fields is left out.               *)
(***************************************************************************)
EXTENDS Integers, Sequences, FiniteSets, FiniteSetsExt

CONSTANTS
  CollectWorkers,   \* workers
  CollectJobs,      \* ids of jobs in the order of created_at: 1 .. n
  LegacyJobs,       \* jobs that were pending before the authorisation envelope existed
  OsmElements,      \* elements the provider may answer with: id, fields, closed
  CollectLimit,     \* limit of a request, at most DAILY_LEAD_LIMIT
  MaxOverpassTries, \* OVERPASS_MAX_RETRIES + 1
  MaxWorkerStarts   \* bound on restarts

\* Ids of jobs are positive: 0 is "no job". A collection asks the provider at least once.
ASSUME CollectAssumption ==
  CollectJobs \subseteq Nat \ {0} /\ MaxOverpassTries \in Nat \ {0}

VARIABLES
  jobStatus,        \* collection_jobs.status; "NONE": no row
  storedLeads,      \* leads collected so far
  apiEgress,        \* COLLECTION_EGRESS_ENABLED of the API
  collectors,       \* workers: step, egress, whether they run on, job, tries and leads
  asked,            \* history: requests to the provider, by job
  kept,             \* history: what the provider's answer held for a job
  collectStarts     \* restarts so far

collectVars == <<jobStatus, storedLeads, apiEgress, collectors, asked, kept, collectStarts>>

(***************************************************************************)
(* A lead.                                                                 *)
(***************************************************************************)
\* deriveStatus
LeadStatusOf(e) ==
  CASE e.closed                -> "INVALIDO"
    [] "website" \in e.fields  -> "POSSUI_SITE"
    [] ~e.closed /\ "website" \notin e.fields /\ e.fields \cap {"phone", "whatsapp", "email", "instagram"} # {}
                               -> "SEM_SITE_CADASTRADO"
    [] OTHER                   -> "PROVAVELMENTE_SEM_SITE"

Worth == [whatsapp |-> 30, phone |-> 20, instagram |-> 15, email |-> 15, address |-> 10]
Useful == {"name", "phone", "whatsapp", "email", "instagram", "address"}

\* calculateLeadScore
LeadScore(e) ==
  LET score == MapThenSumSet(LAMBDA f : Worth[f], e.fields \cap DOMAIN Worth)
               + (IF "website" \in e.fields THEN 0 ELSE 10)
               - (IF Cardinality(e.fields \cap Useful) < 2 THEN 30 ELSE 0)
               - (IF e.closed THEN 50 ELSE 0)
  IN IF score < 0 THEN 0 ELSE IF score > 100 THEN 100 ELSE score

LeadOf(e) == [id |-> e.id, fields |-> e.fields, status |-> LeadStatusOf(e), score |-> LeadScore(e)]

StoppedCollector == [step |-> "STOPPED", egress |-> FALSE, runs |-> FALSE, job |-> 0, tries |-> 0, found |-> {}]

CollectInit ==
  /\ jobStatus = [j \in CollectJobs |-> IF j \in LegacyJobs THEN "PENDING" ELSE "NONE"]
  /\ storedLeads = {} /\ apiEgress \in BOOLEAN
  /\ collectors = [w \in CollectWorkers |-> StoppedCollector]
  /\ asked = [j \in CollectJobs |-> 0] /\ kept = [j \in CollectJobs |-> {}]
  /\ collectStarts = 0

\* POST /collect and enqueueCollection, with the authorisation in the payload
EnqueueCollection(j) ==
  /\ apiEgress /\ jobStatus[j] = "NONE" /\ \A i \in CollectJobs : i < j => jobStatus[i] # "NONE"
  /\ jobStatus' = [jobStatus EXCEPT ![j] = "PENDING"]
  /\ UNCHANGED <<storedLeads, apiEgress, collectors, asked, kept, collectStarts>>

(***************************************************************************)
(* The worker.                                                             *)
(***************************************************************************)
\* Fault: a job that was left PROCESSING is taken up again.
ClaimableOrStuck(j) == jobStatus[j] \in {"PENDING", "PROCESSING"} /\ j \notin LegacyJobs

Claimable(j) == jobStatus[j] = "PENDING" /\ j \notin LegacyJobs

CollectorAt(w, step) == collectors[w].step = step

\* createCollectionProcessor and claimCollection: the oldest job that no claim in
\* progress holds.
ClaimCollection(w, j) ==
  /\ CollectorAt(w, "IDLE") /\ collectors[w].runs /\ collectors[w].egress
  /\ Claimable(j)
  /\ jobStatus' = [jobStatus EXCEPT ![j] = "PROCESSING"]
  /\ collectors' = [collectors EXCEPT ![w].step = "FETCH", ![w].job = j, ![w].tries = 0]
  /\ UNCHANGED <<storedLeads, apiEgress, asked, kept, collectStarts>>

\* The leads kept of an answer: the first of those without a website, one per element.
KeptOf(answer) ==
  LET open == {e \in answer : "website" \notin e.fields}
      size == IF Cardinality(open) < CollectLimit THEN Cardinality(open) ELSE CollectLimit
  IN {k \in SUBSET open : Cardinality(k) = size}

OneEach(elements) == \A d, e \in elements : d.id = e.id => d = e

\* OverpassClient.collect: a request and its outcome. An answer that cannot be read, a
\* timeout, 429, 502 and 504 are retried; another status is not.
Asked(w) == asked' = [asked EXCEPT ![collectors[w].job] = @ + 1]

OverpassAnswers(w, found) ==
  /\ CollectorAt(w, "FETCH") /\ Asked(w)
  /\ collectors' = [collectors EXCEPT ![w].step = "INSERT", ![w].found = found]
  /\ kept' = [kept EXCEPT ![collectors[w].job] = found]
  /\ UNCHANGED <<jobStatus, storedLeads, apiEgress, collectStarts>>

OverpassFails(w, retryable) ==
  /\ CollectorAt(w, "FETCH") /\ Asked(w)
  /\ collectors' = [collectors EXCEPT ![w].tries = @ + 1,
                      ![w].step = IF retryable /\ collectors[w].tries + 1 < MaxOverpassTries THEN "FETCH" ELSE "FAIL"]
  /\ UNCHANGED <<jobStatus, storedLeads, apiEgress, kept, collectStarts>>

\* insertLeads: ON CONFLICT DO NOTHING on the OSM element.
NewLeads(elements) == {LeadOf(e) : e \in {d \in elements : \A l \in storedLeads : l.id # d.id}}

InsertLeads(w) ==
  /\ CollectorAt(w, "INSERT")
  /\ storedLeads' = storedLeads \cup NewLeads(collectors[w].found)
  /\ collectors' = [collectors EXCEPT ![w].step = "FINISH"]
  /\ UNCHANGED <<jobStatus, apiEgress, asked, kept, collectStarts>>

\* The payload does not parse, before the first request; or the insert or the completion
\* of the job fails.
JobFails(w) ==
  /\ \/ CollectorAt(w, "FETCH") /\ collectors[w].tries = 0
     \/ CollectorAt(w, "INSERT") \/ CollectorAt(w, "FINISH")
  /\ collectors' = [collectors EXCEPT ![w].step = "FAIL"]
  /\ UNCHANGED <<jobStatus, storedLeads, apiEgress, asked, kept, collectStarts>>

\* finishCollection, whoever has the job. (It takes an error without a message for success;
\* the errors of the parser, the client and the database have one.)
FinishCollection(w) ==
  /\ CollectorAt(w, "FINISH") \/ CollectorAt(w, "FAIL")
  /\ jobStatus' = [jobStatus EXCEPT ![collectors[w].job] = IF CollectorAt(w, "FINISH") THEN "COMPLETED" ELSE "FAILED"]
  /\ collectors' = [collectors EXCEPT ![w].step = "IDLE", ![w].job = 0, ![w].tries = 0, ![w].found = {}]
  /\ UNCHANGED <<storedLeads, apiEgress, asked, kept, collectStarts>>

\* createGracefulStop: the loop ends after the job at hand.
RequestStop(w) ==
  /\ collectors[w].runs
  /\ collectors' = [collectors EXCEPT ![w].runs = FALSE]
  /\ UNCHANGED <<jobStatus, storedLeads, apiEgress, asked, kept, collectStarts>>

\* The loop ends; or the process stops at once, as it does when a failure cannot be
\* recorded.
WorkerEnds(w) ==
  /\ ~CollectorAt(w, "STOPPED")
  /\ collectors' = [collectors EXCEPT ![w] = StoppedCollector]
  /\ UNCHANGED <<jobStatus, storedLeads, apiEgress, asked, kept, collectStarts>>

WorkerStarts(w, egress) ==
  /\ CollectorAt(w, "STOPPED") /\ collectStarts < MaxWorkerStarts
  /\ collectStarts' = collectStarts + 1
  /\ collectors' = [collectors EXCEPT ![w] = [StoppedCollector EXCEPT !.step = "IDLE", !.egress = egress, !.runs = TRUE]]
  /\ UNCHANGED <<jobStatus, storedLeads, apiEgress, asked, kept>>

ApiRestarts(egress) ==
  /\ collectStarts < MaxWorkerStarts /\ collectStarts' = collectStarts + 1
  /\ apiEgress' = egress
  /\ UNCHANGED <<jobStatus, storedLeads, collectors, asked, kept>>

CollectNext ==
  \/ \E j \in CollectJobs : EnqueueCollection(j)
  \/ \E egress \in BOOLEAN : ApiRestarts(egress)
  \/ \E w \in CollectWorkers :
       \/ \E j \in CollectJobs : ClaimCollection(w, j)
       \/ \E answer \in {a \in SUBSET OsmElements : OneEach(a)} : \E found \in KeptOf(answer) : OverpassAnswers(w, found)
       \/ \E retryable \in BOOLEAN : OverpassFails(w, retryable)
       \/ InsertLeads(w) \/ JobFails(w) \/ FinishCollection(w)
       \/ RequestStop(w) \/ WorkerEnds(w)
       \/ \E egress \in BOOLEAN : WorkerStarts(w, egress)

CollectSpec == CollectInit /\ [][CollectNext]_collectVars

(***************************************************************************)
(* Properties.                                                             *)
(***************************************************************************)
\* However workers stop, restart and change their egress, a job asks the provider at most
\* as often as one collection may, legacy jobs never do, a completed job stored every lead
\* it kept, and no element is stored twice, replaced, or stored with a website.
JobCollectedOnce ==
  /\ \A j \in CollectJobs :
       /\ asked[j] <= MaxOverpassTries
       /\ asked[j] > 0 => jobStatus[j] \in {"PROCESSING", "COMPLETED", "FAILED"} /\ j \notin LegacyJobs
       /\ jobStatus[j] = "COMPLETED" => \A e \in kept[j] : \E l \in storedLeads : l.id = e.id
  /\ \A w, v \in CollectWorkers : collectors[w].job = collectors[v].job /\ w # v => collectors[w].job = 0
  /\ \A l, m \in storedLeads : l.id = m.id => l = m
  /\ \A l \in storedLeads : l.status # "POSSUI_SITE" /\ \E j \in CollectJobs : \E e \in kept[j] : l = LeadOf(e)
=============================================================================
