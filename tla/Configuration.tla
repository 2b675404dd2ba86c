--------------------------- MODULE Configuration ---------------------------
(***************************************************************************)
(* What the environment lets the two processes do (shared/src/config.ts,   *)
(* apps/api/src/index.ts, apps/worker/src/index.ts), and the scripts that  *)
(* freeze the homologation and judge whether a pilot may start             *)
(* (scripts/pilot-homologation-*.sh, scripts/pilot-real-preflight.ts,      *)
(* shared/src/pilot-real-preflight.ts).                                    *)
(*                                                                         *)
(* A process keeps the environment its container was created with; Docker  *)
(* restarts a container that ended on its own, and none that was stopped.  *)
(* The containers of the homologation are a compose project of their own.  *)
(***************************************************************************)
EXTENDS FiniteSets

CONSTANTS
  Environments    \* contents of the environment file, the kill switch apart

VARIABLES
  envFile,        \* the file: what is set, and the kill switch
  process,        \* api and worker: step and environment of the container
  freeze,         \* the script that runs and the processes it has stopped
  evidence,       \* the drills whose evidence file says PASS; one that is missing does not
  drilled,        \* history: the drills that reached what they are for
  switch,         \* history: whether a freeze ended since the switch was last cleared
  report          \* the last preflight decision

confVars == <<envFile, process, freeze, evidence, drilled, switch, report>>

Processes == {"api", "worker"}
Drills == {"KILL_SWITCH", "ROLLBACK", "BACKUP_RESTORE"}

\* What an environment sets: the values the code tells apart.
Settings == {"NOT_DRY_RUN", "REAL_SEND", "REAL_PROVIDERS", "EGRESS", "OVERPASS_URL", "SHADOW", "CRON_SECRET", "API_BATCH",
             "INVERTED_WINDOW", "INVERTED_RETRY", "HOMOLOGATION", "PROVIDER_CONFIGURED", "EXTERNAL_SURFACE",
             "PILOT_PERMISSIONS"}
Profiles == {"oracle-vps", "supabase-render"}
\* Operator test: disabled, disabled with secrets, some secret missing, a key used twice, or complete
OperatorTests == {"OFF", "OFF_WITH_SECRETS", "INCOMPLETE", "SHARED_KEY", "COMPLETE"}

ASSUME EnvironmentsAssumption ==
  Environments \subseteq [on : SUBSET Settings, profile : Profiles, operator : OperatorTests]

With(e, kill) == [on |-> e.on, profile |-> e.profile, operator |-> e.operator, kill |-> kill]
Real(e) == e.on \cap {"NOT_DRY_RUN", "REAL_SEND", "REAL_PROVIDERS"} # {}
EndpointGiven(e) == "EGRESS" \in e.on => "OVERPASS_URL" \in e.on

\* parseApiConfig
ApiConfigured(e) ==
  /\ EndpointGiven(e) /\ e.operator \in {"OFF", "COMPLETE"}
  /\ e.profile = "supabase-render" =>
       ~Real(e) /\ "EGRESS" \notin e.on /\ "SHADOW" \in e.on /\ "CRON_SECRET" \in e.on

\* parseWorkerConfig
WorkerConfigured(e) ==
  /\ EndpointGiven(e) /\ e.profile # "supabase-render" /\ ~Real(e)
  /\ e.on \cap {"INVERTED_WINDOW", "INVERTED_RETRY"} = {}

\* What reaches the outside: EXTERNAL_SURFACE is any flag of it but the two named here.
Outside == {"EGRESS", "PROVIDER_CONFIGURED", "EXTERNAL_SURFACE"}

\* The overlay of the homologation fixes shadow mode and what reaches the outside.
ContainerOf(e) ==
  IF "HOMOLOGATION" \in e.on THEN [e EXCEPT !.on = (@ \cup {"SHADOW"}) \ Outside] ELSE e

\* Fault: an API starts although the switch is engaged.
StepAtStartAnyway(p, e) ==
  CASE p = "api" -> IF ApiConfigured(e) THEN "SERVING" ELSE "DOWN"
    [] p = "worker" -> IF WorkerConfigured(e) THEN "LOOP" ELSE "DOWN"

\* Startup: an API that is not configured or finds the switch engaged exits; a worker
\* that is configured runs.
StepAtStart(p, e) ==
  CASE p = "api" -> IF ApiConfigured(e) /\ ~e.kill THEN "SERVING" ELSE "DOWN"
    [] p = "worker" -> IF WorkerConfigured(e) THEN "LOOP" ELSE "DOWN"

NoFreeze == [name |-> "NONE", stopped |-> {}]

ConfigurationInit ==
  /\ \E e \in Environments, kill \in BOOLEAN :
       /\ envFile = With(e, kill)
       /\ process = [p \in Processes |-> [step |-> "DOWN", env |-> With(e, kill)]]
  /\ freeze = NoFreeze /\ evidence = {}
  /\ drilled = {} /\ switch = "RELEASED" /\ report = "NOT_READY"

(***************************************************************************)
(* The processes.                                                          *)
(***************************************************************************)
In(p, step) == process[p].step = step
Goes(p, step) == process' = [process EXCEPT ![p].step = step]
Env(p) == process[p].env
OfHomologation(p) == "HOMOLOGATION" \in Env(p).on
Works(p) == process[p].step \in {"SERVING", "COLLECT", "BATCH"}
RestUnchanged == UNCHANGED <<envFile, freeze, evidence, drilled, switch, report>>

\* docker compose up -d: the container is created from the file, once that of the other
\* project, which has its ports, is down.
Up(p) ==
  LET e == ContainerOf(envFile) IN
  /\ In(p, "DOWN") \/ (OfHomologation(p) <=> "HOMOLOGATION" \in e.on)
  /\ process' = [process EXCEPT ![p] = [step |-> StepAtStart(p, e), env |-> e]]
  /\ RestUnchanged

\* docker compose stop
Down(p) == Goes(p, "DOWN") /\ RestUnchanged

\* A process that ends on its own is restarted with the environment of its container.
Restarted(p) == ~In(p, "DOWN") /\ Goes(p, StepAtStart(p, Env(p))) /\ RestUnchanged

\* POST /internal/jobs/process-lead-batch
ApiBatch ==
  /\ RestUnchanged
  /\ \/ In("api", "SERVING") /\ {"API_BATCH", "CRON_SECRET"} \subseteq Env("api").on /\ Goes("api", "BATCH")
     \/ In("api", "BATCH") /\ Goes("api", "SERVING")

MayCollect(e) == "EGRESS" \in e.on /\ ~e.kill
MayBatch(e) == ~e.kill /\ "SHADOW" \notin e.on

\* One turn of the worker's loop: collect, process a batch, wait.
WorkerLoop ==
  /\ RestUnchanged
  /\ \/ In("worker", "LOOP") /\ Goes("worker", IF MayCollect(Env("worker")) THEN "COLLECT" ELSE "COLLECTED")
     \/ In("worker", "COLLECT") /\ Goes("worker", "COLLECTED")
     \/ In("worker", "COLLECTED") /\ Goes("worker", IF MayBatch(Env("worker")) THEN "BATCH" ELSE "LOOP")
     \/ In("worker", "BATCH") /\ Goes("worker", "LOOP")

(***************************************************************************)
(* The environment file and the scripts, one at a time.                    *)
(***************************************************************************)
\* An operator edits the file, the switch too, which nobody clears while a script runs.
Reconfigure ==
  /\ \E e \in Environments, kill \in BOOLEAN :
       /\ envFile.kill /\ ~kill => freeze = NoFreeze
       /\ envFile' = With(e, kill)
       /\ switch' = IF kill THEN switch ELSE "RELEASED"
  /\ UNCHANGED <<process, freeze, evidence, drilled, report>>

\* pilot_require_homologation
Homologation(e) == {"HOMOLOGATION", "SHADOW"} \subseteq e.on /\ e.on \cap {"EGRESS", "PROVIDER_CONFIGURED"} = {}
Idle == freeze = NoFreeze /\ Homologation(envFile)

\* engage and rollback --prepare engage the switch, stop both processes and leave evidence.
BeginFreeze(drill) ==
  /\ Idle /\ drill \in {"KILL_SWITCH", "ROLLBACK"}
  /\ envFile' = [envFile EXCEPT !.kill = TRUE]
  /\ freeze' = [name |-> drill, stopped |-> {}]
  /\ UNCHANGED <<process, evidence, drilled, switch, report>>

\* pilot_compose stop reaches the containers of its own project only.
StopProcess(p) ==
  /\ freeze # NoFreeze /\ p \notin freeze.stopped
  /\ IF OfHomologation(p) THEN Goes(p, "DOWN") ELSE UNCHANGED process
  /\ freeze' = [freeze EXCEPT !.stopped = @ \cup {p}]
  /\ UNCHANGED <<envFile, evidence, drilled, switch, report>>

Leaves(drill, status) ==
  evidence' = IF status = "PASS" THEN evidence \cup {drill} ELSE evidence \ {drill}

\* What a freeze is for: the switch is in the file and no process of the homologation works.
Halts == envFile.kill /\ \A p \in Processes : OfHomologation(p) => ~Works(p)

FinishFreeze ==
  /\ freeze # NoFreeze /\ freeze.stopped = Processes
  /\ Leaves(freeze.name, "PASS") /\ freeze' = NoFreeze /\ switch' = "ENGAGED"
  /\ drilled' = IF Halts THEN drilled \cup {freeze.name} ELSE drilled
  /\ UNCHANGED <<envFile, process, report>>

\* A step fails: the trap leaves a failure.
FailFreeze ==
  /\ freeze # NoFreeze
  /\ Leaves(freeze.name, "FAIL") /\ freeze' = NoFreeze
  /\ UNCHANGED <<envFile, process, drilled, switch, report>>

\* release starts nothing.
ReleaseSwitch ==
  /\ Idle /\ envFile' = [envFile EXCEPT !.kill = FALSE] /\ switch' = "RELEASED"
  /\ UNCHANGED <<process, freeze, evidence, drilled, report>>

BackupRestoreDrill ==
  /\ Idle
  /\ \E status \in {"PASS", "FAIL"} :
       /\ Leaves("BACKUP_RESTORE", status)
       /\ drilled' = IF status = "PASS" THEN drilled \cup {"BACKUP_RESTORE"} ELSE drilled
  /\ UNCHANGED <<envFile, process, freeze, switch, report>>

(***************************************************************************)
(* The preflight.                                                          *)
(***************************************************************************)
\* What the preflight reads elsewhere: the templates, the restore-suppression runs, the
\* log report, the synthetic batch, the approval of the message.
Elsewhere == {"SHADOW_ISOLATION", "RESTORE_SUPPRESSION", "LOG_PRIVACY", "SYNTHETIC_BATCH_20", "MANUAL_MESSAGE_APPROVED"}

\* validatePilotHomologationEnvironment, validateExternalSurface, validatePilotPermissions
HomologationEnvironment(e) == {"HOMOLOGATION", "SHADOW"} \subseteq e.on
ExternalSurfaceDisabled(e) == e.on \cap Outside = {}
MinimumPermissions(e) == "PILOT_PERMISSIONS" \in e.on

PilotReady(passed) ==
  /\ HomologationEnvironment(envFile) /\ ExternalSurfaceDisabled(envFile) /\ MinimumPermissions(envFile)
  /\ evidence = Drills
  /\ passed = Elsewhere

Preflight ==
  /\ \E passed \in {{}, Elsewhere} : report' = IF PilotReady(passed) THEN "READY" ELSE "NOT_READY"
  /\ UNCHANGED <<envFile, process, freeze, evidence, drilled, switch>>

ConfigurationNext ==
  \/ \E p \in Processes : Up(p) \/ Down(p) \/ Restarted(p) \/ StopProcess(p)
  \/ ApiBatch \/ WorkerLoop \/ Reconfigure
  \/ \E drill \in Drills : BeginFreeze(drill)
  \/ FinishFreeze \/ FailFreeze \/ ReleaseSwitch \/ BackupRestoreDrill \/ Preflight

ConfigurationSpec == ConfigurationInit /\ [][ConfigurationNext]_confVars

ConfigurationTypeOK ==
  /\ envFile \in [on : SUBSET Settings, profile : Profiles, operator : OperatorTests, kill : BOOLEAN]
  /\ process \in [Processes -> [step : {"DOWN", "SERVING", "LOOP", "COLLECT", "COLLECTED", "BATCH"},
                    env : [on : SUBSET Settings, profile : Profiles, operator : OperatorTests, kill : BOOLEAN]]]
  /\ freeze \in [name : {"NONE"} \cup Drills, stopped : SUBSET Processes]
  /\ evidence \subseteq Drills /\ drilled \subseteq Drills
  /\ switch \in {"RELEASED", "ENGAGED"} /\ report \in {"READY", "NOT_READY"}

(***************************************************************************)
(* Properties.                                                             *)
(***************************************************************************)
\* After the switch was engaged and until it is released, by its script or by hand, no API
\* of the homologation serves and no worker of it collects or processes, whatever is
\* restarted, created again or edited in between.
KillSwitchHolds == switch = "ENGAGED" => Halts

\* A process works only as the environment it was created with allows: a worker processes
\* no batch in shadow mode or with real sends, and collects only from a given endpoint;
\* an API on supabase-render has neither egress nor real sends.
WorkIsConfigured ==
  /\ In("worker", "BATCH") => ~Real(Env("worker")) /\ "SHADOW" \notin Env("worker").on /\ ~Env("worker").kill
  /\ In("worker", "COLLECT") => {"EGRESS", "OVERPASS_URL"} \subseteq Env("worker").on /\ ~Env("worker").kill
  /\ ~In("api", "DOWN") /\ Env("api").profile = "supabase-render" => ~Real(Env("api")) /\ "EGRESS" \notin Env("api").on

\* A pilot is judged ready only after the drills reached what they are for: twice, when the
\* evidence was written, the switch was in the file and nothing of the homologation worked.
ReadyAfterDrills == report = "READY" => drilled = Drills

\* The three together: what the operator of a pilot relies on.
PilotUnderControl == KillSwitchHolds /\ WorkIsConfigured /\ ReadyAfterDrills
=============================================================================
