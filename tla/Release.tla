------------------------------ MODULE Release ------------------------------
(***************************************************************************)
(* What an operator does to the database of a running deployment: deploy   *)
(* (scripts/deploy-production.sh), migrate (scripts/migrate.ts with its    *)
(* two registries) and restore a backup (scripts/restore-postgres.sh with  *)
(* scripts/restore-suppression). One script runs at a time, step by step;  *)
(* any step may fail, and the migration runner may also be started by hand *)
(* next to a script. The database is one record, so that a backup is a     *)
(* copy of it: its schema with the registries, and one lead with its       *)
(* suppressions and its pending jobs.                                      *)
(***************************************************************************)
EXTENDS Naturals, Sequences, FiniteSets, SequencesExt

CONSTANTS
  SuppressionTypes, \* ways to be suppressed, of SuppressionKinds
  Migrations,       \* the migration files in order
  Validated,        \* migrations with a parity validator (0019 and 0020)
  Fate,             \* what the restore of a backup without them does to a migration's objects
  FirstRelease,     \* migrations the running release has; the next release has all
  MaxOperations     \* bound on the scripts an operator starts

\* The files of a release are the first ones of the next.
ASSUME ReleaseAssumption ==
  /\ Migrations \in Seq(ToSet(Migrations)) /\ FirstRelease \in 0 .. Len(Migrations) /\ Validated \subseteq ToSet(Migrations)
  /\ Fate \in [ToSet(Migrations) -> {"REPLACED", "KEPT", "CONFLICTS"}]

VARIABLES
  db,               \* effects, local, imported, facts, jobs, lead, evidence; see DbInit
  dump,             \* the last backup: a copy of db, or NoDump
  manifest,         \* suppressions the restore exported
  checkedOut,       \* the release in the working tree
  running,          \* the release that the api and the worker run; 0 when stopped
  script,           \* the running script, its step and the release it started from
  runners,          \* migration runners: next file and the registries they loaded
  known,            \* history: suppressions that were ever acknowledged
  failedRestore,    \* history: a restore stopped half way
  leftBehind,       \* history: restores that left a migration's objects, but not its row
  operations        \* scripts started so far

releaseVars == <<db, dump, manifest, checkedOut, running, script, runners, known, failedRestore, leftBehind, operations>>

SuppressionKinds == {"IS_BLOCKED", "DO_NOT_CONTACT", "CRM_NAO_CONTATAR", "OPT_OUT_GLOBAL", "OPT_OUT_CHANNEL"}

\* suppressionChannel: only an opt-out of a channel (here EMAIL) is about one channel.
ChannelsOf(type) == IF type = "OPT_OUT_CHANNEL" THEN {"EMAIL"} ELSE {"EMAIL", "WHATSAPP"}

Files(release) == IF release = 1 THEN FirstRelease ELSE Len(Migrations)
FilesOf(release) == {Migrations[i] : i \in 1 .. Files(release)}

NoDump == [lead |-> FALSE]
NoScript == [name |-> "NONE", step |-> "NONE", from |-> 0]
Both(release) == [api |-> release, worker |-> release]
NotRunning == [next |-> 0, local |-> {}, imported |-> {}]

\* A database of the first release. One validated migration may have come in through
\* Supabase, with its objects or without them.
DbInit ==
  \E imported \in {{}} \cup {{m} : m \in Validated}, complete \in BOOLEAN :
    db = [effects |-> [m \in ToSet(Migrations) |->
                         IF m \in FilesOf(1) \/ (m \in imported /\ complete) THEN 1 ELSE 0],
          local |-> FilesOf(1), imported |-> imported,
          lead |-> TRUE, facts |-> {}, jobs |-> {"EMAIL", "WHATSAPP"}, evidence |-> "NONE"]

ReleaseInit ==
  /\ DbInit
  /\ dump = NoDump /\ manifest = {} /\ checkedOut = 1 /\ running = Both(1)
  /\ script = NoScript /\ runners = [r \in {"script", "manual"} |-> NotRunning]
  /\ known = {} /\ failedRestore = FALSE /\ operations = 0
  /\ leftBehind = [m \in ToSet(Migrations) |-> 0]

(***************************************************************************)
(* The running services.                                                   *)
(***************************************************************************)
\* A suppression is acknowledged; the evidence of a reconciliation goes stale.
Suppress(type) ==
  /\ running.api # 0 /\ db.lead /\ type \in SuppressionKinds \ db.facts
  /\ db' = [db EXCEPT !.facts = @ \cup {type}, !.evidence = "NONE"]
  /\ known' = known \cup {type}
  /\ UNCHANGED <<dump, manifest, checkedOut, running, script, runners, failedRestore, leftBehind, operations>>

(***************************************************************************)
(* migrate.ts.                                                             *)
(***************************************************************************)
\* loadMigrationRegistry: the runner keeps what it read for the whole run.
StartedRunner == [next |-> 1, local |-> db.local, imported |-> db.imported]

\* getMigrationSource, over the registries the runner loaded
Source(r, m) ==
  CASE m \in r.local /\ m \in r.imported -> "BOTH"
    [] m \in r.local                     -> "LOCAL"
    [] m \in r.imported                  -> "SUPABASE"
    [] OTHER                             -> "PENDING"

\* assertManualMessagingObjects, assertManualMessagingAcl: the catalog has the tables,
\* triggers, keys and privileges the migration makes.
ObjectsPresent(m) == db.effects[m] > 0

\* assertImportedMigrationParity
Parity(source, m) ==
  \/ source = "LOCAL"
  \/ IF m \in Validated THEN ObjectsPresent(m) ELSE source # "SUPABASE"

\* Fault: the row is inserted with ON CONFLICT DO NOTHING.
MigratedAgain(m) == db' = [db EXCEPT !.effects[m] = @ + 1, !.local = @ \cup {m}]

\* The transaction of a migration: its statements and its row of schema_migrations,
\* whose primary key refuses a second one.
Migrated(m) ==
  /\ m \notin db.local
  /\ db' = [db EXCEPT !.effects[m] = @ + 1, !.local = @ \cup {m}]

RunMigration(r) ==
  LET m == Migrations[runners[r].next]
      source == Source(runners[r], m)
  IN /\ runners[r].next \in 1 .. Files(checkedOut)
     /\ \/ /\ source = "PENDING" /\ Migrated(m)
           /\ runners' = [runners EXCEPT ![r].next = @ + 1, ![r].local = @ \cup {m}]
        \/ /\ source # "PENDING" /\ Parity(source, m)
           /\ runners' = [runners EXCEPT ![r].next = @ + 1]
           /\ UNCHANGED db
     /\ UNCHANGED <<dump, manifest, checkedOut, running, script, known, failedRestore, leftBehind, operations>>

MigrationsDone(r) == runners[r].next > Files(checkedOut)

StartManualRunner ==
  /\ runners["manual"] = NotRunning /\ operations < MaxOperations
  /\ operations' = operations + 1
  /\ runners' = [runners EXCEPT !["manual"] = StartedRunner]
  /\ UNCHANGED <<db, dump, manifest, checkedOut, running, script, known, failedRestore, leftBehind>>

\* It finished, or it failed or was stopped where it was.
EndManualRunner ==
  /\ runners["manual"] # NotRunning
  /\ runners' = [runners EXCEPT !["manual"] = NotRunning]
  /\ UNCHANGED <<db, dump, manifest, checkedOut, running, script, known, failedRestore, leftBehind, operations>>

(***************************************************************************)
(* The scripts. At(name, step) is the step that comes next.                *)
(***************************************************************************)
At(name, step) == script.name = name /\ script.step = step
Go(step) == script' = [script EXCEPT !.step = step]
Ends == script' = NoScript

Starts(name, step) ==
  /\ script = NoScript /\ operations < MaxOperations
  /\ operations' = operations + 1
  /\ script' = [name |-> name, step |-> step, from |-> checkedOut]

\* deploy: the backup before the deployment; the working tree and the images; the
\* database; the worker stops, the API does not, and the migrations start.
DeployBacksUp ==
  /\ Starts("deploy", "STOP")
  /\ dump' = db
  /\ UNCHANGED <<db, manifest, checkedOut, running, runners, known, failedRestore, leftBehind>>

DeployStopsWorker ==
  /\ At("deploy", "STOP")
  /\ checkedOut' = 2 /\ running' = [running EXCEPT !.worker = 0]
  /\ runners' = [runners EXCEPT !["script"] = StartedRunner]
  /\ Go("MIGRATE")
  /\ UNCHANGED <<db, dump, manifest, known, failedRestore, leftBehind, operations>>

\* compose up and /health/ready, which asks for the expected migration
DeployStartsServices ==
  /\ At("deploy", "MIGRATE") /\ MigrationsDone("script")
  /\ running' = Both(checkedOut)
  /\ runners' = [runners EXCEPT !["script"] = NotRunning]
  /\ Ends
  /\ UNCHANGED <<db, dump, manifest, checkedOut, known, failedRestore, leftBehind, operations>>

\* rollback: the code goes back and the services go up, the schema stays.
DeployRollsBack ==
  /\ At("deploy", "MIGRATE")
  /\ checkedOut' = script.from /\ running' = Both(script.from)
  /\ runners' = [runners EXCEPT !["script"] = NotRunning]
  /\ Ends
  /\ UNCHANGED <<db, dump, manifest, known, failedRestore, leftBehind, operations>>

\* restore: the services stop, and the suppressions of the live database are exported.
RestoreStops ==
  /\ Starts("restore", "EXPORT") /\ dump # NoDump
  /\ running' = Both(0)
  /\ UNCHANGED <<db, dump, manifest, checkedOut, runners, known, failedRestore, leftBehind>>

\* Fault: the export forgets the opt-outs that name no channel.
RestoreExportsButGlobal ==
  /\ At("restore", "EXPORT")
  /\ manifest' = db.facts \ {"OPT_OUT_GLOBAL"}
  /\ Go("RESTORE")
  /\ UNCHANGED <<db, dump, checkedOut, running, runners, known, failedRestore, leftBehind, operations>>

RestoreExports ==
  /\ At("restore", "EXPORT")
  /\ manifest' = db.facts
  /\ Go("RESTORE")
  /\ UNCHANGED <<db, dump, checkedOut, running, runners, known, failedRestore, leftBehind, operations>>

\* Migrations made since the backup
Newer == {m \in ToSet(Migrations) : db.effects[m] > 0 /\ dump.effects[m] = 0}

\* Objects that a restore leaves and that no registry knows of will be migrated again.
CountsLeft ==
  leftBehind' = [m \in ToSet(Migrations) |->
                   leftBehind[m] + IF db'.effects[m] > 0 /\ m \notin db'.local \cup db'.imported THEN 1 ELSE 0]

\* pg_restore --clean drops and makes again what the dump lists: columns and triggers that
\* later migrations gave to dumped tables go, tables of their own stay, and one that refers
\* to a dumped table stands in the way of its DROP. The registries go back in any case.
\* Then the migrations of the working tree. A lead collected after the backup is gone.
RestoreReplaces(leadInBackup) ==
  /\ At("restore", "RESTORE")
  /\ \A m \in Newer : Fate[m] # "CONFLICTS"
  /\ db' = [dump EXCEPT !.lead = leadInBackup, !.facts = IF leadInBackup THEN @ ELSE {},
                        !.effects = [m \in ToSet(Migrations) |->
                                       IF m \in Newer /\ Fate[m] = "KEPT" THEN db.effects[m] ELSE @[m]]]
  /\ CountsLeft
  /\ runners' = [runners EXCEPT !["script"] = [next |-> 1, local |-> dump.local, imported |-> dump.imported]]
  /\ Go("MIGRATE")
  /\ UNCHANGED <<dump, manifest, checkedOut, running, known, failedRestore, operations>>

\* pg_restore ends with an error, or is interrupted: of every migration the old objects, those
\* of the backup or none are there, and its registry is the backup's, or not made yet.
RestoreTears ==
  /\ At("restore", "RESTORE")
  /\ \E torn \in [ToSet(Migrations) -> {"OLD", "RESTORED", "DROPPED"}],
       local \in {dump.local, {}}, data \in {db, dump} :
       db' = [data EXCEPT !.local = local,
                          !.effects = [m \in ToSet(Migrations) |->
                                         CASE torn[m] = "OLD"      -> db.effects[m]
                                           [] torn[m] = "RESTORED" -> dump.effects[m]
                                           [] torn[m] = "DROPPED"  -> 0]]
  /\ CountsLeft
  /\ failedRestore' = TRUE
  /\ Ends
  /\ UNCHANGED <<dump, manifest, checkedOut, running, runners, known, operations>>

RestoreMigrated ==
  /\ At("restore", "MIGRATE") /\ MigrationsDone("script")
  /\ runners' = [runners EXCEPT !["script"] = NotRunning]
  /\ Go("APPLY")
  /\ UNCHANGED <<db, dump, manifest, checkedOut, running, known, failedRestore, leftBehind, operations>>

Affected(types) == UNION {ChannelsOf(t) : t \in types}

\* reconcile: every entry must find its lead. Suppressions are added, never removed, and
\* what waits for the lead on an affected channel is blocked.
Reconciled ==
  /\ manifest # {} => db.lead
  /\ db' = [db EXCEPT !.facts = @ \cup manifest, !.jobs = @ \ Affected(manifest), !.evidence = "APPLIED"]

RestoreApplies ==
  /\ At("restore", "APPLY")
  /\ Reconciled
  /\ Go("VERIFY")
  /\ UNCHANGED <<dump, manifest, checkedOut, running, runners, known, failedRestore, leftBehind, operations>>

\* verifyReconciliation
RestoreVerifies ==
  /\ At("restore", "VERIFY")
  /\ db.evidence = "APPLIED"
  /\ manifest \subseteq db.facts /\ db.jobs \cap Affected(manifest) = {}
  /\ db' = [db EXCEPT !.evidence = "VERIFIED"]
  /\ Go("PREFLIGHT")
  /\ UNCHANGED <<dump, manifest, checkedOut, running, runners, known, failedRestore, leftBehind, operations>>

\* pilot:real:preflight --restore-suppression-only: a verified reconciliation, and no
\* suppression after it
RestoreSuppressionSafe == db.evidence = "VERIFIED"

\* The services, if RESTORE_RESUME_SERVICES says so
RestoreResumes ==
  /\ At("restore", "PREFLIGHT") /\ RestoreSuppressionSafe
  /\ running' \in {running, Both(checkedOut)}
  /\ Ends
  /\ UNCHANGED <<db, dump, manifest, checkedOut, runners, known, failedRestore, leftBehind, operations>>

\* A step fails and leaves the database as it was: the script ends and the services stay
\* stopped.
RestoreFails ==
  /\ script.name = "restore"
  /\ failedRestore' = TRUE
  /\ runners' = [runners EXCEPT !["script"] = NotRunning]
  /\ Ends
  /\ UNCHANGED <<db, dump, manifest, checkedOut, running, known, leftBehind, operations>>

ReleaseNext ==
  \/ \E type \in SuppressionTypes : Suppress(type)
  \/ \E r \in {"script", "manual"} : RunMigration(r)
  \/ StartManualRunner \/ EndManualRunner
  \/ DeployBacksUp \/ DeployStopsWorker \/ DeployStartsServices \/ DeployRollsBack
  \/ RestoreStops \/ RestoreExports \/ RestoreMigrated \/ RestoreApplies
  \/ \E leadInBackup \in BOOLEAN : RestoreReplaces(leadInBackup)
  \/ RestoreTears \/ RestoreVerifies \/ RestoreResumes \/ RestoreFails

ReleaseSpec == ReleaseInit /\ [][ReleaseNext]_releaseVars

(***************************************************************************)
(* Properties.                                                             *)
(***************************************************************************)
\* The services run on the schema of their release, every migration of it registered and
\* its objects there, and no migration is committed twice, but for once more after each
\* restore that left its objects without its registration, whatever runners race,
\* deployments fail and roll back, and older backups are restored. (Only after a restore
\* that stopped half way can a release start on a schema that lacks something.)
ReleaseRunsOnItsSchema ==
  /\ ~failedRestore =>
       /\ \A r \in {running.api, running.worker} \ {0}, m \in ToSet(Migrations) :
            m \in FilesOf(r) => db.effects[m] > 0 /\ m \in db.local \cup db.imported
       /\ \A m \in db.local : db.effects[m] > 0
  /\ \A m \in ToSet(Migrations) : db.effects[m] <= 1 + leftBehind[m]

\* Services that resume after a restore contact nobody who had asked not to be: every
\* suppression acknowledged before the restore is enforced and no job of its channels
\* waits. A restore that stopped half way is excluded: a second one exports what the
\* first one restored.
RestoreKeepsSuppressions ==
  running # Both(0) /\ ~failedRestore =>
    /\ known \subseteq db.facts
    /\ db.evidence = "VERIFIED" => db.jobs \cap Affected(known) = {}
=============================================================================
