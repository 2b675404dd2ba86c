# Formal models of lead-finder-sem-site

TLA+ specifications, TLC configurations and TLAPS proofs for this repository:
several processes (the worker of the VPS, the API of the second deployment,
local consoles, scripts of operators) share little but one PostgreSQL database
and coordinate through leases, generations, counters, locks, versions and
idempotency rows. Paths below are relative to the repository root.

`PROJECT.json` is the index: components, runs, mutants, the map from every
definition to the source lines it models, findings, hazards and theorems.

    tlc -workers 2 -config MCCampaignOutbox_safety.cfg MCCampaignOutbox
    tlapm CampaignOutboxProofs.tla

## 1. Inventory

| Component | Where | State it keeps | Operations |
|---|---|---|---|
| Campaign outbox | `packages/database/src/campaign-outbox.ts`, driven by `packages/batch-processor/src/index.ts` and `apps/worker/src/process-outbox.ts` | `campaign_outbox` rows (status, attempts, lease, generation, cycle), execution starts, confirmations, dead letters, recoveries, per-channel spacing and daily counters | claim (with a sweep of expired final attempts), authorize, confirm, complete, fail, recover |
| Execution window | `packages/shared/src/campaign-execution.ts` | none | next instant in the UTC window, spacing, retry delay |
| Deployment quota | `packages/database/src/deployment-processing.ts:77-127` | daily lead counters, allocation of each event cycle to a day | reserve |
| Batch leadership | `packages/database/src/deployment-processing.ts:8-75`, `processLeadBatch`, the cron endpoint of `apps/api/src/app.ts:295-322`, the loop of `apps/worker/src/index.ts` | the leadership row, its audit, batch invocations | begin, complete and abandon an invocation; acquire and renew the leadership; the batch loop |
| Campaign lifecycle | `packages/database/src/campaign.ts`, `packages/shared/src/campaign.ts` | campaigns, versions, recipients, attempts, provider events, opt-outs | create, transition, activate a version, enqueue an attempt, record events and opt-outs |
| Leads, qualification and suppression | `packages/database/src/qualification.ts`, `recordOptOut` of `campaign.ts`, migrations 0019 and 0025 | the lead's row (qualification, flags, stage, version), its contacts, opt-outs, channel authorizations | guarded updates of status and flags, contacts, opt-outs, grants and revocations, all behind the lead's row lock or the advisory lock of its suppression |
| CRM | `packages/database/src/crm.ts`, `packages/shared/src/crm.ts` | stage and version of leads, opportunities, tasks, notes, tags, timeline, idempotency rows | optimistic updates with replay of idempotent commands |
| Internal pilot | `packages/database/src/pilot.ts`, `packages/shared/src/pilot.ts` | pilot runs, leads, reviews, manual contacts, results | versioned status machine with readiness checks, results by a graph, the funnel |
| Manual messaging | `packages/database/src/manual-messaging.ts`, `scripts/manual-whatsapp-console.ts` | preparations and their events; the console's map of preparations | prepare, open, confirm, record a reply; resolve the contact and show its link |
| Operator channel test | `packages/database/src/operator-channel-test.ts`, `apps/api/src/operator-test-routes.ts`, `scripts/operator-test-console.ts` | preparations and events bound to one phone; the configuration of both ends | the same protocol over the operator's own phone, with keyed proofs and receipts |
| Collection | `packages/database/src/index.ts:131-174`, `apps/worker/src/process-job.ts`, `packages/overpass-client` | collection jobs, leads | enqueue, claim, fetch with retries, insert, finish; graceful stop |
| Prospecting | `packages/database/src/prospecting-metrics.ts`, `packages/prospecting-orchestrator/src/city-saturation.ts` | runs of prospecting, the city of each campaign, its transitions | record a run under its fingerprint, move to the next city |
| Lead quality | `packages/prospecting-orchestrator/src/email-qualification.ts`, `lead-quality.ts` | none | technical check of an address against a resolver with a timer, decision |
| Messaging lab | `packages/messaging/src/communication-lab.ts`, `scripts/guarded-communication-recommendations.ts` | a report | matrix of variants, evaluation, ranking, validations |
| Configuration and pilot readiness | `packages/shared/src/config.ts`, `pilot-real-preflight.ts`, the start of API and worker, `scripts/pilot-homologation-*.sh` | environment files and containers, the switch, evidence of drills | start, restart, freeze, release, drill, preflight |
| Release and restore | `scripts/migrate.ts`, `migration-registry.ts`, `deploy-production.sh`, `restore-postgres.sh`, `scripts/restore-suppression` | the schema with two registries, the running release, backups and manifests | migrate, deploy and roll back, restore with reconciliation |
| Not modelled | authentication and contracts of `apps/api`, WhatsApp and AI text libraries, read-only projections and metrics, CI | | |

How they interact. The campaign lifecycle writes an attempt and its outbox
event in one transaction. A batch acquires the leadership, and before each item
renews it. An item claims an event, takes a place in the day's quota,
is authorized against the state of campaign, recipient, attempt, contact and
lead, is confirmed (the execution is simulated: nothing leaves the process) and
acknowledged. Opt-outs and CRM changes suppress a lead at any time, under
advisory locks that authorization and confirmation take too. The CRM, the pilot
and the manual messaging work on one lead through its row and those locks, each
as its own API handlers. The consoles and scripts are clients: they keep a
little state of their own, wait a bounded time and are restarted.

What is hard:

* *Stale instants.* Every function takes a `now` which its caller read earlier,
  and compares leases, windows and days with it. Between two calls of one
  worker any time may pass.
* *Leases without release.* Claims, leadership and invocations expire; their
  former holders do not notice and go on.
* *Partial failure.* Each database call is a transaction, the sequence of calls
  is not: a process may stop, or one call may fail, between any two.
* *Two queries that must not leave a gap* (claim and sweep), *two counters that
  must agree with rows* (channel quota, lead quota), *keys that must be unique
  over time* (cycle of a dead letter, generation, idempotency key).
* *Reads that precede a lock.* At read committed a statement takes its snapshot,
  waits for a row and then re-evaluates the row only: what it looked up in other
  tables may be older than the row it judges.
* *Configuration that outlives a decision.* A container keeps the environment
  it was created with, a receipt the phone it was made for, a runner the
  registry it loaded.

The properties that make each part correct are in section 3; the whole list of
hazards, each at its line, is in `PROJECT.json`.

## 2. Modules

    ExecutionWindow ----> ExecutionLedger        (what the outbox promises)
          |                     ^ implements
          +-----> CampaignOutbox ----> MCCampaignOutbox
                       |   ^ implements
                       +-> DailyLeadAllocation -> MCDailyLeadAllocation
    BatchLeadership ------------------------------> MCBatchLeadership
    CampaignLifecycle ----------------------------> MCCampaignLifecycle

    CommercialLead --> CrmPipeline ----------------------+
          |                                              v
          +--> InternalPilot --> ManualMessaging --> CommercialDesk --> MCCommercialLead

    OperatorTest, Release, Prospecting, Collection,
    LeadQuality, CommunicationLab, Configuration ------> MCPlatform

    CampaignOutboxProofs <-- CampaignOutboxRowProofs <-- CampaignOutboxLedgerProofs
    DailyLeadAllocationProofs, BatchLeadershipProofs, CampaignLifecycleProofs,
    CommercialDeskProofs, PlatformProofs

**ExecutionWindow** is the time arithmetic: instants are ticks, a day has
`DayLength` of them, the window is `[WindowStart, WindowEnd)` of each day.

**CampaignOutbox** has one variable per table (`outbox`, `starts`,
`confirmations`, `deadLetters`, `recoveries`, `nextAvailable`, `counter`), the
true `clock`, and for each worker its locals: `phase` (which call comes next),
`now` (the instant it read) and `held` (the claim it was given, which may be
stale). One action is one database transaction:

| Action | Code |
|---|---|
| `ReadClock` | the `now` of `createDryRunItemProcessor` and `processNextOutbox` |
| `FinalizeExpiredFinalAttempt` | the transaction of that name, first half of `claimCampaignOutbox` |
| `ClaimCampaignOutbox` | its second half, the `WITH candidate ... UPDATE` |
| `ReserveDailyLeadAllocation` | the outcome `LIMIT_REACHED` of the quota, as seen from the outbox |
| `AuthorizeCampaignExecution` | one disjunct per outcome, in the order of the code's returns |
| `ConfirmSimulatedCampaignExecution` | confirmation, replay, or the block of a suppressed lead |
| `CompleteCampaignOutbox`, `FailCampaignOutbox` | the acknowledgement, and the callers' `catch` |
| `RecoverCampaignDeadLetter` | the operator's recovery into a new cycle |
| `Crash`, `Tick` | the process stops between two transactions; time passes |

A claim token is fresh at each claim, as its generation is: the model keeps the
generation. State of other components that authorization and confirmation read
is an arbitrary answer (`eligible`, `suppressed`), because they may change it
at any time. The batch processor passes the instant of the claim to every call
and `processNextOutbox` reads the clock again for the last ones: `Instants`
allows both.

**ExecutionLedger** says what all this is for, without workers, leases, attempts
or clocks: in each cycle an event runs at most once, at an admissible instant
(window, spacing, daily limit), is confirmed only if it ran, and is published
only if confirmed.

**DailyLeadAllocation** puts the deployment's daily quota in front of the
authorization. `reserveDailyLeadAllocation` is one transaction but not one
step: it reads the allocation, locking the row only if there is one, then waits
for the day's counter. `LookUpAllocation` is the first part; `DeferToNextDay`,
`MoveAllocation` and `InsertAllocation` are the decision, taken on what was
read. The other actions are those of CampaignOutbox.

**BatchLeadership** is the layer above: `leader` is the single row of
`processor_leadership`, `audit` and `invocation` the two other tables, and a
*slot* is a batch that may be running. The API runs several at once under one
executor identity, the VPS worker one. Each statement is autocommitted and is a
step; the instant it carries was read at any time since the slot's previous
step (`Instants`). The item itself is a phase.

**CampaignLifecycle** is where the events of the outbox come from: one campaign,
its versions and recipients, and the commands of `campaign.ts` on them. A
command is a transaction of up to four steps, because at read committed another
transaction may commit between any two of its statements:

| Step | Code |
|---|---|
| `Enter` | the advisory lock of scope and key, then the lookup of the key: a new key goes on, a used one is answered as a replay, refused for another payload, or, for a version creation, runs into the payload trigger |
| `Check` | the read of the row the command judges, `FOR UPDATE` where the code says so (`RowsOf`), and every refusal that follows from it (`Acceptable`) |
| `Verify` | the second, unlocked read of an activation and of a reservation |
| one action per command | the writes, the event and the commit: `CreateCampaignWithVersion`, `CreateCampaignVersion`, `TransitionCampaignVersion`, `TransitionCampaign`, `CreateRecipient`, `CreateAttempt`, `UpdateRecipientState` |

A request carries the commands it has still to execute: one for most routes,
two per lead for a simulation (`SimulationOf`). `Stop` is a process that stops
or a client that hears of the error: the open transaction is rolled back and the
rest of a simulation is never executed. An event is kept as the command that it
records, so that `events` is at once the table `campaign_outbox`, the audit
trail, and what lookups find. Clients send any command, with any key, again at
any time, and quote any version of a row, also one that it does not have yet
(`Sent`): `transitionCampaign` judges the row it read (`read` is the version of
that row) and compares the quoted version in its UPDATE only. `early` remembers
the changes that were judged on an older version than the one they quote.

**CommercialLead** is the lead that four components share: its row, its contact,
its opt-outs, its channel authorization and its timeline, with the writers of
the qualification screens. `rowLock` and `msgLock` are the two locks that a
transaction of several steps may hold: the row `FOR UPDATE`, and the advisory
lock `manual-messaging:<lead>` which the triggers of migrations 0019 and 0025
make every writer of suppression facts take.

**CrmPipeline** runs each command of `crm.ts` as two steps: `BeginMutation` (the
advisory lock of the key, its lookup, the unlocked reads and what they refuse)
and one `Write` action per command, guarded by the version the caller quoted,
with `Remember`. The caller quotes any version; an entry of the timeline keeps,
next to the values, the version that was read, the one quoted and the one made.
`RollBackMutation` is a conflict, a failed CHECK or a lost connection.

**InternalPilot** splits the transactions that need the eligibility of the lead:
`ReadEligibility` is the snapshot of the statement, in which opt-outs and a usable
contact are looked for; the `Record` actions wait for the lead's row and judge
what they find there. Everything else is one step under `FOR UPDATE`.
`PilotSnapshot` counts the contacts and the results that lie in a period, each
by the instant it was recorded at; reviews, flags and opt-outs as they now are.

**ManualMessaging** splits an event in `LockMessage` (the advisory locks, then
the rows of run, association, lead and contact, and the eligibility under them)
and `RecordMessage` or `AnswerMessage`. The console is part of the module: the
call it waits for, the map of its session, and the link it has shown.

**CommercialDesk** is the composition of the three and of the screens: every step
of any part, the variables of the others unchanged.

**OperatorTest** has console, wire and API. A call stays on the wire until the
API serves it, also after the console gave up. Each end is reconfigured at any
time; a proof or receipt is a record of what it digests, under its key.

**Release** has the database as one record, so that a backup is a copy of it, and
one action per step of the scripts. The migration runner keeps the registries
it loaded and may be started by hand next to a script. A restore is what
`pg_restore --clean --if-exists` does to the live database: it drops and makes
again what the dump lists, both registries among it, and leaves the rest. `Fate`
says of each migration what that means for objects the backup does not have:
`REPLACED`, columns, triggers and constraints of tables that are in the dump,
which go with them; `KEPT`, tables of its own, which stay (as of 0013, 0016, 0021
or 0027); `CONFLICTS`, tables of its own with a foreign key to a dumped table, or
anything else that stands in the way of its DROP (as of 0019 and 0025), with
which `pg_restore` ends in an error. `leftBehind` counts the restores that left
the objects of a migration without its row, so that it will run again on them.

**Prospecting** splits `createProspectingRun` at the lock of the campaign's state:
`ReadsFingerprint`, then `RecordsUnderLock`. `Saturates` is the saturation rule,
its percentages as integer inequalities.

**Collection** follows a job through enqueue, claim, requests to the provider,
insert and finish; a worker stops gracefully between two of them or at once.

**LeadQuality** checks one lead against a resolver whose answer may come after
the timer, be malformed or be missing, and then decides from the evidence.

**CommunicationLab** computes the report on messages, stage by stage. A text is
its length.

**Configuration** has the environment file, the environment each container was
created with, and the scripts that freeze the homologation. `StepAtStart` is
what a process does with its environment when it starts. The homologation is a
compose project of its own: its scripts stop its containers only
(`StopProcess`), and those of the other project have to be down before the ports
are free for it (`Up`). The switch can also be edited by hand (`Reconfigure`).

### Abstractions and bounds

* One true clock. Processes read it late, never wrongly: the skew between two
  machines is not modelled.
* Ticks, not milliseconds. The windows of the code start at whole minutes; no
  comparison in the models depends on it.
* `SKIP LOCKED` never skips in the models, since transactions are steps.
* `MaxTime`, `MaxCycle`, `MaxGeneration` bound the clock, the recoveries and the
  leadership changes explored. `MaxTime` stops the clock, not the system.
* In CampaignLifecycle, one campaign (nothing of `campaign.ts` relates two), one
  channel, and no rows' ids: a version is its number, a recipient its version
  and lead. `MaxVersions` bounds the versions, `MaxQuoted` the versions that clients
  quote, which is more than the rows reach. `MaxEvents` bounds what is
  recorded: beyond it clients only retry, and open transactions still commit.
* The configuration limits (`policy`, `DAILY_LEAD_LIMIT`) are constants; the
  attempt limit and the lead limit are per worker, since each process reads its
  own environment.
* CommercialLead and its users: one lead with one contact, one opportunity, one
  task and one tag. `changeCrmStage` makes two unlocked reads that the model
  merges: from the second it only takes the refusals of a lead that is not
  commercial. `MaxQuoted` bounds the versions that clients quote. `MaxInstant`
  bounds the values of `recorded_at`, which is the start of a transaction and not
  ordered as its rows are. A snapshot takes any period of these instants; one that
  is not given is the whole record. Only WhatsApp: EMAIL ends in
  `EMAIL_CONSUMER_UNAVAILABLE`. A message is rendered from the contact, of which
  the model keeps the fingerprint. A replayed key of the pilot is a stutter.
  A messaging transaction and a pilot transaction may wait for each other's lock
  (run row against advisory lock); the database aborts one, which is
  `RollBackPilot`.
* Release: one script at a time, the runner by hand next to it, but not in the
  middle of `pg_restore`. A `pg_restore` torn in the middle leaves any mixture of
  old, restored and dropped objects (`RestoreTears`) and counts as a failed
  restore, and after one (`failedRestore`) the properties claim less: a second
  restore exports what the first restored. Every migration is taken to run on its
  own objects without an error, as their `IF NOT EXISTS` makes them do (0001 alone
  does not, but every backup has it). Rows that a kept table holds from after the
  backup, and privileges (`--no-privileges`), are not modelled. The expected
  migration of the readiness probe is part of `MigrationsDone`.
* Collection: a message of an error is never empty (those of the driver, the
  parser and the provider's client are not), so that `finishCollection` can tell
  a failure; an empty one would complete the job.
* Prospecting: a caller that moves a campaign by hand may name any reason, also
  the one that is earned; `MANUAL` marks who made the transition, not the reason.
* CommunicationLab: the average scores of the summaries are left out, with the
  check that they are finite. Link policy and opt-out both follow the index of a variant
  and so are not crossed; the fixed texts match no pattern of a forbidden claim,
  e-mail address or phone number.
* Configuration: `docker compose start` of an old container, and two operators
  at once, are excluded: one deployment runs at a time, and nobody clears the
  switch by hand while a freeze runs. A missing evidence file counts as a failed
  drill.
* OperatorTest: a confirmation offers the two results of the console's page, and
  one reply stands for all.

## 3. Runs

| Run | Instance | Shows |
|---|---|---|
| `outbox_safety` | 2 workers, 2 events on one channel, 1 place a day, 2 attempts, 1 recovery, lease of 1 tick, a 3-tick day with a closed tick, 4 instants | `QuotaExact`, `AttemptsExact`, `DeadLetterChain`, `OutcomeMatchesExecution`, `LiveLeaseIsExclusive` |
| `outbox_pacing` | the same with 2 places a day, lease and spacing of 2 ticks | `StartsSpaced`, and CampaignOutbox implements ExecutionLedger |
| `outbox_liveness` | workers with attempt limits 1 and 2, one administrative event, fair | `NoLimbo`, `AbandonedClaimIsResolved`, `DueEventIsClaimed` |
| `outbox_confirmed` | as `outbox_safety` | violation, see section 6 |
| `lead_allocation` | 2 workers, 2 events, a place a day, 2 attempts, 1 recovery, the night between two days | `CounterMatchesAllocations`, `StartedIsAllocated`, and the outbox behind the quota implements CampaignOutbox |
| `lead_allocation_moved` | the same | violation, see section 6 |
| `leadership` | an API with two requests on one key and a worker loop, leases of 1 tick, batches of 2 items, up to 3 leaderships, fair | `GenerationIsOneBatch`, `LeadershipIsNotTaken`, `ItemsFollowTheNewestLeader`, `CompletedInvocationStays`, `LapsedLeadershipIsTaken` |
| `invocation_replay` | the same with 3 instants | violation, see section 6 |
| `campaign` | 2 requests, 2 keys, 2 versions, 1 lead, 6 recorded events, quoted versions up to 3, up to symmetry of requests and keys | `AuditIsHistory`, `RecipientAuditIsHistory`, `ActivatedWasApproved`, `FirstOfItsKey`, `VersionsAddedToDraftsOnly`, `VersionsFollowTheGraph`, `ReservedWhileActive` |
| `campaign_replay` | the same with 3 recorded events | violation, see section 6 |
| `commercial_lead` | one lead under 2 CRM clients (every scope with one key, or the stage and the opportunity with two), or 2 pilot runs, or the messaging of one preparation by an operator and the console; 3 versions of the lead, quoted versions up to 2, 3 timeline entries, 2 spellings of the contact, 4 results, 2 instants | `TimelineTellsTheState`, `CrmKeyAppliedOnce`, `FunnelNarrows`, `PilotClaimsAreExclusive`, `LinkRestsOnTheRecord`, `MessageRecordedWhileEligible` |
| `platform` | one part at a time: 2 phones, 2 keys, 2 calls on the wire; 4 migrations (one kept, one replaced, one in conflict with an older backup), 3 operations, 2 kinds of suppression; 3 cities, 2 callers, 3 fingerprints; 3 jobs (one from before the envelope), 2 workers started twice; 8 sets of evidence; 3 niches; 3 environment files | `OperatorLinkIsAuthorised`, `ReleaseRunsOnItsSchema`, `RestoreKeepsSuppressions`, `CampaignMovesWhenEarned`, `JobCollectedOnce`, `PilotUnderControl`, `DecisionsFailClosed` |

Why these bounds are enough to be interesting. Two workers and two events give
every race the code guards against: takeover after expiry, a late step of the
former holder, contention for one channel and for the last place of a day. Two
attempts make a first attempt, a last attempt and a retry; one recovery makes a
second cycle in which everything of the first could be counted twice. The days
have an open and a closed part, and the clock reaches the second day, so that
deferral to the next day, the closed window and the change of day between two
calls of one worker all occur. Under `leadership`, three generations allow a
takeover of a takeover, and two slots of one executor the replacement that the
executor identity cannot tell apart. Under `campaign`, six events are what it
takes to create, submit, approve and activate, and then either pause or cancel
or reserve and attempt, with a second request inside any transaction of the
first; two keys let every command be repeated under the same key and under
another, and a quoted version beyond the row's lets a transition be judged on the
row before the one it replaces. What the bounds cut off is covered by the
proofs, which have none.

`commercial_lead` and `platform` hold several parts in one run. The variable
`scene` is chosen at the start and never changes: a behaviour is about one part,
the variables of the others keep their values, and the state spaces add up. In
`commercial_lead` the CRM has two scenes (every scope, or the opportunity under
more keys) and the pilot two (both runs with one instant for all records, or a run
under way with every instant and period), and the messaging one. Each scene has,
besides its part, the writers of the other parts that can commit under it (the DO_NOT_CONTACT of the pilot under the CRM,
opt-outs and qualification under the pilot, everything that ends eligibility
under the messaging); that all of them may run at once is CommercialDesk, about
which the proofs are. The CRM starts at the stage before a deal, so that three
versions reach a terminal stage and its reopening. One preparation is enough
for the messaging, since preparations share only the lead. In `platform`, three
operations make a deployment, its failure and a restore of the older backup; of
the four migrations that restore keeps one, replaces one and fails at one;
three cities and two callers a run that is repeated after it moved the campaign.
Both runs may end (a report is finished, a bound is reached), so deadlock is not
checked.

Every property of a passing run has a mutant: a plausible bug (a limit off by
one, a dropped lease test, a place not given back, a generation not advanced)
written as an operator next to the definition it would replace, marked *Fault*
in the modules, under which TLC finds the property violated.

### Fairness

`CampaignOutbox!Fairness`: the worker loop (`apps/worker/src/index.ts:50-64`)
takes its next step, since it runs until it is stopped and is restarted when it
stops (`restart: unless-stopped` in `deploy/oracle/docker-compose.oracle.yml`);
the two statements of `claimCampaignOutbox` are strongly fair, that is, a
process that keeps crashing does not always crash before the same one of them.
Nothing makes a worker get past its claim: it may crash after every one.
`BatchLeadership!Fairness`: the same for the worker loop's batch and its
attempt to acquire; nothing is assumed about requests, which an external
scheduler sends. Both assume that time passes. CampaignLifecycle, CommercialDesk
and the parts of MCPlatform assume no fairness: their properties are all
safety, since a request, an operator or a provider may stay away for ever.
Operators are never assumed to recover anything.

## 4. Proofs

All theorems hold for every value of the constants allowed by the assumptions
(`WindowAssumption`, `DelayAssumption`, `OutboxAssumption`,
`LeadLimitAssumption`, `LeadershipAssumption`, `CampaignAssumption`,
`CommercialLeadAssumption`, `ManualMessagingAssumption`, `DeskAssumption`,
`EnvironmentsAssumption`, `CollectAssumption`, `ReleaseAssumption`,
`ProspectAssumption`, `LabNichesAssumption`): any number of workers, events,
channels, slots, requests, leads, keys, runs, preparations, environments, jobs,
migrations, campaigns, cities, signals and niches of the report, any lease,
window, spacing and limit.

| Theorem | Property | Argument |
|---|---|---|
| `CampaignOutboxProofs!TypeCorrect` | `TypeOK` | `TypeInv` adds that a worker past its claim holds one (`held[w] # NoClaim`) |
| `CampaignOutboxProofs!SpacingCorrect` | `StartsSpaced` | `ReservedPastStarts`: every start of a channel lies at least a spacing before `nextAvailable`. A start needs `NextAllowedAt <= now`, hence `nextAvailable <= now`, whatever instant `now` is |
| `CampaignOutboxProofs!QuotaCorrect` | `QuotaExact` | the start of an (event, cycle) is unique, so that each increment adds one element to `StartsOn` |
| `CampaignOutboxProofs!ExecutionInstantIsEarliest` | of the operator `NextCampaignExecutionInstant`: no admissible instant is earlier than the answer | the answer is the first instant of the window from the later of now and last start plus spacing (`WindowInstantFirst`): inside the window that instant itself, before it the opening of the same day, after it that of the next, each by where the start of its day lies (`DayStartMonotone`, `TickOfItsDay`) |
| `CampaignOutboxRowProofs!LeasesExclusive` | `LiveLeaseIsExclusive` | an instant a worker holds is never ahead of the clock, so a lease live by the clock is live for every comparison |
| `CampaignOutboxRowProofs!AttemptsCorrect` | `AttemptsExact` | `CountInv`: the attempt number of a current claim is the row's, and its limit the row's snapshot |
| `CampaignOutboxRowProofs!NoLimboCorrect` | `NoLimbo` | `CountInv`: an unclaimed pending row has an attempt left under its snapshot, or was never claimed |
| `CampaignOutboxRowProofs!DeadLettersCorrect` | `DeadLetterChain` | dead letters and recoveries up to the current cycle, kept by the guard of the recovery |
| `CampaignOutboxLedgerProofs!OutcomesCorrect` | `OutcomeMatchesExecution` | `PhaseTells`: a worker past the authorization knows of a recorded start, one past the confirmation of a recorded confirmation, however stale its claim, because records are never taken back; `ExecutionsRecorded`: none is of a cycle its event has not reached |
| `CampaignOutboxLedgerProofs!OutboxImplementsLedger` | `ImplementsLedger` | from the spacing, quota and outcome invariants, transaction by transaction: one changes at most one row and adds at most one record (`RowChangesAlone`), and is the ledger's step of that name or a stutter |
| `DailyLeadAllocationProofs!QuotaKeepsOutbox` | `ImplementsOutbox` | each step of the reservation is a stutter or the outcome `ReserveDailyLeadAllocation` of the outbox |
| `DailyLeadAllocationProofs!CountersCorrect`, `StartsAreAllocated` | `CounterMatchesAllocations`, `StartedIsAllocated` | `AllocationInv`: a row that a reservation is moving stays on another day (`Reserved`) and is moved by one reservation only (`LocksExclusive`), so that a move takes exactly one place from one day and adds it to another; the lookup that found no row is covered by the insert, which decides on the key again |
| `DailyLeadAllocationProofs!PromiseKeptBehindQuota` | `ImplementsLedger` and every safety property of the outbox, of the batch with the quota in front | `BatchSpec` implements `Spec` of CampaignOutbox (`QuotaKeepsOutbox`) on the outbox's own variables, so that what is proved of the one holds of the other |
| `BatchLeadershipProofs!TypeCorrect` | `TypeOK` | |
| `BatchLeadershipProofs!GenerationsExclusive` | `GenerationIsOneBatch` | `LeadInv` adds that only a slot past its acquisition holds a generation; every acquisition takes one larger than any |
| `BatchLeadershipProofs!ItemsFenced` | `ItemsFollowTheNewestLeader` | from `GenerationIsOneBatch`: the renewal requires the row's generation, which no slot exceeds |
| `BatchLeadershipProofs!TakeoverAfterExpiry` | `LeadershipIsNotTaken` | instants never run ahead of the clock |
| `BatchLeadershipProofs!CompletionsStay` | `CompletedInvocationStays` | |
| `CampaignLifecycleProofs!TypeCorrect` | `TypeOK` | |
| `CampaignLifecycleProofs!KeysTakeEffectOnce` | `FirstOfItsKey` | `KeyInv` adds that two open transactions never work under one key, which is what the advisory lock is for |
| `CampaignLifecycleProofs!VersionsFixedAfterDraft`, `VersionGraphFollowed`, `ReservationsWhileActive` | `VersionsAddedToDraftsOnly`, `VersionsFollowTheGraph`, `ReservedWhileActive` | `RowInv`: locked rows are exclusive, and what a request judged under them still holds when it writes (`Judged`). The change of a campaign locks nothing and is not among them |
| `CampaignLifecycleProofs!AuditTellsHistory`, `RecipientAuditTellsHistory` | `AuditIsHistory`, `RecipientAuditIsHistory` | from `RowInv`, with `HistoryGrows`: a change under the version of its row extends the history by one. A campaign's change locks nothing, so `AuditInv` adds `ReadJudged`: what an open transition read is a version the campaign has had, and its transition is allowed from the state that the history gives that version; the history keeps what it said (`ReadStands`). Only a change judged on an older version is in doubt (`early`), and it too follows the graph from that version |
| `CampaignLifecycleProofs!ApprovalBeforeActivation` | `ActivatedWasApproved` | `ApprovalInv`: whatever shows an approved version, be it the version, a request that read it, or the active campaign, shows a recorded approval |
| `CommercialDeskProofs!PilotClaimsExclusive`, `PilotFunnelNarrows` | `PilotClaimsAreExclusive`, `FunnelNarrows` | `RunHolds`: a run that was not created holds no lead, one with a manual contact has left the draft with the lead approved, and a milestone of the funnel has its contact, whenever it was recorded, so that the funnel narrows in any period; `TransactionFindsItsRun`: while a transaction has the run's row, the run stays as it was read |
| `CommercialDeskProofs!MessagesReachEligibleLeads` | `MessageRecordedWhileEligible` | `MessageHolds`: both locks are held exactly while a transaction of the messaging is open, and until its end the lead is as it was checked. Every other part `Respects` that, which is one lemma per part |
| `CommercialDeskProofs!LinkIsRecorded` | `LinkRestsOnTheRecord` | `HistoryInOrder` and `CallIsPrepared`: a history never passes opening, confirmation and reply, and the call the console waits for is about the contact it resolved |
| `CommercialDeskProofs!TimelineIsHistory`, `CrmKeysTakeEffectOnce` | `TimelineTellsTheState`, `CrmKeyAppliedOnce` | `HistoryInv`: what an open mutation read is what the row held at a version it has had, by the very events of the timeline (`SeenStood`, in `VersionsInv`), and events recorded later do not change that, so that the entry it writes starts at what the version it read held; two open mutations never work under one key (`KeysApart`). The timeline is described by the positions of its entries and not by filtering it |
| `CommercialDeskProofs!CommercialLeadCorrect` | all six properties of `commercial_lead`, of the specification that run checks | `SceneIsDesk`: a step of a scene is one of the composition, or the suppression MarkDoNotContact from a part the scene does not show, which keeps every part's invariant (`SuppressionKeeps`); the scenes begin where the composition does, or in a running run with its lead approved, which satisfies the invariant too (`SceneInitial`) |
| `PlatformProofs!PilotStaysUnderControl` | `PilotUnderControl` | `ControlInv`: while a freeze is under way or the switch is engaged the file has the switch, and a container of the homologation that was stopped, or created since, has it too or is down (`SwitchInFile`), which leaves it nothing to do (`HaltedIsIdle`); evidence is only of drills that were run |
| `PlatformProofs!JobsCollectedOnce` | `JobCollectedOnce` | `CollectInv`: no two workers have the same job in hand (`HandsApart`), the requests of a job are the tries of the one that has it (`Holds`), and every stored lead is of an answer that was kept (`LeadsTell`) |
| `PlatformProofs!OperatorLinksAreAuthorised` | `OperatorLinkIsAuthorised` | `OpInv`: the opening the console waits for is of its own phone, also after a reconfiguration, and an event is recorded once, after the events it follows |
| `PlatformProofs!ReleasesFindTheirSchema` | `ReleaseRunsOnItsSchema` | `ReleaseInv`: what is registered has its objects unless a restore tore the database, was committed once and once more per restore that left its objects without its row, and what no registry knows of only such restores left (`SchemaSound`, backups included); at each step of a script the schema suffices for what runs, what is checked out and what a deployment may go back to (`ScriptTells`, `SchemaTells`), and what a script's runner has passed is in effect (`ScriptRunnerTells`), although the registry a manual runner loaded may be stale after a restore |
| `PlatformProofs!RestoresKeepSuppressions` | `RestoreKeepsSuppressions` | `ReleaseInv`: from the export on, every acknowledged suppression is in the manifest, and outside the steps between in the database (`SuppressionsTell`) |
| `PlatformProofs!CampaignsMoveWhenEarned` | `CampaignMovesWhenEarned` | `ProspectInv`: a campaign left exactly the cities before its own, each by one transition, and no run of a city it left automatically comes after that transition (`MovesTell`), which makes the last runs of a city last for ever; a call that is refused had not been recorded when it looked (`CallTells`) |
| `PlatformProofs!EligibleLeadsAreVerified` | `EligibleLeadIsVerified`, the half of `DecisionsFailClosed` about leads | `RulesDecide`: the last of the ten rules is the only one that says VALID and applies only if none before it does; `Eligibility`: of all results only a consistent VALID one blocks nothing |
| `PlatformProofs!PlatformDecisionsFailClosed` | `DecisionsFailClosed` | the above for leads. For the report: identifiers tell evaluations apart, so that `Outranks` is a strict total order of a finite set, ranks grow along it (`RankGrows`) and the first three by rank exist, are different and are outranked by nothing left out (`TopIsBest`); every intersection has three eligible variants in each stage (`ThreeAreEligible`, by three indices, whatever the niche and the opportunity, since no text passes its limit, `LengthsTell`, `CodesTell`); the counts of an intersection add up and sum to those of the stage, as functions, for each niche and opportunity too, so that no validation throws (`ValidationsPass`). `LabInv` says so of what the report holds so far; the core cases' scores are bounded part by part (`ScoresTell`, `CoreTells`) |
| `PlatformProofs!PlatformCorrect` | all seven properties of `platform`, of the specification that run checks | a behaviour of MCPlatform is one of each part on the part's variables (`PlatformIsItsParts`, `PlatformIsControlled`) |

The theorems of CommercialDeskProofs are about the composition of the CRM, the
pilot, the messaging and the screens: each part keeps its own invariant, and a
lemma says what it leaves to the others. The theorems of PlatformProofs are about
the specifications of the single parts (`CollectSpec`, `OpSpec`, `ReleaseSpec`,
`ProspectSpec`, `QualitySpec`, `ConfigurationSpec`, and `LabSpec` by way of
`LabStarts` and `LabStep`). `CommercialLeadCorrect` and `PlatformCorrect` carry them
over to the scenes of the two MC modules, so that what those runs check on one
instance is proved of the very specification they check.

Few of these properties are inductive by themselves: that is what the
strengthenings are for. TLC checked them on the instances first.

Only model-checked:

* the liveness properties `AbandonedClaimIsResolved`, `DueEventIsClaimed` and
  `LapsedLeadershipIsTaken`, since fairness and ENABLED are beyond the prover;
* the four violations, which are single behaviours.

Neither proved nor checked beyond its type is how far apart the retries of an
event are: `DeterministicRetryAt` doubles its delay at each attempt, and a fact
about every power of two needs induction over data.

## 5. Not modelled

See `components` in `PROJECT.json` for each part and its reason. Of the parts
that keep no protocol state: authentication, permissions and input validation
of the API (they decide whether a handler is reached, not what it does), the
projections of its answers, the dashboards and lists of the CRM, the WhatsApp
and AI packages, `packages/messaging/src/index.ts`, logging, the aggregation of
prospecting reports (`metrics.ts`), `ShadowRunStore`, the preparation of the SQL
text of a migration (`migration-sql.ts`), grants, CI workflows and the external
cron, and the scripts that are themselves integration tests. In the modelled
parts: input validation that throws before anything is written, identity
conflicts of a confirmation (they need rows no caller can produce), the token
next to the generation, the content of payloads, error codes and fingerprints;
of `campaign.ts`, `recordProviderEvent`, the rendering of templates and the
fingerprints without a schedule that older rows may carry; of
`qualification.ts`, `addEvidence`, whose rows nothing reads back. No route
calls `updateRecipientState`: it is modelled as an operation clients might be
given. The eligibility that CampaignOutbox asks for is an arbitrary answer and
not that of CommercialLead's tables: its properties hold whatever is answered,
and none of them says that a suppression comes first.

## 6. What the runs found

* `outbox_confirmed`: a confirmed execution can be dead-lettered. The sweep of
  expired final attempts reconciles a durable confirmation, as
  `campaign-outbox.integration.ts:568-569` demands, but `failCampaignOutbox`
  does not look for one: a failed acknowledgement on the last attempt ends in a
  dead letter, whose recovery runs the execution again in the next cycle.
* `lead_allocation_moved`: the reservation is not tied to the claim. A worker
  that lost its claim can still insert or move the allocation, and the
  execution of the holder then starts on a day whose counter does not count it
  (`deployment-processing.integration.ts:114` expects its effective day).
* `invocation_replay`: an invocation has no owner. A batch that outlived its
  two-minute lease and then fails deletes the row another batch re-opened, and
  a third request with the key is admitted under a live lease
  (`deployment-processing.integration.ts:78-79`).
* `campaign_replay`: the retry of a version creation is never answered.
  `createCampaignVersion` finds the event it recorded under the key and reads
  `versionId` in its payload (`campaign.ts:239`), but the trigger of migration
  0023 has reduced that payload to references among which `versionId` is not.
  The other replays read a row of their own and are answered.

What modelling showed besides, without a run of its own:

* `docs/shadow-mode-runtime.md:3` says that `SHADOW_MODE_ENABLED=true` is the
  fail-closed default; `packages/shared/src/config.ts` defaults to `false`. The
  same document (:5) calls the start of a shadow run idempotent;
  `scripts/shadow-mode.ts` starts each with an empty store and overwrites the
  file of the run.
* Shadow mode keeps the worker from processing batches, not the batch endpoint of
  the API (`MayBatch` is about the worker only).
* The API accepts a campaign window that starts after it ends and a retry base
  above its maximum; the worker refuses to start with either (`INVERTED_WINDOW`).
* A pilot run cancelled before it ran gets `completed_at` without `started_at`
  (`packages/database/src/pilot.ts:108`), which a CHECK of migration 0011 rolls
  back: such a run cannot be cancelled.
* `transitionCampaign` (`campaign.ts:261-268`) does not compare the row it judges with
  the version its caller quotes, and `packages/shared/src/campaign.ts:147` takes any
  positive one: a request that quotes the next version, sent before the change that
  makes it, is judged on the row before that change and takes effect after it. A
  campaign that was cancelled in between is resumed, which the graph forbids and
  `packages/shared/src/campaign.test.ts:30` expects to throw. `AuditIsHistory` says
  that this is the only way (`early`). `changeCrmStage` (`crm.ts:142-158`) has the
  same window: a lead can leave NAO_CONTATAR without REACTIVATE, or move from a
  stage it no longer has; its event then names as `from` what was read.
* A restore of a backup older than 0019 or 0025 ends in an error of `pg_restore`
  with the services stopped (`Fate`, `CONFLICTS`). Tables of other migrations newer
  than the backup stay, with their rows, while their rows in `schema_migrations` go,
  so that they run again on objects that are there; that goes well only because
  their statements are written to bear it.
* The funnel of a period may show a response without a contact, when the contact is
  dated outside it; `pilot.integration.ts:196-199` asserts such a snapshot.
* The kill switch stops the containers of the homologation's compose project only:
  those of another project on the machine go on with their old environment.
* The job of a collector that stopped stays PROCESSING: the queue has no lease.

## 7. Plan

Done: the outbox with its quota, leadership and lifecycle; the lead with CRM,
pilot and messaging, and their composition; the parts around them. Left:

1. CampaignOutbox's eligibility read from CommercialLead's tables, with the
   locks of authorization and confirmation, in place of the arbitrary answer;
   property: no confirmation after an opt-out whose locks the confirmation takes.
2. Proofs: a theorem for the property of item 1, which can rest on the locks of
   CommercialDeskProofs (`MessageHolds`) and on `OutcomeInv`. Of the present
   properties all that is safety is proved.
