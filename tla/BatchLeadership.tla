--------------------------- MODULE BatchLeadership ---------------------------
(***************************************************************************)
(* Who runs the lead batches: processLeadBatch of packages/batch-processor *)
(* with the leadership lease and the idempotent invocations of             *)
(* packages/database/src/deployment-processing.ts.                         *)
(*                                                                         *)
(* A batch is a slot: the loop of the VPS worker has one, the API of the   *)
(* other deployment as many as it serves requests at once, all under one   *)
(* executor identity.  A request carries an idempotency key, the worker    *)
(* loop has none.  Every statement is autocommitted and is one step.  The  *)
(* instant it compares with the table was read by the process at any time  *)
(* since the slot's previous step.                                         *)
(*                                                                         *)
(* What happens inside one item is module CampaignOutbox; here an item is  *)
(* a phase that ends well, ends the batch, or throws.                      *)
(***************************************************************************)
EXTENDS Integers

CONSTANTS
    Slots,              \* batches that may run at the same time
    Executors,
    ExecutorOf,         \* the process each slot belongs to
    Primary,            \* executors whose PROCESSOR_ROLE is primary
    Keyed,              \* slots that serve requests
    Keys,               \* idempotency keys
    NoExecutor,
    NoKey,
    LeadershipLease,    \* PROCESSOR_LEASE_MS
    InvocationLease,    \* the two minutes of beginBatchInvocation
    TimeBudget,         \* PROCESSING_TIME_BUDGET_MS
    BatchSize,          \* min(LEAD_BATCH_SIZE, 10)
    MaxTime,            \* bound: the clock stops here
    MaxGeneration       \* bound: last leadership generation explored

ASSUME LeadershipAssumption ==
    /\ ExecutorOf \in [Slots -> Executors]
    /\ Primary \subseteq Executors
    /\ Keyed \subseteq Slots
    /\ NoExecutor \notin Executors
    /\ NoKey \notin Keys
    /\ LeadershipLease \in Nat \ {0}
    /\ InvocationLease \in Nat \ {0}
    /\ TimeBudget \in Nat \ {0}
    /\ BatchSize \in Nat \ {0}
    /\ MaxTime \in Nat
    /\ MaxGeneration \in Nat \ {0}

VARIABLES
    clock,
    leader,         \* the row of processor_leadership
    audit,          \* <<executor, generation>> in processor_leadership_audit
    invocation,     \* rows of batch_invocations
    phase,          \* how far each slot is
    key,            \* the idempotency key each slot serves
    until,          \* the lease its invocation was given
    generation,     \* the leadership each slot acquired; 0: none
    attempted,      \* items begun by the batch
    startedAt,      \* when the batch began
    since           \* when the slot took its last step

slotVars == <<phase, key, until, generation, attempted, startedAt, since>>
vars == <<clock, leader, audit, invocation, slotVars>>

Phase == {"idle", "begun", "acquired", "leading", "working", "finishing",
          "failing"}

Leader == [executor : Executors \cup {NoExecutor}, generation : Nat,
           expiresAt : Nat]

Invocation == [state : {"none", "open", "completed"}, expiresAt : Nat]

TypeOK ==
    /\ clock \in 0 .. MaxTime
    /\ leader \in Leader
    /\ audit \subseteq Executors \X Nat
    /\ invocation \in [Keys -> Invocation]
    /\ phase \in [Slots -> Phase]
    /\ key \in [Slots -> Keys \cup {NoKey}]
    /\ until \in [Slots -> Nat]
    /\ generation \in [Slots -> Nat]
    /\ attempted \in [Slots -> 0 .. BatchSize]
    /\ startedAt \in [Slots -> 0 .. MaxTime]
    /\ since \in [Slots -> 0 .. MaxTime]

NoInvocation == [state |-> "none", expiresAt |-> 0]

Init ==
    /\ clock = 0
    /\ leader = [executor |-> NoExecutor, generation |-> 0, expiresAt |-> 0]
    /\ audit = {}
    /\ invocation = [k \in Keys |-> NoInvocation]
    /\ phase = [s \in Slots |-> "idle"]
    /\ key = [s \in Slots |-> NoKey]
    /\ until = [s \in Slots |-> 0]
    /\ generation = [s \in Slots |-> 0]
    /\ attempted = [s \in Slots |-> 0]
    /\ startedAt = [s \in Slots |-> 0]
    /\ since = [s \in Slots |-> 0]

\* What the process may have read from its clock for its next statement.
Instants(s) == since[s] .. clock

Goto(s, p) ==
    /\ phase' = [phase EXCEPT ![s] = p]
    /\ since' = [since EXCEPT ![s] = clock]

\* The batch ends and its locals with it.
Leave(gone) ==
    /\ phase' = [s \in Slots |-> IF s \in gone THEN "idle" ELSE phase[s]]
    /\ key' = [s \in Slots |-> IF s \in gone THEN NoKey ELSE key[s]]
    /\ until' = [s \in Slots |-> IF s \in gone THEN 0 ELSE until[s]]
    /\ generation' = [s \in Slots |-> IF s \in gone THEN 0 ELSE generation[s]]
    /\ attempted' = [s \in Slots |-> IF s \in gone THEN 0 ELSE attempted[s]]
    /\ startedAt' = [s \in Slots |-> IF s \in gone THEN 0 ELSE startedAt[s]]
    /\ since' = [s \in Slots |-> IF s \in gone THEN 0 ELSE since[s]]

------------------------------------------------------------------------------
(* The request and the invocation it opens.                                *)

Openable(k, t) ==
    \/ invocation[k].state = "none"
    \/ invocation[k].state = "open" /\ invocation[k].expiresAt <= t

\* A request whose key is taken is answered with a conflict and changes
\* nothing.
BeginBatch(s) ==
    /\ phase[s] = "idle"
    /\ IF s \in Keyed
       THEN \E k \in Keys, t \in 0 .. clock :
              /\ Openable(k, t)
              /\ invocation' = [invocation EXCEPT ![k] =
                    [state |-> "open", expiresAt |-> t + InvocationLease]]
              /\ key' = [key EXCEPT ![s] = k]
              /\ until' = [until EXCEPT ![s] = t + InvocationLease]
       ELSE UNCHANGED <<invocation, key, until>>
    /\ Goto(s, "begun")
    /\ UNCHANGED <<clock, leader, audit, generation, attempted, startedAt>>

InvocationCompleted(s) ==
    IF key[s] = NoKey THEN invocation
    ELSE [invocation EXCEPT ![key[s]].state =
            IF @ = "open" THEN "completed" ELSE @]

\* Fault: the row deleted whether or not it has been completed.
InvocationForgotten(s) ==
    IF key[s] = NoKey THEN invocation
    ELSE [invocation EXCEPT ![key[s]] = NoInvocation]

InvocationAbandoned(s) ==
    IF key[s] = NoKey \/ invocation[key[s]].state = "completed" THEN invocation
    ELSE [invocation EXCEPT ![key[s]] = NoInvocation]

FinishBatch(s) ==
    /\ phase[s] = "finishing"
    /\ invocation' = InvocationCompleted(s)
    /\ Leave({s})
    /\ UNCHANGED <<clock, leader, audit>>

\* The handler's catch, on behalf of any statement that failed, the one that
\* completes the invocation included.  The worker loop has no invocation to
\* abandon; its process stops.
AbandonBatch(s) ==
    /\ phase[s] = "failing"
    /\ invocation' = InvocationAbandoned(s)
    /\ Leave({s})
    /\ UNCHANGED <<clock, leader, audit>>

------------------------------------------------------------------------------
(* The leadership.                                                         *)

\* Faults of the next definition: any primary may take the leadership at any
\* time, or no other than its holder ever.
AcquirableByAnyone(s, t) == TRUE

AcquirableByHolder(s, t) ==
    leader.generation = 0 \/ leader.executor = ExecutorOf[s]

Acquirable(s, t) ==
    \/ leader.generation = 0
    \/ leader.expiresAt <= t
    \/ leader.executor = ExecutorOf[s]

\* Fault: the generation kept when the leader changes.
SameGeneration == IF leader.generation = 0 THEN 1 ELSE leader.generation

NextGeneration == leader.generation + 1

\* processLeadBatch notes when it begins, then asks for the leadership.
AcquireProcessorLeadership(s) ==
    /\ phase[s] = "begun"
    /\ \E began, t \in Instants(s) :
          /\ began <= t
          /\ \/ /\ ExecutorOf[s] \in Primary
                /\ Acquirable(s, t)
                /\ leader.generation < MaxGeneration
                /\ leader' = [executor |-> ExecutorOf[s],
                              generation |-> NextGeneration,
                              expiresAt |-> t + LeadershipLease]
                /\ generation' = [generation EXCEPT ![s] = NextGeneration]
                /\ startedAt' = [startedAt EXCEPT ![s] = began]
                /\ Goto(s, "acquired")
             \/ /\ ExecutorOf[s] \notin Primary \/ ~Acquirable(s, t)
                /\ Goto(s, "finishing")
                /\ UNCHANGED <<leader, generation, startedAt>>
    /\ UNCHANGED <<clock, audit, invocation, key, until, attempted>>

\* The audit row is a statement of its own, after the leadership has changed
\* hands.
RecordAcquisition(s) ==
    /\ phase[s] = "acquired"
    /\ audit' = audit \cup {<<ExecutorOf[s], generation[s]>>}
    /\ Goto(s, "leading")
    /\ UNCHANGED <<clock, leader, invocation, key, until, generation,
                   attempted, startedAt>>

\* Fault: a renewal that asks who leads and not in which generation.
RenewableByExecutor(s, t) ==
    leader.executor = ExecutorOf[s] /\ leader.expiresAt > t

Renewable(s, t) ==
    /\ leader.executor = ExecutorOf[s]
    /\ leader.generation = generation[s]
    /\ leader.expiresAt > t

MoreToCome(s) == attempted[s] < BatchSize

\* One turn of the loop of processLeadBatch: the renewal, and the item it
\* allows.
BeginItem(s) ==
    /\ phase[s] = "leading"
    /\ MoreToCome(s)
    /\ \E t \in Instants(s) :
          /\ t - startedAt[s] < TimeBudget
          /\ Renewable(s, t)
          /\ leader' = [leader EXCEPT !.expiresAt = t + LeadershipLease]
    /\ attempted' = [attempted EXCEPT ![s] = @ + 1]
    /\ Goto(s, "working")
    /\ UNCHANGED <<clock, audit, invocation, key, until, generation,
                   startedAt>>

\* The batch is full, out of time, or no longer leads.
StopLoop(s) ==
    /\ phase[s] = "leading"
    /\ \/ ~MoreToCome(s)
       \/ \E t \in Instants(s) : t - startedAt[s] >= TimeBudget \/ ~Renewable(s, t)
    /\ Goto(s, "finishing")
    /\ UNCHANGED <<clock, leader, audit, invocation, key, until, generation,
                   attempted, startedAt>>

\* An item was processed, or there was none left and the loop ends.
EndItem(s) ==
    /\ phase[s] = "working"
    /\ \/ Goto(s, "leading")
       \/ Goto(s, "finishing")
    /\ UNCHANGED <<clock, leader, audit, invocation, key, until, generation,
                   attempted, startedAt>>

\* The database fails a statement of the batch, or the item throws.
Fail(s) ==
    /\ phase[s] \in {"begun", "acquired", "leading", "working", "finishing"}
    /\ Goto(s, "failing")
    /\ UNCHANGED <<clock, leader, audit, invocation, key, until, generation,
                   attempted, startedAt>>

\* A process stops with every batch it was running.  Restarted under the same
\* WORKER_ID, or host and pid, it is the same executor.
Crash(e) ==
    /\ \E s \in Slots : ExecutorOf[s] = e /\ phase[s] # "idle"
    /\ Leave({s \in Slots : ExecutorOf[s] = e})
    /\ UNCHANGED <<clock, leader, audit, invocation>>

Tick ==
    /\ clock < MaxTime
    /\ clock' = clock + 1
    /\ UNCHANGED <<leader, audit, invocation, slotVars>>

------------------------------------------------------------------------------
RunBatch(s) ==
    \/ BeginBatch(s)
    \/ AcquireProcessorLeadership(s)
    \/ RecordAcquisition(s)
    \/ BeginItem(s)
    \/ StopLoop(s)
    \/ EndItem(s)
    \/ FinishBatch(s)
    \/ AbandonBatch(s)

Next ==
    \/ \E s \in Slots : RunBatch(s) \/ Fail(s)
    \/ \E e \in Executors : Crash(e)
    \/ Tick

Spec == Init /\ [][Next]_vars

\* The worker loop comes round again and a stopped process is restarted; an
\* attempt to take the leadership is not pre-empted by a crash or a failed
\* statement every time it is made.  Requests come from an external cron, on
\* which nothing is assumed.
Fairness ==
    /\ \A s \in Slots \ Keyed :
          WF_vars(RunBatch(s)) /\ SF_vars(AcquireProcessorLeadership(s))
    /\ WF_vars(Tick)

FairSpec == Spec /\ Fairness

------------------------------------------------------------------------------
Leads(s) == generation[s] > 0

\* A generation belongs to one batch of one executor, in the table, in the
\* memory of the batches, whatever crashed or was taken over in between, and
\* in the audit: it can therefore fence the others
\* (acquireProcessorLeadership).
GenerationIsOneBatch ==
    /\ \A s, r \in Slots : s # r /\ Leads(s) => generation[s] # generation[r]
    /\ \A s \in Slots : Leads(s) =>
          /\ generation[s] <= leader.generation
          /\ generation[s] = leader.generation => leader.executor = ExecutorOf[s]
          /\ \A a \in audit : a[2] = generation[s] => a[1] = ExecutorOf[s]
    /\ \A a, b \in audit : a[2] = b[2] => a = b

\* No executor takes the leadership of another before its lease has run out
\* by the true clock, although each compares the lease with an instant of its
\* own that may be old.
LeadershipIsNotTaken ==
    [][leader.generation > 0 /\ leader'.executor # leader.executor =>
         leader.expiresAt <= clock]_vars

\* Once a batch of a newer generation leads, no batch of an older one begins
\* another item.
ItemsFollowTheNewestLeader ==
    [][\A s \in Slots : phase[s] # "working" /\ phase'[s] = "working" =>
         \A r \in Slots : generation[r] <= generation[s]]_vars

\* An invocation that completed is never begun again, whichever of the
\* batches that served its key completes, fails, is late or stops.
CompletedInvocationStays ==
    [][\A k \in Keys : invocation[k].state = "completed" =>
         invocation'[k].state = "completed"]_vars

\* A request is refused while the invocation lease of another batch with the
\* same key is live.
ActiveInvocationRejectsReplay ==
    [][\A s, r \in Slots :
         /\ phase[r] # "idle" /\ key[r] # NoKey
         /\ clock < until[r]
         /\ phase[s] = "idle" /\ phase'[s] = "begun" /\ s # r
         => key'[s] # key[r]]_vars

\* Leadership that has lapsed is taken up again by a worker loop.
LapsedLeadershipIsTaken ==
    leader.generation > 0 /\ leader.expiresAt <= clock
      ~> leader.expiresAt > clock \/ leader.generation = MaxGeneration

==============================================================================
