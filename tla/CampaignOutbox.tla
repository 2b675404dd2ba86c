---------------------------- MODULE CampaignOutbox ----------------------------
(***************************************************************************)
(* The leased outbox of campaign events: packages/database/src/            *)
(* campaign-outbox.ts, driven the way its two callers drive it             *)
(* (createDryRunItemProcessor of packages/batch-processor and              *)
(* processNextOutbox of apps/worker).                                      *)
(*                                                                         *)
(* A worker reads the clock, sweeps one expired final attempt, claims one  *)
(* due event, asks for authorization, confirms the simulated execution and *)
(* acknowledges the event.  Every database function of the code is one     *)
(* transaction, serialised by row and advisory locks, and is one step      *)
(* here; between two of them any other worker may run, the clock may move, *)
(* and the worker may stop.                                                *)
(*                                                                         *)
(* The worker keeps using the instant it read at the beginning, however    *)
(* old it has become: a step compares the row with that instant and not    *)
(* with the clock.                                                         *)
(***************************************************************************)
EXTENDS ExecutionWindow, FiniteSets

CONSTANTS
    Outboxes,               \* ids of the enqueued events
    Administrative,         \* those that are not an ATTEMPT_CREATED event
    Channels,
    ChannelOf,              \* the recipient's channel of each event
    DailyLimit,             \* executions a channel may start per UTC day
    LeaseLength,            \* ticks a claim lasts
    Workers,
    ConfiguredMaxAttempts,  \* policy.maxAttempts of each worker's process
    NoWorker,
    NoClaim,
    MaxTime,                \* bound: the clock stops here
    MaxCycle                \* bound: last dead-letter cycle explored

ASSUME OutboxAssumption ==
    /\ Outboxes \subseteq Nat
    /\ Administrative \subseteq Outboxes
    /\ ChannelOf \in [Outboxes -> Channels]
    /\ DailyLimit \in [Channels -> Nat]
    /\ ConfiguredMaxAttempts \in [Workers -> Nat \ {0}]
    /\ LeaseLength \in Nat \ {0}
    /\ NoWorker \notin Workers
    /\ MaxTime \in Nat
    /\ MaxCycle \in Nat

VARIABLES
    clock,          \* the true time, which workers only sample
    outbox,         \* rows of campaign_outbox
    starts,         \* rows of campaign_execution_starts
    confirmations,  \* <<outbox, cycle>> in campaign_simulated_confirmations
    deadLetters,    \* <<outbox, cycle>> in campaign_dead_letters
    recoveries,     \* <<outbox, cycle>> of the dead letters recovered
    nextAvailable,  \* campaign_channel_runtime.next_available_at; 0: no row
    counter,        \* campaign_daily_channel_counters; 0: no row
    phase,          \* how far each worker is
    now,            \* the instant each worker read when it began
    held            \* the claim each worker took, which may be stale

tables == <<outbox, starts, confirmations, deadLetters, recoveries,
            nextAvailable, counter>>
vars == <<clock, tables, phase, now, held>>

Days == 0 .. DayOf(MaxTime)
Status == {"PENDING", "PUBLISHED", "BLOCKED", "EXHAUSTED"}
Phase == {"idle", "reading", "swept", "claimed", "executing", "confirmed"}

Row == [status : Status, attempts : Nat, availableAt : Int, cycle : Nat,
        snapshot : Nat,   \* max_attempts_snapshot; 0: NULL
        owner : Workers \cup {NoWorker}, generation : Nat, expiresAt : Nat]

Claim == [outbox : Outboxes, generation : Nat, attempt : Nat \ {0},
          maxAttempts : Nat, cycle : Nat]

Start == [outbox : Outboxes, cycle : Nat, channel : Channels, day : Nat,
          at : Nat]

TypeOK ==
    /\ clock \in 0 .. MaxTime
    /\ outbox \in [Outboxes -> Row]
    /\ starts \subseteq Start
    /\ confirmations \subseteq Outboxes \X Nat
    /\ deadLetters \subseteq Outboxes \X Nat
    /\ recoveries \subseteq Outboxes \X Nat
    /\ nextAvailable \in [Channels -> Nat]
    /\ counter \in [Channels -> [Days -> Nat]]
    /\ phase \in [Workers -> Phase]
    /\ now \in [Workers -> 0 .. MaxTime]
    /\ held \in [Workers -> Claim \cup {NoClaim}]

------------------------------------------------------------------------------
(* What the queries ask of the tables.                                     *)

NewRow == [status |-> "PENDING", attempts |-> 0, availableAt |-> 0,
           cycle |-> 0, snapshot |-> 0, owner |-> NoWorker, generation |-> 0,
           expiresAt |-> 0]

Unclaimed(row) == [row EXCEPT !.owner = NoWorker, !.expiresAt = 0]

Closed(row, status) == [Unclaimed(row) EXCEPT !.status = status]

\* Fault: the attempt given back twice, without the floor.
DeferredTwice(row, t) ==
    [Unclaimed(row) EXCEPT !.availableAt = t, !.attempts = row.attempts - 2]

\* rescheduleClaim: the row waits until t and the attempt is given back.
Deferred(row, t) ==
    [Unclaimed(row) EXCEPT
        !.availableAt = t,
        !.attempts = IF row.attempts = 0 THEN 0 ELSE row.attempts - 1]

Failed(row, status, t) == [Closed(row, status) EXCEPT !.availableAt = t]

Limit(row, w) ==
    IF row.snapshot = 0 THEN ConfiguredMaxAttempts[w] ELSE row.snapshot

Started(o, cycle) == \E s \in starts : s.outbox = o /\ s.cycle = cycle

Confirmed(o, cycle) == <<o, cycle>> \in confirmations

\* Fault: dead letters keyed by the event alone, as before the cycles.
WithDeadLetterOfFirstCycle(o) == deadLetters \cup {<<o, 0>>}

\* The dead letters with one for the current cycle of o.
WithDeadLetter(o) == deadLetters \cup {<<o, outbox[o].cycle>>}

\* Fault: the limit compared off by one.
QuotaPassed(channel, day) == counter[channel][day] > DailyLimit[channel]

QuotaReached(channel, day) == counter[channel][day] >= DailyLimit[channel]

\* Fault: the last attempt taken for one more to come.
PastLastAttempt(w) == held[w].attempt > held[w].maxAttempts

LastAttempt(w) == held[w].attempt >= held[w].maxAttempts

StartsOn(channel, day) == {s \in starts : s.channel = channel /\ s.day = day}

\* Fault: a claim recognised by its lease alone, whoever holds it now.
CurrentByLease(w, t) ==
    LET row == outbox[held[w].outbox]
    IN  row.status = "PENDING" /\ row.owner # NoWorker /\ row.expiresAt > t

\* The claim w holds still owns its row at instant t (stalePredicate).  The
\* claim token is fresh at each claim, like the generation, and stands or
\* falls with it.
Current(w, t) ==
    LET row == outbox[held[w].outbox]
    IN  /\ row.status = "PENDING"
        /\ row.owner = w
        /\ row.generation = held[w].generation
        /\ row.expiresAt > t

\* Faults of the next definition: the last attempt swept too early, or passed
\* over.
ExpiredOneEarly(w, o, t) ==
    /\ outbox[o].status = "PENDING"
    /\ outbox[o].attempts + 1 >= Limit(outbox[o], w)
    /\ outbox[o].owner # NoWorker
    /\ outbox[o].expiresAt <= t

ExpiredPastFinal(w, o, t) ==
    /\ outbox[o].status = "PENDING"
    /\ outbox[o].attempts > Limit(outbox[o], w)
    /\ outbox[o].owner # NoWorker
    /\ outbox[o].expiresAt <= t

\* An attempt whose lease ran out and that was the last one allowed.
ExpiredFinal(w, o, t) ==
    /\ outbox[o].status = "PENDING"
    /\ outbox[o].attempts >= Limit(outbox[o], w)
    /\ outbox[o].owner # NoWorker
    /\ outbox[o].expiresAt <= t

\* Faults of the next definition: leases ignored, or the last attempt never
\* handed out.
ClaimableUnderLease(w, o, t) ==
    /\ outbox[o].status = "PENDING"
    /\ outbox[o].attempts < Limit(outbox[o], w)
    /\ outbox[o].availableAt <= t

ClaimableButLast(w, o, t) ==
    /\ outbox[o].status = "PENDING"
    /\ outbox[o].attempts + 1 < Limit(outbox[o], w)
    /\ outbox[o].availableAt <= t
    /\ outbox[o].owner = NoWorker \/ outbox[o].expiresAt <= t

Claimable(w, o, t) ==
    /\ outbox[o].status = "PENDING"
    /\ outbox[o].attempts < Limit(outbox[o], w)
    /\ outbox[o].availableAt <= t
    /\ outbox[o].owner = NoWorker \/ outbox[o].expiresAt <= t

------------------------------------------------------------------------------
Init ==
    /\ clock = 0
    /\ outbox = [o \in Outboxes |-> NewRow]
    /\ starts = {}
    /\ confirmations = {}
    /\ deadLetters = {}
    /\ recoveries = {}
    /\ nextAvailable = [ch \in Channels |-> 0]
    /\ counter = [ch \in Channels |-> [d \in Days |-> 0]]
    /\ phase = [w \in Workers |-> "idle"]
    /\ now = [w \in Workers |-> 0]
    /\ held = [w \in Workers |-> NoClaim]

Goto(w, p) ==
    /\ phase' = [phase EXCEPT ![w] = p]
    /\ UNCHANGED <<now, held>>

\* The processing of one event ends, well or badly, and its locals with it.
Rest(w) ==
    /\ phase' = [phase EXCEPT ![w] = "idle"]
    /\ held' = [held EXCEPT ![w] = NoClaim]
    /\ now' = [now EXCEPT ![w] = 0]

------------------------------------------------------------------------------
(* claimCampaignOutbox: a transaction that settles at most one expired     *)
(* final attempt, then the claim.  Each takes the first row in the order   *)
(* of its query; no other transaction is under way for SKIP LOCKED to pass *)
(* over.                                                                   *)

Before(i, o, j, p) == i < j \/ (i = j /\ o < p)

Settle(w, o) ==
    LET row == outbox[o]
        done == Confirmed(o, row.cycle)
    IN  /\ outbox' = [outbox EXCEPT ![o] =
              [Closed(row, IF done THEN "PUBLISHED" ELSE "EXHAUSTED")
                  EXCEPT !.snapshot = Limit(row, w)]]
        /\ deadLetters' = IF done THEN deadLetters ELSE WithDeadLetter(o)

ReadClock(w) ==
    /\ phase[w] = "idle"
    /\ now' = [now EXCEPT ![w] = clock]
    /\ phase' = [phase EXCEPT ![w] = "reading"]
    /\ UNCHANGED <<clock, tables, held>>

FinalizeExpiredFinalAttempt(w) ==
    /\ phase[w] = "reading"
    /\ \/ \E o \in Outboxes :
             /\ ExpiredFinal(w, o, now[w])
             /\ \A p \in Outboxes : ExpiredFinal(w, p, now[w]) =>
                   ~Before(outbox[p].expiresAt, p, outbox[o].expiresAt, o)
             /\ Settle(w, o)
       \/ /\ \A o \in Outboxes : ~ExpiredFinal(w, o, now[w])
          /\ UNCHANGED <<outbox, deadLetters>>
    /\ Goto(w, "swept")
    /\ UNCHANGED <<clock, starts, confirmations, recoveries, nextAvailable,
                   counter>>

ClaimRow(w, o) ==
    LET row == outbox[o]
        taken == [row EXCEPT !.owner = w,
                             !.generation = row.generation + 1,
                             !.expiresAt = now[w] + LeaseLength,
                             !.attempts = row.attempts + 1,
                             !.snapshot = Limit(row, w)]
    IN  /\ outbox' = [outbox EXCEPT ![o] = taken]
        /\ held' = [held EXCEPT ![w] =
                       [outbox |-> o, generation |-> taken.generation,
                        attempt |-> taken.attempts,
                        maxAttempts |-> taken.snapshot, cycle |-> row.cycle]]
        /\ phase' = [phase EXCEPT ![w] = "claimed"]
        /\ UNCHANGED now

ClaimCampaignOutbox(w) ==
    /\ phase[w] = "swept"
    /\ \/ \E o \in Outboxes :
             /\ Claimable(w, o, now[w])
             /\ \A p \in Outboxes : Claimable(w, p, now[w]) =>
                   ~Before(outbox[p].availableAt, p, outbox[o].availableAt, o)
             /\ ClaimRow(w, o)
       \/ /\ \A o \in Outboxes : ~Claimable(w, o, now[w])
          /\ Rest(w)
          /\ UNCHANGED outbox
    /\ UNCHANGED <<clock, starts, confirmations, deadLetters, recoveries,
                   nextAvailable, counter>>

------------------------------------------------------------------------------
(* authorizeCampaignExecution: one transaction, whose outcomes follow.     *)
(* Campaign, recipient, attempt, contact and lead state are written by     *)
(* other components at any time, so that each reading of them may find     *)
(* anything: the answer is a choice here.                                  *)

Reschedule(o, t) == outbox' = [outbox EXCEPT ![o] = Deferred(outbox[o], t)]

\* reserveDailyLeadAllocation, which the batch processor calls before the
\* authorization, may find the day's ceiling reached: whether it does depends
\* on the deployment's counters, which module DailyLeadAllocation adds.
ReserveDailyLeadAllocation(w) ==
    /\ phase[w] = "claimed"
    /\ \/ /\ Current(w, now[w])
          /\ Reschedule(held[w].outbox, DayStart(DayOf(now[w]) + 1))
       \/ /\ ~Current(w, now[w])
          /\ UNCHANGED outbox
    /\ Rest(w)
    /\ UNCHANGED <<clock, starts, confirmations, deadLetters, recoveries,
                   nextAvailable, counter>>

AuthorizeStale(w) ==
    /\ ~Current(w, now[w])
    /\ Rest(w)
    /\ UNCHANGED <<outbox, starts, nextAvailable, counter>>

AuthorizeAdministrative(w) ==
    /\ Current(w, now[w])
    /\ held[w].outbox \in Administrative
    /\ Goto(w, "confirmed")
    /\ UNCHANGED <<outbox, starts, nextAvailable, counter>>

\* A confirmed execution is handed back whatever has changed since.
AuthorizeConfirmed(w) ==
    LET o == held[w].outbox
    IN  /\ Current(w, now[w])
        /\ o \notin Administrative
        /\ Started(o, held[w].cycle) /\ Confirmed(o, held[w].cycle)
        /\ Goto(w, "executing")
        /\ UNCHANGED <<outbox, starts, nextAvailable, counter>>

\* Fault: a durable confirmation not looked for.
UnsettledOrConfirmed(w) ==
    /\ Current(w, now[w])
    /\ held[w].outbox \notin Administrative

Unsettled(w) ==
    LET o == held[w].outbox
    IN  /\ Current(w, now[w])
        /\ o \notin Administrative
        /\ ~(Started(o, held[w].cycle) /\ Confirmed(o, held[w].cycle))

Block(o) == outbox' = [outbox EXCEPT ![o] = Closed(outbox[o], "BLOCKED")]

AuthorizeIneligible(w) ==
    /\ Unsettled(w)
    /\ Block(held[w].outbox)
    /\ Rest(w)
    /\ UNCHANGED <<starts, nextAvailable, counter>>

NextAllowedAt(w) ==
    NextCampaignExecutionInstant(now[w], 0, nextAvailable[ChannelOf[held[w].outbox]])

AuthorizeTooSoon(w) ==
    /\ Unsettled(w)
    /\ NextAllowedAt(w) > now[w]
    /\ Reschedule(held[w].outbox, NextAllowedAt(w))
    /\ Rest(w)
    /\ UNCHANGED <<starts, nextAvailable, counter>>

\* The remaining outcomes: the window is open and the channel is free.
MayExecute(w) ==
    /\ Unsettled(w)
    /\ NextAllowedAt(w) <= now[w]

\* Fault: the spacing left out of the reservation.
ReserveNothing(w) ==
    nextAvailable' = [nextAvailable EXCEPT ![ChannelOf[held[w].outbox]] =
                        NextCampaignExecutionInstant(now[w], 0, now[w])]

ReserveSpacing(w) ==
    nextAvailable' = [nextAvailable EXCEPT ![ChannelOf[held[w].outbox]] =
                        NextCampaignExecutionInstant(now[w], MinSpacing, now[w])]

\* A retry of an execution that started in this cycle and never confirmed.
AuthorizeRetry(w) ==
    /\ MayExecute(w)
    /\ Started(held[w].outbox, held[w].cycle)
    /\ ReserveSpacing(w)
    /\ Goto(w, "executing")
    /\ UNCHANGED <<outbox, starts, counter>>

AuthorizeOverLimit(w) ==
    LET o == held[w].outbox
        day == DayOf(now[w])
    IN  /\ MayExecute(w)
        /\ ~Started(o, held[w].cycle)
        /\ QuotaReached(ChannelOf[o], day)
        /\ Reschedule(o, NextUtcWindowInstant(DayStart(day + 1)))
        /\ Rest(w)
        /\ UNCHANGED <<starts, nextAvailable, counter>>

AuthorizeStart(w) ==
    LET o == held[w].outbox
        ch == ChannelOf[o]
        day == DayOf(now[w])
    IN  /\ MayExecute(w)
        /\ ~Started(o, held[w].cycle)
        /\ ~QuotaReached(ch, day)
        /\ counter' = [counter EXCEPT ![ch][day] = @ + 1]
        /\ ReserveSpacing(w)
        /\ starts' = starts \cup
              {[outbox |-> o, cycle |-> held[w].cycle, channel |-> ch,
                day |-> day, at |-> now[w]]}
        /\ Goto(w, "executing")
        /\ UNCHANGED outbox

AuthorizeCampaignExecution(w) ==
    /\ phase[w] = "claimed"
    /\ \E eligible \in BOOLEAN :
          \/ AuthorizeStale(w)
          \/ AuthorizeAdministrative(w)
          \/ AuthorizeConfirmed(w)
          \/ ~eligible /\ AuthorizeIneligible(w)
          \/ eligible /\ AuthorizeTooSoon(w)
          \/ eligible /\ AuthorizeRetry(w)
          \/ eligible /\ AuthorizeOverLimit(w)
          \/ eligible /\ AuthorizeStart(w)
    /\ UNCHANGED <<clock, confirmations, deadLetters, recoveries>>

------------------------------------------------------------------------------
(* confirmSimulatedCampaignExecution, completeCampaignOutbox and           *)
(* failCampaignOutbox.  The batch processor passes the instant it claimed  *)
(* at; processNextOutbox reads the clock again.                            *)

Instants(w) == {now[w], clock}

\* A confirmation that is refused because the claim is stale throws: the
\* worker goes on to FailCampaignOutbox, which any phase past the
\* authorization allows.
ConfirmSimulatedCampaignExecution(w) ==
    LET o == held[w].outbox
        cycle == held[w].cycle
    IN  /\ phase[w] = "executing"
        /\ \E t \in Instants(w) : Current(w, t) /\ outbox[o].cycle = cycle
        /\ \E suppressed \in BOOLEAN :
              \/ /\ Confirmed(o, cycle) \/ ~suppressed
                 /\ confirmations' = confirmations \cup {<<o, cycle>>}
                 /\ Goto(w, "confirmed")
                 /\ UNCHANGED outbox
              \/ /\ ~Confirmed(o, cycle) /\ suppressed
                 /\ Block(o)
                 /\ Rest(w)
                 /\ UNCHANGED confirmations
        /\ UNCHANGED <<clock, starts, deadLetters, recoveries, nextAvailable,
                       counter>>

CompleteCampaignOutbox(w) ==
    LET o == held[w].outbox
    IN  /\ phase[w] = "confirmed"
        /\ \E t \in Instants(w) :
              \/ /\ Current(w, t)
                 /\ outbox' = [outbox EXCEPT ![o] = Closed(outbox[o], "PUBLISHED")]
              \/ /\ ~Current(w, t)
                 /\ UNCHANGED outbox
        /\ Rest(w)
        /\ UNCHANGED <<clock, starts, confirmations, deadLetters, recoveries,
                       nextAvailable, counter>>

\* Reached through the callers' catch: the adapter timed out, the
\* confirmation was refused, or the database failed one of the two calls,
\* the acknowledgement after a durable confirmation included.
FailCampaignOutbox(w) ==
    LET o == held[w].outbox
    IN  /\ phase[w] \in {"executing", "confirmed"}
        /\ \E t \in Instants(w) :
              \/ /\ Current(w, t)
                 /\ outbox' = [outbox EXCEPT ![o] =
                      Failed(outbox[o],
                             IF LastAttempt(w) THEN "EXHAUSTED" ELSE "PENDING",
                             DeterministicRetryAt(t, held[w].attempt))]
                 /\ deadLetters' = IF LastAttempt(w) THEN WithDeadLetter(o)
                                   ELSE deadLetters
              \/ /\ ~Current(w, t)
                 /\ UNCHANGED <<outbox, deadLetters>>
        /\ Rest(w)
        /\ UNCHANGED <<clock, starts, confirmations, recoveries,
                       nextAvailable, counter>>

------------------------------------------------------------------------------
(* recoverCampaignDeadLetter, and what the outbox does not control.        *)

\* The operator may ask for a later instant.  A replay of a recovery that was
\* already done, and one that is refused, change nothing and are left out.
RecoverCampaignDeadLetter(o) ==
    LET row == outbox[o]
    IN  /\ row.cycle < MaxCycle
        /\ <<o, row.cycle>> \in deadLetters \ recoveries
        /\ row.status = "EXHAUSTED"
        /\ row.owner = NoWorker
        /\ recoveries' = recoveries \cup {<<o, row.cycle>>}
        /\ \E t \in clock .. MaxTime :
              outbox' = [outbox EXCEPT ![o] =
                  [Failed(row, "PENDING", t) EXCEPT !.attempts = 0,
                                                    !.cycle = row.cycle + 1,
                                                    !.snapshot = 0]]
        /\ UNCHANGED <<clock, starts, confirmations, deadLetters, nextAvailable,
                       counter, phase, now, held>>

\* A process stops between two transactions; nothing it did is undone.
Crash(w) ==
    /\ phase[w] # "idle"
    /\ Rest(w)
    /\ UNCHANGED <<clock, tables>>

Tick ==
    /\ clock < MaxTime
    /\ clock' = clock + 1
    /\ UNCHANGED <<tables, phase, now, held>>

------------------------------------------------------------------------------
Process(w) ==
    \/ ReadClock(w)
    \/ FinalizeExpiredFinalAttempt(w)
    \/ ClaimCampaignOutbox(w)
    \/ ReserveDailyLeadAllocation(w)
    \/ AuthorizeCampaignExecution(w)
    \/ ConfirmSimulatedCampaignExecution(w)
    \/ CompleteCampaignOutbox(w)
    \/ FailCampaignOutbox(w)

Next ==
    \/ \E w \in Workers : Process(w) \/ Crash(w)
    \/ \E o \in Outboxes : RecoverCampaignDeadLetter(o)
    \/ Tick

Spec == Init /\ [][Next]_vars

\* The loop of apps/worker/src/index.ts processes events for as long as the
\* process runs, and a stopped process is started again (restart policy of
\* the deployments); time passes.  Strong fairness: a process that keeps
\* crashing does not always do so before the same one of the two statements
\* of claimCampaignOutbox.  It may crash after every claim, and nothing obliges
\* an operator to recover a dead letter or a lead to stay eligible.
Fairness ==
    /\ \A w \in Workers : /\ WF_vars(Process(w))
                          /\ SF_vars(FinalizeExpiredFinalAttempt(w))
                          /\ SF_vars(ClaimCampaignOutbox(w))
    /\ WF_vars(Tick)

FairSpec == Spec /\ Fairness

------------------------------------------------------------------------------
(* Safety.                                                                 *)

\* Two executions on one channel never start closer than the minimum
\* spacing, although each worker authorizes against the instant it read
\* before claiming (next_available_at, campaign-outbox.ts:205-218).
StartsSpaced ==
    \A s, t \in starts : s # t /\ s.channel = t.channel =>
        s.at >= t.at + MinSpacing \/ t.at >= s.at + MinSpacing

\* The daily counter of a channel is the number of executions it started on
\* that UTC day, and never passes the limit: neither retries, reschedules
\* nor recovered cycles count twice or escape the count.
QuotaExact ==
    \A ch \in Channels, day \in Days :
        /\ counter[ch][day] = Cardinality(StartsOn(ch, day))
        /\ counter[ch][day] <= DailyLimit[ch]

\* No event is given more attempts than the limit frozen at its first claim,
\* and one is given up only when it has used them all, by a failure, which
\* counts with the attempt its claim carries, or by the sweep, which counts
\* with the row; rescheduled attempts are not used up.
AttemptsExact ==
    \A o \in Outboxes :
        /\ outbox[o].attempts <= outbox[o].snapshot
        /\ outbox[o].status = "EXHAUSTED" => outbox[o].attempts = outbox[o].snapshot

\* No pending row is out of reach of every query: one that has used all its
\* attempts is claimed, so that the sweep of expired final attempts finds it
\* (the claim query skips it, the sweep skips unclaimed rows).
NoLimbo ==
    \A o \in Outboxes :
        outbox[o].status = "PENDING" /\ outbox[o].owner = NoWorker =>
            \A w \in Workers : outbox[o].attempts < Limit(outbox[o], w)

\* The dead letters of an event are one per cycle already left, and one for
\* the current cycle exactly while the event is EXHAUSTED; those left were
\* recovered, each once.
DeadLetterChain ==
    \A o \in Outboxes, c \in 0 .. MaxCycle :
        /\ <<o, c>> \in recoveries <=> c < outbox[o].cycle
        /\ <<o, c>> \in deadLetters <=>
               \/ c < outbox[o].cycle
               \/ c = outbox[o].cycle /\ outbox[o].status = "EXHAUSTED"

\* The final status tells what happened in the cycle: a published execution
\* was confirmed, a blocked one was not, whoever confirmed it and however
\* late the acknowledgement came.
OutcomeMatchesExecution ==
    \A o \in Outboxes \ Administrative :
        /\ outbox[o].status = "PUBLISHED" => Confirmed(o, outbox[o].cycle)
        /\ outbox[o].status = "BLOCKED" => ~Confirmed(o, outbox[o].cycle)

\* Under a lease that has not run out by the true clock, a row is changed
\* only by the worker and the claim that hold it.
LiveLeaseIsExclusive ==
    [][\A o \in Outboxes :
         outbox[o].expiresAt > clock /\ outbox'[o] # outbox[o] =>
            \E w \in Workers :
               /\ phase[w] \in {"claimed", "executing", "confirmed"}
               /\ held[w].outbox = o
               /\ held[w].generation = outbox[o].generation
               /\ phase'[w] # phase[w]]_vars

\* An execution with a durable confirmation is never dead-lettered, hence
\* never run again in a recovered cycle.
ConfirmedIsNotDeadLettered == confirmations \cap deadLetters = {}

------------------------------------------------------------------------------
(* Refinement: seen from the tables, the outbox behaves as the ledger.     *)

StageOf(o) ==
    LET row == outbox[o]
    IN  CASE row.status = "PUBLISHED" -> "published"
          [] row.status = "BLOCKED" -> "blocked"
          [] row.status = "EXHAUSTED" -> "dead"
          [] row.status = "PENDING" /\ Confirmed(o, row.cycle) -> "confirmed"
          [] row.status = "PENDING" /\ ~Confirmed(o, row.cycle)
                /\ Started(o, row.cycle) -> "started"
          [] OTHER -> "queued"

Ledger == INSTANCE ExecutionLedger WITH
              stage <- [o \in Outboxes |-> StageOf(o)],
              cycle <- [o \in Outboxes |-> outbox[o].cycle],
              log <- starts

\* Whatever the workers, leases, retries and crashes, each event runs at most
\* once per cycle, at an admissible instant, and only a confirmed execution
\* is published.
ImplementsLedger == Ledger!Spec

------------------------------------------------------------------------------
(* Liveness.                                                               *)

\* A claim whose worker is gone does not hold its event for ever: once the
\* lease has run out somebody takes the event over or settles it.
AbandonedClaimIsResolved ==
    \A o \in Outboxes :
        /\ outbox[o].status = "PENDING"
        /\ outbox[o].owner # NoWorker
        /\ outbox[o].expiresAt <= clock
        ~> ~(/\ outbox[o].status = "PENDING"
             /\ outbox[o].owner # NoWorker
             /\ outbox[o].expiresAt <= clock)

\* A due event is eventually claimed.
DueEventIsClaimed ==
    \A o \in Outboxes :
        /\ outbox[o].status = "PENDING"
        /\ outbox[o].owner = NoWorker
        /\ outbox[o].availableAt <= clock
        ~> outbox[o].status # "PENDING" \/ outbox[o].owner # NoWorker

==============================================================================
