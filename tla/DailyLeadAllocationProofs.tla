---------------------- MODULE DailyLeadAllocationProofs ----------------------
(***************************************************************************)
(* Theorems about DailyLeadAllocation: it behaves as CampaignOutbox, so    *)
(* that the theorems about the outbox hold with the quota in front of it,  *)
(* and the counters of the quota are exact.                                *)
(***************************************************************************)
EXTENDS DailyLeadAllocation, CampaignOutboxLedgerProofs

------------------------------------------------------------------------------
(* The reservation is a part of the processing of a claimed event.         *)

\* A reservation is under way, or done, only between the claim and the
\* authorization.
ReservingClaimed == \A w \in Workers : reserving[w] # "no" => phase[w] = "claimed"

ReservingInv == /\ TypeInv
                /\ reserving \in [Workers -> Reserving]
                /\ ReservingClaimed

\* Giving an event back is the interface that CampaignOutbox has for it.
LEMMA DeferIsReserve ==
    ASSUME ReservingInv, NEW w \in Workers, DeferToNextDay(w)
    PROVE  ReserveDailyLeadAllocation(w)
<1>1. phase[w] = "claimed"
    BY DEF ReservingInv, ReservingClaimed, DeferToNextDay
<1>2. \/ Current(w, now[w]) /\ Reschedule(held[w].outbox, DayStart(DayOf(now[w]) + 1))
      \/ ~Current(w, now[w]) /\ UNCHANGED outbox
    BY DEF DeferToNextDay, GiveBack, Today
<1>3. QED
    BY <1>1, <1>2 DEF DeferToNextDay, ReserveDailyLeadAllocation

\* What a worker does is a step of the outbox, or leaves it alone.
LEMMA WorkerIsOutbox ==
    ASSUME ReservingInv, NEW w \in Workers,
           \/ DeferToNextDay(w) \/ AuthorizeReserved(w) \/ Stop(w) \/ Elsewhere(w)
    PROVE  Process(w) \/ Crash(w)
    BY DeferIsReserve DEF AuthorizeReserved, Stop, Elsewhere, Process

LEMMA BatchIsOutbox == ReservingInv /\ [BatchNext]_allVars => [Next]_vars
<1> SUFFICES ASSUME ReservingInv, [BatchNext]_allVars PROVE [Next]_vars
    OBVIOUS
<1>1. ASSUME NEW w \in Workers,
             LookUpAllocation(w) \/ MoveAllocation(w) \/ InsertAllocation(w)
      PROVE  UNCHANGED vars
    BY <1>1 DEF LookUpAllocation, MoveAllocation, InsertAllocation
<1>2. CASE UNCHANGED allVars
    BY <1>2 DEF allVars
<1>3. QED
    BY <1>1, <1>2, WorkerIsOutbox DEF BatchNext, Next

LEMMA ReservingStep == ReservingInv /\ [BatchNext]_allVars => ReservingInv'
<1> SUFFICES ASSUME ReservingInv, [BatchNext]_allVars PROVE ReservingInv'
    OBVIOUS
<1>0. /\ TypeInv
      /\ TypeInv'
      /\ reserving \in [Workers -> Reserving]
    BY BatchIsOutbox, TypeInvStep DEF ReservingInv
<1>1. ASSUME NEW w \in Workers, NEW r \in Reserving, GotoReserving(w, r),
             r # "no" => phase'[w] = "claimed",
             \A v \in Workers : v # w => phase'[v] = phase[v]
      PROVE  ReservingInv'
    BY <1>0, <1>1 DEF GotoReserving, ReservingInv, ReservingClaimed
<1>2. ASSUME NEW w \in Workers, LookUpAllocation(w) PROVE ReservingInv'
    <2> DEFINE r == IF AlreadyCounted(w) THEN "done"
                    ELSE IF allocation[Key(w)] = NoDay THEN "inserting" ELSE "moving"
    <2>1. r \in Reserving /\ GotoReserving(w, r) /\ phase' = phase /\ phase[w] = "claimed"
        BY <1>2 DEF LookUpAllocation, Reserving, vars
    <2> HIDE DEF r
    <2>2. QED
        BY <1>1, <2>1
<1>3. ASSUME NEW w \in Workers, MoveAllocation(w) \/ InsertAllocation(w)
      PROVE  ReservingInv'
    <2>1. reserving[w] # "no" /\ GotoReserving(w, "done") /\ phase' = phase
        BY <1>3 DEF MoveAllocation, InsertAllocation, vars
    <2>2. phase[w] = "claimed"
        BY <2>1 DEF ReservingInv, ReservingClaimed
    <2>3. QED
        BY <1>1, <2>1, <2>2 DEF Reserving
<1>4. ASSUME NEW w \in Workers, DeferToNextDay(w) \/ AuthorizeReserved(w) \/ Stop(w)
      PROVE  ReservingInv'
    <2>1. GotoReserving(w, "no")
        BY <1>4 DEF DeferToNextDay, AuthorizeReserved, Stop
    <2>2. \A v \in Workers : v # w => phase'[v] = phase[v]
        BY <1>0, <1>4, WorkerIsOutbox, OthersKept
    <2>3. QED
        BY <1>1, <2>1, <2>2 DEF Reserving
<1>5. ASSUME NEW w \in Workers, Elsewhere(w) PROVE ReservingInv'
    <2>1. phase[w] # "claimed" /\ reserving' = reserving
        BY <1>5 DEF Elsewhere, quotaVars, ReadClock, FinalizeExpiredFinalAttempt,
            ClaimCampaignOutbox, ConfirmSimulatedCampaignExecution,
            CompleteCampaignOutbox, FailCampaignOutbox
    <2>2. \A v \in Workers : v # w => phase'[v] = phase[v]
        BY <1>0, <1>5, WorkerIsOutbox, OthersKept
    <2>3. QED
        BY <1>0, <2>1, <2>2 DEF ReservingInv, ReservingClaimed
<1>6. ASSUME phase' = phase, reserving' = reserving PROVE ReservingInv'
    BY <1>0, <1>6 DEF ReservingInv, ReservingClaimed
<1>7. ASSUME NEW o \in Outboxes, RecoverCampaignDeadLetter(o) /\ UNCHANGED quotaVars
      PROVE  ReservingInv'
    BY <1>6, <1>7 DEF RecoverCampaignDeadLetter, quotaVars
<1>8. CASE (Tick /\ UNCHANGED quotaVars) \/ UNCHANGED allVars
    BY <1>6, <1>8 DEF Tick, quotaVars, allVars, vars
<1>9. QED
    BY <1>2, <1>3, <1>4, <1>5, <1>7, <1>8 DEF BatchNext

LEMMA ReservingInit == BatchInit => ReservingInv
<1>1. BatchInit => TypeInv
    BY TypeInvInit DEF BatchInit
<1>2. QED
    BY <1>1 DEF BatchInit, ReservingInv, ReservingClaimed, Reserving

\* With the quota in front of it, and workers that stop in the middle of a
\* reservation or act on a claim that is no longer theirs, the outbox behaves
\* as CampaignOutbox says; so all that is proved of CampaignOutbox holds of
\* the deployment.
THEOREM QuotaKeepsOutbox == BatchSpec => ImplementsOutbox
<1>1. BatchInit => Init
    BY DEF BatchInit
<1>2. BatchSpec => []ReservingInv
    BY ReservingInit, ReservingStep, PTL DEF BatchSpec
<1>3. QED
    BY <1>1, <1>2, BatchIsOutbox, PTL DEF BatchSpec, ImplementsOutbox, Spec

\* With the quota in front of it the outbox keeps its promise: every start is a step of
\* the ledger, starts keep their spacing and the quota of the channel, attempts, leases,
\* dead letters and outcomes are what CampaignOutbox says of them.
THEOREM PromiseKeptBehindQuota ==
    BatchSpec => /\ ImplementsLedger /\ LiveLeaseIsExclusive
                 /\ [](StartsSpaced /\ QuotaExact /\ AttemptsExact /\ NoLimbo /\ DeadLetterChain
                         /\ OutcomeMatchesExecution)
BY QuotaKeepsOutbox, OutboxImplementsLedger, LeasesExclusive, SpacingCorrect, QuotaCorrect, AttemptsCorrect,
   NoLimboCorrect, DeadLettersCorrect, OutcomesCorrect, PTL DEF ImplementsOutbox

------------------------------------------------------------------------------
(* The places of the quota.                                                *)

\* Every cycle is one that has an allocation to look up.
CyclesBounded ==
    /\ \A o \in Outboxes : outbox[o].cycle <= MaxCycle
    /\ \A w \in Workers : phase[w] \in Busy => held[w].cycle <= MaxCycle
    /\ \A s \in starts : s.cycle <= MaxCycle

\* What a worker read of its event's allocation still tells where it is: the
\* row that a move is to change stays on another day, under its lock.
Reserved(w) ==
    /\ reserving[w] = "done" => allocation[Key(w)] # NoDay
    /\ reserving[w] = "moving" => allocation[Key(w)] \in Days \ {Today(w)}

LocksExclusive ==
    \A v, w \in Workers :
        v # w /\ reserving[v] = "moving" /\ reserving[w] = "moving" => Key(v) # Key(w)

PlacesFinite == \A day \in Days : IsFiniteSet(AllocatedOn(day))

AllocationInv == /\ ReservingInv
                 /\ CountInv
                 /\ AllocationTypeOK
                 /\ CyclesBounded
                 /\ \A w \in Workers : Reserved(w)
                 /\ LocksExclusive
                 /\ PlacesFinite
                 /\ CounterMatchesAllocations
                 /\ StartedIsAllocated

LEMMA ReservingKey ==
    ASSUME ReservingInv, CyclesBounded, NEW w \in Workers, reserving[w] # "no"
    PROVE  Key(w) \in Keys /\ Today(w) \in Days
<1>1. phase[w] \in Busy
    BY DEF ReservingInv, ReservingClaimed, Busy
<1>2. held[w].outbox \in Outboxes /\ held[w].cycle \in Nat /\ DayOf(now[w]) \in Days
    BY <1>1, BusyClaim DEF ReservingInv
<1>3. held[w].cycle \in 0 .. MaxCycle
    BY <1>1, <1>2, OutboxAssumption DEF CyclesBounded
<1>4. QED
    BY <1>2, <1>3 DEF Key, Keys, Today

LEMMA StartKey ==
    ASSUME TypeInv, CyclesBounded, NEW s \in starts
    PROVE  <<s.outbox, s.cycle>> \in Keys
<1>1. s.outbox \in Outboxes /\ s.cycle \in Nat /\ s.cycle <= MaxCycle
    BY DEF TypeInv, TypeOK, Start, CyclesBounded
<1>2. QED
    BY <1>1, OutboxAssumption DEF Keys

LEMMA NoDayIsNoDay == NoDay \notin Days
<1>1. DayOf(MaxTime) \in Nat
    BY OutboxAssumption, DayBounds
<1>2. QED
    BY <1>1 DEF NoDay, Days

LEMMA CyclesBoundedStep ==
    ASSUME CountInv, CyclesBounded, [Next]_vars
    PROVE  CyclesBounded'
<1>0. /\ TypeInv
      /\ \A o \in Outboxes : outbox[o].cycle \in Nat
      /\ MaxCycle \in Nat
    BY OutboxAssumption DEF CountInv, TypeInv, TypeOK, Row
<1>1. ASSUME NEW o \in Outboxes PROVE outbox'[o].cycle <= MaxCycle
    BY <1>0, CycleSteps DEF CyclesBounded
<1>2. ASSUME NEW w \in Workers, phase'[w] \in Busy PROVE held'[w].cycle <= MaxCycle
    <2>1. CASE phase[w] \in Busy /\ held'[w] = held[w]
        BY <2>1 DEF CyclesBounded
    <2>2. ASSUME NEW o \in Outboxes, ClaimRow(w, o) PROVE held'[w].cycle <= MaxCycle
        BY <1>0, <2>2, ClaimForm DEF CyclesBounded
    <2>3. QED
        BY <1>0, <1>2, <2>1, <2>2, HeldFrame
<1>3. ASSUME NEW s \in starts' PROVE s.cycle <= MaxCycle
    <2>1. CASE s \in starts
        BY <2>1 DEF CyclesBounded
    <2>2. CASE s \notin starts
        <3>1. PICK w \in Workers : StartedBy(w)
            BY <2>2, RecordForms DEF ConfirmedBy
        <3>2. s.cycle = held[w].cycle /\ phase[w] \in Busy
            BY <2>2, <3>1, StartForm DEF StartedBy, Busy
        <3>3. QED
            BY <3>2 DEF CyclesBounded
    <2>3. QED
        BY <2>1, <2>2
<1>4. QED
    BY <1>1, <1>2, <1>3 DEF CyclesBounded

\* A reservation under way keeps its claim and its instant.
LEMMA ReservationKept ==
    ASSUME ReservingInv, [BatchNext]_allVars, NEW v \in Workers, reserving'[v] # "no"
    PROVE  held'[v] = held[v] /\ now'[v] = now[v]
<1> DEFINE Kept == held'[v] = held[v] /\ now'[v] = now[v]
<1>0. TypeInv /\ reserving \in [Workers -> Reserving]
    BY DEF ReservingInv
<1>1. ASSUME NEW w \in Workers,
             LookUpAllocation(w) \/ MoveAllocation(w) \/ InsertAllocation(w)
      PROVE  Kept
    BY <1>1 DEF LookUpAllocation, MoveAllocation, InsertAllocation, vars
<1>2. ASSUME NEW w \in Workers, DeferToNextDay(w) \/ AuthorizeReserved(w) \/ Stop(w)
      PROVE  Kept
    <2>1. reserving'[w] = "no"
        BY <1>0, <1>2 DEF DeferToNextDay, AuthorizeReserved, Stop, GotoReserving
    <2>2. QED
        BY <1>0, <1>2, <2>1, WorkerIsOutbox, OthersKept
<1>3. ASSUME NEW w \in Workers, Elsewhere(w) PROVE Kept
    <2>1. phase[w] # "claimed" /\ reserving' = reserving
        BY <1>3 DEF Elsewhere, quotaVars, ReadClock, FinalizeExpiredFinalAttempt,
            ClaimCampaignOutbox, ConfirmSimulatedCampaignExecution,
            CompleteCampaignOutbox, FailCampaignOutbox
    <2>2. v # w
        BY <2>1 DEF ReservingInv, ReservingClaimed
    <2>3. QED
        BY <1>0, <1>3, <2>2, WorkerIsOutbox, OthersKept
<1>4. ASSUME NEW o \in Outboxes, RecoverCampaignDeadLetter(o) PROVE Kept
    BY <1>4 DEF RecoverCampaignDeadLetter
<1>5. CASE Tick \/ UNCHANGED allVars
    BY <1>5 DEF Tick, allVars, vars
<1>6. QED
    BY <1>1, <1>2, <1>3, <1>4, <1>5 DEF BatchNext

\* A step of the outbox may end reservations and start an execution that has
\* a place; it writes no allocation.
OutboxStep ==
    \/ \E w \in Workers : \/ DeferToNextDay(w)
                          \/ AuthorizeReserved(w)
                          \/ Stop(w)
                          \/ Elsewhere(w)
    \/ (\E o \in Outboxes : RecoverCampaignDeadLetter(o)) /\ UNCHANGED quotaVars
    \/ Tick /\ UNCHANGED quotaVars
    \/ UNCHANGED allVars

LEMMA OutboxStepForm ==
    ASSUME ReservingInv, OutboxStep
    PROVE  /\ UNCHANGED <<allocation, leadCount>>
           /\ \A v \in Workers : reserving'[v] \in {"no", reserving[v]}
           /\ \/ UNCHANGED starts
              \/ \E w \in Workers : StartedBy(w) /\ reserving[w] = "done"
<1>0. reserving \in [Workers -> Reserving]
    BY DEF ReservingInv
<1>1. UNCHANGED <<allocation, leadCount>>
    BY DEF OutboxStep, DeferToNextDay, AuthorizeReserved, Stop, Elsewhere, quotaVars, allVars
<1>2. ASSUME NEW v \in Workers PROVE reserving'[v] \in {"no", reserving[v]}
    <2>1. \/ reserving' = reserving
          \/ \E w \in Workers : GotoReserving(w, "no")
        BY DEF OutboxStep, DeferToNextDay, AuthorizeReserved, Stop, Elsewhere, quotaVars, allVars
    <2>2. QED
        BY <1>0, <2>1 DEF GotoReserving
<1>3. \/ UNCHANGED starts
      \/ \E w \in Workers : StartedBy(w) /\ reserving[w] = "done"
    <2>1. ASSUME NEW w \in Workers, AuthorizeReserved(w)
          PROVE  UNCHANGED starts \/ (StartedBy(w) /\ reserving[w] = "done")
        BY <2>1, AuthorizeRecords DEF AuthorizeReserved, ReservationDone
    <2>2. ASSUME NEW w \in Workers, DeferToNextDay(w) \/ Stop(w) \/ Elsewhere(w)
          PROVE  UNCHANGED starts
        BY <2>2 DEF DeferToNextDay, Stop, Elsewhere, Crash, ReadClock,
            FinalizeExpiredFinalAttempt, ClaimCampaignOutbox,
            ConfirmSimulatedCampaignExecution, CompleteCampaignOutbox,
            FailCampaignOutbox, tables
    <2>3. ASSUME NEW o \in Outboxes, RecoverCampaignDeadLetter(o) PROVE UNCHANGED starts
        BY <2>3 DEF RecoverCampaignDeadLetter
    <2>4. CASE Tick \/ UNCHANGED allVars
        BY <2>4 DEF Tick, tables, allVars, vars
    <2>5. QED
        BY <2>1, <2>2, <2>3, <2>4 DEF OutboxStep
<1>4. QED
    BY <1>1, <1>2, <1>3

LEMMA OutboxStepKeeps ==
    ASSUME AllocationInv, [BatchNext]_allVars, OutboxStep
    PROVE  /\ \A w \in Workers : Reserved(w)'
           /\ LocksExclusive'
           /\ PlacesFinite'
           /\ CounterMatchesAllocations'
           /\ StartedIsAllocated'
<1>0. /\ ReservingInv
      /\ CountInv
      /\ UNCHANGED <<allocation, leadCount>>
      /\ \A v \in Workers : reserving'[v] \in {"no", reserving[v]}
    BY OutboxStepForm DEF AllocationInv
<1>1. ASSUME NEW v \in Workers, reserving'[v] # "no"
      PROVE  /\ reserving'[v] = reserving[v]
             /\ Key(v)' = Key(v)
             /\ Today(v)' = Today(v)
    BY <1>0, <1>1, ReservationKept DEF Key, Today
<1>2. ASSUME NEW v \in Workers PROVE Reserved(v)'
    <2>1. Reserved(v)
        BY DEF AllocationInv
    <2>2. QED
        BY <1>0, <1>1, <2>1 DEF Reserved
<1>3. ASSUME NEW v \in Workers, NEW w \in Workers, v # w,
             reserving'[v] = "moving", reserving'[w] = "moving"
      PROVE  Key(v)' # Key(w)'
    <2>1. LocksExclusive
        BY DEF AllocationInv
    <2>2. QED
        BY <1>1, <1>3, <2>1 DEF LocksExclusive
<1>4. PlacesFinite' /\ CounterMatchesAllocations'
    BY <1>0 DEF AllocationInv, PlacesFinite, CounterMatchesAllocations, AllocatedOn
<1>5. ASSUME NEW s \in starts' PROVE allocation'[<<s.outbox, s.cycle>>] # NoDay
    <2>1. CASE s \in starts
        BY <1>0, <2>1 DEF AllocationInv, StartedIsAllocated
    <2>2. CASE s \notin starts
        <3>1. PICK w \in Workers : StartedBy(w) /\ reserving[w] = "done"
            BY <1>0, <2>2, OutboxStepForm
        <3>2. <<s.outbox, s.cycle>> = Key(w)
            BY <1>0, <2>2, <3>1, StartForm DEF Key
        <3>3. QED
            BY <1>0, <3>1, <3>2 DEF AllocationInv, Reserved
    <2>3. QED
        BY <2>1, <2>2
<1>6. QED
    BY <1>2, <1>3, <1>4, <1>5 DEF LocksExclusive, StartedIsAllocated

\* The lookup tells the worker what the row says, and takes its lock.
LEMMA LookUpKeeps ==
    ASSUME AllocationInv, NEW w \in Workers, LookUpAllocation(w)
    PROVE  /\ \A v \in Workers : Reserved(v)'
           /\ LocksExclusive'
<1> DEFINE r == IF AlreadyCounted(w) THEN "done"
                ELSE IF allocation[Key(w)] = NoDay THEN "inserting" ELSE "moving"
<1>0. /\ reserving \in [Workers -> Reserving]
      /\ reserving' = [reserving EXCEPT ![w] = r]
      /\ UNCHANGED <<allocation, held, now>>
      /\ ~LockedByAnother(w)
    BY DEF AllocationInv, ReservingInv, LookUpAllocation, GotoReserving, vars
<1>1. \A v \in Workers : Key(v)' = Key(v) /\ Today(v)' = Today(v)
    BY <1>0 DEF Key, Today
<1>2. Key(w) \in Keys /\ Today(w) \in Days
    <2>1. phase[w] \in Busy
        BY DEF LookUpAllocation, Busy
    <2>2. held[w].outbox \in Outboxes /\ held[w].cycle \in Nat /\ DayOf(now[w]) \in Days
        BY <2>1, BusyClaim DEF AllocationInv, ReservingInv
    <2>3. held[w].cycle \in 0 .. MaxCycle
        BY <2>1, <2>2, OutboxAssumption DEF AllocationInv, CyclesBounded
    <2>4. QED
        BY <2>2, <2>3 DEF Key, Keys, Today
<1>3. /\ r = "done" => allocation[Key(w)] # NoDay
      /\ r = "moving" => allocation[Key(w)] \in Days \ {Today(w)}
    <2>1. allocation[Key(w)] \in Days \cup {NoDay}
        BY <1>2 DEF AllocationInv, AllocationTypeOK
    <2>2. QED
        BY <1>2, <2>1, NoDayIsNoDay DEF AlreadyCounted
<1> HIDE DEF r
<1>4. reserving'[w] = r /\ \A v \in Workers \ {w} : reserving'[v] = reserving[v]
    BY <1>0
<1>5. ASSUME NEW v \in Workers PROVE Reserved(v)'
    <2>1. Reserved(v)
        BY DEF AllocationInv
    <2>2. CASE v = w
        BY <1>0, <1>1, <1>3, <1>4, <2>2 DEF Reserved
    <2>3. CASE v # w
        BY <1>0, <1>1, <1>4, <2>1, <2>3 DEF Reserved
    <2>4. QED
        BY <2>2, <2>3
<1>6. ASSUME NEW u \in Workers, NEW v \in Workers, u # v,
             reserving'[u] = "moving", reserving'[v] = "moving"
      PROVE  Key(u)' # Key(v)'
    <2>1. LocksExclusive
        BY DEF AllocationInv
    <2>2. QED
        BY <1>0, <1>1, <1>4, <1>6, <2>1 DEF LocksExclusive, LockedByAnother
<1>7. QED
    BY <1>5, <1>6 DEF LocksExclusive

\* A worker that writes its event's allocation, with nobody moving the row.
Writes(w) ==
    /\ reserving[w] \in {"inserting", "moving"}
    /\ allocation' = [allocation EXCEPT ![Key(w)] = Today(w)]
    /\ reserving' = [reserving EXCEPT ![w] = "done"]
    /\ UNCHANGED vars
    /\ \A v \in Workers \ {w} : reserving[v] = "moving" => Key(v) # Key(w)

LEMMA WriteKeeps ==
    ASSUME AllocationInv, NEW w \in Workers, Writes(w)
    PROVE  /\ \A v \in Workers : Reserved(v)'
           /\ LocksExclusive'
           /\ StartedIsAllocated'
<1>0. /\ reserving \in [Workers -> Reserving]
      /\ allocation \in [Keys -> Days \cup {NoDay}]
      /\ UNCHANGED <<held, now, starts>>
      /\ ReservingInv
      /\ CyclesBounded
      /\ TypeInv
    BY DEF AllocationInv, AllocationTypeOK, ReservingInv, Writes, vars, tables
<1>1. \A v \in Workers : Key(v)' = Key(v) /\ Today(v)' = Today(v)
    BY <1>0 DEF Key, Today
<1>2. Key(w) \in Keys /\ Today(w) \in Days
    BY <1>0, ReservingKey DEF Writes
<1>3. /\ reserving'[w] = "done"
      /\ \A v \in Workers \ {w} : reserving'[v] = reserving[v]
    BY <1>0 DEF Writes
<1>4. /\ allocation'[Key(w)] = Today(w)
      /\ \A k \in Keys \ {Key(w)} : allocation'[k] = allocation[k]
      /\ Today(w) # NoDay
    BY <1>0, <1>2, NoDayIsNoDay DEF Writes
<1>5. ASSUME NEW v \in Workers PROVE Reserved(v)'
    <2>1. CASE v = w
        BY <1>1, <1>3, <1>4, <2>1 DEF Reserved
    <2>2. CASE v # w /\ reserving[v] # "no"
        <3>1. Key(v) \in Keys
            BY <1>0, <2>2, ReservingKey
        <3>2. Reserved(v)
            BY DEF AllocationInv
        <3>3. QED
            BY <1>1, <1>3, <1>4, <2>2, <3>1, <3>2 DEF Reserved, Writes
    <2>3. CASE v # w /\ reserving[v] = "no"
        BY <1>3, <2>3 DEF Reserved
    <2>4. QED
        BY <2>1, <2>2, <2>3
<1>6. LocksExclusive'
    BY <1>1, <1>3 DEF AllocationInv, LocksExclusive
<1>7. ASSUME NEW s \in starts PROVE allocation'[<<s.outbox, s.cycle>>] # NoDay
    <2>1. <<s.outbox, s.cycle>> \in Keys
        BY <1>0, StartKey
    <2>2. allocation[<<s.outbox, s.cycle>>] # NoDay
        BY DEF AllocationInv, StartedIsAllocated
    <2>3. QED
        BY <1>4, <2>1, <2>2
<1>8. QED
    BY <1>0, <1>5, <1>6, <1>7 DEF StartedIsAllocated

\* The counters of the days, when one allocation is written.
Ceiling(n) == n > 0 => \E w \in Workers : n <= DailyLeadLimit[w]

LEMMA WrittenDays ==
    ASSUME allocation \in [Keys -> Days \cup {NoDay}], NEW k \in Keys, NEW to \in Days,
           allocation' = [allocation EXCEPT ![k] = to], allocation[k] # to
    PROVE  /\ AllocatedOn(to)' = AllocatedOn(to) \cup {k}
           /\ k \notin AllocatedOn(to)
           /\ \A day \in Days \ {to} : AllocatedOn(day)' = AllocatedOn(day) \ {k}
    BY DEF AllocatedOn

LEMMA CounterMatchesForm ==
    CounterMatchesAllocations <=>
        \A day \in Days : /\ leadCount[day] = Cardinality(AllocatedOn(day))
                          /\ Ceiling(leadCount[day])
    BY DEF CounterMatchesAllocations, Ceiling

LEMMA BelowCeiling ==
    ASSUME AllocationInv, NEW w \in Workers, Today(w) \in Days, ~CeilingReached(w)
    PROVE  Ceiling(leadCount[Today(w)] + 1)
<1>1. leadCount[Today(w)] \in Nat /\ DailyLeadLimit[w] \in Nat
    BY LeadLimitAssumption DEF AllocationInv, AllocationTypeOK
<1>2. leadCount[Today(w)] + 1 <= DailyLeadLimit[w]
    BY <1>1 DEF CeilingReached
<1>3. QED
    BY <1>2 DEF Ceiling

LEMMA InsertCounts ==
    ASSUME AllocationInv, NEW w \in Workers, InsertAllocation(w),
           allocation[Key(w)] = NoDay
    PROVE  PlacesFinite' /\ CounterMatchesAllocations'
<1>p. PICK k \in Keys, to \in Days : k = Key(w) /\ to = Today(w)
    BY ReservingKey DEF AllocationInv, InsertAllocation
<1>0. /\ allocation \in [Keys -> Days \cup {NoDay}]
      /\ leadCount \in [Days -> Nat]
      /\ allocation[k] = NoDay
      /\ to # NoDay
    BY <1>p, NoDayIsNoDay DEF AllocationInv, AllocationTypeOK
<1>1. /\ allocation' = [allocation EXCEPT ![k] = to]
      /\ leadCount' = [leadCount EXCEPT ![to] = @ + 1]
      /\ ~CeilingReached(w)
    BY <1>p DEF InsertAllocation
<1>2. /\ AllocatedOn(to)' = AllocatedOn(to) \cup {k}
      /\ k \notin AllocatedOn(to)
      /\ \A day \in Days \ {to} : AllocatedOn(day)' = AllocatedOn(day)
    <2>1. \A day \in Days : k \notin AllocatedOn(day)
        BY <1>0, NoDayIsNoDay DEF AllocatedOn
    <2>2. allocation[k] # to
        BY <1>0
    <2>3. \A day \in Days : AllocatedOn(day) \ {k} = AllocatedOn(day)
        BY <2>1
    <2>4. /\ AllocatedOn(to)' = AllocatedOn(to) \cup {k}
          /\ \A day \in Days \ {to} : AllocatedOn(day)' = AllocatedOn(day) \ {k}
        BY <1>0, <1>1, <2>2, WrittenDays
    <2>5. QED
        BY <2>1, <2>3, <2>4
<1>3. Ceiling(leadCount[to] + 1)
    BY <1>p, <1>0, <1>1, BelowCeiling
<1>4. ASSUME NEW day \in Days
      PROVE  /\ IsFiniteSet(AllocatedOn(day)')
             /\ leadCount'[day] = Cardinality(AllocatedOn(day)')
             /\ Ceiling(leadCount'[day])
    <2>1. /\ IsFiniteSet(AllocatedOn(day))
          /\ leadCount[day] = Cardinality(AllocatedOn(day))
          /\ Ceiling(leadCount[day])
        BY CounterMatchesForm DEF AllocationInv, PlacesFinite
    <2>2. CASE day = to
        <3>1. leadCount'[to] = leadCount[to] + 1
            BY <1>0, <1>1
        <3>2. /\ IsFiniteSet(AllocatedOn(to) \cup {k})
              /\ Cardinality(AllocatedOn(to) \cup {k}) = Cardinality(AllocatedOn(to)) + 1
            BY <1>2, <2>1, <2>2, FS_AddElement
        <3>3. QED
            BY <1>2, <1>3, <2>1, <2>2, <3>1, <3>2
    <2>3. CASE day # to
        BY <1>0, <1>1, <1>2, <2>1, <2>3
    <2>4. QED
        BY <2>2, <2>3
<1>5. QED
    BY <1>4 DEF PlacesFinite, CounterMatchesAllocations, Ceiling

LEMMA MoveCounts ==
    ASSUME AllocationInv, NEW w \in Workers, MoveAllocation(w)
    PROVE  /\ PlacesFinite'
           /\ CounterMatchesAllocations'
           /\ leadCount' \in [Days -> Nat]
<1>p. PICK k \in Keys, to \in Days, from \in Days :
         k = Key(w) /\ to = Today(w) /\ from = allocation[k] /\ from # to
    BY ReservingKey DEF AllocationInv, MoveAllocation, Reserved
<1>0. /\ allocation \in [Keys -> Days \cup {NoDay}]
      /\ leadCount \in [Days -> Nat]
    BY DEF AllocationInv, AllocationTypeOK
<1>1. /\ allocation' = [allocation EXCEPT ![k] = to]
      /\ leadCount' = [leadCount EXCEPT ![from] = IF @ = 0 THEN 0 ELSE @ - 1, ![to] = @ + 1]
      /\ ~CeilingReached(w)
    BY <1>p DEF MoveAllocation, CountMoved
<1>2. /\ AllocatedOn(to)' = AllocatedOn(to) \cup {k}
      /\ k \notin AllocatedOn(to)
      /\ \A day \in Days \ {to} : AllocatedOn(day)' = AllocatedOn(day) \ {k}
    BY <1>p, <1>0, <1>1, WrittenDays
<1>3. k \in AllocatedOn(from) /\ \A day \in Days \ {from} : k \notin AllocatedOn(day)
    BY <1>p, <1>0 DEF AllocatedOn
<1>4. Ceiling(leadCount[to] + 1)
    BY <1>p, <1>0, <1>1, BelowCeiling
<1>5. /\ leadCount'[to] = leadCount[to] + 1
      /\ leadCount'[from] = IF leadCount[from] = 0 THEN 0 ELSE leadCount[from] - 1
      /\ \A day \in Days \ {from, to} : leadCount'[day] = leadCount[day]
    BY <1>p, <1>0, <1>1
<1>6. ASSUME NEW day \in Days
      PROVE  /\ IsFiniteSet(AllocatedOn(day)')
             /\ leadCount'[day] = Cardinality(AllocatedOn(day)')
             /\ Ceiling(leadCount'[day])
    <2>1. /\ IsFiniteSet(AllocatedOn(day))
          /\ leadCount[day] = Cardinality(AllocatedOn(day))
          /\ Ceiling(leadCount[day])
          /\ leadCount[day] \in Nat
        BY <1>0, CounterMatchesForm DEF AllocationInv, PlacesFinite
    <2>2. CASE day = to
        <3>1. /\ IsFiniteSet(AllocatedOn(to) \cup {k})
              /\ Cardinality(AllocatedOn(to) \cup {k}) = Cardinality(AllocatedOn(to)) + 1
            BY <1>2, <2>1, <2>2, FS_AddElement
        <3>2. QED
            BY <1>2, <1>4, <1>5, <2>1, <2>2, <3>1
    <2>3. CASE day = from
        <3>1. /\ IsFiniteSet(AllocatedOn(from) \ {k})
              /\ Cardinality(AllocatedOn(from) \ {k}) = Cardinality(AllocatedOn(from)) - 1
            BY <1>3, <2>1, <2>3, FS_RemoveElement
        <3>2. Cardinality(AllocatedOn(from) \ {k}) \in Nat
            BY <3>1, FS_CardinalityType
        <3>3. leadCount'[from] = leadCount[from] - 1
            BY <1>5, <2>1, <2>3, <3>1, <3>2
        <3>4. Ceiling(leadCount[from] - 1)
            BY <2>1, <2>3, LeadLimitAssumption DEF Ceiling
        <3>5. QED
            BY <1>p, <1>2, <2>1, <2>3, <3>1, <3>3, <3>4
    <2>4. CASE day \notin {from, to}
        BY <1>2, <1>3, <1>5, <2>1, <2>4
    <2>5. QED
        BY <2>2, <2>3, <2>4
<1>7. leadCount' \in [Days -> Nat]
    BY <1>0, <1>1
<1>8. QED
    BY <1>6, <1>7 DEF PlacesFinite, CounterMatchesAllocations, Ceiling

LEMMA AllocationInvInit == BatchInit => AllocationInv
<1> SUFFICES ASSUME BatchInit PROVE AllocationInv
    OBVIOUS
<1>1. ReservingInv /\ CountInv
    BY ReservingInit, CountInvInit DEF BatchInit
<1>2. AllocationTypeOK /\ CyclesBounded
    BY OutboxAssumption DEF BatchInit, Init, AllocationTypeOK, Reserving, CyclesBounded, NewRow, Busy
<1>3. (\A w \in Workers : Reserved(w)) /\ LocksExclusive /\ StartedIsAllocated
    BY DEF BatchInit, Init, Reserved, LocksExclusive, StartedIsAllocated
<1>4. \A day \in Days : AllocatedOn(day) = {}
    BY NoDayIsNoDay DEF BatchInit, AllocatedOn
<1>5. PlacesFinite /\ CounterMatchesAllocations
    BY <1>4, FS_EmptySet DEF BatchInit, PlacesFinite, CounterMatchesAllocations
<1>6. QED
    BY <1>1, <1>2, <1>3, <1>5 DEF AllocationInv

LEMMA AllocationInvStep == AllocationInv /\ [BatchNext]_allVars => AllocationInv'
<1> SUFFICES ASSUME AllocationInv, [BatchNext]_allVars PROVE AllocationInv'
    OBVIOUS
<1>1. /\ ReservingInv'
      /\ CountInv'
      /\ CyclesBounded'
    <2>1. ReservingInv /\ CountInv /\ CyclesBounded /\ [Next]_vars
        BY BatchIsOutbox DEF AllocationInv
    <2>2. QED
        BY <2>1, ReservingStep, CountInvStep, CyclesBoundedStep
<1> DEFINE Goal == /\ allocation' \in [Keys -> Days \cup {NoDay}]
                   /\ leadCount' \in [Days -> Nat]
                   /\ \A w \in Workers : Reserved(w)'
                   /\ LocksExclusive'
                   /\ PlacesFinite'
                   /\ CounterMatchesAllocations'
                   /\ StartedIsAllocated'
<1>2. SUFFICES Goal
    BY <1>1 DEF AllocationInv, AllocationTypeOK, ReservingInv
<1>0. /\ allocation \in [Keys -> Days \cup {NoDay}]
      /\ leadCount \in [Days -> Nat]
      /\ ReservingInv
      /\ reserving \in [Workers -> Reserving]
    BY DEF AllocationInv, AllocationTypeOK, ReservingInv
<1>3. CASE OutboxStep
    BY <1>0, <1>3, OutboxStepKeeps, OutboxStepForm
<1>4. ASSUME UNCHANGED <<allocation, leadCount, starts>>
      PROVE  PlacesFinite' /\ CounterMatchesAllocations' /\ StartedIsAllocated'
    BY <1>4 DEF AllocationInv, PlacesFinite, CounterMatchesAllocations, AllocatedOn,
        StartedIsAllocated
<1>5. ASSUME NEW w \in Workers, LookUpAllocation(w) PROVE Goal
    <2>1. UNCHANGED <<allocation, leadCount, starts>>
        BY <1>5 DEF LookUpAllocation, vars, tables
    <2>2. QED
        BY <1>0, <1>4, <1>5, <2>1, LookUpKeeps
<1>6. ASSUME NEW w \in Workers, MoveAllocation(w) PROVE Goal
    <2>1. LocksExclusive /\ reserving[w] = "moving"
        BY <1>6 DEF AllocationInv, MoveAllocation
    <2>2. Writes(w)
        BY <1>6, <2>1 DEF MoveAllocation, GotoReserving, Writes, LocksExclusive
    <2>3. Key(w) \in Keys /\ Today(w) \in Days
        BY <1>0, <2>1, ReservingKey DEF AllocationInv
    <2>4. allocation' \in [Keys -> Days \cup {NoDay}]
        BY <1>0, <2>2, <2>3 DEF Writes
    <2>5. QED
        BY <1>6, <2>2, <2>4, WriteKeeps, MoveCounts
<1>7. ASSUME NEW w \in Workers, InsertAllocation(w) PROVE Goal
    <2>1. CASE allocation[Key(w)] = NoDay
        <3>1. \A v \in Workers : reserving[v] = "moving" => Key(v) # Key(w)
            BY <2>1, NoDayIsNoDay DEF AllocationInv, Reserved
        <3>2. Writes(w)
            BY <1>7, <2>1, <3>1 DEF InsertAllocation, GotoReserving, Writes
        <3>3. Key(w) \in Keys /\ Today(w) \in Days
            BY <1>0, <1>7, ReservingKey DEF AllocationInv, InsertAllocation
        <3>4. /\ allocation' \in [Keys -> Days \cup {NoDay}]
              /\ leadCount' \in [Days -> Nat]
            BY <1>0, <1>7, <2>1, <3>2, <3>3 DEF Writes, InsertAllocation
        <3>5. QED
            BY <1>7, <2>1, <3>2, <3>4, WriteKeeps, InsertCounts
    <2>2. CASE allocation[Key(w)] # NoDay
        <3>1. /\ UNCHANGED <<allocation, leadCount, starts, held, now>>
              /\ reserving' = [reserving EXCEPT ![w] = "done"]
            BY <1>7, <2>2 DEF InsertAllocation, GotoReserving, vars, tables
        <3>2. \A v \in Workers : Reserved(v)'
            BY <1>0, <2>2, <3>1 DEF AllocationInv, Reserved, Key, Today
        <3>3. LocksExclusive'
            BY <1>0, <3>1 DEF AllocationInv, LocksExclusive, Key
        <3>4. QED
            BY <1>0, <1>4, <3>1, <3>2, <3>3
    <2>3. QED
        BY <2>1, <2>2
<1>8. QED
    BY <1>3, <1>5, <1>6, <1>7 DEF BatchNext, OutboxStep

\* No execution starts without a place in some day's quota, whatever the
\* workers have read before another one moved, inserted or deferred.
THEOREM StartsAreAllocated == BatchSpec => []StartedIsAllocated
<1>1. AllocationInv => StartedIsAllocated
    BY DEF AllocationInv
<1>2. QED
    BY <1>1, AllocationInvInit, AllocationInvStep, PTL DEF BatchSpec

\* The counter of a day is the number of event cycles that have their place
\* on it and never passes the largest ceiling, for any number of workers,
\* whatever their limits.
THEOREM CountersCorrect == BatchSpec => []CounterMatchesAllocations
<1>1. AllocationInv => CounterMatchesAllocations
    BY DEF AllocationInv
<1>2. QED
    BY <1>1, AllocationInvInit, AllocationInvStep, PTL DEF BatchSpec

==============================================================================
