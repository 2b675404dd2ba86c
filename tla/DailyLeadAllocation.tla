------------------------- MODULE DailyLeadAllocation -------------------------
(***************************************************************************)
(* The daily lead quota of the two deployments, in front of the outbox:    *)
(* reserveDailyLeadAllocation of packages/database/src/                    *)
(* deployment-processing.ts, called by createDryRunItemProcessor between   *)
(* the claim and the authorization of an event.                            *)
(*                                                                         *)
(* The function is one transaction, but not one step: it reads the         *)
(* allocation of the event, with the row locked if there is one, and       *)
(* whether its execution has started; then it waits for the counter of the *)
(* day and decides on what it has read.  Other workers claim, reserve and  *)
(* authorize in between.  It does not ask whether the claim is still       *)
(* current, except where it gives the event back.                          *)
(***************************************************************************)
EXTENDS CampaignOutbox

CONSTANT DailyLeadLimit     \* DAILY_LEAD_LIMIT of each worker's process, 1 .. 60

ASSUME LeadLimitAssumption == DailyLeadLimit \in [Workers -> Nat \ {0}]

VARIABLES
    allocation,     \* quota_day of each <<outbox, cycle>>; NoDay: no row
    leadCount,      \* deployment_daily_lead_counters; 0: no row
    reserving       \* how far the reservation of each worker is

quotaVars == <<allocation, leadCount, reserving>>
allVars == <<vars, quotaVars>>

NoDay == -1
Keys == Outboxes \X (0 .. MaxCycle)
Reserving == {"no", "inserting", "moving", "done"}

AllocationTypeOK ==
    /\ allocation \in [Keys -> Days \cup {NoDay}]
    /\ leadCount \in [Days -> Nat]
    /\ reserving \in [Workers -> Reserving]

Key(w) == <<held[w].outbox, held[w].cycle>>

Today(w) == DayOf(now[w])

AllocatedOn(day) == {k \in Keys : allocation[k] = day}

------------------------------------------------------------------------------
BatchInit ==
    /\ Init
    /\ allocation = [k \in Keys |-> NoDay]
    /\ leadCount = [d \in Days |-> 0]
    /\ reserving = [w \in Workers |-> "no"]

GotoReserving(w, r) == reserving' = [reserving EXCEPT ![w] = r]

LockedByAnother(w) ==
    \E v \in Workers \ {w} : reserving[v] = "moving" /\ Key(v) = Key(w)

\* Nothing to reserve: the event counts on this day already, or its execution
\* has started and counts on the day it did.
AlreadyCounted(w) ==
    \/ allocation[Key(w)] = Today(w)
    \/ allocation[Key(w)] # NoDay /\ Started(held[w].outbox, held[w].cycle)

LookUpAllocation(w) ==
    /\ phase[w] = "claimed"
    /\ reserving[w] = "no"
    /\ ~LockedByAnother(w)
    /\ GotoReserving(w, IF AlreadyCounted(w) THEN "done"
                        ELSE IF allocation[Key(w)] = NoDay THEN "inserting"
                        ELSE "moving")
    /\ UNCHANGED <<vars, allocation, leadCount>>

CeilingReached(w) == leadCount[Today(w)] >= DailyLeadLimit[w]

\* Fault: the event given back without asking who holds it now.
GiveBackUnfenced(w) == Reschedule(held[w].outbox, DayStart(Today(w) + 1))

GiveBack(w) ==
    IF Current(w, now[w])
    THEN Reschedule(held[w].outbox, DayStart(Today(w) + 1))
    ELSE UNCHANGED outbox

DeferToNextDay(w) ==
    /\ reserving[w] \in {"inserting", "moving"}
    /\ CeilingReached(w)
    /\ GiveBack(w)
    /\ Rest(w)
    /\ GotoReserving(w, "no")
    /\ UNCHANGED <<clock, starts, confirmations, deadLetters, recoveries,
                   nextAvailable, counter, allocation, leadCount>>

\* Fault: a reservation that leaves a day does not give its place back.
CountMovedOnce(from, to) == [leadCount EXCEPT ![to] = @ + 1]

CountMoved(from, to) ==
    [leadCount EXCEPT ![from] = IF @ = 0 THEN 0 ELSE @ - 1, ![to] = @ + 1]

MoveAllocation(w) ==
    /\ reserving[w] = "moving"
    /\ ~CeilingReached(w)
    /\ allocation' = [allocation EXCEPT ![Key(w)] = Today(w)]
    /\ leadCount' = CountMoved(allocation[Key(w)], Today(w))
    /\ GotoReserving(w, "done")
    /\ UNCHANGED vars

\* The row may have been inserted meanwhile by another worker: then nothing
\* is counted (ON CONFLICT DO NOTHING).
InsertAllocation(w) ==
    /\ reserving[w] = "inserting"
    /\ ~CeilingReached(w)
    /\ IF allocation[Key(w)] = NoDay
       THEN /\ allocation' = [allocation EXCEPT ![Key(w)] = Today(w)]
            /\ leadCount' = [leadCount EXCEPT ![Today(w)] = @ + 1]
       ELSE UNCHANGED <<allocation, leadCount>>
    /\ GotoReserving(w, "done")
    /\ UNCHANGED vars

\* Fault: the answer of the reservation not waited for.
ReservationAsked(w) == reserving[w] # "no"

ReservationDone(w) == reserving[w] = "done"

AuthorizeReserved(w) ==
    /\ ReservationDone(w)
    /\ AuthorizeCampaignExecution(w)
    /\ GotoReserving(w, "no")
    /\ UNCHANGED <<allocation, leadCount>>

\* A process that stops, or loses its connection, rolls its reservation back.
Stop(w) ==
    /\ Crash(w)
    /\ GotoReserving(w, "no")
    /\ UNCHANGED <<allocation, leadCount>>

Elsewhere(w) ==
    /\ \/ ReadClock(w)
       \/ FinalizeExpiredFinalAttempt(w)
       \/ ClaimCampaignOutbox(w)
       \/ ConfirmSimulatedCampaignExecution(w)
       \/ CompleteCampaignOutbox(w)
       \/ FailCampaignOutbox(w)
    /\ UNCHANGED quotaVars

BatchNext ==
    \/ \E w \in Workers :
          \/ LookUpAllocation(w)
          \/ DeferToNextDay(w)
          \/ MoveAllocation(w)
          \/ InsertAllocation(w)
          \/ AuthorizeReserved(w)
          \/ Stop(w)
          \/ Elsewhere(w)
    \/ (\E o \in Outboxes : RecoverCampaignDeadLetter(o)) /\ UNCHANGED quotaVars
    \/ Tick /\ UNCHANGED quotaVars

BatchSpec == BatchInit /\ [][BatchNext]_allVars

------------------------------------------------------------------------------
\* The counter of a day is the number of event cycles allocated to it, and
\* never passes the largest limit configured: whatever is moved, inserted
\* twice, deferred or rolled back (reserveDailyLeadAllocation).
CounterMatchesAllocations ==
    \A day \in Days :
        /\ leadCount[day] = Cardinality(AllocatedOn(day))
        /\ leadCount[day] > 0 => \E w \in Workers : leadCount[day] <= DailyLeadLimit[w]

\* No execution starts without a place in some day's quota.
StartedIsAllocated ==
    \A s \in starts : allocation[<<s.outbox, s.cycle>>] # NoDay

\* The day an execution starts is the day whose quota it counts in, so that
\* a day never sees more executions than its ceiling.
StartedOnAllocatedDay ==
    \A s \in starts : allocation[<<s.outbox, s.cycle>>] = s.day

\* With the quota in front, the outbox still behaves as CampaignOutbox says:
\* an event is given back only by the worker that holds it.
ImplementsOutbox == Spec

==============================================================================
