------------------------ MODULE CampaignOutboxRowProofs ------------------------
(***************************************************************************)
(* Theorems about the rows of the campaign outbox: leases, attempts, dead  *)
(* letters and outcomes.  They rest on one lemma, RowStepLemma, that says  *)
(* in how many ways a step may change a row and who does it.               *)
(***************************************************************************)
EXTENDS CampaignOutboxProofs

------------------------------------------------------------------------------
(* The life of one row.                                                    *)

SameLetters(o) ==
    \A c \in Nat : /\ <<o, c>> \in deadLetters' <=> <<o, c>> \in deadLetters
                   /\ <<o, c>> \in recoveries' <=> <<o, c>> \in recoveries

OneMoreLetter(o) ==
    \A c \in Nat : /\ <<o, c>> \in deadLetters' <=>
                         <<o, c>> \in deadLetters \/ c = outbox[o].cycle
                   /\ <<o, c>> \in recoveries' <=> <<o, c>> \in recoveries

SettledBy(w, o) ==
    LET done == Confirmed(o, outbox[o].cycle)
    IN  /\ phase[w] = "reading"
        /\ ExpiredFinal(w, o, now[w])
        /\ outbox'[o] = [Closed(outbox[o], IF done THEN "PUBLISHED" ELSE "EXHAUSTED")
                            EXCEPT !.snapshot = Limit(outbox[o], w)]
        /\ IF done THEN SameLetters(o) ELSE OneMoreLetter(o)

ClaimedBy(w, o) ==
    /\ phase[w] = "swept"
    /\ Claimable(w, o, now[w])
    /\ ClaimRow(w, o)
    /\ SameLetters(o)

\* w holds o by a claim that its own instant t does not find stale, and its
\* processing of o goes on.
Acts(w, o, t) ==
    /\ phase[w] \in Busy
    /\ held[w].outbox = o
    /\ t \in Instants(w)
    /\ Current(w, t)
    /\ phase'[w] = "idle"

DeferredBy(w, o) ==
    /\ \E t \in Instants(w) : Acts(w, o, t)
    /\ \E u \in Int : outbox'[o] = Deferred(outbox[o], u)
    /\ SameLetters(o)

BlockedBy(w, o) ==
    /\ \E t \in Instants(w) : Acts(w, o, t)
    /\ phase[w] = "executing" \/ o \notin Administrative
    /\ ~(Started(o, held[w].cycle) /\ Confirmed(o, held[w].cycle))
    /\ outbox'[o] = Closed(outbox[o], "BLOCKED")
    /\ SameLetters(o)

PublishedBy(w, o) ==
    /\ phase[w] = "confirmed"
    /\ \E t \in Instants(w) : Acts(w, o, t)
    /\ outbox'[o] = Closed(outbox[o], "PUBLISHED")
    /\ SameLetters(o)

FailedBy(w, o) ==
    /\ \E t \in Instants(w) : Acts(w, o, t)
    /\ \E u \in Int :
          outbox'[o] = Failed(outbox[o],
                              IF LastAttempt(w) THEN "EXHAUSTED" ELSE "PENDING", u)
    /\ IF LastAttempt(w) THEN OneMoreLetter(o) ELSE SameLetters(o)

Untouched(o) == outbox'[o] = outbox[o] /\ SameLetters(o)

RowStep(o) ==
    \/ Untouched(o)
    \/ RecoverCampaignDeadLetter(o)
    \/ \E w \in Workers : \/ SettledBy(w, o)
                          \/ ClaimedBy(w, o)
                          \/ DeferredBy(w, o)
                          \/ BlockedBy(w, o)
                          \/ PublishedBy(w, o)
                          \/ FailedBy(w, o)

\* Nothing is said of rows and letters.
LEMMA UntouchedFrame ==
    ASSUME UNCHANGED <<outbox, deadLetters, recoveries>>, NEW o \in Outboxes
    PROVE  RowStep(o)
    BY DEF RowStep, Untouched, SameLetters

LEMMA RestPhase ==
    ASSUME TypeInv, NEW w \in Workers, Rest(w)
    PROVE  phase'[w] = "idle"
    BY DEF Rest, TypeInv, TypeOK

LEMMA AuthorizeRowStep ==
    ASSUME TypeInv, NEW w \in Workers, AuthorizeCampaignExecution(w),
           NEW o \in Outboxes
    PROVE  RowStep(o)
<1> DEFINE h == held[w].outbox
<1>1. /\ phase[w] = "claimed"
      /\ phase[w] \in Busy
      /\ UNCHANGED <<deadLetters, recoveries>>
    BY DEF AuthorizeCampaignExecution, Busy
<1>2. /\ h \in Outboxes
      /\ outbox \in [Outboxes -> Row]
      /\ now[w] \in Nat
    BY <1>1, BusyClaim DEF TypeInv, TypeOK
<1>3. SameLetters(o)
    BY <1>1 DEF SameLetters
<1>4. now[w] \in Instants(w)
    BY DEF Instants
<1>5. ASSUME UNCHANGED outbox PROVE RowStep(o)
    BY <1>1, <1>5, UntouchedFrame
<1>6. ASSUME Current(w, now[w]), Rest(w), NEW u \in Int, Reschedule(h, u)
      PROVE  RowStep(o)
    <2>1. CASE o = h
        <3>1. Acts(w, o, now[w])
            BY <1>1, <1>4, <1>6, <2>1, RestPhase DEF Acts
        <3>2. outbox'[o] = Deferred(outbox[o], u)
            BY <1>2, <1>6, <2>1 DEF Reschedule
        <3>3. QED
            BY <1>3, <1>4, <3>1, <3>2 DEF RowStep, DeferredBy
    <2>2. CASE o # h
        <3>1. outbox'[o] = outbox[o]
            BY <1>2, <1>6, <2>2 DEF Reschedule
        <3>2. QED
            BY <1>3, <3>1 DEF RowStep, Untouched
    <2>3. QED
        BY <2>1, <2>2
<1>7. CASE AuthorizeIneligible(w)
    <2>1. CASE o = h
        <3>1. Acts(w, o, now[w])
            BY <1>1, <1>4, <1>7, <2>1, RestPhase
            DEF Acts, AuthorizeIneligible, Unsettled
        <3>2. outbox'[o] = Closed(outbox[o], "BLOCKED")
            BY <1>2, <1>7, <2>1 DEF AuthorizeIneligible, Block
        <3>3. /\ ~(Started(o, held[w].cycle) /\ Confirmed(o, held[w].cycle))
              /\ o \notin Administrative
            BY <1>7, <2>1 DEF AuthorizeIneligible, Unsettled
        <3>4. QED
            BY <1>3, <1>4, <3>1, <3>2, <3>3 DEF RowStep, BlockedBy
    <2>2. CASE o # h
        <3>1. outbox'[o] = outbox[o]
            BY <1>2, <1>7, <2>2 DEF AuthorizeIneligible, Block
        <3>2. QED
            BY <1>3, <3>1 DEF RowStep, Untouched
    <2>3. QED
        BY <2>1, <2>2
<1>8. CASE AuthorizeTooSoon(w)
    <2>1. NextAllowedAt(w) \in Int
        BY <1>1, NextAllowedAtType
    <2>2. QED
        BY <1>6, <1>8, <2>1 DEF AuthorizeTooSoon, Unsettled
<1>9. CASE AuthorizeOverLimit(w)
    <2>1. NextUtcWindowInstant(DayStart(DayOf(now[w]) + 1)) \in Int
        BY <1>2, NextDayType
    <2>2. QED
        BY <1>6, <1>9, <2>1 DEF AuthorizeOverLimit, MayExecute, Unsettled
<1>10. QED
    BY <1>5, <1>7, <1>8, <1>9
    DEF AuthorizeCampaignExecution, AuthorizeStale, AuthorizeAdministrative,
        AuthorizeConfirmed, AuthorizeRetry, AuthorizeStart

LEMMA ClaimRowStep ==
    ASSUME TypeInv, NEW w \in Workers, NEW o \in Outboxes,
           FinalizeExpiredFinalAttempt(w) \/ ClaimCampaignOutbox(w)
                \/ ReserveDailyLeadAllocation(w)
    PROVE  RowStep(o)
<1>0. outbox \in [Outboxes -> Row] /\ deadLetters \subseteq Outboxes \X Nat
    BY DEF TypeInv, TypeOK
<1>1. CASE FinalizeExpiredFinalAttempt(w)
    <2>1. CASE UNCHANGED <<outbox, deadLetters>>
        BY <1>1, <2>1, UntouchedFrame DEF FinalizeExpiredFinalAttempt
    <2>2. ASSUME NEW p \in Outboxes, ExpiredFinal(w, p, now[w]), Settle(w, p)
          PROVE  RowStep(o)
        <3>1. phase[w] = "reading" /\ recoveries' = recoveries
            BY <1>1 DEF FinalizeExpiredFinalAttempt
        <3>2. outbox[p].cycle \in Nat
            BY <1>0 DEF Row
        <3>3. CASE o = p
            <4>1. outbox'[o] = [Closed(outbox[o], IF Confirmed(o, outbox[o].cycle)
                                                  THEN "PUBLISHED" ELSE "EXHAUSTED")
                                   EXCEPT !.snapshot = Limit(outbox[o], w)]
                BY <1>0, <2>2, <3>3 DEF Settle
            <4>2. CASE Confirmed(o, outbox[o].cycle)
                <5>1. SameLetters(o)
                    BY <2>2, <3>1, <3>3, <4>2 DEF Settle, SameLetters
                <5>2. QED
                    BY <2>2, <3>1, <3>3, <4>1, <4>2, <5>1 DEF RowStep, SettledBy
            <4>3. CASE ~Confirmed(o, outbox[o].cycle)
                <5>1. OneMoreLetter(o)
                    BY <2>2, <3>1, <3>3, <4>3 DEF Settle, WithDeadLetter, OneMoreLetter
                <5>2. QED
                    BY <2>2, <3>1, <3>3, <4>1, <4>3, <5>1 DEF RowStep, SettledBy
            <4>4. QED
                BY <4>2, <4>3
        <3>4. CASE o # p
            <4>1. outbox'[o] = outbox[o]
                BY <1>0, <2>2, <3>4 DEF Settle
            <4>2. SameLetters(o)
                BY <2>2, <3>1, <3>4 DEF Settle, WithDeadLetter, SameLetters
            <4>3. QED
                BY <4>1, <4>2 DEF RowStep, Untouched
        <3>5. QED
            BY <3>3, <3>4
    <2>3. QED
        BY <1>1, <2>1, <2>2 DEF FinalizeExpiredFinalAttempt
<1>2. CASE ClaimCampaignOutbox(w)
    <2>1. UNCHANGED <<deadLetters, recoveries>> /\ phase[w] = "swept"
        BY <1>2 DEF ClaimCampaignOutbox
    <2>2. SameLetters(o)
        BY <2>1 DEF SameLetters
    <2>3. CASE UNCHANGED outbox
        BY <2>1, <2>3, UntouchedFrame
    <2>4. ASSUME NEW p \in Outboxes, Claimable(w, p, now[w]), ClaimRow(w, p)
          PROVE  RowStep(o)
        <3>1. CASE o = p
            BY <2>1, <2>2, <2>4, <3>1 DEF RowStep, ClaimedBy
        <3>2. CASE o # p
            <4>1. outbox'[o] = outbox[o]
                BY <1>0, <2>4, <3>2 DEF ClaimRow
            <4>2. QED
                BY <2>2, <4>1 DEF RowStep, Untouched
        <3>3. QED
            BY <3>1, <3>2
    <2>5. QED
        BY <1>2, <2>3, <2>4 DEF ClaimCampaignOutbox
<1>3. CASE ReserveDailyLeadAllocation(w)
    <2> DEFINE h == held[w].outbox
               u == DayStart(DayOf(now[w]) + 1)
    <2>1. phase[w] \in Busy /\ UNCHANGED <<deadLetters, recoveries>> /\ Rest(w)
        BY <1>3 DEF ReserveDailyLeadAllocation, Busy
    <2>2. h \in Outboxes /\ u \in Int
        BY <2>1, BusyClaim, NextDayType
    <2>3. SameLetters(o) /\ now[w] \in Instants(w)
        BY <2>1 DEF SameLetters, Instants
    <2>4. CASE UNCHANGED outbox
        BY <2>1, <2>4, UntouchedFrame
    <2>5. CASE Current(w, now[w]) /\ Reschedule(h, u)
        <3>1. CASE o = h
            <4>1. Acts(w, o, now[w])
                BY <2>1, <2>3, <2>5, <3>1, RestPhase DEF Acts
            <4>2. outbox'[o] = Deferred(outbox[o], u)
                BY <1>0, <2>5, <3>1 DEF Reschedule
            <4>3. QED
                BY <2>2, <2>3, <4>1, <4>2 DEF RowStep, DeferredBy
        <3>2. CASE o # h
            <4>1. outbox'[o] = outbox[o]
                BY <1>0, <2>5, <3>2 DEF Reschedule
            <4>2. QED
                BY <2>3, <4>1 DEF RowStep, Untouched
        <3>3. QED
            BY <3>1, <3>2
    <2>6. QED
        BY <1>3, <2>4, <2>5 DEF ReserveDailyLeadAllocation
<1>4. QED
    BY <1>1, <1>2, <1>3

LEMMA ExecuteRowStep ==
    ASSUME TypeInv, NEW w \in Workers, NEW o \in Outboxes,
           ConfirmSimulatedCampaignExecution(w) \/ CompleteCampaignOutbox(w)
                \/ FailCampaignOutbox(w)
    PROVE  RowStep(o)
<1> DEFINE h == held[w].outbox
<1>1. phase[w] \in Busy
    BY DEF ConfirmSimulatedCampaignExecution, CompleteCampaignOutbox,
        FailCampaignOutbox, Busy
<1>2. /\ h \in Outboxes
      /\ held[w].attempt \in Nat \ {0}
      /\ outbox \in [Outboxes -> Row]
      /\ outbox[h].cycle \in Nat
    BY <1>1, BusyClaim DEF TypeInv, TypeOK, Row
<1>3. CASE ConfirmSimulatedCampaignExecution(w)
    <2>1. UNCHANGED <<deadLetters, recoveries>>
        BY <1>3 DEF ConfirmSimulatedCampaignExecution
    <2>2. SameLetters(o)
        BY <2>1 DEF SameLetters
    <2>3. CASE UNCHANGED outbox
        BY <2>1, <2>3, UntouchedFrame
    <2>4. CASE ~Confirmed(h, held[w].cycle) /\ Block(h) /\ Rest(w)
        <3>1. CASE o = h
            <4>1. PICK t \in Instants(w) : Current(w, t)
                BY <1>3 DEF ConfirmSimulatedCampaignExecution
            <4>2. Acts(w, o, t)
                BY <1>1, <2>4, <3>1, <4>1, RestPhase DEF Acts
            <4>3. outbox'[o] = Closed(outbox[o], "BLOCKED")
                BY <1>2, <2>4, <3>1 DEF Block
            <4>4. phase[w] = "executing"
                BY <1>3 DEF ConfirmSimulatedCampaignExecution
            <4>5. QED
                BY <2>2, <2>4, <3>1, <4>2, <4>3, <4>4 DEF RowStep, BlockedBy
        <3>2. CASE o # h
            <4>1. outbox'[o] = outbox[o]
                BY <1>2, <2>4, <3>2 DEF Block
            <4>2. QED
                BY <2>2, <4>1 DEF RowStep, Untouched
        <3>3. QED
            BY <3>1, <3>2
    <2>5. QED
        BY <1>3, <2>3, <2>4 DEF ConfirmSimulatedCampaignExecution
<1>4. CASE CompleteCampaignOutbox(w)
    <2>1. UNCHANGED <<deadLetters, recoveries>> /\ phase[w] = "confirmed" /\ Rest(w)
        BY <1>4 DEF CompleteCampaignOutbox
    <2>2. SameLetters(o)
        BY <2>1 DEF SameLetters
    <2>3. CASE UNCHANGED outbox
        BY <2>1, <2>3, UntouchedFrame
    <2>4. ASSUME NEW t \in Instants(w), Current(w, t),
                 outbox' = [outbox EXCEPT ![h] = Closed(outbox[h], "PUBLISHED")]
          PROVE  RowStep(o)
        <3>1. CASE o = h
            <4>1. Acts(w, o, t)
                BY <1>1, <2>1, <2>4, <3>1, RestPhase DEF Acts
            <4>2. outbox'[o] = Closed(outbox[o], "PUBLISHED")
                BY <1>2, <2>4, <3>1
            <4>3. QED
                BY <2>1, <2>2, <4>1, <4>2 DEF RowStep, PublishedBy
        <3>2. CASE o # h
            <4>1. outbox'[o] = outbox[o]
                BY <1>2, <2>4, <3>2
            <4>2. QED
                BY <2>2, <4>1 DEF RowStep, Untouched
        <3>3. QED
            BY <3>1, <3>2
    <2>5. QED
        BY <1>4, <2>3, <2>4 DEF CompleteCampaignOutbox
<1>5. CASE FailCampaignOutbox(w)
    <2>1. recoveries' = recoveries /\ Rest(w)
        BY <1>5 DEF FailCampaignOutbox
    <2>2. CASE UNCHANGED <<outbox, deadLetters>>
        BY <2>1, <2>2, UntouchedFrame
    <2>3. ASSUME NEW t \in Instants(w), Current(w, t),
                 outbox' = [outbox EXCEPT ![h] =
                     Failed(outbox[h],
                            IF LastAttempt(w) THEN "EXHAUSTED" ELSE "PENDING",
                            DeterministicRetryAt(t, held[w].attempt))],
                 deadLetters' = IF LastAttempt(w) THEN WithDeadLetter(h)
                                ELSE deadLetters
          PROVE  RowStep(o)
        <3>1. DeterministicRetryAt(t, held[w].attempt) \in Int
            BY <1>2, InstantType, RetryAtType
        <3>2. CASE o = h
            <4>1. Acts(w, o, t)
                BY <1>1, <2>1, <2>3, <3>2, RestPhase DEF Acts
            <4>2. \E u \in Int :
                     outbox'[o] = Failed(outbox[o],
                         IF LastAttempt(w) THEN "EXHAUSTED" ELSE "PENDING", u)
                BY <1>2, <2>3, <3>1, <3>2
            <4>3. IF LastAttempt(w) THEN OneMoreLetter(o) ELSE SameLetters(o)
                BY <2>1, <2>3, <3>2 DEF WithDeadLetter, OneMoreLetter, SameLetters
            <4>4. QED
                BY <4>1, <4>2, <4>3 DEF RowStep, FailedBy
        <3>3. CASE o # h
            <4>1. outbox'[o] = outbox[o]
                BY <1>2, <2>3, <3>3
            <4>2. SameLetters(o)
                BY <2>1, <2>3, <3>3 DEF WithDeadLetter, SameLetters
            <4>3. QED
                BY <4>1, <4>2 DEF RowStep, Untouched
        <3>4. QED
            BY <3>2, <3>3
    <2>4. QED
        BY <1>5, <2>2, <2>3 DEF FailCampaignOutbox
<1>6. QED
    BY <1>3, <1>4, <1>5

\* In every step every row is left alone, recovered, or changed in one of six
\* ways by one worker.
LEMMA RowStepLemma ==
    ASSUME TypeInv, [Next]_vars, NEW o \in Outboxes
    PROVE  RowStep(o)
<1>1. ASSUME NEW w \in Workers, Process(w) \/ Crash(w) PROVE RowStep(o)
    <2>1. CASE ReadClock(w) \/ Crash(w)
        BY <2>1, UntouchedFrame DEF ReadClock, Crash, tables
    <2>2. QED
        BY <1>1, <2>1, ClaimRowStep, AuthorizeRowStep, ExecuteRowStep DEF Process
<1>2. ASSUME NEW p \in Outboxes, RecoverCampaignDeadLetter(p) PROVE RowStep(o)
    <2>1. CASE o = p
        BY <1>2, <2>1 DEF RowStep
    <2>2. CASE o # p
        <3>1. outbox'[o] = outbox[o] /\ SameLetters(o)
            BY <1>2, <2>2 DEF RecoverCampaignDeadLetter, SameLetters, TypeInv, TypeOK
        <3>2. QED
            BY <3>1 DEF RowStep, Untouched
    <2>3. QED
        BY <2>1, <2>2
<1>3. CASE Tick \/ UNCHANGED vars
    BY <1>3, UntouchedFrame DEF Tick, tables, vars
<1>4. QED
    BY <1>1, <1>2, <1>3 DEF Next

------------------------------------------------------------------------------
(* Leases.                                                                 *)

\* No worker acts for an instant that has not come, and a row without an owner
\* has no lease.
NoFuture == \A w \in Workers : now[w] <= clock

Leased == \A o \in Outboxes : outbox[o].owner = NoWorker => outbox[o].expiresAt = 0

LeaseInv == TypeInv /\ NoFuture /\ Leased

LEMMA NowFrame ==
    ASSUME TypeInv, [Next]_vars, NEW w \in Workers
    PROVE  /\ now'[w] \in {now[w], clock, 0}
           /\ clock' >= clock
<1>1. ASSUME NEW v \in Workers, Rest(v)
      PROVE  now'[w] \in {now[w], clock, 0}
    BY <1>1 DEF Rest, TypeInv, TypeOK
<1>2. ASSUME NEW v \in Workers, Process(v) \/ Crash(v)
      PROVE  /\ now'[w] \in {now[w], clock, 0}
             /\ clock' >= clock
    <2>1. CASE ReadClock(v)
        BY <2>1 DEF ReadClock, TypeInv, TypeOK
    <2>2. CASE FinalizeExpiredFinalAttempt(v)
        BY <2>2 DEF FinalizeExpiredFinalAttempt, Goto, TypeInv, TypeOK
    <2>3. CASE ClaimCampaignOutbox(v)
        <3>1. clock' = clock /\ (Rest(v) \/ \E o \in Outboxes : ClaimRow(v, o))
            BY <2>3 DEF ClaimCampaignOutbox
        <3>2. (\E o \in Outboxes : ClaimRow(v, o)) => now' = now
            BY ClaimRowType
        <3>3. clock' >= clock
            BY <3>1 DEF TypeInv, TypeOK
        <3>4. QED
            BY <1>1, <3>1, <3>2, <3>3
    <2>4. CASE ReserveDailyLeadAllocation(v)
        BY <1>1, <2>4 DEF ReserveDailyLeadAllocation, TypeInv, TypeOK
    <2>5. CASE AuthorizeCampaignExecution(v)
        BY <1>1, <2>5
        DEF AuthorizeCampaignExecution, AuthorizeStale, AuthorizeAdministrative,
            AuthorizeConfirmed, AuthorizeIneligible, AuthorizeTooSoon,
            AuthorizeRetry, AuthorizeOverLimit, AuthorizeStart, Goto, TypeInv, TypeOK
    <2>6. CASE ConfirmSimulatedCampaignExecution(v)
        BY <1>1, <2>6 DEF ConfirmSimulatedCampaignExecution, Goto, TypeInv, TypeOK
    <2>7. CASE CompleteCampaignOutbox(v) \/ FailCampaignOutbox(v)
        BY <1>1, <2>7 DEF CompleteCampaignOutbox, FailCampaignOutbox, TypeInv, TypeOK
    <2>8. CASE Crash(v)
        BY <1>1, <2>8 DEF Crash, TypeInv, TypeOK
    <2>9. QED
        BY <1>2, <2>1, <2>2, <2>3, <2>4, <2>5, <2>6, <2>7, <2>8 DEF Process
<1>3. ASSUME NEW o \in Outboxes, RecoverCampaignDeadLetter(o)
      PROVE  /\ now'[w] \in {now[w], clock, 0}
             /\ clock' >= clock
    BY <1>3 DEF RecoverCampaignDeadLetter, TypeInv, TypeOK
<1>4. CASE Tick \/ UNCHANGED vars
    BY <1>4 DEF Tick, vars, TypeInv, TypeOK
<1>5. QED
    BY <1>2, <1>3, <1>4 DEF Next

\* What each way of changing a row makes of it.
LEMMA RowForms ==
    ASSUME TypeInv, NEW o \in Outboxes
    PROVE  /\ \A s \in Status :
                 /\ Closed(outbox[o], s).owner = NoWorker
                 /\ Closed(outbox[o], s).expiresAt = 0
                 /\ Closed(outbox[o], s).status = s
                 /\ Closed(outbox[o], s).attempts = outbox[o].attempts
                 /\ Closed(outbox[o], s).snapshot = outbox[o].snapshot
                 /\ Closed(outbox[o], s).cycle = outbox[o].cycle
                 /\ \A n \in Nat : LET r == [Closed(outbox[o], s) EXCEPT !.snapshot = n]
                                   IN  /\ r.owner = NoWorker /\ r.expiresAt = 0
                                       /\ r.status = s /\ r.snapshot = n
                                       /\ r.attempts = outbox[o].attempts
                                       /\ r.cycle = outbox[o].cycle
           /\ \A s \in Status, t \in Int :
                 /\ Failed(outbox[o], s, t).owner = NoWorker
                 /\ Failed(outbox[o], s, t).expiresAt = 0
                 /\ Failed(outbox[o], s, t).status = s
                 /\ Failed(outbox[o], s, t).attempts = outbox[o].attempts
                 /\ Failed(outbox[o], s, t).snapshot = outbox[o].snapshot
                 /\ Failed(outbox[o], s, t).cycle = outbox[o].cycle
           /\ \A t \in Int :
                 /\ Deferred(outbox[o], t).owner = NoWorker
                 /\ Deferred(outbox[o], t).expiresAt = 0
                 /\ Deferred(outbox[o], t).status = outbox[o].status
                 /\ Deferred(outbox[o], t).attempts =
                       IF outbox[o].attempts = 0 THEN 0 ELSE outbox[o].attempts - 1
                 /\ Deferred(outbox[o], t).snapshot = outbox[o].snapshot
                 /\ Deferred(outbox[o], t).cycle = outbox[o].cycle
<1>1. outbox[o] \in Row
    BY DEF TypeInv, TypeOK
<1>2. QED
    BY <1>1 DEF Row, Unclaimed, Closed, Failed, Deferred

LEMMA ClaimForm ==
    ASSUME TypeInv, NEW w \in Workers, NEW o \in Outboxes, ClaimRow(w, o)
    PROVE  /\ outbox'[o].owner = w
           /\ outbox'[o].status = outbox[o].status
           /\ outbox'[o].generation = outbox[o].generation + 1
           /\ outbox'[o].expiresAt = now[w] + LeaseLength
           /\ outbox'[o].attempts = outbox[o].attempts + 1
           /\ outbox'[o].snapshot = Limit(outbox[o], w)
           /\ outbox'[o].cycle = outbox[o].cycle
           /\ held'[w].outbox = o
           /\ held'[w].generation = outbox'[o].generation
           /\ held'[w].attempt = outbox'[o].attempts
           /\ held'[w].maxAttempts = outbox'[o].snapshot
           /\ held'[w].cycle = outbox'[o].cycle
           /\ phase'[w] = "claimed"
<1>1. outbox[o] \in Row /\ outbox \in [Outboxes -> Row]
    BY DEF TypeInv, TypeOK
<1>2. held \in [Workers -> Claim \cup {NoClaim}] /\ phase \in [Workers -> Phase]
    BY DEF TypeInv, TypeOK
<1>3. QED
    BY <1>1, <1>2 DEF ClaimRow, Row

LEMMA RecoverForm ==
    ASSUME TypeInv, NEW o \in Outboxes, RecoverCampaignDeadLetter(o)
    PROVE  /\ outbox'[o].owner = NoWorker
           /\ outbox'[o].expiresAt = 0
           /\ outbox'[o].status = "PENDING"
           /\ outbox'[o].attempts = 0
           /\ outbox'[o].snapshot = 0
           /\ outbox'[o].cycle = outbox[o].cycle + 1
<1>1. outbox[o] \in Row /\ outbox \in [Outboxes -> Row]
    BY DEF TypeInv, TypeOK
<1>2. PICK t \in clock .. MaxTime :
         outbox' = [outbox EXCEPT ![o] =
             [Failed(outbox[o], "PENDING", t) EXCEPT !.attempts = 0,
                 !.cycle = outbox[o].cycle + 1, !.snapshot = 0]]
    BY DEF RecoverCampaignDeadLetter
<1>3. outbox'[o] = [Failed(outbox[o], "PENDING", t) EXCEPT !.attempts = 0,
                       !.cycle = outbox[o].cycle + 1, !.snapshot = 0]
    BY <1>1, <1>2
<1>4. QED
    BY <1>1, <1>3 DEF Failed, Closed, Unclaimed, Row

LEMMA LeaseStep ==
    ASSUME LeaseInv, [Next]_vars
    PROVE  /\ LeaseInv'
           /\ \A o \in Outboxes :
                 outbox[o].expiresAt > clock /\ outbox'[o] # outbox[o] =>
                    \E w \in Workers :
                       /\ phase[w] \in {"claimed", "executing", "confirmed"}
                       /\ held[w].outbox = o
                       /\ held[w].generation = outbox[o].generation
                       /\ phase'[w] # phase[w]
<1>0. TypeInv /\ TypeInv'
    BY TypeInvStep DEF LeaseInv
<1>1. /\ clock \in Nat /\ clock' \in Nat
      /\ \A w \in Workers : now[w] \in Nat /\ now'[w] \in Nat /\ now[w] <= clock
    BY <1>0, OutboxAssumption DEF LeaseInv, NoFuture, TypeInv, TypeOK
<1>2. NoFuture'
    BY <1>0, <1>1, NowFrame DEF NoFuture
<1>3. ASSUME NEW o \in Outboxes
      PROVE  /\ outbox'[o].owner = NoWorker => outbox'[o].expiresAt = 0
             /\ outbox[o].expiresAt > clock /\ outbox'[o] # outbox[o] =>
                    \E w \in Workers :
                       /\ phase[w] \in {"claimed", "executing", "confirmed"}
                       /\ held[w].outbox = o
                       /\ held[w].generation = outbox[o].generation
                       /\ phase'[w] # phase[w]
    <2>1. outbox[o].expiresAt \in Nat /\ (outbox[o].owner = NoWorker => outbox[o].expiresAt = 0)
        BY <1>0 DEF LeaseInv, Leased, TypeInv, TypeOK, Row
    <2>2. ASSUME NEW w \in Workers, NEW t \in Instants(w), Acts(w, o, t)
          PROVE  /\ phase[w] \in {"claimed", "executing", "confirmed"}
                 /\ held[w].outbox = o
                 /\ held[w].generation = outbox[o].generation
                 /\ phase'[w] # phase[w]
        BY <2>2 DEF Acts, Busy, Current
    <2>3. CASE Untouched(o)
        BY <2>1, <2>3 DEF Untouched
    <2>4. CASE RecoverCampaignDeadLetter(o)
        <3>1. outbox[o].owner = NoWorker
            BY <2>4 DEF RecoverCampaignDeadLetter
        <3>2. outbox'[o].expiresAt = 0
            BY <1>0, <2>4, RecoverForm
        <3>3. QED
            BY <1>1, <2>1, <3>1, <3>2
    <2>5. ASSUME NEW w \in Workers, SettledBy(w, o)
          PROVE  ~(outbox[o].expiresAt > clock) /\ outbox'[o].expiresAt = 0
        <3>1. outbox[o].expiresAt <= now[w]
            BY <2>5 DEF SettledBy, ExpiredFinal
        <3>2. Limit(outbox[o], w) \in Nat
            BY <1>0, LimitType DEF TypeInv, TypeOK
        <3>3. outbox'[o].expiresAt = 0
            BY <1>0, <2>5, <3>2, RowForms DEF SettledBy, Status
        <3>4. QED
            BY <1>1, <2>1, <3>1, <3>3
    <2>6. ASSUME NEW w \in Workers, ClaimedBy(w, o)
          PROVE  ~(outbox[o].expiresAt > clock) /\ outbox'[o].owner # NoWorker
        <3>1. outbox[o].owner = NoWorker \/ outbox[o].expiresAt <= now[w]
            BY <2>6 DEF ClaimedBy, Claimable
        <3>2. outbox'[o].owner = w
            BY <1>0, <2>6, ClaimForm DEF ClaimedBy
        <3>3. QED
            BY <1>1, <2>1, <3>1, <3>2, OutboxAssumption
    <2>7. ASSUME NEW w \in Workers, DeferredBy(w, o)
          PROVE  outbox'[o].expiresAt = 0
        BY <1>0, <2>7, RowForms DEF DeferredBy
    <2>8. ASSUME NEW w \in Workers, BlockedBy(w, o) \/ PublishedBy(w, o)
          PROVE  outbox'[o].expiresAt = 0
        BY <1>0, <2>8, RowForms DEF BlockedBy, PublishedBy, Status
    <2>9. ASSUME NEW w \in Workers, FailedBy(w, o)
          PROVE  outbox'[o].expiresAt = 0
        BY <1>0, <2>9, RowForms DEF FailedBy, Status
    <2>10. ASSUME NEW w \in Workers,
                  DeferredBy(w, o) \/ BlockedBy(w, o) \/ PublishedBy(w, o) \/ FailedBy(w, o)
           PROVE  \E t \in Instants(w) : Acts(w, o, t)
        BY <2>10 DEF DeferredBy, BlockedBy, PublishedBy, FailedBy
    <2>11. QED
        BY <1>0, <2>2, <2>3, <2>4, <2>5, <2>6, <2>7, <2>8, <2>9, <2>10, RowStepLemma
        DEF RowStep
<1>4. Leased'
    BY <1>3 DEF Leased
<1>5. QED
    BY <1>0, <1>2, <1>3, <1>4 DEF LeaseInv

LEMMA LeaseInvInit == Init => LeaseInv
<1> SUFFICES ASSUME Init PROVE LeaseInv
    OBVIOUS
<1>1. NoFuture
    BY DEF Init, NoFuture
<1>2. Leased
    BY DEF Init, Leased, NewRow
<1>3. QED
    BY <1>1, <1>2, TypeInvInit DEF LeaseInv

\* A lease that has not run out by the true clock protects its row from
\* everybody but the claim that holds it, however stale the instants the
\* other workers act for.
THEOREM LeasesExclusive == Spec => LiveLeaseIsExclusive
<1>1. LeaseInv /\ [Next]_vars => LeaseInv'
    BY LeaseStep
<1>2. LeaseInv /\ [Next]_vars =>
         [\A o \in Outboxes :
            outbox[o].expiresAt > clock /\ outbox'[o] # outbox[o] =>
               \E w \in Workers :
                  /\ phase[w] \in {"claimed", "executing", "confirmed"}
                  /\ held[w].outbox = o
                  /\ held[w].generation = outbox[o].generation
                  /\ phase'[w] # phase[w]]_vars
    BY LeaseStep
<1>3. QED
    BY <1>1, <1>2, LeaseInvInit, PTL DEF Spec, LiveLeaseIsExclusive

------------------------------------------------------------------------------
(* Attempts.                                                               *)

RowCounts(o) ==
    /\ outbox[o].attempts <= outbox[o].snapshot
    /\ outbox[o].status # "PENDING" => outbox[o].owner = NoWorker
    /\ outbox[o].owner # NoWorker => outbox[o].attempts >= 1
    /\ outbox[o].status = "PENDING" /\ outbox[o].owner = NoWorker =>
          outbox[o].snapshot = 0 \/ outbox[o].attempts < outbox[o].snapshot
    /\ outbox[o].status = "EXHAUSTED" => outbox[o].attempts = outbox[o].snapshot

\* While a claim owns its row it describes it: the attempt, limit and cycle
\* the worker carries are the row's.  failCampaignOutbox decides exhaustion
\* from the carried ones, and completeCampaignOutbox does not compare cycles.
ClaimMatchesRow(w) ==
    LET row == outbox[held[w].outbox]
    IN  phase[w] \in Busy /\ row.owner = w /\ row.generation = held[w].generation =>
           /\ row.attempts = held[w].attempt
           /\ row.snapshot = held[w].maxAttempts
           /\ row.cycle = held[w].cycle

CountInv == /\ TypeInv
            /\ \A o \in Outboxes : RowCounts(o)
            /\ \A w \in Workers : ClaimMatchesRow(w)

\* A worker keeps its claim while it is busy, and gets one only by claiming.
LEMMA HeldFrame ==
    ASSUME TypeInv, [Next]_vars, NEW v \in Workers, phase'[v] \in Busy
    PROVE  \/ phase[v] \in Busy /\ held'[v] = held[v]
           \/ \E o \in Outboxes : ClaimRow(v, o)
<1> DEFINE Goal == \/ phase[v] \in Busy /\ held'[v] = held[v]
                   \/ \E o \in Outboxes : ClaimRow(v, o)
<1>0. phase \in [Workers -> Phase] /\ held \in [Workers -> Claim \cup {NoClaim}]
    BY DEF TypeInv, TypeOK
<1>1. ASSUME NEW w \in Workers, Rest(w) PROVE Goal
    BY <1>0, <1>1 DEF Rest, Busy
<1>2. ASSUME NEW w \in Workers, NEW p \in Phase, Goto(w, p),
             phase[w] \in Busy \/ p \notin Busy
      PROVE  Goal
    BY <1>0, <1>2 DEF Goto
<1>3. ASSUME NEW w \in Workers, NEW o \in Outboxes, ClaimRow(w, o) PROVE Goal
    BY <1>0, <1>3 DEF ClaimRow
<1>4. ASSUME NEW w \in Workers, Process(w) \/ Crash(w) PROVE Goal
    <2>1. CASE ReadClock(w)
        BY <1>0, <2>1 DEF ReadClock, Busy
    <2>2. CASE FinalizeExpiredFinalAttempt(w)
        BY <1>2, <2>2 DEF FinalizeExpiredFinalAttempt, Phase, Busy
    <2>3. CASE ClaimCampaignOutbox(w)
        BY <1>1, <1>3, <2>3 DEF ClaimCampaignOutbox
    <2>4. CASE ReserveDailyLeadAllocation(w)
        BY <1>1, <2>4 DEF ReserveDailyLeadAllocation
    <2>5. CASE AuthorizeCampaignExecution(w)
        <3>1. phase[w] \in Busy /\ "executing" \in Phase /\ "confirmed" \in Phase
            BY <2>5 DEF AuthorizeCampaignExecution, Busy, Phase
        <3>2. Rest(w) \/ Goto(w, "executing") \/ Goto(w, "confirmed")
            BY <2>5
            DEF AuthorizeCampaignExecution, AuthorizeStale, AuthorizeAdministrative,
                AuthorizeConfirmed, AuthorizeIneligible, AuthorizeTooSoon,
                AuthorizeRetry, AuthorizeOverLimit, AuthorizeStart
        <3>3. QED
            BY <1>1, <1>2, <3>1, <3>2
    <2>6. CASE ConfirmSimulatedCampaignExecution(w)
        <3>1. phase[w] \in Busy /\ "confirmed" \in Phase
            BY <2>6 DEF ConfirmSimulatedCampaignExecution, Busy, Phase
        <3>2. Rest(w) \/ Goto(w, "confirmed")
            BY <2>6 DEF ConfirmSimulatedCampaignExecution
        <3>3. QED
            BY <1>1, <1>2, <3>1, <3>2
    <2>7. CASE CompleteCampaignOutbox(w) \/ FailCampaignOutbox(w) \/ Crash(w)
        BY <1>1, <2>7 DEF CompleteCampaignOutbox, FailCampaignOutbox, Crash
    <2>8. QED
        BY <1>4, <2>1, <2>2, <2>3, <2>4, <2>5, <2>6, <2>7 DEF Process
<1>5. ASSUME NEW o \in Outboxes, RecoverCampaignDeadLetter(o) PROVE Goal
    BY <1>5 DEF RecoverCampaignDeadLetter
<1>6. CASE Tick \/ UNCHANGED vars
    BY <1>6 DEF Tick, vars
<1>7. QED
    BY <1>4, <1>5, <1>6 DEF Next

\* A claim that acts is the row's.
LEMMA ActsMatch ==
    ASSUME CountInv, NEW w \in Workers, NEW o \in Outboxes,
           \E t \in Instants(w) : Acts(w, o, t)
    PROVE  /\ held[w].outbox = o
           /\ outbox[o].status = "PENDING"
           /\ outbox[o].owner = w
           /\ outbox[o].owner # NoWorker
           /\ outbox[o].attempts = held[w].attempt
           /\ outbox[o].snapshot = held[w].maxAttempts
           /\ outbox[o].cycle = held[w].cycle
           /\ phase[w] \in Busy
    BY OutboxAssumption DEF CountInv, ClaimMatchesRow, Acts, Current

LEMMA RowCountsStep ==
    ASSUME CountInv, [Next]_vars, NEW o \in Outboxes
    PROVE  RowCounts(o)'
<1>0. /\ TypeInv
      /\ RowCounts(o)
      /\ outbox[o] \in Row
      /\ outbox[o].attempts \in Nat
      /\ outbox[o].snapshot \in Nat
    BY DEF CountInv, TypeInv, TypeOK, Row
<1>1. CASE Untouched(o)
    BY <1>0, <1>1 DEF Untouched, RowCounts
<1>2. CASE RecoverCampaignDeadLetter(o)
    BY <1>0, <1>2, RecoverForm DEF RowCounts
<1>3. ASSUME NEW w \in Workers, SettledBy(w, o) PROVE RowCounts(o)'
    <2>1. /\ outbox[o].attempts >= Limit(outbox[o], w)
          /\ outbox[o].owner # NoWorker
        BY <1>3 DEF SettledBy, ExpiredFinal
    <2>2. Limit(outbox[o], w) = outbox[o].snapshot
        BY <1>0, <2>1 DEF RowCounts, Limit
    <2>3. /\ outbox'[o].attempts = outbox[o].attempts
          /\ outbox'[o].snapshot = outbox[o].snapshot
          /\ outbox'[o].owner = NoWorker
          /\ outbox'[o].status # "PENDING"
        BY <1>0, <1>3, <2>2, RowForms DEF SettledBy, Status
    <2>4. QED
        BY <1>0, <2>1, <2>2, <2>3 DEF RowCounts
<1>4. ASSUME NEW w \in Workers, ClaimedBy(w, o) PROVE RowCounts(o)'
    <2>1. Limit(outbox[o], w) \in Nat /\ outbox[o].attempts < Limit(outbox[o], w)
        BY <1>0, <1>4, LimitType DEF ClaimedBy, Claimable
    <2>2. /\ outbox'[o].attempts = outbox[o].attempts + 1
          /\ outbox'[o].snapshot = Limit(outbox[o], w)
          /\ outbox'[o].owner = w
          /\ outbox'[o].status = "PENDING"
        BY <1>0, <1>4, ClaimForm DEF ClaimedBy, Claimable
    <2>3. QED
        BY <1>0, <2>1, <2>2, OutboxAssumption DEF RowCounts
<1>5. ASSUME NEW w \in Workers, DeferredBy(w, o) PROVE RowCounts(o)'
    <2>1. outbox[o].attempts >= 1 /\ outbox[o].status = "PENDING"
        BY <1>0, <1>5, ActsMatch DEF DeferredBy, RowCounts
    <2>2. /\ outbox'[o].attempts = outbox[o].attempts - 1
          /\ outbox'[o].snapshot = outbox[o].snapshot
          /\ outbox'[o].owner = NoWorker
          /\ outbox'[o].status = "PENDING"
        BY <1>0, <1>5, <2>1, RowForms DEF DeferredBy
    <2>3. QED
        BY <1>0, <2>1, <2>2 DEF RowCounts
<1>6. ASSUME NEW w \in Workers, BlockedBy(w, o) \/ PublishedBy(w, o)
      PROVE  RowCounts(o)'
    <2>1. /\ outbox'[o].attempts = outbox[o].attempts
          /\ outbox'[o].snapshot = outbox[o].snapshot
          /\ outbox'[o].owner = NoWorker
          /\ outbox'[o].status \in {"BLOCKED", "PUBLISHED"}
        BY <1>0, <1>6, RowForms DEF BlockedBy, PublishedBy, Status
    <2>2. QED
        BY <1>0, <2>1 DEF RowCounts
<1>7. ASSUME NEW w \in Workers, FailedBy(w, o) PROVE RowCounts(o)'
    <2>1. /\ outbox[o].attempts = held[w].attempt
          /\ outbox[o].snapshot = held[w].maxAttempts
          /\ outbox[o].owner # NoWorker
        BY <1>7, ActsMatch DEF FailedBy
    <2> DEFINE s == IF LastAttempt(w) THEN "EXHAUSTED" ELSE "PENDING"
    <2>2. s \in Status
        BY DEF Status
    <2>3. PICK u \in Int : outbox'[o] = Failed(outbox[o], s, u)
        BY <1>7 DEF FailedBy
    <2> HIDE DEF s
    <2>4. /\ outbox'[o].attempts = outbox[o].attempts
          /\ outbox'[o].snapshot = outbox[o].snapshot
          /\ outbox'[o].owner = NoWorker
          /\ outbox'[o].status = s
        BY <1>0, <2>2, <2>3, RowForms
    <2>5. QED
        BY <1>0, <2>1, <2>4 DEF RowCounts, LastAttempt, s
<1>8. QED
    BY <1>0, <1>1, <1>2, <1>3, <1>4, <1>5, <1>6, <1>7, RowStepLemma DEF RowStep

\* A row changed by a worker other than by a claim is owned by nobody.
LEMMA ChangedRowIsFree ==
    ASSUME TypeInv, [Next]_vars, NEW o \in Outboxes
    PROVE  \/ outbox'[o] = outbox[o]
           \/ outbox'[o].owner = NoWorker
           \/ \E w \in Workers : ClaimRow(w, o)
<1>1. ASSUME NEW w \in Workers, SettledBy(w, o) PROVE outbox'[o].owner = NoWorker
    <2>1. Limit(outbox[o], w) \in Nat
        BY LimitType DEF TypeInv, TypeOK
    <2>2. QED
        BY <1>1, <2>1, RowForms DEF SettledBy, Status
<1>2. ASSUME NEW w \in Workers, DeferredBy(w, o) PROVE outbox'[o].owner = NoWorker
    BY <1>2, RowForms DEF DeferredBy
<1>3. ASSUME NEW w \in Workers, BlockedBy(w, o) \/ PublishedBy(w, o)
      PROVE  outbox'[o].owner = NoWorker
    BY <1>3, RowForms DEF BlockedBy, PublishedBy, Status
<1>4. ASSUME NEW w \in Workers, FailedBy(w, o) PROVE outbox'[o].owner = NoWorker
    BY <1>4, RowForms DEF FailedBy, Status
<1>5. QED
    BY <1>1, <1>2, <1>3, <1>4, RowStepLemma, RecoverForm
    DEF RowStep, Untouched, ClaimedBy

LEMMA ClaimMatchesRowStep ==
    ASSUME CountInv, [Next]_vars, NEW w \in Workers
    PROVE  ClaimMatchesRow(w)'
<1>0. TypeInv /\ TypeInv' /\ ClaimMatchesRow(w)
    BY TypeInvStep DEF CountInv
<1> DEFINE h == held'[w].outbox
<1>1. SUFFICES ASSUME phase'[w] \in Busy, outbox'[h].owner = w,
                      outbox'[h].generation = held'[w].generation
               PROVE  /\ outbox'[h].attempts = held'[w].attempt
                      /\ outbox'[h].snapshot = held'[w].maxAttempts
                      /\ outbox'[h].cycle = held'[w].cycle
    BY DEF ClaimMatchesRow
<1>2. h \in Outboxes
    BY <1>0, <1>1 DEF TypeInv, BusyHoldsClaim, Claim
<1>3. CASE \E o \in Outboxes : ClaimRow(w, o)
    BY <1>0, <1>3, ClaimForm
<1>4. CASE ~(\E o \in Outboxes : ClaimRow(w, o)) /\ phase[w] \in Busy /\ held'[w] = held[w]
    <2>1. ASSUME NEW v \in Workers, ClaimRow(v, h) PROVE FALSE
        <3>1. outbox'[h].owner = v
            BY <1>0, <1>2, <2>1, ClaimForm
        <3>2. QED
            BY <1>1, <1>2, <1>4, <2>1, <3>1
    <2>2. outbox'[h] = outbox[h]
        BY <1>0, <1>1, <1>2, <2>1, ChangedRowIsFree, OutboxAssumption
    <2>3. QED
        BY <1>0, <1>1, <1>4, <2>2 DEF ClaimMatchesRow
<1>5. QED
    BY <1>0, <1>1, <1>3, <1>4, HeldFrame

LEMMA CountInvInit == Init => CountInv
<1> SUFFICES ASSUME Init PROVE CountInv
    OBVIOUS
<1>1. \A o \in Outboxes : RowCounts(o)
    BY DEF Init, RowCounts, NewRow
<1>2. \A w \in Workers : ClaimMatchesRow(w)
    BY DEF Init, ClaimMatchesRow, Busy
<1>3. QED
    BY <1>1, <1>2, TypeInvInit DEF CountInv

LEMMA CountInvStep == CountInv /\ [Next]_vars => CountInv'
<1> SUFFICES ASSUME CountInv, [Next]_vars PROVE CountInv'
    OBVIOUS
<1>1. TypeInv'
    BY TypeInvStep DEF CountInv
<1>2. \A o \in Outboxes : RowCounts(o)'
    BY RowCountsStep
<1>3. \A w \in Workers : ClaimMatchesRow(w)'
    BY ClaimMatchesRowStep
<1>4. QED
    BY <1>1, <1>2, <1>3 DEF CountInv

THEOREM CountInvariant == Spec => []CountInv
    BY CountInvInit, CountInvStep, PTL DEF Spec

\* An event never gets more attempts than the limit frozen at its first claim
\* and is given up only when it has used them all.
THEOREM AttemptsCorrect == Spec => []AttemptsExact
<1>1. CountInv => AttemptsExact
    BY DEF CountInv, RowCounts, AttemptsExact
<1>2. QED
    BY <1>1, CountInvariant, PTL

\* No pending event is out of reach of both queries, even while processes
\* with different limits run side by side.
THEOREM NoLimboCorrect == Spec => []NoLimbo
<1>1. CountInv => NoLimbo
    <2> SUFFICES ASSUME CountInv, NEW o \in Outboxes, NEW w \in Workers,
                        outbox[o].status = "PENDING", outbox[o].owner = NoWorker
                 PROVE  outbox[o].attempts < Limit(outbox[o], w)
        BY DEF NoLimbo
    <2>1. /\ outbox[o].attempts \in Nat
          /\ outbox[o].snapshot \in Nat
          /\ RowCounts(o)
        BY DEF CountInv, TypeInv, TypeOK, Row
    <2>2. ConfiguredMaxAttempts[w] \in Nat \ {0}
        BY OutboxAssumption
    <2>3. QED
        BY <2>1, <2>2 DEF RowCounts, Limit
<1>2. QED
    BY <1>1, CountInvariant, PTL

------------------------------------------------------------------------------
(* Dead letters.                                                           *)

Letters(o) ==
    \A c \in Nat :
        /\ <<o, c>> \in recoveries <=> c < outbox[o].cycle
        /\ <<o, c>> \in deadLetters <=>
               \/ c < outbox[o].cycle
               \/ c = outbox[o].cycle /\ outbox[o].status = "EXHAUSTED"

LetterInv == CountInv /\ \A o \in Outboxes : Letters(o)

LEMMA LettersStep ==
    ASSUME LetterInv, [Next]_vars, NEW o \in Outboxes
    PROVE  Letters(o)'
<1>0. /\ TypeInv
      /\ CountInv
      /\ Letters(o)
      /\ outbox[o].cycle \in Nat
    BY DEF LetterInv, CountInv, TypeInv, TypeOK, Row
<1>1. CASE Untouched(o)
    BY <1>0, <1>1 DEF Untouched, Letters, SameLetters
<1>2. CASE RecoverCampaignDeadLetter(o)
    <2>1. /\ outbox[o].status = "EXHAUSTED"
          /\ deadLetters' = deadLetters
          /\ recoveries' = recoveries \cup {<<o, outbox[o].cycle>>}
        BY <1>2 DEF RecoverCampaignDeadLetter
    <2>2. outbox'[o].cycle = outbox[o].cycle + 1 /\ outbox'[o].status = "PENDING"
        BY <1>0, <1>2, RecoverForm
    <2>3. \A c \in Nat : c < outbox[o].cycle + 1 <=> c < outbox[o].cycle \/ c = outbox[o].cycle
        BY <1>0
    <2>4. ASSUME NEW c \in Nat
          PROVE  /\ <<o, c>> \in recoveries' <=> c < outbox'[o].cycle
                 /\ <<o, c>> \in deadLetters' <=>
                       \/ c < outbox'[o].cycle
                       \/ c = outbox'[o].cycle /\ outbox'[o].status = "EXHAUSTED"
        <3>1. <<o, c>> \in recoveries' <=> <<o, c>> \in recoveries \/ c = outbox[o].cycle
            BY <2>1
        <3>2. QED
            BY <1>0, <2>1, <2>2, <2>3, <3>1 DEF Letters
    <2>5. QED
        BY <2>4 DEF Letters
<1>3. ASSUME outbox'[o].cycle = outbox[o].cycle,
             outbox[o].status # "EXHAUSTED",
             \/ outbox'[o].status # "EXHAUSTED" /\ SameLetters(o)
             \/ outbox'[o].status = "EXHAUSTED" /\ OneMoreLetter(o)
      PROVE  Letters(o)'
    BY <1>0, <1>3 DEF Letters, SameLetters, OneMoreLetter
<1>4. ASSUME NEW w \in Workers, SettledBy(w, o) PROVE Letters(o)'
    <2>1. Limit(outbox[o], w) \in Nat /\ outbox[o].status = "PENDING"
        BY <1>0, <1>4, LimitType DEF TypeInv, TypeOK, SettledBy, ExpiredFinal
    <2>2. /\ outbox'[o].cycle = outbox[o].cycle
          /\ outbox'[o].status = IF Confirmed(o, outbox[o].cycle) THEN "PUBLISHED"
                                 ELSE "EXHAUSTED"
        BY <1>0, <1>4, <2>1, RowForms DEF SettledBy, Status
    <2>3. QED
        BY <1>3, <1>4, <2>1, <2>2 DEF SettledBy
<1>5. ASSUME NEW w \in Workers, ClaimedBy(w, o) PROVE Letters(o)'
    BY <1>0, <1>3, <1>5, ClaimForm DEF ClaimedBy, Claimable
<1>6. ASSUME NEW w \in Workers, DeferredBy(w, o) PROVE Letters(o)'
    <2>1. outbox[o].status = "PENDING"
        BY <1>0, <1>6, ActsMatch DEF DeferredBy
    <2>2. /\ outbox'[o].cycle = outbox[o].cycle
          /\ outbox'[o].status = "PENDING"
        BY <1>0, <1>6, <2>1, RowForms DEF DeferredBy
    <2>3. QED
        BY <1>3, <1>6, <2>1, <2>2 DEF DeferredBy
<1>7. ASSUME NEW w \in Workers, BlockedBy(w, o) \/ PublishedBy(w, o)
      PROVE  Letters(o)'
    <2>1. outbox[o].status = "PENDING" /\ SameLetters(o)
        BY <1>0, <1>7, ActsMatch DEF BlockedBy, PublishedBy
    <2>2. /\ outbox'[o].cycle = outbox[o].cycle
          /\ outbox'[o].status # "EXHAUSTED"
        BY <1>0, <1>7, RowForms DEF BlockedBy, PublishedBy, Status
    <2>3. QED
        BY <1>3, <2>1, <2>2
<1>8. ASSUME NEW w \in Workers, FailedBy(w, o) PROVE Letters(o)'
    <2> DEFINE s == IF LastAttempt(w) THEN "EXHAUSTED" ELSE "PENDING"
    <2>1. outbox[o].status = "PENDING" /\ s \in Status
        BY <1>0, <1>8, ActsMatch DEF FailedBy, Status
    <2>2. PICK u \in Int : outbox'[o] = Failed(outbox[o], s, u)
        BY <1>8 DEF FailedBy
    <2>3. IF LastAttempt(w) THEN OneMoreLetter(o) ELSE SameLetters(o)
        BY <1>8 DEF FailedBy
    <2> HIDE DEF s
    <2>4. outbox'[o].cycle = outbox[o].cycle /\ outbox'[o].status = s
        BY <1>0, <2>1, <2>2, RowForms
    <2>5. QED
        BY <1>3, <2>1, <2>3, <2>4 DEF s
<1>9. QED
    BY <1>0, <1>1, <1>2, <1>4, <1>5, <1>6, <1>7, <1>8, RowStepLemma DEF RowStep

LEMMA LetterInvInit == Init => LetterInv
<1> SUFFICES ASSUME Init PROVE LetterInv
    OBVIOUS
<1>1. \A o \in Outboxes : Letters(o)
    BY DEF Init, Letters, NewRow
<1>2. QED
    BY <1>1, CountInvInit DEF LetterInv

LEMMA LetterInvStep == LetterInv /\ [Next]_vars => LetterInv'
<1> SUFFICES ASSUME LetterInv, [Next]_vars PROVE LetterInv'
    OBVIOUS
<1>1. CountInv'
    BY CountInvStep DEF LetterInv
<1>2. \A o \in Outboxes : Letters(o)'
    BY LettersStep
<1>3. QED
    BY <1>1, <1>2 DEF LetterInv

\* The dead letters of an event are exactly those of the cycles it left and,
\* while it is exhausted, of its current cycle; each cycle left was recovered.
THEOREM DeadLettersCorrect == Spec => []DeadLetterChain
<1>1. LetterInv => DeadLetterChain
    <2>1. 0 .. MaxCycle \subseteq Nat
        BY OutboxAssumption
    <2>2. QED
        BY <2>1 DEF LetterInv, Letters, DeadLetterChain
<1>2. QED
    BY <1>1, LetterInvInit, LetterInvStep, PTL DEF Spec

==============================================================================
