----------------------- MODULE CampaignOutboxLedgerProofs -----------------------
(***************************************************************************)
(* The campaign outbox implements ExecutionLedger, and the outcome of an   *)
(* event tells what was executed.  Both rest on what a worker's phase says *)
(* of the recorded executions (PhaseTells), which stays true however stale *)
(* the worker's claim becomes, because records are never taken back.       *)
(***************************************************************************)
EXTENDS CampaignOutboxRowProofs

------------------------------------------------------------------------------
(* Executions and outcomes.                                                *)

\* An execution is recorded in a cycle its event has reached, and is confirmed
\* only if it started; administrative events are not executed.
ExecutionsRecorded ==
    /\ \A s \in starts : s.outbox \notin Administrative /\ s.cycle <= outbox[s.outbox].cycle
    /\ \A o \in Outboxes, c \in Nat : Confirmed(o, c) => Started(o, c)

\* A worker past the authorization tells what is recorded.
PhaseTells(w) ==
    /\ phase[w] = "executing" => /\ held[w].outbox \notin Administrative
                                 /\ Started(held[w].outbox, held[w].cycle)
    /\ phase[w] = "confirmed" => \/ held[w].outbox \in Administrative
                                 \/ Confirmed(held[w].outbox, held[w].cycle)

OutcomeInv == /\ CountInv
              /\ ExecutionsRecorded
              /\ \A w \in Workers : PhaseTells(w)
              /\ OutcomeMatchesExecution

\* Records are added by two operations, which leave the rows alone.
StartedBy(w) ==
    /\ phase[w] = "claimed"
    /\ AuthorizeStart(w)
    /\ UNCHANGED confirmations

ConfirmedBy(w) ==
    /\ phase[w] = "executing"
    /\ \E t \in Instants(w) : Current(w, t)
    /\ outbox[held[w].outbox].cycle = held[w].cycle
    /\ confirmations' = confirmations \cup {<<held[w].outbox, held[w].cycle>>}
    /\ UNCHANGED <<outbox, starts>>

LEMMA AuthorizeRecords ==
    ASSUME NEW w \in Workers, AuthorizeCampaignExecution(w)
    PROVE  UNCHANGED <<starts, confirmations>> \/ StartedBy(w)
    BY DEF AuthorizeCampaignExecution, AuthorizeStale, AuthorizeAdministrative,
        AuthorizeConfirmed, AuthorizeIneligible, AuthorizeTooSoon, AuthorizeRetry,
        AuthorizeOverLimit, StartedBy

LEMMA RecordForms ==
    ASSUME [Next]_vars
    PROVE  \/ UNCHANGED <<starts, confirmations>>
           \/ \E w \in Workers : StartedBy(w) \/ ConfirmedBy(w)
<1> DEFINE Goal == \/ UNCHANGED <<starts, confirmations>>
                   \/ \E w \in Workers : StartedBy(w) \/ ConfirmedBy(w)
<1>1. ASSUME NEW w \in Workers, AuthorizeCampaignExecution(w) PROVE Goal
    BY <1>1, AuthorizeRecords
<1>2. ASSUME NEW w \in Workers, ConfirmSimulatedCampaignExecution(w) PROVE Goal
    BY <1>2 DEF ConfirmSimulatedCampaignExecution, ConfirmedBy
<1>3. ASSUME NEW w \in Workers, Process(w) \/ Crash(w) PROVE Goal
    BY <1>1, <1>2, <1>3 DEF Process, Crash, tables, ReadClock, FinalizeExpiredFinalAttempt,
        ClaimCampaignOutbox, ReserveDailyLeadAllocation, CompleteCampaignOutbox,
        FailCampaignOutbox
<1>4. ASSUME NEW o \in Outboxes, RecoverCampaignDeadLetter(o) PROVE Goal
    BY <1>4 DEF RecoverCampaignDeadLetter
<1>5. CASE Tick \/ UNCHANGED vars
    BY <1>5 DEF Tick, tables, vars
<1>6. QED
    BY <1>3, <1>4, <1>5 DEF Next

\* The record that a start adds, under the cycle of the row.
LEMMA StartForm ==
    ASSUME CountInv, NEW w \in Workers, StartedBy(w)
    PROVE  /\ held[w].outbox \in Outboxes \ Administrative
           /\ outbox[held[w].outbox].status = "PENDING"
           /\ outbox[held[w].outbox].cycle = held[w].cycle
           /\ ~Started(held[w].outbox, held[w].cycle)
           /\ UNCHANGED outbox
           /\ starts' = starts \cup
                {[outbox |-> held[w].outbox, cycle |-> held[w].cycle,
                  channel |-> ChannelOf[held[w].outbox], day |-> DayOf(now[w]), at |-> now[w]]}
<1>1. /\ ~Started(held[w].outbox, held[w].cycle)
      /\ UNCHANGED outbox
      /\ Unsettled(w)
      /\ starts' = starts \cup
           {[outbox |-> held[w].outbox, cycle |-> held[w].cycle,
             channel |-> ChannelOf[held[w].outbox], day |-> DayOf(now[w]), at |-> now[w]]}
    BY DEF StartedBy, AuthorizeStart, MayExecute
<1>2. held[w].outbox \in Outboxes /\ phase[w] \in Busy
    BY BusyClaim DEF StartedBy, Busy, CountInv
<1>3. QED
    BY <1>1, <1>2 DEF Unsettled, Current, CountInv, ClaimMatchesRow

LEMMA ConfirmForm ==
    ASSUME CountInv, NEW w \in Workers, ConfirmedBy(w)
    PROVE  /\ held[w].outbox \in Outboxes
           /\ outbox[held[w].outbox].status = "PENDING"
    BY BusyClaim DEF ConfirmedBy, Current, Busy, CountInv

\* What is recorded stays recorded.
LEMMA RecordsStay ==
    ASSUME [Next]_vars, NEW o, NEW c
    PROVE  /\ Started(o, c) => Started(o, c)'
           /\ Confirmed(o, c) => Confirmed(o, c)'
<1>1. starts \subseteq starts' /\ confirmations \subseteq confirmations'
    BY RecordForms DEF StartedBy, AuthorizeStart, ConfirmedBy
<1>2. QED
    BY <1>1 DEF Started, Confirmed

\* The cycle of a row is left only by a recovery.
LEMMA CycleSteps ==
    ASSUME TypeInv, [Next]_vars, NEW o \in Outboxes
    PROVE  \/ outbox'[o].cycle = outbox[o].cycle
           \/ /\ outbox[o].cycle < MaxCycle
              /\ outbox'[o].cycle = outbox[o].cycle + 1
<1>1. ASSUME NEW w \in Workers, SettledBy(w, o) PROVE outbox'[o].cycle = outbox[o].cycle
    <2>1. Limit(outbox[o], w) \in Nat
        BY LimitType DEF TypeInv, TypeOK
    <2>2. QED
        BY <1>1, <2>1, RowForms DEF SettledBy, Status
<1>2. ASSUME NEW w \in Workers, DeferredBy(w, o) \/ BlockedBy(w, o) \/ PublishedBy(w, o)
      PROVE  outbox'[o].cycle = outbox[o].cycle
    BY <1>2, RowForms DEF DeferredBy, BlockedBy, PublishedBy, Status
<1>3. ASSUME NEW w \in Workers, FailedBy(w, o) PROVE outbox'[o].cycle = outbox[o].cycle
    <2>1. (IF LastAttempt(w) THEN "EXHAUSTED" ELSE "PENDING") \in Status
        BY DEF Status
    <2>2. QED
        BY <1>3, <2>1, RowForms DEF FailedBy
<1>4. ASSUME NEW w \in Workers, ClaimedBy(w, o) PROVE outbox'[o].cycle = outbox[o].cycle
    BY <1>4, ClaimForm DEF ClaimedBy
<1>5. CASE RecoverCampaignDeadLetter(o)
    BY <1>5, RecoverForm DEF RecoverCampaignDeadLetter
<1>6. QED
    BY <1>1, <1>2, <1>3, <1>4, <1>5, RowStepLemma DEF RowStep, Untouched

\* What one worker does leaves the locals of the others alone.
LEMMA OthersKept ==
    ASSUME TypeInv, NEW w \in Workers, Process(w) \/ Crash(w),
           NEW v \in Workers, v # w
    PROVE  phase'[v] = phase[v] /\ held'[v] = held[v] /\ now'[v] = now[v]
<1> DEFINE Kept == phase'[v] = phase[v] /\ held'[v] = held[v] /\ now'[v] = now[v]
<1>0. /\ phase \in [Workers -> Phase]
      /\ held \in [Workers -> Claim \cup {NoClaim}]
      /\ now \in [Workers -> 0 .. MaxTime]
    BY DEF TypeInv, TypeOK
<1>1. Rest(w) => Kept
    BY <1>0 DEF Rest
<1>2. \A p \in Phase : Goto(w, p) => Kept
    BY <1>0 DEF Goto
<1>3. ASSUME NEW o \in Outboxes, ClaimRow(w, o) PROVE Kept
    BY <1>0, <1>3 DEF ClaimRow
<1>4. CASE ReadClock(w)
    BY <1>0, <1>4 DEF ReadClock
<1>5. CASE FinalizeExpiredFinalAttempt(w)
    BY <1>2, <1>5 DEF FinalizeExpiredFinalAttempt, Phase
<1>6. CASE ClaimCampaignOutbox(w)
    BY <1>1, <1>3, <1>6 DEF ClaimCampaignOutbox
<1>7. CASE ReserveDailyLeadAllocation(w) \/ CompleteCampaignOutbox(w)
           \/ FailCampaignOutbox(w) \/ Crash(w)
    BY <1>1, <1>7 DEF ReserveDailyLeadAllocation, CompleteCampaignOutbox,
                      FailCampaignOutbox, Crash
<1>8. CASE AuthorizeCampaignExecution(w)
    <2>1. "executing" \in Phase /\ "confirmed" \in Phase
        BY DEF Phase
    <2>2. Rest(w) \/ Goto(w, "executing") \/ Goto(w, "confirmed")
        BY <1>8
        DEF AuthorizeCampaignExecution, AuthorizeStale, AuthorizeAdministrative,
            AuthorizeConfirmed, AuthorizeIneligible, AuthorizeTooSoon,
            AuthorizeRetry, AuthorizeOverLimit, AuthorizeStart
    <2>3. QED
        BY <1>1, <1>2, <2>1, <2>2
<1>9. CASE ConfirmSimulatedCampaignExecution(w)
    <2>1. Rest(w) \/ Goto(w, "confirmed")
        BY <1>9 DEF ConfirmSimulatedCampaignExecution
    <2>2. QED
        BY <1>1, <1>2, <2>1 DEF Phase
<1>10. QED
    BY <1>4, <1>5, <1>6, <1>7, <1>8, <1>9 DEF Process

\* A worker gets past its authorization with the record that its phase tells of.
Entered(v) ==
    \/ phase'[v] = phase[v]
    \/ /\ phase'[v] = "executing"
       /\ held[v].outbox \notin Administrative
       /\ Started(held[v].outbox, held[v].cycle) \/ StartedBy(v)
    \/ /\ phase'[v] = "confirmed"
       /\ held[v].outbox \in Administrative \/ ConfirmedBy(v)

LEMMA PhaseForms ==
    ASSUME TypeInv, [Next]_vars, NEW v \in Workers, phase'[v] \in {"executing", "confirmed"}
    PROVE  /\ phase[v] \in Busy
           /\ held'[v] = held[v]
           /\ Entered(v)
<1>0. phase \in [Workers -> Phase] /\ held \in [Workers -> Claim \cup {NoClaim}]
    BY DEF TypeInv, TypeOK
<1>1. phase[v] \in Busy /\ held'[v] = held[v]
    <2>1. ASSUME NEW p \in Outboxes, ClaimRow(v, p) PROVE FALSE
        BY <1>0, <2>1 DEF ClaimRow
    <2>2. QED
        BY <2>1, HeldFrame DEF Busy
<1> SUFFICES Entered(v)
    BY <1>1
<1>2. ASSUME NEW w \in Workers, w # v, Process(w) \/ Crash(w) PROVE Entered(v)
    <2>1. phase'[v] = phase[v]
        BY <1>2, OthersKept
    <2>2. QED
        BY <2>1 DEF Entered
<1>3. Rest(v) => FALSE
    BY <1>0 DEF Rest
<1>4. CASE ReadClock(v) \/ FinalizeExpiredFinalAttempt(v) \/ ClaimCampaignOutbox(v)
    <2>1. phase[v] \notin Busy
        BY <1>4 DEF ReadClock, FinalizeExpiredFinalAttempt, ClaimCampaignOutbox, Busy
    <2>2. QED
        BY <1>1, <2>1
<1>5. ASSUME NEW p, Goto(v, p) PROVE phase'[v] = p
    BY <1>0, <1>5 DEF Goto
<1>6. CASE AuthorizeCampaignExecution(v)
    <2>1. CASE AuthorizeAdministrative(v)
        <3>1. held[v].outbox \in Administrative /\ Goto(v, "confirmed")
            BY <2>1 DEF AuthorizeAdministrative
        <3>2. phase'[v] = "confirmed"
            BY <1>5, <3>1
        <3>3. QED
            BY <3>1, <3>2 DEF Entered
    <2>2. CASE AuthorizeConfirmed(v) \/ AuthorizeRetry(v)
        <3>1. /\ held[v].outbox \notin Administrative
              /\ Started(held[v].outbox, held[v].cycle)
              /\ Goto(v, "executing")
            BY <2>2 DEF AuthorizeConfirmed, AuthorizeRetry, MayExecute, Unsettled
        <3>2. phase'[v] = "executing"
            BY <1>5, <3>1
        <3>3. QED
            BY <3>1, <3>2 DEF Entered
    <2>3. CASE AuthorizeStart(v)
        <3>1. StartedBy(v)
            BY <1>6, <2>3 DEF StartedBy, AuthorizeCampaignExecution
        <3>2. held[v].outbox \notin Administrative /\ Goto(v, "executing")
            BY <2>3 DEF AuthorizeStart, MayExecute, Unsettled
        <3>3. phase'[v] = "executing"
            BY <1>5, <3>2
        <3>4. QED
            BY <3>1, <3>2, <3>3 DEF Entered
    <2>4. QED
        BY <1>3, <1>6, <2>1, <2>2, <2>3
        DEF AuthorizeCampaignExecution, AuthorizeStale, AuthorizeIneligible,
            AuthorizeTooSoon, AuthorizeOverLimit
<1>7. CASE ConfirmSimulatedCampaignExecution(v)
    <2>1. Goto(v, "confirmed") /\ ConfirmedBy(v)
        BY <1>3, <1>7 DEF ConfirmSimulatedCampaignExecution, ConfirmedBy
    <2>2. phase'[v] = "confirmed"
        BY <1>5, <2>1
    <2>3. QED
        BY <2>1, <2>2 DEF Entered
<1>8. CASE ReserveDailyLeadAllocation(v) \/ CompleteCampaignOutbox(v)
           \/ FailCampaignOutbox(v) \/ Crash(v)
    BY <1>3, <1>8 DEF ReserveDailyLeadAllocation, CompleteCampaignOutbox,
                      FailCampaignOutbox, Crash
<1>9. ASSUME \/ \E p \in Outboxes : RecoverCampaignDeadLetter(p)
             \/ Tick
             \/ UNCHANGED vars
      PROVE  Entered(v)
    <2>1. phase' = phase
        BY <1>9 DEF RecoverCampaignDeadLetter, Tick, vars
    <2>2. QED
        BY <2>1 DEF Entered
<1>10. ASSUME Process(v) \/ Crash(v) PROVE Entered(v)
    BY <1>4, <1>6, <1>7, <1>8, <1>10 DEF Process
<1>11. QED
    BY <1>2, <1>9, <1>10 DEF Next

LEMMA PhaseTellsStep ==
    ASSUME OutcomeInv, [Next]_vars, NEW v \in Workers
    PROVE  PhaseTells(v)'
<1> SUFFICES ASSUME phase'[v] \in {"executing", "confirmed"} PROVE PhaseTells(v)'
    BY DEF PhaseTells
<1> DEFINE o == held[v].outbox
           c == held[v].cycle
<1>0. /\ TypeInv
      /\ CountInv
      /\ PhaseTells(v)
    BY DEF OutcomeInv, CountInv
<1>1. held'[v] = held[v]
    BY <1>0, PhaseForms
<1>2. /\ Started(o, c) => Started(o, c)'
      /\ Confirmed(o, c) => Confirmed(o, c)'
      BY <1>1, RecordsStay DEF Started, Confirmed
<1>3. CASE phase'[v] = phase[v]
    BY <1>0, <1>1, <1>2, <1>3 DEF PhaseTells
<1>4. CASE /\ phase'[v] = "executing"
           /\ o \notin Administrative
           /\ Started(o, c) \/ StartedBy(v)
    <2> DEFINE e == [outbox |-> o, cycle |-> c, channel |-> ChannelOf[o],
                     day |-> DayOf(now[v]), at |-> now[v]]
    <2>0. StartedBy(v) => e \in starts'
        BY <1>0, StartForm
    <2>1. StartedBy(v) => Started(o, c)'
        BY <1>1, <2>0 DEF Started
    <2>2. QED
        BY <1>1, <1>2, <1>4, <2>1 DEF PhaseTells
<1>5. CASE /\ phase'[v] = "confirmed"
           /\ o \in Administrative \/ ConfirmedBy(v)
    <2>1. ConfirmedBy(v) => Confirmed(o, c)'
        BY <1>1 DEF ConfirmedBy, Confirmed
    <2>2. QED
        BY <1>1, <1>5, <2>1 DEF PhaseTells
<1>6. QED
    BY <1>0, <1>3, <1>4, <1>5, PhaseForms DEF Entered

LEMMA ExecutionsStep ==
    ASSUME OutcomeInv, [Next]_vars
    PROVE  ExecutionsRecorded'
<1>0. /\ TypeInv
      /\ CountInv
      /\ ExecutionsRecorded
      /\ starts \subseteq Start
      /\ outbox \in [Outboxes -> Row]
    BY DEF OutcomeInv, CountInv, TypeInv, TypeOK
<1>1. ASSUME NEW s \in starts'
      PROVE  s.outbox \notin Administrative /\ s.cycle <= outbox'[s.outbox].cycle
    <2>1. CASE s \in starts
        <3>1. /\ s.outbox \in Outboxes \ Administrative
              /\ s.cycle \in Nat
              /\ outbox[s.outbox].cycle \in Nat
              /\ s.cycle <= outbox[s.outbox].cycle
            BY <1>0, <2>1 DEF ExecutionsRecorded, Start, Row
        <3>2. QED
            BY <1>0, <3>1, CycleSteps
    <2>2. CASE s \notin starts
        <3>1. PICK w \in Workers : StartedBy(w)
            BY <2>2, RecordForms DEF ConfirmedBy
        <3>2. /\ s.outbox \in Outboxes \ Administrative
              /\ outbox'[s.outbox].cycle = s.cycle
            BY <1>0, <2>2, <3>1, StartForm
        <3>3. s.cycle \in Nat
            BY <1>0, <3>1, <3>2, StartForm DEF Row
        <3>4. QED
            BY <3>2, <3>3
    <2>3. QED
        BY <2>1, <2>2
<1>2. ASSUME NEW o \in Outboxes, NEW c \in Nat, Confirmed(o, c)' PROVE Started(o, c)'
    <2>1. CASE Confirmed(o, c)
        BY <1>0, <2>1, RecordsStay DEF ExecutionsRecorded
    <2>2. CASE ~Confirmed(o, c)
        <3>1. PICK w \in Workers : ConfirmedBy(w)
            BY <1>2, <2>2, RecordForms DEF Confirmed, StartedBy
        <3>2. o = held[w].outbox /\ c = held[w].cycle /\ phase[w] = "executing"
            BY <1>2, <2>2, <3>1 DEF ConfirmedBy, Confirmed
        <3>3. Started(o, c)
            BY <3>2 DEF OutcomeInv, PhaseTells
        <3>4. QED
            BY <3>3, RecordsStay
    <2>3. QED
        BY <2>1, <2>2
<1>3. QED
    BY <1>1, <1>2 DEF ExecutionsRecorded

\* The status of a row and the record of its cycle, after any step.
LEMMA OutcomeStep ==
    ASSUME OutcomeInv, [Next]_vars
    PROVE  OutcomeMatchesExecution'
<1> SUFFICES ASSUME NEW o \in Outboxes \ Administrative
             PROVE  /\ outbox'[o].status = "PUBLISHED" => <<o, outbox'[o].cycle>> \in confirmations'
                    /\ outbox'[o].status = "BLOCKED" => <<o, outbox'[o].cycle>> \notin confirmations'
    BY DEF OutcomeMatchesExecution, Confirmed
<1> DEFINE row == outbox[o]
<1>0. /\ TypeInv
      /\ CountInv
      /\ ExecutionsRecorded
      /\ \A w \in Workers : PhaseTells(w)
      /\ row.status = "PUBLISHED" => Confirmed(o, row.cycle)
      /\ row.status = "BLOCKED" => ~Confirmed(o, row.cycle)
      /\ row.cycle \in Nat
    BY DEF OutcomeInv, OutcomeMatchesExecution, CountInv, TypeInv, TypeOK, Row
<1>1. Confirmed(o, row.cycle) => <<o, row.cycle>> \in confirmations'
    BY RecordsStay DEF Confirmed
<1>2. ASSUME <<o, row.cycle>> \in confirmations', ~Confirmed(o, row.cycle)
      PROVE  outbox' = outbox /\ row.status = "PENDING"
    <2>1. PICK w \in Workers : ConfirmedBy(w)
        BY <1>2, RecordForms DEF Confirmed, StartedBy
    <2>2. o = held[w].outbox
        BY <1>2, <2>1 DEF ConfirmedBy, Confirmed
    <2>3. QED
        BY <1>0, <2>1, <2>2, ConfirmForm DEF ConfirmedBy
<1>3. CASE outbox'[o] = outbox[o]
    BY <1>0, <1>1, <1>2, <1>3 DEF Confirmed
<1>4. CASE outbox'[o].status \in {"PENDING", "EXHAUSTED"}
    BY <1>4
<1>5. ASSUME NEW w \in Workers, SettledBy(w, o), Confirmed(o, row.cycle)
      PROVE  outbox'[o].status = "PUBLISHED" /\ outbox'[o].cycle = row.cycle
    <2>1. Limit(row, w) \in Nat
        BY <1>0, LimitType DEF TypeInv, TypeOK
    <2>2. QED
        BY <1>0, <1>5, <2>1, RowForms DEF SettledBy, Status
<1>6. ASSUME NEW w \in Workers, SettledBy(w, o), ~Confirmed(o, row.cycle)
      PROVE  outbox'[o].status = "EXHAUSTED"
    <2>1. Limit(row, w) \in Nat
        BY <1>0, LimitType DEF TypeInv, TypeOK
    <2>2. QED
        BY <1>0, <1>6, <2>1, RowForms DEF SettledBy, Status
<1>7. ASSUME NEW w \in Workers, BlockedBy(w, o)
      PROVE  /\ outbox'[o].status = "BLOCKED"
             /\ outbox'[o].cycle = row.cycle
             /\ <<o, row.cycle>> \notin confirmations'
    <2>1. /\ held[w].outbox = o
          /\ held[w].cycle = row.cycle
          /\ row.status = "PENDING"
        BY <1>0, <1>7, ActsMatch DEF BlockedBy
    <2>2. ~Confirmed(o, row.cycle)
        BY <1>0, <1>7, <2>1 DEF BlockedBy, ExecutionsRecorded
    <2>3. outbox'[o].status = "BLOCKED" /\ outbox'[o].cycle = row.cycle
        BY <1>0, <1>7, RowForms DEF BlockedBy, Status
    <2>4. QED
        BY <1>2, <2>1, <2>2, <2>3
<1>8. ASSUME NEW w \in Workers, PublishedBy(w, o)
      PROVE  /\ outbox'[o].status = "PUBLISHED"
             /\ outbox'[o].cycle = row.cycle
             /\ Confirmed(o, row.cycle)
    <2>1. /\ held[w].outbox = o
          /\ held[w].cycle = row.cycle
          /\ phase[w] = "confirmed"
        BY <1>0, <1>8, ActsMatch DEF PublishedBy
    <2>2. Confirmed(o, row.cycle)
        BY <1>0, <2>1 DEF PhaseTells
    <2>3. QED
        BY <1>0, <1>8, <2>2, RowForms DEF PublishedBy, Status
<1>9. ASSUME NEW w \in Workers, FailedBy(w, o) PROVE outbox'[o].status \in {"PENDING", "EXHAUSTED"}
    <2> DEFINE s == IF LastAttempt(w) THEN "EXHAUSTED" ELSE "PENDING"
    <2>1. s \in Status /\ s \in {"PENDING", "EXHAUSTED"}
        BY DEF Status
    <2>2. PICK u \in Int : outbox'[o] = Failed(outbox[o], s, u)
        BY <1>9 DEF FailedBy
    <2> HIDE DEF s
    <2>3. QED
        BY <1>0, <2>1, <2>2, RowForms
<1>10. ASSUME NEW w \in Workers, ClaimedBy(w, o) \/ DeferredBy(w, o) PROVE outbox'[o].status = "PENDING"
    <2>1. row.status = "PENDING"
        BY <1>0, <1>10, ActsMatch DEF ClaimedBy, Claimable, DeferredBy
    <2>2. QED
        BY <1>0, <1>10, <2>1, ClaimForm, RowForms DEF ClaimedBy, DeferredBy
<1>11. CASE RecoverCampaignDeadLetter(o)
    BY <1>0, <1>11, RecoverForm
<1>12. QED
    <2>1. ASSUME NEW w \in Workers, SettledBy(w, o) \/ BlockedBy(w, o) \/ PublishedBy(w, o)
          PROVE  /\ outbox'[o].status = "PUBLISHED" => <<o, outbox'[o].cycle>> \in confirmations'
                 /\ outbox'[o].status = "BLOCKED" => <<o, outbox'[o].cycle>> \notin confirmations'
        BY <1>1, <1>5, <1>6, <1>7, <1>8, <2>1 DEF Confirmed
    <2>2. QED
        BY <1>0, <1>3, <1>4, <1>9, <1>10, <1>11, <2>1, RowStepLemma DEF RowStep, Untouched

LEMMA OutcomeInvInit == Init => OutcomeInv
<1> SUFFICES ASSUME Init PROVE OutcomeInv
    OBVIOUS
<1>1. CountInv
    BY CountInvInit
<1>2. ExecutionsRecorded /\ OutcomeMatchesExecution
    BY DEF Init, ExecutionsRecorded, OutcomeMatchesExecution, Confirmed, NewRow
<1>3. \A w \in Workers : PhaseTells(w)
    BY DEF Init, PhaseTells
<1>4. QED
    BY <1>1, <1>2, <1>3 DEF OutcomeInv

LEMMA OutcomeInvStep == OutcomeInv /\ [Next]_vars => OutcomeInv'
<1> SUFFICES ASSUME OutcomeInv, [Next]_vars PROVE OutcomeInv'
    OBVIOUS
<1>1. CountInv'
    BY CountInvStep DEF OutcomeInv
<1>2. \A w \in Workers : PhaseTells(w)'
    BY PhaseTellsStep
<1>3. QED
    BY <1>1, <1>2, ExecutionsStep, OutcomeStep DEF OutcomeInv

\* A published execution was confirmed and a blocked one was not, for any number
\* of workers that act on stale claims in any order.
THEOREM OutcomesCorrect == Spec => []OutcomeMatchesExecution
<1>1. OutcomeInv => OutcomeMatchesExecution
    BY DEF OutcomeInv
<1>2. QED
    BY <1>1, OutcomeInvInit, OutcomeInvStep, PTL DEF Spec

------------------------------------------------------------------------------
(* The refinement of the ledger.                                           *)

LedgerInv == SpacingInv /\ QuotaInv /\ OutcomeInv

\* A step changes at most one row.
LEMMA RowChangesAlone ==
    ASSUME TypeInv, [Next]_vars
    PROVE  \/ UNCHANGED outbox
           \/ \E o \in Outboxes : \A p \in Outboxes \ {o} : outbox'[p] = outbox[p]
<1> DEFINE Alone(o) == \A p \in Outboxes \ {o} : outbox'[p] = outbox[p]
           Goal == UNCHANGED outbox \/ \E o \in Outboxes : Alone(o)
<1>0. outbox \in [Outboxes -> Row]
    BY DEF TypeInv, TypeOK
<1>1. ASSUME NEW o \in Outboxes,
             \/ \E w \in Workers : Settle(w, o) \/ ClaimRow(w, o)
             \/ \E u : Reschedule(o, u)
             \/ Block(o)
             \/ RecoverCampaignDeadLetter(o)
      PROVE  Alone(o)
    BY <1>0, <1>1 DEF Settle, ClaimRow, Reschedule, Block, RecoverCampaignDeadLetter
<1>2. ASSUME NEW w \in Workers, Process(w) \/ Crash(w) PROVE Goal
    <2>1. CASE FinalizeExpiredFinalAttempt(w)
        BY <1>1, <2>1 DEF FinalizeExpiredFinalAttempt
    <2>2. CASE ClaimCampaignOutbox(w)
        BY <1>1, <2>2 DEF ClaimCampaignOutbox
    <2>3. ASSUME phase[w] \in Busy,
                 \/ \E u : Reschedule(held[w].outbox, u)
                 \/ Block(held[w].outbox)
                 \/ \E r : outbox' = [outbox EXCEPT ![held[w].outbox] = r]
          PROVE  Goal
        <3>1. held[w].outbox \in Outboxes
            BY <2>3, BusyClaim
        <3>2. Alone(held[w].outbox)
            BY <1>0, <2>3, <3>1 DEF Reschedule, Block
        <3>3. QED
            BY <3>1, <3>2
    <2>4. CASE ReserveDailyLeadAllocation(w)
        BY <2>3, <2>4 DEF ReserveDailyLeadAllocation, Busy
    <2>5. CASE AuthorizeCampaignExecution(w)
        <3>1. phase[w] \in Busy
            BY <2>5 DEF AuthorizeCampaignExecution, Busy
        <3>2. QED
            BY <2>3, <2>5, <3>1
            DEF AuthorizeCampaignExecution, AuthorizeStale, AuthorizeAdministrative,
                AuthorizeConfirmed, AuthorizeIneligible, AuthorizeTooSoon,
                AuthorizeRetry, AuthorizeOverLimit, AuthorizeStart
    <2>6. CASE ConfirmSimulatedCampaignExecution(w)
        BY <2>3, <2>6 DEF ConfirmSimulatedCampaignExecution, Busy
    <2>7. CASE CompleteCampaignOutbox(w)
        BY <2>3, <2>7 DEF CompleteCampaignOutbox, Busy
    <2>8. CASE FailCampaignOutbox(w)
        BY <2>3, <2>8 DEF FailCampaignOutbox, Busy
    <2>9. CASE ReadClock(w) \/ Crash(w)
        BY <2>9 DEF ReadClock, Crash, tables
    <2>10. QED
        BY <1>2, <2>1, <2>2, <2>4, <2>5, <2>6, <2>7, <2>8, <2>9 DEF Process
<1>3. CASE Tick \/ UNCHANGED vars
    BY <1>3 DEF Tick, tables, vars
<1>4. QED
    BY <1>1, <1>2, <1>3 DEF Next

\* What a row that changes without a new record may do to the stage of its
\* event: nothing, or one of the ledger's moves.
Stays(o) == outbox'[o].cycle = outbox[o].cycle

LedgerMove(o) ==
    \/ Stays(o) /\ StageOf(o)' = StageOf(o)
    \/ /\ Stays(o)
       /\ o \notin Administrative
       /\ StageOf(o) \in {"queued", "started"}
       /\ StageOf(o)' = "blocked"
    \/ /\ Stays(o)
       /\ StageOf(o) \in IF o \in Administrative THEN {"queued"} ELSE {"confirmed"}
       /\ StageOf(o)' = "published"
    \/ /\ Stays(o)
       /\ StageOf(o) \in {"queued", "started", "confirmed"}
       /\ StageOf(o)' = "dead"
    \/ /\ outbox'[o].cycle = outbox[o].cycle + 1
       /\ StageOf(o) = "dead"
       /\ StageOf(o)' = "queued"

LEMMA StageForms ==
    ASSUME LedgerInv, NEW o \in Outboxes, outbox[o].status = "PENDING"
    PROVE  /\ StageOf(o) \in {"queued", "started", "confirmed"}
           /\ StageOf(o) = "confirmed" <=> Confirmed(o, outbox[o].cycle)
           /\ StageOf(o) = "queued" <=> ~Started(o, outbox[o].cycle)
<1>1. Confirmed(o, outbox[o].cycle) => Started(o, outbox[o].cycle)
    BY DEF LedgerInv, OutcomeInv, CountInv, ExecutionsRecorded, TypeInv, TypeOK, Row
<1>2. QED
    BY <1>1 DEF StageOf

LEMMA RowMovesLedger ==
    ASSUME LedgerInv, [Next]_vars, UNCHANGED <<starts, confirmations>>,
           NEW o \in Outboxes
    PROVE  LedgerMove(o)
<1> DEFINE row == outbox[o]
<1>0. /\ TypeInv
      /\ CountInv
      /\ ExecutionsRecorded
      /\ \A w \in Workers : PhaseTells(w)
      /\ row.cycle \in Nat
    BY DEF LedgerInv, OutcomeInv, CountInv, TypeInv, TypeOK, Row
<1>1. ASSUME NEW c
      PROVE  /\ Started(o, c)' <=> Started(o, c)
             /\ Confirmed(o, c)' <=> Confirmed(o, c)
    BY DEF Started, Confirmed
<1>2. ASSUME outbox'[o].status = row.status, outbox'[o].cycle = row.cycle
      PROVE  LedgerMove(o)
    <2>1. StageOf(o)' = StageOf(o)
        BY <1>2 DEF StageOf, Started, Confirmed
    <2>2. QED
        BY <1>2, <2>1 DEF LedgerMove, Stays
<1>3. CASE RecoverCampaignDeadLetter(o)
    <2>1. /\ outbox'[o].status = "PENDING"
          /\ outbox'[o].cycle = row.cycle + 1
          /\ row.status = "EXHAUSTED"
        BY <1>0, <1>3, RecoverForm DEF RecoverCampaignDeadLetter
    <2>2. ~Started(o, row.cycle + 1)
        <3>1. \A s \in starts : s.cycle \in Nat
            BY <1>0 DEF TypeInv, TypeOK, Start
        <3>2. QED
            BY <1>0, <3>1 DEF ExecutionsRecorded, Started
    <2>3. ~Confirmed(o, row.cycle + 1)
        BY <1>0, <2>2 DEF ExecutionsRecorded
    <2>4. StageOf(o) = "dead"
        BY <2>1 DEF StageOf
    <2>5. StageOf(o)' = "queued"
        BY <2>1, <2>2, <2>3 DEF StageOf, Started, Confirmed
    <2>6. QED
        BY <2>1, <2>4, <2>5 DEF LedgerMove
<1>4. ASSUME NEW w \in Workers, SettledBy(w, o) PROVE LedgerMove(o)
    <2>1. Limit(row, w) \in Nat /\ row.status = "PENDING"
        BY <1>0, <1>4, LimitType DEF TypeInv, TypeOK, SettledBy, ExpiredFinal
    <2>2. /\ outbox'[o].cycle = row.cycle
          /\ outbox'[o].status = IF Confirmed(o, row.cycle) THEN "PUBLISHED"
                                 ELSE "EXHAUSTED"
        BY <1>0, <1>4, <2>1, RowForms DEF SettledBy, Status
    <2>3. CASE Confirmed(o, row.cycle)
        <3>1. o \notin Administrative
            BY <1>0, <2>3 DEF ExecutionsRecorded, Started
        <3>2. StageOf(o) = "confirmed" /\ StageOf(o)' = "published"
            BY <2>1, <2>2, <2>3, StageForms DEF StageOf
        <3>3. QED
            BY <2>2, <3>1, <3>2 DEF LedgerMove, Stays
    <2>4. CASE ~Confirmed(o, row.cycle)
        <3>1. StageOf(o)' = "dead"
            BY <2>2, <2>4 DEF StageOf
        <3>2. QED
            BY <2>1, <2>2, <3>1, StageForms DEF LedgerMove, Stays
    <2>5. QED
        BY <2>3, <2>4
<1>5. ASSUME NEW w \in Workers, ClaimedBy(w, o) \/ DeferredBy(w, o) PROVE LedgerMove(o)
    <2>1. row.status = "PENDING"
        BY <1>0, <1>5, ActsMatch DEF ClaimedBy, Claimable, DeferredBy
    <2>2. outbox'[o].status = "PENDING" /\ outbox'[o].cycle = row.cycle
        BY <1>0, <1>5, <2>1, ClaimForm, RowForms DEF ClaimedBy, DeferredBy
    <2>3. QED
        BY <1>2, <2>1, <2>2
<1>6. ASSUME NEW w \in Workers, BlockedBy(w, o) PROVE LedgerMove(o)
    <2>1. /\ held[w].outbox = o
          /\ held[w].cycle = row.cycle
          /\ row.status = "PENDING"
        BY <1>0, <1>6, ActsMatch DEF BlockedBy
    <2>2. ~Confirmed(o, row.cycle)
        BY <1>0, <1>6, <2>1 DEF BlockedBy, ExecutionsRecorded
    <2>3. o \notin Administrative
        BY <1>0, <1>6, <2>1 DEF BlockedBy, PhaseTells
    <2>4. outbox'[o].status = "BLOCKED" /\ outbox'[o].cycle = row.cycle
        BY <1>0, <1>6, RowForms DEF BlockedBy, Status
    <2>5. StageOf(o)' = "blocked"
        BY <2>4 DEF StageOf
    <2>6. QED
        BY <2>1, <2>2, <2>3, <2>4, <2>5, StageForms DEF LedgerMove, Stays
<1>7. ASSUME NEW w \in Workers, PublishedBy(w, o) PROVE LedgerMove(o)
    <2>1. /\ held[w].outbox = o
          /\ held[w].cycle = row.cycle
          /\ row.status = "PENDING"
          /\ phase[w] = "confirmed"
        BY <1>0, <1>7, ActsMatch DEF PublishedBy
    <2>2. o \in Administrative \/ Confirmed(o, row.cycle)
        BY <1>0, <2>1 DEF PhaseTells
    <2>3. o \in Administrative => ~Started(o, row.cycle)
        BY <1>0 DEF ExecutionsRecorded, Started
    <2>4. outbox'[o].status = "PUBLISHED" /\ outbox'[o].cycle = row.cycle
        BY <1>0, <1>7, RowForms DEF PublishedBy, Status
    <2>5. StageOf(o)' = "published"
        BY <2>4 DEF StageOf
    <2>6. QED
        BY <2>1, <2>2, <2>3, <2>4, <2>5, StageForms DEF LedgerMove, Stays
<1>8. ASSUME NEW w \in Workers, FailedBy(w, o) PROVE LedgerMove(o)
    <2> DEFINE s == IF LastAttempt(w) THEN "EXHAUSTED" ELSE "PENDING"
    <2>1. row.status = "PENDING" /\ s \in Status /\ s \in {"PENDING", "EXHAUSTED"}
        BY <1>0, <1>8, ActsMatch DEF FailedBy, Status
    <2>2. PICK u \in Int : outbox'[o] = Failed(outbox[o], s, u)
        BY <1>8 DEF FailedBy
    <2> HIDE DEF s
    <2>3. outbox'[o].status = s /\ outbox'[o].cycle = row.cycle
        BY <1>0, <2>1, <2>2, RowForms
    <2>4. CASE s = "PENDING"
        BY <1>2, <2>1, <2>3, <2>4
    <2>5. CASE s = "EXHAUSTED"
        <3>1. StageOf(o)' = "dead"
            BY <2>3, <2>5 DEF StageOf
        <3>2. QED
            BY <2>1, <2>3, <3>1, StageForms DEF LedgerMove, Stays
    <2>6. QED
        BY <2>1, <2>4, <2>5
<1>9. QED
    BY <1>0, <1>2, <1>3, <1>4, <1>5, <1>6, <1>7, <1>8, RowStepLemma
    DEF RowStep, Untouched

\* The ledger's reading of the clock is the outbox's.
LEMMA LedgerTime ==
    /\ \A t : Ledger!DayOf(t) = DayOf(t)
    /\ \A t : Ledger!InWindow(t) <=> InWindow(t)
    BY DEF Ledger!DayOf, DayOf, Ledger!InWindow, InWindow, Ledger!TickOfDay, TickOfDay,
        Ledger!DayStart, DayStart

LEMMA LedgerCardinality ==
    ASSUME NEW S
    PROVE  Ledger!Cardinality(S) = Cardinality(S)
    BY DEF Ledger!Cardinality, Cardinality

\* An event keeps its place in the ledger.
SameEntry(p) == StageOf(p)' = StageOf(p) /\ Stays(p)

LEMMA EntriesStay ==
    ASSUME \A p \in Outboxes : SameEntry(p), UNCHANGED starts
    PROVE  UNCHANGED Ledger!vars
    BY DEF SameEntry, Stays, Ledger!vars

\* A start is admissible for the ledger: the reservation of the channel keeps
\* it away from the earlier ones, the counter under the day's limit.
LEMMA StartAdmissible ==
    ASSUME LedgerInv, NEW w \in Workers, StartedBy(w)
    PROVE  Ledger!Admissible(ChannelOf[held[w].outbox], now[w])
<1> DEFINE ch == ChannelOf[held[w].outbox]
           day == DayOf(now[w])
<1>0. /\ TypeInv
      /\ phase[w] = "claimed"
      /\ MayExecute(w)
      /\ ReserveSpacing(w)
      /\ ~QuotaReached(ch, day)
    BY DEF LedgerInv, SpacingInv, StartedBy, AuthorizeStart
<1>1. /\ ch \in Channels
      /\ InWindow(now[w])
      /\ nextAvailable[ch] <= now[w]
    BY <1>0, ExecutionReserves
<1>2. now[w] \in Nat /\ day \in Days /\ MinSpacing \in Nat /\ DailyLimit[ch] \in Nat
    BY <1>0, <1>1, BusyClaim, DelayAssumption, OutboxAssumption DEF Busy
<1>3. counter[ch][day] \in Nat /\ counter[ch][day] = Cardinality(StartsOn(ch, day))
    BY <1>0, <1>1, <1>2 DEF LedgerInv, QuotaInv, QuotaExact, TypeInv, TypeOK
<1> HIDE DEF ch, day
<1>4. Cardinality(StartsOn(ch, day)) < DailyLimit[ch]
    BY <1>0, <1>2, <1>3 DEF QuotaReached
<1>5. Ledger!Executed(ch, Ledger!DayOf(now[w])) = StartsOn(ch, day)
    BY LedgerTime DEF Ledger!Executed, StartsOn, day
<1>6. ASSUME NEW e \in starts, e.channel = ch PROVE e.at + MinSpacing <= now[w]
    <2>1. e.at \in Nat /\ nextAvailable[ch] \in Nat
        BY <1>0, <1>1 DEF TypeInv, TypeOK, Start
    <2>2. nextAvailable[ch] >= e.at + MinSpacing
        BY <1>6 DEF LedgerInv, SpacingInv, ReservedPastStarts
    <2>3. QED
        BY <1>1, <1>2, <2>1, <2>2
<1>7. Ledger!Admissible(ch, now[w])
    <2>1. Ledger!InWindow(now[w])
        BY <1>1, LedgerTime
    <2>2. Ledger!Cardinality(Ledger!Executed(ch, Ledger!DayOf(now[w]))) < DailyLimit[ch]
        BY <1>4, <1>5, LedgerCardinality
    <2>3. QED
        BY <1>6, <2>1, <2>2 DEF Ledger!Admissible
<1>8. QED
    BY <1>7 DEF ch

LEMMA StartBegins ==
    ASSUME LedgerInv, NEW w \in Workers, StartedBy(w)
    PROVE  \E o \in Outboxes : Ledger!Begin(o)
<1>0. TypeInv /\ CountInv /\ phase[w] = "claimed" /\ UNCHANGED confirmations
    BY DEF LedgerInv, OutcomeInv, SpacingInv, StartedBy
<1>1. PICK o \in Outboxes : o = held[w].outbox
    BY <1>0, StartForm
<1>2. PICK c \in Nat : c = held[w].cycle
    BY <1>0, BusyClaim DEF Busy
<1> DEFINE new == [outbox |-> o, cycle |-> c, channel |-> ChannelOf[o],
                   day |-> DayOf(now[w]), at |-> now[w]]
<1>3. /\ o \notin Administrative
      /\ outbox[o].status = "PENDING"
      /\ outbox[o].cycle = c
      /\ ~Started(o, c)
      /\ UNCHANGED outbox
      /\ starts' = starts \cup {new}
    BY <1>0, <1>1, <1>2, StartForm
<1>4. now[w] \in 0 .. MaxTime
    BY <1>0, BusyClaim DEF Busy
<1>5. Ledger!Admissible(ChannelOf[o], now[w])
    BY <1>1, StartAdmissible
<1>6. StageOf(o) = "queued" /\ ~Confirmed(o, c)
    BY <1>2, <1>3, StageForms
<1>7. StageOf(o)' = "started"
    <2>1. new \in starts'
        BY <1>3
    <2>2. Started(o, c)'
        BY <2>1 DEF Started
    <2>3. QED
        BY <1>0, <1>3, <1>6, <2>2 DEF StageOf, Confirmed
<1>8. ASSUME NEW p \in Outboxes \ {o} PROVE StageOf(p)' = StageOf(p)
    <2>1. new.outbox = o
        OBVIOUS
    <2> HIDE DEF new
    <2>2. QED
        BY <1>0, <1>3, <1>8, <2>1 DEF StageOf, Started, Confirmed
<1>9. Ledger!Move(o, {"queued"}, "started")
    BY <1>6, <1>7, <1>8 DEF Ledger!Move
<1>10. Ledger!Begin(o)
    BY <1>3, <1>4, <1>5, <1>9, LedgerTime DEF Ledger!Begin
<1>11. QED
    BY <1>10

LEMMA ConfirmationConfirms ==
    ASSUME LedgerInv, NEW w \in Workers, ConfirmedBy(w)
    PROVE  UNCHANGED Ledger!vars \/ \E o \in Outboxes : Ledger!Confirm(o)
<1>0. /\ CountInv
      /\ TypeInv
      /\ PhaseTells(w)
      /\ phase[w] = "executing"
      /\ UNCHANGED <<outbox, starts>>
    BY DEF LedgerInv, OutcomeInv, SpacingInv, ConfirmedBy
<1>1. PICK o \in Outboxes : o = held[w].outbox
    BY <1>0, ConfirmForm
<1>2. /\ outbox[o].status = "PENDING"
      /\ Started(o, outbox[o].cycle)
      /\ confirmations' = confirmations \cup {<<o, outbox[o].cycle>>}
    BY <1>0, <1>1, ConfirmForm DEF ConfirmedBy, PhaseTells
<1>3. ASSUME NEW p \in Outboxes \ {o} PROVE SameEntry(p)
    BY <1>0, <1>2, <1>3 DEF SameEntry, Stays, StageOf, Started, Confirmed
<1>4. StageOf(o)' = "confirmed" /\ Stays(o)
    BY <1>0, <1>2 DEF StageOf, Confirmed, Stays
<1>5. CASE Confirmed(o, outbox[o].cycle)
    <2>1. StageOf(o) = "confirmed"
        BY <1>2, <1>5, StageForms
    <2>2. SameEntry(o)
        BY <1>4, <2>1 DEF SameEntry
    <2>3. QED
        BY <1>0, <1>3, <2>2, EntriesStay
<1>6. CASE ~Confirmed(o, outbox[o].cycle)
    <2>1. StageOf(o) = "started"
        BY <1>2, <1>6, StageForms
    <2>2. Ledger!Move(o, {"started"}, "confirmed")
        BY <1>3, <1>4, <2>1 DEF Ledger!Move, SameEntry
    <2>3. Ledger!Confirm(o)
        BY <1>0, <2>2 DEF Ledger!Confirm
    <2>4. QED
        BY <2>3
<1>7. QED
    BY <1>5, <1>6

LEMMA RowStepsLedger ==
    ASSUME LedgerInv, [Next]_vars, UNCHANGED <<starts, confirmations>>
    PROVE  UNCHANGED Ledger!vars \/ Ledger!Next
<1>0. TypeInv
    BY DEF LedgerInv, SpacingInv
<1>1. ASSUME NEW p \in Outboxes, outbox'[p] = outbox[p] PROVE SameEntry(p)
    BY <1>1 DEF SameEntry, Stays, StageOf, Started, Confirmed
<1>2. CASE UNCHANGED outbox
    BY <1>1, <1>2, EntriesStay
<1>3. CASE ~UNCHANGED outbox
    <2>1. PICK o \in Outboxes : \A p \in Outboxes \ {o} : outbox'[p] = outbox[p]
        BY <1>0, <1>3, RowChangesAlone
    <2>2. \A p \in Outboxes \ {o} : SameEntry(p)
        BY <1>1, <2>1
    <2>3. ASSUME NEW from, NEW to, StageOf(o) \in from, StageOf(o)' = to
          PROVE  Ledger!Move(o, from, to)
        BY <2>2, <2>3 DEF Ledger!Move, SameEntry
    <2>4. Stays(o) => [p \in Outboxes |-> outbox[p].cycle]' = [p \in Outboxes |-> outbox[p].cycle]
        BY <2>2 DEF SameEntry, Stays
    <2>5. CASE Stays(o) /\ StageOf(o)' = StageOf(o)
        BY <2>2, <2>5, EntriesStay DEF SameEntry
    <2>6. CASE /\ Stays(o)
               /\ o \notin Administrative
               /\ StageOf(o) \in {"queued", "started"}
               /\ StageOf(o)' = "blocked"
        <3>1. Ledger!Block(o)
            BY <2>3, <2>4, <2>6 DEF Ledger!Block
        <3>2. QED
            BY <3>1 DEF Ledger!Next
    <2>7. CASE /\ Stays(o)
               /\ StageOf(o) \in IF o \in Administrative THEN {"queued"} ELSE {"confirmed"}
               /\ StageOf(o)' = "published"
        <3>1. Ledger!Publish(o)
            BY <2>3, <2>4, <2>7 DEF Ledger!Publish
        <3>2. QED
            BY <3>1 DEF Ledger!Next
    <2>8. CASE /\ Stays(o)
               /\ StageOf(o) \in {"queued", "started", "confirmed"}
               /\ StageOf(o)' = "dead"
        <3>1. Ledger!Exhaust(o)
            BY <2>3, <2>4, <2>8 DEF Ledger!Exhaust
        <3>2. QED
            BY <3>1 DEF Ledger!Next
    <2>9. CASE /\ outbox'[o].cycle = outbox[o].cycle + 1
               /\ StageOf(o) = "dead"
               /\ StageOf(o)' = "queued"
        <3>1. Ledger!Move(o, {"dead"}, "queued")
            BY <2>3, <2>9
        <3>2. Ledger!Reopen(o)
            BY <2>2, <2>9, <3>1 DEF Ledger!Reopen, SameEntry, Stays
        <3>3. QED
            BY <3>2 DEF Ledger!Next
    <2>10. QED
        BY <2>5, <2>6, <2>7, <2>8, <2>9, RowMovesLedger DEF LedgerMove
<1>4. QED
    BY <1>2, <1>3

LEMMA LedgerStep ==
    ASSUME LedgerInv, [Next]_vars
    PROVE  [Ledger!Next]_(Ledger!vars)
<1>1. CASE UNCHANGED <<starts, confirmations>>
    BY <1>1, RowStepsLedger
<1>2. CASE \E w \in Workers : StartedBy(w)
    BY <1>2, StartBegins DEF Ledger!Next
<1>3. CASE \E w \in Workers : ConfirmedBy(w)
    BY <1>3, ConfirmationConfirms DEF Ledger!Next
<1>4. QED
    BY <1>1, <1>2, <1>3, RecordForms

LEMMA LedgerInit == Init => Ledger!Init
<1> SUFFICES ASSUME Init PROVE Ledger!Init
    OBVIOUS
<1>1. \A o \in Outboxes : StageOf(o) = "queued" /\ outbox[o].cycle = 0
    BY DEF Init, NewRow, StageOf, Started, Confirmed
<1>2. QED
    BY <1>1 DEF Init, Ledger!Init

\* The outbox implements the ledger: whatever the workers, stale claims,
\* retries, crashes and recoveries, each event starts at most once per cycle,
\* inside the window, a spacing away from its channel's other executions and
\* within the day's limit, and is published only when it was confirmed.
THEOREM OutboxImplementsLedger == Spec => ImplementsLedger
<1>1. LedgerInv /\ [Next]_vars => [Ledger!Next]_(Ledger!vars)
    BY LedgerStep
<1>2. Init => LedgerInv
    BY SpacingInit, QuotaInit, OutcomeInvInit DEF LedgerInv
<1>3. LedgerInv /\ [Next]_vars => LedgerInv'
    BY SpacingStep, QuotaStep, OutcomeInvStep DEF LedgerInv
<1>4. QED
    BY <1>1, <1>2, <1>3, LedgerInit, PTL DEF Spec, ImplementsLedger, Ledger!Spec

=============================================================================
