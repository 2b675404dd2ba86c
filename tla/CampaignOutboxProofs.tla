------------------------- MODULE CampaignOutboxProofs -------------------------
(***************************************************************************)
(* Theorems about CampaignOutbox for any number of events, workers and     *)
(* channels, any limits, windows and leases.                               *)
(***************************************************************************)
EXTENDS CampaignOutbox, TLAPS, FiniteSetTheorems

------------------------------------------------------------------------------
(* The time arithmetic of ExecutionWindow.                                 *)

\* Every instant falls into the day it is said to fall into.
LEMMA DayBounds ==
    ASSUME NEW t \in Nat
    PROVE  /\ DayOf(t) \in Nat
           /\ DayStart(DayOf(t)) \in Nat
           /\ DayStart(DayOf(t)) <= t
           /\ t < DayStart(DayOf(t) + 1)
    BY WindowAssumption DEF DayOf, DayStart

\* Days follow one another with time.
LEMMA DayMonotone ==
    ASSUME NEW t \in Nat, NEW u \in Nat, t <= u
    PROVE  DayOf(t) <= DayOf(u)
    BY WindowAssumption DEF DayOf

LEMMA DayStartStep ==
    ASSUME NEW d \in Nat
    PROVE  /\ DayStart(d) \in Nat
           /\ DayStart(d + 1) = DayStart(d) + DayLength
    BY WindowAssumption DEF DayStart

\* nextUtcWindowInstant never answers an instant in the past.
LEMMA WindowInstantNotEarlier ==
    ASSUME NEW t \in Nat
    PROVE  /\ NextUtcWindowInstant(t) \in Nat
           /\ NextUtcWindowInstant(t) >= t
<1> DEFINE d == DayOf(t)
<1>1. /\ d \in Nat
      /\ DayStart(d) \in Nat
      /\ DayStart(d) <= t
      /\ t < DayStart(d + 1)
    BY DayBounds
<1>2. DayStart(d + 1) \in Nat
    BY <1>1, DayStartStep
<1>3. TickOfDay(t) = t - DayStart(d)
    BY DEF TickOfDay
<1> HIDE DEF d
<1>4. NextUtcWindowInstant(t) =
         IF TickOfDay(t) < WindowStart THEN DayStart(d) + WindowStart
         ELSE IF TickOfDay(t) < WindowEnd THEN t
         ELSE DayStart(d + 1) + WindowStart
    BY DEF NextUtcWindowInstant, d
<1>5. QED
    BY <1>1, <1>2, <1>3, <1>4, WindowAssumption

\* A day starts no earlier than the ones before, and holds its own ticks.
LEMMA DayStartMonotone ==
    ASSUME NEW c \in Nat, NEW d \in Nat, c <= d
    PROVE  DayStart(c) <= DayStart(d)
    BY WindowAssumption DEF DayStart

LEMMA TickOfItsDay ==
    ASSUME NEW d \in Nat, NEW k \in 0 .. DayLength - 1
    PROVE  /\ DayStart(d) + k \in Nat
           /\ DayOf(DayStart(d) + k) = d
           /\ TickOfDay(DayStart(d) + k) = k
<1> DEFINE t == DayStart(d) + k
           e == DayOf(t)
<1>1. /\ DayStart(d) \in Nat /\ DayStart(d + 1) \in Nat
      /\ t \in Nat /\ DayStart(d) <= t /\ t < DayStart(d + 1)
    BY DayStartStep, WindowAssumption
<1>2. t = DayStart(d) + k
    OBVIOUS
<1> HIDE DEF t
<1>3. /\ e \in Nat /\ DayStart(e) \in Nat /\ DayStart(e) <= t /\ t < DayStart(e + 1)
      /\ DayStart(e + 1) \in Nat
    BY <1>1, DayBounds, DayStartStep
<1> HIDE DEF e
<1>4. ~(e + 1 <= d)
    BY <1>1, <1>3, DayStartMonotone
<1>5. ASSUME d + 1 <= e PROVE FALSE
    <2>1. DayStart(d + 1) <= DayStart(e)
        BY <1>3, <1>5, DayStartMonotone
    <2>2. QED
        BY <1>1, <1>3, <2>1
<1>6. e = d
    BY <1>3, <1>4, <1>5
<1>7. TickOfDay(t) = t - DayStart(e)
    BY DEF TickOfDay, e
<1>8. QED
    BY <1>1, <1>2, <1>6, <1>7 DEF e, t

\* The answer of nextUtcWindowInstant is inside the window, and nothing between is.
LEMMA WindowInstantFirst ==
    ASSUME NEW t \in Nat
    PROVE  /\ InWindow(NextUtcWindowInstant(t))
           /\ \A u \in Nat : t <= u /\ InWindow(u) => NextUtcWindowInstant(t) <= u
<1> DEFINE d == DayOf(t)
           r == NextUtcWindowInstant(t)
<1>1. /\ d \in Nat /\ d + 1 \in Nat /\ DayStart(d) \in Nat
      /\ DayStart(d) <= t /\ t < DayStart(d + 1)
    BY DayBounds
<1>2. DayStart(d + 1) = DayStart(d) + DayLength
    BY <1>1, DayStartStep
<1>3. TickOfDay(t) = t - DayStart(d)
    BY DEF TickOfDay
<1>4. r = IF TickOfDay(t) < WindowStart THEN DayStart(d) + WindowStart
          ELSE IF TickOfDay(t) < WindowEnd THEN t
          ELSE DayStart(d + 1) + WindowStart
    BY DEF NextUtcWindowInstant
<1> HIDE DEF d, r
<1>5. InWindow(r)
    <2>1. WindowStart \in 0 .. DayLength - 1
        BY WindowAssumption
    <2>2. /\ TickOfDay(DayStart(d) + WindowStart) = WindowStart
          /\ TickOfDay(DayStart(d + 1) + WindowStart) = WindowStart
        BY <1>1, <2>1, TickOfItsDay
    <2>3. QED
        BY <1>1, <1>3, <1>4, <2>2, WindowAssumption DEF InWindow
<1>6. ASSUME NEW u \in Nat, t <= u, InWindow(u) PROVE r <= u
    <2> DEFINE e == DayOf(u)
    <2>1. e \in Nat /\ DayStart(e) \in Nat /\ DayStart(e) <= u
        BY DayBounds
    <2>2. WindowStart <= u - DayStart(e) /\ u - DayStart(e) < WindowEnd
        BY <1>6 DEF InWindow, TickOfDay
    <2>3. d <= e
        BY <1>6, DayMonotone DEF d
    <2> HIDE DEF e
    <2>4. CASE e = d
        BY <1>1, <1>2, <1>3, <1>4, <1>6, <2>1, <2>2, <2>4, WindowAssumption
    <2>5. CASE d + 1 <= e
        <3>1. DayStart(d + 1) <= DayStart(e)
            BY <1>1, <2>1, <2>5, DayStartMonotone
        <3>2. QED
            BY <1>1, <1>2, <1>3, <1>4, <2>1, <2>2, <3>1, WindowAssumption
    <2>6. QED
        BY <1>1, <2>1, <2>3, <2>4, <2>5
<1>7. QED
    BY <1>5, <1>6 DEF r

\* An instant is answered unchanged exactly if it is inside the window.
LEMMA WindowInstantFixed ==
    ASSUME NEW t \in Nat
    PROVE  NextUtcWindowInstant(t) = t <=> InWindow(t)
<1> DEFINE d == DayOf(t)
<1>1. /\ d \in Nat
      /\ DayStart(d) \in Nat
      /\ DayStart(d) <= t
      /\ t < DayStart(d + 1)
    BY DayBounds
<1>2. DayStart(d + 1) \in Nat
    BY <1>1, DayStartStep
<1>3. TickOfDay(t) = t - DayStart(d)
    BY DEF TickOfDay
<1> HIDE DEF d
<1>4. NextUtcWindowInstant(t) =
         IF TickOfDay(t) < WindowStart THEN DayStart(d) + WindowStart
         ELSE IF TickOfDay(t) < WindowEnd THEN t
         ELSE DayStart(d + 1) + WindowStart
    BY DEF NextUtcWindowInstant, d
<1>5. QED
    BY <1>1, <1>2, <1>3, <1>4, WindowAssumption DEF InWindow

\* The answer of nextCampaignExecutionInstant keeps the spacing.
LEMMA ExecutionInstantSpaced ==
    ASSUME NEW t \in Nat, NEW spacing \in Nat, NEW last \in Nat
    PROVE  /\ NextCampaignExecutionInstant(t, spacing, last) \in Nat
           /\ NextCampaignExecutionInstant(t, spacing, last) >= t
           /\ NextCampaignExecutionInstant(t, spacing, last) >= last + spacing
<1> DEFINE s == IF t >= last + spacing THEN t ELSE last + spacing
<1>1. s \in Nat /\ s >= t /\ s >= last + spacing
    OBVIOUS
<1>2. NextCampaignExecutionInstant(t, spacing, last) = NextUtcWindowInstant(s)
    BY DEF NextCampaignExecutionInstant
<1> HIDE DEF s
<1>3. NextUtcWindowInstant(s) \in Nat /\ NextUtcWindowInstant(s) >= s
    BY <1>1, WindowInstantNotEarlier
<1>4. QED
    BY <1>1, <1>2, <1>3

\* For any window, spacing and last start, nextCampaignExecutionInstant answers the
\* earliest instant that is not past, keeps the spacing and is inside the window
\* (nextCampaignExecutionInstant, nextUtcWindowInstant).
THEOREM ExecutionInstantIsEarliest ==
    ASSUME NEW t \in Nat, NEW spacing \in Nat, NEW last \in Nat
    PROVE  LET Admissible(u) == t <= u /\ last + spacing <= u /\ InWindow(u)
               answer == NextCampaignExecutionInstant(t, spacing, last)
           IN  answer \in Nat /\ Admissible(answer) /\ \A u \in Nat : Admissible(u) => answer <= u
<1> DEFINE s == IF t >= last + spacing THEN t ELSE last + spacing
           answer == NextCampaignExecutionInstant(t, spacing, last)
<1>1. /\ s \in Nat /\ t <= s /\ last + spacing <= s
      /\ \A u \in Nat : t <= u /\ last + spacing <= u => s <= u
    OBVIOUS
<1>2. answer = NextUtcWindowInstant(s)
    BY DEF NextCampaignExecutionInstant
<1> HIDE DEF s, answer
<1>3. answer \in Nat /\ s <= answer
    BY <1>1, <1>2, WindowInstantNotEarlier
<1>4. InWindow(answer) /\ \A u \in Nat : s <= u /\ InWindow(u) => answer <= u
    BY <1>1, <1>2, WindowInstantFirst
<1>5. t <= answer /\ last + spacing <= answer
    BY <1>1, <1>3
<1>6. QED
    BY <1>1, <1>3, <1>4, <1>5 DEF answer

\* An execution that need not wait is inside the window and no earlier than
\* the instant reserved for the next one.
LEMMA NoWaitMeansAdmissible ==
    ASSUME NEW t \in Nat, NEW last \in Nat,
           NextCampaignExecutionInstant(t, 0, last) <= t
    PROVE  InWindow(t) /\ last <= t
<1> DEFINE n == NextCampaignExecutionInstant(t, 0, last)
<1>1. n \in Nat /\ n >= t /\ n >= last + 0
    <2>1. 0 \in Nat
        OBVIOUS
    <2>2. QED
        BY <2>1, ExecutionInstantSpaced
<1>2. n <= t
    OBVIOUS
<1> HIDE DEF n
<1>3. last <= t /\ n = t
    BY <1>1, <1>2
<1>4. NextUtcWindowInstant(t) = n
    BY <1>3 DEF NextCampaignExecutionInstant, n
<1>5. QED
    BY <1>3, <1>4, WindowInstantFixed

LEMMA RetryAtType ==
    ASSUME NEW t \in Nat, NEW attempt \in Nat \ {0}
    PROVE  DeterministicRetryAt(t, attempt) \in Int
<1>1. 2^(attempt - 1) \in Int
    <2>1. attempt - 1 \in Int /\ 2 \in Int /\ 2 > 0
        OBVIOUS
    <2>2. QED
        BY <2>1
<1>2. RetryBase * 2^(attempt - 1) \in Int
    BY <1>1, DelayAssumption
<1>3. QED
    BY <1>2, DelayAssumption DEF DeterministicRetryAt

------------------------------------------------------------------------------
(* Types.                                                                  *)

Busy == {"claimed", "executing", "confirmed"}

\* A worker past its claim carries one.
BusyHoldsClaim == \A w \in Workers : phase[w] \in Busy => held[w] \in Claim

TypeInv == TypeOK /\ BusyHoldsClaim

LEMMA UnclaimedType ==
    ASSUME NEW row \in Row
    PROVE  Unclaimed(row) \in Row
    BY DEF Row, Unclaimed

LEMMA ClosedType ==
    ASSUME NEW row \in Row, NEW s \in Status
    PROVE  Closed(row, s) \in Row
    BY DEF Row, Unclaimed, Closed

LEMMA DeferredType ==
    ASSUME NEW row \in Row, NEW t \in Int
    PROVE  Deferred(row, t) \in Row
<1> DEFINE n == IF row.attempts = 0 THEN 0 ELSE row.attempts - 1
<1>1. n \in Nat
    BY DEF Row
<1>2. Deferred(row, t) = [Unclaimed(row) EXCEPT !.availableAt = t, !.attempts = n]
    BY DEF Deferred
<1>3. Unclaimed(row) \in Row
    BY UnclaimedType
<1> HIDE DEF n
<1>4. \A r \in Row : [r EXCEPT !.availableAt = t, !.attempts = n] \in Row
    BY <1>1 DEF Row
<1>5. QED
    BY <1>2, <1>3, <1>4

LEMMA FailedType ==
    ASSUME NEW row \in Row, NEW s \in Status, NEW t \in Int
    PROVE  Failed(row, s, t) \in Row
    BY DEF Row, Unclaimed, Closed, Failed

LEMMA LimitType ==
    ASSUME NEW row \in Row, NEW w \in Workers
    PROVE  Limit(row, w) \in Nat \ {0}
    BY OutboxAssumption DEF Row, Limit

LEMMA RescheduleType ==
    ASSUME outbox \in [Outboxes -> Row], NEW o \in Outboxes, NEW t \in Int,
           Reschedule(o, t)
    PROVE  outbox' \in [Outboxes -> Row]
    BY DeferredType DEF Reschedule

LEMMA BlockType ==
    ASSUME outbox \in [Outboxes -> Row], NEW o \in Outboxes, Block(o)
    PROVE  outbox' \in [Outboxes -> Row]
    BY ClosedType DEF Block, Status

LEMMA RestType ==
    ASSUME TypeInv, NEW w \in Workers, Rest(w)
    PROVE  /\ phase' \in [Workers -> Phase]
           /\ now' \in [Workers -> 0 .. MaxTime]
           /\ held' \in [Workers -> Claim \cup {NoClaim}]
           /\ BusyHoldsClaim'
<1>1. /\ phase' \in [Workers -> Phase]
      /\ now' \in [Workers -> 0 .. MaxTime]
      /\ held' \in [Workers -> Claim \cup {NoClaim}]
    BY OutboxAssumption DEF TypeInv, TypeOK, Rest, Phase
<1>2. BusyHoldsClaim'
    BY DEF TypeInv, TypeOK, Rest, BusyHoldsClaim, Busy
<1>3. QED
    BY <1>1, <1>2

LEMMA GotoType ==
    ASSUME TypeInv, NEW w \in Workers, NEW p \in Phase, Goto(w, p),
           phase[w] \in Busy \/ p \notin Busy
    PROVE  /\ phase' \in [Workers -> Phase]
           /\ now' \in [Workers -> 0 .. MaxTime]
           /\ held' \in [Workers -> Claim \cup {NoClaim}]
           /\ BusyHoldsClaim'
<1>1. /\ phase' \in [Workers -> Phase]
      /\ now' \in [Workers -> 0 .. MaxTime]
      /\ held' \in [Workers -> Claim \cup {NoClaim}]
    BY DEF TypeInv, TypeOK, Goto
<1>2. BusyHoldsClaim'
    BY DEF TypeInv, TypeOK, Goto, BusyHoldsClaim
<1>3. QED
    BY <1>1, <1>2

\* What a busy worker's claim and instant are.
LEMMA BusyClaim ==
    ASSUME TypeInv, NEW w \in Workers, phase[w] \in Busy
    PROVE  /\ held[w].outbox \in Outboxes
           /\ held[w].cycle \in Nat
           /\ held[w].attempt \in Nat \ {0}
           /\ held[w].maxAttempts \in Nat
           /\ held[w].generation \in Nat
           /\ now[w] \in Nat
           /\ now[w] \in 0 .. MaxTime
           /\ DayOf(now[w]) \in Days
           /\ ChannelOf[held[w].outbox] \in Channels
           /\ nextAvailable[ChannelOf[held[w].outbox]] \in Nat
<1>1. held[w] \in Claim
    BY DEF TypeInv, BusyHoldsClaim
<1>2. /\ held[w].outbox \in Outboxes
      /\ held[w].cycle \in Nat
      /\ held[w].attempt \in Nat \ {0}
      /\ held[w].maxAttempts \in Nat
      /\ held[w].generation \in Nat
    BY <1>1 DEF Claim
<1>3. now[w] \in 0 .. MaxTime
    BY DEF TypeInv, TypeOK
<1>4. now[w] \in Nat /\ now[w] <= MaxTime /\ MaxTime \in Nat
    BY <1>3, OutboxAssumption
<1>5. DayOf(now[w]) \in Nat /\ DayOf(MaxTime) \in Nat /\ DayOf(now[w]) <= DayOf(MaxTime)
    BY <1>4, DayBounds, DayMonotone
<1>6. DayOf(now[w]) \in Days
    BY <1>5 DEF Days
<1>7. ChannelOf[held[w].outbox] \in Channels
    BY <1>2, OutboxAssumption
<1>8. nextAvailable[ChannelOf[held[w].outbox]] \in Nat
    BY <1>7 DEF TypeInv, TypeOK
<1>9. QED
    BY <1>2, <1>3, <1>4, <1>6, <1>7, <1>8

\* Every operation keeps the types, and a worker past its claim keeps it.
LEMMA TypeInvInit == Init => TypeInv
<1> SUFFICES ASSUME Init PROVE TypeInv
    OBVIOUS
<1>1. NewRow \in Row
    BY DEF NewRow, Row, Status
<1>2. clock \in 0 .. MaxTime /\ \A w \in Workers : 0 \in 0 .. MaxTime
    BY OutboxAssumption DEF Init
<1>3. TypeOK
    BY <1>1, <1>2 DEF Init, TypeOK, Phase
<1>4. BusyHoldsClaim
    BY DEF Init, BusyHoldsClaim, Busy
<1>5. QED
    BY <1>3, <1>4 DEF TypeInv

LEMMA SettleType ==
    ASSUME TypeInv, NEW w \in Workers, NEW o \in Outboxes, Settle(w, o)
    PROVE  outbox' \in [Outboxes -> Row] /\ deadLetters' \subseteq Outboxes \X Nat
<1> DEFINE row == outbox[o]
           s == IF Confirmed(o, row.cycle) THEN "PUBLISHED" ELSE "EXHAUSTED"
<1>1. row \in Row /\ s \in Status
    BY DEF TypeInv, TypeOK, Status
<1>2. row.cycle \in Nat
    BY <1>1 DEF Row
<1>3. Closed(row, s) \in Row /\ Limit(row, w) \in Nat
    BY <1>1, ClosedType, LimitType
<1>4. outbox' = [outbox EXCEPT ![o] = [Closed(row, s) EXCEPT !.snapshot = Limit(row, w)]]
    BY DEF Settle
<1>5. deadLetters' \subseteq Outboxes \X Nat
    BY <1>2 DEF Settle, WithDeadLetter, TypeInv, TypeOK
<1> HIDE DEF s
<1>6. [Closed(row, s) EXCEPT !.snapshot = Limit(row, w)] \in Row
    BY <1>3 DEF Row
<1>7. QED
    BY <1>4, <1>5, <1>6 DEF TypeInv, TypeOK

LEMMA ClaimRowType ==
    ASSUME TypeInv, NEW w \in Workers, NEW o \in Outboxes, ClaimRow(w, o)
    PROVE  /\ outbox' \in [Outboxes -> Row]
           /\ phase' \in [Workers -> Phase]
           /\ held' \in [Workers -> Claim \cup {NoClaim}]
           /\ now' = now
           /\ BusyHoldsClaim'
<1> DEFINE row == outbox[o]
           taken == [row EXCEPT !.owner = w,
                                !.generation = row.generation + 1,
                                !.expiresAt = now[w] + LeaseLength,
                                !.attempts = row.attempts + 1,
                                !.snapshot = Limit(row, w)]
           claim == [outbox |-> o, generation |-> taken.generation,
                     attempt |-> taken.attempts,
                     maxAttempts |-> taken.snapshot, cycle |-> row.cycle]
<1>1. row \in Row /\ now[w] \in Nat
    BY OutboxAssumption DEF TypeInv, TypeOK
<1>2. Limit(row, w) \in Nat
    BY <1>1, LimitType
<1>3. now[w] + LeaseLength \in Nat
    BY <1>1, OutboxAssumption
<1>4. taken \in Row
    <2>1. row.generation + 1 \in Nat /\ row.attempts + 1 \in Nat
        BY <1>1 DEF Row
    <2>2. \A g, e, a, n \in Nat :
             [row EXCEPT !.owner = w, !.generation = g, !.expiresAt = e,
                         !.attempts = a, !.snapshot = n] \in Row
        BY <1>1 DEF Row
    <2>3. QED
        BY <1>2, <1>3, <2>1, <2>2
<1>5. claim \in Claim
    BY <1>1, <1>2 DEF Row, Claim
<1>6. /\ outbox' = [outbox EXCEPT ![o] = taken]
      /\ held' = [held EXCEPT ![w] = claim]
      /\ phase' = [phase EXCEPT ![w] = "claimed"]
      /\ now' = now
    BY DEF ClaimRow
<1> HIDE DEF taken, claim
<1>7. outbox' \in [Outboxes -> Row]
    BY <1>4, <1>6 DEF TypeInv, TypeOK
<1>8. /\ phase' \in [Workers -> Phase]
      /\ held' \in [Workers -> Claim \cup {NoClaim}]
    BY <1>5, <1>6 DEF TypeInv, TypeOK, Phase
<1>9. BusyHoldsClaim'
    BY <1>5, <1>6 DEF TypeInv, TypeOK, BusyHoldsClaim
<1>10. QED
    BY <1>6, <1>7, <1>8, <1>9

LEMMA NextAllowedAtType ==
    ASSUME TypeInv, NEW w \in Workers, phase[w] \in Busy
    PROVE  NextAllowedAt(w) \in Nat
<1>1. /\ now[w] \in Nat
      /\ nextAvailable[ChannelOf[held[w].outbox]] \in Nat
      /\ 0 \in Nat
    BY BusyClaim
<1>2. QED
    BY <1>1, ExecutionInstantSpaced DEF NextAllowedAt

LEMMA ReserveSpacingType ==
    ASSUME TypeInv, NEW w \in Workers, phase[w] \in Busy, ReserveSpacing(w)
    PROVE  nextAvailable' \in [Channels -> Nat]
<1>1. now[w] \in Nat /\ MinSpacing \in Nat /\ ChannelOf[held[w].outbox] \in Channels
    BY BusyClaim, DelayAssumption
<1>2. NextCampaignExecutionInstant(now[w], MinSpacing, now[w]) \in Nat
    BY <1>1, ExecutionInstantSpaced
<1>3. QED
    BY <1>1, <1>2 DEF ReserveSpacing, TypeInv, TypeOK

LEMMA NextDayType ==
    ASSUME NEW t \in Nat
    PROVE  /\ DayStart(DayOf(t) + 1) \in Nat
           /\ NextUtcWindowInstant(DayStart(DayOf(t) + 1)) \in Nat
<1>1. DayOf(t) + 1 \in Nat
    BY DayBounds
<1>2. DayStart(DayOf(t) + 1) \in Nat
    BY <1>1, DayStartStep
<1>3. QED
    BY <1>2, WindowInstantNotEarlier

\* What the authorization may change, and to what.
LEMMA AuthorizeType ==
    ASSUME TypeInv, NEW w \in Workers, AuthorizeCampaignExecution(w)
    PROVE  TypeInv'
<1> USE DEF Phase
<1>1. phase[w] \in Busy
    BY DEF AuthorizeCampaignExecution, Busy
<1>2. /\ held[w].outbox \in Outboxes
      /\ held[w].cycle \in Nat
      /\ now[w] \in Nat
      /\ DayOf(now[w]) \in Days
      /\ ChannelOf[held[w].outbox] \in Channels
    BY <1>1, BusyClaim
<1>3. /\ NextAllowedAt(w) \in Nat
      /\ NextUtcWindowInstant(DayStart(DayOf(now[w]) + 1)) \in Nat
    BY <1>1, <1>2, NextAllowedAtType, NextDayType
<1>4. /\ clock' \in 0 .. MaxTime
      /\ confirmations' \subseteq Outboxes \X Nat
      /\ deadLetters' \subseteq Outboxes \X Nat
      /\ recoveries' \subseteq Outboxes \X Nat
    BY DEF AuthorizeCampaignExecution, TypeInv, TypeOK
<1> DEFINE ControlOK == /\ phase' \in [Workers -> Phase]
                        /\ now' \in [Workers -> 0 .. MaxTime]
                        /\ held' \in [Workers -> Claim \cup {NoClaim}]
                        /\ BusyHoldsClaim'
           TablesOK == /\ outbox' \in [Outboxes -> Row]
                       /\ starts' \subseteq Start
                       /\ nextAvailable' \in [Channels -> Nat]
                       /\ counter' \in [Channels -> [Days -> Nat]]
<1>5. SUFFICES ControlOK /\ TablesOK
    BY <1>4 DEF TypeInv, TypeOK
<1>6. CASE AuthorizeStale(w)
    <2>1. ControlOK
        BY <1>6, RestType DEF AuthorizeStale
    <2>2. TablesOK
        BY <1>6 DEF AuthorizeStale, TypeInv, TypeOK
    <2>3. QED
        BY <2>1, <2>2
<1>7. CASE AuthorizeAdministrative(w)
    <2>1. ControlOK
        BY <1>1, <1>7, GotoType DEF AuthorizeAdministrative
    <2>2. TablesOK
        BY <1>7 DEF AuthorizeAdministrative, TypeInv, TypeOK
    <2>3. QED
        BY <2>1, <2>2
<1>8. CASE AuthorizeConfirmed(w)
    <2>1. ControlOK
        BY <1>1, <1>8, GotoType DEF AuthorizeConfirmed
    <2>2. TablesOK
        BY <1>8 DEF AuthorizeConfirmed, TypeInv, TypeOK
    <2>3. QED
        BY <2>1, <2>2
<1>9. CASE AuthorizeIneligible(w)
    <2>1. ControlOK
        BY <1>9, RestType DEF AuthorizeIneligible
    <2>2. TablesOK
        BY <1>2, <1>9, BlockType DEF AuthorizeIneligible, TypeInv, TypeOK
    <2>3. QED
        BY <2>1, <2>2
<1>10. CASE AuthorizeTooSoon(w)
    <2>1. ControlOK
        BY <1>10, RestType DEF AuthorizeTooSoon
    <2>2. TablesOK
        BY <1>2, <1>3, <1>10, RescheduleType DEF AuthorizeTooSoon, TypeInv, TypeOK
    <2>3. QED
        BY <2>1, <2>2
<1>11. CASE AuthorizeRetry(w)
    <2>1. ControlOK
        BY <1>1, <1>11, GotoType DEF AuthorizeRetry
    <2>2. TablesOK
        BY <1>1, <1>11, ReserveSpacingType DEF AuthorizeRetry, TypeInv, TypeOK
    <2>3. QED
        BY <2>1, <2>2
<1>12. CASE AuthorizeOverLimit(w)
    <2>1. ControlOK
        BY <1>12, RestType DEF AuthorizeOverLimit
    <2>2. TablesOK
        BY <1>2, <1>3, <1>12, RescheduleType DEF AuthorizeOverLimit, TypeInv, TypeOK
    <2>3. QED
        BY <2>1, <2>2
<1>13. CASE AuthorizeStart(w)
    <2>1. ControlOK
        BY <1>1, <1>13, GotoType DEF AuthorizeStart
    <2> DEFINE ch == ChannelOf[held[w].outbox]
               day == DayOf(now[w])
    <2>2. day \in Nat
        BY <1>2, DayBounds
    <2>3. outbox' \in [Outboxes -> Row] /\ nextAvailable' \in [Channels -> Nat]
        BY <1>1, <1>13, ReserveSpacingType DEF AuthorizeStart, TypeInv, TypeOK
    <2>4. starts' \subseteq Start
        BY <1>2, <1>13, <2>2 DEF AuthorizeStart, Start, TypeInv, TypeOK
    <2>5. counter' = [counter EXCEPT ![ch][day] = @ + 1]
        BY <1>13 DEF AuthorizeStart
    <2>6. counter \in [Channels -> [Days -> Nat]] /\ ch \in Channels /\ day \in Days
        BY <1>2 DEF TypeInv, TypeOK
    <2> HIDE DEF ch, day
    <2>7. counter[ch] \in [Days -> Nat] /\ counter[ch][day] \in Nat
        BY <2>6
    <2>8. counter' \in [Channels -> [Days -> Nat]]
        BY <2>5, <2>6, <2>7
    <2>9. QED
        BY <2>1, <2>3, <2>4, <2>8
<1>14. QED
    BY <1>6, <1>7, <1>8, <1>9, <1>10, <1>11, <1>12, <1>13
    DEF AuthorizeCampaignExecution

LEMMA InstantType ==
    ASSUME TypeInv, NEW w \in Workers, NEW t \in Instants(w)
    PROVE  t \in Nat
    BY OutboxAssumption DEF Instants, TypeInv, TypeOK

\* The steps that end in Rest and touch the outbox or the dead letters alone.
LEMMA EndType ==
    ASSUME TypeInv, NEW w \in Workers, Rest(w),
           outbox' \in [Outboxes -> Row],
           deadLetters' \subseteq Outboxes \X Nat,
           UNCHANGED <<clock, starts, confirmations, recoveries, nextAvailable, counter>>
    PROVE  TypeInv'
<1>1. /\ phase' \in [Workers -> Phase]
      /\ now' \in [Workers -> 0 .. MaxTime]
      /\ held' \in [Workers -> Claim \cup {NoClaim}]
      /\ BusyHoldsClaim'
    BY RestType
<1>2. QED
    BY <1>1 DEF TypeInv, TypeOK

LEMMA WorkerType ==
    ASSUME TypeInv, NEW w \in Workers, Process(w) \/ Crash(w)
    PROVE  TypeInv'
<1>1. CASE ReadClock(w)
    <2>1. TypeOK'
        BY <1>1 DEF ReadClock, TypeInv, TypeOK, Phase, tables
    <2>2. BusyHoldsClaim'
        BY <1>1 DEF ReadClock, TypeInv, TypeOK, BusyHoldsClaim, Busy
    <2>3. QED
        BY <2>1, <2>2 DEF TypeInv
<1>2. CASE FinalizeExpiredFinalAttempt(w)
    <2>1. /\ phase' \in [Workers -> Phase]
          /\ now' \in [Workers -> 0 .. MaxTime]
          /\ held' \in [Workers -> Claim \cup {NoClaim}]
          /\ BusyHoldsClaim'
        BY <1>2, GotoType DEF FinalizeExpiredFinalAttempt, Phase, Busy
    <2>2. outbox' \in [Outboxes -> Row] /\ deadLetters' \subseteq Outboxes \X Nat
        BY <1>2, SettleType DEF FinalizeExpiredFinalAttempt, TypeInv, TypeOK
    <2>3. QED
        BY <1>2, <2>1, <2>2 DEF FinalizeExpiredFinalAttempt, TypeInv, TypeOK
<1>3. CASE ClaimCampaignOutbox(w)
    <2>1. CASE \E o \in Outboxes : ClaimRow(w, o)
        <3>1. /\ outbox' \in [Outboxes -> Row]
              /\ phase' \in [Workers -> Phase]
              /\ held' \in [Workers -> Claim \cup {NoClaim}]
              /\ now' = now
              /\ BusyHoldsClaim'
            BY <2>1, ClaimRowType
        <3>2. QED
            BY <1>3, <3>1 DEF ClaimCampaignOutbox, TypeInv, TypeOK
    <2>2. CASE Rest(w) /\ UNCHANGED outbox
        <3>1. outbox' \in [Outboxes -> Row] /\ deadLetters' \subseteq Outboxes \X Nat
            BY <1>3, <2>2 DEF ClaimCampaignOutbox, TypeInv, TypeOK
        <3>2. QED
            BY <1>3, <2>2, <3>1, EndType DEF ClaimCampaignOutbox
    <2>3. QED
        BY <1>3, <2>1, <2>2 DEF ClaimCampaignOutbox
<1>4. CASE ReserveDailyLeadAllocation(w)
    <2>1. held[w].outbox \in Outboxes /\ now[w] \in Nat
        BY <1>4, BusyClaim DEF ReserveDailyLeadAllocation, Busy
    <2>2. DayStart(DayOf(now[w]) + 1) \in Int
        BY <2>1, NextDayType
    <2>3. outbox' \in [Outboxes -> Row] /\ deadLetters' \subseteq Outboxes \X Nat
        BY <1>4, <2>1, <2>2, RescheduleType
        DEF ReserveDailyLeadAllocation, TypeInv, TypeOK
    <2>4. QED
        BY <1>4, <2>3, EndType DEF ReserveDailyLeadAllocation
<1>5. CASE AuthorizeCampaignExecution(w)
    BY <1>5, AuthorizeType
<1>6. CASE ConfirmSimulatedCampaignExecution(w)
    <2>1. phase[w] \in Busy /\ held[w].outbox \in Outboxes /\ held[w].cycle \in Nat
        BY <1>6, BusyClaim DEF ConfirmSimulatedCampaignExecution, Busy
    <2>2. /\ phase' \in [Workers -> Phase]
          /\ now' \in [Workers -> 0 .. MaxTime]
          /\ held' \in [Workers -> Claim \cup {NoClaim}]
          /\ BusyHoldsClaim'
        BY <1>6, <2>1, RestType, GotoType DEF ConfirmSimulatedCampaignExecution, Phase
    <2>3. outbox' \in [Outboxes -> Row] /\ confirmations' \subseteq Outboxes \X Nat
        BY <1>6, <2>1, BlockType DEF ConfirmSimulatedCampaignExecution, TypeInv, TypeOK
    <2>4. QED
        BY <1>6, <2>2, <2>3 DEF ConfirmSimulatedCampaignExecution, TypeInv, TypeOK
<1>7. CASE CompleteCampaignOutbox(w)
    <2>1. held[w].outbox \in Outboxes
        BY <1>7, BusyClaim DEF CompleteCampaignOutbox, Busy
    <2>2. outbox' \in [Outboxes -> Row] /\ deadLetters' \subseteq Outboxes \X Nat
        BY <1>7, <2>1, ClosedType DEF CompleteCampaignOutbox, TypeInv, TypeOK, Status
    <2>3. QED
        BY <1>7, <2>2, EndType DEF CompleteCampaignOutbox
<1>8. CASE FailCampaignOutbox(w)
    <2>1. held[w].outbox \in Outboxes /\ held[w].attempt \in Nat \ {0}
        BY <1>8, BusyClaim DEF FailCampaignOutbox, Busy
    <2>2. PICK t \in Instants(w) :
             \/ /\ outbox' = [outbox EXCEPT ![held[w].outbox] =
                     Failed(outbox[held[w].outbox],
                            IF LastAttempt(w) THEN "EXHAUSTED" ELSE "PENDING",
                            DeterministicRetryAt(t, held[w].attempt))]
                /\ deadLetters' = IF LastAttempt(w) THEN WithDeadLetter(held[w].outbox)
                                  ELSE deadLetters
             \/ UNCHANGED <<outbox, deadLetters>>
        BY <1>8 DEF FailCampaignOutbox
    <2>3. DeterministicRetryAt(t, held[w].attempt) \in Int
        BY <2>1, InstantType, RetryAtType
    <2>4. (IF LastAttempt(w) THEN "EXHAUSTED" ELSE "PENDING") \in Status
        BY DEF Status
    <2>5. outbox[held[w].outbox] \in Row /\ outbox[held[w].outbox].cycle \in Nat
        BY <2>1 DEF TypeInv, TypeOK, Row
    <2>6. outbox' \in [Outboxes -> Row]
        BY <2>2, <2>3, <2>4, <2>5, FailedType DEF TypeInv, TypeOK
    <2>7. deadLetters' \subseteq Outboxes \X Nat
        BY <2>1, <2>2, <2>5 DEF WithDeadLetter, TypeInv, TypeOK
    <2>8. QED
        BY <1>8, <2>6, <2>7, EndType DEF FailCampaignOutbox
<1>9. CASE Crash(w)
    <2>1. outbox' \in [Outboxes -> Row] /\ deadLetters' \subseteq Outboxes \X Nat
        BY <1>9 DEF Crash, tables, TypeInv, TypeOK
    <2>2. QED
        BY <1>9, <2>1, EndType DEF Crash, tables
<1>10. QED
    BY <1>1, <1>2, <1>3, <1>4, <1>5, <1>6, <1>7, <1>8, <1>9 DEF Process

LEMMA RecoverType ==
    ASSUME TypeInv, NEW o \in Outboxes, RecoverCampaignDeadLetter(o)
    PROVE  TypeInv'
<1> DEFINE row == outbox[o]
<1>1. row \in Row /\ row.cycle + 1 \in Nat /\ row.cycle \in Nat
    BY DEF TypeInv, TypeOK, Row
<1>2. PICK t \in clock .. MaxTime :
         outbox' = [outbox EXCEPT ![o] =
             [Failed(row, "PENDING", t) EXCEPT !.attempts = 0,
                                               !.cycle = row.cycle + 1,
                                               !.snapshot = 0]]
    BY DEF RecoverCampaignDeadLetter
<1>3. Failed(row, "PENDING", t) \in Row
    BY <1>1, FailedType DEF Status
<1>4. \A r \in Row, c \in Nat :
         [r EXCEPT !.attempts = 0, !.cycle = c, !.snapshot = 0] \in Row
    BY DEF Row
<1> HIDE DEF row
<1>5. outbox' \in [Outboxes -> Row]
    BY <1>1, <1>2, <1>3, <1>4 DEF TypeInv, TypeOK
<1>6. recoveries' \subseteq Outboxes \X Nat
    BY <1>1 DEF RecoverCampaignDeadLetter, TypeInv, TypeOK, row
<1>7. BusyHoldsClaim'
    BY DEF RecoverCampaignDeadLetter, TypeInv, BusyHoldsClaim
<1>8. QED
    BY <1>5, <1>6, <1>7 DEF RecoverCampaignDeadLetter, TypeInv, TypeOK

LEMMA TypeInvStep == TypeInv /\ [Next]_vars => TypeInv'
<1> SUFFICES ASSUME TypeInv, [Next]_vars PROVE TypeInv'
    OBVIOUS
<1>1. CASE \E w \in Workers : Process(w) \/ Crash(w)
    BY <1>1, WorkerType
<1>2. CASE \E o \in Outboxes : RecoverCampaignDeadLetter(o)
    BY <1>2, RecoverType
<1>3. CASE Tick
    <2>1. clock' \in 0 .. MaxTime
        BY <1>3, OutboxAssumption DEF Tick, TypeInv, TypeOK
    <2>2. QED
        BY <1>3, <2>1 DEF Tick, tables, TypeInv, TypeOK, BusyHoldsClaim
<1>4. CASE UNCHANGED vars
    BY <1>4 DEF vars, tables, TypeInv, TypeOK, BusyHoldsClaim
<1>5. QED
    BY <1>1, <1>2, <1>3, <1>4 DEF Next

THEOREM TypeInvariant == Spec => []TypeInv
    BY TypeInvInit, TypeInvStep, PTL DEF Spec

\* The tables and the workers' locals keep their types whatever the size of
\* the deployment: in particular the refund of rescheduleClaim never makes
\* attempts negative.
THEOREM TypeCorrect == Spec => []TypeOK
<1>1. TypeInv => TypeOK
    BY DEF TypeInv
<1>2. QED
    BY <1>1, TypeInvariant, PTL

------------------------------------------------------------------------------
(* Spacing.                                                                *)

\* The channel is reserved past every execution it started.
ReservedPastStarts == \A s \in starts : nextAvailable[s.channel] >= s.at + MinSpacing

SpacingInv == TypeInv /\ ReservedPastStarts /\ StartsSpaced

\* Only two outcomes of the authorization touch the starts, the reservations
\* or the counters.
LEMMA StartFrame ==
    ASSUME [Next]_vars
    PROVE  \/ UNCHANGED <<starts, nextAvailable, counter>>
           \/ \E w \in Workers : phase[w] = "claimed" /\ AuthorizeRetry(w)
           \/ \E w \in Workers : phase[w] = "claimed" /\ AuthorizeStart(w)
<1> DEFINE Goal == \/ UNCHANGED <<starts, nextAvailable, counter>>
                   \/ \E w \in Workers : phase[w] = "claimed" /\ AuthorizeRetry(w)
                   \/ \E w \in Workers : phase[w] = "claimed" /\ AuthorizeStart(w)
<1>1. ASSUME NEW w \in Workers, AuthorizeCampaignExecution(w) PROVE Goal
    BY <1>1 DEF AuthorizeCampaignExecution, AuthorizeStale, AuthorizeAdministrative,
        AuthorizeConfirmed, AuthorizeIneligible, AuthorizeTooSoon, AuthorizeOverLimit
<1>2. ASSUME NEW w \in Workers, Process(w) \/ Crash(w) PROVE Goal
    BY <1>1, <1>2 DEF Process, Crash, tables, ReadClock, FinalizeExpiredFinalAttempt,
        ClaimCampaignOutbox, ReserveDailyLeadAllocation,
        ConfirmSimulatedCampaignExecution, CompleteCampaignOutbox, FailCampaignOutbox
<1>3. ASSUME NEW o \in Outboxes, RecoverCampaignDeadLetter(o) PROVE Goal
    BY <1>3 DEF RecoverCampaignDeadLetter
<1>4. CASE Tick \/ UNCHANGED vars
    BY <1>4 DEF Tick, tables, vars
<1>5. QED
    BY <1>2, <1>3, <1>4 DEF Next

\* An execution allowed now starts inside the window and no earlier than the
\* reservation of its channel, and reserves the channel a spacing further.
LEMMA ExecutionReserves ==
    ASSUME TypeInv, NEW w \in Workers, phase[w] = "claimed", MayExecute(w),
           ReserveSpacing(w)
    PROVE  LET ch == ChannelOf[held[w].outbox]
           IN  /\ ch \in Channels
               /\ InWindow(now[w])
               /\ nextAvailable[ch] <= now[w]
               /\ nextAvailable'[ch] \in Nat
               /\ nextAvailable'[ch] >= now[w] + MinSpacing
               /\ \A c \in Channels : c # ch => nextAvailable'[c] = nextAvailable[c]
<1> DEFINE ch == ChannelOf[held[w].outbox]
           r == NextCampaignExecutionInstant(now[w], MinSpacing, now[w])
<1>1. /\ now[w] \in Nat
      /\ ch \in Channels
      /\ nextAvailable[ch] \in Nat
      /\ nextAvailable \in [Channels -> Nat]
      /\ MinSpacing \in Nat
    BY BusyClaim, DelayAssumption DEF Busy, TypeInv, TypeOK
<1>2. NextCampaignExecutionInstant(now[w], 0, nextAvailable[ch]) <= now[w]
    BY DEF MayExecute, NextAllowedAt
<1>3. nextAvailable' = [nextAvailable EXCEPT ![ch] = r]
    BY DEF ReserveSpacing
<1> HIDE DEF ch
<1>4. InWindow(now[w]) /\ nextAvailable[ch] <= now[w]
    BY <1>1, <1>2, NoWaitMeansAdmissible
<1>5. r \in Nat /\ r >= now[w] + MinSpacing
    BY <1>1, ExecutionInstantSpaced
<1> HIDE DEF r
<1>6. /\ nextAvailable'[ch] = r
      /\ \A c \in Channels : c # ch => nextAvailable'[c] = nextAvailable[c]
    BY <1>1, <1>3
<1>7. QED
    BY <1>1, <1>4, <1>5, <1>6 DEF ch

LEMMA SpacingStep == SpacingInv /\ [Next]_vars => SpacingInv'
<1> SUFFICES ASSUME SpacingInv, [Next]_vars PROVE SpacingInv'
    OBVIOUS
<1>0. TypeInv' /\ TypeInv
    BY TypeInvStep DEF SpacingInv
<1>1. \A s \in starts : s.at \in Nat /\ s.channel \in Channels /\ nextAvailable[s.channel] \in Nat
    BY <1>0 DEF TypeInv, TypeOK, Start
<1>2. CASE UNCHANGED <<starts, nextAvailable, counter>>
    BY <1>0, <1>2 DEF SpacingInv, ReservedPastStarts, StartsSpaced
<1>3. ASSUME NEW w \in Workers, phase[w] = "claimed", AuthorizeRetry(w)
      PROVE  SpacingInv'
    <2> DEFINE ch == ChannelOf[held[w].outbox]
    <2>1. /\ ch \in Channels
          /\ nextAvailable[ch] <= now[w]
          /\ nextAvailable'[ch] \in Nat
          /\ nextAvailable'[ch] >= now[w] + MinSpacing
          /\ \A c \in Channels : c # ch => nextAvailable'[c] = nextAvailable[c]
        BY <1>0, <1>3, ExecutionReserves DEF AuthorizeRetry
    <2>2. now[w] \in Nat /\ starts' = starts
        BY <1>0, <1>3, BusyClaim DEF AuthorizeRetry, Busy
    <2> HIDE DEF ch
    <2>3. ReservedPastStarts'
        BY <1>1, <2>1, <2>2, DelayAssumption DEF SpacingInv, ReservedPastStarts
    <2>4. StartsSpaced'
        BY <2>2 DEF SpacingInv, StartsSpaced
    <2>5. QED
        BY <1>0, <2>3, <2>4 DEF SpacingInv
<1>4. ASSUME NEW w \in Workers, phase[w] = "claimed", AuthorizeStart(w)
      PROVE  SpacingInv'
    <2> DEFINE ch == ChannelOf[held[w].outbox]
               new == [outbox |-> held[w].outbox, cycle |-> held[w].cycle,
                       channel |-> ch, day |-> DayOf(now[w]), at |-> now[w]]
    <2>1. /\ ch \in Channels
          /\ nextAvailable[ch] <= now[w]
          /\ nextAvailable'[ch] \in Nat
          /\ nextAvailable'[ch] >= now[w] + MinSpacing
          /\ \A c \in Channels : c # ch => nextAvailable'[c] = nextAvailable[c]
        BY <1>0, <1>4, ExecutionReserves DEF AuthorizeStart
    <2>2. now[w] \in Nat /\ starts' = starts \cup {new}
        BY <1>0, <1>4, BusyClaim DEF AuthorizeStart, Busy
    <2>3. new.channel = ch /\ new.at = now[w]
        OBVIOUS
    <2> HIDE DEF ch, new
    <2>4. ReservedPastStarts'
        BY <1>1, <2>1, <2>2, <2>3, DelayAssumption DEF SpacingInv, ReservedPastStarts
    <2>5. \A s \in starts : s.channel = ch => now[w] >= s.at + MinSpacing
        BY <1>1, <2>1, <2>2, DelayAssumption DEF SpacingInv, ReservedPastStarts
    <2>6. StartsSpaced'
        BY <2>2, <2>3, <2>5 DEF SpacingInv, StartsSpaced
    <2>7. QED
        BY <1>0, <2>4, <2>6 DEF SpacingInv
<1>5. QED
    BY <1>2, <1>3, <1>4, StartFrame

LEMMA SpacingInit == Init => SpacingInv
    BY TypeInvInit DEF Init, SpacingInv, ReservedPastStarts, StartsSpaced

\* Executions on one channel keep the minimum spacing, for any number of
\* workers that authorize against stale instants, and any leases and retries.
THEOREM SpacingCorrect == Spec => []StartsSpaced
<1>1. SpacingInv => StartsSpaced
    BY DEF SpacingInv
<1>2. QED
    BY <1>1, SpacingInit, SpacingStep, PTL DEF Spec

------------------------------------------------------------------------------
(* Daily limits.                                                           *)

QuotaInv == TypeInv /\ IsFiniteSet(starts) /\ QuotaExact

LEMMA StartsOnFinite ==
    ASSUME IsFiniteSet(starts), NEW ch, NEW d
    PROVE  IsFiniteSet(StartsOn(ch, d)) /\ Cardinality(StartsOn(ch, d)) \in Nat
<1>1. StartsOn(ch, d) \subseteq starts
    BY DEF StartsOn
<1>2. QED
    BY <1>1, FS_Subset, FS_CardinalityType

LEMMA QuotaStep == QuotaInv /\ [Next]_vars => QuotaInv'
<1> SUFFICES ASSUME QuotaInv, [Next]_vars PROVE QuotaInv'
    OBVIOUS
<1>0. TypeInv' /\ TypeInv
    BY TypeInvStep DEF QuotaInv
<1>1. CASE UNCHANGED <<starts, nextAvailable, counter>>
    BY <1>0, <1>1 DEF QuotaInv, QuotaExact, StartsOn
<1>2. ASSUME NEW w \in Workers, phase[w] = "claimed", AuthorizeRetry(w)
      PROVE  QuotaInv'
    BY <1>0, <1>2 DEF QuotaInv, QuotaExact, StartsOn, AuthorizeRetry
<1>3. ASSUME NEW w \in Workers, phase[w] = "claimed", AuthorizeStart(w)
      PROVE  QuotaInv'
    <2> DEFINE o == held[w].outbox
               ch == ChannelOf[o]
               day == DayOf(now[w])
               new == [outbox |-> o, cycle |-> held[w].cycle,
                       channel |-> ch, day |-> day, at |-> now[w]]
    <2>1. /\ starts' = starts \cup {new}
          /\ counter' = [counter EXCEPT ![ch][day] = @ + 1]
          /\ ~Started(o, held[w].cycle)
          /\ ~QuotaReached(ch, day)
        BY <1>3 DEF AuthorizeStart
    <2>2. ch \in Channels /\ day \in Days
        BY <1>0, <1>3, BusyClaim DEF Busy
    <2>3. new \notin starts
        BY <2>1 DEF Started
    <2>4. new.channel = ch /\ new.day = day
        OBVIOUS
    <2> HIDE DEF o, ch, day, new
    <2>5. IsFiniteSet(starts')
        BY <2>1, FS_AddElement DEF QuotaInv
    <2>6. counter \in [Channels -> [Days -> Nat]]
        BY <1>0 DEF TypeInv, TypeOK
    <2>7. DailyLimit[ch] \in Nat
        BY <2>2, OutboxAssumption
    <2>8. ASSUME NEW c \in Channels, NEW d \in Days
          PROVE  /\ counter'[c][d] = Cardinality(StartsOn(c, d)')
                 /\ counter'[c][d] <= DailyLimit[c]
        <3>1. /\ counter[c][d] = Cardinality(StartsOn(c, d))
              /\ counter[c][d] <= DailyLimit[c]
            BY DEF QuotaInv, QuotaExact
        <3>2. CASE c = ch /\ d = day
            <4>1. StartsOn(c, d)' = StartsOn(c, d) \cup {new}
                BY <2>1, <2>4, <3>2 DEF StartsOn
            <4>2. new \notin StartsOn(c, d)
                BY <2>3 DEF StartsOn
            <4>3. Cardinality(StartsOn(c, d)') = Cardinality(StartsOn(c, d)) + 1
                BY <4>1, <4>2, StartsOnFinite, FS_AddElement DEF QuotaInv
            <4>4. counter'[c][d] = counter[c][d] + 1
                BY <2>1, <2>2, <2>6, <3>2
            <4>5. counter[c][d] \in Nat /\ counter[c][d] < DailyLimit[c]
                BY <2>1, <2>2, <2>6, <2>7, <3>2 DEF QuotaReached
            <4>6. QED
                BY <2>7, <3>1, <3>2, <4>3, <4>4, <4>5
        <3>3. CASE ~(c = ch /\ d = day)
            <4>1. StartsOn(c, d)' = StartsOn(c, d)
                BY <2>1, <2>4, <3>3 DEF StartsOn
            <4>2. counter'[c][d] = counter[c][d]
                BY <2>1, <2>2, <2>6, <3>3
            <4>3. QED
                BY <3>1, <4>1, <4>2
        <3>4. QED
            BY <3>2, <3>3
    <2>9. QuotaExact'
        BY <2>8 DEF QuotaExact
    <2>10. QED
        BY <1>0, <2>5, <2>9 DEF QuotaInv
<1>4. QED
    BY <1>1, <1>2, <1>3, StartFrame

LEMMA QuotaInit == Init => QuotaInv
<1> SUFFICES ASSUME Init PROVE QuotaInv
    OBVIOUS
<1>1. starts = {} /\ \A ch \in Channels, d \in Days : StartsOn(ch, d) = {}
    BY DEF Init, StartsOn
<1>2. IsFiniteSet(starts) /\ Cardinality({}) = 0
    BY <1>1, FS_EmptySet
<1>3. QuotaExact
    BY <1>1, <1>2, OutboxAssumption DEF Init, QuotaExact
<1>4. QED
    BY <1>2, <1>3, TypeInvInit DEF QuotaInv

\* The counters are exact and never pass the limits, for any number of
\* events, workers, channels and days.
THEOREM QuotaCorrect == Spec => []QuotaExact
<1>1. QuotaInv => QuotaExact
    BY DEF QuotaInv
<1>2. QED
    BY <1>1, QuotaInit, QuotaStep, PTL DEF Spec

==============================================================================
