--------------------------- MODULE ExecutionWindow ---------------------------
(***************************************************************************)
(* The pure time arithmetic of campaign execution: the daily UTC window in *)
(* which an execution may start, the spacing between two starts on one     *)
(* channel, and the retry delay of a failed outbox event.                  *)
(*                                                                         *)
(* An instant is a natural number of ticks.  A tick is the unit in which   *)
(* windows, spacings, leases and delays are given; the code uses           *)
(* milliseconds and aligns windows to minutes, which changes no comparison *)
(* made here.                                                              *)
(***************************************************************************)
EXTENDS Integers

CONSTANTS
    DayLength,      \* ticks in one UTC day
    WindowStart,    \* first tick of the day at which an execution may start
    WindowEnd,      \* first tick of the day at which it may no longer start
    MinSpacing,     \* least distance between two starts on one channel
    RetryBase,      \* delay after the first failed attempt
    RetryMax        \* largest retry delay

ASSUME WindowAssumption ==
    /\ DayLength \in Nat \ {0}
    /\ WindowStart \in Nat
    /\ WindowEnd \in Nat
    /\ WindowStart < WindowEnd
    /\ WindowEnd < DayLength

ASSUME DelayAssumption ==
    /\ MinSpacing \in Nat
    /\ RetryBase \in Nat \ {0}
    /\ RetryMax \in Nat
    /\ RetryBase <= RetryMax

DayOf(t) == t \div DayLength

DayStart(d) == d * DayLength

TickOfDay(t) == t - DayStart(DayOf(t))

InWindow(t) == WindowStart <= TickOfDay(t) /\ TickOfDay(t) < WindowEnd

NextUtcWindowInstant(t) ==
    LET day == DayOf(t)
    IN  IF TickOfDay(t) < WindowStart THEN DayStart(day) + WindowStart
        ELSE IF TickOfDay(t) < WindowEnd THEN t
        ELSE DayStart(day + 1) + WindowStart

\* "last" is the instant the spacing is counted from; 0 stands for none.
NextCampaignExecutionInstant(now, spacing, last) ==
    NextUtcWindowInstant(IF now >= last + spacing THEN now ELSE last + spacing)

\* The code writes 2^min(attempt - 1, 52); the attempt bound keeps the
\* exponent below 52, so the cap on the exponent never acts.
DeterministicRetryAt(now, attempt) ==
    LET delay == RetryBase * 2^(attempt - 1)
    IN  now + (IF delay < RetryMax THEN delay ELSE RetryMax)

==============================================================================
