--------------------------- MODULE ExecutionLedger ---------------------------
(***************************************************************************)
(* What the campaign outbox promises, without workers, claims, leases,     *)
(* attempts or clocks.  In each cycle an event runs at most once, is       *)
(* confirmed only if it ran, and is closed as published, blocked or dead;  *)
(* a dead event may be reopened in the next cycle.  An execution starts    *)
(* inside the window, a minimum spacing away from every other execution of *)
(* its channel, and within the channel's daily limit.                      *)
(***************************************************************************)
EXTENDS ExecutionWindow, FiniteSets

CONSTANTS Outboxes, Administrative, Channels, ChannelOf, DailyLimit, MaxTime

VARIABLES
    stage,    \* where each event is in its current cycle
    cycle,    \* the current cycle of each event
    log       \* every execution that ever started

vars == <<stage, cycle, log>>

Executed(ch, day) == {e \in log : e.channel = ch /\ e.day = day}

Admissible(ch, at) ==
    /\ InWindow(at)
    /\ \A e \in log : e.channel = ch =>
          e.at + MinSpacing <= at \/ at + MinSpacing <= e.at
    /\ Cardinality(Executed(ch, DayOf(at))) < DailyLimit[ch]

Init ==
    /\ stage = [o \in Outboxes |-> "queued"]
    /\ cycle = [o \in Outboxes |-> 0]
    /\ log = {}

Move(o, from, to) ==
    /\ stage[o] \in from
    /\ stage' = [stage EXCEPT ![o] = to]

Begin(o) ==
    /\ o \notin Administrative
    /\ Move(o, {"queued"}, "started")
    /\ \E at \in 0 .. MaxTime :
          /\ Admissible(ChannelOf[o], at)
          /\ log' = log \cup {[outbox |-> o, cycle |-> cycle[o],
                               channel |-> ChannelOf[o],
                               day |-> DayOf(at), at |-> at]}
    /\ UNCHANGED cycle

Confirm(o) ==
    /\ Move(o, {"started"}, "confirmed")
    /\ UNCHANGED <<cycle, log>>

Publish(o) ==
    /\ Move(o, IF o \in Administrative THEN {"queued"} ELSE {"confirmed"}, "published")
    /\ UNCHANGED <<cycle, log>>

Block(o) ==
    /\ o \notin Administrative
    /\ Move(o, {"queued", "started"}, "blocked")
    /\ UNCHANGED <<cycle, log>>

Exhaust(o) ==
    /\ Move(o, {"queued", "started", "confirmed"}, "dead")
    /\ UNCHANGED <<cycle, log>>

Reopen(o) ==
    /\ Move(o, {"dead"}, "queued")
    /\ cycle' = [cycle EXCEPT ![o] = @ + 1]
    /\ UNCHANGED log

Next == \E o \in Outboxes :
    Begin(o) \/ Confirm(o) \/ Publish(o) \/ Block(o) \/ Exhaust(o) \/ Reopen(o)

Spec == Init /\ [][Next]_vars

==============================================================================
