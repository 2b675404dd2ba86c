------------------------ MODULE MCDailyLeadAllocation ------------------------
(***************************************************************************)
(* Instances of DailyLeadAllocation: two events on one channel and two     *)
(* workers, over two days with one place each.                             *)
(***************************************************************************)
EXTENDS DailyLeadAllocation, TLC

CONSTANTS w1, w2, email

MCChannels == {email}
MCChannelOf == [o \in Outboxes |-> email]
MCDailyLimit == [ch \in MCChannels |-> 2]
MCWorkers == {w1, w2}
MCMaxAttempts == [w \in MCWorkers |-> 2]
MCDailyLeadLimit == [w \in MCWorkers |-> 1]

Symmetry == Permutations(MCWorkers)

==============================================================================
