--------------------------- MODULE MCCampaignOutbox ---------------------------
(***************************************************************************)
(* Instances of CampaignOutbox: two events on one channel and two workers. *)
(* The configurations choose the length of the day and of the window, the  *)
(* spacing, the lease and the daily limit.                                 *)
(***************************************************************************)
EXTENDS CampaignOutbox, TLC

CONSTANTS w1, w2, email

MCChannels == {email}
MCChannelOf == [o \in Outboxes |-> email]
MCOnePerDay == [ch \in MCChannels |-> 1]
MCTwoPerDay == [ch \in MCChannels |-> 2]
MCWorkers == {w1, w2}
MCSameAttempts == [w \in MCWorkers |-> 2]
MCMixedAttempts == [w \in MCWorkers |-> IF w = w1 THEN 1 ELSE 2]

Symmetry == Permutations(MCWorkers)

==============================================================================
