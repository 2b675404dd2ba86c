-------------------------- MODULE MCCampaignLifecycle --------------------------
(***************************************************************************)
(* Instances of CampaignLifecycle: two requests at once, two keys, so that *)
(* every row can be changed twice and every command retried.               *)
(***************************************************************************)
EXTENDS CampaignLifecycle, TLC

CONSTANTS r1, r2, k1, k2, l1

MCPages == {<<l1>>}
Symmetry == Permutations({r1, r2}) \cup Permutations({k1, k2})

==============================================================================
