-------------------------- MODULE MCBatchLeadership --------------------------
(***************************************************************************)
(* Instances of BatchLeadership: an API process that serves two requests   *)
(* at once, and the loop of a worker.                                      *)
(***************************************************************************)
EXTENDS BatchLeadership

CONSTANTS api, vps, r1, r2, loop

MCSlots == {r1, r2, loop}
MCExecutorOf == [s \in MCSlots |-> IF s = loop THEN vps ELSE api]

==============================================================================
