----------------------------- MODULE MCAgentJobs -----------------------------
(* AgentJobs with two batches for one permit. *)
EXTENDS AgentJobs, TLC

CONSTANTS b1, b2, j1, j2, j3

TwoAndOne == b1 :> <<j1, j2>> @@ b2 :> <<j3>>
=============================================================================
