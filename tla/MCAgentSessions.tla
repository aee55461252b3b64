--------------------------- MODULE MCAgentSessions ---------------------------
EXTENDS AgentSessions, TLC

(* Ids that only name things. *)
IdSymmetry ==
    Permutations(Sessions) \cup Permutations(Delegations) \cup Permutations(RotateIds)
=============================================================================
