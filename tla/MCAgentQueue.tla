---------------------------- MODULE MCAgentQueue ----------------------------
EXTENDS AgentQueue, TLC

(* One unit of delay after a lost claim; the code waits 5 to 600 seconds. *)
MCBackoff == [n \in 1 .. MaxAttempts - 1 |-> 1]

(* Ids that only name things; safety runs only. *)
FencingSymmetry ==
    Permutations(Sessions) \cup Permutations(ClaimIds)
        \cup Permutations(Tokens) \cup Permutations(Results)
=============================================================================
