----------------------------- MODULE WorkLedger -----------------------------
(***************************************************************************)
(* What an agent's queue promises about each piece of work, without        *)
(* leases, clocks or credentials: work is posted once, held by one worker  *)
(* at a time, held a bounded number of times, and never held again once    *)
(* it has begun.  It ends done with one outcome, set aside for a person,   *)
(* or dead.                                                                *)
(*                                                                         *)
(* This is the contract of docs/runner-queue-contract.md, sections 3 and   *)
(* 4; AgentQueue implements it.                                            *)
(***************************************************************************)
EXTENDS Naturals

CONSTANTS Items, Outcomes, NoOutcome, MaxTries

VARIABLE work

Phases == {"none", "waiting", "held", "done", "review", "dead"}

Work == [phase : Phases, tries : Nat, begun : BOOLEAN,
         outcome : Outcomes \cup {NoOutcome}]

NoWork == [phase |-> "none", tries |-> 0, begun |-> FALSE, outcome |-> NoOutcome]

Post(w, v) ==
    /\ w.phase = "none"
    /\ v = [w EXCEPT !.phase = "waiting"]

Take(w, v) ==
    /\ w.phase = "waiting"
    /\ w.tries < MaxTries
    /\ v = [phase |-> "held", tries |-> w.tries + 1, begun |-> w.begun,
            outcome |-> w.outcome]

Begin(w, v) ==
    /\ w.phase = "held"
    /\ v = [w EXCEPT !.begun = TRUE]

(* Lost before it began: it may be taken again, or has been taken too often. *)
GiveBack(w, v) ==
    /\ w.phase = "held"
    /\ ~w.begun
    /\ \/ /\ w.tries < MaxTries
          /\ v = [w EXCEPT !.phase = "waiting"]
       \/ /\ w.tries = MaxTries
          /\ v = [w EXCEPT !.phase = "dead"]

SetAside(w, v) ==
    /\ w.phase = "held"
    /\ v = [w EXCEPT !.phase = "review"]

Finish(w, v) ==
    /\ w.phase = "held"
    /\ \E r \in Outcomes : v = [w EXCEPT !.phase = "done", !.outcome = r]

WorkStep(w, v) ==
    \/ v = w
    \/ Post(w, v)
    \/ Take(w, v)
    \/ Begin(w, v)
    \/ GiveBack(w, v)
    \/ SetAside(w, v)
    \/ Finish(w, v)

Init == work = [i \in Items |-> NoWork]

(* One transaction may move several pieces of work, each by one step. *)
Next == /\ work' = [i \in Items |-> work'[i]]
        /\ \A i \in Items : WorkStep(work[i], work'[i])

Spec == Init /\ [][Next]_work
=============================================================================
