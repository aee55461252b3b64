----------------------------- MODULE Executors ------------------------------
(* What acts for a workspace from outside of it: the machines that run its  *)
(* agents, the runtimes that are somewhere else, the machine that holds the *)
(* content of a Solo workspace, the clients that write through MCP, and the *)
(* browsers that are told of it.  They share the workspace object and, as   *)
(* far as they are modelled here, no row of it, so one of them is exercised *)
(* at a time.                                                               *)
EXTENDS Runners, Runtimes, SoloHost, Pushes, AgentWrites

VARIABLE exercised

executorVars == <<runnerVars, runtimeVars, soloVars, pushVars, writeVars, exercised>>

Parts == {"runners", "runtimes", "relay", "upgrade", "pushes", "writes"}

Init ==
    /\ exercised \in Parts
    /\ RunnersInit /\ RuntimesInit /\ SoloInit /\ PushesInit /\ WritesInit
    /\ (exercised = "runners") <=> (budget.procs # {})
    /\ (exercised = "runtimes") <=> (setup.does # {})
    /\ (exercised = "pushes") <=> (room.told # {})
    /\ (exercised = "writes") <=> (\E c \in Calls : limits.asks[c] # {})

(* A Solo workspace: its frames, or the way it becomes a team's. *)
SoloStep ==
    \/ exercised = "relay" /\ RelayStep
    \/ exercised = "upgrade" /\ (StoreStep \/ UpgradeStep \/ \E d \in Hosts : DesignateSoloHost(d))

Next ==
    /\ \/ exercised = "runners" /\ RunnersNext /\ UNCHANGED <<runtimeVars, soloVars, pushVars, writeVars>>
       \/ exercised = "runtimes" /\ RuntimesNext /\ UNCHANGED <<runnerVars, soloVars, pushVars, writeVars>>
       \/ SoloStep /\ UNCHANGED <<runnerVars, runtimeVars, pushVars, writeVars>>
       \/ exercised = "pushes" /\ PushesNext /\ UNCHANGED <<runnerVars, runtimeVars, soloVars, writeVars>>
       \/ exercised = "writes" /\ WritesNext /\ UNCHANGED <<runnerVars, runtimeVars, soloVars, pushVars>>
    /\ UNCHANGED exercised

(* Of the daemons' fairness, see module Runners; nothing else is assumed.   *)
Spec == Init /\ [][Next]_executorVars /\ RunnersFairness
=============================================================================
