------------------------------- MODULE Runners -------------------------------
(***************************************************************************)
(* The machines that answer for one agent: their registration, the sockets *)
(* the workspace wakes and stops them through, the wakes it keeps, and the *)
(* daemon that acts on them (registerRunner to reportRunnerOutcome in      *)
(* src/cloudflare/workspace.ts, crates/lepidy-runner).                     *)
(*                                                                         *)
(* The workspace's handlers do not wait, except for the hash in the middle *)
(* of a session start.  The daemon is one thread: it reads a frame, checks *)
(* the queue or waits for one answer.  What authority a session stands on  *)
(* is module AgentSessions; here it is there or not.  Presets, cooldowns   *)
(* and the parser of triggers are left out: a refused trigger changes      *)
(* nothing, and the queue is asked again.  So is the second socket of a    *)
(* process whose first one was not yet found dead.                         *)
(***************************************************************************)
EXTENDS Integers, Sequences, SequencesExt

CONSTANTS
    Devices,
    Procs,              \* runs of the daemon
    DeviceOf,           \* the device a run of the daemon is on
    Budgets,            \* bounds: who and what takes part in a behaviour
    MaxEpoch,           \* bound: registrations of one device
    None

ASSUME RunnersAssumption ==
    /\ DeviceOf \in [Procs -> Devices]
    /\ MaxEpoch \in Nat \ {0}
    /\ None \notin Devices
    /\ \A b \in Budgets : /\ b.procs \subseteq Procs
                          /\ b.changes \in Nat /\ b.faults \in Nat
                          /\ b.mentions \in Nat /\ b.sessions \in Nat

VARIABLES
    active,             \* agents.status = 'active'
    granted,            \* whether a delegation of the agent is live
    heeded,             \* agent_local_policies: whether a mention may start it
    devices,            \* runner_devices: runner_epoch, 0 when not registered
    answering,          \* runner_agents: the device that answers for the agent
    wakes,              \* runner_wakes, by device
    open,               \* the agent's open session, 0 when there is none
    issued,             \* the last session issued
    item,               \* an item of the agent's queue and the session that claimed it
    attention,          \* whether another one needs a person's attention
    sockets,            \* the socket the object holds of each run of the daemon
    procs,              \* the runs of the daemon
    untold,             \* history: runs that a stop frame did not reach
    spent,              \* bound: how much of the budget is used
    budget

authority == <<active, granted, heeded>>
registry == <<devices, answering>>
minted == <<open, issued>>
queue == <<item, attention>>
bounds == <<spent, budget>>
tables == <<authority, registry, wakes, minted, queue>>
runnerVars == <<tables, sockets, procs, untold, bounds>>

Frames == {"welcome", "stop", "wake"}
NoSocket == [open |-> FALSE, epoch |-> 0, mail |-> <<>>]
Fresh(epoch) == [phase |-> "looping", epoch |-> epoch, linked |-> FALSE,
                 stopped |-> FALSE, running |-> 0, session |-> 0, found |-> FALSE]
Off == [Fresh(0) EXCEPT !.phase = "off"]

Spend(kind) ==
    /\ spent[kind] < budget[kind]
    /\ spent' = [spent EXCEPT ![kind] = @ + 1]

On(d) == {p \in Procs : DeviceOf[p] = d}

-----------------------------------------------------------------------------
(* Frames. *)

(* sendRunnerFrame: to every socket the device holds.  A socket nobody      *)
(* reads any more takes a frame as long as it is not found dead.            *)
Sent(d, frame) ==
    [p \in Procs |-> IF p \in On(d) /\ sockets[p].open /\ procs[p].linked
                     THEN [sockets[p] EXCEPT !.mail = Append(@, frame)] ELSE sockets[p]]
Taken(d) == \E p \in On(d) : sockets[p].open

(* The runs on the device that a frame sent now does not reach. *)
Unreached(d) == {p \in On(d) : ~(sockets[p].open /\ procs[p].linked)}

(* closeSupersededRunnerSockets, and the close that releases a device. *)
Closed(held, d, epoch) ==
    [p \in Procs |-> IF p \in On(d) /\ held[p].epoch < epoch
                     THEN [held[p] EXCEPT !.open = FALSE] ELSE held[p]]

-----------------------------------------------------------------------------
(* Registration. *)

(* Faulty variant: the machine that lost the agent keeps its wake. *)
WakesAfterKept(d, claims) ==
    [e \in Devices |-> IF e = d /\ ~claims /\ answering = d THEN "none" ELSE wakes[e]]

WakesAfter(d, claims) ==
    [e \in Devices |-> IF (claims /\ e # d) \/ (e = d /\ ~claims /\ answering = d)
                       THEN "none" ELSE wakes[e]]

(* registerRunner: the device claims the agent or no longer claims it.      *)
(* Whoever answered for it so far is told to stop, and the sockets of an    *)
(* earlier epoch are closed.                                                *)
Register(d, epoch, claims) ==
    LET loser == IF claims THEN answering ELSE d
        loses == answering # None /\ (claims <=> answering # d)
    IN  /\ epoch >= devices[d] /\ epoch \in 1 .. MaxEpoch
        /\ devices' = [devices EXCEPT ![d] = epoch]
        /\ answering' = IF claims THEN d ELSE IF answering = d THEN None ELSE answering
        /\ wakes' = WakesAfter(d, claims)
        /\ sockets' = Closed(IF loses THEN Sent(loser, "stop") ELSE sockets, d, epoch)
        /\ untold' = IF loses THEN untold \cup Unreached(loser) ELSE untold
        /\ UNCHANGED <<authority, minted, queue>>

(* lepidy-agentd register, in another process than the daemon's. *)
RegisterByHand(d, epoch, claims) ==
    /\ "register" \in budget.moves
    /\ Register(d, epoch, claims)
    /\ UNCHANGED procs

(* releaseRunner *)
ReleaseRunner(d) ==
    /\ "release" \in budget.moves
    /\ devices[d] # 0
    /\ devices' = [devices EXCEPT ![d] = 0]
    /\ answering' = IF answering = d THEN None ELSE answering
    /\ wakes' = [wakes EXCEPT ![d] = "none"]
    /\ sockets' = Closed(IF answering = d THEN Sent(d, "stop") ELSE sockets, d,
                          MaxEpoch + 1)
    /\ untold' = IF answering = d THEN untold \cup Unreached(d) ELSE untold
    /\ UNCHANGED <<authority, minted, queue, procs>>

-----------------------------------------------------------------------------
(* Work and authority. *)

(* recordRunnerWake within a mutation, and flushStagedRunnerWakes after it  *)
(* committed.                                                               *)
RecordRunnerWake ==
    IF answering = None THEN UNCHANGED <<wakes, sockets>>
    ELSE /\ wakes' = [wakes EXCEPT ![answering] =
                           IF Taken(answering) THEN "delivered" ELSE "pending"]
         /\ sockets' = Sent(answering, "wake")

(* The work is queued either way; localStartDecision is about the wake.     *)
Mention ==
    /\ item.state = "none"
    /\ Spend("mentions")
    /\ item' = [state |-> "pending", by |-> 0]
    /\ IF heeded THEN RecordRunnerWake ELSE UNCHANGED <<wakes, sockets>>
    /\ UNCHANGED <<authority, registry, minted, attention, procs, untold, budget>>

(* stopRunnersForAgent *)
StopRunners ==
    IF answering = None THEN UNCHANGED <<wakes, sockets, untold>>
    ELSE /\ wakes' = [d \in Devices |-> "none"]
         /\ sockets' = Sent(answering, "stop")
         /\ untold' = untold \cup Unreached(answering)

(* setAgentStatus: the sessions are revoked and the machine is told.        *)
SetAgentStatus(status) ==
    /\ "pause" \in budget.moves
    /\ active' = status
    /\ IF status THEN UNCHANGED <<open, wakes, sockets, untold>> ELSE open' = 0 /\ StopRunners
    /\ UNCHANGED <<granted, heeded, registry, issued, queue, procs>>

(* revokeAgentDelegation, and what ends it without a word to the machine:   *)
(* removeAgentOwner and applyMembership.                                    *)
EndDelegation(told) ==
    /\ "revoke" \in budget.moves
    /\ granted
    /\ granted' = FALSE /\ open' = 0
    /\ IF told THEN StopRunners ELSE UNCHANGED <<wakes, sockets, untold>>
    /\ UNCHANGED <<active, heeded, registry, issued, queue, procs>>

CreateDelegation ==
    /\ ~granted
    /\ granted' = TRUE
    /\ UNCHANGED <<active, heeded, registry, wakes, minted, queue, sockets, procs, untold>>

(* stopAgentRuntime, which leaves the agent active. *)
StopAgentRuntime ==
    /\ "stop" \in budget.moves
    /\ open' = 0
    /\ StopRunners
    /\ UNCHANGED <<authority, registry, issued, queue, procs>>

(* setLocalRuntimePolicy, as it answers for whoever mentions the agent.     *)
SetLocalRuntimePolicy ==
    /\ "policy" \in budget.moves
    /\ heeded' = ~heeded
    /\ UNCHANGED <<active, granted, registry, wakes, minted, queue, sockets, procs, untold>>

(* startLocalRuntimeNow: a wake without a mention. *)
StartLocalRuntimeNow ==
    /\ "policy" \in budget.moves
    /\ active /\ answering # None
    /\ RecordRunnerWake
    /\ UNCHANGED <<authority, registry, minted, queue, procs, untold>>

(* Somebody changes the registration or the agent's authority. *)
Change ==
    /\ Spend("changes")
    /\ \/ \E d \in Devices, epoch \in 1 .. MaxEpoch, claims \in BOOLEAN :
              RegisterByHand(d, epoch, claims)
       \/ \E d \in Devices : ReleaseRunner(d)
       \/ \E status \in BOOLEAN \ {active} : SetAgentStatus(status)
       \/ \E told \in BOOLEAN : EndDelegation(told)
       \/ CreateDelegation
       \/ StopAgentRuntime \/ SetLocalRuntimePolicy \/ StartLocalRuntimeNow
    /\ UNCHANGED budget

-----------------------------------------------------------------------------
(* The daemon and its connection. *)

(* run_command: a new run registers under a new epoch. *)
StartDaemon(p, epoch) ==
    /\ p \in budget.procs
    /\ procs[p].phase = "off"
    /\ epoch > devices[DeviceOf[p]]
    /\ Register(DeviceOf[p], epoch, TRUE)
    /\ procs' = [procs EXCEPT ![p] = Fresh(epoch)]
    /\ UNCHANGED bounds

(* flushRunnerWakes, to the sockets held of the device of p. *)
Flushed(p, held) ==
    LET d == DeviceOf[p]
    IN  IF wakes[d] # "pending" THEN sockets' = held /\ UNCHANGED wakes
        ELSE /\ wakes' = [wakes EXCEPT ![d] = "delivered"]
             /\ sockets' = [q \in Procs |->
                   IF q = p \/ (q \in On(d) /\ sockets[q].open /\ procs[q].linked)
                   THEN [held[q] EXCEPT !.mail = Append(@, "wake")] ELSE held[q]]

(* acceptRunnerSocket *)
Connect(p) ==
    LET d == DeviceOf[p]
        held == [sockets EXCEPT ![p] = [open |-> TRUE, epoch |-> procs[p].epoch,
                          mail |-> IF answering = d THEN <<"welcome">> ELSE <<>>]]
    IN  /\ procs[p].phase = "looping" /\ ~procs[p].linked
        /\ devices[d] = procs[p].epoch
        /\ procs' = [procs EXCEPT ![p].linked = TRUE]
        /\ Flushed(p, held)
        /\ UNCHANGED <<authority, registry, minted, queue, untold, bounds>>

(* LocalPolicy.decide *)
MayStart(p) == ~procs[p].stopped /\ procs[p].running = 0

(* Runner.start, which needs a session. *)
StartOrAsk(p, found) ==
    procs' = IF procs[p].session # 0 THEN [procs EXCEPT ![p].running = procs[p].session]
             ELSE [procs EXCEPT ![p].phase = "asking", ![p].found = found]

(* Runner.apply_frame *)
ReadFrame(p) ==
    /\ procs[p].phase = "looping" /\ procs[p].linked /\ sockets[p].mail # <<>>
    /\ sockets' = [sockets EXCEPT ![p].mail = Tail(@)]
    /\ LET frame == Head(sockets[p].mail)
       IN  /\ untold' = IF frame = "stop" THEN untold \ {p} ELSE untold
           /\ \/ /\ frame = "welcome"
                 /\ procs' = [procs EXCEPT ![p].stopped = FALSE, ![p].found = FALSE,
                        ![p].phase = IF procs[p].session = 0 THEN "asking" ELSE @]
              \/ frame = "stop" /\ procs' = [procs EXCEPT ![p].stopped = TRUE, ![p].running = 0]
              \/ frame = "wake" /\ IF MayStart(p) THEN StartOrAsk(p, FALSE) ELSE UNCHANGED procs
    /\ UNCHANGED <<tables, bounds>>

(* The workspace closed the socket; what it sent before has been read. *)
SeeClose(p) ==
    /\ procs[p].phase = "looping" /\ procs[p].linked
    /\ ~sockets[p].open /\ sockets[p].mail = <<>>
    /\ procs' = [procs EXCEPT ![p].linked = FALSE]
    /\ UNCHANGED <<tables, sockets, untold, bounds>>

(* runnerQueueDepth *)
Depth(d) ==
    IF devices[d] # 0 /\ answering = d /\ active /\ (item.state = "pending" \/ attention)
    THEN 1 ELSE 0

(* check_depth: on a connection, without one, after every exit and when     *)
(* nothing was said for a while.                                            *)
CheckDepth(p) ==
    /\ procs[p].phase = "looping"
    /\ Depth(DeviceOf[p]) > 0
    /\ MayStart(p)
    /\ StartOrAsk(p, TRUE)
    /\ UNCHANGED <<tables, sockets, untold, bounds>>

(* The daemon is without a session, and waits. *)
Refused(p) == procs' = [procs EXCEPT ![p].phase = "looping", ![p].session = 0, ![p].found = FALSE]

(* startRunnerSession up to the hash. *)
BeginSession(p) ==
    LET d == DeviceOf[p]
    IN  /\ procs[p].phase = "asking"
        /\ IF devices[d] # 0 /\ answering = d /\ active /\ granted
           THEN procs' = [procs EXCEPT ![p].phase = "hashing"]
           ELSE Refused(p)
        /\ UNCHANGED <<tables, sockets, untold, bounds>>

(* startAgentSession after the hash: the authority is read again, the       *)
(* device and what it answers for are not.  The daemon that asked after a   *)
(* check goes on with what the check had found.                             *)
FinishSession(p) ==
    /\ procs[p].phase = "hashing"
    /\ IF active /\ granted /\ issued < budget.sessions
       THEN /\ issued' = issued + 1 /\ open' = issued + 1
            /\ procs' = [procs EXCEPT ![p].phase = "looping", ![p].session = issued + 1, ![p].found = FALSE,
                      ![p].running = IF procs[p].found /\ MayStart(p) THEN issued + 1 ELSE @]
       ELSE Refused(p) /\ UNCHANGED minted
    /\ UNCHANGED <<authority, registry, wakes, queue, sockets, untold, bounds>>

-----------------------------------------------------------------------------
(* The harness. *)

Claimed(k) == item = [state |-> "claimed", by |-> k]

(* A claim, after the lapsed leases are swept. *)
Claim(p) ==
    LET k == procs[p].running
    IN  /\ k # 0 /\ open = k
        /\ item.state = "pending" \/ (item.state = "claimed" /\ item.by # k)
        /\ item' = [state |-> "claimed", by |-> k]
        /\ UNCHANGED <<authority, registry, wakes, minted, attention, sockets, procs, untold, bounds>>

Complete(p) ==
    LET k == procs[p].running
    IN  /\ k # 0 /\ open = k
        /\ Claimed(k)
        /\ item' = [state |-> "none", by |-> 0]
        /\ UNCHANGED <<authority, registry, wakes, minted, attention, sockets, procs, untold, bounds>>

(* reportRunnerOutcome: what the session had claimed is left to a person. *)
Reported(p, outcome) ==
    IF /\ outcome # "completed" /\ procs[p].session # 0
       /\ devices[DeviceOf[p]] # 0 /\ answering = DeviceOf[p]
       /\ Claimed(procs[p].session)
    THEN item' = [state |-> "none", by |-> 0] /\ attention' = TRUE
    ELSE UNCHANGED queue

(* Faulty variant: a session that was refused is used again. *)
ExitKeepingSession(p, outcome, told) ==
    /\ procs[p].phase = "looping" /\ procs[p].running # 0
    /\ IF told THEN Reported(p, outcome) ELSE UNCHANGED queue
    /\ procs' = [procs EXCEPT ![p].running = 0]
    /\ UNCHANGED <<authority, registry, wakes, minted, sockets, untold, budget>>

(* Runner.reap and drain: a run that ended is reported under the session    *)
(* the daemon holds, and a failed one costs the daemon that session.        *)
Exit(p, outcome, told) ==
    /\ procs[p].phase = "looping" /\ procs[p].running # 0
    /\ IF told THEN Reported(p, outcome) ELSE UNCHANGED queue
    /\ procs' = [procs EXCEPT ![p].running = 0, ![p].session = IF outcome = "failed" THEN 0 ELSE @]
    /\ UNCHANGED <<authority, registry, wakes, minted, sockets, untold, budget>>

(* A harness that works ends when nothing is left for it, when it is        *)
(* refused, or when its own permissions block it.                           *)
EndRun(p) ==
    LET k == procs[p].running
    IN  /\ \/ open = k /\ ~Claimed(k) /\ item.state # "pending" /\ Exit(p, "completed", TRUE)
           \/ open = k /\ Claimed(k) /\ Exit(p, "blocked", TRUE)
           \/ open # k /\ Exit(p, "failed", TRUE)
        /\ UNCHANGED spent

-----------------------------------------------------------------------------
(* Faults. *)

(* The connection breaks; the object may take a while to find that out.     *)
Break(p) ==
    /\ procs[p].linked
    /\ procs' = [procs EXCEPT ![p].linked = FALSE]
    /\ \E noticed \in BOOLEAN :
          sockets' = [sockets EXCEPT ![p].mail = <<>>, ![p].open = @ /\ ~noticed]
    /\ untold' = IF Contains(sockets[p].mail, "stop") THEN untold \cup {p} ELSE untold
    /\ UNCHANGED tables

(* The daemon ends, its runs with it. *)
Crash(p) ==
    /\ procs[p].phase # "off"
    /\ procs' = [procs EXCEPT ![p] = Off]
    /\ sockets' = [sockets EXCEPT ![p].mail = <<>>]
    /\ untold' = untold \ {p}
    /\ UNCHANGED tables

(* The answer to a session start does not arrive. *)
LoseAnswer(p) ==
    /\ procs[p].phase = "hashing" /\ active /\ granted /\ issued < budget.sessions
    /\ issued' = issued + 1 /\ open' = issued + 1
    /\ Refused(p)
    /\ UNCHANGED <<authority, registry, wakes, queue, sockets, untold>>

(* The token the daemon holds has expired. *)
ForgetSession(p) ==
    /\ procs[p].session # 0 /\ procs[p].running = 0 /\ procs[p].phase = "looping"
    /\ procs' = [procs EXCEPT ![p].session = 0]
    /\ UNCHANGED <<tables, sockets, untold>>

Fault ==
    /\ Spend("faults")
    /\ \E p \in Procs :
          \/ Break(p) \/ Crash(p) \/ LoseAnswer(p) \/ ForgetSession(p)
          \/ \E outcome \in {"completed", "failed"}, told \in BOOLEAN : Exit(p, outcome, told)
    /\ UNCHANGED budget

(* The object finds out that nobody reads a socket. *)
NoticeDead(p) ==
    /\ sockets[p].open /\ ~procs[p].linked
    /\ sockets' = [sockets EXCEPT ![p].open = FALSE]
    /\ UNCHANGED <<tables, procs, untold, bounds>>

-----------------------------------------------------------------------------

RunnersInit ==
    /\ active = TRUE /\ granted = TRUE /\ heeded = TRUE
    /\ devices = [d \in Devices |-> 0]
    /\ answering = None
    /\ wakes = [d \in Devices |-> "none"]
    /\ open = 0 /\ issued = 0
    /\ item = [state |-> "none", by |-> 0] /\ attention = FALSE
    /\ sockets = [p \in Procs |-> NoSocket]
    /\ procs = [p \in Procs |-> Off]
    /\ untold = {}
    /\ spent = [changes |-> 0, faults |-> 0, mentions |-> 0]
    /\ budget \in Budgets

(* hold_socket, and the loop around it. *)
DaemonStep(p) ==
    \/ Connect(p) \/ ReadFrame(p) \/ SeeClose(p) \/ CheckDepth(p)
    \/ BeginSession(p) \/ FinishSession(p)

HarnessStep(p) == Claim(p) \/ Complete(p) \/ EndRun(p)

RunnersNext ==
    \/ Mention
    \/ Change \/ Fault
    \/ \E p \in Procs :
          \/ \E epoch \in 1 .. MaxEpoch : StartDaemon(p, epoch)
          \/ DaemonStep(p) \/ HarnessStep(p)
          \/ NoticeDead(p)

(* The daemon goes on with its loop, and a harness with its work. *)
RunnersFairness ==
    \A p \in Procs :
        /\ WF_runnerVars(Connect(p)) /\ WF_runnerVars(SeeClose(p))
        /\ WF_runnerVars(ReadFrame(p)) /\ WF_runnerVars(CheckDepth(p))
        /\ WF_runnerVars(BeginSession(p)) /\ WF_runnerVars(FinishSession(p))
        /\ WF_runnerVars(HarnessStep(p))

RunnersSpec == RunnersInit /\ [][RunnersNext]_runnerVars /\ RunnersFairness

-----------------------------------------------------------------------------
(* Properties. *)

RunnersTypeOK ==
    /\ {active, granted, heeded} \subseteq BOOLEAN
    /\ devices \in [Devices -> 0 .. MaxEpoch]
    /\ answering \in Devices \cup {None}
    /\ wakes \in [Devices -> {"none", "pending", "delivered"}]
    /\ open \in 0 .. issued /\ issued \in Nat
    /\ item \in [state : {"none", "pending", "claimed"}, by : 0 .. issued]
    /\ attention \in BOOLEAN
    /\ sockets \in [Procs -> [open : BOOLEAN, epoch : 0 .. MaxEpoch, mail : Seq(Frames)]]
    /\ procs \in [Procs -> [phase : {"off", "looping", "asking", "hashing"},
                            epoch : 0 .. MaxEpoch, linked : BOOLEAN, stopped : BOOLEAN,
                            running : 0 .. issued, session : 0 .. issued, found : BOOLEAN]]
    /\ untold \subseteq Procs

AnswererRegistered == answering # None => devices[answering] # 0

(* A wake names the machine that answers, and one nobody took is kept for   *)
(* the next connection.                                                     *)
WakesNamed ==
    \A d \in Devices : /\ wakes[d] # "none" => answering = d
                       /\ wakes[d] = "pending" => \A p \in On(d) : ~sockets[p].open

SocketsCurrent == \A p \in Procs : sockets[p].open => sockets[p].epoch = devices[DeviceOf[p]]

StopOnTheWay(p) == p \in untold \/ Contains(sockets[p].mail, "stop")

StopsReach == \A p \in Procs : procs[p].running # 0 /\ answering # DeviceOf[p] => StopOnTheWay(p)

(* The workspace wakes the machine that answers for the agent and no other; *)
(* every open socket is of the registration in force; and a run of a        *)
(* machine that no longer answers is told to stop, unless nothing reached   *)
(* it (registerRunner, releaseRunner, acceptRunnerSocket).                  *)
RunnersHold == RunnersTypeOK /\ AnswererRegistered /\ WakesNamed /\ SocketsCurrent /\ StopsReach

(* A daemon that could work: its machine answers for an active agent, a     *)
(* session can be had, and no stop holds it back that a connection would    *)
(* lift.                                                                    *)
Able(p) ==
    /\ procs[p].phase # "off"
    /\ active /\ granted /\ answering = DeviceOf[p]
    /\ procs[p].stopped =>
          /\ procs[p].epoch = devices[DeviceOf[p]]
          /\ procs[p].linked => ~sockets[p].open \/ Contains(sockets[p].mail, "welcome")
    /\ issued < budget.sessions \/ (open # 0 /\ procs[p].session = open)

(* Work is not lost with a wake: as long as a daemon could work, whatever   *)
(* broke before, no item waits for ever (hold_socket and check_depth).      *)
WorkIsNoticed == \A p \in Procs : <>[]Able(p) => []<>(item.state # "pending")
=============================================================================
