------------------------------ MODULE Runtimes ------------------------------
(***************************************************************************)
(* Agents that run elsewhere: at a provider, through sessions the          *)
(* workspace asks it for, or behind a callback of their owner              *)
(* (configureClaudeRuntime to selectAgentRuntime, recordRuntimeWake and    *)
(* the dispatchers of src/cloudflare/workspace.ts, runtime-gateway.ts).    *)
(*                                                                         *)
(* Owners configure and prove an agent's runtime in calls that wait for    *)
(* the provider with what they read before.  The alarm handler is one      *)
(* thread: it dispatches one outbox entry at a time or reconciles, and     *)
(* waits in between.  The provider, its events and the callback are        *)
(* external: a session is created or not, and the answer may be lost; an   *)
(* event may arrive late and twice.  The object may restart at any moment; *)
(* the handler is then run again.  Secrets, tokens, budgets and names are  *)
(* data.  What the outbox does with an entry is module Scheduler.          *)
(***************************************************************************)
EXTENDS Integers, FiniteSets

CONSTANTS
    Agents,
    Pairs,              \* an organization of the provider with a workspace there
    NoPair,             \* SQL NULL
    Runs,               \* ids of runtime_runs
    Wakes,              \* ids of custom_runtime_deliveries
    Events,             \* ids of the provider's events
    OwnerCalls

(* Bounds: how often an agent is configured, sessions the provider makes,   *)
(* the attempts an entry has; and, in each setup, which agents are ready at *)
(* the start, which are configured anew and for which pairs, who asks, what *)
(* is done and said, and how many faults, refusals and reconciliations      *)
(* there are.                                                               *)
CONSTANTS MaxMade, MaxSessions, MaxAttempts, Setups

ASSUME RuntimesAssumption ==
    /\ NoPair \notin Pairs
    /\ MaxMade \in Nat /\ MaxSessions \in Nat /\ MaxAttempts \in Nat \ {0}
    /\ Runs \cap Wakes = {} /\ Runs \cap Events = {} /\ Wakes \cap Events = {}
    /\ {"none", "manual"} \cap (Runs \cup Wakes \cup Events) = {}
    /\ Setups \subseteq [ready : SUBSET Agents, agents : SUBSET Agents, pairs : SUBSET Pairs,
                          does : SUBSET STRING, events : SUBSET Events, callers : SUBSET OwnerCalls,
                          faults : Nat, refusals : Nat, reconciliations : Nat]

VARIABLES
    configs,            \* agent_runtime_configs
    routes,             \* runtime_webhook_routes of this workspace, in D1
    runs,               \* runtime_runs
    wakings,            \* custom_runtime_deliveries
    entries,            \* their rows of pending_events, by run, delivery or event
    provider,           \* sessions and deployment runs at the provider (external)
    said,               \* the provider's events (external)
    carried,            \* events the gateway has verified (external)
    asking,             \* calls of owners
    flight,             \* the alarm handler
    reached,            \* history: deliveries the callback took
    strayed,            \* history: what was lost or crossed, by what it hit
    setup               \* the scenario, and what is left of its bounds

runtimeRows == <<configs, runs, wakings, entries>>
outside == <<provider, said>>
runtimeVars == <<runtimeRows, routes, outside, carried, asking, flight, reached, strayed, setup>>

NoConfig == [kind |-> "none", status |-> "active", pair |-> NoPair, made |-> 0,
             resource |-> 0, webhook |-> 0, deployment |-> 0, failures |-> 0]
NoRun == [agent |-> "none", state |-> "none", session |-> 0, origin |-> FALSE]
NoWake == [agent |-> "none", state |-> "none"]
NoEntry == [status |-> "none", attempts |-> 0, agent |-> "none"]
NoSession == [run |-> "none", state |-> "none", change |-> 0, pair |-> NoPair]
NoEvent == [session |-> 0, change |-> 0, pair |-> NoPair]
NoAsking == [pc |-> "idle", what |-> "none", agent |-> "none", read |-> NoConfig]
Grounded == [pc |-> "idle", entry |-> "none", read |-> NoConfig, session |-> 0, outcome |-> "none",
             todo |-> {}]

Sessions == 1 .. MaxSessions
Claude(a) == configs[a].kind = "claude_cloud"
Open == {"starting", "running", "idle"}

(* What is used up of a bound. *)
Use(what) ==
    /\ setup[what] > 0
    /\ setup' = [setup EXCEPT ![what] = @ - 1]

-----------------------------------------------------------------------------
(* Configuration.  "made" numbers the configurations an agent has had, and  *)
(* a proof or a deployment carries the number it was obtained for.          *)

(* configureClaudeRuntime, from the end of its encryption: the row, and     *)
(* the route in the control plane after it. *)
StoreClaude(c, a, p) ==
    /\ asking[c].pc = "idle" /\ configs[a].made < MaxMade
    /\ configs' = [configs EXCEPT ![a] =
          [NoConfig EXCEPT !.kind = "claude_cloud", !.status = "pending", !.pair = p,
                           !.made = configs[a].made + 1, !.failures = configs[a].failures]]
    /\ asking' = [asking EXCEPT ![c] =
          [pc |-> "routing", what |-> "none", agent |-> a, read |-> configs'[a]]]
    /\ UNCHANGED <<runs, wakings, entries, routes, outside, carried, flight, reached, strayed, setup>>

RouteClaude(c) ==
    /\ asking[c].pc = "routing"
    /\ routes' = [routes EXCEPT ![asking[c].read.pair] = TRUE]
    /\ asking' = [asking EXCEPT ![c] = NoAsking]
    /\ UNCHANGED <<runtimeRows, outside, carried, flight, reached, strayed, setup>>

(* configureCustomRuntime, from the end of its probe: the failures that     *)
(* were counted and the route stay.                                         *)
ConfigureCustomRuntime(a) ==
    /\ configs[a].made < MaxMade
    /\ configs' = [configs EXCEPT ![a] =
          [NoConfig EXCEPT !.kind = "custom", !.made = configs[a].made + 1, !.failures = configs[a].failures]]
    /\ UNCHANGED <<runs, wakings, entries, routes, outside, carried, asking, flight, reached, strayed, setup>>

(* selectAgentRuntime: an agent that leaves the provider takes the route    *)
(* along when it is the last that uses it, as forgetRuntimeWebhookRoute     *)
(* counts them before it asks the control plane.                            *)
SelectAgentRuntime(c, a) ==
    /\ asking[c].pc = "idle" /\ configs[a].made < MaxMade
    /\ configs' = [configs EXCEPT ![a] = [NoConfig EXCEPT !.kind = "connected", !.made = configs[a].made + 1]]
    /\ asking' = IF Claude(a) /\ ~\E b \in Agents \ {a} : Claude(b) /\ configs[b].pair = configs[a].pair
                 THEN [asking EXCEPT ![c] = [pc |-> "forgetting", what |-> "none", agent |-> a, read |-> configs[a]]]
                 ELSE asking
    /\ UNCHANGED <<runs, wakings, entries, routes, outside, carried, flight, reached, strayed, setup>>

UsedPair(p) == \E a \in Agents : Claude(a) /\ configs[a].pair = p

ForgetRuntimeWebhookRoute(c) ==
    LET p == asking[c].read.pair
    IN  /\ asking[c].pc = "forgetting"
        /\ routes' = [routes EXCEPT ![p] = FALSE]
        /\ asking' = [asking EXCEPT ![c] = NoAsking]
        /\ strayed' = IF UsedPair(p) THEN strayed \cup {<<"crossed", p>>} ELSE strayed
        /\ UNCHANGED <<runtimeRows, outside, carried, flight, reached, setup>>

-----------------------------------------------------------------------------
(* What owners ask the provider for, with the configuration they read.      *)

AskProvider(c, a, what) ==
    /\ asking[c].pc = "idle" /\ Claude(a)
    /\ what \in {"schedule", "manual"} => configs[a].status = "active"
    /\ what = "manual" => configs[a].deployment # 0
    /\ asking' = [asking EXCEPT ![c] = [pc |-> "token", what |-> what, agent |-> a, read |-> configs[a]]]
    /\ UNCHANGED <<runtimeRows, routes, outside, carried, flight, reached, strayed, setup>>

(* providerAccessToken: what it writes goes to whatever configuration the   *)
(* agent has by then, counted from the one that was read.                   *)
TokenGranted(a, read) ==
    configs' = IF read.failures > 0 THEN [configs EXCEPT ![a].failures = 0] ELSE configs

TokenRefused(a, read) ==
    configs' = [configs EXCEPT ![a].failures = read.failures + 1,
                               ![a].status = IF read.failures + 1 >= 3 THEN "disconnected" ELSE @]

OwnerToken(c) ==
    /\ asking[c].pc = "token"
    /\ \/ /\ TokenGranted(asking[c].agent, asking[c].read)
          /\ asking' = [asking EXCEPT ![c].pc = "answer"]
          /\ UNCHANGED setup
       \/ /\ Use("refusals")
          /\ TokenRefused(asking[c].agent, asking[c].read)
          /\ asking' = [asking EXCEPT ![c] = NoAsking]
    /\ UNCHANGED <<runs, wakings, entries, routes, outside, carried, flight, reached, strayed>>

(* The agent was configured anew while the call was under way. *)
Overtaken(c) == configs[asking[c].agent].made # asking[c].read.made
Straying(c) == IF Overtaken(c) THEN strayed \cup {<<"overtaken", asking[c].agent>>} ELSE strayed

(* proveClaudeRuntimeResources *)
ProveClaudeRuntimeResources(c) ==
    /\ asking[c].pc = "answer" /\ asking[c].what = "prove"
    /\ configs' = [configs EXCEPT ![asking[c].agent].resource = asking[c].read.made,
                                  ![asking[c].agent].status = IF asking[c].read.webhook = 0 THEN "pending" ELSE "active"]
    /\ strayed' = Straying(c)
    /\ asking' = [asking EXCEPT ![c] = NoAsking]
    /\ UNCHANGED <<runs, wakings, entries, routes, outside, carried, flight, reached, setup>>

(* createClaudeSchedule *)
CreateClaudeSchedule(c) ==
    /\ asking[c].pc = "answer" /\ asking[c].what = "schedule"
    /\ configs' = [configs EXCEPT ![asking[c].agent].deployment = asking[c].read.made]
    /\ strayed' = Straying(c)
    /\ asking' = [asking EXCEPT ![c] = NoAsking]
    /\ UNCHANGED <<runs, wakings, entries, routes, outside, carried, flight, reached, setup>>

(* startManualClaudeRun: the provider makes the run, and its row follows.   *)
DeployManualRun(c, s) ==
    /\ asking[c].pc = "answer" /\ asking[c].what = "manual"
    /\ provider[s] = NoSession
    /\ provider' = [provider EXCEPT ![s] = [run |-> "manual", state |-> "running", change |-> 0,
                                               pair |-> asking[c].read.pair]]
    /\ asking' = [asking EXCEPT ![c].pc = "deployed", ![c].read.deployment = s]
    /\ UNCHANGED <<runtimeRows, routes, said, carried, flight, reached, strayed, setup>>

StartManualClaudeRun(c, r) ==
    LET s == asking[c].read.deployment
    IN  /\ asking[c].pc = "deployed"
        /\ runs[r] = NoRun
        /\ runs' = [runs EXCEPT ![r] = [agent |-> asking[c].agent, state |-> "running", session |-> s, origin |-> FALSE]]
        /\ strayed' = IF provider[s].change > 0 THEN strayed \cup {<<"missed", r>>} ELSE strayed
        /\ asking' = [asking EXCEPT ![c] = NoAsking]
        /\ UNCHANGED <<configs, wakings, entries, routes, outside, carried, flight, reached, setup>>

-----------------------------------------------------------------------------
(* Mentions. *)

(* recordRuntimeWake: the lane a mention takes.  A runtime of the owner's   *)
(* own or on a machine, and one that is not active, makes no row here.      *)
RecordRuntimeWake(a) ==
    /\ configs[a].status = "active"
    /\ \/ \E r \in Runs :
             /\ Claude(a) /\ runs[r] = NoRun
             /\ runs' = [runs EXCEPT ![r] = [agent |-> a, state |-> "queued", session |-> 0, origin |-> TRUE]]
             /\ entries' = [entries EXCEPT ![r] = [status |-> "pending", attempts |-> 0, agent |-> a]]
             /\ UNCHANGED wakings
       \/ \E w \in Wakes :
             /\ configs[a].kind = "custom" /\ wakings[w] = NoWake
             /\ wakings' = [wakings EXCEPT ![w] = [agent |-> a, state |-> "pending"]]
             /\ entries' = [entries EXCEPT ![w] = [status |-> "pending", attempts |-> 0, agent |-> a]]
             /\ UNCHANGED runs
    /\ UNCHANGED <<configs, routes, outside, carried, asking, flight, reached, strayed, setup>>

(* deleteMessage, of the message a run is for. *)
DeleteOrigin(r) ==
    /\ runs[r].origin
    /\ runs' = [runs EXCEPT ![r].origin = FALSE]
    /\ UNCHANGED <<configs, wakings, entries, routes, outside, carried, asking, flight, reached, strayed, setup>>

-----------------------------------------------------------------------------
(* The provider and its events. *)

(* Something else is said of the pair, as when its webhook is set up. *)
ProviderSays(e, p) ==
    /\ said[e] = NoEvent /\ \E a \in Agents : configs[a].pair = p
    /\ said' = [said EXCEPT ![e].pair = p]
    /\ UNCHANGED <<runtimeRows, routes, provider, carried, asking, flight, reached, strayed, setup>>

(* A session goes on: it is idle, or it ends. *)
ProviderMoves(s, e, state) ==
    /\ provider[s].state \in {"running", "idle"} /\ state # provider[s].state
    /\ said[e] = NoEvent
    /\ provider' = [provider EXCEPT ![s].state = state, ![s].change = @ + 1]
    /\ said' = [said EXCEPT ![e] = [session |-> s, change |-> provider[s].change + 1,
                                       pair |-> provider[s].pair]]
    /\ UNCHANGED <<runtimeRows, routes, carried, asking, flight, reached, strayed, setup>>

(* handleRuntimeGatewayRequest, up to the call of the object. *)
HandleRuntimeGatewayRequest(e) ==
    /\ said[e] # NoEvent /\ e \notin carried
    /\ routes[said[e].pair]
    /\ carried' = carried \cup {e}
    /\ UNCHANGED <<runtimeRows, routes, outside, asking, flight, reached, strayed, setup>>

(* Faulty variant: the webhook alone makes the runtime active. *)
AcceptUnprovedWebhook(e, a) ==
    /\ e \in carried
    /\ Claude(a) /\ configs[a].pair = said[e].pair /\ configs[a].status \in {"pending", "active"}
    /\ entries[e] = NoEntry
    /\ configs' = [configs EXCEPT ![a].webhook = configs[a].made, ![a].status = "active"]
    /\ entries' = [entries EXCEPT ![e] = [status |-> "pending", attempts |-> 0, agent |-> a]]
    /\ UNCHANGED <<runs, wakings, routes, outside, carried, asking, flight, reached, strayed, setup>>

(* acceptAnthropicWebhook: the receipt is kept for good, and with it the    *)
(* entry; of several agents with that pair some one is taken.               *)
AcceptAnthropicWebhook(e, a) ==
    /\ e \in carried
    /\ Claude(a) /\ configs[a].pair = said[e].pair /\ configs[a].status \in {"pending", "active"}
    /\ entries[e] = NoEntry
    /\ configs' = [configs EXCEPT ![a].webhook = IF @ = 0 THEN configs[a].made ELSE @,
                                  ![a].status = IF configs[a].resource = 0 THEN "pending" ELSE "active"]
    /\ entries' = [entries EXCEPT ![e] = [status |-> "pending", attempts |-> 0, agent |-> a]]
    /\ UNCHANGED <<runs, wakings, routes, outside, carried, asking, flight, reached, strayed, setup>>

-----------------------------------------------------------------------------
(* The alarm handler. *)

(* settleOutbox, and for a wake that is dead what drainOutbox writes then.  *)
Settled(id, outcome) ==
    LET n == entries[id].attempts + 1
        status == IF outcome = "delivered" THEN "delivered"
                  ELSE IF outcome = "permanent" \/ n >= MaxAttempts THEN "dead" ELSE "pending"
    IN  /\ entries' = [entries EXCEPT ![id].attempts = n, ![id].status = status]
        /\ wakings' = IF id \in Wakes /\ status = "dead" THEN [wakings EXCEPT ![id].state = "dead"] ELSE wakings

Settle ==
    /\ flight.pc = "settle"
    /\ Settled(flight.entry, flight.outcome)
    /\ flight' = Grounded
    /\ UNCHANGED <<configs, runs, routes, outside, carried, asking, reached, strayed, setup>>

Pending(id) == flight.pc = "idle" /\ entries[id].status = "pending"
Landing(id, outcome) == [Grounded EXCEPT !.pc = "settle", !.entry = id, !.outcome = outcome]
Taking(id, pc) == [Grounded EXCEPT !.pc = pc, !.entry = id, !.read = configs[entries[id].agent]]

(* Faulty variant: whether the run has a session is not looked at. *)
DispatchMentionAgain(r) ==
    LET a == entries[r].agent
    IN  /\ Pending(r)
        /\ IF Claude(a) /\ configs[a].status = "active" /\ runs[r].origin
           THEN /\ runs' = [runs EXCEPT ![r].state = "starting"]
                /\ flight' = Taking(r, "token")
           ELSE flight' = Landing(r, "permanent") /\ UNCHANGED runs
        /\ UNCHANGED <<configs, wakings, entries, routes, outside, carried, asking, reached, strayed, setup>>

(* dispatchCloudRuntimeMention, up to its first wait. *)
DispatchCloudRuntimeMention(r) ==
    LET a == entries[r].agent
        live == Claude(a) /\ configs[a].status = "active"
        bound == runs[r].session # 0
    IN  /\ Pending(r)
        /\ IF live /\ ~bound /\ runs[r].origin
           THEN /\ runs' = [runs EXCEPT ![r].state = "starting"]
                /\ flight' = Taking(r, "token")
           ELSE /\ flight' = Landing(r, IF live /\ bound THEN "delivered" ELSE "permanent")
                /\ UNCHANGED runs
        /\ UNCHANGED <<configs, wakings, entries, routes, outside, carried, asking, reached, strayed, setup>>

(* The request reaches the provider. *)
MakeSession(s) ==
    /\ flight.pc = "call" /\ flight.entry \in Runs
    /\ provider[s] = NoSession
    /\ provider' = [provider EXCEPT ![s] = [run |-> flight.entry, state |-> "running", change |-> 0,
                                               pair |-> flight.read.pair]]
    /\ flight' = [flight EXCEPT !.pc = "made", !.session = s]
    /\ UNCHANGED <<runtimeRows, routes, said, carried, asking, reached, strayed, setup>>

(* Its answer is there. *)
BindSession ==
    LET r == flight.entry
    IN  /\ flight.pc = "made"
        /\ runs' = IF runs[r].session # 0 THEN runs
                   ELSE [runs EXCEPT ![r].session = flight.session, ![r].state = "running"]
        /\ flight' = Landing(r, "delivered")
        /\ UNCHANGED <<configs, wakings, entries, routes, outside, carried, asking, reached, strayed, setup>>

(* dispatchAnthropicResourceFetch, up to its first wait; the event of a     *)
(* session that is gone needs none.                                         *)
DispatchAnthropicResourceFetch(e) ==
    LET a == entries[e].agent
    IN  /\ Pending(e)
        /\ flight' = IF Claude(a) /\ configs[a].status \in {"pending", "active"}
                     THEN Taking(e, "token") ELSE Landing(e, "permanent")
        /\ UNCHANGED <<runtimeRows, routes, outside, carried, asking, reached, strayed, setup>>

(* Its answer is there: the run of that agent and session says what the     *)
(* provider says.                                                           *)
ApplyFetch ==
    LET e == flight.entry
        s == said[e].session
        of == {r \in Runs : s # 0 /\ runs[r].session = s}
        hit == {r \in of : runs[r].agent = entries[e].agent}
    IN  /\ flight.pc = "call" /\ e \in Events
        /\ runs' = [r \in Runs |-> IF r \in hit THEN [runs[r] EXCEPT !.state = provider[s].state] ELSE runs[r]]
        /\ strayed' = strayed \cup {<<"missed", r>> : r \in of \ hit}
        /\ flight' = Landing(e, "delivered")
        /\ UNCHANGED <<configs, wakings, entries, routes, outside, carried, asking, reached, setup>>

(* dispatchCustomRuntimeWake, up to its request. *)
DispatchCustomRuntimeWake(w) ==
    LET a == entries[w].agent
    IN  /\ Pending(w)
        /\ flight' = IF configs[a].kind = "custom" /\ configs[a].status = "active"
                     THEN Taking(w, "call") ELSE Landing(w, "permanent")
        /\ UNCHANGED <<runtimeRows, routes, outside, carried, asking, reached, strayed, setup>>

(* deliverCustomWake: taken, refused for now, or refused. *)
DeliverCustomWake(outcome) ==
    LET w == flight.entry
    IN  /\ flight.pc = "call" /\ w \in Wakes
        /\ outcome # "delivered" => setup.refusals > 0
        /\ setup' = IF outcome = "delivered" THEN setup ELSE [setup EXCEPT !.refusals = @ - 1]
        /\ wakings' = IF outcome = "delivered" THEN [wakings EXCEPT ![w].state = "delivered"] ELSE wakings
        /\ reached' = IF outcome = "delivered" THEN reached \cup {w} ELSE reached
        /\ flight' = Landing(w, outcome)
        /\ UNCHANGED <<configs, runs, entries, routes, outside, carried, asking, strayed>>

(* The token of a dispatch, or a request that fails: a run goes back to the *)
(* queue and the entry is tried again.                                      *)
Requeued(id) ==
    runs' = IF id \in Runs THEN [runs EXCEPT ![id].state = "queued"] ELSE runs

FlightToken ==
    LET a == entries[flight.entry].agent
    IN  /\ flight.pc = "token"
        /\ \/ /\ TokenGranted(a, flight.read)
              /\ flight' = [flight EXCEPT !.pc = "call"]
              /\ UNCHANGED <<runs, setup>>
           \/ /\ Use("refusals")
              /\ TokenRefused(a, flight.read)
              /\ Requeued(flight.entry)
              /\ flight' = Landing(flight.entry, "retry")
        /\ UNCHANGED <<wakings, entries, routes, outside, carried, asking, reached, strayed>>

FlightFails ==
    /\ flight.pc \in {"call", "made"} /\ flight.entry \notin Wakes
    /\ Use("faults")
    /\ Requeued(flight.entry)
    /\ strayed' = IF flight.pc = "made" THEN strayed \cup {<<"lost", flight.entry>>} ELSE strayed
    /\ flight' = Landing(flight.entry, "retry")
    /\ UNCHANGED <<configs, wakings, entries, routes, outside, carried, asking, reached>>

(* reconcileCloudRuntimes: every run that is not over, one after the other; *)
(* one that cannot be asked for ends it.                                    *)
ReconcileCloudRuntimes ==
    /\ flight.pc = "idle" /\ Use("reconciliations")
    /\ flight' = [Grounded EXCEPT !.pc = "reconciling", !.todo = {r \in Runs : runs[r].state \in Open}]
    /\ UNCHANGED <<runtimeRows, routes, outside, carried, asking, reached, strayed>>

ReconcileRun(r) ==
    /\ flight.pc = "reconciling" /\ r \in flight.todo
    /\ IF Claude(runs[r].agent) /\ runs[r].session # 0
       THEN /\ runs' = [runs EXCEPT ![r].state = provider[runs[r].session].state]
            /\ TokenGranted(runs[r].agent, configs[runs[r].agent])
            /\ strayed' = strayed \ {<<"missed", r>>}
            /\ flight' = [flight EXCEPT !.todo = @ \ {r}]
       ELSE flight' = Grounded /\ UNCHANGED <<configs, runs, strayed>>
    /\ UNCHANGED <<wakings, entries, routes, outside, carried, asking, reached, setup>>

ReconcileEnds ==
    /\ flight.pc = "reconciling" /\ flight.todo = {}
    /\ flight' = Grounded
    /\ UNCHANGED <<runtimeRows, routes, outside, carried, asking, reached, strayed, setup>>

-----------------------------------------------------------------------------
(* The object restarts: calls and the handler are gone, rows are not. *)
RestartRuntimes ==
    /\ Use("faults")
    /\ asking' = [c \in OwnerCalls |-> NoAsking]
    /\ flight' = Grounded
    /\ strayed' = strayed
         \cup {<<"crossed", asking[c].read.pair>> : c \in {d \in OwnerCalls : asking[d].pc = "routing"}}
         \cup {<<"lost", f.entry>> : f \in {g \in {flight} : g.pc = "made"}}
    /\ UNCHANGED <<runtimeRows, routes, outside, carried, reached>>

(* The control plane or the provider fails an owner's call. *)
FailCall(c) ==
    /\ asking[c].pc \in {"routing", "forgetting", "answer", "deployed"} /\ Use("faults")
    /\ strayed' = IF asking[c].pc = "routing" THEN strayed \cup {<<"crossed", asking[c].read.pair>>} ELSE strayed
    /\ asking' = [asking EXCEPT ![c] = NoAsking]
    /\ UNCHANGED <<runtimeRows, routes, outside, carried, flight, reached>>

-----------------------------------------------------------------------------
(* An agent that is configured has been proved and has a schedule. *)
Ready(p) ==
    [NoConfig EXCEPT !.kind = "claude_cloud", !.pair = p, !.made = 1, !.resource = 1, !.webhook = 1, !.deployment = 1]

RuntimesInit ==
    /\ setup \in Setups
    /\ \E p \in setup.pairs :
          /\ configs = [a \in Agents |-> IF a \in setup.ready THEN Ready(p) ELSE NoConfig]
          /\ routes = [q \in Pairs |-> q = p /\ setup.ready # {}]
    /\ runs = [r \in Runs |-> NoRun]
    /\ wakings = [w \in Wakes |-> NoWake]
    /\ entries = [id \in Runs \cup Wakes \cup Events |-> NoEntry]
    /\ provider = [s \in Sessions |-> NoSession]
    /\ said = [e \in Events |-> NoEvent]
    /\ carried = {} /\ reached = {} /\ strayed = {}
    /\ asking = [c \in OwnerCalls |-> NoAsking]
    /\ flight = Grounded

ConfigureStep ==
    \/ \E a \in setup.agents :
          \/ "custom" \in setup.does /\ ConfigureCustomRuntime(a)
          \/ "configure" \in setup.does /\ \E c \in setup.callers :
                (\E p \in setup.pairs : StoreClaude(c, a, p)) \/ SelectAgentRuntime(c, a)
    \/ \E c \in OwnerCalls : RouteClaude(c) \/ ForgetRuntimeWebhookRoute(c)

AskStep ==
    \E c \in setup.callers :
       \/ \E a \in Agents, what \in {"prove", "schedule", "manual"} \cap setup.does : AskProvider(c, a, what)
       \/ OwnerToken(c) \/ ProveClaudeRuntimeResources(c) \/ CreateClaudeSchedule(c) \/ FailCall(c)
       \/ \E s \in Sessions : DeployManualRun(c, s)
       \/ \E r \in Runs : StartManualClaudeRun(c, r)

ProviderStep ==
    \E e \in setup.events :
       \/ \E s \in Sessions, state \in {"running", "idle", "terminated"} : ProviderMoves(s, e, state)
       \/ "hooks" \in setup.does /\ \E p \in setup.pairs : ProviderSays(e, p)
       \/ HandleRuntimeGatewayRequest(e)
       \/ \E a \in Agents : AcceptAnthropicWebhook(e, a)

FlightStep ==
    \/ \E r \in Runs : DispatchCloudRuntimeMention(r) \/ ReconcileRun(r)
    \/ \E e \in Events : DispatchAnthropicResourceFetch(e)
    \/ \E w \in Wakes : DispatchCustomRuntimeWake(w)
    \/ \E s \in Sessions : MakeSession(s)
    \/ \E outcome \in {"delivered", "retry", "permanent"} : DeliverCustomWake(outcome)
    \/ FlightToken \/ FlightFails \/ BindSession \/ ApplyFetch \/ Settle
    \/ ReconcileCloudRuntimes \/ ReconcileEnds

RuntimesNext ==
    \/ "mention" \in setup.does /\ \E a \in Agents : RecordRuntimeWake(a)
    \/ "delete" \in setup.does /\ \E r \in Runs : DeleteOrigin(r)
    \/ ConfigureStep \/ AskStep \/ ProviderStep \/ FlightStep \/ RestartRuntimes

-----------------------------------------------------------------------------
(* Properties. *)

(* A mention that was delivered has the session the provider made for it,   *)
(* and it has several only when the answer for one of them was lost.        *)
OneSessionEach ==
    \A r \in Runs :
       /\ entries[r].status = "delivered" => runs[r].session # 0
       /\ runs[r].session # 0 => provider[runs[r].session].run \in {r, "manual"}
       /\ Cardinality({s \in Sessions : provider[s].run = r}) > 1 => <<"lost", r>> \in strayed

(* Once the event of a session's last change was dealt with, its run says   *)
(* what the provider says, unless the event was taken for another agent's   *)
(* or the run was not known yet.                                            *)
RunsFollow ==
    \A e \in Events, r \in Runs :
       /\ entries[e].status = "delivered"
       /\ runs[r].session # 0 /\ runs[r].session = said[e].session
       /\ said[e].change = provider[said[e].session].change
       => runs[r].state = provider[said[e].session].state \/ <<"missed", r>> \in strayed

(* A runtime at the provider is used when both proofs were obtained for the *)
(* configuration it has, unless a proof was overtaken by a new one.         *)
ActiveWhenProved ==
    \A a \in Agents :
       Claude(a) => /\ configs[a].status = "active"
                          => \/ <<"overtaken", a>> \in strayed
                             \/ configs[a].resource = configs[a].made /\ configs[a].webhook = configs[a].made
                    /\ configs[a].deployment \in {0, configs[a].made} \/ <<"overtaken", a>> \in strayed

(* The provider's events find the workspace while an agent needs them,      *)
(* unless the route was being made or forgotten at that moment.             *)
RoutesStand ==
    \A p \in Pairs :
       UsedPair(p) => \/ routes[p] \/ <<"crossed", p>> \in strayed
                      \/ \E c \in OwnerCalls : asking[c].pc = "routing" /\ asking[c].read.pair = p

(* A wake counts as delivered when the callback took it, and as dead when   *)
(* nobody tries it any more.                                                *)
WakesAgree ==
    \A w \in Wakes :
       /\ wakings[w].state = "delivered" => w \in reached
       /\ wakings[w].state = "dead" <=> entries[w].status = "dead"
       /\ entries[w].status = "delivered" => wakings[w].state = "delivered"

(* However configuration, proofs, events, answers and restarts cross, a     *)
(* mention has one session, a run follows the provider, and what counts as  *)
(* proved, routed and delivered is (dispatchCloudRuntimeMention,            *)
(* acceptAnthropicWebhook, proveClaudeRuntimeResources, drainOutbox).       *)
RuntimesHold == OneSessionEach /\ RunsFollow /\ ActiveWhenProved /\ RoutesStand /\ WakesAgree
=============================================================================
