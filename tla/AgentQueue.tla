----------------------------- MODULE AgentQueue -----------------------------
(***************************************************************************)
(* The execution queue of one agent in a workspace Durable Object: the     *)
(* table agent_queue and the handlers that claim, renew, start, complete   *)
(* and strand its rows (src/cloudflare/workspace.ts).                      *)
(*                                                                         *)
(* Concurrency.  A handler hashes the secrets it was given, which yields,  *)
(* then reads everything it decides on again and writes without yielding;  *)
(* each handler is one action here.  What interleaves is whole calls from  *)
(* several holders, any of which may be delayed, repeated, or lost after   *)
(* its effect: every proof of a lease ever returned stays in "granted" and *)
(* may be presented at any later time, by anyone.                          *)
(*                                                                         *)
(* Time.  An instant is written as its distance from the present: Tick     *)
(* brings every stored instant one unit nearer.  A caller stamps its own   *)
(* clock into the request, so a handler's "now" is the present plus an     *)
(* offset of at most MaxSkew either way, and an instant older than every   *)
(* possible "now" is kept at Floor.                                        *)
(***************************************************************************)
EXTENDS SessionAuthority, Integers, FiniteSets

CONSTANTS
    Connections,        \* OAuth connections of attended clients
    Items,              \* queue rows, numbered in (enqueued_at, id) order
    ClaimIds,           \* claim ids a client may choose
    Tokens,             \* lease secrets a client may choose
    Results,            \* (completion id, output digest) pairs
    MaxAttempts,        \* claims before a row is dead, 5 in the code
    Backoff,            \* delay after the n-th lost claim
    LeaseTime,          \* lease length, 60 s in the code
    MaxSkew,            \* how far a caller's clock is from the present
    None                \* SQL NULL

ASSUME QueueAssumption ==
    /\ Items \subseteq Nat
    /\ Sessions \cap Connections = {}
    /\ MaxAttempts \in Nat \ {0}
    /\ Backoff \in [1 .. MaxAttempts - 1 -> Nat \ {0}]
    /\ LeaseTime \in Nat \ {0}
    /\ MaxSkew \in Nat
    /\ None \notin Sessions \cup Connections \cup ClaimIds \cup Tokens \cup Results

VARIABLES
    connected,          \* OAuth connections that are not revoked
    queue,              \* the rows
    granted,            \* history: every lease proof a claim has returned
    executed,           \* history: (item, generation) pairs told to start
    receipts            \* history: completions acknowledged to a caller

queueVars == <<connected, queue, granted, executed, receipts>>
vars == <<active, session, connected, queue, granted, executed, receipts>>

-----------------------------------------------------------------------------
(* Types. *)

(* lease_connection_id, lease_agent_session_id and lease_session_id name   *)
(* the holder together; a session's rows carry its id in both columns.     *)
Holders == Sessions \cup Connections

States == {"absent", "pending", "claimed", "completed",
           "needs_attention", "dead_letter"}

Floor == -MaxSkew
Offsets == Floor .. MaxSkew

Proofs == [item : Items, generation : Nat, holder : Holders, token : Tokens]

Rows == [state      : States,
         attempts   : Nat,
         generation : Nat,
         notBefore  : Int,
         holder     : Holders \cup {None},
         claimId    : ClaimIds \cup {None},
         token      : Tokens \cup {None},
         expires    : Int,
         started    : BOOLEAN,
         result     : Results \cup {None}]

QueueTypeOK ==
    /\ AuthorityTypeOK
    /\ connected \subseteq Connections
    /\ queue \in [Items -> Rows]
    /\ granted \subseteq Proofs
    /\ executed \subseteq (Items \X Nat)
    /\ receipts \subseteq (Items \X Nat \X Results)

-----------------------------------------------------------------------------
(* State formulae. *)

EmptyRow ==
    [state |-> "absent", attempts |-> 0, generation |-> 0, notBefore |-> Floor,
     holder |-> None, claimId |-> None, token |-> None, expires |-> Floor,
     started |-> FALSE, result |-> None]

(* The owner is active, owns an active agent, and the credential still lives. *)
Live(h) ==
    /\ active
    /\ h \in Sessions => session[h] = "live"
    /\ h \in Connections => h \in connected

(* Faulty variants: a sweep that skips started work, and one that takes a   *)
(* lease a renewal would still have saved.                                  *)
LeaseLostIfUnstarted(row, o) ==
    row.state = "claimed" /\ row.expires <= o /\ ~row.started
LeaseLostEarly(row, o) == row.state = "claimed" /\ row.expires <= o + LeaseTime

LeaseLost(row, o) == row.state = "claimed" /\ row.expires <= o

(* Faulty variant: started work is put back.                                *)
PutBack(row, o) ==
    [row EXCEPT !.state = "pending", !.notBefore = o + 1, !.holder = None,
                !.claimId = None, !.token = None, !.expires = Floor]
AfterExpiryAlwaysRetries(row, o) ==
    IF row.attempts >= MaxAttempts THEN [row EXCEPT !.state = "dead_letter"]
                                   ELSE PutBack(row, o)

(* One row of expireAgentClaims.  Work that began has an outcome nobody     *)
(* knows, so it is never put back.                                          *)
AfterExpiry(row, o) ==
    IF row.started
    THEN [row EXCEPT !.state = "needs_attention", !.token = None, !.expires = Floor]
    ELSE IF row.attempts >= MaxAttempts
    THEN [row EXCEPT !.state = "dead_letter", !.token = None, !.expires = Floor]
    ELSE [row EXCEPT !.state = "pending", !.notBefore = o + Backoff[row.attempts],
                     !.holder = None, !.claimId = None, !.token = None,
                     !.expires = Floor, !.started = FALSE]

(* The whole table after expireAgentClaims at the caller's "now". *)
Swept(o) ==
    [i \in Items |-> IF LeaseLost(queue[i], o) THEN AfterExpiry(queue[i], o)
                                               ELSE queue[i]]

(* Faulty variant: only work that has not started is replayed. *)
ReplayableIfUnstarted(rows, h, c) ==
    {i \in Items : /\ rows[i].state = "claimed"
                   /\ rows[i].claimId = c
                   /\ rows[i].holder = h
                   /\ ~rows[i].started}

(* Rows a claim would hand back instead of claiming another. *)
Replayable(rows, h, c) ==
    {i \in Items : /\ rows[i].state = "claimed"
                   /\ rows[i].claimId = c
                   /\ rows[i].holder = h}

(* Rows a claim may take.  The caller's withheld rows are those whose       *)
(* message is deleted, or whose room the owner cannot see or the delegation *)
(* does not cover; rooms are outside this module and decide that freely.    *)
Ready(rows, withheld, o) ==
    {i \in Items \ withheld : rows[i].state = "pending" /\ rows[i].notBefore <= o}

LeasedRow(row, h, c, t, o) ==
    [row EXCEPT !.state = "claimed", !.attempts = @ + 1, !.generation = @ + 1,
                !.holder = h, !.claimId = c, !.token = t,
                !.expires = o + LeaseTime, !.started = FALSE, !.result = None]

ProofOf(i, row) ==
    [item |-> i, generation |-> row.generation, holder |-> row.holder,
     token |-> row.token]

(* Faulty variant: a secret used for two claims is good for both. *)
MatchesLeaseAnyGeneration(h, p) ==
    queue[p.item].holder = h /\ queue[p.item].token = p.token

(* authorizeAgentLease: the caller h presents the proof p. *)
MatchesLease(h, p) ==
    /\ queue[p.item].holder = h
    /\ queue[p.item].generation = p.generation
    /\ queue[p.item].token = p.token

Authorized(h, p, o) ==
    /\ Live(h)
    /\ MatchesLease(h, p)
    /\ queue[p.item].state = "claimed"
    /\ queue[p.item].expires > o

(* runnerQueueDepth: what the runner is told is waiting for it. *)
QueueDepth(o) ==
    IF active
    THEN Cardinality({i \in Items : /\ queue[i].state \in {"pending", "needs_attention"}
                                    /\ queue[i].notBefore <= o})
    ELSE 0

Nearer(t) == IF t > Floor THEN t - 1 ELSE t

-----------------------------------------------------------------------------
(* Actions. *)

(* A mention of the agent is committed with its queue row; UNIQUE(agent_id, *)
(* message_id) makes a second insertion of the row a no-op.                 *)
EnqueueAgentWork(i) ==
    /\ active
    /\ queue[i].state = "absent"
    /\ queue' = [queue EXCEPT ![i] = [EmptyRow EXCEPT !.state = "pending"]]
    /\ UNCHANGED <<authorityVars, connected, granted, executed, receipts>>

(* claimAgentWork, lost response: the same claim id and secret get the same *)
(* lease again.  Another secret throws, which rolls the sweep back as well. *)
ClaimReplay(h, c, t, o) ==
    /\ Live(h)
    /\ \E i \in Replayable(Swept(o), h, c) :
          /\ Swept(o)[i].token = t
          /\ granted' = granted \cup {ProofOf(i, Swept(o)[i])}
    /\ queue' = Swept(o)
    /\ UNCHANGED <<authorityVars, connected, executed, receipts>>

(* claimAgentWork: the oldest row that is ready goes to the caller. *)
ClaimNext(h, c, t, withheld, o) ==
    /\ Live(h)
    /\ Replayable(Swept(o), h, c) = {}
    /\ \E i \in Ready(Swept(o), withheld, o) :
          LET row == LeasedRow(Swept(o)[i], h, c, t, o)
          IN  /\ \A j \in Ready(Swept(o), withheld, o) : i <= j
              /\ queue' = [Swept(o) EXCEPT ![i] = row]
              /\ granted' = granted \cup {ProofOf(i, row)}
    /\ UNCHANGED <<authorityVars, connected, executed, receipts>>

(* claimAgentWork with nothing to hand out still commits its sweep. *)
ClaimNothing(h, c, withheld, o) ==
    /\ Live(h)
    /\ Replayable(Swept(o), h, c) = {}
    /\ Ready(Swept(o), withheld, o) = {}
    /\ queue' = Swept(o)
    /\ UNCHANGED <<authorityVars, connected, granted, executed, receipts>>

RenewAgentLease(h, p, o) ==
    /\ Authorized(h, p, o)
    /\ queue' = [queue EXCEPT ![p.item].expires = o + LeaseTime]
    /\ UNCHANGED <<authorityVars, connected, granted, executed, receipts>>

(* The runner asks before it launches the harness; the answer is the leave  *)
(* to produce external effects.                                             *)
MarkAgentExecutionStarted(h, p, o) ==
    /\ Authorized(h, p, o)
    /\ queue' = [queue EXCEPT ![p.item].started = TRUE]
    /\ executed' = executed \cup {<<p.item, p.generation>>}
    /\ UNCHANGED <<authorityVars, connected, granted, receipts>>

CompleteAgentWork(h, p, r, o) ==
    /\ Authorized(h, p, o)
    /\ queue[p.item].result = None
    /\ queue' = [queue EXCEPT ![p.item].state = "completed", ![p.item].result = r,
                              ![p.item].expires = Floor]
    /\ receipts' = receipts \cup {<<p.item, p.generation, r>>}
    /\ UNCHANGED <<authorityVars, connected, granted, executed>>

(* Faulty variant: whatever a repeated completion says is acknowledged. *)
CompleteReplayUnchecked(h, p, r) ==
    /\ Live(h)
    /\ MatchesLease(h, p)
    /\ queue[p.item].state = "completed"
    /\ receipts' = receipts \cup {<<p.item, p.generation, r>>}
    /\ UNCHANGED <<authorityVars, connected, queue, granted, executed>>

(* completeAgentWork, lost response: only the recorded id and digest are    *)
(* acknowledged again.                                                      *)
CompleteReplay(h, p, r) ==
    /\ Live(h)
    /\ MatchesLease(h, p)
    /\ queue[p.item].state = "completed"
    /\ queue[p.item].result = r
    /\ receipts' = receipts \cup {<<p.item, p.generation, r>>}
    /\ UNCHANGED <<authorityVars, connected, queue, granted, executed>>

(* Faulty variant: the report also strands what the session completed. *)
ReportRunnerOutcomeAnyState(s) ==
    /\ queue' = [i \in Items |->
                   IF queue[i].holder = s
                   THEN [queue[i] EXCEPT !.state = "needs_attention"]
                   ELSE queue[i]]
    /\ UNCHANGED <<authorityVars, connected, granted, executed, receipts>>

(* reportRunnerOutcome with an outcome other than completed: the daemon     *)
(* strands what the session had claimed, whether or not it had started and  *)
(* whether or not the session still lives.                                  *)
ReportRunnerOutcome(s) ==
    /\ queue' = [i \in Items |->
                   IF queue[i].state = "claimed" /\ queue[i].holder = s
                   THEN [queue[i] EXCEPT !.state = "needs_attention",
                                         !.token = None, !.expires = Floor]
                   ELSE queue[i]]
    /\ UNCHANGED <<authorityVars, connected, granted, executed, receipts>>

RevokeOauthConnection(c) ==
    /\ connected' = connected \ {c}
    /\ UNCHANGED <<authorityVars, queue, granted, executed, receipts>>

SessionStep == AuthorityNext /\ UNCHANGED queueVars

Tick ==
    /\ queue' = [i \in Items |-> [queue[i] EXCEPT !.notBefore = Nearer(@),
                                                  !.expires = Nearer(@)]]
    /\ UNCHANGED <<authorityVars, connected, granted, executed, receipts>>

Init ==
    /\ AuthorityInit
    /\ connected = Connections
    /\ queue = [i \in Items |-> EmptyRow]
    /\ granted = {}
    /\ executed = {}
    /\ receipts = {}

Claim(h) ==
    \E c \in ClaimIds, t \in Tokens, o \in Offsets :
        \/ ClaimReplay(h, c, t, o)
        \/ \E withheld \in SUBSET Items :
              ClaimNext(h, c, t, withheld, o) \/ ClaimNothing(h, c, withheld, o)

UseLease(h) ==
    \E p \in granted :
        \/ \E o \in Offsets : \/ RenewAgentLease(h, p, o)
                              \/ MarkAgentExecutionStarted(h, p, o)
        \/ \E r \in Results : \/ \E o \in Offsets : CompleteAgentWork(h, p, r, o)
                              \/ CompleteReplay(h, p, r)

Next ==
    \/ \E i \in Items : EnqueueAgentWork(i)
    \/ \E h \in Holders : Claim(h) \/ UseLease(h)
    \/ \E s \in Sessions : ReportRunnerOutcome(s)
    \/ \E c \in Connections : RevokeOauthConnection(c)
    \/ SessionStep
    \/ Tick

Spec == Init /\ [][Next]_vars

(* Time passes, and while a credential lives some client keeps calling      *)
(* agent_next with an honest clock, as an attended client or a harness that *)
(* waits for more work does.  Nothing makes a holder renew, start or finish *)
(* what it has claimed.                                                     *)
Poll ==
    \E h \in Holders, c \in ClaimIds, t \in Tokens :
        ClaimNext(h, c, t, {}, 0) \/ ClaimNothing(h, c, {}, 0)

FairSpec == Spec /\ WF_vars(Tick) /\ WF_vars(Poll)

(* Under the local runner nobody claims until the daemon starts a harness,  *)
(* and on its own checks it starts one only for an agent whose reported     *)
(* depth is not zero (daemon.rs, apply_depth).                              *)
RunnerPoll == QueueDepth(0) > 0 /\ Poll

RunnerSpec == Spec /\ WF_vars(Tick) /\ WF_vars(RunnerPoll)

-----------------------------------------------------------------------------
(* Safety. *)

Settled == {"completed", "needs_attention", "dead_letter"}

(* Work that may have reached the outside world is never handed out again:  *)
(* once one claim of a row was told to start, that claim is its last, so no *)
(* row starts in two of its claims (runner-queue-contract.md, section 4).   *)
ExecutedAtMostOnce ==
    \A e \in executed : /\ queue[e[1]].generation = e[2]
                        /\ queue[e[1]].state # "pending"

(* Concurrent claimers yield one lease: two proofs ever returned for the    *)
(* same claim of a row are the same proof, whoever asked and however often. *)
OneLeasePerGeneration ==
    \A p, q \in granted :
        p.item = q.item /\ p.generation = q.generation => p = q

(* A completion that was acknowledged stands: the row keeps the result of   *)
(* the claim that reported it, and no caller is told of another one.        *)
AcknowledgedCompletionStands ==
    \A e \in receipts : /\ queue[e[1]].state = "completed"
                        /\ queue[e[1]].generation = e[2]
                        /\ queue[e[1]].result = e[3]

(* A claim id names one lease of its holder, so a lost response can be      *)
(* replayed without the caller being given a second row for it.             *)
ClaimIdNamesOneLease ==
    \A i, j \in Items :
        /\ queue[i].state = "claimed"
        /\ queue[j].state = "claimed"
        /\ queue[i].claimId = queue[j].claimId
        /\ queue[i].holder = queue[j].holder
        => i = j

(* Every claim is counted and none is made after the last one allowed; a    *)
(* row is given up as dead only when all of them were lost before starting. *)
AttemptsBounded ==
    \A i \in Items :
        /\ queue[i].attempts = queue[i].generation
        /\ queue[i].attempts <= MaxAttempts
        /\ queue[i].state = "dead_letter" =>
              /\ queue[i].attempts = MaxAttempts
              /\ \A n \in 1 .. MaxAttempts : <<i, n>> \notin executed

(* What is settled stays settled: neither a late holder nor a new claim     *)
(* reopens a row whose outcome was recorded or left to a person.            *)
SettledIsFinal ==
    [][\A i \in Items : queue[i].state \in Settled =>
          /\ queue'[i].state = queue[i].state
          /\ queue'[i].generation = queue[i].generation
          /\ queue'[i].result = queue[i].result]_vars

(* A lease that no caller's clock can have seen run out is ended only by    *)
(* its holder's completion or by the daemon's report, never by a rival.     *)
LeaseHonoured ==
    [][\A i \in Items :
          queue[i].state = "claimed" /\ queue[i].expires > MaxSkew =>
              /\ queue'[i].generation = queue[i].generation
              /\ queue'[i].state \in {"claimed", "completed", "needs_attention"}]_vars

-----------------------------------------------------------------------------
(* Why the safety properties hold: the columns of a row agree with its      *)
(* state, and the history with the columns.                                 *)

RowConsistent(row) ==
    /\ row.attempts = row.generation
    /\ row.attempts <= MaxAttempts
    /\ row.state = "absent" => row.attempts = 0 /\ ~row.started
    /\ row.state = "pending" =>
          /\ row.attempts < MaxAttempts
          /\ ~row.started
          /\ row.result = None
    /\ row.state = "claimed" =>
          /\ row.attempts >= 1
          /\ row.holder # None
          /\ row.claimId # None
          /\ row.token # None
          /\ row.result = None
    /\ row.state = "completed" <=> row.result # None
    /\ row.state = "dead_letter" => row.attempts = MaxAttempts /\ ~row.started

(* A proof in circulation is of the current claim of its row or of an       *)
(* earlier one, and of the current one only if it is its very proof.        *)
GrantConsistent(p) ==
    /\ p.generation <= queue[p.item].generation
    /\ queue[p.item].state = "claimed" /\ p.generation = queue[p.item].generation
          => p = ProofOf(p.item, queue[p.item])

ExecutionConsistent(e) ==
    /\ queue[e[1]].generation = e[2]
    /\ queue[e[1]].started
    /\ queue[e[1]].state \notin {"absent", "pending"}

LeaseInvariant ==
    /\ QueueTypeOK
    /\ \A i \in Items : RowConsistent(queue[i])
    /\ \A p \in granted : GrantConsistent(p)
    /\ \A e \in executed : ExecutionConsistent(e)
    /\ OneLeasePerGeneration
    /\ AcknowledgedCompletionStands
    /\ ClaimIdNamesOneLease

-----------------------------------------------------------------------------
(* The queue as a ledger of work. *)

PhaseOf(state) ==
    CASE state = "absent" -> "none"
      [] state = "pending" -> "waiting"
      [] state = "claimed" -> "held"
      [] state = "completed" -> "done"
      [] state = "needs_attention" -> "review"
      [] state = "dead_letter" -> "dead"

workOfQueue ==
    [i \in Items |-> [phase |-> PhaseOf(queue[i].state),
                      tries |-> queue[i].attempts,
                      begun |-> queue[i].started,
                      outcome |-> queue[i].result]]

Ledger == INSTANCE WorkLedger
            WITH work <- workOfQueue, MaxTries <- MaxAttempts,
                 Outcomes <- Results, NoOutcome <- None

(* The queue keeps the promise of WorkLedger: leases, credentials, clocks   *)
(* and replays never let a piece of work move in a way the contract does    *)
(* not allow.                                                               *)
ImplementsWorkLedger == Ledger!Spec

-----------------------------------------------------------------------------
(* Liveness. *)

RenewedStep ==
    \E i \in Items : /\ queue[i].state = "claimed"
                     /\ queue'[i].state = "claimed"
                     /\ queue'[i].generation = queue[i].generation
                     /\ queue'[i].expires > queue[i].expires

SomeCredentialStaysLive == <>[](\E h \in Holders : Live(h))
RenewalsStop == <>[][~RenewedStep]_vars

(* As long as somebody may claim and nobody keeps renewing, every row that  *)
(* is waiting is eventually completed, left to a person, or dead: a crashed *)
(* or silent holder cannot keep it.                                         *)
EveryItemSettles ==
    SomeCredentialStaysLive /\ RenewalsStop =>
        \A i \in Items : queue[i].state = "pending" ~> queue[i].state \in Settled

-----------------------------------------------------------------------------
(* What the runner is told to do. *)

(* The contract says a lease lost before the work started returns to        *)
(* pending; with a credential that stays live the daemon's checks would     *)
(* have to bring that about.                                                *)
LostLeaseIsReturned ==
    SomeCredentialStaysLive =>
        \A i \in Items : LeaseLost(queue[i], 0) ~> queue[i].state # "claimed"
=============================================================================
