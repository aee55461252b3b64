# Lepidy: a verification development

Lepidy is a shared workspace for people, agents and credentials. Its core is one
Durable Object per workspace (`src/cloudflare/workspace.ts`, with
`workspace-rooms.ts` and `workspace-scheduler.ts`): a single-threaded object with a
private SQLite database, one alarm, and a few hundred handlers. Around it stand a
control plane in D1, R2 for files, push and queue consumers, a local runner daemon in
Rust, and a desktop shell. This directory holds TLA+ modules of the parts of that
system where order, time and failure decide whether it is correct, the TLC runs that
check them, and TLAPS proofs about them.

Source paths below are relative to the repository root.

## 1. How the system runs, and what that means for the models

* **One thread per object.** A handler that only touches storage is atomic. A handler
  that waits for something else (a hash in WebCrypto, a fetch, a queue) lets other
  requests in, so what it read before may be stale when it goes on. A model has one
  action for every stretch of code between two such waits. Hashing of a presented
  secret at the very head of a handler, before anything is read, needs no extra step.
* **Callers bring the time.** Handlers take `now` from the request. Two requests can
  overtake each other, so "now" is not monotone; the modules say how far it may be off
  (`MaxSkew`, `Skew`, `MaxDelay`).
* **Answers get lost.** Clients retry with the same claim id, completion id or
  idempotency key; a proof handed out once may come back at any later time.
* **Crashes** lose the running handler and its memory, never a committed transaction.
  The platform calls an alarm again whose handler did not return, and the constructor
  re-arms the alarm from the table.
* **Instants are distances from the present** in `AgentQueue`, `Scheduler` and
  `ScheduledSends`: the `Tick` action brings every stored instant one unit nearer and
  keeps an instant that nobody can tell from an earlier one where it is. The state
  space is finite without a last moment, so liveness can be checked. `AuditChain` and
  `AgentSessions` need absolute time (days, versions) and bound the clock instead.

## 2. Inventory

For each component: its state, its operations, whom it meets, what is hard about it,
and what makes it correct. PROJECT.json lists the same components with their status.

| Component | State | Operations | Hard | Correct when |
|---|---|---|---|---|
| Agent work queue | `agent_queue` rows, lease columns | enqueue on mention, claim, replay, renew, mark started, complete, runner outcome, sweep at the head of a claim | several holders, lost answers, stale proofs, lapsed leases, clock skew | one lease per claim; started work never runs again; outcomes final; nothing waits for ever |
| Agent sessions and delegations | `agents`, `agent_owners`, `agent_delegations`, `agent_sessions` | start and rotate (both wait for a hash), stop, delegate, reaffirm, revoke, pause | authority withdrawn while a hash is computed; two starts; two rotations of one token | no session outlives what it was minted from; one live session; a token is spent once |
| Scheduler, outbox, alarm | `due_work`, `pending_events`, the alarm | schedule, claim, complete, defer, drain, settle, re-arm | mutations commit during a run; crash between commit and alarm; handlers that always throw | the alarm covers every deadline; nothing is forgotten; bounded repetition |
| Audit chain | `audit_events`, `audit_anchors`, purge marker | append, anchor, purge, verify | stamps that overtake; purge before or after the anchor; tampering | nothing lost; the chain verifies; no anchor seals an altered entry |
| Scheduled messages | `scheduled_messages`, receipts, one shared deadline | schedule, edit, move, cancel, deliver | crash between post and settle; edits during a run; one deadline for many rows | posted at most once, only with authority; the author is told the truth; everything settles |
| Mutation pipeline | `idempotency_keys`, outbox, replay log | `commitMutation` | retries, receipts that expire | a request takes effect once |
| Rooms, messages, read state, drafts | `channels`, `messages`, `read_states`, `drafts` | send, edit, delete, react, mark read, save draft | concurrent devices, monotone cursors, revisions | sequence without gaps; cursors never go back; no lost update |
| Live sockets and replay | `replay_events`, sockets | attach, resume, broadcast, close on revocation | resumption after a gap; visibility changes between event and delivery | every event a member may see, in order, and none other |
| Membership projection | `members`, control operations in D1 | apply, change, replay | versions late, twice or out of order; control plane and object commit separately | the newest version wins; older authority ends with it |
| Vault | credentials, grants, approvals, proxy requests, freeze | request, approve, expire, release, proxy, recover | waits between check and release; uncertain outcomes; shared expiry deadline | a release is authorised at its moment and recorded once; an uncertain request is not repeated |
| MCP OAuth | codes, refresh-token families, consents | authorize, exchange, refresh, revoke | races of refreshes, reuse after rotation | one live token per family, none after reuse |
| Solo host | host lease, epoch, staged upgrade | designate, renew, relay, upgrade | a host that lost its lease still writes | one writer per epoch; an upgrade moves everything or nothing |
| Files and quota | uploads, objects in R2, reservations | reserve, confirm, abandon, reclaim | two stores, either of which may fail | quota counts what is stored; no row names a deleted object |
| Tenant lifecycle | deletion request, grace, purge cursor | request, cancel, export, purge | steps that can each fail, cancellation races | nothing purged before the grace ends; purge finishes |
| Runner socket, wakes, daemon | sockets, `runner_wakes`, process table | register, wake, depth, launch, report, stop | lost wakes, reconnects, two machines | work that waits starts a harness; a stop stops it |
| Cloud runtimes | deliveries, attempts | wake, retry, reconcile | answers that do not come | bounded retries, no double start |
| Onboarding, control plane, billing | D1 tables | create, join, recover, webhooks | transactions across stores, replayed webhooks | exactly one effect per event |
| Desktop shell, CLI, web application, pure rules | local files, view state | - | operating-system I/O, rendering, parsing | covered by unit tests |

How they meet: every mutation goes through `commitMutation`, which writes the change,
its audit entry, its outbox events and its replay events in one transaction and then
arms the alarm. The alarm serves all deadlines (retention, anchors, reclamation,
scheduled messages, approvals, outbox). The queue asks sessions, delegations and
membership for authority at every call; revoking any of these ends sessions, and an
ended session's leases are honoured no more.

## 3. Modules

| Module | Models | Role |
|---|---|---|
| `SessionAuthority` | phases of an agent's sessions | abstract specification; `AgentQueue` extends it, `AgentSessions` implements it |
| `AgentQueue` | `agent_queue` and its handlers | detailed |
| `WorkLedger` | the runner queue contract, sections 3 and 4 | abstract specification `AgentQueue` implements |
| `AgentSessions` | owners, memberships, delegations, sessions | detailed |
| `Scheduler` | `due_work`, outbox, alarm | detailed |
| `ScheduledSends` | scheduled messages over one deadline | detailed; takes from `Scheduler` that a due row is served |
| `AuditChain` | audit entries, anchors, purge | detailed |
| `VaultCustody`, `Vault` | credentials, wraps and keys; grants, cards, switches, releases, proxied requests | `Vault` extends `VaultCustody` and composes with each of its operations what that operation does to grants, cards and requests |
| `Membership` | invitations and memberships of the control plane and their projection | the people every module below asks for |
| `OauthTokens`, `Accounts` | MCP connections; one account's sessions, devices, challenges, recovery package | extend `Membership` |
| `Rooms`, `Live` | rooms and what members keep of them; what open tabs hear | `Rooms` extends `Membership`, `Live` adds to each operation of `Rooms` what it writes to the replay log and sends |
| `Billing`, `Storage`, `Tenancy` | what was bought; files and quota; export and end of a workspace | `Storage` extends `Billing`, `Tenancy` extends `Storage` and `Rooms` |
| `Workspace` | the composition of the seven above | one `Next`, a scenario says which parts take steps |
| `Runners` | the registry of machines, wakes and sockets, and the daemon's loop | detailed, two-sided |
| `Runtimes` | agents that run elsewhere: deliveries, proofs, runs, sessions, events | detailed |
| `SoloHost` | host leases, routed frames, the machine's store, the upgrade | detailed |
| `Pushes` | outbox entries that wake browsers, and the browsers | detailed |
| `AgentWrites` | writes of MCP clients and agent sessions | detailed |
| `Executors` | the composition of the five above | one of them is exercised in a behaviour |
| `...Proofs` | | theorems about the module of that name (section 7) |
| `MC...` | | values for constants that a .cfg cannot write, and symmetry |

Modules of proofs exist for `AgentQueue`, `AgentSessions`, `Scheduler`, `Vault` and
`Executors` with the five modules it composes; `AlarmWorkProofs` is about `AuditChain` and `ScheduledSends`, `ControlPlaneProofs` about
`Membership`, `OauthTokens`, `Accounts` and `Billing` each by itself, and `WorkspaceProofs`
about them in `Workspace`.

### AgentQueue

`queue[i]` is a row of `agent_queue`; `connected` the OAuth connections that are not
revoked; `active` and `session` come from `SessionAuthority`. `granted`, `executed`
and `receipts` are history: every lease proof ever returned (so a delayed, repeated or
stolen call is a choice of `p \in granted`), every leave to start, every acknowledged
completion.

| Action | Code |
|---|---|
| `EnqueueAgentWork` | `enqueueAgentWork`, insert-or-ignore on (agent, message) |
| `ClaimReplay`, `ClaimNext`, `ClaimNothing` | the three outcomes of `claimAgentWork`, each with the sweep `expireAgentClaims` that precedes it |
| `RenewAgentLease`, `MarkAgentExecutionStarted`, `CompleteAgentWork`, `CompleteReplay` | the handlers of these names, under `authorizeAgentLease` |
| `ReportRunnerOutcome` | `reportRunnerOutcome` when the run did not complete |
| `RevokeOauthConnection`, `SessionStep` | credentials that end |
| `Tick` | time, the only step that is not a call |

Left out: `read_at` and the text of a row. Which rows a claim must withhold (deleted
message, room not visible, delegation not covering the room) is decided by rooms, so
the set is chosen freely at each claim. The columns `lease_connection_id`,
`lease_agent_session_id` and `lease_session_id` are one holder.

### AgentSessions

`active`, `owners`, `members`, `delegations` and `sessions` are the tables; `starts`
and `rotations` the calls that wait for a hash, with what they read before it; `grants`
the history of rotated tokens. `BeginStart`/`FinishStart` and
`BeginRotate`/`FinishRotate` are `startAgentSession` and `rotateAgentSessionToken` cut
at that wait, and `DropCall` is a call refused after the wait or lost. All other actions
are one transaction. A session's `token` counts rotations, which is all that comparing
token hashes decides.

Left out: the device a session is started for (module `Runners`), capabilities, room
scope and spend caps of a delegation. A call waits at most `MaxDelay` for its hash;
`Tick` is held back until then.

### Scheduler

`due` is `due_work`, `events` is `pending_events`, `alarm` the object's alarm, `run`
the alarm handler in progress with the copies it claimed, `up` whether an instance
exists. `AlarmFires` is the head of `runDueWork`; `RunRecurring` one recurring item
that returns or throws; `BeginDrain`, `Dispatch`, `SettleOutbox`, `EndDrain` are
`drainOutbox` cut at its waits; `Continue` is the end of an item and, after the last,
the re-arming. `Post` is `commitMutation` with an outbox event, `PostThenCrash` the
same with the instance lost before `setAlarm`. `Crash` and `Start` are eviction and
the constructor.

Left out: the batch limit of 32 deadlines (there are fewer kinds), retention of
delivered events, the order in which a run serves its items (any order is allowed, a
superset of the code's).

### ScheduledSends

`messages` are the rows, `deadline` the shared `due_work` row, `receipts` the
idempotency keys of the sends, `standing` whether author and room allow a send, `run`
the delivery. A member's call may come between the claim of the row and the delivery
(items served earlier wait), and a crash between any two steps of it. `SendsTick` does not
let a due row wait longer than `MaxLag`: that the alarm covers every row is what
`AlarmCoversAll` of `Scheduler` establishes.

### AuditChain

`stored` is `audit_events`, `purged` and `purgedHash` the marker of the last purge,
`anchors` is `audit_anchors`. `AppendAuditEntry`, `WriteAuditAnchor` and
`PurgeExpiredAudit` are the operations; the delete trigger lets go exactly what the
purge released before. `Alter` is an edit of the table from outside, which the
chain exists to reveal. The hash is an operator parameter, instantiated by the tuple
of what it covers.

### VaultCustody and Vault

The value never reaches the server: `vault[c]` is the version, the policy epoch and, for
every custodian, the epoch of the key its wrap was sealed to (a number above the current
one cannot occur; one below means a client that had read a key which was replaced
meanwhile). `grants`, `cards`, `proxies` are the tables of these names with what a
decision reads of them, `deadline` and `expiry` the one-shot due row all cards share and
the run that claimed it, `sealing` and `opening` the two waits there are: a proxied
request is sealed between the decision and its row, and its answer is opened between the
row and the second decision. The history `cut` and `dropped` says which grants and cards
a switch or a finished expiry run met.

Left out: the hourly ceiling, rooms and projects of a credential, hours of availability,
canaries, rotation jobs and member recovery. A refused request changes nothing, and an
answer may always be refused.

### Membership, OauthTokens, Accounts, Rooms, Live, Billing, Storage, Tenancy, Workspace

Two planes hold a member: `rows` in D1 and `local` in the object. A change of a member
is a chain of awaits over both, which `calls[c].pc` follows: *asked* (read), *read*
(version and epoch), *recorded* (first batch), *projected* (object), and at every wait
the call may be lost (`Lose`) or another one overtake it; `Redeliver` repeats an
operation that was recorded, as a retry of the caller would. `applyMembership` is one
transaction of the object. `OauthTokens` reads `local` at each use. `Accounts` cuts every
control-plane call at each statement, because each is an await: storing a package for a
device is five steps (the device that approves, the device it is for, the recovery epoch,
an earlier package, the insert), a removal four, a fetch four, a gesture three. What a body names (epochs, keys, devices) is the client's
and is compared where the code compares it. A call that is refused ends like one that is
cut off, which changes nothing. `Rooms` is one action for
each handler of `workspace-rooms.ts` and of the messages in `workspace.ts`; texts are
dropped, a message is whom it names. `Live` wraps those actions: an operation of `Rooms`
together with the rows it writes to `replay_events` and the frames it puts on open
sockets. `Billing` follows an event of the provider through its receipt, its version
check and the projection of the allowance, which is a second chain of awaits. `Storage`
cuts a transfer through the Worker at the object, the bucket and the object again.
`Tenancy` runs the purge stage by stage and the export chunk by chunk.

The purge of `members` is represented by the stage record: nobody asks for a member
after the purge has started. The stages of vault, audit and routing have no rows in this
module. An export covers rooms and messages. One tick is the deletion window and the
life of an export.

### Runners, Runtimes, SoloHost, Pushes, AgentWrites, Executors

`Runners` has both ends: `devices`, `agent_runners` and `runner_wakes` in the object and,
for each run of the daemon, its socket, its queue of frames, its sessions and harnesses.
`Runtimes` has the deliveries of mentions, the configurations with their proofs and
webhook routes, and the provider's side as external state (sessions that were made,
events that were said). `SoloHost` has the object's lease and epoch and, per machine,
`LocalContentStore` with its request log. `Pushes` has subscriptions in the object, the
session each browser has, and what the push service took. `AgentWrites` follows a call
from the Worker's authentication through `assertSessionChannel` to the write, with
everything it rests on free to change in between, and the sliding windows the write is
counted in. Provider, bucket, push service and browsers are external: modelled from how
the code uses them.

## 4. Runs

All runs finish; "violation" runs exhibit a disagreement between the code and a
sentence in the repository (section 6). PROJECT.json has a sentence for each run, and for
each property a mutant of the code that the run finds.

| Run | Instance | Checks |
|---|---|---|
| `queue_fencing` | 2 sessions, 1 connection, 1 row, 2 claim ids, 2 secrets, 3 claims, skew 1 | fencing: `ExecutedAtMostOnce`, `AcknowledgedCompletionStands`, `LeaseHonoured`, and the inductive `LeaseInvariant` |
| `queue_pair` | 1 session, 1 connection, 2 rows, 2 claims each | `ClaimIdNamesOneLease`, refinement of `WorkLedger`, `EveryItemSettles` |
| `queue_stranded` | 1 session, 1 connection, 1 row | violation: `LostLeaseIsReturned` |
| `agent_sessions` | 2 members, 1 delegation, 2 sessions, 1 start and 2 rotations waiting | `AuthorityHolds`, `TokenSpentOnce`, refinement of `SessionAuthority` |
| `scheduler` | 2 events, 1 recurring work, batches of 1, 2 tries, 1 crash, runs of 1 unit | `RunInvariant`, `AlarmCoversAll`, `NoCatchUpBurst`, `WorkComesRound` |
| `scheduled_sends` | 2 messages, 3 bodies, batches of 2, 1 crash, edits of body and time | `OutcomeIsTrue`, `EveryMessageSettles` |
| `sends_deadline` | 2 messages | violation: `DeadlineCoversSends` |
| `audit_chain` | 3 entries, skew 1, 1 alteration, 4 days of 2 units, retention of 2 days, a verification reads 2 entries | `NothingLost`, `ChainVerifies`, `PurgedWasAnchored`, `AnchorsStand` |
| `audit_clock` | 4 entries | violation: `UntouchedVerifies` |
| `vault` | 2 members, 2 credentials, 2 keys, in 6 budgets | `CustodyHolds`, `GrantsAreCurrent`, `AnswersStand`, `UsedOnce` |
| `workspace` | 1 to 3 members, 2 calls, 1 account with 2 devices, up to 2 rooms, 1 tab, 2 files, in 37 scenarios | `ProjectionIsNewest`, `PlanesAgree`, `AccountsHold`, `ConnectionsStand`, `NoticesAgree`, `MembersKeepTheirPlace`, `DeliveryHolds`, `BillingHolds`, `StorageHolds`, `TenancyHolds` |
| `executors` | 3 daemon runs on 2 machines; 2 agents of 1 or 2 provider pairs; 2 Solo hosts; 2 browsers of 2 people; 4 calls of clients | `RunnersHold`, `WorkIsNoticed`, `RuntimesHold`, `SoloHolds`, `PushesHold`, `AgentWritesHold` |

**Why the bounds are enough.** A race in the queue needs two holders and one row; a
third kind of holder (the connection) takes the other branch of every authority check.
Three claims exercise first, middle and last, each with its own backoff. `queue_pair`
adds what only two rows can show (order, two leases under one claim id). The scheduler
needs two events so that one can be committed while the other is in flight, batches of
one so that a drain leaves something behind, and a run that lasts into the next unit;
the recurring period is longer than a run, as it is in the code by orders of magnitude.
Scheduled messages need two rows for the shared deadline, and a crash at each step of
the delivery of one. The audit instance covers an entry per day with one before and
one after a midnight, and two full retention periods. For sessions, one replaced by
another while a start and two rotations of one token wait, two owners either of whom
may go, and one projection of each member; of two starts at once only the proof speaks.

`vault`, `workspace` and `executors` take a union of small instances in place of the
product of everything: the initial state chooses a budget, scenario or setup, and each is
large in what it is about. For the vault: a card for two credentials answered in one,
two cards that share the deadline, custody alone with three changes, switches over a
grant, two proxied requests that share a grant, and one that needs none. For the
workspace: two overlapping membership calls from each founding situation, with lost and
repeated deliveries; each part of an account by itself, the recovery package once with
rotations the client asks for and once with fetches, where the epoch moves by removals
alone; two or three steps in one room of each kind; a tab that breaks twice, or misses two
of three rows that are swept; two events of the provider with three webhooks and
two projections in two seconds; two files with two transfers, a sweep and one fault; a
deletion with all of its stages, called off and asked for again; an export with a second
reading of one chunk. For the executors: each kind of proof, run, push and write with
the changes that may cross it. Two of a kind are enough wherever a property compares
two; where it is about order, three steps of the parties are.
`CHECK_DEADLOCK FALSE` stands only where a behaviour really may stop (every row is
settled; every id is used; the scenario's steps are taken; the bounded clock has run
out).

## 5. Fairness

* `AgentQueue`: weak fairness of `Tick` (time passes) and of `Poll`, an honest client
  that keeps claiming while some credential lives, as an attended client or a harness
  waiting for more work does. Nothing makes a holder renew, start or finish. The
  liveness property assumes that some credential stays live and that renewals stop,
  because a holder that renews for ever keeps its row by design.
* `AgentQueue!RunnerSpec`: the same, but a claim is caused only by the daemon's depth
  check (`apply_depth` in `daemon.rs`).
* `Scheduler`: `Tick`; `StartForAlarm` and `AlarmFires`, because the platform
  instantiates the object to deliver a due alarm and repeats an alarm whose handler
  failed; `RunStep`, because whatever a handler waits for answers or times out.
* `ScheduledSends`: `SendsTick` and `RunStep`, for the same reasons.
* `Runners` (and through it `Executors`): the daemon's own loop, which reconnects, reads
  its frames, sees a close, polls the depth and lets its sessions and harnesses go on.
  Nothing is assumed of the workspace's calls, of networks or of the machine's owner.

No property relies on strong fairness.

## 6. Where the code and the repository's own words disagree

Runs that exhibit it:

* `queue_stranded`: the contract says a lease lost before the start returns to pending
  after a backoff (`docs/runner-queue-contract.md:41`). Only a claim sweeps lapsed
  leases, and the depth that decides whether the daemon claims does not count them.
* `sends_deadline`: the run that ends for one scheduled message deletes the deadline
  that it had just re-armed for the next (`workspace.ts:12682` after `4878`). A message
  that is moved further ahead is lost the same way, by the run that starts at its old
  time. `EveryMessageSettles` therefore assumes that no run leaves a message behind.
* `audit_clock`: stamps that overtake each other leave an untouched chain that never
  verifies, so the workspace is never anchored nor purged again.

Observed while modelling, and part of the models' behaviours; properties are stated so
that they hold beside them, with a history variable that marks where one has happened.

*Scheduled messages, audit.* A message posted by a run that crashed before settling it
can be moved beyond the life of its receipt and is posted again (`OutcomeIsTrue` says
what holds: at most once while it is not moved). A body that addresses the whole room is
accepted when scheduled and always refused when sent. Verification reads the first 1000
stored entries, so the anchor of a later day seals entries nobody verified; `AnchorsStand`
is stated for chains in order or within what one verification reads.

*Membership and accounts.* Nothing retries a control operation whose delivery failed,
although `identity-tenant-contract.md:64` says it "remains pending and is retried". An
epoch is used again after a lost promotion, and a later demotion then leaves the old role
in force until it is projected; the second batch of an overlapping promotion overwrites a
demotion; `workspaces.membership_version` can go backwards, after which
UNIQUE(member, version) refuses. Seat checks are check-then-act. A revoked invitation can
still be accepted by a call that had read it, and a removed member who is invited again
can never accept. A lost change that changes nothing locks a sole owner out. A passkey's
sign count can be stored backwards; a device removal revokes the device even where the
vault epoch moved and the call throws; `storeDevicePackage` reads the device (`vault-recovery.ts:99`) and the
recovery epoch (100) in two statements, and the package's epoch comes from the body: a
request sent ahead of a removal, which names the epoch that the removal will make, is
stored for the removed device when the removal commits between the two. The device is
refused afterwards (197), except a fetch that had read it as active before; the comment
at 144 promises that it is never able to open what is current. `AccountsHold` says that
this is the only way: its last conjunct exempts packages that were `ahead`, and TLC
refutes it in eleven steps without the exemption. Two refreshes of one OAuth token that wait for
their hashes at the same time both succeed (`workspace-rooms.ts:2047`); closing a
member's sockets (`workspace.ts:1671`) does not close runner sockets.

*Rooms.* Replies in a private item's thread are notified and shown to members who may not
read the item; the socket form of `thread_read` does not check that the item is readable,
and neither does `renderNotification`. A room's creator may read a private item but is not
among those whose notification copy names it; a demoted owner keeps the copies. Forwarding
neither checks the form mode nor tells anybody. A device without a base revision
overwrites another one's draft, a cleared draft starts again at revision 1, and sending
clears the draft of every device (`workspace.ts:4606`).

*Live* (`HLD.md:354`: "no silent gaps"). When every replay row was purged an old cursor is
not answered by a reset; a vault card is broadcast with its number in the room in place of
a replay sequence, and writes no row; room and queue changes are written but not
broadcast; taking a reaction or a pin away broadcasts the latest sequence without a row;
the reset frame carries no sequence, and the attachment's cursor is never read.

*Billing, files, tenant.* The version of the allowance is not monotone; of two events of
one second the second is recorded as applied without effect; an event of a superseded
subscription can cancel the new one; the check before a downgrade is stale when the event
arrives. `reclaimStorage` and the purge mark rows as reclaimed whose object was not
deleted (comments at 11580 and 11490 say otherwise); the Worker deletes the bytes of a
stored file when the answer of the confirmation is lost; a late confirmation can exceed
the quota. `restoreFromExport` never compares a line with its chunk's hash (comment
11204), `recordExportChunk` returns the digest of what was sent when another one was
recorded, and an export taken while members write is no snapshot: a message whose room is
newer than the rooms' chunk aborts the restore as a whole. `requireNotDeleting` is asked
only in `authorizeActor`. Purge, restore and the billing reconciliation have no caller in
the product.

*Runners.* A superseded daemon keeps polling the depth and starting sessions (comment
11856); an agent that is paused and resumed stays refused by the daemon's local stop until
it reconnects; a session survives the registration of another device; rows that need
attention, which no claim can take, keep the depth above nought (`workspace.ts:11916` says
it counts what "a runner could actually claim right now"). The depth check of a daemon
does not ask the local start policy, so a poll starts a process for work that a mention
may not start (comments 5622, 12133). A preset is confirmed by an edit made before the
question but registered after it (`runtime-config.ts:113`).

*Runtimes.* A stale proof can mark a new configuration proved, a stale schedule answer
attaches a deployment to a newer configuration, and failures are counted across a
reconfiguration. A run whose agent left the provider makes every reconciliation throw and
blocks the others. Lost answers duplicate sessions at the provider. Of two agents of one
provider pair only one is found by a webhook. A new custom configuration leaves the old
webhook route alive. An entry that dies leaves its run queued for ever.

*Pushes.* A push for a card that was answered meanwhile is still sent, and the worker shows
a generic line (comments 2950, 12955). A dispatch that has read the browsers still wakes
one whose member has left. An expired endpoint is deleted whoever has it by then, and a
late subscription of a browser's former user attaches it to them again.

*Writes through MCP.* `submit_form` and `set_item_status` of an agent's session carry no
attribution and no limit, and what the session may do is asked only in an earlier call. A
retry of a write that succeeded is refused when the room was archived or a canary planted
meanwhile. Stamps of calls that are late allow up to twice the limit less one close
together.

*Solo.* `import_snapshot` replaces the rows and keeps the request log, so a retried request
is acknowledged although its message is gone; a new host's store accepts writes of the old
epoch until it learns the new one, and the old host's store is never fenced locally
(`free-local-workspace-contract.md:63`: "fencing the former host immediately" holds at the
relay only); what is written between export and finalisation stays behind. Only tests call
these methods.

## 7. Proofs

Each theorem is about the specification TLC checks, for every value of the constants
that its module's assumption allows. Where an invariant is not inductive, the
strengthening is named after the module; TLC has found no counterexample to it on the
module's run.

`AgentQueueProofs` (assumption `QueueAssumption`: any sets of sessions, connections,
rows, claim ids, secrets and results, any number of claims, any backoff, lease time and
skew):

* `LeaseCorrect`: `Spec => []LeaseInvariant`. None of the safety properties of the
  queue is inductive by itself. That started work is never handed out again needs the
  row of every executed claim to be still marked as started; that nobody completes with
  a stale proof needs every proof in circulation to be of an earlier claim or the very
  proof of the current one; and both need the columns of a row to agree with its
  state. `LeaseInvariant` is the conjunction of these. It is preserved action by action;
  the sweep at the head of a claim is a lemma of its own.
* `AtMostOnce`, `CompletionStands`, `ClaimIdUnique` and others follow from it, and the
  action property `LeaseIsHonoured`.
* `QueueImplementsLedger`: every behaviour of the queue is one of `WorkLedger`. A claim
  moves many rows at once, each by one step of the ledger.

`AgentSessionsProofs` (`SessionsAssumption`: any members, delegations, sessions and
waiting calls, any lifetimes, delay and bounds):

* `AuthorityCorrect`: `Spec => []AuthorityHolds`. The invariant is inductive, but only as
  a whole: an authority that a session names is live because every owner step that
  withdraws one also revokes what stands on it. Most steps only withdraw, and the lemma
  `Withdrawal` says once what such a step must revoke; the two steps that grant (a
  delegation written, a session started) have lemmas of their own, which use the re-read
  of the row after the hash.
* `SpentOnce`: `Spec => []TokenSpentOnce`. The history of grants is in order, and a
  rotation succeeds only for the token in force, so no token is rotated twice.
* `SessionsImplementAuthority`: every behaviour is one of `SessionAuthority`. A start
  ends the agent's former session and opens another in the same step; the mapping takes
  the phase of each row, so it is one step of the abstract specification.

`AlarmWorkProofs` (`AuditAssumption`: any payloads, any hash, any retention, skew and
verification limit, chains of any length; `SendsAssumption`: any bodies, finitely many
messages, any batch and any number of crashes, and a due row that is served sooner than a
receipt lapses):

* `ChainIsWhole`: `Spec => []NothingLost`; `RetentionIsAnchored`:
  `Spec => []PurgedWasAnchored`. The two need each other: a purge leaves a whole chain
  because it releases up to an entry that is stored, and a day anchored again still
  covers the purge because its new anchor ends at a stored entry. `ChainInvariant` adds
  the shape of the tables and that every hash is that of the entry as it was appended.
* `IntactChainVerifies`: `Spec => []ChainVerifies`, from the same invariant.
* `AnchorsHeld`: `Spec => AnchorsStand`, an invariant and an action property, if no two
  payloads of an entry have the same hash (`CollisionFree`). A verification reads the
  links between neighbours, the anchors speak of whole days. That a sequence in
  order link by link is in order as a whole (`OrderedApart`) is shown by a least
  counterexample. `AnchorInvariant` adds the shape of an anchor, that what is anchored is
  in order wherever a verification reads everything (`AnchorsRead`), and, where no entry
  came late, that days follow one another and the anchor of yesterday is what it would be
  if it were written again (`DaysFollow`, `YesterdaySealed`).
* `SendsAreTrue`: `SendsSpec => OutcomeIsTrue`. What no state of the property says is why a
  message that was posted, and whose run then crashed, is not posted again: its receipt
  has to be there at the next delivery, and that delivery has to take it. `ReceiptsOutlast`
  says so: it is among the first of the batch as long as it waits, because what is
  scheduled later is not due before it, and its receipt has longer to live than the row
  can still be late.

`SchedulerProofs` (`SchedulerAssumption`: any events and recurring work, any instants,
batch, tries and crashes):

* `RunsHold`: `Spec => []RunInvariant`, `AlarmIsEnough`: `Spec => []AlarmCoversAll`.
  `AlarmCoversAll` speaks of an object at rest, so it says nothing in the middle of a
  run. `SchedulerInvariant` says what a run owes: what it still has to do was due when it
  began (`TodoIsDue`), an event that is undelivered has a row or the drain that will
  write one (`EventsCovered`), and the alarm covers every row that the run will not look
  at again (`AlarmCoversRows`). That re-arming picks the earliest instant uses that a
  finite set of instants has one.
* `NoBurst`: the action property `NoCatchUpBurst`, from `TodoIsDue`.

`ExecutorsProofs` (the assumptions of the modules `Executors` composes: any machines,
agents, runs, browsers, events and calls, any bounds on them) proves all the safety
properties the run `executors` checks. The parts have variables of their own, so a step
of one leaves the invariant of another alone (`PartsMoveAlone`), and each has an
invariant of its own:

* `SoloHeld`: `Spec => []SoloHolds`. That frames arrive in order follows from the sequence
  the object keeps for every host, and that two hosts never both hold a lease from the
  lease it keeps. `SoloInvariant` adds these (`FramesBehind`, `LeaseGranted`).
* `PushesAreKept`: `Spec => []PushesHold`. That a browser is woken once says nothing of a
  dispatch that is half done. `PushInvariant` says what the drain has achieved for the
  entry it holds (`DispatchTrue`: it takes a push for sent only where one was, and has been
  to nobody it has yet to go to), and that an entry that waits to be tried reached nobody
  (`PushedOnce`), wherever no answer of the push service was lost, which the history
  `unsure` records.
* `WritesAreKept`: `Spec => AgentWritesHold`, an invariant and an action property.
  `BudgetKept` compares any two messages of a bucket, the window that is open only counts
  the last ones: `WindowsCount` relates the two, for every message, by how many messages
  of its bucket came after it. With it, a message that opens a window is a whole window
  after the message that many before it, up to the time a call can be late.
* `RunnersAreKept`: `Spec => []RunnersHold`. `StopsReach` speaks of a machine that no longer
  answers. `RunnersInvariant` says, of every daemon that may still work, that its machine
  is the one that answers, or that a stop is in its mail in an order in which nothing that
  follows undoes it, or went to a connection that was gone (`MailInOrder`, `StopComes`).
* `RuntimesAreKept`: `Spec => []RuntimesHold`. The workspace and the provider are joined by
  calls that wait. `RuntimesInvariant` says what such a call may rely on: what was read of
  a configuration was true of it once, and still is if it was not replaced (`ProofsStand`);
  a run in hand has no session yet, and a session that was made is a run's, or about to be
  (`FlightTrue`, `SessionsKnown`); an event in hand was said by a session that exists
  (`EventsKnown`); and an event that was dealt with left its run where the provider was, as
  long as no later one was said (`DealtRunsFollow`).

`VaultProofs` (`VaultAssumption` and those of `VaultCustody`; finitely many credentials,
and `None` neither a value nor an answer):

* `CustodyIsHeld`, `GrantsCurrent`, `AnswersHold`, `UsesHold`: the four properties the
  run `vault` checks. What they lack is the link between a card and the switches: while a
  card waits, the people whose answers count are managers of the very policy epoch it was
  raised in, so a switch that changes the epoch must have dropped it. `VaultInvariant`
  states that per table (`GrantsOK`, `CardsOK`, `DeadlineOK`, `ProxiesOK`, `CallsOK`), with
  the arithmetic that makes a grant single-use: uses and remaining uses add up to at most
  one.

`WorkspaceProofs` (the assumptions of the modules it composes, where no founding, no scenario
and no number of people, invitations, devices, connections, events, webhooks or buyers is
fixed) rests on `ControlPlaneProofs`, where each component's step lemmas stand by
themselves; it adds that the parts of the composition that are not meant leave its tables
alone.

* `MembersAgree`: `Spec => []ProjectionIsNewest`. `MembersInvariant` says what a call in flight
  knows: the operation it recorded is one of the operations, an id names one operation,
  and what the object holds it took from one (`LocalIsTaken`, `LocalIsLast`).
* `PlanesHeld`: `Spec => []PlanesAgree`, from three invariants. `OwnersKept` says which plane
  has an owner before, during and after the founding, whatever overlaps.
  `SerialInvariant` says how far an operation can have come while calls follow one
  another: what is neither under way nor lost is in both planes, what is under way is
  half written in one of three ways, and whoever is about to be admitted has a seat.
* `AccountsKept`: `Spec => []AccountsHold`. `AccountInvariant` says what an account call may still
  rely on of what it read before a wait: an epoch only grows, what was used stays used. Of
  a package on its way `StoreKnown` says: an epoch that was there when the call began is
  below that of any removal after the device was read as active, since a removal makes a
  new epoch and a removed device is never active again.
* `ConnectionsHeld`: `Spec => ConnectionsStand`, an invariant and an action property.
  `OauthInvariant` says which call is alone with a code or a pair; that a rotated token
  buys nothing more fails only where two refreshes waited at once, which the history
  `raced` records.
* `BoughtHolds`: `Spec => []BillingHolds`. `BillingInvariant` adds what a webhook holds of an
  event and a projection of the row: as long as the moments of the row advance, a moment
  names the row (`MomentsName`).
* `NoticesHeld`: `Spec => []NoticesAgree`, and `PlacesHeld`: `Spec => MembersKeepTheirPlace`.
  `RoomsInvariant` adds to the property what keeps it. A notice lets nobody in but whom
  the bucket of its item lets in and who is an owner or was one; buckets are of rooms that
  have a ranking, and the numbers of a room's messages are below the next one
  (`RoomsSound`). Nobody has read beyond the latest message (`ReadSound`): that the
  latest exists and never falls uses that a finite set of numbers has a largest one.
  Where a room's draft was never cleared, a device that shows the stored revision shows
  the text it has (`DraftsSound`). The rooms of a scenario are assumed to be what the
  operations make (`BuiltAssumption`).
* `DeliveryHeld`: `Spec => []DeliveryHolds`. What a tab will know is a matter of the mail
  under way. `LiveSound` says of every tab that no fault excuses: what a frame makes it pass
  over has reached it by then, and everything it is owed by the end of its mail
  (`MailSound`, `SeenSound`); whom a row was never hidden from sees its room still
  (`RowsSound`). An open socket is of the present epoch of its member (`AuthoritySound`)
  because `MembersChange` closes the sockets of whoever changed, and nobody comes back
  with the epoch he had: the first operation about a member has epoch one and is taken before any other
  (`EpochsKept`, an invariant of the control plane).
* `FilesHeld`: `Spec => []StorageHolds`, and `TenancyHeld`: `Spec => []TenancyHolds`. Both need
  each other's state, so one invariant carries them, in three parts, where files or the end
  of the workspace are exercised; elsewhere nothing of them ever happens (`TenantApart`).
  `StorageInvariant` says which transfer may still rely on what: whoever moves a file is
  alone with it or the file is blemished, a file that waits to be confirmed has its bytes
  (`TransferSound`), and a sweep holds only keys of deleted files (`FileSound`). That the
  files in use stay below the largest allowance counts a finite set step by step, and
  time only frees what it counts. `EndsInvariant` says what the stages that are done
  have emptied, that what they emptied stays empty while uploads, sweeps and exports go on, and
  that a call which waits to seal has nothing left to do (`PurgeSound`); calls that never
  overlapped have one receipt (`ReceiptsSound`). `ExportInvariant` follows a chunk from the
  request that read it over the record to the collector (`Bodies`): every line anywhere
  is as it was written (`LineTrue`), a request that is alone with a chunk carries what will
  be recorded (`RunSound`), and while nobody writes every body is what the chunk was when
  the export began (`Snapped`, `SteadySound`).

Only model-checked: the liveness properties (`EveryItemSettles`, `WorkComesRound`,
`EveryMessageSettles`, `WorkIsNoticed`), because fairness and ENABLED are outside the
prover. Every invariant and every action property that a passing run checks is also a
theorem. No module of this directory declares a RECURSIVE operator.

## 8. Plan

Everything section 3 names is written, and of what the runs check only liveness is not
proved. What the inventory lists as left out is left out for the reasons given there; the
parts that would be worth a model next are the drafts of threads and the limit on
sockets, which belong to `Rooms` and `Live`, and the budgets of a session of a cloud
runtime, which belong to `Runtimes`.
