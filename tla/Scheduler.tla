------------------------------ MODULE Scheduler ------------------------------
(***************************************************************************)
(* The clockwork of a workspace Durable Object: the due_work table that    *)
(* multiplexes every deadline over the object's one alarm, the             *)
(* transactional outbox (pending_events) and the alarm handler that drains *)
(* both (src/cloudflare/workspace-scheduler.ts, and runDueWork, drainOutbox*)
(* and armAlarm in workspace.ts).                                          *)
(*                                                                         *)
(* Concurrency.  The object is single-threaded, but a handler that waits   *)
(* for the outside lets other calls in: a mutation may commit between two  *)
(* deliveries of a drain and between two items of a run.  Stretches of     *)
(* code that only touch storage are one action.  A crash loses the running *)
(* handler and nothing durable; the runtime fires an alarm whose handler   *)
(* did not return again, and a new instance re-arms it from the table.     *)
(*                                                                         *)
(* Time.  Instants are distances from the present, as in AgentQueue.  A    *)
(* run keeps the "now" it started with while the present moves on.         *)
(***************************************************************************)
EXTENDS Integers, FiniteSets, FiniteSetsExt

CONSTANTS
    Recurring,          \* ids of the baseline recurring work
    Events,             \* outbox events, one per dedupe key
    Interval,           \* period of recurring work
    DueAttempts,        \* failures before a deadline is given up, 5 in the code
    DueBackoff,         \* delay after the n-th failure of a handler
    OutboxAttempts,     \* deliveries tried before an event is dead, 5 in the code
    OutboxBackoff,      \* delay after the n-th failed delivery
    BatchSize,          \* events one drain takes, 32 in the code
    MaxDelay,           \* bound: how far ahead an event may be made available
    MaxLag,             \* bound: how long one run may take
    MaxCrashes,         \* bound: crashes in a behaviour
    None                \* SQL NULL

Flush == "outbox_flush"
WorkIds == Recurring \cup {Flush}

ASSUME SchedulerAssumption ==
    /\ Flush \notin Recurring
    /\ Interval \in Nat \ {0}
    /\ DueAttempts \in Nat \ {0}
    /\ DueBackoff \in [1 .. DueAttempts - 1 -> Nat \ {0}]
    /\ OutboxAttempts \in Nat \ {0}
    /\ OutboxBackoff \in [1 .. OutboxAttempts - 1 -> Nat \ {0}]
    /\ BatchSize \in Nat \ {0}
    /\ MaxDelay \in Nat
    /\ MaxLag \in Nat /\ MaxLag < Interval
    /\ MaxCrashes \in Nat

VARIABLES
    due,                \* due_work: a row or None, by work id
    events,             \* pending_events, by event
    alarm,              \* the object's alarm, None when not set
    run,                \* the alarm handler in progress
    up,                 \* an instance of the object exists
    crashes,            \* crashes so far
    dispatched          \* history: times an event was handed to its consumer

vars == <<due, events, alarm, run, up, crashes, dispatched>>

-----------------------------------------------------------------------------
(* Types. *)

Statuses == {"absent", "pending", "delivered", "dead"}
Outcomes == {"delivered", "retry", "permanent"}

EventRows == [status : Statuses, attempts : Nat, nextAt : Int]
WorkRows == [at : Int, attempts : Nat]

(* Rows a run has claimed are copies: they keep what they said at the claim. *)
Claims == [id : WorkIds, at : Int, attempts : Nat]
Entries == [id : Events, attempts : Nat]

Idle == [pc |-> "idle", now |-> 0, todo |-> {}, batch |-> {}, sent |-> None]

Runs == [pc : {"idle", "items", "drain"}, now : Int, todo : SUBSET Claims,
         batch : SUBSET Entries,
         sent : [entry : Entries, outcome : Outcomes] \cup {None}]

ASSUME NoneIsNoValue ==
    None \notin Nat \cup WorkRows \cup [entry : Entries, outcome : Outcomes]

SchedulerTypeOK ==
    /\ due \in [WorkIds -> WorkRows \cup {None}]
    /\ events \in [Events -> EventRows]
    /\ alarm \in Nat \cup {None}
    /\ run \in Runs
    /\ up \in BOOLEAN
    /\ crashes \in 0 .. MaxCrashes
    /\ dispatched \in [Events -> Nat]

-----------------------------------------------------------------------------
(* Clocks.  An instant that can no longer be told from an earlier one is    *)
(* kept where it is; recurring deadlines keep their phase instead, which is *)
(* all that the next slot depends on.                                       *)

Past == -MaxLag

Nearer(t) == IF t > Past THEN t - 1 ELSE t
NearerAlarm(t) == IF t > 0 THEN t - 1 ELSE t
NearerSlot(t) == IF t > -Interval THEN t - 1 ELSE -1
NearerWork(id, t) == IF id \in Recurring THEN NearerSlot(t) ELSE Nearer(t)

(* Faulty variant: one slot later, however many were missed. *)
nextRecurrenceOneSlot(at, now) == IF at > now THEN at ELSE at + Interval

(* The first slot after now; slots missed meanwhile are skipped. *)
nextRecurrence(at, now) ==
    IF at > now THEN at ELSE at + Interval * (((now - at) \div Interval) + 1)

-----------------------------------------------------------------------------
(* The tables. *)

Scheduled(d) == {id \in WorkIds : d[id] # None}
Earliest(d) == Min({d[id].at : id \in Scheduled(d)})

(* Faulty variant: a deadline that has passed is left to whoever comes next. *)
ArmedFutureOnly(d) ==
    IF Scheduled(d) = {} \/ Earliest(d) <= 0 THEN None ELSE Earliest(d)

(* armAlarm: an instant in the past is an alarm that fires at once. *)
Armed(d) ==
    IF Scheduled(d) = {} THEN None
    ELSE IF Earliest(d) > 0 THEN Earliest(d) ELSE 0

(* scheduleDueWork: an upsert that keeps the earlier deadline. *)
ScheduleAt(d, id, at) ==
    [d EXCEPT ![id] = IF @ = None THEN [at |-> at, attempts |-> 0]
                      ELSE [at |-> IF at < @.at THEN at ELSE @.at, attempts |-> @.attempts]]

(* ensureRecurringWork in the constructor. *)
WithRecurring(d) ==
    [id \in WorkIds |-> IF id \in Recurring /\ d[id] = None
                        THEN [at |-> Interval, attempts |-> 0] ELSE d[id]]

(* completeDueWork: one-shot work is removed, recurring work moves on. *)
Completed(d, claim, now) ==
    [d EXCEPT ![claim.id] =
        IF claim.id \in Recurring
        THEN [at |-> nextRecurrence(claim.at, now), attempts |-> 0]
        ELSE None]

(* deferDueWork: back off, and give up one slot after too many failures.    *)
Deferred(d, claim, now) ==
    [d EXCEPT ![claim.id] =
        IF claim.attempts + 1 < DueAttempts
        THEN [at |-> now + DueBackoff[claim.attempts + 1],
              attempts |-> claim.attempts + 1]
        ELSE IF claim.id \in Recurring
        THEN [at |-> nextRecurrence(claim.at, now), attempts |-> 0]
        ELSE None]

Pending(ev) == {e \in Events : ev[e].status = "pending"}
Ready(ev, now) == {e \in Pending(ev) : ev[e].nextAt <= now}

(* claimOutboxBatch: the events that have waited longest, at most a batch.  *)
Batches(ev, now) ==
    {B \in SUBSET Ready(ev, now) :
        /\ Cardinality(B) = Min({BatchSize, Cardinality(Ready(ev, now))})
        /\ \A e \in B, f \in Ready(ev, now) \ B : ev[e].nextAt <= ev[f].nextAt}

(* settleOutbox: delivered, dead, or pending again after a backoff. *)
SettledOutbox(ev, sent, now) ==
    LET tried == sent.entry.attempts + 1
    IN  [ev EXCEPT ![sent.entry.id] =
           IF @.status # "pending" THEN @
           ELSE IF sent.outcome = "delivered"
           THEN [@ EXCEPT !.status = "delivered", !.attempts = tried]
           ELSE IF sent.outcome = "permanent" \/ tried >= OutboxAttempts
           THEN [@ EXCEPT !.status = "dead", !.attempts = tried]
           ELSE [@ EXCEPT !.attempts = tried,
                          !.nextAt = now + OutboxBackoff[tried]]]

-----------------------------------------------------------------------------
(* Actions. *)

(* Faulty variant: a retained event does not hold back its dedupe key. *)
PostWithoutDedupe(e, at) ==
    /\ up
    /\ events' = [events EXCEPT ![e] = [status |-> "pending", attempts |-> 0,
                                       nextAt |-> at]]
    /\ due' = ScheduleAt(due, Flush, 0)
    /\ alarm' = Armed(due')
    /\ UNCHANGED <<run, up, crashes, dispatched>>

(* commitMutation with an outbox event: the event, its flush deadline and   *)
(* the alarm.  The same dedupe key again adds nothing.                      *)
Post(e, at) ==
    /\ up
    /\ IF events[e].status = "absent"
       THEN /\ events' = [events EXCEPT ![e] = [status |-> "pending", attempts |-> 0,
                                                nextAt |-> at]]
            /\ due' = ScheduleAt(due, Flush, 0)
       ELSE UNCHANGED <<events, due>>
    /\ alarm' = Armed(due')
    /\ UNCHANGED <<run, up, crashes, dispatched>>

(* The instance is lost after the transaction and before the alarm is set.  *)
PostThenCrash(e, at) ==
    /\ up
    /\ crashes < MaxCrashes
    /\ events[e].status = "absent"
    /\ events' = [events EXCEPT ![e] = [status |-> "pending", attempts |-> 0,
                                        nextAt |-> at]]
    /\ due' = ScheduleAt(due, Flush, 0)
    /\ alarm' = IF run.pc = "idle" THEN alarm ELSE 0
    /\ run' = Idle
    /\ up' = FALSE
    /\ crashes' = crashes + 1
    /\ UNCHANGED dispatched

Crash ==
    /\ up
    /\ crashes < MaxCrashes
    /\ alarm' = IF run.pc = "idle" THEN alarm ELSE 0
    /\ run' = Idle
    /\ up' = FALSE
    /\ crashes' = crashes + 1
    /\ UNCHANGED <<due, events, dispatched>>

(* The constructor, when a request or the alarm instantiates the object. *)
Start ==
    /\ ~up
    /\ up' = TRUE
    /\ due' = WithRecurring(due)
    /\ alarm' = Armed(due')
    /\ UNCHANGED <<events, run, crashes, dispatched>>

(* Faulty variant: a run that ends forgets what it could not deliver. *)
ContinueForgetting(d, ev, todo) ==
    /\ events' = ev
    /\ due' = d
    /\ IF todo = {}
       THEN run' = Idle /\ alarm' = Armed(d)
       ELSE /\ run' = [run EXCEPT !.pc = "items", !.todo = todo, !.batch = {},
                                  !.sent = None]
            /\ UNCHANGED alarm

(* Where an item of a run ends.  After the last one runDueWork brings the   *)
(* flush forward to the earliest event still pending and re-arms.           *)
Continue(d, ev, todo) ==
    /\ events' = ev
    /\ IF todo = {}
       THEN /\ due' = IF Pending(ev) = {} THEN d
                      ELSE ScheduleAt(d, Flush, Min({ev[e].nextAt : e \in Pending(ev)}))
            /\ alarm' = Armed(due')
            /\ run' = Idle
       ELSE /\ due' = d
            /\ run' = [run EXCEPT !.pc = "items", !.todo = todo, !.batch = {},
                                  !.sent = None]
            /\ UNCHANGED alarm

(* The runtime clears the alarm and calls the handler, which claims every   *)
(* row that is due.  The code serves them in the order of their deadlines;  *)
(* here the order is left open.                                             *)
AlarmFires ==
    /\ up
    /\ run.pc = "idle"
    /\ alarm = 0
    /\ LET claimed == {[id |-> id, at |-> due[id].at, attempts |-> due[id].attempts] :
                          id \in {w \in Scheduled(due) : due[w].at <= 0}}
       IN  IF claimed = {}
           THEN Continue(due, events, {})
           ELSE /\ run' = [Idle EXCEPT !.pc = "items", !.todo = claimed]
                /\ alarm' = None
                /\ UNCHANGED <<due, events>>
    /\ UNCHANGED <<up, crashes, dispatched>>

(* A sweep, reclaim, anchor or reconciliation that returns, or throws. *)
RunRecurring(claim, ok) ==
    /\ run.pc = "items"
    /\ claim \in run.todo
    /\ claim.id \in Recurring
    /\ Continue(IF ok THEN Completed(due, claim, run.now)
                      ELSE Deferred(due, claim, run.now),
                events, run.todo \ {claim})
    /\ UNCHANGED <<up, crashes, dispatched>>

(* drainOutbox reads its batch. *)
BeginDrain(claim, B) ==
    /\ run.pc = "items"
    /\ claim \in run.todo
    /\ claim.id = Flush
    /\ B \in Batches(events, run.now)
    /\ run' = [run EXCEPT !.pc = "drain",
                          !.batch = {[id |-> e, attempts |-> events[e].attempts] : e \in B}]
    /\ UNCHANGED <<due, events, alarm, up, crashes, dispatched>>

(* One event is handed to its consumer: queue, push service or runtime.     *)
Dispatch(entry, outcome) ==
    /\ run.pc = "drain"
    /\ run.sent = None
    /\ entry \in run.batch
    /\ run' = [run EXCEPT !.sent = [entry |-> entry, outcome |-> outcome]]
    /\ dispatched' = [dispatched EXCEPT ![entry.id] = @ + 1]
    /\ UNCHANGED <<due, events, alarm, up, crashes>>

(* The answer is back and is written to the event. *)
SettleOutbox ==
    /\ run.pc = "drain"
    /\ run.sent # None
    /\ events' = SettledOutbox(events, run.sent, run.now)
    /\ run' = [run EXCEPT !.batch = @ \ {run.sent.entry}, !.sent = None]
    /\ UNCHANGED <<due, alarm, up, crashes, dispatched>>

EndDrain ==
    /\ run.pc = "drain"
    /\ run.batch = {}
    /\ \E claim \in run.todo :
          /\ claim.id = Flush
          /\ Continue(Completed(due, claim, run.now), events, run.todo \ {claim})
    /\ UNCHANGED <<up, crashes, dispatched>>

Tick ==
    /\ run.now > Past
    /\ due' = [id \in WorkIds |-> IF due[id] = None THEN None
                                  ELSE [due[id] EXCEPT !.at = NearerWork(id, @)]]
    /\ events' = [e \in Events |-> [events[e] EXCEPT !.nextAt = Nearer(@)]]
    /\ alarm' = IF alarm = None THEN None ELSE NearerAlarm(alarm)
    /\ run' = IF run.pc = "idle" THEN run
              ELSE [run EXCEPT !.now = @ - 1,
                               !.todo = {[c EXCEPT !.at = NearerWork(c.id, @)] : c \in @}]
    /\ UNCHANGED <<up, crashes, dispatched>>

Init ==
    /\ due = [id \in WorkIds |-> None]
    /\ events = [e \in Events |-> [status |-> "absent", attempts |-> 0, nextAt |-> Past]]
    /\ alarm = None
    /\ run = Idle
    /\ up = FALSE
    /\ crashes = 0
    /\ dispatched = [e \in Events |-> 0]

RunStep ==
    \/ \E claim \in run.todo : \/ \E ok \in BOOLEAN : RunRecurring(claim, ok)
                               \/ \E B \in SUBSET Events : BeginDrain(claim, B)
    \/ \E entry \in run.batch, outcome \in Outcomes : Dispatch(entry, outcome)
    \/ SettleOutbox
    \/ EndDrain

Next ==
    \/ \E e \in Events, at \in 0 .. MaxDelay : Post(e, at) \/ PostThenCrash(e, at)
    \/ Crash
    \/ Start
    \/ AlarmFires
    \/ RunStep
    \/ Tick

Spec == Init /\ [][Next]_vars

(* Time passes; the runtime instantiates the object to deliver an alarm and *)
(* delivers it; whatever a handler waits for comes back or times out.       *)
StartForAlarm == alarm = 0 /\ Start

FairSpec ==
    /\ Spec
    /\ WF_vars(Tick)
    /\ WF_vars(StartForAlarm)
    /\ WF_vars(AlarmFires)
    /\ WF_vars(RunStep)

-----------------------------------------------------------------------------
(* Safety. *)

(* What a run claimed at its start is still what the tables say when it     *)
(* acts on its copies: mutations that commit between two of its items may   *)
(* bring a deadline forward and add events, and nothing else, so a row is   *)
(* never completed, deferred or settled on a count or a slot that moved.    *)
(* Recurring work is never lost, and an event is handed out as often as its *)
(* budget allows, and once more for each crash that lost an answer.         *)
RunInvariant ==
    /\ SchedulerTypeOK
    /\ up \/ run.pc = "idle"
    /\ run.pc = "idle" => run = Idle
    /\ run.pc # "idle" => run.todo # {}
    /\ run.pc = "drain" => \E c \in run.todo : c.id = Flush
    /\ run.pc # "drain" => run.batch = {} /\ run.sent = None
    /\ run.sent # None => run.sent.entry \in run.batch
    /\ \A c \in run.todo : /\ due[c.id] # None
                           /\ due[c.id].attempts = c.attempts
                           /\ c.id \in Recurring => due[c.id].at = c.at
    /\ \A c, d \in run.todo : c.id = d.id => c = d
    /\ \A b \in run.batch : /\ events[b.id].status = "pending"
                            /\ events[b.id].attempts = b.attempts
    /\ up => Recurring \subseteq Scheduled(due)
    /\ \A e \in Events :
          /\ events[e].attempts <= OutboxAttempts
          /\ events[e].status = "pending" => events[e].attempts < OutboxAttempts
          /\ dispatched[e] <= events[e].attempts + crashes
                              + (IF run.sent # None /\ run.sent.entry.id = e THEN 1 ELSE 0)

AtRest == up /\ run.pc = "idle"

(* One alarm for every deadline, though the flush deadline is a one-shot    *)
(* row that a run deletes while new events may be coming in: whenever the   *)
(* object is at rest its alarm is no later than any work that is scheduled  *)
(* and than the next attempt of any pending event.                          *)
AlarmCoversAll ==
    AtRest =>
        /\ \A id \in Scheduled(due) : alarm # None /\ (alarm = 0 \/ alarm <= due[id].at)
        /\ \A e \in Pending(events) : alarm # None /\ (alarm = 0 \/ alarm <= events[e].nextAt)

(* After a long absence recurring work runs once, not once for every slot   *)
(* it missed: a run leaves no row it served behind the clock it runs on.    *)
NoCatchUpBurst ==
    [][\A c \in run.todo :
          (c.id \in Recurring /\ up' /\ c.id \notin {d.id : d \in run'.todo})
              => due'[c.id].at > run.now]_vars

-----------------------------------------------------------------------------
(* Liveness. *)

(* Every event a mutation committed is delivered or declared dead, and      *)
(* recurring work comes round for ever: every deadline that is reached is   *)
(* taken up by a run, also when handlers always throw, runs are slow and    *)
(* the object crashes under them.                                           *)
WorkComesRound ==
    /\ \A e \in Events : events[e].status = "pending" ~>
                            events[e].status \in {"delivered", "dead"}
    /\ \A r \in Recurring :
          (due[r] # None /\ due[r].at <= 0) ~> \E c \in run.todo : c.id = r
=============================================================================
