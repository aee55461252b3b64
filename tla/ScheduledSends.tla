---------------------------- MODULE ScheduledSends ----------------------------
(***************************************************************************)
(* Messages scheduled for later: the scheduled_messages rows, the one      *)
(* due_work row "system:scheduled_send" they share, and the delivery that  *)
(* the alarm runs (scheduleMessage to armScheduledSends in                 *)
(* src/cloudflare/workspace.ts).                                           *)
(*                                                                         *)
(* The row that starts a run is claimed at the head of runDueWork and      *)
(* completed at its end; items served before this one may wait for the     *)
(* outside, and members then change the schedule under the run.  Delivery  *)
(* itself waits for storage only, so nothing but a crash comes between its *)
(* steps.  That the alarm covers the row is module Scheduler's business    *)
(* (AlarmCoversAll): here a run may start once the row is due.             *)
(*                                                                         *)
(* Instants are distances from the present.                                *)
(***************************************************************************)
EXTENDS Integers, FiniteSets, FiniteSetsExt

CONSTANTS
    Ids,                \* scheduled messages, which their ids order
    Bodies,             \* message bodies, told apart as the request hash does
    Broadcasts,         \* bodies that address a whole room
    Changes,            \* what authors change: "body", "time" or both
    SendBatch,          \* messages one delivery takes, 25 in the code
    ReceiptTtl,         \* lifetime of an idempotency receipt, 24 h in the code
    MaxAhead,           \* furthest send time, a year in the code
    MaxLag,             \* bound: how late a due row is served to its end
    MaxCrashes,         \* bound: crashes in a behaviour
    Null                \* SQL NULL

(* A row that is due is served, to the end of a run, within the lifetime of *)
(* a receipt.                                                               *)
ASSUME SendsAssumption ==
    /\ Ids \subseteq Nat /\ IsFiniteSet(Ids)
    /\ Broadcasts \subseteq Bodies
    /\ Changes \subseteq {"body", "time"}
    /\ SendBatch \in Nat \ {0}
    /\ ReceiptTtl \in Nat
    /\ MaxAhead \in Nat \ {0}
    /\ MaxLag \in Nat /\ MaxLag < ReceiptTtl
    /\ MaxCrashes \in Nat
    /\ Null \notin Int /\ Null \notin [body : Bodies, left : Nat]

VARIABLES
    messages,           \* scheduled_messages, by id
    deadline,           \* due_at of system:scheduled_send, Null when no row
    receipts,           \* idempotency_keys under "scheduled:<id>"
    standing,           \* whether author and room still allow a send
    run,                \* the run in progress
    crashes,            \* crashes so far
    posts,              \* history: messages posted into the room, by id
    moved               \* history: messages moved after they were posted

sendsVars == <<messages, deadline, receipts, standing, run, crashes, posts, moved>>

Statuses == {"none", "scheduled", "sent", "cancelled", "failed"}
Settled == {"sent", "cancelled", "failed"}
Standings == {"yes", "no_author", "no_room"}

Rows == [status : Statuses, at : Int, body : Bodies \cup {Null}]
Runs == [pc : {"idle", "claimed", "deliver", "posted"}, now : Int,
         batch : SUBSET Ids, sending : Ids \cup {Null}]
Idle == [pc |-> "idle", now |-> 0, batch |-> {}, sending |-> Null]

Waiting(ms) == {m \in Ids : ms[m].status = "scheduled"}

-----------------------------------------------------------------------------
(* The tables. *)

(* armScheduledSends: the row takes the earliest pending send, unless it    *)
(* already has an earlier one.                                              *)
ArmedSends(d, ms) ==
    IF Waiting(ms) = {} THEN d
    ELSE LET next == Min({ms[m].at : m \in Waiting(ms)})
         IN  IF d # Null /\ d < next THEN d ELSE next

(* completeDueWork on one-shot work. *)
CompletedDueWork(d) == Null

(* claimDueScheduledMessages: what is due, by its time and then by its id,  *)
(* up to a limit.                                                           *)
DueMessages(ms, now) == {m \in Waiting(ms) : ms[m].at <= now}
Ahead(ms, m) ==
    {n \in Waiting(ms) : ms[n].at < ms[m].at \/ (ms[n].at = ms[m].at /\ n < m)}
Batch(ms, now) == {m \in DueMessages(ms, now) : Cardinality(Ahead(ms, m)) < SendBatch}

(* settleScheduledMessage *)
SettledAs(ms, m, status) ==
    [ms EXCEPT ![m].status = IF @ = "scheduled" THEN status ELSE @]

(* Faulty variant: a receipt for another body does not count. *)
ReceiptForBody(m) == receipts[m] # Null /\ receipts[m].body = messages[m].body

(* commitMutation finds a receipt under the key of this scheduled message.  *)
Receipt(m) == receipts[m] # Null

-----------------------------------------------------------------------------
(* Members. *)

(* scheduleMessage: the row and its deadline. *)
Schedule(m, body, at) ==
    /\ messages[m].status = "none"
    /\ standing = "yes"
    /\ run.pc \in {"idle", "claimed"}
    /\ messages' = [messages EXCEPT ![m] = [status |-> "scheduled", at |-> at, body |-> body]]
    /\ deadline' = ArmedSends(deadline, messages')
    /\ UNCHANGED <<receipts, standing, run, crashes, posts, moved>>

(* updateScheduledMessage: only while the message waits. *)
UpdateBody(m, body) ==
    /\ "body" \in Changes
    /\ messages[m].status = "scheduled"
    /\ standing # "no_author"
    /\ run.pc \in {"idle", "claimed"}
    /\ messages' = [messages EXCEPT ![m].body = body]
    /\ deadline' = ArmedSends(deadline, messages')
    /\ UNCHANGED <<receipts, standing, run, crashes, posts, moved>>

UpdateTime(m, at) ==
    /\ "time" \in Changes
    /\ messages[m].status = "scheduled"
    /\ standing # "no_author"
    /\ run.pc \in {"idle", "claimed"}
    /\ messages' = [messages EXCEPT ![m].at = at]
    /\ deadline' = ArmedSends(deadline, messages')
    /\ moved' = IF posts[m] > 0 THEN moved \cup {m} ELSE moved
    /\ UNCHANGED <<receipts, standing, run, crashes, posts>>

(* Faulty variant: cancelled whatever became of it meanwhile. *)
CancelSettled(m) ==
    /\ messages[m].status # "none"
    /\ standing # "no_author"
    /\ run.pc \in {"idle", "claimed"}
    /\ messages' = [messages EXCEPT ![m].status = "cancelled"]
    /\ deadline' = ArmedSends(deadline, messages')
    /\ UNCHANGED <<receipts, standing, run, crashes, posts, moved>>

(* cancelScheduledMessage *)
Cancel(m) ==
    /\ messages[m].status = "scheduled"
    /\ standing # "no_author"
    /\ run.pc \in {"idle", "claimed"}
    /\ messages' = SettledAs(messages, m, "cancelled")
    /\ deadline' = ArmedSends(deadline, messages')
    /\ UNCHANGED <<receipts, standing, run, crashes, posts, moved>>

(* The author is suspended or reinstated, removed from the room or added,   *)
(* the room archived.                                                       *)
ChangeStanding ==
    /\ run.pc \in {"idle", "claimed"}
    /\ standing' \in Standings \ {standing}
    /\ UNCHANGED <<messages, deadline, receipts, run, crashes, posts, moved>>

-----------------------------------------------------------------------------
(* The alarm's run. *)

(* Faulty variant: the row is taken out as it is claimed. *)
BeginRunTaking ==
    /\ run.pc = "idle"
    /\ deadline # Null /\ deadline <= 0
    /\ run' = [Idle EXCEPT !.pc = "claimed"]
    /\ deadline' = Null
    /\ UNCHANGED <<messages, receipts, standing, crashes, posts, moved>>

(* runDueWork claims the row; items before it may wait. *)
BeginRun ==
    /\ run.pc = "idle"
    /\ deadline # Null /\ deadline <= 0
    /\ run' = [Idle EXCEPT !.pc = "claimed"]
    /\ UNCHANGED <<messages, deadline, receipts, standing, crashes, posts, moved>>

(* deliverDueScheduledMessages reads the rows that are due. *)
BeginDelivery ==
    /\ run.pc = "claimed"
    /\ run' = [run EXCEPT !.pc = "deliver", !.batch = Batch(messages, run.now)]
    /\ UNCHANGED <<messages, deadline, receipts, standing, crashes, posts, moved>>

(* Faulty variant: authority was checked when the message was scheduled.    *)
RefusedNever(m) == FALSE

(* scheduledSendRefusal *)
Refused(m) == standing # "yes"

(* The loop settles a message without posting it: refused, already posted   *)
(* by a run that crashed, posted with another body, or not acceptable.      *)
SettleUnposted(m) ==
    /\ run.pc = "deliver"
    /\ m \in run.batch
    /\ \/ /\ Refused(m)
          /\ messages' = SettledAs(messages, m, "failed")
       \/ /\ ~Refused(m) /\ Receipt(m)
          /\ messages' = SettledAs(messages, m,
                            IF receipts[m].body = messages[m].body THEN "sent" ELSE "failed")
       \/ /\ ~Refused(m) /\ ~Receipt(m) /\ messages[m].body \in Broadcasts
          /\ messages' = SettledAs(messages, m, "failed")
    /\ run' = [run EXCEPT !.batch = @ \ {m}]
    /\ UNCHANGED <<deadline, receipts, standing, crashes, posts, moved>>

(* sendMessage commits the message with its receipt. *)
PostMessage(m) ==
    /\ run.pc = "deliver"
    /\ m \in run.batch
    /\ ~Refused(m) /\ ~Receipt(m) /\ messages[m].body \notin Broadcasts
    /\ posts' = [posts EXCEPT ![m] = @ + 1]
    /\ receipts' = [receipts EXCEPT ![m] = [body |-> messages[m].body, left |-> ReceiptTtl]]
    /\ run' = [run EXCEPT !.pc = "posted", !.sending = m]
    /\ UNCHANGED <<messages, deadline, standing, crashes, moved>>

SettleSent ==
    /\ run.pc = "posted"
    /\ messages' = SettledAs(messages, run.sending, "sent")
    /\ run' = [run EXCEPT !.pc = "deliver", !.batch = @ \ {run.sending}, !.sending = Null]
    /\ UNCHANGED <<deadline, receipts, standing, crashes, posts, moved>>

(* The delivery re-arms for what still waits, then runDueWork completes the *)
(* row it claimed.                                                          *)
EndRun ==
    /\ run.pc = "deliver"
    /\ run.batch = {}
    /\ deadline' = CompletedDueWork(ArmedSends(deadline, messages))
    /\ run' = Idle
    /\ UNCHANGED <<messages, receipts, standing, crashes, posts, moved>>

(* The instance is lost; the row is still due, so the run is repeated.      *)
Crash ==
    /\ run.pc # "idle"
    /\ crashes < MaxCrashes
    /\ run' = Idle
    /\ crashes' = crashes + 1
    /\ UNCHANGED <<messages, deadline, receipts, standing, posts, moved>>

(* sweepRetention drops receipts that have expired. *)
SweepReceipts ==
    /\ run.pc \in {"idle", "claimed"}
    /\ \E m \in Ids : receipts[m] # Null /\ receipts[m].left = 0
    /\ receipts' = [m \in Ids |-> IF receipts[m] # Null /\ receipts[m].left = 0
                                  THEN Null ELSE receipts[m]]
    /\ UNCHANGED <<messages, deadline, standing, run, crashes, posts, moved>>

Past == -MaxLag
Nearer(t) == IF t > Past THEN t - 1 ELSE t

(* Time passes, but a row that is due does not wait for long: the alarm is  *)
(* delivered, and delivered again after a crash.                            *)
SendsTick ==
    /\ deadline # Null => deadline > Past
    /\ run.pc # "idle" => run.now > Past
    /\ messages' = [m \in Ids |-> [messages[m] EXCEPT !.at = Nearer(@)]]
    /\ deadline' = IF deadline = Null THEN Null ELSE Nearer(deadline)
    /\ receipts' = [m \in Ids |-> IF receipts[m] = Null \/ receipts[m].left = 0
                                  THEN receipts[m]
                                  ELSE [receipts[m] EXCEPT !.left = @ - 1]]
    /\ run' = IF run.pc = "idle" THEN run ELSE [run EXCEPT !.now = @ - 1]
    /\ UNCHANGED <<standing, crashes, posts, moved>>

SendsInit ==
    /\ messages = [m \in Ids |-> [status |-> "none", at |-> Past, body |-> Null]]
    /\ deadline = Null
    /\ receipts = [m \in Ids |-> Null]
    /\ standing = "yes"
    /\ run = Idle
    /\ crashes = 0
    /\ posts = [m \in Ids |-> 0]
    /\ moved = {}

MemberStep ==
    \/ \E m \in Ids, body \in Bodies : UpdateBody(m, body)
    \/ \E m \in Ids, at \in 1 .. MaxAhead : UpdateTime(m, at)
    \/ \E m \in Ids, body \in Bodies, at \in 1 .. MaxAhead : Schedule(m, body, at)
    \/ \E m \in Ids : Cancel(m)
    \/ ChangeStanding

RunStep ==
    \/ BeginRun
    \/ BeginDelivery
    \/ \E m \in Ids : SettleUnposted(m) \/ PostMessage(m)
    \/ SettleSent
    \/ EndRun

SendsNext == MemberStep \/ RunStep \/ Crash \/ SweepReceipts \/ SendsTick

SendsSpec == SendsInit /\ [][SendsNext]_sendsVars

(* Time passes, and the alarm runs what is due to its end. *)
FairSends == SendsSpec /\ WF_sendsVars(SendsTick) /\ WF_sendsVars(RunStep)

-----------------------------------------------------------------------------
(* Properties. *)

SendsTypeOK ==
    /\ messages \in [Ids -> Rows]
    /\ deadline \in Int \cup {Null}
    /\ receipts \in [Ids -> [body : Bodies, left : 0 .. ReceiptTtl] \cup {Null}]
    /\ standing \in Standings
    /\ run \in Runs
    /\ crashes \in 0 .. MaxCrashes
    /\ posts \in [Ids -> Nat]
    /\ moved \subseteq Ids

(* What a delivery holds is what the rows say, whatever happened between    *)
(* the claim of the deadline and the delivery: it holds only messages that  *)
(* still wait and were due when the run began, and a message is marked sent *)
(* only if it was posted.                                                   *)
SendsInvariant ==
    /\ SendsTypeOK
    /\ run.pc \in {"idle", "claimed"} => run.batch = {}
    /\ run.pc = "posted" <=> run.sending # Null
    /\ run.pc = "posted" => run.sending \in run.batch /\ posts[run.sending] > 0
    /\ \A m \in run.batch : messages[m].status = "scheduled" /\ messages[m].at <= run.now
    /\ \A m \in Ids : /\ messages[m].status = "sent" => posts[m] > 0
                      /\ receipts[m] # Null => posts[m] > 0
                      /\ posts[m] <= crashes + 1

(* A message that was not moved after a run posted it is posted once,       *)
(* whatever became of its body, its author, its room and that run: there    *)
(* the receipt is of use.  And where no run was cut short the author is     *)
(* told the truth: posted if and only if "sent", and never posted after a   *)
(* cancellation.                                                            *)
PostedAsTold ==
    /\ SendsInvariant
    /\ \A m \in Ids \ moved : posts[m] <= 1
    /\ crashes = 0 =>
          \A m \in Ids : posts[m] = IF messages[m].status = "sent" \/ run.sending = m
                                    THEN 1 ELSE 0

(* The outcome its author is told is true (PostedAsTold), and a message     *)
(* reaches the room only when it waits, its time has come, and its author   *)
(* may speak there at that moment, not when it was scheduled.               *)
OutcomeIsTrue ==
    /\ []PostedAsTold
    /\ [][\A m \in Ids : posts'[m] # posts[m] =>
             messages[m].status = "scheduled" /\ messages[m].at <= run.now /\ standing = "yes"]_sendsVars

NothingLeftBehind == run.pc = "deliver" => Waiting(messages) \subseteq run.batch

(* Every scheduled message is sent, refused or cancelled in the end,        *)
(* whatever crashes its deliveries meet, as long as no run leaves behind a  *)
(* message that is not due yet or beyond its batch: a run that does deletes *)
(* the deadline such a message relies on (see DeadlineCoversSends).         *)
EveryMessageSettles ==
    []NothingLeftBehind =>
        \A m \in Ids : messages[m].status = "scheduled" ~> messages[m].status \in Settled

(* One multiplexed deadline covers every pending scheduled send             *)
(* (workspace.ts, at SCHEDULED_SEND_WORK_ID).                               *)
DeadlineCoversSends ==
    run.pc = "idle" =>
        \A m \in Waiting(messages) : deadline # Null /\
            (deadline <= messages[m].at \/ deadline <= 0)
=============================================================================
