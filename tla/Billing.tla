------------------------------ MODULE Billing ------------------------------
(***************************************************************************)
(* What a workspace has bought (src/control/billing.ts,                    *)
(* src/control/billing-management.ts): the provider says what a            *)
(* subscription is by events, which arrive late, twice and out of order;   *)
(* the newest is in the control plane's row; its storage allowance is      *)
(* projected into the workspace object                                     *)
(* (src/control/storage-entitlement.ts, applyStorageEntitlement).  Every   *)
(* statement to the control plane is an await of its own, a batch is one   *)
(* step.  What was bought is a number of seats, from which the allowance   *)
(* follows; prices, invoices and the reconciliation, which nothing calls,  *)
(* are left out.                                                           *)
(***************************************************************************)
EXTENDS Membership

CONSTANTS
    Deliveries,         \* webhook requests of the provider at one time
    Projectors,         \* requests that project the allowance at one time
    Buyers              \* requests that change the plan at one time

(* Bounds: on the provider's events and their deliveries, on projections,   *)
(* on changes that are asked for, on ticks of the clock and on faults.      *)
ASSUME BillingAssumption ==
    \A sc \in Scenarios :
        /\ sc.tenant.events \in Nat /\ sc.tenant.deliveries \in Nat /\ sc.tenant.projections \in Nat
        /\ sc.tenant.changes \in Nat
        /\ sc.tenant.ticks \in Nat /\ sc.tenant.faults \in Nat

VARIABLES
    clock,              \* in ticks, two of them a second
    left,               \* what is left of the bounds
    events,             \* what the provider has said (external)
    subscription,       \* subscriptions
    receipts,           \* billing_event_receipts: how an event was disposed of
    accepting,          \* what each webhook request has read
    allowance,          \* storage_quota_bytes, storage_entitlement_version, in the object
    projecting,         \* what each projection has read
    changes,            \* billing_change_requests
    buying,             \* what each request to change the plan has read
    disordered,         \* history: the row changed and its moment did not advance
    projected           \* history: a projection of the row as it is came to its end

billingVars == <<clock, left, events, subscription, receipts, accepting, allowance,
                 projecting, changes, buying, disordered, projected>>

Sizes == 1 .. 3
First == 2
Second == clock \div 2

NoAccept == [pc |-> "idle", event |-> 0, at |-> 0]
NoProjection == [pc |-> "idle", of |-> [size |-> 1, version |-> 0, updated |-> 0]]
NoPurchase == [pc |-> "idle", size |-> 1, change |-> 0]

(* deriveEntitlement: Solo is one seat and stores nothing in the cloud.     *)
Quota(size) == size - 1

Spend(what) == left[what] > 0 /\ left' = [left EXCEPT ![what] = @ - 1]

Tick ==
    /\ Spend("ticks")
    /\ clock' = clock + 1
    /\ UNCHANGED <<events, subscription, receipts, accepting, allowance, projecting,
                   changes, buying, disordered, projected>>

-----------------------------------------------------------------------------
(* Events.  The provider numbers them by the second (stripeEntitlement); one *)
(* that says nothing new is like one that arrives twice.                    *)
Said == IF events = <<>> THEN First ELSE events[Len(events)].size
ProviderSays(size) ==
    /\ Spend("events") /\ size # Said
    /\ events' = Append(events, [second |-> Second, size |-> size])
    /\ UNCHANGED <<clock, subscription, receipts, accepting, allowance, projecting,
                   changes, buying, disordered, projected>>

(* accept: a request takes its time when it starts, and looks for a receipt. *)
BeginAccepting(d, e) ==
    /\ accepting[d].pc = "idle" /\ Spend("deliveries")
    /\ e \notin DOMAIN receipts
    /\ accepting' = [accepting EXCEPT ![d] = [pc |-> "unseen", event |-> e, at |-> clock]]
    /\ UNCHANGED <<clock, events, subscription, receipts, allowance, projecting,
                   changes, buying, disordered, projected>>

(* It reads the version of the row. *)
ReadVersion(d) ==
    /\ accepting[d].pc = "unseen"
    /\ accepting' = [accepting EXCEPT ![d].pc =
          IF events[accepting[d].event].second < subscription.version THEN "stale" ELSE "newer"]
    /\ UNCHANGED <<clock, left, events, subscription, receipts, allowance, projecting,
                   changes, buying, disordered, projected>>

(* Its last statement: one receipt for an event, or nothing at all.         *)
Dispose(d, pc, disposition) ==
    /\ accepting[d].pc = pc
    /\ accepting' = [accepting EXCEPT ![d] = NoAccept]
    /\ receipts' = [e \in DOMAIN receipts \cup {accepting[d].event} |->
          IF e \in DOMAIN receipts THEN receipts[e] ELSE disposition]
    /\ UNCHANGED <<clock, left, events, allowance, projecting, changes, buying>>

RecordStale(d) == Dispose(d, "stale", "stale") /\ UNCHANGED <<subscription, disordered, projected>>

(* Faulty variant: the batch relies on the version that was read before. *)
ApplyEventUnguarded(d) ==
    LET event == events[accepting[d].event]
        first == accepting[d].event \notin DOMAIN receipts
    IN  /\ Dispose(d, "newer", "applied")
        /\ subscription' = IF first
              THEN [size |-> event.size, version |-> event.second, updated |-> accepting[d].at]
              ELSE subscription
        /\ disordered' = (disordered \/ (first /\ accepting[d].at <= subscription.updated))
        /\ projected' = (projected /\ subscription' = subscription)

(* The batch: it changes a row that is still older, and it fails as a whole *)
(* when the event has a receipt by now.                                     *)
ApplyEvent(d) ==
    LET event == events[accepting[d].event]
        applies == /\ accepting[d].event \notin DOMAIN receipts
                   /\ subscription.version < event.second
    IN  /\ Dispose(d, "newer", "applied")
        /\ subscription' = IF applies
              THEN [size |-> event.size, version |-> event.second, updated |-> accepting[d].at]
              ELSE subscription
        /\ disordered' = (disordered \/ (applies /\ accepting[d].at <= subscription.updated))
        /\ projected' = (projected /\ subscription' = subscription)

(* A request may end before its last statement; the provider tries again.   *)
LoseAccepting(d) ==
    /\ accepting[d].pc # "idle" /\ Spend("faults")
    /\ accepting' = [accepting EXCEPT ![d] = NoAccept]
    /\ UNCHANGED <<clock, events, subscription, receipts, allowance, projecting,
                   changes, buying, disordered, projected>>

-----------------------------------------------------------------------------
(* The allowance: project reads the row and calls the object with it.       *)
BeginProjecting(e) ==
    /\ projecting[e].pc = "idle" /\ Spend("projections")
    /\ projecting' = [projecting EXCEPT ![e] = [pc |-> "read", of |-> subscription]]
    /\ UNCHANGED <<clock, events, subscription, receipts, accepting, allowance,
                   changes, buying, disordered, projected>>

(* applyStorageEntitlement: the version is the moment the row was changed.  *)
ApplyStorageEntitlement(e) ==
    LET row == projecting[e].of
    IN  /\ projecting[e].pc = "read"
        /\ projecting' = [projecting EXCEPT ![e] = NoProjection]
        /\ allowance' = IF allowance.version >= row.updated THEN allowance
                        ELSE [quota |-> Quota(row.size), version |-> row.updated]
        /\ projected' = (projected \/ row = subscription)
        /\ UNCHANGED <<clock, left, events, subscription, receipts, accepting, changes,
                       buying, disordered>>

LoseProjecting(e) ==
    /\ projecting[e].pc # "idle" /\ Spend("faults")
    /\ projecting' = [projecting EXCEPT ![e] = NoProjection]
    /\ UNCHANGED <<clock, events, subscription, receipts, accepting, allowance,
                   changes, buying, disordered, projected>>

-----------------------------------------------------------------------------
(* Changes of the plan.  requestChange reads who asks, what there is and    *)
(* what is in use, and decides; less must still hold the people there are,  *)
(* and the files, of which the object said how much they are.               *)
BeginChange(b, p, size, used) ==
    /\ buying[b].pc = "idle" /\ Spend("changes")
    /\ Administrator(p) /\ size # subscription.size
    /\ size < subscription.size => SeatsTaken <= size /\ used <= Quota(size)
    /\ buying' = [buying EXCEPT ![b] = [pc |-> "asked", size |-> size, change |-> 0]]
    /\ UNCHANGED <<clock, events, subscription, receipts, accepting, allowance, projecting,
                   changes, disordered, projected>>

(* Its batch: whatever was waiting is superseded. *)
RecordChange(b) ==
    /\ buying[b].pc = "asked"
    /\ changes' = Append([k \in DOMAIN changes |->
                             IF changes[k].status = "pending" THEN [changes[k] EXCEPT !.status = "superseded"]
                             ELSE changes[k]],
                         [size |-> buying[b].size, status |-> "pending", handed |-> 0])
    /\ buying' = [buying EXCEPT ![b] = NoPurchase]
    /\ UNCHANGED <<clock, left, events, subscription, receipts, accepting, allowance,
                   projecting, disordered, projected>>

(* Thirty minutes later a change that still waits is not offered any more.  *)
ChangeExpires(k) ==
    /\ changes[k].status = "pending"
    /\ changes' = [changes EXCEPT ![k].status = "expired"]
    /\ UNCHANGED <<clock, left, events, subscription, receipts, accepting, allowance,
                   projecting, buying, disordered, projected>>

(* confirmBillingCheckoutAction: it reads the change that waits, has the    *)
(* provider make a checkout for it, and hands its address out once the      *)
(* change is marked.                                                        *)
BeginCheckout(b, p, k) ==
    /\ buying[b].pc = "idle" /\ Administrator(p)
    /\ changes[k].status = "pending"
    /\ buying' = [buying EXCEPT ![b] = [pc |-> "checkout", size |-> changes[k].size, change |-> k]]
    /\ UNCHANGED <<clock, left, events, subscription, receipts, accepting, allowance,
                   projecting, changes, disordered, projected>>

(* markSubmitted *)
MarkSubmitted(b) ==
    LET k == buying[b].change
    IN  /\ buying[b].pc = "checkout"
        /\ buying' = [buying EXCEPT ![b] = NoPurchase]
        /\ changes' = IF changes[k].status = "pending"
              THEN [changes EXCEPT ![k].status = "submitted", ![k].handed = @ + 1] ELSE changes
        /\ UNCHANGED <<clock, left, events, subscription, receipts, accepting, allowance,
                       projecting, disordered, projected>>

-----------------------------------------------------------------------------
BillingInit ==
    /\ clock = 3 /\ left = budget.tenant
    /\ events = <<>> /\ receipts = <<>>
    /\ subscription = [size |-> First, version |-> 0, updated |-> 1]
    /\ accepting = [d \in Deliveries |-> NoAccept]
    /\ allowance = [quota |-> 0, version |-> 0]
    /\ projecting = [e \in Projectors |-> NoProjection]
    /\ changes = <<>> /\ buying = [b \in Buyers |-> NoPurchase]
    /\ disordered = FALSE /\ projected = FALSE

EventStep ==
    \/ \E size \in Sizes : ProviderSays(size)
    \/ \E d \in Deliveries :
          \/ \E e \in DOMAIN events : BeginAccepting(d, e)
          \/ ReadVersion(d) \/ RecordStale(d) \/ ApplyEvent(d) \/ LoseAccepting(d)

AllowanceStep ==
    \E e \in Projectors : BeginProjecting(e) \/ ApplyStorageEntitlement(e) \/ LoseProjecting(e)

ChangePlanStep ==
    \/ \E b \in Buyers :
          \/ buying[b].pc = "idle" /\ \E p \in People :
                \/ \E size \in Sizes, used \in 0 .. 2 : BeginChange(b, p, size, used)
                \/ \E k \in DOMAIN changes : BeginCheckout(b, p, k)
          \/ RecordChange(b) \/ MarkSubmitted(b)
    \/ \E k \in DOMAIN changes : ChangeExpires(k)

-----------------------------------------------------------------------------
(* Properties. *)

Applied == {e \in DOMAIN receipts : receipts[e] = "applied"}

(* However events are repeated, delayed and overlap: the row is what the    *)
(* newest event that was applied says, the first of a second, and no older  *)
(* one ever takes its place (accept).  An allowance that was projected      *)
(* since the row changed is the row's, also when an older projection        *)
(* arrives after it, unless the moment of a change did not come after the   *)
(* one before (StorageEntitlementService.project).  And one change waits at *)
(* a time, whose checkout is handed out once, whoever asks for it twice     *)
(* (requestChange, markSubmitted).                                          *)
BillingHolds ==
    /\ \A e \in Applied : events[e].second <= subscription.version
    /\ subscription.version > 0 =>
          \E e \in Applied : /\ events[e].second = subscription.version
                             /\ events[e].size = subscription.size
    /\ projected /\ ~disordered => allowance.quota = Quota(subscription.size)
    /\ Cardinality({k \in DOMAIN changes : changes[k].status = "pending"}) <= 1
    /\ \A k \in DOMAIN changes : changes[k].handed <= 1
=============================================================================
