----------------------------- MODULE MCScheduler -----------------------------
EXTENDS Scheduler

(* One unit of delay after a failure, whichever it is. *)
MCDueBackoff == [n \in 1 .. DueAttempts - 1 |-> 1]
MCOutboxBackoff == [n \in 1 .. OutboxAttempts - 1 |-> n]
=============================================================================
