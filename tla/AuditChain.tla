------------------------------ MODULE AuditChain ------------------------------
(***************************************************************************)
(* The audit log of a workspace: entries chained by hashes, daily anchors, *)
(* and the retention sweep that releases what is anchored and expired      *)
(* (src/cloudflare/workspace-scheduler.ts and src/domain/audit-chain.ts).  *)
(*                                                                         *)
(* Every operation runs in one storage transaction.  What makes the log    *)
(* interesting is time: an entry is stamped with the "now" its request     *)
(* brought along, and requests overtake each other, so a stamp may be a    *)
(* little older than the one before it.                                    *)
(*                                                                         *)
(* The hash is an injective function of everything it covers; an entry is  *)
(* its stamp and a payload that stands for its other fields.               *)
(***************************************************************************)
EXTENDS Integers, Sequences, FiniteSets, FiniteSetsExt

CONSTANTS
    Payloads,           \* the fields of an entry other than its stamp
    Genesis,            \* hash the chain of this workspace starts from
    HashOf(_, _, _, _), \* computeAuditEntryHash of sequence, stamp, payload, previous
    DayLength,          \* length of a UTC day
    Retention,          \* age at which an entry expires, 365 days in the code
    VerifyLimit,        \* entries one verification reads, 1000 in the code
    Skew,               \* how far behind the object's clock a stamp may be
    MaxClock,           \* bound: length of a behaviour
    MaxEntries,         \* bound: entries appended
    MaxAlterations,     \* bound: stored entries altered from outside
    None                \* SQL NULL

ASSUME AuditAssumption ==
    /\ DayLength \in Nat \ {0}
    /\ Retention \in Nat /\ Retention >= 2 * DayLength
    /\ VerifyLimit \in Nat
    /\ Skew \in Nat
    /\ MaxClock \in Nat
    /\ MaxEntries \in Nat
    /\ MaxAlterations \in Nat

VARIABLES
    stored,             \* audit_events, by sequence
    purged,             \* purged_through_sequence, 0 before the first purge
    purgedHash,         \* purged_through_hash
    anchors,            \* audit_anchors, by day that has one
    clock,              \* the object's clock
    history,            \* history: every entry as it was appended
    altered,            \* history: alterations so far
    late                \* history: an entry was stamped with a day already over

vars == <<stored, purged, purgedHash, anchors, clock, history, altered, late>>

Day(t) == t \div DayLength
Days == 0 .. Day(MaxClock)

-----------------------------------------------------------------------------
(* The chain. *)

(* Faulty variant: the chain is followed from its genesis, purged or not. *)
StartHashGenesis == Genesis

(* auditChainAnchorHash *)
StartHash == IF purged > 0 THEN purgedHash ELSE Genesis
Start == purged + 1
LastSequence == IF DOMAIN stored = {} THEN purged ELSE Max(DOMAIN stored)
HashAt(n) == IF n = purged THEN StartHash ELSE stored[n].hash

(* Faulty variant: an entry is covered when it refers to the one before. *)
LinkUncovered(n) ==
    /\ stored[n].prev = HashAt(n - 1)
    /\ n > Start => stored[n].at >= stored[n - 1].at

(* One round of verifyAuditChain. *)
Link(n) ==
    /\ stored[n].prev = HashAt(n - 1)
    /\ n > Start => stored[n].at >= stored[n - 1].at
    /\ stored[n].hash = HashOf(n, stored[n].at, stored[n].payload, stored[n].prev)

Verified(to) == \A n \in Start .. to : n \in DOMAIN stored /\ Link(n)

(* verifyStoredAuditChain: at most VerifyLimit entries from the start. *)
VerificationPasses == Verified(Min({LastSequence, purged + VerifyLimit}))

-----------------------------------------------------------------------------
(* Operations. *)

(* Faulty variant: the head is looked for in the table only. *)
AppendAuditEntryAfterPurge(payload, at) ==
    LET n == LastSequence + 1
        prev == IF DOMAIN stored = {} THEN Genesis ELSE HashAt(LastSequence)
        entry == [at |-> at, payload |-> payload, prev |-> prev,
                  hash |-> HashOf(n, at, payload, prev)]
    IN  /\ Len(history) < MaxEntries
        /\ stored' = [i \in DOMAIN stored \cup {n} |-> IF i = n THEN entry ELSE stored[i]]
        /\ history' = Append(history, entry)
        /\ late' = (late \/ Day(at) < Day(clock))
        /\ UNCHANGED <<purged, purgedHash, anchors, clock, altered>>

(* appendAuditEntry, inside the transaction of the change it records. *)
AppendAuditEntry(payload, at) ==
    LET n == LastSequence + 1
        prev == HashAt(LastSequence)
        entry == [at |-> at, payload |-> payload, prev |-> prev,
                  hash |-> HashOf(n, at, payload, prev)]
    IN  /\ Len(history) < MaxEntries
        /\ stored' = [i \in DOMAIN stored \cup {n} |-> IF i = n THEN entry ELSE stored[i]]
        /\ history' = Append(history, entry)
        /\ late' = (late \/ Day(at) < Day(clock))
        /\ UNCHANGED <<purged, purgedHash, anchors, clock, altered>>

(* Faulty variant: midnight belongs to both days. *)
RecordedInclusive(day) ==
    {n \in DOMAIN stored : /\ stored[n].at >= day * DayLength
                           /\ stored[n].at <= (day + 1) * DayLength}

(* The entries of a day, as the anchor's query finds them by their stamps.  *)
Recorded(day) == {n \in DOMAIN stored : Day(stored[n].at) = day}

AnchorOf(day) == [first |-> Min(Recorded(day)), last |-> Max(Recorded(day)),
                  count |-> Cardinality(Recorded(day)),
                  hash |-> stored[Max(Recorded(day))].hash]

Anchored == DOMAIN anchors

(* The day a run of the anchor work seals: yesterday. *)
AnchoredDay == Day(clock) - 1

(* writeAuditAnchor: refused when the chain does not verify, nothing when   *)
(* the day is empty; the same day again replaces its anchor.                *)
WriteAuditAnchor ==
    /\ VerificationPasses
    /\ AnchoredDay \in Days
    /\ Recorded(AnchoredDay) # {}
    /\ anchors' = [d \in Anchored \cup {AnchoredDay} |->
                      IF d = AnchoredDay THEN AnchorOf(d) ELSE anchors[d]]
    /\ UNCHANGED <<stored, purged, purgedHash, clock, history, altered, late>>

(* Faulty variant: whatever has expired is released. *)
ReleasableUnanchored == {n \in DOMAIN stored : stored[n].at <= clock - Retention}

(* What purgeExpiredAudit may release: expired, and under some anchor. *)
Releasable ==
    {n \in DOMAIN stored : /\ stored[n].at <= clock - Retention
                           /\ \E d \in Anchored : n <= anchors[d].last}

(* Everything up to the last such entry goes, and the chain restarts from   *)
(* the hash of that entry.                                                  *)
PurgeExpiredAudit ==
    /\ Releasable # {}
    /\ purged' = Max(Releasable)
    /\ purgedHash' = stored[Max(Releasable)].hash
    /\ stored' = [n \in {i \in DOMAIN stored : i > Max(Releasable)} |-> stored[n]]
    /\ UNCHANGED <<anchors, clock, history, altered, late>>

(* A stored entry is altered behind the object's back. *)
Alter(n, payload) ==
    /\ altered < MaxAlterations
    /\ payload # stored[n].payload
    /\ stored' = [stored EXCEPT ![n].payload = payload]
    /\ altered' = altered + 1
    /\ UNCHANGED <<purged, purgedHash, anchors, clock, history, late>>

Tick ==
    /\ clock < MaxClock
    /\ clock' = clock + 1
    /\ UNCHANGED <<stored, purged, purgedHash, anchors, history, altered, late>>

Init ==
    /\ stored = [n \in {} |-> None]
    /\ purged = 0
    /\ purgedHash = None
    /\ anchors = [d \in {} |-> None]
    /\ clock = 0
    /\ history = <<>>
    /\ altered = 0
    /\ late = FALSE

(* Stamps that a request now arriving may carry. *)
Stamps == {t \in 0 .. MaxClock : t <= clock /\ t >= clock - Skew}

Next ==
    \/ \E payload \in Payloads, at \in Stamps : AppendAuditEntry(payload, at)
    \/ WriteAuditAnchor
    \/ PurgeExpiredAudit
    \/ \E n \in DOMAIN stored, payload \in Payloads : Alter(n, payload)
    \/ Tick

Spec == Init /\ [][Next]_vars

-----------------------------------------------------------------------------
(* Properties. *)

Hashes == {Genesis} \cup {history[n].hash : n \in 1 .. Len(history)}

AuditTypeOK ==
    /\ purged \in Nat
    /\ clock \in 0 .. MaxClock
    /\ altered \in 0 .. MaxAlterations
    /\ late \in BOOLEAN
    /\ \A n \in 1 .. Len(history) :
          history[n].at \in 0 .. MaxClock /\ history[n].payload \in Payloads
    /\ Anchored \subseteq Days
    /\ \A d \in Anchored : anchors[d].first <= anchors[d].last

(* Nothing is lost: the entries still stored and the purged ones are the    *)
(* whole history without a gap, and but for alterations from outside what   *)
(* is stored is what was written; the purge remembers the right hash.       *)
NothingLost ==
    /\ AuditTypeOK
    /\ purged <= Len(history)
    /\ DOMAIN stored = Start .. Len(history)
    /\ \A n \in DOMAIN stored : /\ stored[n].hash = history[n].hash
                                /\ stored[n].prev = history[n].prev
                                /\ stored[n].at = history[n].at
                                /\ altered = 0 => stored[n].payload = history[n].payload
    /\ purged > 0 => purgedHash = history[purged].hash
    /\ Len(history) > 0 => history[1].prev = Genesis
    /\ \A n \in 2 .. Len(history) : history[n].prev = history[n - 1].hash

(* No two requests ever overtook each other. *)
InOrder == \A n \in 2 .. Len(history) : history[n].at >= history[n - 1].at

(* A chain that only the program wrote, with stamps in order, verifies from *)
(* genesis or from the last purged entry, however much of it was purged.    *)
ChainVerifies == InOrder /\ altered = 0 => Verified(LastSequence)

(* A chain that only the program wrote verifies: a failed verification      *)
(* means tampering (docs/retention-residency-recovery-contract.md:75).      *)
UntouchedVerifies == altered = 0 => Verified(LastSequence)

(* Retention never takes an entry that no anchor covers. *)
PurgedWasAnchored == purged > 0 => \E d \in Anchored : purged <= anchors[d].last

(* What retention took had expired, and an anchor stays true: it names the  *)
(* hash of its last entry and, when no stamps overtook each other, a run of *)
(* entries of its day without a gap, whatever is purged later.  Once its    *)
(* day is over an anchor does not change any more either: what was sealed   *)
(* is not sealed again with other entries, unless an entry came late, with  *)
(* the stamp of a day already over.  And a tampered chain is refused rather *)
(* than sealed over (workspace-scheduler.ts, at writeAuditAnchor): when an  *)
(* anchor is written, every stored entry it covers is the one that was      *)
(* appended, as far as one verification reads.                              *)
AnchorsStand ==
    /\ [](/\ InOrder \/ Len(history) <= VerifyLimit =>
                \A n \in 1 .. purged : history[n].at <= clock - Retention
          /\ InOrder => \A d \in Anchored :
                /\ anchors[d].last <= Len(history)
                /\ anchors[d].hash = history[anchors[d].last].hash
                /\ anchors[d].count = anchors[d].last - anchors[d].first + 1
                /\ \A n \in anchors[d].first .. anchors[d].last : Day(history[n].at) = d)
    /\ [][/\ ~late => \A d \in Anchored : anchors'[d] = anchors[d]
          /\ \A d \in Anchored' : d \notin Anchored \/ anchors'[d] # anchors[d] =>
                \A n \in DOMAIN stored : n <= anchors'[d].last /\ n <= purged + VerifyLimit
                                          => stored[n] = history[n]]_vars
=============================================================================
