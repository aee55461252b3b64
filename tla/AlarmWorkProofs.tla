---------------------------- MODULE AlarmWorkProofs ----------------------------
(***************************************************************************)
(* Proofs about two kinds of work that the alarm does.                     *)
(*                                                                         *)
(* The audit chain, for every set of payloads, every hash, any retention,  *)
(* skew and verification limit, and chains of any length: nothing of the   *)
(* chain is lost, retention takes nothing that no anchor covers, and what  *)
(* only the program wrote verifies if no stamps overtook each other; and,  *)
(* if no two payloads have the same hash, the anchors of the days tell the *)
(* truth and stand (AnchorsStand).                                         *)
(*                                                                         *)
(* Scheduled messages, for any number of messages, bodies, crashes and     *)
(* any size of a batch: a message is posted once, and its author is told   *)
(* what became of it (OutcomeIsTrue).                                      *)
(***************************************************************************)
EXTENDS AuditChain, ScheduledSends, FiniteSetTheorems, WellFoundedInduction, TLAPS

-----------------------------------------------------------------------------
(* The audit chain. *)

(* A stored row has the columns of an entry and nothing else. *)
IsEntry(e) == e = [at |-> e.at, payload |-> e.payload, prev |-> e.prev, hash |-> e.hash]

StoredIsTable ==
    /\ stored = [n \in DOMAIN stored |-> stored[n]]
    /\ \A n \in DOMAIN stored : IsEntry(stored[n])

HistoryIsSequence == \E E : history \in Seq(E)

(* Every hash is the one of the entry as it was appended. *)
HashesCover ==
    \A n \in 1 .. Len(history) :
        history[n].hash = HashOf(n, history[n].at, history[n].payload, history[n].prev)

AnchorsTyped == \A d \in Anchored : anchors[d].last \in Nat

(* What is preserved by every step; NothingLost and PurgedWasAnchored need  *)
(* each other and the shape of the tables.                                  *)
ChainInvariant ==
    /\ NothingLost
    /\ PurgedWasAnchored
    /\ StoredIsTable
    /\ HistoryIsSequence
    /\ HashesCover
    /\ AnchorsTyped

-----------------------------------------------------------------------------
(* The largest and the smallest sequence number of a set of them. *)

LEMMA HasLeast ==
    ASSUME NEW S \in SUBSET Nat, S # {}
    PROVE  \E m \in S : \A y \in S : m <= y
  <1> DEFINE R == OpToRel(<, Nat)
  <1>1. \A a, b \in Nat : a < b => <<a, b>> \in R
    BY DEF OpToRel
  <1>2. IsWellFoundedOn(R, Nat)
    BY NatLessThanWellFounded
  <1> HIDE DEF R
  <1>3. PICK m \in S : \A y \in S : ~ (<<y, m>> \in R)
    BY <1>2, WFMin
  <1>4. ASSUME NEW y \in S PROVE m <= y
    <2>1. m \in Nat /\ y \in Nat
      OBVIOUS
    <2>2. ~ (y < m)
      BY <1>1, <1>3, <2>1, Zenon
    <2>3. QED
      BY <2>1, <2>2
  <1>5. QED
    BY <1>4

LEMMA MinOf ==
    ASSUME NEW S \in SUBSET Nat, S # {}
    PROVE  Min(S) \in S /\ \A x \in S : Min(S) <= x
  BY HasLeast DEF Min

LEMMA MaxOf ==
    ASSUME NEW S \in SUBSET Nat, S # {}, NEW b \in Nat, \A x \in S : x <= b
    PROVE  Max(S) \in S /\ \A x \in S : x <= Max(S)
  <1> DEFINE T == {b - x : x \in S}
  <1>1. T \in SUBSET Nat /\ T # {}
    <2>1. ASSUME NEW x \in S PROVE b - x \in Nat
      <3>1. x \in Nat /\ x <= b
        OBVIOUS
      <3>2. QED
        BY <3>1
    <2>2. T \in SUBSET Nat
      BY <2>1
    <2>3. PICK x \in S : TRUE
      OBVIOUS
    <2>4. b - x \in T
      BY <2>3
    <2>5. QED
      BY <2>2, <2>4
  <1> HIDE DEF T
  <1>2. PICK m \in T : \A y \in T : m <= y
    BY <1>1, HasLeast
  <1>3. PICK x \in S : m = b - x
    BY DEF T
  <1>4. \A y \in S : x >= y
    <2> SUFFICES ASSUME NEW y \in S PROVE x >= y
      OBVIOUS
    <2>1. b - x <= b - y
      BY <1>2, <1>3 DEF T
    <2>2. QED
      BY <2>1
  <1>5. QED
    BY <1>4 DEF Max

-----------------------------------------------------------------------------
(* The stored entries are those after the purged ones. *)

LEMMA LengthIsNat ==
    ASSUME HistoryIsSequence
    PROVE  Len(history) \in Nat
  BY DEF HistoryIsSequence

LEMMA LastIsNewest ==
    ASSUME NothingLost, HistoryIsSequence
    PROVE  LastSequence = Len(history)
  <1>1. /\ Len(history) \in Nat /\ purged \in Nat /\ purged <= Len(history)
        /\ DOMAIN stored = purged + 1 .. Len(history)
    BY LengthIsNat DEF NothingLost, AuditTypeOK, Start
  <1>2. CASE DOMAIN stored = {}
    BY <1>1, <1>2 DEF LastSequence
  <1>3. CASE DOMAIN stored # {}
    <2>1. DOMAIN stored \in SUBSET Nat /\ \A n \in DOMAIN stored : n <= Len(history)
      BY <1>1
    <2>2. Max(DOMAIN stored) \in DOMAIN stored /\ \A n \in DOMAIN stored : n <= Max(DOMAIN stored)
      BY <1>1, <1>3, <2>1, MaxOf
    <2>3. Len(history) \in DOMAIN stored
      BY <1>1, <1>3
    <2>4. QED
      BY <1>1, <1>3, <2>2, <2>3 DEF LastSequence
  <1>4. QED
    BY <1>2, <1>3

(* The hash the next entry, or the next verified one, is checked against.   *)
LEMMA HashAtIsHistory ==
    ASSUME NothingLost, HistoryIsSequence, NEW n \in purged .. Len(history)
    PROVE  HashAt(n) = IF n = 0 THEN Genesis ELSE history[n].hash
  <1>1. /\ Len(history) \in Nat /\ purged \in Nat
        /\ DOMAIN stored = purged + 1 .. Len(history)
    BY LengthIsNat DEF NothingLost, AuditTypeOK, Start
  <1>2. CASE n = purged
    BY <1>1, <1>2 DEF HashAt, StartHash, NothingLost
  <1>3. CASE n # purged
    <2>1. n \in DOMAIN stored /\ n # 0
      BY <1>1, <1>3
    <2>2. QED
      BY <1>3, <2>1 DEF HashAt, NothingLost
  <1>4. QED
    BY <1>2, <1>3

-----------------------------------------------------------------------------
(* The operations. *)

LEMMA AppendKeeps ==
    ASSUME ChainInvariant, NEW payload \in Payloads, NEW at \in Stamps,
           AppendAuditEntry(payload, at)
    PROVE  ChainInvariant'
  <1> DEFINE n == Len(history) + 1
             prev == HashAt(Len(history))
             entry == [at |-> at, payload |-> payload, prev |-> prev,
                       hash |-> HashOf(n, at, payload, prev)]
  <1>1. /\ Len(history) \in Nat /\ purged \in Nat /\ purged <= Len(history)
        /\ DOMAIN stored = purged + 1 .. Len(history)
    BY LengthIsNat DEF ChainInvariant, NothingLost, AuditTypeOK, Start
  <1>2. LastSequence = Len(history)
    BY LastIsNewest DEF ChainInvariant
  <1>3. /\ stored' = [i \in DOMAIN stored \cup {n} |-> IF i = n THEN entry ELSE stored[i]]
        /\ history' = Append(history, entry)
        /\ late' \in BOOLEAN
        /\ UNCHANGED <<purged, purgedHash, anchors, clock, altered>>
    BY <1>2 DEF AppendAuditEntry
  <1>4. /\ entry.at = at /\ entry.payload = payload /\ entry.prev = prev
        /\ entry.hash = HashOf(n, at, payload, prev)
        /\ IsEntry(entry)
    BY DEF IsEntry
  <1>5. prev = IF n = 1 THEN Genesis ELSE history[n - 1].hash
    BY <1>1, HashAtIsHistory DEF ChainInvariant
  <1>6. at \in 0 .. MaxClock
    BY DEF Stamps
  <1> HIDE DEF entry, prev
  <1>7. PICK E : history \in Seq(E)
    BY DEF ChainInvariant, HistoryIsSequence
  <1>8. history' \in Seq(E \cup {entry})
    <2>1. history \in Seq(E \cup {entry}) /\ entry \in E \cup {entry}
      BY <1>7
    <2>2. QED
      BY <1>3, <2>1
  <1>9. /\ Len(history') = n
        /\ history'[n] = entry
        /\ \A i \in 1 .. Len(history) : history'[i] = history[i]
    BY <1>3, <1>7
  <1>10. /\ DOMAIN stored' = purged' + 1 .. Len(history')
         /\ stored'[n] = entry
         /\ \A i \in DOMAIN stored : stored'[i] = stored[i]
         /\ stored' = [i \in DOMAIN stored' |-> stored'[i]]
    BY <1>1, <1>3, <1>9
  <1>11. NothingLost'
    <2>1. AuditTypeOK'
      BY <1>1, <1>3, <1>4, <1>6, <1>9 DEF ChainInvariant, NothingLost, AuditTypeOK, Anchored
    <2>2. purged' <= Len(history') /\ DOMAIN stored' = Start' .. Len(history')
      BY <1>1, <1>3, <1>9, <1>10 DEF Start
    <2>3. ASSUME NEW i \in DOMAIN stored'
          PROVE  /\ stored'[i].hash = history'[i].hash
                 /\ stored'[i].prev = history'[i].prev
                 /\ stored'[i].at = history'[i].at
                 /\ altered' = 0 => stored'[i].payload = history'[i].payload
      <3>1. CASE i = n
        BY <1>9, <1>10, <3>1
      <3>2. CASE i # n
        <4>1. i \in DOMAIN stored /\ i \in 1 .. Len(history)
          BY <1>1, <1>3, <1>9, <1>10, <2>3, <3>2
        <4>2. QED
          BY <1>3, <1>9, <1>10, <4>1 DEF ChainInvariant, NothingLost
      <3>3. QED
        BY <3>1, <3>2
    <2>4. purged' > 0 => purgedHash' = history'[purged'].hash
      BY <1>1, <1>3, <1>9 DEF ChainInvariant, NothingLost
    <2>5. history'[1].prev = Genesis
      BY <1>1, <1>4, <1>5, <1>9 DEF ChainInvariant, NothingLost
    <2>6. ASSUME NEW i \in 2 .. Len(history')
          PROVE  history'[i].prev = history'[i - 1].hash
      <3>1. CASE i = n
        BY <1>1, <1>4, <1>5, <1>9, <2>6, <3>1
      <3>2. CASE i # n
        BY <1>1, <1>9, <2>6, <3>2 DEF ChainInvariant, NothingLost
      <3>3. QED
        BY <3>1, <3>2
    <2>7. QED
      BY <2>1, <2>2, <2>3, <2>4, <2>5, <2>6 DEF NothingLost
  <1>12. PurgedWasAnchored' /\ AnchorsTyped'
    BY <1>3 DEF ChainInvariant, PurgedWasAnchored, AnchorsTyped, Anchored
  <1>13. StoredIsTable'
    <2>1. ASSUME NEW i \in DOMAIN stored' PROVE IsEntry(stored'[i])
      BY <1>3, <1>4, <1>10 DEF ChainInvariant, StoredIsTable
    <2>2. QED
      BY <1>10, <2>1 DEF StoredIsTable
  <1>14. HistoryIsSequence'
    BY <1>8 DEF HistoryIsSequence
  <1>15. HashesCover'
    <2> SUFFICES ASSUME NEW i \in 1 .. n
                 PROVE  history'[i].hash = HashOf(i, history'[i].at, history'[i].payload,
                                                  history'[i].prev)
      BY <1>9 DEF HashesCover
    <2>1. CASE i = n
      BY <1>4, <1>9, <2>1
    <2>2. CASE i # n
      BY <1>1, <1>9, <2>2 DEF ChainInvariant, HashesCover
    <2>3. QED
      BY <2>1, <2>2
  <1>16. QED
    BY <1>11, <1>12, <1>13, <1>14, <1>15 DEF ChainInvariant

(* A new anchor reaches further than the purge, for it ends at an entry     *)
(* that is still stored.                                                    *)
LEMMA AnchorKeeps ==
    ASSUME ChainInvariant, WriteAuditAnchor
    PROVE  ChainInvariant'
  <1> DEFINE day == AnchoredDay
             S == Recorded(day)
             row == AnchorOf(day)
  <1>1. /\ Len(history) \in Nat /\ purged \in Nat
        /\ DOMAIN stored = purged + 1 .. Len(history)
    BY LengthIsNat DEF ChainInvariant, NothingLost, AuditTypeOK, Start
  <1>2. S \in SUBSET Nat /\ S # {} /\ \A n \in S : n <= Len(history) /\ n > purged
    BY <1>1 DEF WriteAuditAnchor, Recorded
  <1>3. /\ Max(S) \in S /\ \A n \in S : n <= Max(S)
        /\ Min(S) \in S
    <2> HIDE DEF S
    <2>1. QED
      BY <1>1, <1>2, MaxOf, MinOf
  <1>4. row.first = Min(S) /\ row.last = Max(S)
    BY DEF AnchorOf
  <1>5. /\ day \in Days
        /\ anchors' = [d \in Anchored \cup {day} |-> IF d = day THEN row ELSE anchors[d]]
        /\ UNCHANGED <<stored, purged, purgedHash, clock, history, altered, late>>
    BY DEF WriteAuditAnchor
  <1> HIDE DEF S, row, day
  <1>6. /\ Anchored' = Anchored \cup {day}
        /\ anchors'[day] = row
        /\ \A d \in Anchored \ {day} : anchors'[d] = anchors[d]
    BY <1>5 DEF Anchored
  <1>7. row.first <= row.last /\ row.last \in Nat /\ row.last > purged
    BY <1>2, <1>3, <1>4
  <1>8. AuditTypeOK'
    BY <1>5, <1>6, <1>7 DEF ChainInvariant, NothingLost, AuditTypeOK
  <1>9. NothingLost'
    BY <1>5, <1>8 DEF ChainInvariant, NothingLost, Start
  <1>10. PurgedWasAnchored'
    <2>1. row.last >= purged'
      BY <1>1, <1>5, <1>7
    <2>2. QED
      BY <1>6, <2>1 DEF PurgedWasAnchored
  <1>11. AnchorsTyped'
    BY <1>6, <1>7 DEF ChainInvariant, AnchorsTyped
  <1>12. QED
    BY <1>5, <1>9, <1>10, <1>11 DEF ChainInvariant, StoredIsTable, HistoryIsSequence, HashesCover

LEMMA PurgeKeeps ==
    ASSUME ChainInvariant, PurgeExpiredAudit
    PROVE  ChainInvariant'
  <1> DEFINE m == Max(Releasable)
  <1>1. /\ Len(history) \in Nat /\ purged \in Nat
        /\ DOMAIN stored = purged + 1 .. Len(history)
    BY LengthIsNat DEF ChainInvariant, NothingLost, AuditTypeOK, Start
  <1>2. m \in Releasable
    <2>1. /\ Releasable \in SUBSET Nat /\ Releasable # {}
          /\ \A n \in Releasable : n <= Len(history)
      BY <1>1 DEF PurgeExpiredAudit, Releasable
    <2>2. QED
      BY <1>1, <2>1, MaxOf
  <1>3. /\ m \in DOMAIN stored
        /\ \E d \in Anchored : m <= anchors[d].last
    BY <1>2 DEF Releasable
  <1>4. /\ purged' = m
        /\ purgedHash' = stored[m].hash
        /\ stored' = [n \in {i \in DOMAIN stored : i > m} |-> stored[n]]
        /\ UNCHANGED <<anchors, clock, history, altered, late>>
    BY DEF PurgeExpiredAudit
  <1> HIDE DEF m
  <1>5. /\ DOMAIN stored' = m + 1 .. Len(history')
        /\ \A n \in DOMAIN stored' : n \in DOMAIN stored /\ stored'[n] = stored[n]
        /\ stored' = [n \in DOMAIN stored' |-> stored'[n]]
    BY <1>1, <1>3, <1>4
  <1>6. AuditTypeOK'
    <2>1. purged' \in Nat
      BY <1>1, <1>3, <1>4
    <2>2. QED
      BY <1>4, <2>1 DEF ChainInvariant, NothingLost, AuditTypeOK, Anchored
  <1>7. NothingLost'
    <2>1. purged' <= Len(history') /\ DOMAIN stored' = Start' .. Len(history')
      BY <1>1, <1>3, <1>4, <1>5 DEF Start
    <2>2. purgedHash' = history'[purged'].hash
      BY <1>3, <1>4 DEF ChainInvariant, NothingLost
    <2>3. ASSUME NEW n \in DOMAIN stored'
          PROVE  /\ stored'[n].hash = history'[n].hash
                 /\ stored'[n].prev = history'[n].prev
                 /\ stored'[n].at = history'[n].at
                 /\ altered' = 0 => stored'[n].payload = history'[n].payload
      BY <1>4, <1>5 DEF ChainInvariant, NothingLost
    <2>4. /\ Len(history') > 0 => history'[1].prev = Genesis
          /\ \A n \in 2 .. Len(history') : history'[n].prev = history'[n - 1].hash
      BY <1>4 DEF ChainInvariant, NothingLost
    <2>5. QED
      BY <1>6, <2>1, <2>2, <2>3, <2>4 DEF NothingLost
  <1>8. PurgedWasAnchored' /\ AnchorsTyped'
    BY <1>3, <1>4 DEF ChainInvariant, PurgedWasAnchored, AnchorsTyped, Anchored
  <1>9. StoredIsTable'
    BY <1>5 DEF ChainInvariant, StoredIsTable
  <1>10. QED
    BY <1>4, <1>7, <1>8, <1>9 DEF ChainInvariant, HistoryIsSequence, HashesCover

LEMMA AlterKeeps ==
    ASSUME ChainInvariant, NEW n \in DOMAIN stored, NEW payload \in Payloads,
           Alter(n, payload)
    PROVE  ChainInvariant'
  <1>1. /\ stored' = [stored EXCEPT ![n].payload = payload]
        /\ altered' = altered + 1 /\ altered < MaxAlterations
        /\ UNCHANGED <<purged, purgedHash, anchors, clock, history, late>>
    BY DEF Alter
  <1>2. altered' \in 0 .. MaxAlterations /\ altered' # 0
    <2>1. altered \in 0 .. MaxAlterations /\ MaxAlterations \in Nat
      BY AuditAssumption DEF ChainInvariant, NothingLost, AuditTypeOK
    <2> QED BY <1>1, <2>1
  <1>3. /\ DOMAIN stored' = DOMAIN stored
        /\ \A i \in DOMAIN stored : i # n => stored'[i] = stored[i]
        /\ stored'[n] = [at |-> stored[n].at, payload |-> payload,
                         prev |-> stored[n].prev, hash |-> stored[n].hash]
        /\ stored' = [i \in DOMAIN stored' |-> stored'[i]]
    <2>1. stored[n] = [at |-> stored[n].at, payload |-> stored[n].payload,
                       prev |-> stored[n].prev, hash |-> stored[n].hash]
      BY DEF ChainInvariant, StoredIsTable, IsEntry
    <2>2. stored' = [i \in DOMAIN stored |->
                        IF i = n THEN [stored[n] EXCEPT !.payload = payload] ELSE stored[i]]
      BY <1>1
    <2>3. [stored[n] EXCEPT !.payload = payload] =
             [at |-> stored[n].at, payload |-> payload,
              prev |-> stored[n].prev, hash |-> stored[n].hash]
      BY <2>1
    <2>4. QED
      BY <2>2, <2>3
  <1>4. \A i \in DOMAIN stored : /\ stored'[i].at = stored[i].at
                                 /\ stored'[i].prev = stored[i].prev
                                 /\ stored'[i].hash = stored[i].hash
    BY <1>3
  <1>5. AuditTypeOK'
    BY <1>1, <1>2 DEF ChainInvariant, NothingLost, AuditTypeOK, Anchored
  <1>6. NothingLost'
    BY <1>1, <1>2, <1>3, <1>4, <1>5 DEF ChainInvariant, NothingLost, Start
  <1>7. StoredIsTable'
    <2>1. ASSUME NEW i \in DOMAIN stored' PROVE IsEntry(stored'[i])
      <3>1. CASE i = n
        BY <1>3, <3>1 DEF IsEntry
      <3>2. CASE i # n
        BY <1>3, <2>1, <3>2 DEF ChainInvariant, StoredIsTable
      <3>3. QED
        BY <3>1, <3>2
    <2>2. QED
      BY <1>3, <2>1 DEF StoredIsTable
  <1>8. QED
    BY <1>1, <1>6, <1>7 DEF ChainInvariant, PurgedWasAnchored, HistoryIsSequence, HashesCover,
                            AnchorsTyped, Anchored

LEMMA TickKeeps ==
    ASSUME ChainInvariant, Tick
    PROVE  ChainInvariant'
  <1>1. /\ clock' \in 0 .. MaxClock
        /\ UNCHANGED <<stored, purged, purgedHash, anchors, history, altered, late>>
    BY AuditAssumption DEF Tick, ChainInvariant, NothingLost, AuditTypeOK
  <1>2. QED
    BY <1>1 DEF ChainInvariant, NothingLost, AuditTypeOK, Start, PurgedWasAnchored,
                StoredIsTable, HistoryIsSequence, HashesCover, AnchorsTyped, Anchored

LEMMA StutterKeeps ==
    ASSUME ChainInvariant, UNCHANGED vars
    PROVE  ChainInvariant'
  BY DEF vars, ChainInvariant, NothingLost, AuditTypeOK, Start, PurgedWasAnchored,
         StoredIsTable, HistoryIsSequence, HashesCover, AnchorsTyped, Anchored

LEMMA InitChain ==
    ASSUME Init
    PROVE  ChainInvariant
  <1>1. history = <<>> /\ Len(history) = 0 /\ DOMAIN stored = {} /\ Anchored = {}
    BY DEF Init, Anchored
  <1>2. AuditTypeOK
    <2>1. purged \in Nat /\ clock \in 0 .. MaxClock /\ altered \in 0 .. MaxAlterations
      BY AuditAssumption DEF Init
    <2>2. late \in BOOLEAN
      BY Zenon DEF Init
    <2>3. 1 .. Len(history) = {}
      BY <1>1
    <2>4. QED
      BY <1>1, <2>1, <2>2, <2>3 DEF AuditTypeOK
  <1>3. NothingLost /\ PurgedWasAnchored
    BY <1>1, <1>2 DEF Init, NothingLost, PurgedWasAnchored, Start
  <1>4. HistoryIsSequence
    <2>1. history \in Seq({})
      BY <1>1
    <2>2. QED
      BY <2>1 DEF HistoryIsSequence
  <1>5. QED
    BY <1>1, <1>3, <1>4 DEF Init, ChainInvariant, StoredIsTable, HashesCover, AnchorsTyped

LEMMA ChainCorrect == Spec => []ChainInvariant
<1>1. Init => ChainInvariant
  BY InitChain
<1>2. ChainInvariant /\ [Next]_vars => ChainInvariant'
  BY AppendKeeps, AnchorKeeps, PurgeKeeps, AlterKeeps, TickKeeps, StutterKeeps DEF Next
<1>3. QED
  BY <1>1, <1>2, PTL DEF Spec

-----------------------------------------------------------------------------

(* However often the sweep runs and whatever is altered from outside, the   *)
(* stored entries and the purged ones are the whole history without a gap.  *)
THEOREM ChainIsWhole == Spec => []NothingLost
<1>1. ChainInvariant => NothingLost
  BY DEF ChainInvariant
<1>2. QED
  BY <1>1, ChainCorrect, PTL

(* Retention releases only what an anchor covers, although the same day may *)
(* be anchored again after a purge.                                         *)
THEOREM RetentionIsAnchored == Spec => []PurgedWasAnchored
<1>1. ChainInvariant => PurgedWasAnchored
  BY DEF ChainInvariant
<1>2. QED
  BY <1>1, ChainCorrect, PTL

LEMMA IntactVerifies ==
    ASSUME ChainInvariant, InOrder, altered = 0
    PROVE  Verified(LastSequence)
  <1>1. /\ Len(history) \in Nat /\ purged \in Nat
        /\ DOMAIN stored = purged + 1 .. Len(history)
    BY LengthIsNat DEF ChainInvariant, NothingLost, AuditTypeOK, Start
  <1>2. LastSequence = Len(history)
    BY LastIsNewest DEF ChainInvariant
  <1> SUFFICES ASSUME NEW n \in Start .. Len(history)
               PROVE  n \in DOMAIN stored /\ Link(n)
    BY <1>2 DEF Verified
  <1>3. n \in DOMAIN stored /\ n \in 1 .. Len(history) /\ n - 1 \in purged .. Len(history)
    BY <1>1 DEF Start
  <1>4. /\ stored[n].hash = history[n].hash
        /\ stored[n].prev = history[n].prev
        /\ stored[n].at = history[n].at
        /\ stored[n].payload = history[n].payload
    BY <1>3 DEF ChainInvariant, NothingLost
  <1>5. stored[n].prev = HashAt(n - 1)
    <2>1. HashAt(n - 1) = IF n - 1 = 0 THEN Genesis ELSE history[n - 1].hash
      BY <1>3, HashAtIsHistory DEF ChainInvariant
    <2>2. CASE n = 1
      BY <1>3, <1>4, <2>1, <2>2 DEF ChainInvariant, NothingLost
    <2>3. CASE n # 1
      BY <1>1, <1>3, <1>4, <2>1, <2>3 DEF ChainInvariant, NothingLost
    <2>4. QED
      BY <2>2, <2>3
  <1>6. n > Start => stored[n].at >= stored[n - 1].at
    <2> SUFFICES ASSUME n > Start PROVE stored[n].at >= stored[n - 1].at
      OBVIOUS
    <2>1. n \in 2 .. Len(history) /\ n - 1 \in DOMAIN stored
      BY <1>1, <1>3 DEF Start
    <2>2. history[n].at >= history[n - 1].at
      BY <2>1 DEF InOrder
    <2>3. stored[n - 1].at = history[n - 1].at
      BY <2>1 DEF ChainInvariant, NothingLost
    <2>4. QED
      BY <1>4, <2>2, <2>3
  <1>7. stored[n].hash = HashOf(n, stored[n].at, stored[n].payload, stored[n].prev)
    BY <1>3, <1>4 DEF ChainInvariant, HashesCover
  <1>8. QED
    BY <1>3, <1>5, <1>6, <1>7 DEF Link

(* What only the program wrote, with no stamps overtaking each other,       *)
(* verifies from wherever the last purge left the chain, at any length.     *)
THEOREM IntactChainVerifies == Spec => []ChainVerifies
<1>1. ChainInvariant => ChainVerifies
  BY IntactVerifies DEF ChainVerifies
<1>2. QED
  BY <1>1, ChainCorrect, PTL

-----------------------------------------------------------------------------
(* Days. *)

LEMMA DayIs ==
    ASSUME NEW t \in Nat
    PROVE  /\ Day(t) \in Nat
           /\ DayLength * Day(t) <= t /\ t < DayLength * Day(t) + DayLength
<1>1. DayLength \in Nat /\ DayLength > 0
  BY AuditAssumption
<1>2. t \div DayLength \in Int
  BY <1>1
<1>3. t = DayLength * (t \div DayLength) + (t % DayLength)
  BY <1>1
<1>4. t % DayLength \in Nat /\ t % DayLength < DayLength
  BY <1>1
<1> QED BY <1>1, <1>2, <1>3, <1>4 DEF Day

LEMMA TimesGrows ==
    ASSUME NEW a \in Nat, NEW b \in Nat, NEW k \in Nat, a < b
    PROVE  k * a + k <= k * b
<1>1. PICK c \in Nat : b = a + 1 + c
  OBVIOUS
<1>2. k * b = k * a + k + k * c
  BY <1>1
<1>3. k * c \in Nat /\ k * a \in Nat
  OBVIOUS
<1> QED BY <1>2, <1>3

LEMMA DayGrows ==
    ASSUME NEW s \in Nat, NEW t \in Nat, s <= t
    PROVE  Day(s) <= Day(t)
<1>1. DayLength \in Nat /\ DayLength > 0
  BY AuditAssumption
<1>2. /\ Day(s) \in Nat /\ Day(t) \in Nat /\ DayLength * Day(s) <= s /\ t < DayLength * Day(t) + DayLength
      /\ DayLength * Day(s) \in Nat /\ DayLength * Day(t) \in Nat
  BY <1>1, DayIs
<1>3. ASSUME Day(t) < Day(s) PROVE FALSE
  <2>1. DayLength * Day(t) + DayLength <= DayLength * Day(s)
    BY <1>1, <1>2, <1>3, TimesGrows
  <2> QED BY <1>1, <1>2, <2>1
<1> QED BY <1>2, <1>3

(* What has expired is not of yesterday. *)
LEMMA ExpiredBefore ==
    ASSUME NEW t \in Nat, NEW now \in Nat, t <= now - Retention
    PROVE  Day(t) < Day(now) - 1
<1>1. DayLength \in Nat /\ DayLength > 0 /\ Retention \in Nat /\ Retention >= 2 * DayLength
  BY AuditAssumption
<1>2. t + 2 * DayLength <= now /\ t + 2 * DayLength \in Nat
  BY <1>1
<1>3. /\ Day(t) \in Nat /\ Day(now) \in Nat
      /\ DayLength * Day(t) <= t /\ now < DayLength * Day(now) + DayLength
      /\ DayLength * Day(t) \in Nat /\ DayLength * Day(now) \in Nat
  BY <1>1, DayIs
<1>4. ASSUME Day(now) < Day(t) + 2 PROVE FALSE
  <2>1. DayLength * Day(now) + DayLength <= DayLength * (Day(t) + 2)
    BY <1>1, <1>3, <1>4, TimesGrows
  <2>2. DayLength * (Day(t) + 2) = DayLength * Day(t) + 2 * DayLength
    BY <1>1, <1>3
  <2> QED BY <1>1, <1>2, <1>3, <2>1, <2>2
<1> QED BY <1>3, <1>4

-----------------------------------------------------------------------------
(* What the anchors rest on. *)

StampsKnown == \A n \in 1 .. Len(history) : history[n].at <= clock
PayloadsKnown == \A n \in DOMAIN stored : stored[n].payload \in Payloads
EntriesShaped == \A n \in 1 .. Len(history) : IsEntry(history[n])

(* What was purged had expired. *)
PurgedExpired ==
    InOrder \/ Len(history) <= VerifyLimit =>
        \A n \in 1 .. purged : history[n].at <= clock - Retention

AnchorShaped(d) ==
    /\ anchors[d].first \in Nat \ {0} /\ anchors[d].last \in Nat /\ anchors[d].last <= Len(history)
    /\ d < Day(clock)

AnchorTrue(d) ==
    /\ anchors[d].hash = history[anchors[d].last].hash
    /\ anchors[d].count = anchors[d].last - anchors[d].first + 1
    /\ \A n \in anchors[d].first .. anchors[d].last : Day(history[n].at) = d

(* Where a verification reads everything, what is anchored is in order. *)
AnchorsRead ==
    Len(history) <= VerifyLimit =>
        \A d \in Anchored : \A n \in purged + 2 .. anchors[d].last : history[n].at >= history[n - 1].at

(* Where no entry came late, the entries' days follow one another, and the  *)
(* anchor of yesterday is what it would be now.                             *)
DaysFollow ==
    ~late => \A m, n \in 1 .. Len(history) : m <= n => Day(history[m].at) <= Day(history[n].at)
YesterdaySealed ==
    ~late /\ AnchoredDay \in Anchored =>
        Recorded(AnchoredDay) # {} /\ anchors[AnchoredDay] = AnchorOf(AnchoredDay)

AnchorInvariant ==
    /\ StampsKnown /\ PayloadsKnown /\ EntriesShaped /\ PurgedExpired
    /\ \A d \in Anchored : AnchorShaped(d)
    /\ InOrder => \A d \in Anchored : AnchorTrue(d)
    /\ AnchorsRead /\ DaysFollow /\ YesterdaySealed

LEMMA ChainFacts ==
    ASSUME ChainInvariant
    PROVE  /\ Len(history) \in Nat /\ purged \in Nat /\ purged <= Len(history)
           /\ DOMAIN stored = purged + 1 .. Len(history) /\ DOMAIN stored \subseteq 1 .. Len(history)
           /\ LastSequence = Len(history) /\ clock \in Nat
           /\ \A n \in 1 .. Len(history) : history[n].at \in Nat /\ history[n].payload \in Payloads
           /\ \A n \in DOMAIN stored : stored[n].at = history[n].at /\ stored[n].hash = history[n].hash
                                       /\ stored[n].prev = history[n].prev /\ stored[n].at \in Nat
           /\ VerifyLimit \in Nat /\ Retention \in Nat
<1>1. /\ Len(history) \in Nat /\ purged \in Nat /\ purged <= Len(history)
      /\ DOMAIN stored = purged + 1 .. Len(history)
  BY LengthIsNat DEF ChainInvariant, NothingLost, AuditTypeOK, Start
<1>2. LastSequence = Len(history)
  BY LastIsNewest DEF ChainInvariant
<1>3. clock \in Nat /\ \A n \in 1 .. Len(history) : history[n].at \in Nat /\ history[n].payload \in Payloads
  BY AuditAssumption DEF ChainInvariant, NothingLost, AuditTypeOK
<1>4. \A n \in DOMAIN stored : stored[n].at = history[n].at /\ stored[n].hash = history[n].hash
                               /\ stored[n].prev = history[n].prev
  BY DEF ChainInvariant, NothingLost
<1>5. DOMAIN stored \subseteq 1 .. Len(history)
  BY <1>1
<1> QED BY <1>1, <1>2, <1>3, <1>4, <1>5, AuditAssumption

LEMMA NoLater ==
    ASSUME NEW x \in Nat, NEW y \in Nat, NEW z \in Nat, x <= y, z >= y
    PROVE  x <= z
OBVIOUS

(* Entries that are in order one by one are in order. *)
LEMMA OrderedApart ==
    ASSUME ChainInvariant, NEW a \in 1 .. Len(history), NEW b \in a .. Len(history),
           \A n \in a + 1 .. b : history[n].at >= history[n - 1].at
    PROVE  history[a].at <= history[b].at
<1> DEFINE S == {n \in a .. b : ~(history[a].at <= history[n].at)}
<1>1. Len(history) \in Nat /\ \A n \in 1 .. Len(history) : history[n].at \in Nat
  BY ChainFacts
<1>2. a \in Nat /\ b \in Nat /\ a <= b /\ a >= 1 /\ b <= Len(history)
  BY <1>1
<1>3. S \in SUBSET Nat
  BY <1>2
<1>4. ASSUME S # {} PROVE FALSE
  <2> HIDE DEF S
  <2>1. PICK k \in S : \A y \in S : k <= y
    BY <1>3, <1>4, HasLeast
  <2> USE DEF S
  <2>2. k \in a .. b /\ ~(history[a].at <= history[k].at)
    BY <2>1
  <2> HIDE DEF S
  <2>3. k # a
    BY <1>1, <1>2, <2>2
  <2>4. k \in a + 1 .. b /\ k - 1 \in a .. b /\ k - 1 \in 1 .. Len(history) /\ k \in 1 .. Len(history)
        /\ ~(k <= k - 1)
    BY <1>2, <2>2, <2>3
  <2>5. k - 1 \notin S
    BY <2>1, <2>4
  <2>6. history[a].at <= history[k - 1].at
    BY <2>4, <2>5 DEF S
  <2>7. history[k].at >= history[k - 1].at
    BY <2>4
  <2>8. history[a].at \in Nat /\ history[k].at \in Nat /\ history[k - 1].at \in Nat
    <3>1. a \in 1 .. Len(history) /\ k \in 1 .. Len(history) /\ k - 1 \in 1 .. Len(history)
      BY <2>4
    <3> QED BY <1>1, <3>1
  <2>9. ~(history[a].at <= history[k].at)
    BY <2>2
  <2> QED BY <2>6, <2>7, <2>8, <2>9, NoLater
<1> QED BY <1>2, <1>4

LEMMA InOrderApart ==
    ASSUME ChainInvariant, InOrder
    PROVE  \A m, n \in 1 .. Len(history) : m <= n => history[m].at <= history[n].at
<1> SUFFICES ASSUME NEW m \in 1 .. Len(history), NEW n \in 1 .. Len(history), m <= n
             PROVE  history[m].at <= history[n].at
  OBVIOUS
<1>1. n \in m .. Len(history)
  BY ChainFacts
<1>2. \A k \in m + 1 .. n : k \in 2 .. Len(history)
  BY ChainFacts
<1>3. \A k \in m + 1 .. n : history[k].at >= history[k - 1].at
  BY <1>2 DEF InOrder
<1> QED BY <1>1, <1>3, OrderedApart

-----------------------------------------------------------------------------
(* Time goes by, and entries are altered. *)

LEMMA SameAnchors ==
    ASSUME UNCHANGED <<history, anchors, purged>>
    PROVE  /\ AnchorsRead => AnchorsRead'
           /\ (InOrder => \A d \in Anchored : AnchorTrue(d)) => (InOrder => \A d \in Anchored : AnchorTrue(d))'
BY DEF AnchorsRead, InOrder, AnchorTrue, Anchored

LEMMA TickAnchors ==
    ASSUME ChainInvariant, AnchorInvariant, Tick
    PROVE  AnchorInvariant'
<1>1. clock' = clock + 1 /\ UNCHANGED <<stored, purged, purgedHash, anchors, history, altered, late>>
  BY DEF Tick
<1>2. /\ clock \in Nat /\ clock' \in Nat /\ clock <= clock' /\ Retention \in Nat
      /\ Day(clock) \in Nat /\ Day(clock') \in Nat /\ Day(clock) <= Day(clock')
      /\ Len(history) \in Nat /\ purged \in Nat /\ purged <= Len(history)
      /\ \A n \in 1 .. Len(history) : history[n].at \in Nat
  <2>1. /\ clock \in Nat /\ Retention \in Nat
        /\ Len(history) \in Nat /\ purged \in Nat /\ purged <= Len(history)
        /\ \A n \in 1 .. Len(history) : history[n].at \in Nat
    BY ChainFacts
  <2> DEFINE next == clock'
  <2>2. next \in Nat /\ clock <= next
    BY <1>1, <2>1
  <2> HIDE DEF next
  <2>3. Day(clock) \in Nat /\ Day(next) \in Nat /\ Day(clock) <= Day(next)
    BY <2>1, <2>2, DayIs, DayGrows
  <2> QED BY <2>1, <2>2, <2>3 DEF next
<1>3. StampsKnown' /\ PayloadsKnown' /\ EntriesShaped'
  BY <1>1, <1>2 DEF AnchorInvariant, StampsKnown, PayloadsKnown, EntriesShaped
<1>4. PurgedExpired'
  <2> SUFFICES ASSUME InOrder \/ Len(history) <= VerifyLimit, NEW n \in 1 .. purged
               PROVE  history[n].at <= clock' - Retention
    BY <1>1 DEF PurgedExpired, InOrder
  <2>1. history[n].at <= clock - Retention
    BY DEF AnchorInvariant, PurgedExpired
  <2>2. n \in 1 .. Len(history)
    BY <1>2
  <2>3. history[n].at \in Nat
    BY <1>2, <2>2
  <2>4. clock \in Nat /\ clock' \in Nat /\ clock <= clock' /\ Retention \in Nat
    BY <1>2
  <2> QED BY <2>1, <2>3, <2>4
<1>5. \A d \in Anchored' : AnchorShaped(d)'
  <2> SUFFICES ASSUME NEW d \in Anchored PROVE AnchorShaped(d)'
    BY <1>1 DEF Anchored
  <2>1. AnchorShaped(d)
    BY DEF AnchorInvariant
  <2>2. d \in Nat
    BY AuditAssumption DEF ChainInvariant, NothingLost, AuditTypeOK, Days
  <2>3. d < Day(clock')
    BY <1>2, <2>1, <2>2 DEF AnchorShaped
  <2> QED BY <1>1, <2>1, <2>3 DEF AnchorShaped
<1>6. AnchorsRead' /\ (InOrder => \A d \in Anchored : AnchorTrue(d))'
  BY <1>1, SameAnchors DEF AnchorInvariant
<1>7. DaysFollow'
  BY <1>1 DEF AnchorInvariant, DaysFollow
<1>8. YesterdaySealed'
  <2> SUFFICES ASSUME ~late, AnchoredDay' \in Anchored
               PROVE  (Recorded(AnchoredDay) # {} /\ anchors[AnchoredDay] = AnchorOf(AnchoredDay))'
    BY <1>1 DEF YesterdaySealed, Anchored
  <2>1. AnchoredDay' < Day(clock)
    BY DEF AnchorInvariant, AnchorShaped
  <2>2. AnchoredDay' = AnchoredDay
    BY <1>2, <2>1 DEF AnchoredDay
  <2>3. Recorded(AnchoredDay) # {} /\ anchors[AnchoredDay] = AnchorOf(AnchoredDay)
    BY <2>2 DEF AnchorInvariant, YesterdaySealed
  <2>4. Recorded(AnchoredDay)' = Recorded(AnchoredDay)
    BY <1>1, <2>2 DEF Recorded
  <2>5. AnchorOf(AnchoredDay)' = AnchorOf(AnchoredDay)
    BY <1>1, <2>4 DEF AnchorOf
  <2> QED BY <1>1, <2>2, <2>3, <2>4, <2>5
<1> QED BY <1>3, <1>4, <1>5, <1>6, <1>7, <1>8 DEF AnchorInvariant

(* An alteration leaves the stamps and the hashes. *)
LEMMA AlterAnchors ==
    ASSUME ChainInvariant, AnchorInvariant, NEW n \in DOMAIN stored, NEW payload \in Payloads, Alter(n, payload)
    PROVE  AnchorInvariant'
<1>1. /\ stored' = [stored EXCEPT ![n].payload = payload]
      /\ UNCHANGED <<purged, purgedHash, anchors, clock, history, late>>
  BY DEF Alter
<1>2. /\ stored = [i \in DOMAIN stored |-> stored[i]]
      /\ \A i \in DOMAIN stored : IsEntry(stored[i])
  BY DEF ChainInvariant, StoredIsTable
<1>3. DOMAIN stored' = DOMAIN stored /\ \A i \in DOMAIN stored : i # n => stored'[i] = stored[i]
  BY <1>1, <1>2
<1>4. stored'[n] = [stored[n] EXCEPT !.payload = payload]
  BY <1>1, <1>2
<1>5. stored[n] = [at |-> stored[n].at, payload |-> stored[n].payload, prev |-> stored[n].prev, hash |-> stored[n].hash]
  BY <1>2 DEF IsEntry
<1>6. stored'[n].at = stored[n].at /\ stored'[n].hash = stored[n].hash /\ stored'[n].payload = payload
  BY <1>4, <1>5
<1>7. \A i \in DOMAIN stored : stored'[i].at = stored[i].at /\ stored'[i].hash = stored[i].hash
  BY <1>3, <1>6
<1>8. StampsKnown' /\ EntriesShaped' /\ PurgedExpired' /\ DaysFollow'
  BY <1>1 DEF AnchorInvariant, StampsKnown, EntriesShaped, PurgedExpired, DaysFollow, InOrder
<1>9. PayloadsKnown'
  BY <1>3, <1>6 DEF AnchorInvariant, PayloadsKnown
<1>10. \A d \in Anchored' : AnchorShaped(d)'
  BY <1>1 DEF AnchorInvariant, AnchorShaped, Anchored
<1>11. AnchorsRead' /\ (InOrder => \A d \in Anchored : AnchorTrue(d))'
  BY <1>1, SameAnchors DEF AnchorInvariant
<1>12. YesterdaySealed'
  <2>1. \A d : Recorded(d)' = Recorded(d)
    BY <1>3, <1>7 DEF Recorded
  <2>2. AnchoredDay' = AnchoredDay /\ Anchored' = Anchored
    BY <1>1 DEF AnchoredDay, Anchored
  <2>3. ASSUME Recorded(AnchoredDay) # {} PROVE AnchorOf(AnchoredDay)' = AnchorOf(AnchoredDay)
    <3> DEFINE S == Recorded(AnchoredDay)
    <3>1. S \in SUBSET Nat /\ S \subseteq DOMAIN stored /\ S # {} /\ \A i \in S : i <= Len(history)
      BY <2>3, ChainFacts DEF Recorded
    <3>2. Max(S) \in DOMAIN stored
      <4> HIDE DEF S
      <4> QED BY <3>1, ChainFacts, MaxOf
    <3>3. stored'[Max(S)].hash = stored[Max(S)].hash
      BY <1>7, <3>2
    <3>4. Recorded(AnchoredDay)' = S
      BY <2>1, <2>2
    <3> HIDE DEF S
    <3>5. S = Recorded(AnchoredDay)
      BY DEF S
    <3> QED BY <3>3, <3>4, <3>5 DEF AnchorOf
  <2>4. ~late' <=> ~late
    BY <1>1
  <2> QED BY <1>1, <2>1, <2>2, <2>3, <2>4 DEF AnchorInvariant, YesterdaySealed
<1> QED BY <1>8, <1>9, <1>10, <1>11, <1>12 DEF AnchorInvariant

-----------------------------------------------------------------------------
(* Entries are appended. *)

LEMMA AppendIs ==
    ASSUME ChainInvariant, NEW payload \in Payloads, NEW at \in Stamps, AppendAuditEntry(payload, at)
    PROVE  LET n == Len(history) + 1
           IN  /\ Len(history') = n /\ history'[n].at = at /\ IsEntry(history'[n])
               /\ \A i \in 1 .. Len(history) : history'[i] = history[i]
               /\ DOMAIN stored' = DOMAIN stored \cup {n}
               /\ stored'[n].at = at /\ stored'[n].payload = payload
               /\ \A i \in DOMAIN stored : stored'[i] = stored[i] /\ i # n
               /\ late' = (late \/ Day(at) < Day(clock))
               /\ UNCHANGED <<purged, purgedHash, anchors, clock, altered>>
               /\ at \in Nat /\ at <= clock
<1> DEFINE n == Len(history) + 1
           prev == HashAt(Len(history))
           entry == [at |-> at, payload |-> payload, prev |-> prev, hash |-> HashOf(n, at, payload, prev)]
<1>1. LastSequence = Len(history) /\ Len(history) \in Nat /\ DOMAIN stored \subseteq 1 .. Len(history)
  BY ChainFacts
<1>2. /\ stored' = [i \in DOMAIN stored \cup {n} |-> IF i = n THEN entry ELSE stored[i]]
      /\ history' = Append(history, entry)
      /\ late' = (late \/ Day(at) < Day(clock))
      /\ UNCHANGED <<purged, purgedHash, anchors, clock, altered>>
  BY <1>1 DEF AppendAuditEntry
<1>3. entry.at = at /\ entry.payload = payload /\ IsEntry(entry)
  BY DEF IsEntry
<1>4. at \in Nat /\ at <= clock
  BY AuditAssumption DEF Stamps
<1> HIDE DEF entry
<1>5. PICK E : history \in Seq(E)
  BY DEF ChainInvariant, HistoryIsSequence
<1>6. Len(history') = n /\ history'[n] = entry /\ \A i \in 1 .. Len(history) : history'[i] = history[i]
  BY <1>2, <1>5
<1>7. n \notin DOMAIN stored
  BY <1>1
<1>8. /\ DOMAIN stored' = DOMAIN stored \cup {n} /\ stored'[n] = entry
      /\ \A i \in DOMAIN stored : stored'[i] = stored[i] /\ i # n
  BY <1>2, <1>7
<1> QED BY <1>2, <1>3, <1>4, <1>6, <1>8

LEMMA AppendAnchors ==
    ASSUME ChainInvariant, AnchorInvariant, NEW payload \in Payloads, NEW at \in Stamps,
           AppendAuditEntry(payload, at)
    PROVE  AnchorInvariant'
<1> DEFINE n == Len(history) + 1
<1>1. /\ Len(history') = n /\ history'[n].at = at /\ IsEntry(history'[n])
      /\ \A i \in 1 .. Len(history) : history'[i] = history[i]
      /\ DOMAIN stored' = DOMAIN stored \cup {n}
      /\ stored'[n].at = at /\ stored'[n].payload = payload
      /\ \A i \in DOMAIN stored : stored'[i] = stored[i] /\ i # n
      /\ late' = (late \/ Day(at) < Day(clock))
      /\ UNCHANGED <<purged, purgedHash, anchors, clock, altered>>
      /\ at \in Nat /\ at <= clock
  BY AppendIs
<1>2. /\ Len(history) \in Nat /\ purged \in Nat /\ purged <= Len(history) /\ clock \in Nat
      /\ DOMAIN stored \subseteq 1 .. Len(history) /\ VerifyLimit \in Nat
      /\ \A i \in 1 .. Len(history) : history[i].at \in Nat
  BY ChainFacts
<1>3. \A i \in 1 .. n : i = n \/ i \in 1 .. Len(history)
  BY <1>2
<1>4. StampsKnown' /\ PayloadsKnown' /\ EntriesShaped'
  BY <1>1, <1>2, <1>3 DEF AnchorInvariant, StampsKnown, PayloadsKnown, EntriesShaped
<1>5. (InOrder' => InOrder) /\ (Len(history') <= VerifyLimit => Len(history) <= VerifyLimit)
  <2>1. ASSUME InOrder', NEW i \in 2 .. Len(history) PROVE history[i].at >= history[i - 1].at
    <3>1. i \in 2 .. Len(history') /\ i \in 1 .. Len(history) /\ i - 1 \in 1 .. Len(history)
      BY <1>1, <1>2
    <3>2. history'[i].at >= history'[i - 1].at
      BY <2>1, <3>1 DEF InOrder
    <3> QED BY <1>1, <3>1, <3>2
  <2> QED BY <1>1, <1>2, <2>1 DEF InOrder
<1>6. PurgedExpired'
  <2> SUFFICES ASSUME InOrder' \/ Len(history') <= VerifyLimit, NEW i \in 1 .. purged
               PROVE  history'[i].at <= clock - Retention
    BY <1>1 DEF PurgedExpired
  <2>1. history[i].at <= clock - Retention /\ i \in 1 .. Len(history)
    BY <1>2, <1>5 DEF AnchorInvariant, PurgedExpired
  <2> QED BY <1>1, <2>1
<1>7. \A d \in Anchored' : AnchorShaped(d)' /\ d \in Anchored
  <2> SUFFICES ASSUME NEW d \in Anchored PROVE AnchorShaped(d)'
    BY <1>1 DEF Anchored
  <2>1. AnchorShaped(d)
    BY DEF AnchorInvariant
  <2> QED BY <1>1, <1>2, <2>1 DEF AnchorShaped
<1>8. ASSUME InOrder', NEW d \in Anchored' PROVE AnchorTrue(d)'
  <2>1. AnchorTrue(d) /\ AnchorShaped(d)
    BY <1>5, <1>7, <1>8 DEF AnchorInvariant
  <2>2. /\ anchors[d].first \in Nat \ {0} /\ anchors[d].last \in Nat /\ anchors[d].last <= Len(history)
        /\ anchors[d].first <= anchors[d].last /\ anchors' = anchors
    BY <1>1, <1>7, <2>1 DEF AnchorShaped, ChainInvariant, NothingLost, AuditTypeOK
  <2>3. anchors[d].last \in 1 .. Len(history)
        /\ \A i \in anchors[d].first .. anchors[d].last : i \in 1 .. Len(history)
    BY <1>2, <2>2
  <2> QED BY <1>1, <2>1, <2>2, <2>3 DEF AnchorTrue
<1>9. AnchorsRead'
  <2> SUFFICES ASSUME Len(history') <= VerifyLimit, NEW d \in Anchored, NEW i \in purged + 2 .. anchors[d].last
               PROVE  history'[i].at >= history'[i - 1].at
    BY <1>1 DEF AnchorsRead, Anchored
  <2>1. history[i].at >= history[i - 1].at
    BY <1>5 DEF AnchorInvariant, AnchorsRead
  <2>2. anchors[d].last \in Nat /\ anchors[d].last <= Len(history)
    BY DEF AnchorInvariant, AnchorShaped
  <2>3. i \in 1 .. Len(history) /\ i - 1 \in 1 .. Len(history)
    BY <1>2, <2>2
  <2> QED BY <1>1, <2>1, <2>3
<1>10. ASSUME ~late' PROVE ~late /\ Day(at) = Day(clock)
  <2>1. ~late /\ ~(Day(at) < Day(clock))
    BY <1>1, <1>10
  <2>2. Day(at) \in Nat /\ Day(clock) \in Nat /\ Day(at) <= Day(clock)
    BY <1>1, <1>2, DayIs, DayGrows
  <2> QED BY <2>1, <2>2
<1>11. DaysFollow'
  <2> SUFFICES ASSUME ~late', NEW i \in 1 .. n, NEW j \in 1 .. n, i <= j
               PROVE  Day(history'[i].at) <= Day(history'[j].at)
    BY <1>1 DEF DaysFollow
  <2>1. CASE j \in 1 .. Len(history)
    <3>1. i \in 1 .. Len(history)
      BY <1>2, <2>1
    <3> QED BY <1>1, <1>10, <2>1, <3>1 DEF AnchorInvariant, DaysFollow
  <2>2. CASE j = n /\ i # n
    <3>1. i \in 1 .. Len(history)
      BY <1>3, <2>2
    <3>2. history[i].at \in Nat /\ history[i].at <= clock
      BY <1>2, <3>1 DEF AnchorInvariant, StampsKnown
    <3>3. Day(history[i].at) <= Day(clock)
      BY <1>2, <3>2, DayGrows
    <3> QED BY <1>1, <1>10, <2>2, <3>1, <3>3
  <2>3. CASE i = n /\ j = n
    <3>1. Day(at) \in Nat
      BY <1>1, DayIs
    <3> QED BY <1>1, <2>3, <3>1
  <2> QED BY <1>2, <1>3, <2>1, <2>2, <2>3
<1>12. YesterdaySealed'
  <2> SUFFICES ASSUME ~late', AnchoredDay \in Anchored
               PROVE  (Recorded(AnchoredDay) # {} /\ anchors[AnchoredDay] = AnchorOf(AnchoredDay))'
    BY <1>1 DEF YesterdaySealed, Anchored, AnchoredDay
  <2>1. AnchoredDay' = AnchoredDay
    BY <1>1 DEF AnchoredDay
  <2>2. Recorded(AnchoredDay) # {} /\ anchors[AnchoredDay] = AnchorOf(AnchoredDay)
    BY <1>10 DEF AnchorInvariant, YesterdaySealed
  <2>3. Day(at) # AnchoredDay
    <3>1. Day(clock) \in Nat
      BY <1>2, DayIs
    <3> QED BY <1>10, <3>1 DEF AnchoredDay
  <2> DEFINE S == Recorded(AnchoredDay)
  <2>4. Recorded(AnchoredDay)' = S
    BY <1>1, <2>1, <2>3 DEF Recorded
  <2>5. S \in SUBSET Nat /\ S \subseteq DOMAIN stored /\ \A i \in S : i <= Len(history)
    BY <1>2 DEF Recorded
  <2>6. S # {}
    BY <2>2
  <2> HIDE DEF S
  <2>7. Max(S) \in DOMAIN stored
    BY <1>2, <2>5, <2>6, MaxOf
  <2>8. stored'[Max(S)] = stored[Max(S)]
    BY <1>1, <2>7
  <2>9. AnchorOf(AnchoredDay)' = AnchorOf(AnchoredDay)
    <3>1. S = Recorded(AnchoredDay)
      BY DEF S
    <3> QED BY <2>4, <2>8, <3>1 DEF AnchorOf
  <2> QED BY <1>1, <2>1, <2>2, <2>4, <2>6, <2>9
<1> QED BY <1>4, <1>6, <1>7, <1>8, <1>9, <1>11, <1>12 DEF AnchorInvariant

-----------------------------------------------------------------------------
(* What has expired is purged. *)

LEMMA PurgeAnchors ==
    ASSUME ChainInvariant, AnchorInvariant, PurgeExpiredAudit
    PROVE  AnchorInvariant'
<1> DEFINE m == Max(Releasable)
<1>1. /\ Len(history) \in Nat /\ purged \in Nat /\ purged <= Len(history) /\ clock \in Nat
      /\ DOMAIN stored = purged + 1 .. Len(history) /\ DOMAIN stored \subseteq 1 .. Len(history)
      /\ Retention \in Nat /\ VerifyLimit \in Nat
      /\ \A i \in 1 .. Len(history) : history[i].at \in Nat
      /\ \A i \in DOMAIN stored : stored[i].at = history[i].at
  BY ChainFacts
<1>2. m \in Releasable
  <2>1. Releasable \subseteq 1 .. Len(history)
    <3>1. Releasable \subseteq DOMAIN stored
      BY DEF Releasable
    <3> QED BY <1>1, <3>1
  <2>2. Releasable # {}
    BY DEF PurgeExpiredAudit
  <2>3. Releasable \in SUBSET Nat /\ \A n \in Releasable : n <= Len(history)
    BY <1>1, <2>1
  <2> QED BY <1>1, <2>2, <2>3, MaxOf
<1>3. /\ m \in DOMAIN stored /\ stored[m].at <= clock - Retention
      /\ \E d \in Anchored : m <= anchors[d].last
  BY <1>2 DEF Releasable
<1>4. /\ purged' = m
      /\ stored' = [n \in {i \in DOMAIN stored : i > m} |-> stored[n]]
      /\ UNCHANGED <<anchors, clock, history, altered, late>>
  BY DEF PurgeExpiredAudit
<1> HIDE DEF m
<1>5. /\ m \in 1 .. Len(history) /\ m \in Nat /\ m > purged
      /\ history[m].at \in Nat /\ history[m].at <= clock - Retention
  BY <1>1, <1>3
<1>6. /\ DOMAIN stored' \subseteq DOMAIN stored
      /\ \A i \in DOMAIN stored : i \in DOMAIN stored' <=> i > m
      /\ \A i \in DOMAIN stored' : stored'[i] = stored[i]
  BY <1>4
<1>7. StampsKnown' /\ PayloadsKnown' /\ EntriesShaped' /\ DaysFollow'
  BY <1>4, <1>6 DEF AnchorInvariant, StampsKnown, PayloadsKnown, EntriesShaped, DaysFollow
<1>8. PurgedExpired'
  <2> SUFFICES ASSUME InOrder \/ Len(history) <= VerifyLimit, NEW n \in 1 .. m
               PROVE  history[n].at <= clock - Retention
    BY <1>4 DEF PurgedExpired, InOrder
  <2>1. CASE n \in 1 .. purged
    BY <2>1 DEF AnchorInvariant, PurgedExpired
  <2>2. CASE n \notin 1 .. purged
    <3>1. n \in purged + 1 .. m /\ n \in 1 .. Len(history) /\ m \in n .. Len(history)
      BY <1>1, <1>5, <2>2
    <3>2. \A k \in n + 1 .. m : history[k].at >= history[k - 1].at
      <4>1. CASE InOrder
        <5>1. \A k \in n + 1 .. m : k \in 2 .. Len(history)
          BY <1>1, <1>5, <3>1
        <5> QED BY <4>1, <5>1 DEF InOrder
      <4>2. CASE Len(history) <= VerifyLimit
        <5>1. PICK d \in Anchored : m <= anchors[d].last
          BY <1>3
        <5>2. anchors[d].last \in Nat
          BY DEF AnchorInvariant, AnchorShaped
        <5>3. \A k \in n + 1 .. m : k \in purged + 2 .. anchors[d].last
          BY <1>1, <1>5, <3>1, <5>1, <5>2
        <5> QED BY <4>2, <5>3 DEF AnchorInvariant, AnchorsRead
      <4> QED BY <4>1, <4>2
    <3>3. history[n].at <= history[m].at
      BY <3>1, <3>2, OrderedApart
    <3> QED BY <1>1, <1>5, <3>1, <3>3
  <2> QED BY <2>1, <2>2
<1>9. \A d \in Anchored' : AnchorShaped(d)'
  BY <1>4 DEF AnchorInvariant, AnchorShaped, Anchored
<1>10. InOrder' => \A d \in Anchored' : AnchorTrue(d)'
  BY <1>4 DEF AnchorInvariant, AnchorTrue, Anchored, InOrder
<1>11. AnchorsRead'
  <2> SUFFICES ASSUME Len(history) <= VerifyLimit, NEW d \in Anchored, NEW i \in m + 2 .. anchors[d].last
               PROVE  history[i].at >= history[i - 1].at
    BY <1>4 DEF AnchorsRead, Anchored
  <2>1. anchors[d].last \in Nat
    BY DEF AnchorInvariant, AnchorShaped
  <2>2. i \in purged + 2 .. anchors[d].last
    BY <1>1, <1>5, <2>1
  <2> QED BY <2>2 DEF AnchorInvariant, AnchorsRead
<1>12. YesterdaySealed'
  <2> SUFFICES ASSUME ~late, AnchoredDay \in Anchored
               PROVE  (Recorded(AnchoredDay) # {} /\ anchors[AnchoredDay] = AnchorOf(AnchoredDay))'
    BY <1>4 DEF YesterdaySealed, Anchored, AnchoredDay
  <2>1. AnchoredDay' = AnchoredDay
    BY <1>4 DEF AnchoredDay
  <2>2. Recorded(AnchoredDay) # {} /\ anchors[AnchoredDay] = AnchorOf(AnchoredDay)
    BY DEF AnchorInvariant, YesterdaySealed
  <2>3. ASSUME NEW i \in DOMAIN stored, Day(stored[i].at) = AnchoredDay PROVE i > m
    <3>1. i \in 1 .. Len(history) /\ stored[i].at = history[i].at /\ i \in Nat
      BY <1>1
    <3>2. Day(history[m].at) < Day(clock) - 1
      BY <1>1, <1>5, ExpiredBefore
    <3>3. i <= m => Day(history[i].at) <= Day(history[m].at)
      BY <1>5, <3>1 DEF AnchorInvariant, DaysFollow
    <3>4. Day(history[m].at) \in Nat /\ Day(clock) \in Nat /\ Day(history[i].at) = Day(clock) - 1
      BY <1>1, <1>5, <2>3, <3>1, DayIs DEF AnchoredDay
    <3> QED BY <1>5, <3>1, <3>2, <3>3, <3>4
  <2> DEFINE S == Recorded(AnchoredDay)
  <2>4. Recorded(AnchoredDay)' = S
    BY <1>6, <2>1, <2>3 DEF Recorded
  <2>5. S \in SUBSET Nat /\ S \subseteq DOMAIN stored' /\ \A i \in S : i <= Len(history)
    BY <1>1, <1>6, <2>3 DEF Recorded
  <2>6. S # {}
    BY <2>2
  <2> HIDE DEF S
  <2>7. Max(S) \in DOMAIN stored'
    BY <1>1, <2>5, <2>6, MaxOf
  <2>8. stored'[Max(S)] = stored[Max(S)]
    BY <1>6, <2>7
  <2>9. AnchorOf(AnchoredDay)' = AnchorOf(AnchoredDay)
    <3>1. S = Recorded(AnchoredDay)
      BY DEF S
    <3> QED BY <2>4, <2>8, <3>1 DEF AnchorOf
  <2> QED BY <1>4, <2>1, <2>2, <2>4, <2>6, <2>9
<1> QED BY <1>7, <1>8, <1>9, <1>10, <1>11, <1>12 DEF AnchorInvariant

-----------------------------------------------------------------------------
(* A day is anchored. *)

(* As far as a verification reads, it read every entry. *)
LEMMA PassedReads ==
    ASSUME ChainInvariant, VerificationPasses,
           NEW n \in DOMAIN stored, n <= purged + VerifyLimit
    PROVE  Link(n)
<1>1. /\ LastSequence = Len(history) /\ Len(history) \in Nat /\ purged \in Nat /\ VerifyLimit \in Nat
      /\ DOMAIN stored = purged + 1 .. Len(history)
  BY ChainFacts
<1> DEFINE S == {LastSequence, purged + VerifyLimit}
<1>2. S \in SUBSET Nat /\ S # {} /\ \A x \in S : n <= x
  BY <1>1
<1> HIDE DEF S
<1>3. Min(S) \in S
  BY <1>2, MinOf
<1>4. n \in Start .. Min(S)
  <2>1. n \in Nat /\ n >= purged + 1
    BY <1>1
  <2>2. Min(S) \in Nat /\ n <= Min(S)
    BY <1>2, <1>3
  <2>3. Start = purged + 1
    BY DEF Start
  <2> QED BY <1>1, <2>1, <2>2, <2>3
<1> QED BY <1>4 DEF VerificationPasses, Verified, S

LEMMA AnchorIs ==
    ASSUME ChainInvariant, WriteAuditAnchor
    PROVE  LET day == AnchoredDay
               first == Min(Recorded(day))
               last == Max(Recorded(day))
           IN  /\ day \in Nat /\ day < Day(clock) /\ Recorded(day) # {}
               /\ first \in Recorded(day) /\ last \in Recorded(day)
               /\ \A i \in Recorded(day) : first <= i /\ i <= last
               /\ Recorded(day) \subseteq DOMAIN stored
               /\ first \in Nat \ {0} /\ last \in Nat /\ last <= Len(history)
               /\ Anchored' = Anchored \cup {day} /\ anchors'[day] = AnchorOf(day)
               /\ \A d \in Anchored \ {day} : anchors'[d] = anchors[d]
               /\ UNCHANGED <<stored, purged, purgedHash, clock, history, altered, late>>
<1> DEFINE day == AnchoredDay
           S == Recorded(day)
<1>1. /\ Len(history) \in Nat /\ clock \in Nat /\ DOMAIN stored \subseteq 1 .. Len(history)
  BY ChainFacts
<1>2. /\ day \in Days /\ S # {}
      /\ anchors' = [d \in Anchored \cup {day} |-> IF d = day THEN AnchorOf(d) ELSE anchors[d]]
      /\ UNCHANGED <<stored, purged, purgedHash, clock, history, altered, late>>
  BY DEF WriteAuditAnchor
<1>3. day \in Nat /\ day < Day(clock)
  <2>1. day \in Nat
    BY <1>2 DEF Days
  <2>2. Day(clock) \in Nat
    BY <1>1, DayIs
  <2> QED BY <2>1, <2>2 DEF AnchoredDay
<1>4. S \subseteq DOMAIN stored /\ S \in SUBSET Nat /\ \A i \in S : i <= Len(history) /\ i # 0
  BY <1>1 DEF Recorded
<1> HIDE DEF S, day
<1>5. Min(S) \in S /\ Max(S) \in S /\ \A i \in S : Min(S) <= i /\ i <= Max(S)
  BY <1>1, <1>2, <1>4, MinOf, MaxOf
<1>6. Anchored' = Anchored \cup {day} /\ anchors'[day] = AnchorOf(day)
      /\ \A d \in Anchored \ {day} : anchors'[d] = anchors[d]
  BY <1>2 DEF Anchored
<1> QED BY <1>2, <1>3, <1>4, <1>5, <1>6 DEF S, day

(* In order, the entries of a day are a run of entries. *)
LEMMA DayIsRun ==
    ASSUME ChainInvariant, InOrder, NEW day, NEW first \in Recorded(day), NEW last \in Recorded(day),
           \A i \in Recorded(day) : first <= i /\ i <= last
    PROVE  /\ Recorded(day) = first .. last
           /\ \A i \in first .. last : Day(history[i].at) = day
           /\ Cardinality(Recorded(day)) = last - first + 1
<1>1. /\ Len(history) \in Nat /\ purged \in Nat
      /\ DOMAIN stored = purged + 1 .. Len(history) /\ DOMAIN stored \subseteq 1 .. Len(history)
      /\ \A i \in 1 .. Len(history) : history[i].at \in Nat
      /\ \A i \in DOMAIN stored : stored[i].at = history[i].at
  BY ChainFacts
<1>2. /\ first \in DOMAIN stored /\ last \in DOMAIN stored
      /\ Day(history[first].at) = day /\ Day(history[last].at) = day
  BY <1>1 DEF Recorded
<1>3. first \in Nat /\ last \in Nat /\ first <= last /\ last <= Len(history) /\ first >= 1
  BY <1>1, <1>2
<1>4. ASSUME NEW i \in first .. last PROVE i \in DOMAIN stored /\ Day(history[i].at) = day
  <2>1. i \in DOMAIN stored /\ i \in 1 .. Len(history) /\ first <= i /\ i <= last
    BY <1>1, <1>2, <1>3
  <2>2. history[first].at <= history[i].at /\ history[i].at <= history[last].at
    BY <1>1, <1>2, <2>1, InOrderApart
  <2>3. /\ history[first].at \in Nat /\ history[i].at \in Nat /\ history[last].at \in Nat
    BY <1>1, <1>2, <2>1
  <2>4. Day(history[first].at) <= Day(history[i].at) /\ Day(history[i].at) <= Day(history[last].at)
    BY <2>2, <2>3, DayGrows
  <2>5. Day(history[i].at) \in Nat /\ Day(history[first].at) \in Nat
    BY <2>3, DayIs
  <2> QED BY <1>2, <2>1, <2>4, <2>5
<1>5. Recorded(day) = first .. last
  <2>1. Recorded(day) \subseteq first .. last
    BY <1>1, <1>3 DEF Recorded
  <2>2. first .. last \subseteq Recorded(day)
    BY <1>1, <1>4 DEF Recorded
  <2> QED BY <2>1, <2>2
<1>6. Cardinality(first .. last) = last - first + 1
  BY <1>3, FS_Interval
<1> QED BY <1>4, <1>5, <1>6

LEMMA WriteAnchors ==
    ASSUME ChainInvariant, AnchorInvariant, WriteAuditAnchor
    PROVE  AnchorInvariant'
<1> DEFINE day == AnchoredDay
           S == Recorded(day)
           first == Min(S)
           last == Max(S)
<1>1. /\ day \in Nat /\ day < Day(clock) /\ S # {}
      /\ first \in S /\ last \in S /\ \A i \in S : first <= i /\ i <= last
      /\ S \subseteq DOMAIN stored /\ first \in Nat \ {0} /\ last \in Nat /\ last <= Len(history)
      /\ Anchored' = Anchored \cup {day} /\ anchors'[day] = AnchorOf(day)
      /\ \A d \in Anchored \ {day} : anchors'[d] = anchors[d]
      /\ UNCHANGED <<stored, purged, purgedHash, clock, history, altered, late>>
  BY AnchorIs
<1>2. /\ AnchorOf(day).first = first /\ AnchorOf(day).last = last
      /\ AnchorOf(day).count = Cardinality(S) /\ AnchorOf(day).hash = stored[last].hash
  BY DEF AnchorOf
<1>3. AnchorOf(day)' = AnchorOf(day) /\ Recorded(day)' = S /\ day' = day
  BY <1>1 DEF AnchorOf, Recorded, AnchoredDay
<1>4. StampsKnown' /\ PayloadsKnown' /\ EntriesShaped' /\ PurgedExpired' /\ DaysFollow' /\ (InOrder' <=> InOrder)
  BY <1>1 DEF AnchorInvariant, StampsKnown, PayloadsKnown, EntriesShaped, PurgedExpired, DaysFollow, InOrder
<1>5. YesterdaySealed'
  BY <1>1, <1>3 DEF YesterdaySealed
<1> HIDE DEF day, S, first, last
<1>6. \A d \in Anchored' : AnchorShaped(d)'
  <2> SUFFICES ASSUME NEW d \in Anchored' PROVE AnchorShaped(d)'
    OBVIOUS
  <2>1. CASE d = day
    BY <1>1, <1>2, <2>1 DEF AnchorShaped
  <2>2. CASE d # day
    <3>1. AnchorShaped(d) /\ anchors'[d] = anchors[d]
      BY <1>1, <2>2 DEF AnchorInvariant
    <3> QED BY <1>1, <3>1 DEF AnchorShaped
  <2> QED BY <2>1, <2>2
<1>7. ASSUME InOrder', NEW d \in Anchored' PROVE AnchorTrue(d)'
  <2>1. CASE d = day
    <3>1. \A i \in first .. last : Day(history[i].at) = day
      BY <1>1, <1>4, <1>7, DayIsRun DEF S
    <3>2. Cardinality(S) = last - first + 1
      BY <1>1, <1>4, <1>7, DayIsRun DEF S
    <3>3. stored[last].hash = history[last].hash
      BY <1>1, ChainFacts
    <3> QED BY <1>1, <1>2, <2>1, <3>1, <3>2, <3>3 DEF AnchorTrue
  <2>2. CASE d # day
    <3>1. AnchorTrue(d) /\ anchors'[d] = anchors[d]
      BY <1>1, <1>4, <1>7, <2>2 DEF AnchorInvariant
    <3> QED BY <1>1, <3>1 DEF AnchorTrue
  <2> QED BY <2>1, <2>2
<1>8. AnchorsRead'
  <2> SUFFICES ASSUME Len(history) <= VerifyLimit, NEW d \in Anchored', NEW i \in purged + 2 .. anchors'[d].last
               PROVE  history[i].at >= history[i - 1].at
    BY <1>1 DEF AnchorsRead
  <2>1. CASE d = day
    <3>1. /\ Len(history) \in Nat /\ purged \in Nat /\ VerifyLimit \in Nat
          /\ DOMAIN stored = purged + 1 .. Len(history)
          /\ \A n \in DOMAIN stored : stored[n].at = history[n].at
      BY ChainFacts
    <3>2. i \in purged + 2 .. last
      BY <1>1, <1>2, <2>1
    <3>3. /\ i \in DOMAIN stored /\ i - 1 \in DOMAIN stored /\ i <= purged + VerifyLimit
          /\ i > purged + 1
      BY <1>1, <3>1, <3>2
    <3>4. Link(i)
      BY <3>3, PassedReads DEF WriteAuditAnchor
    <3>5. stored[i].at >= stored[i - 1].at
      BY <3>3, <3>4 DEF Link, Start
    <3> QED BY <3>1, <3>3, <3>5
  <2>2. CASE d # day
    <3>1. d \in Anchored /\ anchors'[d] = anchors[d]
      BY <1>1, <2>2
    <3> QED BY <3>1 DEF AnchorInvariant, AnchorsRead
  <2> QED BY <2>1, <2>2
<1> QED BY <1>4, <1>5, <1>6, <1>7, <1>8 DEF AnchorInvariant

-----------------------------------------------------------------------------
(* The anchors. *)

LEMMA InitAnchors == Init => AnchorInvariant
<1> SUFFICES ASSUME Init PROVE AnchorInvariant
  OBVIOUS
<1>1. /\ stored = [n \in {} |-> None] /\ purged = 0 /\ anchors = [d \in {} |-> None]
      /\ clock = 0 /\ history = <<>>
  BY DEF Init
<1>2. DOMAIN stored = {} /\ Anchored = {} /\ Len(history) = 0
  BY <1>1 DEF Anchored
<1> QED BY <1>1, <1>2
      DEF AnchorInvariant, StampsKnown, PayloadsKnown, EntriesShaped, PurgedExpired, AnchorsRead, DaysFollow,
          YesterdaySealed

LEMMA StutterAnchors ==
    ASSUME AnchorInvariant, UNCHANGED vars
    PROVE  AnchorInvariant'
BY DEF vars, AnchorInvariant, StampsKnown, PayloadsKnown, EntriesShaped, PurgedExpired, InOrder, AnchorShaped,
       AnchorTrue, AnchorsRead, DaysFollow, YesterdaySealed, AnchoredDay, Recorded, AnchorOf, Anchored

(* No two payloads of one entry have the same hash. *)
CollisionFree ==
    \A n, at, prev : \A p, q \in Payloads : HashOf(n, at, p, prev) = HashOf(n, at, q, prev) => p = q

(* The parts of AnchorsStand. *)
AnchorsAreTrue ==
    /\ InOrder \/ Len(history) <= VerifyLimit => \A n \in 1 .. purged : history[n].at <= clock - Retention
    /\ InOrder => \A d \in Anchored :
          /\ anchors[d].last <= Len(history)
          /\ anchors[d].hash = history[anchors[d].last].hash
          /\ anchors[d].count = anchors[d].last - anchors[d].first + 1
          /\ \A n \in anchors[d].first .. anchors[d].last : Day(history[n].at) = d

SealsStay ==
    /\ ~late => \A d \in Anchored : anchors'[d] = anchors[d]
    /\ \A d \in Anchored' : d \notin Anchored \/ anchors'[d] # anchors[d] =>
          \A n \in DOMAIN stored : n <= anchors'[d].last /\ n <= purged + VerifyLimit => stored[n] = history[n]

LEMMA AnchorsTell == AnchorInvariant => AnchorsAreTrue
BY DEF AnchorInvariant, AnchorsAreTrue, PurgedExpired, AnchorShaped, AnchorTrue

(* What a verification read is what was appended. *)
LEMMA ReadIsAppended ==
    ASSUME CollisionFree, ChainInvariant, AnchorInvariant, VerificationPasses,
           NEW n \in DOMAIN stored, n <= purged + VerifyLimit
    PROVE  stored[n] = history[n]
<1>1. /\ n \in 1 .. Len(history) /\ stored[n].at = history[n].at /\ stored[n].hash = history[n].hash
      /\ stored[n].prev = history[n].prev /\ history[n].payload \in Payloads
  BY ChainFacts
<1>2. stored[n].hash = HashOf(n, stored[n].at, stored[n].payload, stored[n].prev)
  BY PassedReads DEF Link
<1>3. history[n].hash = HashOf(n, history[n].at, history[n].payload, history[n].prev)
  BY <1>1 DEF ChainInvariant, HashesCover
<1>4. stored[n].payload \in Payloads
  BY DEF AnchorInvariant, PayloadsKnown
<1>5. HashOf(n, history[n].at, stored[n].payload, history[n].prev)
         = HashOf(n, history[n].at, history[n].payload, history[n].prev)
  BY <1>1, <1>2, <1>3
<1>6. stored[n].payload = history[n].payload
  BY <1>1, <1>4, <1>5 DEF CollisionFree
<1>7. /\ stored[n] = [at |-> stored[n].at, payload |-> stored[n].payload, prev |-> stored[n].prev,
                      hash |-> stored[n].hash]
      /\ history[n] = [at |-> history[n].at, payload |-> history[n].payload, prev |-> history[n].prev,
                       hash |-> history[n].hash]
  BY <1>1 DEF ChainInvariant, StoredIsTable, AnchorInvariant, EntriesShaped, IsEntry
<1> QED BY <1>1, <1>6, <1>7

LEMMA SealsHold ==
    ASSUME CollisionFree, ChainInvariant, AnchorInvariant, [Next]_vars
    PROVE  SealsStay
<1>1. CASE UNCHANGED anchors
  BY <1>1 DEF SealsStay, Anchored
<1>2. CASE WriteAuditAnchor
  <2>1. /\ Anchored' = Anchored \cup {AnchoredDay} /\ anchors'[AnchoredDay] = AnchorOf(AnchoredDay)
        /\ \A d \in Anchored \ {AnchoredDay} : anchors'[d] = anchors[d]
    BY <1>2, AnchorIs
  <2>2. ~late => \A d \in Anchored : anchors'[d] = anchors[d]
    BY <2>1 DEF AnchorInvariant, YesterdaySealed
  <2>3. \A n \in DOMAIN stored : n <= purged + VerifyLimit => stored[n] = history[n]
    BY <1>2, ReadIsAppended DEF WriteAuditAnchor
  <2> QED BY <2>2, <2>3 DEF SealsStay
<1>3. ASSUME NEW payload \in Payloads, NEW at \in Stamps, AppendAuditEntry(payload, at) PROVE UNCHANGED anchors
  BY <1>3 DEF AppendAuditEntry
<1> QED BY <1>1, <1>2, <1>3 DEF Next, vars, PurgeExpiredAudit, Alter, Tick

(* What retention took had expired; an anchor tells the truth about the     *)
(* entries of its day and, once the day is over, does not change; and no    *)
(* anchor is written over an entry that was tampered with, as far as a      *)
(* verification reads: for chains, retentions and limits of any length, if  *)
(* no two payloads have the same hash (writeAuditAnchor,                    *)
(* purgeExpiredAudit).                                                      *)
THEOREM AnchorsHeld ==
    ASSUME CollisionFree
    PROVE  Spec => AnchorsStand
<1>1. Init => AnchorInvariant
  BY InitAnchors
<1>2. ChainInvariant /\ AnchorInvariant /\ [Next]_vars => AnchorInvariant'
  <2> SUFFICES ASSUME ChainInvariant, AnchorInvariant, [Next]_vars PROVE AnchorInvariant'
    OBVIOUS
  <2> QED BY AppendAnchors, WriteAnchors, PurgeAnchors, AlterAnchors, TickAnchors, StutterAnchors DEF Next
<1>3. Spec => []AnchorInvariant
  BY <1>1, <1>2, ChainCorrect, PTL DEF Spec
<1>4. AnchorInvariant => AnchorsAreTrue
  BY AnchorsTell
<1>5. Spec => []AnchorsAreTrue
  BY <1>3, <1>4, PTL
<1>6. ChainInvariant /\ AnchorInvariant /\ [Next]_vars => SealsStay
  BY SealsHold
<1>7. Spec => [][SealsStay]_vars
  BY <1>3, <1>6, ChainCorrect, PTL DEF Spec
<1> QED BY <1>5, <1>7, PTL DEF AnchorsStand, AnchorsAreTrue, SealsStay

-----------------------------------------------------------------------------
(* Scheduled messages. *)

(* What is preserved by every step: the tables, what a run holds, that the  *)
(* row covers what waits, how often a message went out, and that its        *)
(* receipt is there for as long as it may be taken again.                   *)

SendsTables ==
    /\ messages \in [Ids -> Rows]
    /\ \A m \in Ids : messages[m].at >= Past /\ (messages[m].status # "none" => messages[m].body \in Bodies)
    /\ deadline \in Int \cup {Null} /\ (deadline # Null => deadline >= Past)
    /\ receipts \in [Ids -> [body : Bodies, left : 0 .. ReceiptTtl] \cup {Null}]
    /\ standing \in Standings
    /\ run \in Runs /\ run.now >= Past
    /\ crashes \in 0 .. MaxCrashes
    /\ posts \in [Ids -> Nat] /\ moved \subseteq Ids

(* What a run holds, and the row it serves.                                 *)
RunServes ==
    /\ run.pc \in {"idle", "claimed"} => run.batch = {}
    /\ run.pc = "posted" <=> run.sending # Null
    /\ run.pc = "posted" => run.sending \in run.batch /\ posts[run.sending] > 0
    /\ run.pc # "idle" => deadline # Null /\ deadline <= 0 /\ run.now <= 0
    /\ \A m \in run.batch : /\ messages[m].status = "scheduled" /\ messages[m].at <= run.now
                            /\ Cardinality(Ahead(messages, m)) < SendBatch

(* No row is there for later than a message that waits.                     *)
RowCovers == deadline # Null => \A m \in Waiting(messages) : deadline <= messages[m].at

(* A message goes out again only where a crash came before it was settled.  *)
PostsCounted ==
    \A m \in Ids :
        /\ messages[m].status = "sent" \/ receipts[m] # Null => posts[m] > 0
        /\ messages[m].status = "none" => posts[m] = 0
        /\ posts[m] <= crashes + IF messages[m].status = "sent" \/ run.sending = m THEN 1 ELSE 0

(* A message that was posted, was not settled and has not been moved is     *)
(* among the first that the next delivery takes, and its receipt is there   *)
(* until then.                                                              *)
ReceiptsOutlast ==
    \A m \in Ids \ moved :
        /\ posts[m] <= 1
        /\ posts[m] > 0 /\ messages[m].status = "scheduled" =>
              /\ deadline # Null /\ deadline <= 0
              /\ messages[m].at <= 0 /\ (run.pc # "idle" => messages[m].at <= run.now)
              /\ receipts[m] # Null /\ receipts[m].left > deadline + MaxLag
              /\ Cardinality(Ahead(messages, m)) < SendBatch
              /\ run.pc \in {"deliver", "posted"} => m \in run.batch

SendsHold == SendsTables /\ RunServes /\ RowCovers /\ PostsCounted /\ ReceiptsOutlast

-----------------------------------------------------------------------------
(* The earliest of a set of instants that are bounded from below. *)

LEMMA HasEarliest ==
    ASSUME NEW S \in SUBSET Int, S # {}, NEW b \in Nat, \A t \in S : t >= -b
    PROVE  \E m \in S : \A y \in S : m <= y
<1> DEFINE R == OpToRel(<, Nat)
           T == {t + b : t \in S}
<1>1. \A x, y \in Nat : x < y => <<x, y>> \in R
  BY DEF OpToRel
<1>2. IsWellFoundedOn(R, Nat)
  BY NatLessThanWellFounded
<1>3. T \subseteq Nat /\ T # {}
  <2>1. ASSUME NEW t \in S PROVE t + b \in Nat
    <3>1. t \in Int /\ t >= -b
      OBVIOUS
    <3> QED BY <3>1
  <2> QED BY <2>1
<1> HIDE DEF R
<1>4. PICK u \in T : \A y \in T : ~ (<<y, u>> \in R)
  <2> HIDE DEF T
  <2> QED BY <1>2, <1>3, WFMin
<1>5. PICK m \in S : u = m + b
  OBVIOUS
<1>6. ASSUME NEW y \in S PROVE m <= y
  <2>1. m \in Int /\ y \in Int /\ y + b \in Nat /\ m + b \in Nat /\ y + b \in T
    BY <1>3
  <2> HIDE DEF T
  <2>2. ~ (y + b < m + b)
    BY <1>1, <1>4, <1>5, <2>1, Zenon
  <2> QED BY <2>1, <2>2
<1> QED BY <1>6

(* Arming moves the row to the earliest message that waits, and never back. *)
LEMMA ArmedWell ==
    ASSUME NEW ms \in [Ids -> Rows], \A m \in Ids : ms[m].at >= Past,
           NEW d \in Int \cup {Null}, d # Null => d >= Past
    PROVE  LET armed == ArmedSends(d, ms)
           IN  /\ armed \in Int \cup {Null} /\ (armed # Null => armed >= Past)
               /\ armed # Null => \A m \in Waiting(ms) : armed <= ms[m].at
               /\ d # Null => armed # Null /\ armed <= d
               /\ d # Null /\ (\A m \in Waiting(ms) : d <= ms[m].at) => armed = d
<1> DEFINE S == {ms[m].at : m \in Waiting(ms)}
<1>1. CASE Waiting(ms) = {}
  BY <1>1 DEF ArmedSends
<1>2. CASE Waiting(ms) # {}
  <2>1. S \in SUBSET Int /\ S # {} /\ \A t \in S : t >= Past
    BY <1>2 DEF Waiting, Rows
  <2> HIDE DEF S
  <2>2. Min(S) \in S /\ \A y \in S : Min(S) <= y
    BY <2>1, HasEarliest, SendsAssumption DEF Min, Past
  <2>3. PICK next : next = Min(S)
    OBVIOUS
  <2>4. /\ next \in Int /\ next # Null /\ next >= Past
        /\ \A y \in S : next <= y /\ y \in Int
    BY <2>1, <2>2, <2>3, SendsAssumption
  <2>5. \A m \in Waiting(ms) : ms[m].at \in S
    BY DEF S
  <2>6. \E m \in Waiting(ms) : ms[m].at = next
    BY <2>2, <2>3 DEF S
  <2>7. ArmedSends(d, ms) = IF d # Null /\ d < next THEN d ELSE next
    BY <1>2, <2>3 DEF ArmedSends, S
  <2> QED BY <2>4, <2>5, <2>6, <2>7, SendsAssumption
<1> QED BY <1>1, <1>2

(* Fewer messages before one leave it among the first. *)
LEMMA StillAmongTheFirst ==
    ASSUME NEW A, NEW B \in SUBSET Ids, A \subseteq B, Cardinality(B) < SendBatch
    PROVE  Cardinality(A) < SendBatch
<1>1. IsFiniteSet(B)
  BY SendsAssumption, FS_Subset
<1>2. Cardinality(A) <= Cardinality(B) /\ Cardinality(A) \in Nat /\ Cardinality(B) \in Nat
  BY <1>1, FS_Subset, FS_CardinalityType
<1> QED BY <1>2, SendsAssumption

LEMMA NullIsNoId == Null \notin Ids
<1>1. \A x \in Nat : x \in Int
  OBVIOUS
<1>2. Ids \subseteq Nat /\ Null \notin Int
  BY SendsAssumption, Zenon
<1> QED BY <1>1, <1>2, Zenon

LEMMA SendsStart == SendsInit => SendsHold
<1> SUFFICES ASSUME SendsInit PROVE SendsHold
  OBVIOUS
<1>0. Past \in Int /\ Past <= 0
  BY SendsAssumption DEF Past
<1>1. SendsTables
  <2>1. [status |-> "none", at |-> Past, body |-> Null] \in Rows
    BY <1>0 DEF Rows, Statuses
  <2>2. Idle \in Runs
    BY DEF Idle, Runs
  <2> QED BY <1>0, <2>1, <2>2, SendsAssumption DEF SendsInit, SendsTables, Standings, Idle
<1>2. RunServes
  BY DEF SendsInit, RunServes, Idle
<1>3. RowCovers
  BY DEF SendsInit, RowCovers
<1>4. PostsCounted
  BY SendsAssumption DEF SendsInit, PostsCounted
<1>5. ReceiptsOutlast
  BY DEF SendsInit, ReceiptsOutlast
<1> QED BY <1>1, <1>2, <1>3, <1>4, <1>5 DEF SendsHold

LEMMA SendsStutter ==
    ASSUME SendsHold, standing' \in Standings,
           UNCHANGED <<messages, deadline, receipts, run, crashes, posts, moved>>
    PROVE  SendsHold'
<1>1. SendsTables'
  BY DEF SendsHold, SendsTables
<1>2. RunServes'
  BY DEF SendsHold, RunServes, Ahead
<1>3. RowCovers' /\ PostsCounted'
  BY DEF SendsHold, RowCovers, PostsCounted, Waiting
<1>4. ReceiptsOutlast'
  BY DEF SendsHold, ReceiptsOutlast, Ahead
<1> QED BY <1>1, <1>2, <1>3, <1>4 DEF SendsHold

-----------------------------------------------------------------------------
(* Members. *)

(* A member writes one row that has not been settled as sent, and arms: a   *)
(* time that is set lies ahead, and a message that went out is moved by it. *)
LEMMA MembersWrite ==
    ASSUME SendsHold, run.pc \in {"idle", "claimed"},
           NEW m \in Ids, NEW row \in Rows,
           messages[m].status \in {"none", "scheduled"}, row.status \in {"scheduled", "cancelled"},
           row.body \in Bodies,
           \/ row.at >= 1 /\ (posts[m] = 0 \/ m \in moved')
           \/ row.at = messages[m].at /\ messages[m].status = "scheduled",
           messages' = [messages EXCEPT ![m] = row],
           deadline' = ArmedSends(deadline, messages'),
           moved' \in SUBSET Ids, moved \subseteq moved',
           UNCHANGED <<receipts, standing, run, crashes, posts>>
    PROVE  SendsHold'
<1>0. /\ messages \in [Ids -> Rows] /\ \A o \in Ids : messages[o].at >= Past
      /\ deadline \in Int \cup {Null} /\ (deadline # Null => deadline >= Past)
      /\ Past \in Int /\ Past <= 0 /\ run.batch = {}
      /\ \A o \in Ids : messages[o].at \in Int /\ row.at \in Int
  BY SendsAssumption DEF SendsHold, SendsTables, RunServes, Rows, Past
<1>1. /\ messages' \in [Ids -> Rows]
      /\ \A o \in Ids : messages'[o] = IF o = m THEN row ELSE messages[o]
      /\ \A o \in Ids : messages'[o].at >= Past
  BY <1>0
<1>2. /\ deadline' \in Int \cup {Null} /\ (deadline' # Null => deadline' >= Past)
      /\ deadline' # Null => \A o \in Waiting(messages') : deadline' <= messages'[o].at
      /\ deadline # Null => deadline' # Null /\ deadline' <= deadline
      /\ deadline # Null /\ (\A o \in Waiting(messages') : deadline <= messages'[o].at) => deadline' = deadline
  BY <1>0, <1>1, ArmedWell
<1>3. deadline # Null /\ deadline <= 0 => deadline' = deadline
  <2> SUFFICES ASSUME deadline # Null, deadline <= 0
               PROVE  \A o \in Waiting(messages') : deadline <= messages'[o].at
    BY <1>2
  <2>1. \A o \in Waiting(messages) : deadline <= messages[o].at
    BY DEF SendsHold, RowCovers
  <2> QED BY <1>0, <1>1, <2>1 DEF Waiting
<1>4. SendsTables'
  BY <1>1, <1>2 DEF SendsHold, SendsTables
<1>5. RunServes'
  BY <1>0, <1>3 DEF SendsHold, RunServes
<1>6. RowCovers'
  BY <1>2 DEF RowCovers
<1>7. PostsCounted'
  BY <1>1 DEF SendsHold, PostsCounted
<1>8. ReceiptsOutlast'
  <2> SUFFICES ASSUME NEW o \in Ids \ moved'
               PROVE  /\ posts[o] <= 1
                      /\ posts[o] > 0 /\ messages'[o].status = "scheduled" =>
                            /\ deadline' # Null /\ deadline' <= 0
                            /\ messages'[o].at <= 0 /\ (run.pc # "idle" => messages'[o].at <= run.now)
                            /\ receipts[o] # Null /\ receipts[o].left > deadline' + MaxLag
                            /\ Cardinality(Ahead(messages', o)) < SendBatch
                            /\ run.pc \in {"deliver", "posted"} => o \in run.batch
    BY DEF ReceiptsOutlast
  <2>1. posts[o] <= 1 /\ posts[o] \in Nat
    BY DEF SendsHold, SendsTables, ReceiptsOutlast
  <2>2. SUFFICES ASSUME posts[o] > 0, messages'[o].status = "scheduled"
                 PROVE  /\ deadline' # Null /\ deadline' <= 0
                        /\ messages'[o].at <= 0 /\ (run.pc # "idle" => messages'[o].at <= run.now)
                        /\ receipts[o] # Null /\ receipts[o].left > deadline' + MaxLag
                        /\ Cardinality(Ahead(messages', o)) < SendBatch
    BY <2>1
  <2>3. messages[o].status = "scheduled" /\ messages'[o].at = messages[o].at
    BY <1>1, <2>1, <2>2
  <2>4. /\ deadline # Null /\ deadline <= 0
        /\ messages[o].at <= 0 /\ (run.pc # "idle" => messages[o].at <= run.now)
        /\ receipts[o] # Null /\ receipts[o].left > deadline + MaxLag
        /\ Cardinality(Ahead(messages, o)) < SendBatch
    BY <2>2, <2>3 DEF SendsHold, ReceiptsOutlast
  <2>5. Ahead(messages', o) \subseteq Ahead(messages, o)
    BY <1>0, <1>1, <2>3, <2>4 DEF Ahead, Waiting
  <2>6. Cardinality(Ahead(messages', o)) < SendBatch
    BY <2>4, <2>5, StillAmongTheFirst DEF Ahead, Waiting
  <2> QED BY <1>3, <2>3, <2>4, <2>6
<1> QED BY <1>4, <1>5, <1>6, <1>7, <1>8 DEF SendsHold

LEMMA MembersStep == SendsHold /\ MemberStep => SendsHold'
<1> SUFFICES ASSUME SendsHold, MemberStep PROVE SendsHold'
  OBVIOUS
<1>0. /\ messages \in [Ids -> Rows] /\ moved \subseteq Ids /\ posts \in [Ids -> Nat]
      /\ \A m \in Ids : /\ messages[m].status # "none" => messages[m].body \in Bodies
                        /\ messages[m].status = "none" => posts[m] = 0
  BY DEF SendsHold, SendsTables, PostsCounted
<1>1. ASSUME NEW m \in Ids, NEW body \in Bodies, UpdateBody(m, body) PROVE SendsHold'
  <2>1. PICK row : row = [messages[m] EXCEPT !.body = body]
    OBVIOUS
  <2>2. /\ row \in Rows /\ row.status = "scheduled" /\ row.at = messages[m].at /\ row.body = body
        /\ messages' = [messages EXCEPT ![m] = row]
    BY <1>0, <1>1, <2>1 DEF UpdateBody, Rows
  <2> QED BY <1>0, <1>1, <2>2, MembersWrite DEF UpdateBody
<1>2. ASSUME NEW m \in Ids, NEW at \in 1 .. MaxAhead, UpdateTime(m, at) PROVE SendsHold'
  <2>1. PICK row : row = [messages[m] EXCEPT !.at = at]
    OBVIOUS
  <2>2. /\ row \in Rows /\ row.status = "scheduled" /\ row.at >= 1 /\ row.body \in Bodies
        /\ messages' = [messages EXCEPT ![m] = row]
    BY <1>0, <1>2, <2>1 DEF UpdateTime, Rows
  <2>3. moved' \in SUBSET Ids /\ moved \subseteq moved' /\ (posts[m] = 0 \/ m \in moved')
    BY <1>0, <1>2 DEF UpdateTime
  <2> QED BY <1>2, <2>2, <2>3, MembersWrite DEF UpdateTime
<1>3. ASSUME NEW m \in Ids, NEW body \in Bodies, NEW at \in 1 .. MaxAhead, Schedule(m, body, at)
      PROVE  SendsHold'
  <2>1. PICK row : row = [status |-> "scheduled", at |-> at, body |-> body]
    OBVIOUS
  <2>2. /\ row \in Rows /\ row.status = "scheduled" /\ row.at >= 1 /\ row.body \in Bodies
        /\ messages' = [messages EXCEPT ![m] = row]
    BY <1>3, <2>1 DEF Schedule, Rows, Statuses
  <2>3. posts[m] = 0 /\ moved' = moved
    BY <1>0, <1>3 DEF Schedule
  <2> QED BY <1>0, <1>3, <2>2, <2>3, MembersWrite DEF Schedule
<1>4. ASSUME NEW m \in Ids, Cancel(m) PROVE SendsHold'
  <2>1. PICK row : row = [messages[m] EXCEPT !.status = "cancelled"]
    OBVIOUS
  <2>2. /\ row \in Rows /\ row.status = "cancelled" /\ row.at = messages[m].at /\ row.body \in Bodies
        /\ messages' = [messages EXCEPT ![m] = row]
    BY <1>0, <1>4, <2>1 DEF Cancel, SettledAs, Rows, Statuses
  <2> QED BY <1>0, <1>4, <2>2, MembersWrite DEF Cancel
<1>5. CASE ChangeStanding
  BY <1>5, SendsStutter DEF ChangeStanding
<1> QED BY <1>1, <1>2, <1>3, <1>4, <1>5 DEF MemberStep

-----------------------------------------------------------------------------
(* The alarm's run. *)

LEMMA BeginRunHolds == SendsHold /\ BeginRun => SendsHold'
<1> SUFFICES ASSUME SendsHold, BeginRun PROVE SendsHold'
  OBVIOUS
<1>1. PICK r : r = [Idle EXCEPT !.pc = "claimed"]
  OBVIOUS
<1>2. /\ r \in Runs /\ r.pc = "claimed" /\ r.now = 0 /\ r.batch = {} /\ r.sending = Null
      /\ run' = r /\ run.pc = "idle" /\ deadline # Null /\ deadline <= 0 /\ Past <= 0
  BY <1>1, SendsAssumption DEF BeginRun, Idle, Runs, Past
<1>3. run.sending = Null
  BY <1>2 DEF SendsHold, RunServes
<1>4. SendsTables'
  BY <1>2 DEF BeginRun, SendsHold, SendsTables
<1>5. RunServes'
  <2>1. deadline' = deadline /\ run'.batch = {}
    BY <1>2 DEF BeginRun
  <2> QED BY <1>2, <2>1 DEF RunServes
<1>6. RowCovers' /\ PostsCounted'
  BY <1>2, <1>3 DEF BeginRun, SendsHold, RowCovers, PostsCounted, Waiting
<1>7. ReceiptsOutlast'
  BY <1>2 DEF BeginRun, SendsHold, ReceiptsOutlast, Ahead, Waiting
<1> QED BY <1>4, <1>5, <1>6, <1>7 DEF SendsHold

LEMMA BeginDeliveryHolds == SendsHold /\ BeginDelivery => SendsHold'
<1> SUFFICES ASSUME SendsHold, BeginDelivery PROVE SendsHold'
  OBVIOUS
<1>1. PICK r : r = [run EXCEPT !.pc = "deliver", !.batch = Batch(messages, run.now)]
  OBVIOUS
<1>2. Batch(messages, run.now) \subseteq Ids /\ run \in Runs
  BY DEF Batch, DueMessages, Waiting, SendsHold, SendsTables
<1>3. /\ r \in Runs /\ r.pc = "deliver" /\ r.now = run.now /\ r.batch = Batch(messages, run.now)
      /\ r.sending = run.sending /\ run' = r /\ run.pc = "claimed"
  BY <1>1, <1>2 DEF BeginDelivery, Runs
<1>4. SendsTables'
  BY <1>3 DEF BeginDelivery, SendsHold, SendsTables
<1>5. RunServes'
  BY <1>3 DEF BeginDelivery, SendsHold, RunServes, Batch, DueMessages, Waiting, Ahead
<1>6. RowCovers' /\ PostsCounted'
  BY <1>3 DEF BeginDelivery, SendsHold, RowCovers, PostsCounted, Waiting
<1>7. ReceiptsOutlast'
  <2>1. \A o \in Ids \ moved : posts[o] > 0 /\ messages[o].status = "scheduled" => o \in r.batch
    BY <1>3 DEF SendsHold, ReceiptsOutlast, Batch, DueMessages, Waiting
  <2> QED BY <1>3, <2>1 DEF BeginDelivery, SendsHold, ReceiptsOutlast, Ahead, Waiting
<1> QED BY <1>4, <1>5, <1>6, <1>7 DEF SendsHold

(* A message of the batch is settled.                                       *)
LEMMA Settles ==
    ASSUME SendsHold, NEW m \in run.batch, NEW status \in Settled, NEW r \in Runs,
           run.pc = "deliver" \/ (run.pc = "posted" /\ run.sending = m /\ status = "sent"),
           status = "sent" => posts[m] > 0,
           messages' = SettledAs(messages, m, status),
           run' = r, r.pc = "deliver", r.now = run.now, r.batch = run.batch \ {m}, r.sending = Null,
           UNCHANGED <<deadline, receipts, standing, crashes, posts, moved>>
    PROVE  SendsHold'
<1>0. /\ messages \in [Ids -> Rows] /\ run \in Runs /\ m \in Ids /\ messages[m].status = "scheduled"
      /\ run.pc # "posted" => run.sending = Null
      /\ posts \in [Ids -> Nat] /\ crashes \in Nat /\ Null \notin Ids
  <2>1. /\ messages \in [Ids -> Rows] /\ run \in Runs /\ messages[m].status = "scheduled"
        /\ run.pc # "posted" => run.sending = Null
        /\ posts \in [Ids -> Nat]
    BY DEF SendsHold, SendsTables, RunServes
  <2>2. m \in Ids
    BY <2>1 DEF Runs
  <2>3. crashes \in Nat
    BY DEF SendsHold, SendsTables
  <2>4. Null \notin Ids
    BY NullIsNoId
  <2> QED BY <2>1, <2>2, <2>3, <2>4, Zenon
<1>1. PICK row : row = [messages[m] EXCEPT !.status = status]
  OBVIOUS
<1>2. /\ row \in Rows /\ row.status = status /\ row.at = messages[m].at /\ row.body = messages[m].body
      /\ messages' = [messages EXCEPT ![m] = row]
  BY <1>0, <1>1 DEF SettledAs, Rows, Settled, Statuses
<1>3. /\ messages' \in [Ids -> Rows]
      /\ \A o \in Ids : messages'[o] = IF o = m THEN row ELSE messages[o]
      /\ status \in Settled /\ status # "scheduled" /\ status # "none"
  BY <1>0, <1>2 DEF Settled
<1>4. /\ Waiting(messages') \subseteq Waiting(messages) \ {m}
      /\ \A o \in Ids : messages'[o].at = messages[o].at
  BY <1>2, <1>3 DEF Waiting
<1>5. \A o \in Ids : Cardinality(Ahead(messages, o)) < SendBatch => Cardinality(Ahead(messages', o)) < SendBatch
  <2> SUFFICES ASSUME NEW o \in Ids, Cardinality(Ahead(messages, o)) < SendBatch
               PROVE  Cardinality(Ahead(messages', o)) < SendBatch
    OBVIOUS
  <2>1. Ahead(messages', o) \subseteq Ahead(messages, o)
    BY <1>4 DEF Ahead, Waiting
  <2> QED BY <2>1, StillAmongTheFirst DEF Ahead, Waiting
<1>6. SendsTables'
  <2>1. /\ \A o \in Ids : messages[o].at >= Past /\ (messages[o].status # "none" => messages[o].body \in Bodies)
        /\ deadline \in Int \cup {Null} /\ (deadline # Null => deadline >= Past)
        /\ receipts \in [Ids -> [body : Bodies, left : 0 .. ReceiptTtl] \cup {Null}]
        /\ standing \in Standings /\ run.now >= Past
        /\ crashes \in 0 .. MaxCrashes /\ moved \subseteq Ids
    BY DEF SendsHold, SendsTables
  <2>2. \A o \in Ids : messages'[o].at >= Past /\ (messages'[o].status # "none" => messages'[o].body \in Bodies)
    BY <1>0, <1>2, <1>3, <2>1
  <2> QED BY <1>0, <1>3, <2>1, <2>2 DEF SendsTables
<1>7. RunServes'
  <2>1. run.batch \subseteq Ids
    BY <1>0 DEF Runs
  <2> QED BY <1>3, <1>5, <2>1 DEF SendsHold, RunServes
<1>8. RowCovers'
  BY <1>4 DEF SendsHold, RowCovers, Waiting
<1>9. PostsCounted'
  BY <1>0, <1>2, <1>3 DEF SendsHold, PostsCounted
<1>10. ReceiptsOutlast'
  <2>1. \A o \in Ids : messages'[o].status = "scheduled" => o # m /\ messages[o].status = "scheduled"
    BY <1>2, <1>3
  <2>2. \A o \in Ids \ moved :
          /\ posts[o] <= 1
          /\ posts[o] > 0 /\ messages[o].status = "scheduled" =>
                /\ deadline # Null /\ deadline <= 0
                /\ messages[o].at <= 0 /\ messages[o].at <= run.now
                /\ receipts[o] # Null /\ receipts[o].left > deadline + MaxLag
                /\ Cardinality(Ahead(messages, o)) < SendBatch
                /\ o \in run.batch
    BY DEF SendsHold, ReceiptsOutlast
  <2> QED BY <1>4, <1>5, <2>1, <2>2 DEF ReceiptsOutlast
<1> QED BY <1>6, <1>7, <1>8, <1>9, <1>10 DEF SendsHold

LEMMA SettleUnpostedHolds ==
    ASSUME SendsHold, NEW m \in Ids, SettleUnposted(m) PROVE SendsHold'
<1>1. PICK status \in Settled : /\ messages' = SettledAs(messages, m, status)
                                /\ status = "sent" => Receipt(m)
  BY DEF SettleUnposted, Settled
<1>2. PICK r : r = [run EXCEPT !.batch = @ \ {m}]
  OBVIOUS
<1>3. run \in Runs /\ run.pc = "deliver" /\ m \in run.batch /\ run' = r /\ run.sending = Null
  BY <1>2 DEF SettleUnposted, SendsHold, SendsTables, RunServes
<1>4. r \in Runs /\ r.pc = "deliver" /\ r.now = run.now /\ r.batch = run.batch \ {m} /\ r.sending = Null
  BY <1>2, <1>3 DEF Runs
<1>5. Receipt(m) => posts[m] > 0
  BY DEF SendsHold, PostsCounted, Receipt
<1>6. UNCHANGED <<deadline, receipts, standing, crashes, posts, moved>>
  BY DEF SettleUnposted
<1>7. messages' = SettledAs(messages, m, status) /\ (status = "sent" => posts[m] > 0)
  BY <1>1, <1>5
<1>8. run.pc = "deliver" \/ (run.pc = "posted" /\ run.sending = m /\ status = "sent")
  BY <1>3
<1> QED BY <1>3, <1>4, <1>6, <1>7, <1>8, Settles, Zenon

LEMMA SettleSentHolds == SendsHold /\ SettleSent => SendsHold'
<1> SUFFICES ASSUME SendsHold, SettleSent PROVE SendsHold'
  OBVIOUS
<1>1. PICK m : m = run.sending
  OBVIOUS
<1>2. PICK r : r = [run EXCEPT !.pc = "deliver", !.batch = @ \ {run.sending}, !.sending = Null]
  OBVIOUS
<1>3. /\ run \in Runs /\ run.pc = "posted" /\ m \in run.batch /\ posts[m] > 0 /\ run' = r
      /\ messages' = SettledAs(messages, m, "sent")
  BY <1>1, <1>2 DEF SettleSent, SendsHold, SendsTables, RunServes
<1>4. r \in Runs /\ r.pc = "deliver" /\ r.now = run.now /\ r.batch = run.batch \ {m} /\ r.sending = Null
  BY <1>1, <1>2, <1>3 DEF Runs
<1>5. UNCHANGED <<deadline, receipts, standing, crashes, posts, moved>>
  BY DEF SettleSent
<1>6. "sent" \in Settled
  BY DEF Settled
<1> QED BY <1>1, <1>3, <1>4, <1>5, <1>6, Settles

LEMMA PostMessageHolds ==
    ASSUME SendsHold, NEW m \in Ids, PostMessage(m) PROVE SendsHold'
<1>0. /\ run \in Runs /\ run.pc = "deliver" /\ m \in run.batch /\ run.sending = Null
      /\ messages[m].status = "scheduled" /\ messages[m].body \in Bodies
      /\ messages[m].at <= run.now /\ run.now <= 0 /\ deadline # Null /\ deadline <= 0
      /\ Cardinality(Ahead(messages, m)) < SendBatch
      /\ receipts[m] = Null /\ Null \notin Ids
      /\ posts \in [Ids -> Nat] /\ receipts \in [Ids -> [body : Bodies, left : 0 .. ReceiptTtl] \cup {Null}]
      /\ messages \in [Ids -> Rows] /\ deadline \in Int /\ run.now \in Int /\ messages[m].at \in Int
  BY SendsAssumption DEF PostMessage, Receipt, SendsHold, SendsTables, RunServes, Runs, Rows
<1>1. PICK r : r = [run EXCEPT !.pc = "posted", !.sending = m]
  OBVIOUS
<1>2. PICK fresh : fresh = [body |-> messages[m].body, left |-> ReceiptTtl]
  OBVIOUS
<1>3. /\ r \in Runs /\ r.pc = "posted" /\ r.now = run.now /\ r.batch = run.batch /\ r.sending = m
      /\ run' = r
  BY <1>0, <1>1 DEF Runs, PostMessage
<1>4. /\ fresh \in [body : Bodies, left : 0 .. ReceiptTtl] /\ fresh # Null
      /\ fresh.left > deadline + MaxLag /\ receipts' = [receipts EXCEPT ![m] = fresh]
  <2>1. fresh \in [body : Bodies, left : 0 .. ReceiptTtl] /\ fresh \in [body : Bodies, left : Nat]
    BY <1>0, <1>2, SendsAssumption
  <2>2. ReceiptTtl > deadline + MaxLag
    BY <1>0, SendsAssumption
  <2> QED BY <1>2, <2>1, <2>2, SendsAssumption DEF PostMessage
<1>5. posts' = [posts EXCEPT ![m] = @ + 1] /\ UNCHANGED <<messages, deadline, standing, crashes, moved>>
  BY DEF PostMessage
<1>6. SendsTables'
  BY <1>0, <1>3, <1>4, <1>5 DEF SendsHold, SendsTables
<1>7. RunServes'
  BY <1>0, <1>3, <1>5 DEF SendsHold, RunServes
<1>8. RowCovers'
  BY <1>5 DEF SendsHold, RowCovers, Waiting
<1>9. PostsCounted'
  <2>1. crashes \in Nat
    BY DEF SendsHold, SendsTables
  <2> QED BY <1>0, <1>3, <1>4, <1>5, <2>1 DEF SendsHold, PostsCounted
<1>10. ReceiptsOutlast'
  <2>1. m \notin moved => posts[m] = 0
    BY <1>0 DEF SendsHold, ReceiptsOutlast
  <2> QED BY <1>0, <1>3, <1>4, <1>5, <2>1 DEF SendsHold, ReceiptsOutlast
<1> QED BY <1>6, <1>7, <1>8, <1>9, <1>10 DEF SendsHold

LEMMA EndRunHolds == SendsHold /\ EndRun => SendsHold'
<1> SUFFICES ASSUME SendsHold, EndRun PROVE SendsHold'
  OBVIOUS
<1>0. /\ run.pc = "deliver" /\ run.batch = {} /\ run.sending = Null /\ run' = Idle /\ deadline' = Null
      /\ Idle \in Runs /\ Idle.now = 0 /\ Past <= 0 /\ Idle.pc = "idle" /\ Idle.batch = {} /\ Idle.sending = Null
      /\ UNCHANGED <<messages, receipts, standing, crashes, posts, moved>>
  BY SendsAssumption DEF EndRun, CompletedDueWork, SendsHold, RunServes, Idle, Runs, Past
<1>1. SendsTables'
  BY <1>0 DEF SendsHold, SendsTables
<1>2. RunServes' /\ RowCovers' /\ PostsCounted'
  BY <1>0 DEF SendsHold, RunServes, RowCovers, PostsCounted
<1>3. ReceiptsOutlast'
  BY <1>0 DEF SendsHold, ReceiptsOutlast
<1> QED BY <1>1, <1>2, <1>3 DEF SendsHold

LEMMA RunsStep == SendsHold /\ RunStep => SendsHold'
BY BeginRunHolds, BeginDeliveryHolds, SettleUnpostedHolds, PostMessageHolds, SettleSentHolds, EndRunHolds
   DEF RunStep

-----------------------------------------------------------------------------
(* The rest. *)

LEMMA CrashHolds == SendsHold /\ Crash => SendsHold'
<1> SUFFICES ASSUME SendsHold, Crash PROVE SendsHold'
  OBVIOUS
<1>0. /\ run' = Idle /\ crashes' = crashes + 1 /\ crashes \in 0 .. MaxCrashes /\ crashes < MaxCrashes
      /\ Idle \in Runs /\ Idle.now = 0 /\ Past <= 0 /\ Idle.pc = "idle" /\ Idle.batch = {} /\ Idle.sending = Null
      /\ UNCHANGED <<messages, deadline, receipts, standing, posts, moved>>
      /\ Null \notin Ids /\ posts \in [Ids -> Nat] /\ MaxCrashes \in Nat
  <2>1. /\ run' = Idle /\ crashes' = crashes + 1 /\ crashes < MaxCrashes
        /\ UNCHANGED <<messages, deadline, receipts, standing, posts, moved>>
    BY DEF Crash
  <2>2. crashes \in 0 .. MaxCrashes /\ posts \in [Ids -> Nat]
    BY DEF SendsHold, SendsTables
  <2>3. /\ Idle \in Runs /\ Idle.now = 0 /\ Idle.pc = "idle" /\ Idle.batch = {} /\ Idle.sending = Null
    BY DEF Idle, Runs
  <2>4. Past <= 0 /\ Null \notin Ids /\ MaxCrashes \in Nat
    BY NullIsNoId, SendsAssumption DEF Past
  <2> QED BY <2>1, <2>2, <2>3, <2>4, Zenon
<1>1. SendsTables'
  BY <1>0 DEF SendsHold, SendsTables
<1>2. RunServes' /\ RowCovers'
  BY <1>0 DEF SendsHold, RunServes, RowCovers, Waiting
<1>3. PostsCounted'
  BY <1>0 DEF SendsHold, PostsCounted
<1>4. ReceiptsOutlast'
  BY <1>0 DEF SendsHold, ReceiptsOutlast, Ahead, Waiting
<1> QED BY <1>1, <1>2, <1>3, <1>4 DEF SendsHold

LEMMA SweepHolds == SendsHold /\ SweepReceipts => SendsHold'
<1> SUFFICES ASSUME SendsHold, SweepReceipts PROVE SendsHold'
  OBVIOUS
<1>0. /\ receipts' = [m \in Ids |-> IF receipts[m] # Null /\ receipts[m].left = 0 THEN Null ELSE receipts[m]]
      /\ UNCHANGED <<messages, deadline, standing, run, crashes, posts, moved>>
      /\ \A m \in Ids : receipts'[m] \in {receipts[m], Null}
  BY DEF SweepReceipts
<1>1. SendsTables'
  BY <1>0 DEF SendsHold, SendsTables
<1>2. RunServes' /\ RowCovers'
  BY <1>0 DEF SendsHold, RunServes, RowCovers, Waiting, Ahead
<1>3. PostsCounted'
  BY <1>0 DEF SendsHold, PostsCounted
<1>4. ReceiptsOutlast'
  <2>1. \A m \in Ids \ moved : posts[m] > 0 /\ messages[m].status = "scheduled" => receipts'[m] = receipts[m]
    <3> SUFFICES ASSUME NEW m \in Ids \ moved, posts[m] > 0, messages[m].status = "scheduled"
                 PROVE  receipts[m].left # 0
      BY <1>0
    <3>1. receipts[m] # Null /\ receipts[m].left > deadline + MaxLag /\ deadline # Null
      BY DEF SendsHold, ReceiptsOutlast
    <3>2. deadline \in Int /\ deadline >= Past
      BY <3>1 DEF SendsHold, SendsTables
    <3> QED BY <3>1, <3>2, SendsAssumption DEF Past
  <2> QED BY <1>0, <2>1 DEF SendsHold, ReceiptsOutlast, Waiting, Ahead
<1> QED BY <1>1, <1>2, <1>3, <1>4 DEF SendsHold

(* While the row is there, nothing that waits is as late as can be told, so *)
(* that all distances shrink alike.                                         *)
LEMMA TickHolds == SendsHold /\ SendsTick => SendsHold'
<1> SUFFICES ASSUME SendsHold, SendsTick PROVE SendsHold'
  OBVIOUS
<1>0. /\ messages \in [Ids -> Rows] /\ Past \in Int /\ Past <= 0 /\ run \in Runs
      /\ deadline \in Int \cup {Null} /\ (deadline # Null => deadline > Past) /\ Null \notin Int
      /\ \A m \in Ids : messages[m] \in Rows /\ messages[m].at \in Int /\ messages[m].at >= Past
      /\ receipts \in [Ids -> [body : Bodies, left : 0 .. ReceiptTtl] \cup {Null}]
      /\ UNCHANGED <<standing, crashes, posts, moved>>
  BY SendsAssumption DEF SendsTick, SendsHold, SendsTables, Past, Rows
<1>1. /\ messages' \in [Ids -> Rows]
      /\ \A m \in Ids : /\ messages'[m].status = messages[m].status /\ messages'[m].body = messages[m].body
                        /\ messages'[m].at = Nearer(messages[m].at) /\ messages'[m].at \in Int
                        /\ messages'[m].at >= Past /\ messages'[m].at <= messages[m].at
  <2>1. messages' = [m \in Ids |-> [messages[m] EXCEPT !.at = Nearer(@)]]
    BY DEF SendsTick
  <2>2. \A m \in Ids : /\ Nearer(messages[m].at) \in Int /\ Nearer(messages[m].at) >= Past
                       /\ Nearer(messages[m].at) <= messages[m].at
    BY <1>0 DEF Nearer
  <2> QED BY <1>0, <2>1, <2>2 DEF Rows
<1>2. /\ deadline' = IF deadline = Null THEN Null ELSE deadline - 1
      /\ deadline' \in Int \cup {Null} /\ (deadline' # Null => deadline' >= Past)
      /\ deadline' = Null <=> deadline = Null
  BY <1>0 DEF SendsTick, Nearer
<1>3. \A m \in Ids : /\ receipts'[m] = Null <=> receipts[m] = Null
                     /\ receipts'[m] \in [body : Bodies, left : 0 .. ReceiptTtl] \cup {Null}
                     /\ receipts[m] # Null => receipts'[m].left >= receipts[m].left - 1
  <2> SUFFICES ASSUME NEW m \in Ids, receipts[m] # Null, receipts[m].left # 0
               PROVE  /\ [receipts[m] EXCEPT !.left = @ - 1] \in [body : Bodies, left : 0 .. ReceiptTtl]
                      /\ [receipts[m] EXCEPT !.left = @ - 1] # Null
                      /\ [receipts[m] EXCEPT !.left = @ - 1].left >= receipts[m].left - 1
    BY <1>0 DEF SendsTick
  <2>1. receipts[m] \in [body : Bodies, left : 0 .. ReceiptTtl] /\ receipts[m].left \in 1 .. ReceiptTtl
    BY <1>0
  <2>2. PICK fewer : fewer = receipts[m].left - 1
    OBVIOUS
  <2>3. fewer \in 0 .. ReceiptTtl /\ fewer \in Nat
    BY <2>1, <2>2, SendsAssumption
  <2>4. PICK left : left = [receipts[m] EXCEPT !.left = fewer]
    OBVIOUS
  <2>5. /\ left \in [body : Bodies, left : 0 .. ReceiptTtl] /\ left \in [body : Bodies, left : Nat]
        /\ left.left = fewer
    BY <2>1, <2>3, <2>4
  <2>6. left # Null
    BY <2>5, SendsAssumption
  <2> QED BY <2>1, <2>2, <2>3, <2>4, <2>5, <2>6
<1>4. /\ run' \in Runs /\ run'.pc = run.pc /\ run'.batch = run.batch /\ run'.sending = run.sending
      /\ run'.now >= Past /\ run'.now \in Int
      /\ run.pc # "idle" => run'.now = run.now - 1
  <2>1. run.now \in Int /\ run.now >= Past
    BY <1>0 DEF SendsHold, SendsTables, Runs
  <2>2. CASE run.pc = "idle"
    BY <1>0, <2>1, <2>2 DEF SendsTick
  <2>3. CASE run.pc # "idle"
    <3>1. run.now > Past /\ run' = [run EXCEPT !.now = @ - 1]
      BY <2>3 DEF SendsTick
    <3> QED BY <1>0, <2>1, <3>1 DEF Runs
  <2> QED BY <2>2, <2>3
<1>5. deadline # Null => \A m \in Waiting(messages) : messages'[m].at = messages[m].at - 1 /\ deadline <= messages[m].at
  BY <1>0, <1>1 DEF SendsHold, RowCovers, Waiting, Nearer
<1>6. Waiting(messages') = Waiting(messages) /\ Waiting(messages) \subseteq Ids
  BY <1>1 DEF Waiting
<1>7. deadline # Null => \A m \in Waiting(messages) : Ahead(messages', m) = Ahead(messages, m)
  BY <1>0, <1>5, <1>6 DEF Ahead
<1>8. SendsTables'
  <2>1. receipts' \in [Ids -> [body : Bodies, left : 0 .. ReceiptTtl] \cup {Null}]
    <3>1. PICK f : f = [m \in Ids |-> IF receipts[m] = Null \/ receipts[m].left = 0
                                     THEN receipts[m]
                                     ELSE [receipts[m] EXCEPT !.left = @ - 1]]
      OBVIOUS
    <3>2. receipts' = f
      BY <3>1 DEF SendsTick
    <3>3. f = [m \in Ids |-> f[m]]
      BY <3>1
    <3> QED BY <1>3, <3>2, <3>3
  <2>2. /\ standing \in Standings /\ crashes \in 0 .. MaxCrashes
        /\ posts \in [Ids -> Nat] /\ moved \subseteq Ids
        /\ \A m \in Ids : messages[m].status # "none" => messages[m].body \in Bodies
    BY DEF SendsHold, SendsTables
  <2>3. \A m \in Ids : messages'[m].at >= Past /\ (messages'[m].status # "none" => messages'[m].body \in Bodies)
    BY <1>1, <2>2
  <2> QED BY <1>0, <1>1, <1>2, <1>4, <2>1, <2>2, <2>3 DEF SendsTables
<1>9. RunServes'
  <2>1. run.now \in Int /\ run.batch \subseteq Ids
    BY <1>0 DEF Runs
  <2>2. run.pc \notin {"idle", "claimed"} => deadline # Null
    BY DEF SendsHold, RunServes
  <2>3. \A m \in run.batch : /\ messages'[m].status = "scheduled" /\ messages'[m].at <= run'.now
                             /\ Cardinality(Ahead(messages', m)) < SendBatch
    <3> SUFFICES ASSUME NEW m \in run.batch
                 PROVE  /\ messages'[m].status = "scheduled" /\ messages'[m].at <= run'.now
                        /\ Cardinality(Ahead(messages', m)) < SendBatch
      OBVIOUS
    <3>1. run.pc # "idle" /\ deadline # Null /\ messages[m].status = "scheduled" /\ messages[m].at <= run.now
          /\ Cardinality(Ahead(messages, m)) < SendBatch
      BY DEF SendsHold, RunServes
    <3>2. m \in Ids /\ m \in Waiting(messages)
      BY <2>1, <3>1 DEF Waiting
    <3> QED BY <1>0, <1>1, <1>4, <1>5, <1>7, <2>1, <3>1, <3>2
  <2>4. run.pc # "idle" => deadline' # Null /\ deadline' <= 0 /\ run'.now <= 0
    BY <1>0, <1>2, <1>4, <2>1 DEF SendsHold, RunServes
  <2> QED BY <1>0, <1>4, <2>3, <2>4 DEF SendsHold, RunServes
<1>10. RowCovers'
  BY <1>0, <1>1, <1>2, <1>5, <1>6 DEF RowCovers, Waiting
<1>11. PostsCounted'
  <2>1. \A m \in Ids :
          /\ messages[m].status = "sent" \/ receipts[m] # Null => posts[m] > 0
          /\ messages[m].status = "none" => posts[m] = 0
          /\ posts[m] <= crashes + IF messages[m].status = "sent" \/ run.sending = m THEN 1 ELSE 0
    BY DEF SendsHold, PostsCounted
  <2>2. \A m \in Ids : /\ messages'[m].status = messages[m].status /\ (receipts'[m] = Null <=> receipts[m] = Null)
    BY <1>1, <1>3, Zenon
  <2>3. run'.sending = run.sending /\ posts' = posts /\ crashes' = crashes
    BY <1>0, <1>4
  <2> QED BY <2>1, <2>2, <2>3 DEF PostsCounted
<1>12. ReceiptsOutlast'
  <2> SUFFICES ASSUME NEW m \in Ids \ moved, posts[m] > 0, messages[m].status = "scheduled"
               PROVE  /\ deadline' # Null /\ deadline' <= 0
                      /\ messages'[m].at <= 0 /\ (run.pc # "idle" => messages'[m].at <= run'.now)
                      /\ receipts'[m] # Null /\ receipts'[m].left > deadline' + MaxLag
                      /\ Cardinality(Ahead(messages', m)) < SendBatch
                      /\ run.pc \in {"deliver", "posted"} => m \in run.batch
    BY <1>0, <1>1, <1>4 DEF SendsHold, ReceiptsOutlast
  <2>1. /\ deadline # Null /\ deadline <= 0
        /\ messages[m].at <= 0 /\ (run.pc # "idle" => messages[m].at <= run.now)
        /\ receipts[m] # Null /\ receipts[m].left > deadline + MaxLag
        /\ Cardinality(Ahead(messages, m)) < SendBatch
        /\ run.pc \in {"deliver", "posted"} => m \in run.batch
    BY DEF SendsHold, ReceiptsOutlast
  <2>2. m \in Waiting(messages) /\ deadline \in Int /\ run.now \in Int /\ receipts[m].left \in Int
        /\ receipts'[m].left \in Int
    <3>1. m \in Waiting(messages) /\ deadline \in Int /\ run.now \in Int
      BY <1>0, <2>1 DEF Waiting, Runs
    <3>2. receipts[m] \in [body : Bodies, left : 0 .. ReceiptTtl]
      BY <1>0, <2>1
    <3>3. receipts'[m] \in [body : Bodies, left : 0 .. ReceiptTtl]
      BY <1>3, <2>1
    <3>4. \A x \in [body : Bodies, left : 0 .. ReceiptTtl] : x.left \in Int
      BY SendsAssumption
    <3> QED BY <3>1, <3>2, <3>3, <3>4
  <2>3. messages'[m].at = messages[m].at - 1
    BY <1>5, <2>1, <2>2
  <2> QED BY <1>0, <1>2, <1>3, <1>4, <1>7, <2>1, <2>2, <2>3, SendsAssumption
<1> QED BY <1>8, <1>9, <1>10, <1>11, <1>12 DEF SendsHold

LEMMA SendsStep == SendsHold /\ [SendsNext]_sendsVars => SendsHold'
<1> SUFFICES ASSUME SendsHold, [SendsNext]_sendsVars PROVE SendsHold'
  OBVIOUS
<1>1. CASE UNCHANGED sendsVars
  <2>1. standing' \in Standings
    BY <1>1 DEF sendsVars, SendsHold, SendsTables
  <2> QED BY <1>1, <2>1, SendsStutter DEF sendsVars
<1> QED BY <1>1, MembersStep, RunsStep, CrashHolds, SweepHolds, TickHolds DEF SendsNext

LEMMA SendsTold == SendsHold => PostedAsTold
<1> SUFFICES ASSUME SendsHold PROVE PostedAsTold
  OBVIOUS
<1>1. SendsTypeOK
  BY DEF SendsHold, SendsTables, SendsTypeOK
<1>2. posts \in [Ids -> Nat] /\ crashes \in Nat
  BY DEF SendsHold, SendsTables
<1>3. SendsInvariant
  BY <1>1, <1>2 DEF SendsHold, RunServes, PostsCounted, SendsInvariant
<1>4. \A m \in Ids \ moved : posts[m] <= 1
  BY DEF SendsHold, ReceiptsOutlast
<1>5. ASSUME crashes = 0, NEW m \in Ids
      PROVE  posts[m] = IF messages[m].status = "sent" \/ run.sending = m THEN 1 ELSE 0
  <2>1. run.sending = m => posts[m] > 0
    BY SendsAssumption DEF SendsHold, RunServes
  <2> QED BY <1>2, <1>5, <2>1 DEF SendsHold, PostsCounted
<1> QED BY <1>3, <1>4, <1>5 DEF PostedAsTold

(* A scheduled message is posted once, unless it is moved after it was      *)
(* posted, only while it waits and is due and its author may speak, and     *)
(* what its author is told is true.                                         *)
THEOREM SendsAreTrue == SendsSpec => OutcomeIsTrue
<1>1. SendsHold /\ [SendsNext]_sendsVars =>
          [\A m \in Ids : posts'[m] # posts[m] =>
             messages[m].status = "scheduled" /\ messages[m].at <= run.now /\ standing = "yes"]_sendsVars
  <2> SUFFICES ASSUME SendsHold, SendsNext, NEW m \in Ids, posts'[m] # posts[m]
               PROVE  messages[m].status = "scheduled" /\ messages[m].at <= run.now /\ standing = "yes"
    OBVIOUS
  <2>1. ~UNCHANGED posts
    OBVIOUS
  <2>2. PICK o \in Ids : PostMessage(o)
    BY <2>1, Zenon DEF SendsNext, MemberStep, RunStep, Crash, SweepReceipts, SendsTick, UpdateBody, UpdateTime, Schedule,
       Cancel, ChangeStanding, BeginRun, BeginDelivery, SettleUnposted, SettleSent, EndRun
  <2>3. posts \in [Ids -> Nat]
    BY DEF SendsHold, SendsTables
  <2>4. o = m
    BY <2>2, <2>3 DEF PostMessage
  <2> QED BY <2>2, <2>4 DEF PostMessage, Refused, SendsHold, RunServes
<1> QED BY <1>1, SendsStart, SendsStep, SendsTold, PTL DEF SendsSpec, OutcomeIsTrue
=================================================================================
