-------------------------- MODULE AgentQueueProofs --------------------------
(***************************************************************************)
(* Proofs about AgentQueue for any number of rows, sessions, connections,  *)
(* claim ids and secrets, any retry table, lease length and clock skew.    *)
(*                                                                         *)
(* LeaseInvariant is inductive; the safety properties are conjuncts or     *)
(* consequences of it.  A claim first sweeps the whole table, so what the  *)
(* sweep may do to a row is stated once (Sweeps) and used by every claim.  *)
(***************************************************************************)
EXTENDS AgentQueue, TLAPS

(* Writing one column keeps a row typed; an UPDATE of several columns is a  *)
(* chain of these.                                                         *)
LEMMA WriteState ==
    ASSUME NEW row \in Rows, NEW v \in States
    PROVE  [row EXCEPT !.state = v] \in Rows
  BY DEF States, Rows

LEMMA WriteAttempts ==
    ASSUME NEW row \in Rows, NEW v \in Nat
    PROVE  [row EXCEPT !.attempts = v] \in Rows
  BY DEF Rows

LEMMA WriteGeneration ==
    ASSUME NEW row \in Rows, NEW v \in Nat
    PROVE  [row EXCEPT !.generation = v] \in Rows
  BY DEF Rows

LEMMA WriteNotBefore ==
    ASSUME NEW row \in Rows, NEW v \in Int
    PROVE  [row EXCEPT !.notBefore = v] \in Rows
  BY DEF Rows

LEMMA WriteHolder ==
    ASSUME NEW row \in Rows, NEW v \in Holders \cup {None}
    PROVE  [row EXCEPT !.holder = v] \in Rows
  BY DEF Rows

LEMMA WriteClaimId ==
    ASSUME NEW row \in Rows, NEW v \in ClaimIds \cup {None}
    PROVE  [row EXCEPT !.claimId = v] \in Rows
  BY DEF Rows

LEMMA WriteToken ==
    ASSUME NEW row \in Rows, NEW v \in Tokens \cup {None}
    PROVE  [row EXCEPT !.token = v] \in Rows
  BY DEF Rows

LEMMA WriteExpires ==
    ASSUME NEW row \in Rows, NEW v \in Int
    PROVE  [row EXCEPT !.expires = v] \in Rows
  BY DEF Rows

LEMMA WriteStarted ==
    ASSUME NEW row \in Rows, NEW v \in BOOLEAN
    PROVE  [row EXCEPT !.started = v] \in Rows
  BY DEF Rows

LEMMA WriteResult ==
    ASSUME NEW row \in Rows, NEW v \in Results \cup {None}
    PROVE  [row EXCEPT !.result = v] \in Rows
  BY DEF Rows

(* What expireAgentClaims may do to a row. *)
Sweeps(old, new) ==
    /\ old.state = "claimed"
    /\ new.generation = old.generation
    /\ new.attempts = old.attempts
    /\ new.started = old.started
    /\ new.result = old.result
    /\ \/ new.state = "needs_attention"
       \/ new.state = "dead_letter" /\ ~old.started /\ old.attempts = MaxAttempts
       \/ new.state = "pending" /\ ~old.started /\ old.attempts < MaxAttempts

LEMMA AfterExpiryFacts ==
    ASSUME NEW row \in Rows, RowConsistent(row), row.state = "claimed",
           NEW o \in Offsets
    PROVE  /\ AfterExpiry(row, o) \in Rows
           /\ RowConsistent(AfterExpiry(row, o))
           /\ Sweeps(row, AfterExpiry(row, o))
<1>0. "needs_attention" \in States /\ "dead_letter" \in States /\ "pending" \in States
  BY DEF States
<1>i. Floor \in Int /\ o \in Int /\ FALSE \in BOOLEAN
  BY QueueAssumption DEF Floor, Offsets
<1>1. CASE row.started
  <2> DEFINE new == [row EXCEPT !.state = "needs_attention", !.token = None,
                                !.expires = Floor]
  <2>1. AfterExpiry(row, o) = new
    BY <1>1 DEF AfterExpiry
  <2>2. new \in Rows
    BY <1>0, <1>i, WriteState, WriteToken, WriteExpires
  <2>3. RowConsistent(new)
    BY QueueAssumption DEF RowConsistent, Rows, EmptyRow
  <2>4. Sweeps(row, new)
    BY DEF Sweeps, Rows
  <2>5. QED
    BY <2>1, <2>2, <2>3, <2>4
<1>2. CASE ~row.started /\ row.attempts >= MaxAttempts
  <2> DEFINE new == [row EXCEPT !.state = "dead_letter", !.token = None,
                                !.expires = Floor]
  <2>1. AfterExpiry(row, o) = new
    BY <1>2 DEF AfterExpiry
  <2>2. new \in Rows
    BY <1>0, <1>i, WriteState, WriteToken, WriteExpires
  <2>3. row.attempts = MaxAttempts
    BY <1>2, QueueAssumption DEF RowConsistent, Rows
  <2>4. RowConsistent(new)
    BY <1>2, <2>3, QueueAssumption DEF RowConsistent, Rows, EmptyRow
  <2>5. Sweeps(row, new)
    BY <1>2, <2>3 DEF Sweeps, Rows
  <2>6. QED
    BY <2>1, <2>2, <2>4, <2>5
<1>3. CASE ~row.started /\ row.attempts < MaxAttempts
  <2> DEFINE retryAt == o + Backoff[row.attempts]
  <2> DEFINE new == [row EXCEPT !.state = "pending", !.notBefore = retryAt,
                                !.holder = None, !.claimId = None, !.token = None,
                                !.expires = Floor, !.started = FALSE]
  <2>1. AfterExpiry(row, o) = new
    BY <1>3, QueueAssumption DEF AfterExpiry, Rows
  <2>2. row.attempts \in 1 .. MaxAttempts - 1
    BY <1>3, QueueAssumption DEF RowConsistent, Rows
  <2>3. retryAt \in Int
    BY <1>i, <2>2, QueueAssumption
  <2> HIDE DEF retryAt
  <2>4. new \in Rows
    BY <1>0, <1>i, <2>3, WriteState, WriteNotBefore, WriteHolder, WriteClaimId,
       WriteToken, WriteExpires, WriteStarted
  <2>5. RowConsistent(new)
    BY <1>3 DEF RowConsistent, Rows, EmptyRow
  <2>6. Sweeps(row, new)
    BY <1>3 DEF Sweeps, Rows
  <2>7. QED
    BY <2>1, <2>4, <2>5, <2>6
<1>4. QED
  BY <1>1, <1>2, <1>3, QueueAssumption DEF Rows

(* The sweep keeps every row well formed and touches only lost leases. *)
LEMMA SweptFacts ==
    ASSUME LeaseInvariant, NEW o \in Offsets
    PROVE  /\ Swept(o) \in [Items -> Rows]
           /\ \A i \in Items : /\ RowConsistent(Swept(o)[i])
                               /\ \/ Swept(o)[i] = queue[i]
                                  \/ Sweeps(queue[i], Swept(o)[i])
<1>1. ASSUME NEW i \in Items
      PROVE  LET row == IF LeaseLost(queue[i], o) THEN AfterExpiry(queue[i], o)
                                                  ELSE queue[i]
             IN  /\ row \in Rows
                 /\ RowConsistent(row)
                 /\ row = queue[i] \/ Sweeps(queue[i], row)
  <2>1. queue[i] \in Rows /\ RowConsistent(queue[i])
    BY DEF LeaseInvariant, QueueTypeOK
  <2>2. QED
    BY <2>1, AfterExpiryFacts DEF LeaseLost
<1>2. QED
  BY <1>1 DEF Swept

-----------------------------------------------------------------------------
(* Every action but a claim moves rows along one lease at most: Follows.    *)
(* The history stays consistent with rows that move so.                     *)

Follows(old, new) ==
    /\ new.generation = old.generation
    /\ old.started => new.started
    /\ new.state = "claimed" => /\ old.state = "claimed"
                                /\ new.holder = old.holder
                                /\ new.claimId = old.claimId
                                /\ new.token = old.token
    /\ old.started /\ old.state \notin {"absent", "pending"} =>
          new.state \notin {"absent", "pending"}
    /\ old.state = "completed" => /\ new.state = "completed"
                                  /\ new.result = old.result

LEMMA SweepsFollows ==
    ASSUME NEW old \in Rows, NEW new \in Rows, Sweeps(old, new) \/ new = old
    PROVE  Follows(old, new)
  BY DEF Sweeps, Follows, Rows

LEMMA FollowsGrants ==
    ASSUME LeaseInvariant, \A i \in Items : Follows(queue[i], queue'[i]),
           NEW p \in granted
    PROVE  GrantConsistent(p)'
<1>1. p.item \in Items /\ GrantConsistent(p) /\ Follows(queue[p.item], queue'[p.item])
  BY DEF LeaseInvariant, QueueTypeOK, Proofs
<1>2. QED
  BY <1>1 DEF GrantConsistent, Follows, ProofOf

LEMMA FollowsExecuted ==
    ASSUME LeaseInvariant, \A i \in Items : Follows(queue[i], queue'[i]),
           NEW e \in executed
    PROVE  ExecutionConsistent(e)'
<1>1. e[1] \in Items /\ ExecutionConsistent(e) /\ Follows(queue[e[1]], queue'[e[1]])
  BY DEF LeaseInvariant, QueueTypeOK
<1>2. QED
  BY <1>1 DEF ExecutionConsistent, Follows

LEMMA FollowsReceipts ==
    ASSUME LeaseInvariant, \A i \in Items : Follows(queue[i], queue'[i]),
           NEW e \in receipts
    PROVE  /\ queue'[e[1]].state = "completed"
           /\ queue'[e[1]].generation = e[2]
           /\ queue'[e[1]].result = e[3]
<1>1. /\ e[1] \in Items
      /\ queue[e[1]].state = "completed"
      /\ queue[e[1]].generation = e[2]
      /\ queue[e[1]].result = e[3]
      /\ Follows(queue[e[1]], queue'[e[1]])
  BY DEF LeaseInvariant, QueueTypeOK, AcknowledgedCompletionStands
<1>2. QED
  BY <1>1 DEF Follows

LEMMA FollowsClaimIds ==
    ASSUME LeaseInvariant, \A i \in Items : Follows(queue[i], queue'[i])
    PROVE  ClaimIdNamesOneLease'
  BY DEF LeaseInvariant, ClaimIdNamesOneLease, Follows

(* The whole invariant after a step that grants, starts and acknowledges    *)
(* nothing and moves no row to another lease.                               *)
LEMMA QuietStep ==
    ASSUME LeaseInvariant, QueueTypeOK',
           \A i \in Items : RowConsistent(queue'[i]) /\ Follows(queue[i], queue'[i]),
           granted' = granted, executed' = executed, receipts' = receipts
    PROVE  LeaseInvariant'
<1>1. \A p \in granted' : GrantConsistent(p)'
  BY FollowsGrants
<1>2. \A e \in executed' : ExecutionConsistent(e)'
  BY FollowsExecuted
<1>3. OneLeasePerGeneration'
  BY DEF LeaseInvariant, OneLeasePerGeneration
<1>4. AcknowledgedCompletionStands'
  BY FollowsReceipts DEF AcknowledgedCompletionStands
<1>5. ClaimIdNamesOneLease'
  BY FollowsClaimIds
<1>6. (\A i \in Items : RowConsistent(queue[i]))'
  OBVIOUS
<1>7. QED
  BY <1>1, <1>2, <1>3, <1>4, <1>5, <1>6 DEF LeaseInvariant

-----------------------------------------------------------------------------
(* One lemma per action. *)

LEMMA AuthorityType ==
    ASSUME AuthorityTypeOK, AuthorityNext
    PROVE  AuthorityTypeOK'
<1> USE DEF AuthorityTypeOK, Phases, EndedIn
<1>1. ASSUME NEW s \in Sessions, StartSession(s)
      PROVE  AuthorityTypeOK'
  BY <1>1 DEF StartSession
<1>2. ASSUME NEW s \in Sessions, EndSession(s)
      PROVE  AuthorityTypeOK'
  BY <1>2 DEF EndSession
<1>3. ASSUME NEW b \in BOOLEAN, SetAgentStatus(b)
      PROVE  AuthorityTypeOK'
  BY <1>3 DEF SetAgentStatus
<1>4. QED
  BY <1>1, <1>2, <1>3 DEF AuthorityNext

LEMMA EmptyRowType == EmptyRow \in Rows
  BY QueueAssumption DEF EmptyRow, Rows, States, Floor

(* An UPDATE of one row. *)
LEMMA OneRow ==
    ASSUME LeaseInvariant, NEW n \in Items, NEW row \in Rows, RowConsistent(row),
           Follows(queue[n], row), queue' = [queue EXCEPT ![n] = row]
    PROVE  /\ queue' \in [Items -> Rows]
           /\ \A i \in Items : RowConsistent(queue'[i]) /\ Follows(queue[i], queue'[i])
<1>1. queue \in [Items -> Rows]
  BY DEF LeaseInvariant, QueueTypeOK
<1>2. ASSUME NEW i \in Items
      PROVE  RowConsistent(queue'[i]) /\ Follows(queue[i], queue'[i])
  <2>1. CASE i = n
    BY <2>1, <1>1
  <2>2. CASE i # n
    BY <2>2, <1>1 DEF LeaseInvariant, Follows
  <2>3. QED
    BY <2>1, <2>2
<1>3. QED
  BY <1>1, <1>2

LEMMA InitLease == Init => LeaseInvariant
<1> SUFFICES ASSUME Init PROVE LeaseInvariant
  OBVIOUS
<1> USE QueueAssumption DEF Init
<1>1. QueueTypeOK
  BY EmptyRowType DEF QueueTypeOK, AuthorityInit, AuthorityTypeOK, Phases
<1>2. \A i \in Items : RowConsistent(queue[i])
  BY DEF RowConsistent, EmptyRow
<1>3. OneLeasePerGeneration /\ AcknowledgedCompletionStands /\ ClaimIdNamesOneLease
  BY DEF OneLeasePerGeneration, AcknowledgedCompletionStands, ClaimIdNamesOneLease,
         EmptyRow
<1>4. QED
  BY <1>1, <1>2, <1>3 DEF LeaseInvariant

LEMMA EnqueueStep ==
    ASSUME LeaseInvariant, NEW n \in Items, EnqueueAgentWork(n)
    PROVE  LeaseInvariant'
<1> DEFINE row == [EmptyRow EXCEPT !.state = "pending"]
<1>1. /\ queue[n] \in Rows /\ RowConsistent(queue[n]) /\ queue[n].state = "absent"
      /\ queue' = [queue EXCEPT ![n] = row]
  BY DEF EnqueueAgentWork, LeaseInvariant, QueueTypeOK
<1>2. row \in Rows
  BY EmptyRowType, WriteState DEF States
<1>3. RowConsistent(row) /\ Follows(queue[n], row)
  BY <1>1, QueueAssumption DEF EmptyRow, RowConsistent, Follows, Rows
<1> HIDE DEF row
<1>4. /\ queue' \in [Items -> Rows]
      /\ \A i \in Items : RowConsistent(queue'[i]) /\ Follows(queue[i], queue'[i])
  BY <1>1, <1>2, <1>3, OneRow
<1>5. QueueTypeOK'
  BY <1>4 DEF EnqueueAgentWork, LeaseInvariant, QueueTypeOK, AuthorityTypeOK,
              authorityVars
<1>6. QED
  BY <1>4, <1>5, QuietStep DEF EnqueueAgentWork

(* What a proof that was accepted says of its row. *)
LEMMA AuthorizedFacts ==
    ASSUME LeaseInvariant, NEW h \in Holders, NEW p \in granted, NEW o \in Offsets,
           Authorized(h, p, o)
    PROVE  /\ p \in Proofs
           /\ p.item \in Items
           /\ queue[p.item] \in Rows
           /\ RowConsistent(queue[p.item])
           /\ queue[p.item].state = "claimed"
           /\ queue[p.item].generation = p.generation
           /\ o + LeaseTime \in Int
<1>1. p \in Proofs
  BY DEF LeaseInvariant, QueueTypeOK
<1>2. p.item \in Items
  BY <1>1 DEF Proofs
<1>3. queue[p.item] \in Rows /\ RowConsistent(queue[p.item])
  BY <1>2 DEF LeaseInvariant, QueueTypeOK
<1>4. o + LeaseTime \in Int
  BY QueueAssumption DEF Offsets, Floor
<1>5. QED
  BY <1>1, <1>2, <1>3, <1>4 DEF Authorized, MatchesLease

LEMMA RenewStep ==
    ASSUME LeaseInvariant, NEW h \in Holders, NEW p \in granted, NEW o \in Offsets,
           RenewAgentLease(h, p, o)
    PROVE  LeaseInvariant'
<1> DEFINE n == p.item
<1> DEFINE row == [queue[n] EXCEPT !.expires = o + LeaseTime]
<1>1. /\ n \in Items /\ queue[n] \in Rows /\ RowConsistent(queue[n])
      /\ queue[n].state = "claimed" /\ o + LeaseTime \in Int
  BY AuthorizedFacts DEF RenewAgentLease
<1>2. row \in Rows
  BY <1>1, WriteExpires
<1>3. RowConsistent(row) /\ Follows(queue[n], row)
  BY <1>1 DEF RowConsistent, Rows, EmptyRow, Follows
<1>4. queue' = [queue EXCEPT ![n] = row]
  BY <1>1 DEF RenewAgentLease
<1> HIDE DEF n, row
<1>5. /\ queue' \in [Items -> Rows]
      /\ \A i \in Items : RowConsistent(queue'[i]) /\ Follows(queue[i], queue'[i])
  BY <1>1, <1>2, <1>3, <1>4, OneRow
<1>6. QueueTypeOK'
  BY <1>5 DEF RenewAgentLease, LeaseInvariant, QueueTypeOK, AuthorityTypeOK,
              authorityVars
<1>7. QED
  BY <1>5, <1>6, QuietStep DEF RenewAgentLease

LEMMA StartStep ==
    ASSUME LeaseInvariant, NEW h \in Holders, NEW p \in granted, NEW o \in Offsets,
           MarkAgentExecutionStarted(h, p, o)
    PROVE  LeaseInvariant'
<1> DEFINE n == p.item
<1> DEFINE row == [queue[n] EXCEPT !.started = TRUE]
<1>1. /\ p \in Proofs /\ n \in Items /\ queue[n] \in Rows
      /\ RowConsistent(queue[n]) /\ queue[n].state = "claimed"
      /\ queue[n].generation = p.generation
  BY AuthorizedFacts DEF MarkAgentExecutionStarted
<1>2. row \in Rows
  BY <1>1, WriteStarted
<1>3. RowConsistent(row) /\ Follows(queue[n], row)
  BY <1>1 DEF RowConsistent, Rows, EmptyRow, Follows
<1>4. queue' = [queue EXCEPT ![n] = row]
  BY <1>1 DEF MarkAgentExecutionStarted
<1>5. row.started /\ row.state = "claimed" /\ row.generation = p.generation
  BY <1>1 DEF Rows
<1> HIDE DEF row
<1>6. /\ queue' \in [Items -> Rows]
      /\ \A i \in Items : RowConsistent(queue'[i]) /\ Follows(queue[i], queue'[i])
  BY <1>1, <1>2, <1>3, <1>4, OneRow
<1>7. queue'[n] = row
  BY <1>1, <1>4 DEF LeaseInvariant, QueueTypeOK
<1>8. QueueTypeOK'
  BY <1>1, <1>6 DEF MarkAgentExecutionStarted, LeaseInvariant, QueueTypeOK, Proofs,
                    AuthorityTypeOK, authorityVars
<1>9. \A e \in executed' : ExecutionConsistent(e)'
  <2>1. executed' = executed \cup {<<n, p.generation>>}
    BY DEF MarkAgentExecutionStarted
  <2>2. ASSUME NEW e \in executed PROVE ExecutionConsistent(e)'
    BY <1>6, FollowsExecuted
  <2>3. ExecutionConsistent(<<n, p.generation>>)'
    BY <1>5, <1>7 DEF ExecutionConsistent
  <2>4. QED
    BY <2>1, <2>2, <2>3
<1>10. \A q \in granted' : GrantConsistent(q)'
  BY <1>6, FollowsGrants DEF MarkAgentExecutionStarted
<1>11. OneLeasePerGeneration'
  BY DEF LeaseInvariant, OneLeasePerGeneration, MarkAgentExecutionStarted
<1>12. AcknowledgedCompletionStands'
  BY <1>6, FollowsReceipts DEF AcknowledgedCompletionStands, MarkAgentExecutionStarted
<1>13. ClaimIdNamesOneLease'
  BY <1>6, FollowsClaimIds
<1>14. QED
  BY <1>6, <1>8, <1>9, <1>10, <1>11, <1>12, <1>13 DEF LeaseInvariant

LEMMA CompleteStep ==
    ASSUME LeaseInvariant, NEW h \in Holders, NEW p \in granted, NEW o \in Offsets,
           NEW r \in Results, CompleteAgentWork(h, p, r, o)
    PROVE  LeaseInvariant'
<1> DEFINE n == p.item
<1> DEFINE row == [queue[n] EXCEPT !.state = "completed", !.result = r,
                                   !.expires = Floor]
<1>1. /\ p \in Proofs /\ n \in Items /\ queue[n] \in Rows
      /\ RowConsistent(queue[n]) /\ queue[n].state = "claimed"
      /\ queue[n].generation = p.generation
  BY AuthorizedFacts DEF CompleteAgentWork
<1>2. row \in Rows
  <2>1. "completed" \in States /\ Floor \in Int
    BY QueueAssumption DEF States, Floor
  <2>2. QED
    BY <1>1, <2>1, WriteState, WriteResult, WriteExpires
<1>3. RowConsistent(row) /\ Follows(queue[n], row)
  BY <1>1, QueueAssumption DEF RowConsistent, Rows, EmptyRow, Follows
<1>4. queue' = [queue EXCEPT ![n] = row]
  BY <1>1 DEF CompleteAgentWork
<1>5. row.state = "completed" /\ row.result = r /\ row.generation = p.generation
  BY <1>1 DEF Rows
<1> HIDE DEF row
<1>6. /\ queue' \in [Items -> Rows]
      /\ \A i \in Items : RowConsistent(queue'[i]) /\ Follows(queue[i], queue'[i])
  BY <1>1, <1>2, <1>3, <1>4, OneRow
<1>7. queue'[n] = row
  BY <1>1, <1>4 DEF LeaseInvariant, QueueTypeOK
<1>8. QueueTypeOK'
  BY <1>1, <1>6 DEF CompleteAgentWork, LeaseInvariant, QueueTypeOK, Proofs,
                    AuthorityTypeOK, authorityVars
<1>9. AcknowledgedCompletionStands'
  <2>1. receipts' = receipts \cup {<<n, p.generation, r>>}
    BY DEF CompleteAgentWork
  <2>2. \A e \in receipts : /\ queue'[e[1]].state = "completed"
                            /\ queue'[e[1]].generation = e[2]
                            /\ queue'[e[1]].result = e[3]
    BY <1>6, FollowsReceipts
  <2>3. QED
    BY <2>1, <2>2, <1>5, <1>7 DEF AcknowledgedCompletionStands
<1>10. \A q \in granted' : GrantConsistent(q)'
  BY <1>6, FollowsGrants DEF CompleteAgentWork
<1>11. \A e \in executed' : ExecutionConsistent(e)'
  BY <1>6, FollowsExecuted DEF CompleteAgentWork
<1>12. OneLeasePerGeneration'
  BY DEF LeaseInvariant, OneLeasePerGeneration, CompleteAgentWork
<1>13. ClaimIdNamesOneLease'
  BY <1>6, FollowsClaimIds
<1>14. QED
  BY <1>6, <1>8, <1>9, <1>10, <1>11, <1>12, <1>13 DEF LeaseInvariant

LEMMA CompleteReplayStep ==
    ASSUME LeaseInvariant, NEW h \in Holders, NEW p \in granted,
           NEW r \in Results, CompleteReplay(h, p, r)
    PROVE  LeaseInvariant'
<1>1. p \in Proofs /\ p.item \in Items
  BY DEF LeaseInvariant, QueueTypeOK, Proofs
<1>2. /\ queue[p.item].state = "completed"
      /\ queue[p.item].generation = p.generation
      /\ queue[p.item].result = r
      /\ queue' = queue
      /\ granted' = granted /\ executed' = executed
      /\ receipts' = receipts \cup {<<p.item, p.generation, r>>}
  BY DEF CompleteReplay, MatchesLease
<1>3. QueueTypeOK'
  BY <1>1, <1>2 DEF CompleteReplay, LeaseInvariant, QueueTypeOK, Proofs,
                    AuthorityTypeOK, authorityVars
<1>4. AcknowledgedCompletionStands'
  BY <1>2 DEF LeaseInvariant, AcknowledgedCompletionStands
<1>5. /\ (\A i \in Items : RowConsistent(queue[i]))'
      /\ (\A q \in granted : GrantConsistent(q))'
      /\ (\A e \in executed : ExecutionConsistent(e))'
      /\ OneLeasePerGeneration'
      /\ ClaimIdNamesOneLease'
  BY <1>2 DEF LeaseInvariant, GrantConsistent, ExecutionConsistent, ProofOf,
              OneLeasePerGeneration, ClaimIdNamesOneLease
<1>6. QED
  BY <1>3, <1>4, <1>5 DEF LeaseInvariant

LEMMA ReportStep ==
    ASSUME LeaseInvariant, NEW s \in Sessions, ReportRunnerOutcome(s)
    PROVE  LeaseInvariant'
<1>1. ASSUME NEW i \in Items
      PROVE  /\ queue'[i] \in Rows
             /\ RowConsistent(queue'[i])
             /\ Follows(queue[i], queue'[i])
  <2> DEFINE row == [queue[i] EXCEPT !.state = "needs_attention", !.token = None,
                                     !.expires = Floor]
  <2>1. queue[i] \in Rows /\ RowConsistent(queue[i])
    BY DEF LeaseInvariant, QueueTypeOK
  <2>2. CASE queue[i].state = "claimed" /\ queue[i].holder = s
    <3>1. queue'[i] = row
      BY <2>2 DEF ReportRunnerOutcome
    <3>2. row \in Rows
      <4>1. "needs_attention" \in States /\ Floor \in Int
        BY QueueAssumption DEF States, Floor
      <4>2. QED
        BY <2>1, <4>1, WriteState, WriteToken, WriteExpires
    <3>3. RowConsistent(row) /\ Follows(queue[i], row)
      BY <2>1, <2>2 DEF RowConsistent, Rows, EmptyRow, Follows
    <3>4. QED
      BY <3>1, <3>2, <3>3
  <2>3. CASE ~(queue[i].state = "claimed" /\ queue[i].holder = s)
    BY <2>1, <2>3 DEF ReportRunnerOutcome, Follows
  <2>4. QED
    BY <2>2, <2>3
<1>2. queue' \in [Items -> Rows]
  BY <1>1 DEF ReportRunnerOutcome
<1>3. QueueTypeOK'
  BY <1>2 DEF ReportRunnerOutcome, LeaseInvariant, QueueTypeOK, AuthorityTypeOK,
              authorityVars
<1>4. QED
  BY <1>1, <1>3, QuietStep DEF ReportRunnerOutcome

LEMMA TickStep ==
    ASSUME LeaseInvariant, Tick
    PROVE  LeaseInvariant'
<1>1. ASSUME NEW i \in Items
      PROVE  /\ queue'[i] \in Rows
             /\ RowConsistent(queue'[i])
             /\ Follows(queue[i], queue'[i])
  <2> DEFINE nb == Nearer(queue[i].notBefore)
             ex == Nearer(queue[i].expires)
             row == [queue[i] EXCEPT !.notBefore = nb, !.expires = ex]
  <2>1. queue[i] \in Rows /\ RowConsistent(queue[i])
    BY DEF LeaseInvariant, QueueTypeOK
  <2>2. nb \in Int /\ ex \in Int
    BY <2>1 DEF Nearer, Rows
  <2>3. queue'[i] = row
    BY DEF Tick
  <2> HIDE DEF nb, ex
  <2>5. row \in Rows
    BY <2>1, <2>2, WriteNotBefore, WriteExpires
  <2>7. /\ row.state = queue[i].state
        /\ row.attempts = queue[i].attempts
        /\ row.generation = queue[i].generation
        /\ row.holder = queue[i].holder
        /\ row.claimId = queue[i].claimId
        /\ row.token = queue[i].token
        /\ row.started = queue[i].started
        /\ row.result = queue[i].result
    BY <2>1 DEF Rows
  <2> HIDE DEF row
  <2>8. RowConsistent(row) /\ Follows(queue[i], row)
    BY <2>1, <2>7 DEF RowConsistent, Follows
  <2>9. QED
    BY <2>3, <2>5, <2>8
<1>2. queue' \in [Items -> Rows]
  BY <1>1 DEF Tick
<1>3. QueueTypeOK'
  BY <1>2 DEF Tick, LeaseInvariant, QueueTypeOK, AuthorityTypeOK, authorityVars
<1>4. QED
  BY <1>1, <1>3, QuietStep DEF Tick

LEMMA QuietRows ==
    ASSUME LeaseInvariant, queue' = queue
    PROVE  \A i \in Items : RowConsistent(queue'[i]) /\ Follows(queue[i], queue'[i])
  BY DEF LeaseInvariant, Follows

LEMMA SessionsAndConnectionsStep ==
    ASSUME LeaseInvariant,
           SessionStep \/ \E c \in Connections : RevokeOauthConnection(c)
    PROVE  LeaseInvariant'
<1>1. CASE SessionStep
  <2>1. QueueTypeOK'
    BY <1>1, AuthorityType DEF SessionStep, LeaseInvariant, QueueTypeOK, queueVars
  <2>2. QED
    BY <1>1, <2>1, QuietRows, QuietStep DEF SessionStep, queueVars
<1>2. ASSUME NEW c \in Connections, RevokeOauthConnection(c)
      PROVE  LeaseInvariant'
  <2>1. QueueTypeOK'
    BY <1>2 DEF RevokeOauthConnection, LeaseInvariant, QueueTypeOK, AuthorityTypeOK,
                authorityVars
  <2>2. QED
    BY <1>2, <2>1, QuietRows, QuietStep DEF RevokeOauthConnection
<1>3. QED
  BY <1>1, <1>2

(* The sweep at the head of every claim. *)
LEMMA SweptFollows ==
    ASSUME LeaseInvariant, NEW o \in Offsets
    PROVE  \A i \in Items : /\ queue[i] \in Rows
                            /\ Swept(o)[i] \in Rows
                            /\ RowConsistent(Swept(o)[i])
                            /\ Follows(queue[i], Swept(o)[i])
<1>1. ASSUME NEW i \in Items
      PROVE  /\ queue[i] \in Rows
             /\ Swept(o)[i] \in Rows
             /\ RowConsistent(Swept(o)[i])
             /\ Follows(queue[i], Swept(o)[i])
  BY SweptFacts, SweepsFollows DEF LeaseInvariant, QueueTypeOK
<1>2. QED
  BY <1>1

LEMMA ClaimNothingStep ==
    ASSUME LeaseInvariant, NEW h \in Holders, NEW c \in ClaimIds,
           NEW withheld \in SUBSET Items, NEW o \in Offsets,
           ClaimNothing(h, c, withheld, o)
    PROVE  LeaseInvariant'
<1>1. queue' = Swept(o) /\ queue' \in [Items -> Rows]
  BY SweptFacts DEF ClaimNothing
<1>2. QueueTypeOK'
  BY <1>1 DEF ClaimNothing, LeaseInvariant, QueueTypeOK, AuthorityTypeOK, authorityVars
<1>3. QED
  BY <1>1, <1>2, SweptFollows, QuietStep DEF ClaimNothing

(* A lease that survives the sweep is the one its proofs were granted for. *)
LEMMA ClaimReplayStep ==
    ASSUME LeaseInvariant, NEW h \in Holders, NEW c \in ClaimIds, NEW t \in Tokens,
           NEW o \in Offsets, ClaimReplay(h, c, t, o)
    PROVE  LeaseInvariant'
<1>1. PICK n \in Items : /\ Swept(o)[n].state = "claimed"
                         /\ Swept(o)[n].holder = h
                         /\ Swept(o)[n].token = t
                         /\ granted' = granted \cup {ProofOf(n, Swept(o)[n])}
  BY DEF ClaimReplay, Replayable
<1>0. PICK new : new = ProofOf(n, Swept(o)[n])
  OBVIOUS
<1>2. /\ queue' = Swept(o) /\ queue' \in [Items -> Rows]
      /\ executed' = executed /\ receipts' = receipts
  BY SweptFacts DEF ClaimReplay
<1>3. \A i \in Items : RowConsistent(queue'[i]) /\ Follows(queue[i], queue'[i])
  BY <1>2, SweptFollows
<1>4. new \in Proofs /\ new.item = n /\ new.generation = queue'[n].generation
      /\ new = ProofOf(n, queue'[n])
  BY <1>0, <1>1, <1>2 DEF ProofOf, Proofs, Rows
<1>5. queue[n].state = "claimed" /\ new = ProofOf(n, queue[n])
      /\ queue[n].generation = new.generation
  BY <1>0, <1>1, <1>2, <1>3 DEF Follows, ProofOf
<1>6. QueueTypeOK'
  BY <1>0, <1>1, <1>2, <1>4 DEF ClaimReplay, LeaseInvariant, QueueTypeOK,
                                AuthorityTypeOK, authorityVars
<1>7. \A p \in granted' : GrantConsistent(p)'
  <2>1. \A p \in granted : GrantConsistent(p)'
    BY <1>3, FollowsGrants
  <2>2. GrantConsistent(new)'
    <3>1. queue'[n].generation \in Nat
      BY <1>2 DEF Rows
    <3>2. QED
      BY <1>4, <3>1 DEF GrantConsistent
  <2>3. QED
    BY <1>0, <1>1, <2>1, <2>2
<1>8. OneLeasePerGeneration'
  <2>1. \A p \in granted : p.item = n /\ p.generation = new.generation => p = new
    BY <1>5 DEF LeaseInvariant, GrantConsistent
  <2>2. \A p, q \in granted :
            p.item = q.item /\ p.generation = q.generation => p = q
    BY DEF LeaseInvariant, OneLeasePerGeneration
  <2>3. QED
    BY <1>0, <1>1, <1>4, <2>1, <2>2 DEF OneLeasePerGeneration
<1>9. \A e \in executed' : ExecutionConsistent(e)'
  BY <1>2, <1>3, FollowsExecuted
<1>10. AcknowledgedCompletionStands'
  BY <1>2, <1>3, FollowsReceipts DEF AcknowledgedCompletionStands
<1>11. ClaimIdNamesOneLease'
  BY <1>3, FollowsClaimIds
<1>12. QED
  BY <1>3, <1>6, <1>7, <1>8, <1>9, <1>10, <1>11 DEF LeaseInvariant

LEMMA LeasedRowFacts ==
    ASSUME NEW row \in Rows, RowConsistent(row), row.state = "pending",
           NEW h \in Holders, NEW c \in ClaimIds, NEW t \in Tokens, NEW o \in Offsets
    PROVE  LET new == LeasedRow(row, h, c, t, o)
           IN  /\ new \in Rows
               /\ RowConsistent(new)
               /\ new.state = "claimed"
               /\ new.generation = row.generation + 1
               /\ new.holder = h
               /\ new.claimId = c
               /\ new.token = t
<1> DEFINE a == row.attempts + 1
           g == row.generation + 1
           x == o + LeaseTime
           new == [row EXCEPT !.state = "claimed", !.attempts = a, !.generation = g,
                              !.holder = h, !.claimId = c, !.token = t,
                              !.expires = x, !.started = FALSE, !.result = None]
<1>1. LeasedRow(row, h, c, t, o) = new
  BY DEF LeasedRow
<1>2. /\ a \in Nat /\ g \in Nat /\ x \in Int /\ "claimed" \in States
      /\ a = g /\ a <= MaxAttempts /\ a >= 1
  BY QueueAssumption DEF Rows, RowConsistent, Offsets, Floor, States
<1>3. h # None /\ c # None /\ t # None
  BY QueueAssumption DEF Holders
<1> HIDE DEF a, g, x
<1>4. new \in Rows
  BY <1>2, WriteState, WriteAttempts, WriteGeneration, WriteHolder, WriteClaimId,
     WriteToken, WriteExpires, WriteStarted, WriteResult
<1>5. /\ new.state = "claimed" /\ new.attempts = a /\ new.generation = g
      /\ new.holder = h /\ new.claimId = c /\ new.token = t /\ new.result = None
  BY DEF Rows
<1> HIDE DEF new
<1>6. RowConsistent(new)
  BY <1>2, <1>3, <1>5 DEF RowConsistent
<1>7. QED
  BY <1>1, <1>4, <1>5, <1>6 DEF g

(* A fresh lease is of a later claim than every proof in circulation, and   *)
(* its row has neither begun nor been acknowledged.                        *)
LEMMA ClaimNextStep ==
    ASSUME LeaseInvariant, NEW h \in Holders, NEW c \in ClaimIds, NEW t \in Tokens,
           NEW withheld \in SUBSET Items, NEW o \in Offsets,
           ClaimNext(h, c, t, withheld, o)
    PROVE  LeaseInvariant'
<1>1. PICK n \in Items :
         /\ Swept(o)[n].state = "pending"
         /\ queue' = [Swept(o) EXCEPT ![n] = LeasedRow(Swept(o)[n], h, c, t, o)]
         /\ granted' = granted
                \cup {ProofOf(n, LeasedRow(Swept(o)[n], h, c, t, o))}
  BY DEF ClaimNext, Ready
<1>2. PICK old : old = Swept(o)[n]
  OBVIOUS
<1>3. PICK row : row = LeasedRow(old, h, c, t, o)
  OBVIOUS
<1>4. PICK new : new = ProofOf(n, row)
  OBVIOUS
<1>5. /\ queue[n] \in Rows /\ old \in Rows /\ RowConsistent(old)
      /\ Follows(queue[n], old) /\ old.state = "pending"
  BY <1>1, <1>2, SweptFollows
<1>6. /\ row \in Rows /\ RowConsistent(row) /\ row.state = "claimed"
      /\ row.generation = queue[n].generation + 1
      /\ row.holder = h /\ row.claimId = c /\ row.token = t
  BY <1>3, <1>5, LeasedRowFacts DEF Follows
<1>7. /\ queue' \in [Items -> Rows] /\ queue'[n] = row
      /\ \A i \in Items \ {n} : queue'[i] = Swept(o)[i]
      /\ granted' = granted \cup {new}
      /\ executed' = executed /\ receipts' = receipts
  BY <1>1, <1>2, <1>3, <1>4, <1>6, SweptFacts DEF ClaimNext
<1>8. /\ new \in Proofs /\ new.item = n /\ new.generation = queue[n].generation + 1
      /\ new = ProofOf(n, row)
  BY <1>4, <1>6 DEF ProofOf, Proofs, Rows
<1>9. QueueTypeOK'
  BY <1>7, <1>8 DEF ClaimNext, LeaseInvariant, QueueTypeOK, AuthorityTypeOK,
                    authorityVars
<1>10. \A i \in Items : RowConsistent(queue'[i])
  BY <1>6, <1>7, SweptFollows
<1>11. \A i \in Items \ {n} : Follows(queue[i], queue'[i])
  BY <1>7, SweptFollows
<1>12. \A p \in granted' : GrantConsistent(p)'
  <2>1. ASSUME NEW p \in granted PROVE GrantConsistent(p)'
    <3>1. p \in Proofs /\ p.item \in Items /\ GrantConsistent(p)
      BY DEF LeaseInvariant, QueueTypeOK, Proofs
    <3>2. CASE p.item = n
      <4>1. p.generation <= queue[n].generation /\ p.generation \in Nat
        BY <3>1, <3>2 DEF GrantConsistent, Proofs
      <4>2. queue[n].generation \in Nat
        BY <1>5 DEF Rows
      <4>3. p.generation < row.generation
        BY <4>1, <4>2, <1>6
      <4>4. QED
        BY <4>3, <4>1, <1>7, <3>2, <1>6 DEF GrantConsistent, Rows
    <3>3. CASE p.item # n
      BY <3>1, <3>3, <1>11 DEF GrantConsistent, Follows, ProofOf
    <3>4. QED
      BY <3>2, <3>3
  <2>2. GrantConsistent(new)'
    BY <1>6, <1>7, <1>8 DEF GrantConsistent, Rows
  <2>3. QED
    BY <1>7, <2>1, <2>2
<1>13. OneLeasePerGeneration'
  <2>1. \A p \in granted : p.item = n => p.generation # new.generation
    <3>1. ASSUME NEW p \in granted, p.item = n
          PROVE  p.generation # new.generation
      <4>1. p.generation <= queue[n].generation /\ p.generation \in Nat
        BY <3>1 DEF LeaseInvariant, QueueTypeOK, GrantConsistent, Proofs
      <4>2. QED
        BY <4>1, <1>5, <1>8 DEF Rows
    <3>2. QED
      BY <3>1
  <2>2. \A p, q \in granted :
            p.item = q.item /\ p.generation = q.generation => p = q
    BY DEF LeaseInvariant, OneLeasePerGeneration
  <2>3. QED
    BY <1>7, <1>8, <2>1, <2>2 DEF OneLeasePerGeneration
<1>14. \A e \in executed' : ExecutionConsistent(e)'
  <2>1. ASSUME NEW e \in executed PROVE ExecutionConsistent(e)'
    <3>1. e[1] \in Items /\ ExecutionConsistent(e)
      BY DEF LeaseInvariant, QueueTypeOK
    <3>2. e[1] # n
      BY <3>1, <1>5 DEF ExecutionConsistent, Follows
    <3>3. QED
      BY <3>1, <3>2, <1>11 DEF ExecutionConsistent, Follows
  <2>2. QED
    BY <1>7, <2>1
<1>15. AcknowledgedCompletionStands'
  <2>1. ASSUME NEW e \in receipts
        PROVE  /\ queue'[e[1]].state = "completed"
               /\ queue'[e[1]].generation = e[2]
               /\ queue'[e[1]].result = e[3]
    <3>1. /\ e[1] \in Items /\ queue[e[1]].state = "completed"
          /\ queue[e[1]].generation = e[2] /\ queue[e[1]].result = e[3]
      BY DEF LeaseInvariant, QueueTypeOK, AcknowledgedCompletionStands
    <3>2. e[1] # n
      BY <3>1, <1>5 DEF Follows
    <3>3. QED
      BY <3>1, <3>2, <1>11 DEF Follows
  <2>2. QED
    BY <1>7, <2>1 DEF AcknowledgedCompletionStands
<1>16. ClaimIdNamesOneLease'
  <2>1. \A i \in Items : ~(/\ Swept(o)[i].state = "claimed"
                           /\ Swept(o)[i].claimId = c
                           /\ Swept(o)[i].holder = h)
    BY DEF ClaimNext, Replayable
  <2>2. ASSUME NEW i \in Items, NEW j \in Items, i # n, j # n,
               queue'[i].state = "claimed", queue'[j].state = "claimed",
               queue'[i].claimId = queue'[j].claimId,
               queue'[i].holder = queue'[j].holder
        PROVE  i = j
    BY <1>11, <2>2 DEF LeaseInvariant, ClaimIdNamesOneLease, Follows
  <2>3. QED
    BY <1>6, <1>7, <2>1, <2>2 DEF ClaimIdNamesOneLease
<1>17. QED
  BY <1>9, <1>10, <1>12, <1>13, <1>14, <1>15, <1>16 DEF LeaseInvariant

LEMMA LeaseInductive == LeaseInvariant /\ [Next]_vars => LeaseInvariant'
<1> SUFFICES ASSUME LeaseInvariant, [Next]_vars PROVE LeaseInvariant'
  OBVIOUS
<1>1. ASSUME NEW h \in Holders, Claim(h) PROVE LeaseInvariant'
  BY <1>1, ClaimReplayStep, ClaimNextStep, ClaimNothingStep DEF Claim
<1>2. ASSUME NEW h \in Holders, UseLease(h) PROVE LeaseInvariant'
  BY <1>2, RenewStep, StartStep, CompleteStep, CompleteReplayStep DEF UseLease
<1>3. CASE UNCHANGED vars
  <2>1. QueueTypeOK'
    BY <1>3 DEF vars, LeaseInvariant, QueueTypeOK, AuthorityTypeOK
  <2>2. QED
    BY <1>3, <2>1, QuietRows, QuietStep DEF vars
<1>4. QED
  BY <1>1, <1>2, <1>3, EnqueueStep, ReportStep, TickStep, SessionsAndConnectionsStep
     DEF Next

(* The lease table and the history of its leases agree in every state.      *)
THEOREM LeaseCorrect == Spec => []LeaseInvariant
  BY InitLease, LeaseInductive, PTL DEF Spec

(* Every variable of the queue keeps its type. *)
THEOREM TypeCorrect == Spec => []QueueTypeOK
<1>1. LeaseInvariant => QueueTypeOK
  BY DEF LeaseInvariant
<1>2. QED
  BY <1>1, LeaseCorrect, PTL

(* Work that was told to start is never handed out again. *)
THEOREM AtMostOnce == Spec => []ExecutedAtMostOnce
<1>1. LeaseInvariant => ExecutedAtMostOnce
  BY DEF LeaseInvariant, ExecutionConsistent, ExecutedAtMostOnce
<1>2. QED
  BY <1>1, LeaseCorrect, PTL

(* One claim of a row has one lease, however many callers race for it.      *)
THEOREM OneLease == Spec => []OneLeasePerGeneration
<1>1. LeaseInvariant => OneLeasePerGeneration
  BY DEF LeaseInvariant
<1>2. QED
  BY <1>1, LeaseCorrect, PTL

(* An acknowledged completion is never undone or contradicted.              *)
THEOREM CompletionStands == Spec => []AcknowledgedCompletionStands
<1>1. LeaseInvariant => AcknowledgedCompletionStands
  BY DEF LeaseInvariant
<1>2. QED
  BY <1>1, LeaseCorrect, PTL

(* A claim id names one live lease of its holder. *)
THEOREM ClaimIdUnique == Spec => []ClaimIdNamesOneLease
<1>1. LeaseInvariant => ClaimIdNamesOneLease
  BY DEF LeaseInvariant
<1>2. QED
  BY <1>1, LeaseCorrect, PTL

(* No row is claimed more often than allowed, and none that may have run is *)
(* given up as dead.                                                        *)
THEOREM Bounded == Spec => []AttemptsBounded
<1>1. ASSUME LeaseInvariant PROVE AttemptsBounded
  <2>1. ASSUME NEW i \in Items, queue[i].state = "dead_letter", NEW n \in Nat
        PROVE  <<i, n>> \notin executed
    <3>1. ~queue[i].started
      BY <1>1, <2>1 DEF LeaseInvariant, RowConsistent
    <3>2. \A e \in executed : queue[e[1]].started
      BY <1>1 DEF LeaseInvariant, ExecutionConsistent
    <3>3. <<i, n>>[1] = i
      OBVIOUS
    <3>4. QED
      BY <3>1, <3>2, <3>3
  <2>2. 1 .. MaxAttempts \subseteq Nat
    BY QueueAssumption
  <2>3. QED
    BY <1>1, <2>1, <2>2 DEF AttemptsBounded, LeaseInvariant, RowConsistent
<1>2. QED
  BY <1>1, LeaseCorrect, PTL

-----------------------------------------------------------------------------
(* The queue implements WorkLedger. *)

Piece(phase, tries, begun, outcome) ==
    [phase |-> phase, tries |-> tries, begun |-> begun, outcome |-> outcome]

WorkOf(row) == Piece(PhaseOf(row.state), row.attempts, row.started, row.result)

LEMMA PieceFields ==
    ASSUME NEW p, NEW t, NEW b, NEW r
    PROVE  /\ Piece(p, t, b, r).phase = p
           /\ Piece(p, t, b, r).tries = t
           /\ Piece(p, t, b, r).begun = b
           /\ Piece(p, t, b, r).outcome = r
  BY DEF Piece

LEMMA SetPhase ==
    ASSUME NEW p, NEW t, NEW b, NEW r, NEW x
    PROVE  [Piece(p, t, b, r) EXCEPT !.phase = x] = Piece(x, t, b, r)
  BY Z3 DEF Piece

LEMMA SetBegun ==
    ASSUME NEW p, NEW t, NEW b, NEW r, NEW x
    PROVE  [Piece(p, t, b, r) EXCEPT !.begun = x] = Piece(p, t, x, r)
  BY Z3 DEF Piece

LEMMA SetOutcome ==
    ASSUME NEW p, NEW t, NEW b, NEW r, NEW x
    PROVE  [Piece(p, t, b, r) EXCEPT !.outcome = x] = Piece(p, t, b, x)
  BY Z3 DEF Piece

LEMMA PhaseFacts ==
    /\ PhaseOf("absent") = "none"
    /\ PhaseOf("pending") = "waiting"
    /\ PhaseOf("claimed") = "held"
    /\ PhaseOf("completed") = "done"
    /\ PhaseOf("needs_attention") = "review"
    /\ PhaseOf("dead_letter") = "dead"
  BY DEF PhaseOf

(* The steps of the ledger on a piece of work written out. *)
LEMMA PieceSteps ==
    ASSUME NEW t, NEW b, NEW r
    PROVE  /\ Ledger!WorkStep(Piece("none", t, b, r), Piece("waiting", t, b, r))
           /\ t < MaxAttempts =>
                Ledger!WorkStep(Piece("waiting", t, b, r), Piece("held", t + 1, b, r))
           /\ Ledger!WorkStep(Piece("held", t, b, r), Piece("held", t, TRUE, r))
           /\ Ledger!WorkStep(Piece("held", t, b, r), Piece("review", t, b, r))
           /\ \A x \in Results :
                Ledger!WorkStep(Piece("held", t, b, r), Piece("done", t, b, x))
<1>1. Ledger!Post(Piece("none", t, b, r), Piece("waiting", t, b, r))
  BY PieceFields, SetPhase DEF Ledger!Post
<1>2. t < MaxAttempts =>
        Ledger!Take(Piece("waiting", t, b, r), Piece("held", t + 1, b, r))
  BY PieceFields DEF Ledger!Take, Piece
<1>3. Ledger!Begin(Piece("held", t, b, r), Piece("held", t, TRUE, r))
  <2>1. Piece("held", t, b, r).phase = "held"
    BY PieceFields
  <2>0. PICK x : x = TRUE
    OBVIOUS
  <2>2. Piece("held", t, x, r) = [Piece("held", t, b, r) EXCEPT !.begun = x]
    BY SetBegun
  <2>3. QED
    BY <2>0, <2>1, <2>2, Zenon DEF Ledger!Begin
<1>4. Ledger!SetAside(Piece("held", t, b, r), Piece("review", t, b, r))
  BY PieceFields, SetPhase DEF Ledger!SetAside
<1>5. ASSUME NEW x \in Results
      PROVE  Ledger!Finish(Piece("held", t, b, r), Piece("done", t, b, x))
  <2>1. Piece("held", t, b, r).phase = "held"
    BY PieceFields
  <2>2. Piece("done", t, b, x)
          = [Piece("held", t, b, r) EXCEPT !.phase = "done", !.outcome = x]
    <3> DEFINE m == [Piece("held", t, b, r) EXCEPT !.phase = "done"]
    <3> HIDE DEF m
    <3>1. m = Piece("done", t, b, r)
      BY SetPhase DEF m
    <3>2. [m EXCEPT !.outcome = x] = Piece("done", t, b, x)
      BY <3>1, SetOutcome
    <3>3. QED
      BY <3>2 DEF m
  <2>3. QED
    BY <2>1, <2>2, Zenon DEF Ledger!Finish
<1>6. QED
  BY <1>1, <1>2, <1>3, <1>4, <1>5 DEF Ledger!WorkStep

(* A sweep gives a piece of work back, sets it aside, or gives it up.       *)
LEMMA SweepsWork ==
    ASSUME NEW old \in Rows, NEW new \in Rows, Sweeps(old, new)
    PROVE  Ledger!WorkStep(WorkOf(old), WorkOf(new))
<1>1. /\ WorkOf(old) = Piece("held", old.attempts, old.started, old.result)
      /\ WorkOf(new) = Piece(PhaseOf(new.state), old.attempts, old.started, old.result)
  BY PhaseFacts DEF Sweeps, WorkOf
<1>2. /\ WorkOf(old).phase = "held" /\ WorkOf(old).begun = old.started
      /\ WorkOf(old).tries = old.attempts
      /\ WorkOf(new) = [WorkOf(old) EXCEPT !.phase = PhaseOf(new.state)]
  BY <1>1, PieceFields, SetPhase
<1>3. CASE new.state = "needs_attention"
  BY <1>2, <1>3, PhaseFacts DEF Ledger!WorkStep, Ledger!SetAside
<1>4. CASE new.state = "dead_letter" /\ ~old.started /\ old.attempts = MaxAttempts
  BY <1>2, <1>4, PhaseFacts DEF Ledger!WorkStep, Ledger!GiveBack
<1>5. CASE new.state = "pending" /\ ~old.started /\ old.attempts < MaxAttempts
  BY <1>2, <1>5, PhaseFacts DEF Ledger!WorkStep, Ledger!GiveBack
<1>6. QED
  BY <1>3, <1>4, <1>5 DEF Sweeps

LEMMA SweptWork ==
    ASSUME LeaseInvariant, NEW o \in Offsets, NEW i \in Items
    PROVE  Ledger!WorkStep(WorkOf(queue[i]), WorkOf(Swept(o)[i]))
  BY SweptFollows, SweptFacts, SweepsWork DEF Ledger!WorkStep

(* A row the sweep puts back is not ready at the very claim that swept it.  *)
LEMMA ReadyWasPending ==
    ASSUME LeaseInvariant, NEW o \in Offsets, NEW i \in Items,
           Swept(o)[i].state = "pending", Swept(o)[i].notBefore <= o
    PROVE  queue[i].state = "pending" /\ Swept(o)[i] = queue[i]
<1>1. queue[i] \in Rows /\ RowConsistent(queue[i])
  BY DEF LeaseInvariant, QueueTypeOK
<1>2. CASE LeaseLost(queue[i], o)
  <2>1. Swept(o)[i] = AfterExpiry(queue[i], o)
    BY <1>2 DEF Swept
  <2>2. ~queue[i].started /\ queue[i].attempts < MaxAttempts
    BY <1>1, <1>2, <2>1, SweptFacts DEF Sweeps, LeaseLost, RowConsistent, AfterExpiry, Rows
  <2>3. queue[i].attempts \in 1 .. MaxAttempts - 1
    BY <1>1, <1>2, <2>2, QueueAssumption DEF LeaseLost, RowConsistent, Rows
  <2>4. Swept(o)[i].notBefore = o + Backoff[queue[i].attempts]
    BY <1>1, <2>1, <2>2, QueueAssumption DEF AfterExpiry, Rows
  <2>5. o \in Int /\ Backoff[queue[i].attempts] \in Nat \ {0}
    BY <2>3, QueueAssumption DEF Offsets, Floor
  <2>6. QED
    BY <2>4, <2>5
<1>3. CASE ~LeaseLost(queue[i], o)
  BY <1>3 DEF Swept
<1>4. QED
  BY <1>2, <1>3

(* An update of one row is a step of its piece of work and of no other.     *)
LEMMA OneWork ==
    ASSUME LeaseInvariant, NEW n \in Items, NEW row,
           queue' = [queue EXCEPT ![n] = row],
           Ledger!WorkStep(WorkOf(queue[n]), WorkOf(row)), NEW i \in Items
    PROVE  Ledger!WorkStep(WorkOf(queue[i]), WorkOf(queue'[i]))
  BY DEF LeaseInvariant, QueueTypeOK, Ledger!WorkStep

LEMMA EnqueueWork ==
    ASSUME LeaseInvariant, NEW n \in Items, EnqueueAgentWork(n), NEW i \in Items
    PROVE  Ledger!WorkStep(WorkOf(queue[i]), WorkOf(queue'[i]))
<1> DEFINE row == [EmptyRow EXCEPT !.state = "pending"]
<1>1. /\ queue[n] \in Rows /\ RowConsistent(queue[n]) /\ queue[n].state = "absent"
      /\ queue' = [queue EXCEPT ![n] = row]
  BY DEF EnqueueAgentWork, LeaseInvariant, QueueTypeOK
<1>2. /\ row.state = "pending" /\ row.attempts = queue[n].attempts
      /\ row.started = queue[n].started /\ row.result = queue[n].result
  BY <1>1 DEF EmptyRow, RowConsistent, Rows
<1> HIDE DEF row
<1>3. /\ WorkOf(queue[n]) = Piece("none", row.attempts, row.started, row.result)
      /\ WorkOf(row) = Piece("waiting", row.attempts, row.started, row.result)
  BY <1>1, <1>2, PhaseFacts DEF WorkOf
<1>4. Ledger!WorkStep(WorkOf(queue[n]), WorkOf(row))
  BY <1>3, PieceSteps
<1>5. QED
  BY <1>1, <1>4, OneWork

LEMMA ClaimNextWork ==
    ASSUME LeaseInvariant, NEW h \in Holders, NEW c \in ClaimIds, NEW t \in Tokens,
           NEW withheld \in SUBSET Items, NEW o \in Offsets,
           ClaimNext(h, c, t, withheld, o), NEW i \in Items
    PROVE  Ledger!WorkStep(WorkOf(queue[i]), WorkOf(queue'[i]))
<1>1. PICK n \in Items :
         /\ Swept(o)[n].state = "pending" /\ Swept(o)[n].notBefore <= o
         /\ queue' = [Swept(o) EXCEPT ![n] = LeasedRow(Swept(o)[n], h, c, t, o)]
  BY DEF ClaimNext, Ready
<1>2. queue[n].state = "pending" /\ Swept(o)[n] = queue[n]
  BY <1>1, ReadyWasPending
<1>3. Swept(o) \in [Items -> Rows]
  BY SweptFacts
<1>4. CASE i = n
  <2>1. queue[n] \in Rows /\ RowConsistent(queue[n])
    BY DEF LeaseInvariant, QueueTypeOK
  <2>2. queue'[n] = LeasedRow(queue[n], h, c, t, o)
    BY <1>1, <1>2, <1>3
  <2>3. /\ queue[n].attempts < MaxAttempts
        /\ queue'[n].state = "claimed" /\ queue'[n].attempts = queue[n].attempts + 1
        /\ queue'[n].started = queue[n].started /\ queue'[n].result = queue[n].result
    BY <1>2, <2>1, <2>2 DEF LeasedRow, RowConsistent, Rows
  <2>4. /\ WorkOf(queue[n])
             = Piece("waiting", queue[n].attempts, queue[n].started, queue[n].result)
        /\ WorkOf(queue'[n])
             = Piece("held", queue[n].attempts + 1, queue[n].started, queue[n].result)
    BY <1>2, <2>3, PhaseFacts DEF WorkOf
  <2>5. QED
    BY <1>4, <2>3, <2>4, PieceSteps
<1>5. CASE i # n
  BY <1>1, <1>3, <1>5, SweptWork
<1>6. QED
  BY <1>4, <1>5

LEMMA UseLeaseWork ==
    ASSUME LeaseInvariant, NEW h \in Holders, UseLease(h), NEW i \in Items
    PROVE  Ledger!WorkStep(WorkOf(queue[i]), WorkOf(queue'[i]))
<1>1. ASSUME NEW p \in granted, NEW o \in Offsets, RenewAgentLease(h, p, o)
      PROVE  Ledger!WorkStep(WorkOf(queue[i]), WorkOf(queue'[i]))
  <2> DEFINE row == [queue[p.item] EXCEPT !.expires = o + LeaseTime]
  <2>1. p.item \in Items /\ queue[p.item] \in Rows /\ queue' = [queue EXCEPT ![p.item] = row]
    BY <1>1, AuthorizedFacts DEF RenewAgentLease
  <2>2. WorkOf(row) = WorkOf(queue[p.item])
    BY <2>1 DEF WorkOf, Rows
  <2>3. QED
    BY <2>1, <2>2, OneWork DEF Ledger!WorkStep
<1>2. ASSUME NEW p \in granted, NEW o \in Offsets, MarkAgentExecutionStarted(h, p, o)
      PROVE  Ledger!WorkStep(WorkOf(queue[i]), WorkOf(queue'[i]))
  <2> DEFINE row == [queue[p.item] EXCEPT !.started = TRUE]
  <2>1. /\ p.item \in Items /\ queue[p.item] \in Rows
        /\ queue[p.item].state = "claimed" /\ queue' = [queue EXCEPT ![p.item] = row]
    BY <1>2, AuthorizedFacts DEF MarkAgentExecutionStarted
  <2>2. /\ row.state = "claimed" /\ row.attempts = queue[p.item].attempts
        /\ row.started = TRUE /\ row.result = queue[p.item].result
    BY <2>1 DEF Rows
  <2> HIDE DEF row
  <2>3. /\ WorkOf(queue[p.item]) = Piece("held", row.attempts, queue[p.item].started,
                                        row.result)
        /\ WorkOf(row) = Piece("held", row.attempts, TRUE, row.result)
    BY <2>1, <2>2, PhaseFacts DEF WorkOf
  <2>4. Ledger!WorkStep(WorkOf(queue[p.item]), WorkOf(row))
    BY <2>3, PieceSteps
  <2>5. QED
    BY <2>1, <2>4, OneWork
<1>3. ASSUME NEW p \in granted, NEW o \in Offsets, NEW r \in Results,
             CompleteAgentWork(h, p, r, o)
      PROVE  Ledger!WorkStep(WorkOf(queue[i]), WorkOf(queue'[i]))
  <2> DEFINE row == [queue[p.item] EXCEPT !.state = "completed", !.result = r,
                                          !.expires = Floor]
  <2>1. /\ p.item \in Items /\ queue[p.item] \in Rows
        /\ queue[p.item].state = "claimed" /\ queue' = [queue EXCEPT ![p.item] = row]
    BY <1>3, AuthorizedFacts DEF CompleteAgentWork
  <2>2. /\ row.state = "completed" /\ row.attempts = queue[p.item].attempts
        /\ row.started = queue[p.item].started /\ row.result = r
    BY <2>1 DEF Rows
  <2> HIDE DEF row
  <2>3. /\ WorkOf(queue[p.item]) = Piece("held", row.attempts, row.started,
                                        queue[p.item].result)
        /\ WorkOf(row) = Piece("done", row.attempts, row.started, r)
    BY <2>1, <2>2, PhaseFacts DEF WorkOf
  <2>4. Ledger!WorkStep(WorkOf(queue[p.item]), WorkOf(row))
    BY <2>3, PieceSteps
  <2>5. QED
    BY <2>1, <2>4, OneWork
<1>4. ASSUME NEW p \in granted, NEW r \in Results, CompleteReplay(h, p, r)
      PROVE  Ledger!WorkStep(WorkOf(queue[i]), WorkOf(queue'[i]))
  BY <1>4 DEF CompleteReplay, Ledger!WorkStep
<1>5. QED
  BY <1>1, <1>2, <1>3, <1>4 DEF UseLease

LEMMA ReportWork ==
    ASSUME LeaseInvariant, NEW s \in Sessions, ReportRunnerOutcome(s), NEW i \in Items
    PROVE  Ledger!WorkStep(WorkOf(queue[i]), WorkOf(queue'[i]))
<1>1. queue[i] \in Rows
  BY DEF LeaseInvariant, QueueTypeOK
<1>2. CASE queue[i].state = "claimed" /\ queue[i].holder = s
  <2>1. queue'[i] = [queue[i] EXCEPT !.state = "needs_attention", !.token = None,
                                     !.expires = Floor]
    BY <1>2 DEF ReportRunnerOutcome
  <2>2. /\ queue'[i].state = "needs_attention" /\ queue'[i].attempts = queue[i].attempts
        /\ queue'[i].started = queue[i].started /\ queue'[i].result = queue[i].result
    BY <1>1, <2>1 DEF Rows
  <2>3. /\ WorkOf(queue[i])
             = Piece("held", queue[i].attempts, queue[i].started, queue[i].result)
        /\ WorkOf(queue'[i])
             = Piece("review", queue[i].attempts, queue[i].started, queue[i].result)
    BY <1>2, <2>2, PhaseFacts DEF WorkOf
  <2>4. QED
    BY <2>3, PieceSteps
<1>3. CASE ~(queue[i].state = "claimed" /\ queue[i].holder = s)
  BY <1>3 DEF ReportRunnerOutcome, Ledger!WorkStep
<1>4. QED
  BY <1>2, <1>3

LEMMA TickWork ==
    ASSUME LeaseInvariant, Tick, NEW i \in Items
    PROVE  Ledger!WorkStep(WorkOf(queue[i]), WorkOf(queue'[i]))
<1>1. queue[i] \in Rows
  BY DEF LeaseInvariant, QueueTypeOK
<1>2. queue'[i] = [queue[i] EXCEPT !.notBefore = Nearer(@), !.expires = Nearer(@)]
  BY DEF Tick
<1>3. WorkOf(queue'[i]) = WorkOf(queue[i])
  BY <1>1, <1>2 DEF WorkOf, Rows
<1>4. QED
  BY <1>3 DEF Ledger!WorkStep

(* Every step of the queue moves every piece of work as the ledger allows.  *)
LEMMA EveryStepWorks ==
    ASSUME LeaseInvariant, [Next]_vars, NEW i \in Items
    PROVE  Ledger!WorkStep(WorkOf(queue[i]), WorkOf(queue'[i]))
<1>1. ASSUME NEW h \in Holders, Claim(h)
      PROVE  Ledger!WorkStep(WorkOf(queue[i]), WorkOf(queue'[i]))
  <2>1. ASSUME NEW c \in ClaimIds, NEW t \in Tokens, NEW o \in Offsets,
               ClaimReplay(h, c, t, o)
        PROVE  Ledger!WorkStep(WorkOf(queue[i]), WorkOf(queue'[i]))
    BY <2>1, SweptWork DEF ClaimReplay
  <2>2. ASSUME NEW c \in ClaimIds, NEW withheld \in SUBSET Items, NEW o \in Offsets,
               ClaimNothing(h, c, withheld, o)
        PROVE  Ledger!WorkStep(WorkOf(queue[i]), WorkOf(queue'[i]))
    BY <2>2, SweptWork DEF ClaimNothing
  <2>3. QED
    BY <1>1, <2>1, <2>2, ClaimNextWork DEF Claim
<1>2. CASE queue' = queue
  BY <1>2 DEF Ledger!WorkStep
<1>3. SessionStep \/ (\E c \in Connections : RevokeOauthConnection(c)) \/ UNCHANGED vars
         => queue' = queue
  BY DEF SessionStep, queueVars, RevokeOauthConnection, vars
<1>4. QED
  BY <1>1, <1>2, <1>3, EnqueueWork, UseLeaseWork, ReportWork, TickWork DEF Next

(* Nothing that leases, credentials, clocks and replays do moves a piece of *)
(* work in a way the contract does not allow.                               *)
THEOREM QueueImplementsLedger == Spec => ImplementsWorkLedger
<1>1. Init => Ledger!Init
  BY DEF Init, Ledger!Init, Ledger!NoWork, workOfQueue, PhaseOf, EmptyRow
<1>2. LeaseInvariant /\ [Next]_vars => [Ledger!Next]_workOfQueue
  <2> SUFFICES ASSUME LeaseInvariant, [Next]_vars PROVE Ledger!Next
    OBVIOUS
  <2>1. workOfQueue' = [i \in Items |-> workOfQueue'[i]]
    BY DEF workOfQueue
  <2>2. ASSUME NEW i \in Items
        PROVE  Ledger!WorkStep(workOfQueue[i], workOfQueue'[i])
    BY <2>2, EveryStepWorks DEF workOfQueue, WorkOf, Piece
  <2>3. QED
    BY <2>1, <2>2 DEF Ledger!Next
<1>3. QED
  BY <1>1, <1>2, LeaseCorrect, PTL DEF Spec, ImplementsWorkLedger, Ledger!Spec

(* What is settled stays settled: the ledger has no step out of a settled   *)
(* phase, and a row's generation and result are its tries and its outcome.  *)
THEOREM SettledStays == Spec => SettledIsFinal
<1> DEFINE Kept == \A i \in Items : queue[i].state \in Settled =>
                      /\ queue'[i].state = queue[i].state
                      /\ queue'[i].generation = queue[i].generation
                      /\ queue'[i].result = queue[i].result
<1>1. LeaseInvariant /\ LeaseInvariant' /\ [Next]_vars => [Kept]_vars
  <2> SUFFICES ASSUME LeaseInvariant, LeaseInvariant', [Next]_vars,
                      NEW i \in Items, queue[i].state \in Settled
               PROVE  /\ queue'[i].state = queue[i].state
                      /\ queue'[i].generation = queue[i].generation
                      /\ queue'[i].result = queue[i].result
    OBVIOUS
  <2>1. Ledger!WorkStep(WorkOf(queue[i]), WorkOf(queue'[i]))
    BY EveryStepWorks
  <2>2. WorkOf(queue[i]).phase \in {"done", "review", "dead"}
    BY PhaseFacts, PieceFields DEF Settled, WorkOf
  <2>3. WorkOf(queue'[i]) = WorkOf(queue[i])
    BY <2>1, <2>2 DEF Ledger!WorkStep, Ledger!Post, Ledger!Take, Ledger!Begin,
                      Ledger!GiveBack, Ledger!SetAside, Ledger!Finish
  <2>4. /\ PhaseOf(queue'[i].state) = PhaseOf(queue[i].state)
        /\ queue'[i].attempts = queue[i].attempts
        /\ queue'[i].result = queue[i].result
    BY <2>3, PieceFields DEF WorkOf
  <2>5. queue[i].state \in States /\ queue'[i].state \in States
    BY DEF LeaseInvariant, QueueTypeOK, Rows
  <2>6. queue'[i].state = queue[i].state
    BY <2>4, <2>5 DEF PhaseOf, States
  <2>7. /\ queue[i].generation = queue[i].attempts
        /\ queue'[i].generation = queue'[i].attempts
    BY DEF LeaseInvariant, RowConsistent
  <2>8. QED
    BY <2>4, <2>6, <2>7
<1>2. QED
  BY <1>1, LeaseCorrect, PTL DEF Spec, SettledIsFinal

(* A lease nobody's clock can have seen run out is taken from its holder by *)
(* no rival: a sweep leaves it, and a claim takes only pending rows.        *)
THEOREM LeaseIsHonoured == Spec => LeaseHonoured
<1> DEFINE Safe(i) == queue[i].state = "claimed" /\ queue[i].expires > MaxSkew
           Held(i) == /\ queue'[i].generation = queue[i].generation
                      /\ queue'[i].state \in {"claimed", "completed", "needs_attention"}
<1>1. ASSUME LeaseInvariant, [Next]_vars, NEW i \in Items, Safe(i)
      PROVE  Held(i)
  <2>1. queue[i] \in Rows /\ queue \in [Items -> Rows]
    BY <1>1 DEF LeaseInvariant, QueueTypeOK
  <2>2. ASSUME NEW o \in Offsets PROVE Swept(o)[i] = queue[i]
    <3>1. ~LeaseLost(queue[i], o)
      BY <1>1, <2>1, <2>2, QueueAssumption DEF LeaseLost, Offsets, Floor, Rows
    <3>2. QED
      BY <3>1 DEF Swept
  <2>3. ASSUME NEW h \in Holders, Claim(h) PROVE Held(i)
    <3>1. ASSUME NEW c \in ClaimIds, NEW t \in Tokens, NEW o \in Offsets,
                 NEW withheld \in SUBSET Items, ClaimNext(h, c, t, withheld, o)
          PROVE  Held(i)
      <4>1. PICK n \in Items :
              /\ Swept(o)[n].state = "pending"
              /\ queue' = [Swept(o) EXCEPT ![n] = LeasedRow(Swept(o)[n], h, c, t, o)]
        BY <3>1 DEF ClaimNext, Ready
      <4>2. i # n
        BY <1>1, <2>2, <4>1
      <4>3. QED
        BY <1>1, <1>1, <2>2, <4>1, <4>2, SweptFacts
    <3>2. ASSUME NEW o \in Offsets, queue' = Swept(o) PROVE Held(i)
      BY <1>1, <2>2, <3>2
    <3>3. QED
      BY <2>3, <3>1, <3>2 DEF Claim, ClaimReplay, ClaimNothing
  <2>4. ASSUME NEW h \in Holders, UseLease(h) PROVE Held(i)
    <3>1. \A p \in granted : p.item \in Items
      BY <1>1 DEF LeaseInvariant, QueueTypeOK, Proofs
    <3>2. ASSUME NEW p \in granted,
                 \/ \E o \in Offsets : \/ RenewAgentLease(h, p, o)
                                       \/ MarkAgentExecutionStarted(h, p, o)
                 \/ \E r \in Results, o \in Offsets : CompleteAgentWork(h, p, r, o)
          PROVE  Held(i)
      <4>1. ASSUME NEW o \in Offsets, RenewAgentLease(h, p, o) PROVE Held(i)
        BY <1>1, <2>1, <3>1, <4>1 DEF RenewAgentLease, Rows
      <4>2. ASSUME NEW o \in Offsets, MarkAgentExecutionStarted(h, p, o) PROVE Held(i)
        BY <1>1, <2>1, <3>1, <4>2 DEF MarkAgentExecutionStarted, Rows
      <4>3. ASSUME NEW o \in Offsets, NEW r \in Results, CompleteAgentWork(h, p, r, o)
            PROVE  Held(i)
        <5>1. /\ p.item \in Items
              /\ queue' = [queue EXCEPT ![p.item] =
                             [queue[p.item] EXCEPT !.state = "completed", !.result = r,
                                                   !.expires = Floor]]
          BY <2>1, <3>1, <4>3 DEF CompleteAgentWork
        <5>2. CASE p.item = i
          BY <2>1, <5>1, <5>2 DEF Rows
        <5>3. CASE p.item # i
          BY <1>1, <2>1, <5>1, <5>3
        <5>4. QED
          BY <5>2, <5>3
      <4>4. QED
        BY <3>2, <4>1, <4>2, <4>3
    <3>3. QED
      BY <1>1, <2>4, <3>2 DEF UseLease, CompleteReplay
  <2>5. ASSUME NEW n \in Items, EnqueueAgentWork(n) PROVE Held(i)
    BY <1>1, <2>1, <2>5 DEF EnqueueAgentWork
  <2>6. ASSUME NEW s \in Sessions, ReportRunnerOutcome(s) PROVE Held(i)
    BY <1>1, <2>1, <2>6 DEF ReportRunnerOutcome, Rows
  <2>7. ASSUME Tick PROVE Held(i)
    BY <1>1, <2>1, <2>7 DEF Tick, Rows
  <2>8. SessionStep \/ (\E c \in Connections : RevokeOauthConnection(c)) \/ UNCHANGED vars
           => queue' = queue
    BY DEF SessionStep, queueVars, RevokeOauthConnection, vars
  <2>9. QED
    BY <1>1, <2>3, <2>4, <2>5, <2>6, <2>7, <2>8 DEF Next
<1>2. LeaseInvariant /\ [Next]_vars => [\A i \in Items : Safe(i) => Held(i)]_vars
  BY <1>1
<1>3. QED
  BY <1>2, LeaseCorrect, PTL DEF Spec, LeaseHonoured
=============================================================================
