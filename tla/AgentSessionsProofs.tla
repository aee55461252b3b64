------------------------ MODULE AgentSessionsProofs ------------------------
(***************************************************************************)
(* Proofs about AgentSessions for any number of members, delegations,      *)
(* sessions and waiting calls, and any lifetimes.                          *)
(*                                                                         *)
(* AuthorityHolds is inductive by itself.  Most steps only withdraw        *)
(* something: they revoke some sessions and some delegations and leave the *)
(* rest, so what a withdrawal must respect is stated once (Withdrawal) and *)
(* each of them is shown to respect it.                                    *)
(***************************************************************************)
EXTENDS AgentSessions, TLAPS

(* Revoking sessions touches the state of open rows of the set and nothing  *)
(* else.                                                                    *)
LEMMA RevokedSessions ==
    ASSUME SessionsTypeOK, NEW S
    PROVE  /\ SessionsRevoked(S) \in [Sessions -> SessionRows \cup {None}]
           /\ \A s \in Sessions :
                 /\ sessions[s] = None <=> SessionsRevoked(S)[s] = None
                 /\ sessions[s] # None =>
                       SessionsRevoked(S)[s].token = sessions[s].token
                 /\ sessions[s] # None /\ s \notin OpenSessions \ S =>
                       SessionsRevoked(S)[s].state # "open"
                 /\ s \notin S => SessionsRevoked(S)[s] = sessions[s]
  <1> DEFINE R == SessionsRevoked(S)
  <1>1. ASSUME NEW s \in Sessions
        PROVE  /\ R[s] \in SessionRows \cup {None}
               /\ sessions[s] = None <=> R[s] = None
               /\ sessions[s] # None => R[s].token = sessions[s].token
               /\ sessions[s] # None /\ s \notin OpenSessions \ S => R[s].state # "open"
               /\ s \notin S => R[s] = sessions[s]
    <2>1. sessions[s] \in SessionRows \cup {None}
      BY DEF SessionsTypeOK
    <2>2. CASE s \in S /\ s \in OpenSessions
      <3>1. R[s] = [sessions[s] EXCEPT !.state = "revoked"]
        BY <2>2 DEF SessionsRevoked
      <3>2. sessions[s] \in SessionRows
        BY <2>1, <2>2 DEF OpenSessions
      <3>3. R[s] \in SessionRows /\ R[s].state = "revoked" /\ R[s].token = sessions[s].token
        BY <3>1, <3>2 DEF SessionRows
      <3>4. QED
        BY <2>2, <3>2, <3>3, SessionsAssumption
    <2>3. CASE ~(s \in S /\ s \in OpenSessions)
      <3>1. R[s] = sessions[s]
        BY <2>3 DEF SessionsRevoked
      <3>2. QED
        BY <2>1, <2>3, <3>1 DEF OpenSessions
    <2>4. QED
      BY <2>2, <2>3
  <1>2. R \in [Sessions -> SessionRows \cup {None}]
    BY <1>1 DEF SessionsRevoked
  <1>3. QED
    BY <1>1, <1>2

LEMMA RevokedDelegations ==
    ASSUME SessionsTypeOK, NEW D
    PROVE  /\ DelegationsRevoked(D) \in [Delegations -> DelegationRows \cup {None}]
           /\ \A d \in Delegations :
                 /\ delegations[d] = None <=> DelegationsRevoked(D)[d] = None
                 /\ delegations[d] # None /\ d \notin OpenDelegations \ D =>
                       DelegationsRevoked(D)[d].state # "open"
                 /\ d \notin D => DelegationsRevoked(D)[d] = delegations[d]
  <1> DEFINE R == DelegationsRevoked(D)
  <1>1. ASSUME NEW d \in Delegations
        PROVE  /\ R[d] \in DelegationRows \cup {None}
               /\ delegations[d] = None <=> R[d] = None
               /\ delegations[d] # None /\ d \notin OpenDelegations \ D => R[d].state # "open"
               /\ d \notin D => R[d] = delegations[d]
    <2>1. delegations[d] \in DelegationRows \cup {None}
      BY DEF SessionsTypeOK
    <2>2. CASE d \in D /\ d \in OpenDelegations
      <3>1. R[d] = [delegations[d] EXCEPT !.state = "revoked"]
        BY <2>2 DEF DelegationsRevoked
      <3>2. delegations[d] \in DelegationRows
        BY <2>1, <2>2 DEF OpenDelegations
      <3>3. R[d] \in DelegationRows /\ R[d].state = "revoked"
        BY <3>1, <3>2 DEF DelegationRows
      <3>4. QED
        BY <2>2, <3>2, <3>3, SessionsAssumption
    <2>3. CASE ~(d \in D /\ d \in OpenDelegations)
      <3>1. R[d] = delegations[d]
        BY <2>3 DEF DelegationsRevoked
      <3>2. QED
        BY <2>1, <2>3, <3>1 DEF OpenDelegations
    <2>4. QED
      BY <2>2, <2>3
  <1>2. R \in [Delegations -> DelegationRows \cup {None}]
    BY <1>1 DEF DelegationsRevoked
  <1>3. QED
    BY <1>1, <1>2

(* What is open after a withdrawal was open before, is not withdrawn, and   *)
(* has kept its row.                                                        *)
LEMMA StillOpen ==
    ASSUME SessionsTypeOK, NEW S, NEW D,
           sessions' = SessionsRevoked(S), delegations' = DelegationsRevoked(D)
    PROVE  /\ OpenSessions' = OpenSessions \ S
           /\ OpenDelegations' = OpenDelegations \ D
           /\ \A s \in OpenSessions \ S : sessions'[s] = sessions[s]
           /\ \A d \in OpenDelegations \ D : delegations'[d] = delegations[d]
  <1>1. \A s \in Sessions : s \in OpenSessions' <=> s \in OpenSessions \ S
    BY RevokedSessions DEF OpenSessions
  <1>2. \A d \in Delegations : d \in OpenDelegations' <=> d \in OpenDelegations \ D
    BY RevokedDelegations DEF OpenDelegations
  <1>3. OpenSessions \subseteq Sessions /\ OpenSessions' \subseteq Sessions
    BY DEF OpenSessions
  <1>4. OpenDelegations \subseteq Delegations /\ OpenDelegations' \subseteq Delegations
    BY DEF OpenDelegations
  <1>5. QED
    BY <1>1, <1>2, <1>3, <1>4, RevokedSessions, RevokedDelegations

(* A step that only revokes keeps AuthorityHolds, provided that what it     *)
(* leaves open still has its authority.                                     *)
LEMMA Withdrawal ==
    ASSUME AuthorityHolds, NEW S, NEW D,
           sessions' = SessionsRevoked(S), delegations' = DelegationsRevoked(D),
           active' \in BOOLEAN, owners' \in SUBSET Members, owners' # {},
           members' \in [Members -> [status : Statuses, version : 1 .. MaxVersion]],
           UNCHANGED <<calls, clock, grants>>,
           \A d \in OpenDelegations \ D :
              /\ members'[delegations[d].owner] = members[delegations[d].owner]
              /\ delegations[d].owner \in owners',
           \A s \in OpenSessions \ S : active' /\ sessions[s].delegation \notin D
    PROVE  AuthorityHolds'
  <1> USE DEF AuthorityHolds
  <1>1. SessionsTypeOK'
    BY RevokedSessions, RevokedDelegations DEF SessionsTypeOK, calls
  <1>2. DelegationsStand'
    BY StillOpen DEF DelegationsStand, Current
  <1>3. SessionsStand'
    BY StillOpen DEF SessionsStand
  <1>4. \A s, other \in OpenSessions' : s = other
    BY StillOpen
  <1>5. StartsInTime'
    BY DEF StartsInTime, calls
  <1>6. GrantsInOrder'
    <2>1. \A g \in grants : g.session \in Sessions
      BY DEF SessionsTypeOK
    <2>2. QED
      BY <2>1, RevokedSessions DEF GrantsInOrder
  <1>7. QED
    BY <1>1, <1>2, <1>3, <1>4, <1>5, <1>6

(* Revoking nothing is leaving the tables alone. *)
LEMMA NothingRevoked ==
    ASSUME SessionsTypeOK
    PROVE  SessionsRevoked({}) = sessions /\ DelegationsRevoked({}) = delegations
  <1>1. sessions = [s \in Sessions |-> sessions[s]]
    BY DEF SessionsTypeOK
  <1>2. delegations = [d \in Delegations |-> delegations[d]]
    BY DEF SessionsTypeOK
  <1>3. SessionsRevoked({}) = [s \in Sessions |-> sessions[s]]
    BY DEF SessionsRevoked
  <1>4. DelegationsRevoked({}) = [d \in Delegations |-> delegations[d]]
    BY DEF DelegationsRevoked
  <1>5. QED
    BY <1>1, <1>2, <1>3, <1>4

-----------------------------------------------------------------------------
(* The steps that withdraw something, or nothing. *)

LEMMA ApplyMembershipHolds ==
    ASSUME AuthorityHolds, NEW m \in Members, NEW status \in Statuses,
           NEW version \in 1 .. MaxVersion, ApplyMembership(m, status, version)
    PROVE  AuthorityHolds'
  <1>1. \A d \in OpenDelegations \ DelegationsOf(m) : delegations[d].owner # m
    BY DEF DelegationsOf
  <1>2. \A s \in OpenSessions \ SessionsOf(m) : sessions[s].delegation \notin DelegationsOf(m)
    BY DEF SessionsOf, DelegationsOf, AuthorityHolds, SessionsStand
  <1>3. members' \in [Members -> [status : Statuses, version : 1 .. MaxVersion]]
    BY DEF ApplyMembership, AuthorityHolds, SessionsTypeOK
  <1>4. \A other \in Members \ {m} : members'[other] = members[other]
    BY DEF ApplyMembership, AuthorityHolds, SessionsTypeOK
  <1>5. \A d \in OpenDelegations : delegations[d].owner \in Members
    BY DEF AuthorityHolds, SessionsTypeOK, OpenDelegations, DelegationRows
  <1>6. QED
    BY <1>1, <1>2, <1>3, <1>4, <1>5, Withdrawal
       DEF ApplyMembership, AuthorityHolds, SessionsTypeOK, DelegationsStand, SessionsStand

LEMMA AddAgentOwnerHolds ==
    ASSUME AuthorityHolds, NEW m \in Members, NEW added \in Members,
           AddAgentOwner(m, added)
    PROVE  AuthorityHolds'
  <1>1. sessions' = SessionsRevoked({}) /\ delegations' = DelegationsRevoked({})
    BY NothingRevoked DEF AddAgentOwner, AuthorityHolds
  <1>2. QED
    BY <1>1, Withdrawal
       DEF AddAgentOwner, AuthorityHolds, SessionsTypeOK, DelegationsStand, SessionsStand

LEMMA RemoveAgentOwnerHolds ==
    ASSUME AuthorityHolds, NEW m \in Members, NEW removed \in Members,
           RemoveAgentOwner(m, removed)
    PROVE  AuthorityHolds'
  <1> DEFINE S == {s \in OpenSessions : delegations[sessions[s].delegation].owner = removed}
  <1>1. sessions' = SessionsRevoked(S) /\ delegations' = DelegationsRevoked(DelegationsOf(removed))
    BY DEF RemoveAgentOwner
  <1>2. \A s \in OpenSessions \ S : sessions[s].delegation \notin DelegationsOf(removed)
    BY DEF DelegationsOf
  <1>3. \A d \in OpenDelegations \ DelegationsOf(removed) : delegations[d].owner \in owners'
    BY DEF DelegationsOf, RemoveAgentOwner, AuthorityHolds, DelegationsStand
  <1>4. owners' # {} /\ owners' \in SUBSET Members
    BY DEF RemoveAgentOwner, AuthorityHolds, SessionsTypeOK
  <1>5. QED
    BY <1>1, <1>2, <1>3, <1>4, Withdrawal
       DEF RemoveAgentOwner, AuthorityHolds, SessionsTypeOK, SessionsStand

LEMMA SetAgentStatusHolds ==
    ASSUME AuthorityHolds, NEW m \in Members, NEW status \in BOOLEAN,
           SetAgentStatus(m, status)
    PROVE  AuthorityHolds'
  <1>1. delegations' = DelegationsRevoked({})
    BY NothingRevoked DEF SetAgentStatus, AuthorityHolds
  <1>2. CASE status
    <2>1. sessions' = SessionsRevoked({})
      BY <1>2, NothingRevoked DEF SetAgentStatus, AuthorityHolds
    <2>2. QED
      BY <1>1, <1>2, <2>1, Withdrawal
         DEF SetAgentStatus, AuthorityHolds, SessionsTypeOK, DelegationsStand
  <1>3. CASE ~status
    <2>1. sessions' = SessionsRevoked(OpenSessions)
      BY <1>3 DEF SetAgentStatus
    <2>2. QED
      BY <1>1, <2>1, Withdrawal
         DEF SetAgentStatus, AuthorityHolds, SessionsTypeOK, DelegationsStand
  <1>4. QED
    BY <1>2, <1>3

LEMMA RevokeAgentDelegationHolds ==
    ASSUME AuthorityHolds, NEW m \in Members, NEW d \in Delegations,
           RevokeAgentDelegation(m, d)
    PROVE  AuthorityHolds'
  <1>1. sessions' = SessionsRevoked(SessionsUnder(d)) /\ delegations' = DelegationsRevoked({d})
    BY DEF RevokeAgentDelegation
  <1>2. \A s \in OpenSessions \ SessionsUnder(d) : sessions[s].delegation \notin {d}
    BY DEF SessionsUnder
  <1>3. QED
    BY <1>1, <1>2, Withdrawal
       DEF RevokeAgentDelegation, AuthorityHolds, SessionsTypeOK, DelegationsStand, SessionsStand

LEMMA StopHolds ==
    ASSUME AuthorityHolds, NEW S, sessions' = SessionsRevoked(S),
           UNCHANGED <<active, owners, members, delegations, calls, clock, grants>>
    PROVE  AuthorityHolds'
  <1>1. delegations' = DelegationsRevoked({})
    BY NothingRevoked DEF AuthorityHolds
  <1>2. QED
    BY <1>1, Withdrawal
       DEF AuthorityHolds, SessionsTypeOK, DelegationsStand, SessionsStand

-----------------------------------------------------------------------------
(* The steps that grant something. *)

(* Writing one open delegation: what stood on another one still does, and   *)
(* what stood on this one must still find its owner and its expiry.         *)
LEMMA DelegationWritten ==
    ASSUME AuthorityHolds, NEW d \in Delegations,
           delegations' \in [Delegations -> DelegationRows \cup {None}],
           \A e \in Delegations \ {d} : delegations'[e] = delegations[e],
           delegations'[d] # None, delegations'[d].state = "open",
           Current(delegations'[d].owner, delegations'[d].epoch),
           delegations'[d].owner \in owners,
           d \in OpenDelegations =>
               /\ delegations'[d].owner = delegations[d].owner
               /\ delegations'[d].expires >= delegations[d].expires,
           UNCHANGED <<active, owners, members, sessions, calls, clock, grants>>
    PROVE  AuthorityHolds'
  <1> USE DEF AuthorityHolds
  <1>1. SessionsTypeOK'
    BY DEF SessionsTypeOK, calls
  <1>2. OpenDelegations' = OpenDelegations \cup {d}
    BY DEF OpenDelegations
  <1>3. DelegationsStand'
    <2> SUFFICES ASSUME NEW e \in OpenDelegations'
                 PROVE  /\ Current(delegations'[e].owner, delegations'[e].epoch)
                        /\ delegations'[e].owner \in owners
      BY DEF DelegationsStand, Current
    <2>1. CASE e = d
      BY <2>1
    <2>2. CASE e # d
      BY <1>2, <2>2 DEF DelegationsStand, OpenDelegations
    <2>3. QED
      BY <2>1, <2>2
  <1>4. OpenSessions' = OpenSessions
    BY DEF OpenSessions
  <1>5. SessionsStand'
    <2> SUFFICES ASSUME NEW s \in OpenSessions
                 PROVE  /\ active
                        /\ sessions[s].delegation \in OpenDelegations'
                        /\ sessions[s].owner = delegations'[sessions[s].delegation].owner
                        /\ sessions[s].tokenExpires <= sessions[s].hardExpires
                        /\ sessions[s].hardExpires <= delegations'[sessions[s].delegation].expires
      BY <1>4 DEF SessionsStand
    <2>1. /\ active
          /\ sessions[s].delegation \in OpenDelegations
          /\ sessions[s].owner = delegations[sessions[s].delegation].owner
          /\ sessions[s].tokenExpires <= sessions[s].hardExpires
          /\ sessions[s].hardExpires <= delegations[sessions[s].delegation].expires
      BY DEF SessionsStand
    <2>2. sessions[s].hardExpires \in Nat
      BY DEF OpenSessions, SessionsTypeOK, SessionRows
    <2>3. CASE sessions[s].delegation = d
      <3>1. delegations[d].expires \in Nat /\ delegations'[d].expires \in Nat
        BY <1>1, <2>1, <2>3, SessionsAssumption DEF OpenDelegations, SessionsTypeOK, DelegationRows
      <3>2. QED
        BY <1>2, <2>1, <2>2, <2>3, <3>1
    <2>4. CASE sessions[s].delegation # d
      BY <1>2, <2>1, <2>4 DEF OpenDelegations
    <2>5. QED
      BY <2>3, <2>4
  <1>6. StartsInTime' /\ GrantsInOrder'
    BY DEF StartsInTime, GrantsInOrder, calls
  <1>7. \A s, other \in OpenSessions' : s = other
    BY <1>4
  <1>8. QED
    BY <1>1, <1>3, <1>5, <1>6, <1>7

LEMMA CreateAgentDelegationHolds ==
    ASSUME AuthorityHolds, NEW m \in Members, NEW d \in Delegations,
           NEW expires \in Nat, CreateAgentDelegation(m, d, expires)
    PROVE  AuthorityHolds'
  <1> DEFINE row == [state |-> "open", owner |-> m, epoch |-> members[m].version,
                     expires |-> expires]
  <1>1. row \in DelegationRows
    BY DEF DelegationRows, AuthorityHolds, SessionsTypeOK
  <1>2. d \notin OpenDelegations
    BY DEF CreateAgentDelegation, OpenDelegations
  <1>3. Current(row.owner, row.epoch) /\ row.owner \in owners
    BY DEF CreateAgentDelegation, ActsAsOwner, Current
  <1>4. delegations' = [delegations EXCEPT ![d] = row]
    BY DEF CreateAgentDelegation
  <1> HIDE DEF row
  <1>5. /\ delegations' \in [Delegations -> DelegationRows \cup {None}]
        /\ delegations'[d] = row
        /\ \A e \in Delegations \ {d} : delegations'[e] = delegations[e]
    BY <1>1, <1>4 DEF AuthorityHolds, SessionsTypeOK
  <1>6. row # None /\ row.state = "open"
    BY <1>1, SessionsAssumption DEF row
  <1>7. UNCHANGED <<active, owners, members, sessions, calls, clock, grants>>
    BY DEF CreateAgentDelegation
  <1>8. QED
    BY <1>2, <1>3, <1>5, <1>6, <1>7, DelegationWritten

LEMMA ReaffirmAgentDelegationHolds ==
    ASSUME AuthorityHolds, NEW m \in Members, NEW d \in Delegations,
           NEW expires \in Nat, ReaffirmAgentDelegation(m, d, expires)
    PROVE  AuthorityHolds'
  <1> DEFINE row == [delegations[d] EXCEPT !.expires = expires]
  <1>1. delegations[d] \in DelegationRows /\ d \in OpenDelegations
    BY DEF ReaffirmAgentDelegation, LiveDelegation, OpenDelegations, AuthorityHolds,
           SessionsTypeOK
  <1>2. /\ row \in DelegationRows
        /\ row.state = delegations[d].state
        /\ row.owner = delegations[d].owner
        /\ row.epoch = delegations[d].epoch
        /\ row.expires = expires
    BY <1>1 DEF DelegationRows
  <1>3. delegations' = [delegations EXCEPT ![d] = row]
    BY DEF ReaffirmAgentDelegation
  <1>4. expires >= delegations[d].expires
    BY <1>1 DEF ReaffirmAgentDelegation, DelegationRows
  <1> HIDE DEF row
  <1>5. /\ delegations' \in [Delegations -> DelegationRows \cup {None}]
        /\ delegations'[d] = row
        /\ \A e \in Delegations \ {d} : delegations'[e] = delegations[e]
    BY <1>2, <1>3 DEF AuthorityHolds, SessionsTypeOK
  <1>6. row # None /\ row.state = "open"
    BY <1>1, <1>2, SessionsAssumption DEF OpenDelegations
  <1>7. Current(row.owner, row.epoch) /\ row.owner \in owners
    BY <1>1, <1>2 DEF AuthorityHolds, DelegationsStand
  <1>8. UNCHANGED <<active, owners, members, sessions, calls, clock, grants>>
    BY DEF ReaffirmAgentDelegation
  <1>9. QED
    BY <1>2, <1>4, <1>5, <1>6, <1>7, <1>8, DelegationWritten

(* Writing one open session, beside which no other is open. *)
LEMMA SessionWritten ==
    ASSUME AuthorityHolds, NEW s \in Sessions,
           sessions' \in [Sessions -> SessionRows \cup {None}],
           \A t \in Sessions \ {s} :
              /\ sessions[t] # None => /\ sessions'[t] # None
                                       /\ sessions'[t].token = sessions[t].token
              /\ sessions'[t] # None => sessions'[t].state # "open",
           sessions'[s] # None,
           active,
           sessions'[s].delegation \in OpenDelegations,
           sessions'[s].owner = delegations[sessions'[s].delegation].owner,
           sessions'[s].tokenExpires <= sessions'[s].hardExpires,
           sessions'[s].hardExpires <= delegations[sessions'[s].delegation].expires,
           starts' \subseteq starts, rotations' \subseteq rotations,
           UNCHANGED <<active, owners, members, delegations, clock>>,
           grants' \subseteq [session : Sessions, from : Nat, to : Nat],
           \A g \in grants' :
              \/ g \in grants /\ (g.session = s => sessions[s].token <= sessions'[s].token)
              \/ g.session = s /\ g.to = g.from + 1 /\ g.to <= sessions'[s].token
    PROVE  AuthorityHolds'
  <1> USE DEF AuthorityHolds
  <1>1. SessionsTypeOK'
    BY DEF SessionsTypeOK
  <1>2. OpenSessions' \subseteq {s}
    BY DEF OpenSessions
  <1>3. OpenDelegations' = OpenDelegations
    BY DEF OpenDelegations
  <1>4. DelegationsStand'
    BY <1>3 DEF DelegationsStand, Current
  <1>5. SessionsStand'
    BY <1>2, <1>3 DEF SessionsStand
  <1>6. \A t, other \in OpenSessions' : t = other
    BY <1>2
  <1>7. StartsInTime'
    BY DEF StartsInTime
  <1>8. GrantsInOrder'
    <2> SUFFICES ASSUME NEW g \in grants'
                 PROVE  /\ sessions'[g.session] # None
                        /\ g.to = g.from + 1
                        /\ g.to <= sessions'[g.session].token
      BY DEF GrantsInOrder
    <2>1. g.session \in Sessions /\ g.to \in Nat
      OBVIOUS
    <2>2. CASE g.session # s
      BY <2>1, <2>2 DEF GrantsInOrder
    <2>3. CASE g.session = s /\ g \in grants /\ sessions[s].token <= sessions'[s].token
      <3>1. g.to <= sessions[s].token /\ sessions[s] # None
        BY <2>3 DEF GrantsInOrder
      <3>2. sessions[s].token \in Nat /\ sessions'[s].token \in Nat
        BY <3>1 DEF SessionsTypeOK, SessionRows
      <3>3. QED
        BY <2>1, <2>3, <3>1, <3>2 DEF GrantsInOrder
    <2>4. CASE g.session = s /\ g.to = g.from + 1 /\ g.to <= sessions'[s].token
      BY <2>4
    <2>5. QED
      BY <2>2, <2>3, <2>4
  <1>9. QED
    BY <1>1, <1>4, <1>5, <1>6, <1>7, <1>8

(* The earlier of two instants. *)
LEMMA EarliestOf ==
    ASSUME NEW a \in Nat, NEW b \in Nat
    PROVE  Earliest(a, b) \in Nat /\ Earliest(a, b) <= a /\ Earliest(a, b) <= b
  BY DEF Earliest

(* The row a start writes: typed, no later than its delegation, and not     *)
(* expired on the clock the start was called with.                          *)
LEMMA StartedRow ==
    ASSUME AuthorityHolds, NEW c \in starts, NEW s \in Sessions, FinishStart(c, s)
    PROVE  /\ Started(c) \in SessionRows
           /\ Started(c).state = "open"
           /\ Started(c).delegation = c.delegation
           /\ Started(c).owner = c.member
           /\ Started(c).tokenExpires <= Started(c).hardExpires
           /\ Started(c).hardExpires <= delegations[c.delegation].expires
           /\ Started(c).hardExpires > c.now
           /\ c.delegation \in OpenDelegations
           /\ delegations[c.delegation].owner = c.member
           /\ c.now \in Nat
  <1> DEFINE d == delegations[c.delegation]
             hard == Earliest(c.now + HardTtl, d.expires)
  <1>1. /\ c.delegation \in OpenDelegations
        /\ d \in DelegationRows
        /\ d.owner = c.member
        /\ d.expires > c.now
        /\ c.now \in Nat /\ c.member \in Members
    BY DEF FinishStart, LiveDelegation, OpenDelegations, AuthorityHolds, SessionsTypeOK,
           StartCalls
  <1>2. d.expires \in Nat
    BY <1>1 DEF DelegationRows
  <1>3. c.now + HardTtl \in Nat /\ c.now + TokenTtl \in Nat
    BY <1>1, SessionsAssumption
  <1>4. hard \in Nat /\ hard <= d.expires /\ hard > c.now
    BY <1>1, <1>2, <1>3, SessionsAssumption DEF Earliest
  <1> HIDE DEF hard
  <1>5. /\ Earliest(c.now + TokenTtl, hard) \in Nat
        /\ Earliest(c.now + TokenTtl, hard) <= hard
    BY <1>3, <1>4, EarliestOf
  <1>6. QED
    BY <1>1, <1>4, <1>5 DEF Started, SessionRows, OpenDelegations, hard

LEMMA FinishStartHolds ==
    ASSUME AuthorityHolds, NEW c \in starts, NEW s \in Sessions, FinishStart(c, s)
    PROVE  AuthorityHolds'
  <1> DEFINE base == SessionsRevoked(OpenSessions)
             row == Started(c)
  <1>1. /\ base \in [Sessions -> SessionRows \cup {None}]
        /\ \A t \in Sessions :
              /\ sessions[t] = None <=> base[t] = None
              /\ base[t] # None => base[t].state # "open"
              /\ base[t] # None => base[t].token = sessions[t].token
    BY RevokedSessions DEF AuthorityHolds
  <1>2. sessions' = [base EXCEPT ![s] = row]
    BY DEF FinishStart
  <1> HIDE DEF base, row
  <1>3. /\ sessions' \in [Sessions -> SessionRows \cup {None}]
        /\ sessions'[s] = row /\ row # None
        /\ \A t \in Sessions \ {s} : sessions'[t] = base[t]
    BY StartedRow, <1>1, <1>2, SessionsAssumption DEF row
  <1>4. \A t \in Sessions \ {s} :
              /\ sessions[t] # None => /\ sessions'[t] # None
                                       /\ sessions'[t].token = sessions[t].token
              /\ sessions'[t] # None => sessions'[t].state # "open"
    <2> TAKE t \in Sessions \ {s}
    <2>1. sessions'[t] = base[t]
      BY <1>3
    <2>2. /\ sessions[t] = None <=> base[t] = None
          /\ base[t] # None => base[t].state # "open"
          /\ base[t] # None => base[t].token = sessions[t].token
      BY <1>1
    <2>3. QED
      BY <2>1, <2>2
  <1>5. \A g \in grants' : g \in grants /\ g.session # s
    BY DEF FinishStart, AuthorityHolds, GrantsInOrder
  <1>6. /\ active
        /\ starts' \subseteq starts /\ rotations' \subseteq rotations
        /\ UNCHANGED <<active, owners, members, delegations, clock>>
        /\ grants' \subseteq [session : Sessions, from : Nat, to : Nat]
    BY DEF FinishStart, AuthorityHolds, SessionsTypeOK
  <1>7. /\ sessions'[s].delegation \in OpenDelegations
        /\ sessions'[s].owner = delegations[sessions'[s].delegation].owner
        /\ sessions'[s].tokenExpires <= sessions'[s].hardExpires
        /\ sessions'[s].hardExpires <= delegations[sessions'[s].delegation].expires
    BY StartedRow, <1>3 DEF row
  <1>8. QED
    BY <1>3, <1>4, <1>5, <1>6, <1>7, SessionWritten

(* The row a rotation writes: typed, the next token, the same session.      *)
LEMMA RotatedRow ==
    ASSUME AuthorityHolds, NEW c \in rotations, FinishRotate(c)
    PROVE  /\ Rotated(c) \in SessionRows
           /\ Rotated(c).delegation = sessions[c.session].delegation
           /\ Rotated(c).owner = sessions[c.session].owner
           /\ Rotated(c).hardExpires = sessions[c.session].hardExpires
           /\ Rotated(c).state = sessions[c.session].state
           /\ Rotated(c).token = sessions[c.session].token + 1
           /\ Rotated(c).tokenExpires <= Rotated(c).hardExpires
  <1> DEFINE s == c.session
             old == sessions[s]
             d == delegations[old.delegation]
             row == Rotated(c)
  <1>1. /\ s \in OpenSessions /\ s \in Sessions
        /\ old \in SessionRows
        /\ old.token = c.token
        /\ c.now \in Nat
    BY DEF FinishRotate, Honoured, OpenSessions, AuthorityHolds, SessionsTypeOK, RotateCalls
  <1>2. /\ old.delegation \in OpenDelegations
        /\ old.owner = d.owner
        /\ old.hardExpires <= d.expires
        /\ active
    BY <1>1 DEF AuthorityHolds, SessionsStand
  <1>3. d.expires \in Nat /\ old.hardExpires \in Nat /\ old.token \in Nat
    BY <1>1, <1>2 DEF OpenDelegations, AuthorityHolds, SessionsTypeOK, DelegationRows, SessionRows
  <1>4. /\ Earliest(old.hardExpires, d.expires) \in Nat
        /\ Earliest(old.hardExpires, d.expires) <= old.hardExpires
    BY <1>3, EarliestOf
  <1>5. /\ Earliest(c.now + TokenTtl, Earliest(old.hardExpires, d.expires)) \in Nat
        /\ Earliest(c.now + TokenTtl, Earliest(old.hardExpires, d.expires)) <= old.hardExpires
    <2> DEFINE e == Earliest(old.hardExpires, d.expires)
    <2>1. Earliest(c.now + TokenTtl, e) \in Nat /\ Earliest(c.now + TokenTtl, e) <= e
      BY <1>1, <1>4, EarliestOf, SessionsAssumption
    <2> HIDE DEF e
    <2>2. e \in Nat /\ e <= old.hardExpires
      BY <1>4 DEF e
    <2>3. Earliest(c.now + TokenTtl, e) <= old.hardExpires
      BY <2>1, <2>2, <1>3
    <2>4. QED
      BY <2>1, <2>3 DEF e
  <1>6. QED
    <2> DEFINE end == Earliest(c.now + TokenTtl, Earliest(old.hardExpires, d.expires))
    <2>1. row = [old EXCEPT !.token = old.token + 1, !.tokenExpires = end]
      BY DEF Rotated
    <2>2. end \in Nat /\ end <= old.hardExpires /\ old.token + 1 \in Nat
      BY <1>3, <1>5
    <2> HIDE DEF end, row
    <2>3. /\ row \in SessionRows
          /\ row.delegation = old.delegation /\ row.owner = old.owner
          /\ row.hardExpires = old.hardExpires /\ row.state = old.state
          /\ row.token = old.token + 1
          /\ row.tokenExpires <= row.hardExpires
      BY <1>1, <2>1, <2>2 DEF SessionRows
    <2>4. QED
      BY <2>3 DEF row

LEMMA FinishRotateHolds ==
    ASSUME AuthorityHolds, NEW c \in rotations, FinishRotate(c)
    PROVE  AuthorityHolds'
  <1> DEFINE s == c.session
             old == sessions[s]
             d == delegations[old.delegation]
             row == Rotated(c)
             new == [session |-> s, from |-> c.token, to |-> old.token + 1]
  <1>1. /\ s \in OpenSessions /\ s \in Sessions
        /\ old \in SessionRows
        /\ old.token = c.token
        /\ c.now \in Nat
    BY DEF FinishRotate, Honoured, OpenSessions, AuthorityHolds, SessionsTypeOK, RotateCalls
  <1>2. /\ old.delegation \in OpenDelegations
        /\ old.owner = d.owner
        /\ old.hardExpires <= d.expires
        /\ active
    BY <1>1 DEF AuthorityHolds, SessionsStand
  <1>3. d.expires \in Nat /\ old.hardExpires \in Nat /\ old.token \in Nat
    BY <1>1, <1>2 DEF OpenDelegations, AuthorityHolds, SessionsTypeOK, DelegationRows, SessionRows
  <1>6. /\ row \in SessionRows
        /\ row.delegation = old.delegation /\ row.owner = old.owner
        /\ row.hardExpires = old.hardExpires /\ row.state = old.state
        /\ row.token = old.token + 1
        /\ row.tokenExpires <= row.hardExpires
    BY RotatedRow
  <1>7. \A t \in Sessions \ {s} : sessions[t] # None => sessions[t].state # "open"
    BY <1>1 DEF AuthorityHolds, OpenSessions
  <1>8. sessions' = [sessions EXCEPT ![s] = row] /\ grants' = grants \cup {new}
    BY DEF FinishRotate
  <1>9. new \in [session : Sessions, from : Nat, to : Nat]
    BY <1>1, <1>3
  <1>10. /\ starts' \subseteq starts /\ rotations' \subseteq rotations
         /\ UNCHANGED <<active, owners, members, delegations, clock>>
         /\ sessions \in [Sessions -> SessionRows \cup {None}]
         /\ grants' \subseteq [session : Sessions, from : Nat, to : Nat]
    BY <1>8, <1>9 DEF FinishRotate, AuthorityHolds, SessionsTypeOK
  <1> HIDE DEF row
  <1>11. /\ sessions' \in [Sessions -> SessionRows \cup {None}]
         /\ sessions'[s] = row /\ row # None
         /\ \A t \in Sessions \ {s} : sessions'[t] = sessions[t]
    BY <1>1, <1>6, <1>8, <1>10, SessionsAssumption
  <1>12. \A g \in grants' :
              \/ g \in grants /\ (g.session = s => sessions[s].token <= sessions'[s].token)
              \/ g.session = s /\ g.to = g.from + 1 /\ g.to <= sessions'[s].token
    BY <1>1, <1>3, <1>6, <1>8, <1>11
  <1>13. /\ sessions'[s].delegation \in OpenDelegations
         /\ sessions'[s].owner = delegations[sessions'[s].delegation].owner
         /\ sessions'[s].tokenExpires <= sessions'[s].hardExpires
         /\ sessions'[s].hardExpires <= delegations[sessions'[s].delegation].expires
    BY <1>2, <1>6, <1>11
  <1>14. QED
    BY <1>1, <1>2, <1>7, <1>10, <1>11, <1>12, <1>13, SessionWritten

(* Steps that leave the tables alone. *)
LEMMA CallStepHolds ==
    ASSUME AuthorityHolds, UNCHANGED <<tables, grants>>, clock' \in Nat,
           starts' \subseteq StartCalls, rotations' \subseteq RotateCalls,
           \A c \in starts' : clock' <= c.now + MaxDelay
    PROVE  AuthorityHolds'
  <1>1. OpenSessions' = OpenSessions /\ OpenDelegations' = OpenDelegations
    BY DEF tables, OpenSessions, OpenDelegations
  <1>2. QED
    BY <1>1 DEF AuthorityHolds, tables, SessionsTypeOK, DelegationsStand, SessionsStand,
                StartsInTime, GrantsInOrder, Current

LEMMA BeginStartHolds ==
    ASSUME AuthorityHolds, NEW m \in Members, NEW d \in Delegations, NEW id \in StartIds,
           BeginStart(m, d, id)
    PROVE  AuthorityHolds'
  <1> DEFINE new == [id |-> id, member |-> m, epoch |-> members[m].version,
                     delegation |-> d, now |-> clock]
  <1>1. new \in StartCalls
    BY DEF StartCalls, AuthorityHolds, SessionsTypeOK
  <1>2. clock <= new.now + MaxDelay
    BY SessionsAssumption DEF AuthorityHolds, SessionsTypeOK
  <1>3. /\ starts' = starts \cup {new}
        /\ UNCHANGED <<tables, rotations, clock, grants>>
    BY DEF BeginStart
  <1> HIDE DEF new
  <1>4. QED
    BY <1>1, <1>2, <1>3, CallStepHolds DEF AuthorityHolds, SessionsTypeOK, StartsInTime

LEMMA BeginRotateHolds ==
    ASSUME AuthorityHolds, NEW s \in Sessions, NEW token \in Nat, NEW id \in RotateIds,
           BeginRotate(s, token, id)
    PROVE  AuthorityHolds'
  <1>1. [id |-> id, session |-> s, token |-> token, now |-> clock] \in RotateCalls
    BY DEF RotateCalls, AuthorityHolds, SessionsTypeOK
  <1>2. /\ rotations' = rotations \cup {[id |-> id, session |-> s, token |-> token, now |-> clock]}
        /\ UNCHANGED <<tables, starts, clock, grants>>
    BY DEF BeginRotate
  <1>3. QED
    BY <1>1, <1>2, CallStepHolds DEF AuthorityHolds, SessionsTypeOK, StartsInTime

LEMMA DropCallHolds ==
    ASSUME AuthorityHolds, DropCall
    PROVE  AuthorityHolds'
  <1>1. starts' \subseteq starts /\ rotations' \subseteq rotations
    BY DEF DropCall
  <1>2. UNCHANGED <<tables, clock, grants>>
    BY DEF DropCall
  <1>3. QED
    BY <1>1, <1>2, CallStepHolds DEF AuthorityHolds, SessionsTypeOK, StartsInTime

LEMMA TickHolds ==
    ASSUME AuthorityHolds, Tick
    PROVE  AuthorityHolds'
  <1>1. UNCHANGED <<tables, calls, grants>> /\ clock' = clock + 1
    BY DEF Tick
  <1>2. \A c \in starts : clock + 1 <= c.now + MaxDelay
    <2> TAKE c \in starts
    <2>1. c.now \in Nat /\ clock \in Nat
      BY DEF AuthorityHolds, SessionsTypeOK, StartCalls
    <2>2. clock < c.now + MaxDelay
      BY DEF Tick
    <2>3. QED
      BY <2>1, <2>2, SessionsAssumption
  <1>3. clock + 1 \in Nat
    BY DEF AuthorityHolds, SessionsTypeOK
  <1>4. QED
    BY <1>1, <1>2, <1>3, CallStepHolds DEF AuthorityHolds, SessionsTypeOK, calls

-----------------------------------------------------------------------------
(* The invariant. *)

LEMMA OwnerStepHolds ==
    ASSUME AuthorityHolds, NEW m \in Members, OwnerStep(m)
    PROVE  AuthorityHolds'
  <1>1. CASE \E other \in Members : AddAgentOwner(m, other) \/ RemoveAgentOwner(m, other)
    BY <1>1, AddAgentOwnerHolds, RemoveAgentOwnerHolds
  <1>2. CASE \E status \in BOOLEAN : SetAgentStatus(m, status)
    BY <1>2, SetAgentStatusHolds
  <1>3. CASE \E d \in Delegations, expires \in 1 .. MaxClock + DelegationTtl :
                CreateAgentDelegation(m, d, expires) \/ ReaffirmAgentDelegation(m, d, expires)
    <2>1. 1 .. MaxClock + DelegationTtl \subseteq Nat
      OBVIOUS
    <2>2. QED
      BY <1>3, <2>1, CreateAgentDelegationHolds, ReaffirmAgentDelegationHolds
  <1>4. CASE \E d \in Delegations : RevokeAgentDelegation(m, d)
    BY <1>4, RevokeAgentDelegationHolds
  <1>5. CASE \E s \in Sessions : StopAgentSession(m, s)
    <2>1. PICK s \in Sessions : StopAgentSession(m, s)
      BY <1>5
    <2>2. QED
      BY <2>1, StopHolds DEF StopAgentSession
  <1>6. CASE StopAgentRuntime(m)
    BY <1>6, StopHolds DEF StopAgentRuntime
  <1>7. QED
    BY <1>1, <1>2, <1>3, <1>4, <1>5, <1>6 DEF OwnerStep

LEMMA SessionStepHolds ==
    ASSUME AuthorityHolds, SessionStep
    PROVE  AuthorityHolds'
  <1>1. 0 .. MaxRotations \subseteq Nat
    OBVIOUS
  <1>2. QED
    BY <1>1, BeginStartHolds, FinishStartHolds, BeginRotateHolds, FinishRotateHolds,
       DropCallHolds DEF SessionStep

LEMMA StutterHolds ==
    ASSUME AuthorityHolds, UNCHANGED vars
    PROVE  AuthorityHolds'
  <1>1. UNCHANGED <<tables, calls, clock, grants>>
    BY DEF vars
  <1>2. QED
    BY <1>1, CallStepHolds DEF calls, AuthorityHolds, SessionsTypeOK, StartsInTime

LEMMA StepHolds ==
    ASSUME AuthorityHolds, [Next]_vars
    PROVE  AuthorityHolds'
  BY ApplyMembershipHolds, OwnerStepHolds, SessionStepHolds, TickHolds, StutterHolds DEF Next

LEMMA InitHolds ==
    ASSUME Init
    PROVE  AuthorityHolds
  <1>1. OpenSessions = {} /\ OpenDelegations = {}
    BY DEF Init, OpenSessions, OpenDelegations
  <1>2. SessionsTypeOK
    BY SessionsAssumption DEF Init, SessionsTypeOK, Statuses
  <1>3. QED
    BY <1>1, <1>2 DEF Init, AuthorityHolds, DelegationsStand, SessionsStand, StartsInTime,
                      GrantsInOrder

(* A session is open only as long as everything it was minted from holds,   *)
(* although owners, memberships, the delegation and the agent may change    *)
(* while a start or a rotation waits for its hash.                          *)
THEOREM AuthorityCorrect == Spec => []AuthorityHolds
<1>1. Init => AuthorityHolds
  BY InitHolds
<1>2. AuthorityHolds /\ [Next]_vars => AuthorityHolds'
  BY StepHolds
<1>3. QED
  BY <1>1, <1>2, PTL DEF Spec

(* One token is rotated once: a rotation succeeds only for the token in     *)
(* force, and every token handed out before replaced an earlier one.        *)
THEOREM SpentOnce == Spec => []TokenSpentOnce
<1>1. Init => TokenSpentOnce
  BY DEF Init, TokenSpentOnce
<1>2. AuthorityHolds /\ TokenSpentOnce /\ [Next]_vars => TokenSpentOnce'
  <2> SUFFICES ASSUME AuthorityHolds, TokenSpentOnce, [Next]_vars
               PROVE  TokenSpentOnce'
    OBVIOUS
  <2>1. ASSUME NEW c \in rotations, FinishRotate(c) PROVE TokenSpentOnce'
    <3>1. /\ c.session \in Sessions
          /\ sessions[c.session] \in SessionRows
          /\ sessions[c.session].token = c.token
      BY <2>1 DEF FinishRotate, Honoured, OpenSessions, AuthorityHolds, SessionsTypeOK
    <3>2. \A g \in grants : g.session = c.session => g.from # c.token
      <4> SUFFICES ASSUME NEW g \in grants, g.session = c.session
                   PROVE  g.from # c.token
        OBVIOUS
      <4>1. g.to = g.from + 1 /\ g.to <= c.token
        BY <3>1 DEF AuthorityHolds, GrantsInOrder
      <4>2. g.from \in Nat /\ c.token \in Nat
        BY <3>1 DEF AuthorityHolds, SessionsTypeOK, SessionRows
      <4>3. QED
        BY <4>1, <4>2
    <3>3. grants' = grants \cup {[session |-> c.session, from |-> c.token,
                                  to |-> sessions[c.session].token + 1]}
      BY <2>1 DEF FinishRotate
    <3>4. QED
      BY <3>2, <3>3 DEF TokenSpentOnce
  <2>2. CASE UNCHANGED grants
    BY <2>2 DEF TokenSpentOnce
  <2>3. UNCHANGED grants \/ \E c \in rotations : FinishRotate(c)
    BY DEF Next, OwnerStep, SessionStep, vars, ApplyMembership, AddAgentOwner,
           RemoveAgentOwner, SetAgentStatus, CreateAgentDelegation, ReaffirmAgentDelegation,
           RevokeAgentDelegation, StopAgentSession, StopAgentRuntime, BeginStart,
           FinishStart, BeginRotate, DropCall, Tick
  <2>4. QED
    BY <2>1, <2>2, <2>3
<1>3. QED
  BY <1>1, <1>2, AuthorityCorrect, PTL DEF Spec

-----------------------------------------------------------------------------
(* The authority other modules see. *)

LEMMA PhaseFacts ==
    ASSUME SessionsTypeOK, NEW s \in Sessions
    PROVE  /\ Phase[s] \in {"unused", "live", "ended"}
           /\ Phase[s] = "unused" <=> sessions[s] = None
           /\ Phase[s] = "live" <=>
                 s \in OpenSessions /\ clock < sessions[s].hardExpires + MaxDelay
  BY DEF Phase, OpenSessions

(* At most one session is live, so a step by which live sessions may only   *)
(* end is the end of one session, or no step at all.                        *)
LEMMA SessionEnds ==
    ASSUME AuthorityHolds, UNCHANGED active,
           \A s \in Sessions : Phase'[s] = Phase[s] \/ (Phase[s] = "live" /\ Phase'[s] = "ended")
    PROVE  [Authority!AuthorityNext]_(Authority!authorityVars)
  <1>1. Phase = [s \in Sessions |-> Phase[s]] /\ Phase' = [s \in Sessions |-> Phase'[s]]
    BY DEF Phase
  <1>2. CASE \A s \in Sessions : Phase'[s] = Phase[s]
    <2>1. Phase' = Phase
      BY <1>1, <1>2
    <2>2. QED
      BY <2>1 DEF Authority!authorityVars
  <1>3. CASE \E s \in Sessions : Phase'[s] # Phase[s]
    <2>1. PICK s \in Sessions : Phase[s] = "live" /\ Phase'[s] = "ended"
      BY <1>3
    <2>2. \A t \in Sessions \ {s} : Phase[t] # "live"
      BY <2>1, PhaseFacts DEF AuthorityHolds
    <2>3. \A t \in Sessions \ {s} : Phase'[t] = Phase[t]
      BY <2>2
    <2>4. Phase' = [Phase EXCEPT ![s] = "ended"]
      BY <1>1, <2>1, <2>3
    <2>5. Authority!EndSession(s)
      BY <2>1, <2>4 DEF Authority!EndSession
    <2>6. QED
      BY <2>5 DEF Authority!AuthorityNext
  <1>4. QED
    BY <1>2, <1>3

LEMMA RevocationEnds ==
    ASSUME AuthorityHolds, AuthorityHolds', NEW S, sessions' = SessionsRevoked(S),
           UNCHANGED <<active, clock>>
    PROVE  [Authority!AuthorityNext]_(Authority!authorityVars)
  <1> SUFFICES ASSUME NEW s \in Sessions
               PROVE  Phase'[s] = Phase[s] \/ (Phase[s] = "live" /\ Phase'[s] = "ended")
    BY SessionEnds
  <1>1. /\ sessions[s] = None <=> sessions'[s] = None
        /\ sessions[s] # None /\ s \notin OpenSessions \ S => sessions'[s].state # "open"
        /\ s \notin S => sessions'[s] = sessions[s]
    BY RevokedSessions DEF AuthorityHolds
  <1>2. CASE s \notin S
    BY <1>1, <1>2 DEF Phase
  <1>3. CASE sessions[s] = None
    BY <1>1, <1>3 DEF Phase
  <1>4. CASE sessions[s] # None /\ s \in S
    <2>1. Phase'[s] = "ended"
      BY <1>1, <1>4 DEF Phase
    <2>2. Phase[s] \in {"live", "ended"}
      BY <1>4 DEF Phase
    <2>3. QED
      BY <2>1, <2>2
  <1>5. QED
    BY <1>2, <1>3, <1>4

LEMMA UnchangedSessions ==
    ASSUME AuthorityHolds, UNCHANGED <<active, sessions, clock>>
    PROVE  [Authority!AuthorityNext]_(Authority!authorityVars)
  BY DEF Phase, Authority!authorityVars

LEMMA FinishStartStarts ==
    ASSUME AuthorityHolds, NEW c \in starts, NEW s \in Sessions, FinishStart(c, s)
    PROVE  Authority!StartSession(s)
  <1> DEFINE base == SessionsRevoked(OpenSessions)
             row == Started(c)
  <1>1. clock < row.hardExpires + MaxDelay
    <2>1. clock <= c.now + MaxDelay /\ clock \in Nat
      BY DEF AuthorityHolds, StartsInTime, SessionsTypeOK
    <2>2. c.now \in Nat /\ row.hardExpires > c.now /\ row.hardExpires \in Nat
      BY StartedRow DEF SessionRows
    <2> HIDE DEF row
    <2>3. QED
      BY <2>1, <2>2, SessionsAssumption
  <1>2. row \in SessionRows /\ row.state = "open" /\ row # None
    BY StartedRow, SessionsAssumption
  <1>3. /\ base \in [Sessions -> SessionRows \cup {None}]
        /\ \A t \in Sessions :
              /\ sessions[t] = None <=> base[t] = None
              /\ base[t] # None => base[t].state # "open"
    BY RevokedSessions DEF AuthorityHolds
  <1>4. /\ active
        /\ sessions[s] = None
        /\ sessions' = [base EXCEPT ![s] = row]
        /\ UNCHANGED <<active, clock>>
    BY DEF FinishStart
  <1> HIDE DEF base, row
  <1>5. sessions'[s] = row /\ \A t \in Sessions \ {s} : sessions'[t] = base[t]
    BY <1>3, <1>4
  <1>6. Phase'[s] = "live"
    BY <1>1, <1>2, <1>4, <1>5 DEF Phase
  <1>7. \A t \in Sessions \ {s} : Phase'[t] = IF Phase[t] = "live" THEN "ended" ELSE Phase[t]
    <2> TAKE t \in Sessions \ {s}
    <2>1. CASE sessions[t] = None
      BY <1>3, <1>5, <2>1 DEF Phase
    <2>2. CASE sessions[t] # None
      <3>1. Phase'[t] = "ended"
        BY <1>3, <1>5, <2>2 DEF Phase
      <3>2. Phase[t] \in {"live", "ended"}
        BY <2>2 DEF Phase
      <3>3. QED
        BY <3>1, <3>2
    <2>3. QED
      BY <2>1, <2>2
  <1>8. Phase[s] = "unused"
    BY <1>4 DEF Phase
  <1>9. Phase' = [Authority!EndedIn(Authority!LiveSessions) EXCEPT ![s] = "live"]
    <2>1. Phase' = [t \in Sessions |-> Phase'[t]]
      BY DEF Phase
    <2>2. Authority!EndedIn(Authority!LiveSessions) =
             [t \in Sessions |-> IF Phase[t] = "live" THEN "ended" ELSE Phase[t]]
      BY DEF Authority!EndedIn, Authority!LiveSessions
    <2>3. QED
      BY <1>6, <1>7, <2>1, <2>2
  <1>10. QED
    BY <1>4, <1>8, <1>9 DEF Authority!StartSession

LEMMA FinishRotateKeeps ==
    ASSUME AuthorityHolds, NEW c \in rotations, FinishRotate(c)
    PROVE  Phase' = Phase
  <1> DEFINE s == c.session
             row == Rotated(c)
  <1>1. s \in Sessions /\ sessions[s] \in SessionRows /\ sessions[s] # None
    BY DEF FinishRotate, Honoured, OpenSessions, AuthorityHolds, SessionsTypeOK
  <1>2. /\ row.state = sessions[s].state
        /\ row.hardExpires = sessions[s].hardExpires
        /\ row # None
    <2>1. FinishRotate(c) => sessions' = [sessions EXCEPT ![s] = row]
      BY DEF FinishRotate
    <2>2. row \in SessionRows
      BY RotatedRow
    <2>3. QED
      BY <1>1, <2>2, SessionsAssumption DEF Rotated, SessionRows
  <1>3. sessions' = [sessions EXCEPT ![s] = row] /\ UNCHANGED clock
    BY DEF FinishRotate
  <1> HIDE DEF row, s
  <1>4. \A t \in Sessions : Phase'[t] = Phase[t]
    <2> TAKE t \in Sessions
    <2>1. sessions \in [Sessions -> SessionRows \cup {None}]
      BY DEF AuthorityHolds, SessionsTypeOK
    <2>2. CASE t = s
      BY <1>1, <1>2, <1>3, <2>1, <2>2 DEF Phase
    <2>3. CASE t # s
      BY <1>1, <1>3, <2>1, <2>3 DEF Phase
    <2>4. QED
      BY <2>2, <2>3
  <1>5. QED
    BY <1>4 DEF Phase

(* Time ends a session when no call that still waits can find it alive.     *)
LEMMA TickEnds ==
    ASSUME AuthorityHolds, Tick
    PROVE  [Authority!AuthorityNext]_(Authority!authorityVars)
  <1>1. clock' = clock + 1 /\ sessions' = sessions /\ active' = active /\ clock \in Nat
    BY DEF Tick, tables, AuthorityHolds, SessionsTypeOK
  <1> SUFFICES ASSUME NEW s \in Sessions
               PROVE  Phase'[s] = Phase[s] \/ (Phase[s] = "live" /\ Phase'[s] = "ended")
    BY <1>1, SessionEnds
  <1>2. CASE s \notin OpenSessions
    BY <1>1, <1>2 DEF Phase, OpenSessions
  <1>3. CASE s \in OpenSessions
    <2>1. sessions[s] # None /\ sessions[s].state = "open"
      BY <1>3 DEF OpenSessions
    <2>2. /\ Phase[s] = IF clock < sessions[s].hardExpires + MaxDelay THEN "live" ELSE "ended"
          /\ Phase'[s] = IF clock + 1 < sessions[s].hardExpires + MaxDelay
                         THEN "live" ELSE "ended"
      BY <1>1, <2>1 DEF Phase
    <2>3. sessions[s].hardExpires \in Nat
      BY <2>1 DEF AuthorityHolds, SessionsTypeOK, SessionRows
    <2>4. QED
      BY <1>1, <2>2, <2>3, SessionsAssumption
  <1>4. QED
    BY <1>2, <1>3

LEMMA SetAgentStatusSets ==
    ASSUME AuthorityHolds, NEW m \in Members, NEW status \in BOOLEAN,
           SetAgentStatus(m, status)
    PROVE  Authority!SetAgentStatus(status)
  <1>1. CASE status
    BY <1>1 DEF SetAgentStatus, Authority!SetAgentStatus, Phase
  <1>2. CASE ~status
    <2>1. sessions' = SessionsRevoked(OpenSessions) /\ UNCHANGED clock
      BY <1>2 DEF SetAgentStatus
    <2>2. \A s \in Sessions : Phase'[s] = IF Phase[s] = "live" THEN "ended" ELSE Phase[s]
      <3> TAKE s \in Sessions
      <3>1. /\ sessions[s] = None <=> sessions'[s] = None
            /\ sessions[s] # None => sessions'[s].state # "open"
        BY <2>1, RevokedSessions DEF AuthorityHolds
      <3>2. CASE sessions[s] = None
        BY <3>1, <3>2 DEF Phase
      <3>3. CASE sessions[s] # None
        <4>1. Phase'[s] = "ended"
          BY <3>1, <3>3 DEF Phase
        <4>2. Phase[s] \in {"live", "ended"}
          BY <3>3 DEF Phase
        <4>3. QED
          BY <4>1, <4>2
      <3>4. QED
        BY <3>2, <3>3
    <2>3. Phase' = Authority!EndedIn(Authority!LiveSessions)
      <3>1. Phase' = [s \in Sessions |-> Phase'[s]]
        BY DEF Phase
      <3>2. Authority!EndedIn(Authority!LiveSessions) =
               [s \in Sessions |-> IF Phase[s] = "live" THEN "ended" ELSE Phase[s]]
        BY DEF Authority!EndedIn, Authority!LiveSessions
      <3>3. QED
        BY <2>2, <3>1, <3>2
    <2>4. active' = status
      BY DEF SetAgentStatus
    <2>5. QED
      BY <1>2, <2>3, <2>4 DEF Authority!SetAgentStatus
  <1>3. QED
    BY <1>1, <1>2

LEMMA StepRefines ==
    ASSUME AuthorityHolds, AuthorityHolds', [Next]_vars
    PROVE  [Authority!AuthorityNext]_(Authority!authorityVars)
  <1>1. CASE UNCHANGED vars
    BY <1>1, UnchangedSessions DEF vars, tables
  <1>2. ASSUME NEW m \in Members, NEW status \in Statuses, NEW version \in 1 .. MaxVersion,
               ApplyMembership(m, status, version)
        PROVE  [Authority!AuthorityNext]_(Authority!authorityVars)
    BY <1>2, RevocationEnds DEF ApplyMembership
  <1>3. ASSUME NEW m \in Members, OwnerStep(m)
        PROVE  [Authority!AuthorityNext]_(Authority!authorityVars)
    <2>1. CASE \E other \in Members : AddAgentOwner(m, other)
      BY <2>1, UnchangedSessions DEF AddAgentOwner
    <2>2. CASE \E other \in Members : RemoveAgentOwner(m, other)
      BY <2>2, RevocationEnds DEF RemoveAgentOwner
    <2>3. CASE \E status \in BOOLEAN : SetAgentStatus(m, status)
      BY <1>3, <2>3, SetAgentStatusSets DEF Authority!AuthorityNext
    <2>4. CASE \E d \in Delegations, expires \in 1 .. MaxClock + DelegationTtl :
                  CreateAgentDelegation(m, d, expires) \/ ReaffirmAgentDelegation(m, d, expires)
      BY <2>4, UnchangedSessions DEF CreateAgentDelegation, ReaffirmAgentDelegation
    <2>5. CASE \E d \in Delegations : RevokeAgentDelegation(m, d)
      BY <2>5, RevocationEnds DEF RevokeAgentDelegation
    <2>6. CASE \E s \in Sessions : StopAgentSession(m, s)
      BY <2>6, RevocationEnds DEF StopAgentSession
    <2>7. CASE StopAgentRuntime(m)
      BY <2>7, RevocationEnds DEF StopAgentRuntime
    <2>8. QED
      BY <1>3, <2>1, <2>2, <2>3, <2>4, <2>5, <2>6, <2>7 DEF OwnerStep
  <1>4. CASE SessionStep
    <2>1. CASE \E m \in Members, d \in Delegations, id \in StartIds : BeginStart(m, d, id)
      BY <2>1, UnchangedSessions DEF BeginStart, tables
    <2>2. CASE \E c \in starts, s \in Sessions : FinishStart(c, s)
      BY <2>2, FinishStartStarts DEF Authority!AuthorityNext
    <2>3. CASE \E s \in Sessions, token \in 0 .. MaxRotations, id \in RotateIds :
                  BeginRotate(s, token, id)
      BY <2>3, UnchangedSessions DEF BeginRotate, tables
    <2>4. CASE \E c \in rotations : FinishRotate(c)
      BY <2>4, FinishRotateKeeps DEF FinishRotate, Authority!authorityVars
    <2>5. CASE DropCall
      BY <2>5, UnchangedSessions DEF DropCall, tables
    <2>6. QED
      BY <1>4, <2>1, <2>2, <2>3, <2>4, <2>5 DEF SessionStep
  <1>5. CASE Tick
    BY <1>5, TickEnds
  <1>6. QED
    BY <1>1, <1>2, <1>3, <1>4, <1>5 DEF Next

(* Owners, memberships, delegations, tokens and clocks together are the     *)
(* authority the work queue is built on: a session is issued once, ends the *)
(* one before it, and never comes back.                                     *)
THEOREM SessionsImplementAuthority == Spec => ImplementsAuthority
<1>1. Init => Authority!AuthorityInit
  BY DEF Init, Authority!AuthorityInit, Phase
<1>2. AuthorityHolds /\ AuthorityHolds' /\ [Next]_vars
         => [Authority!AuthorityNext]_(Authority!authorityVars)
  BY StepRefines
<1>3. QED
  BY <1>1, <1>2, AuthorityCorrect, PTL DEF Spec, ImplementsAuthority, Authority!AuthoritySpec
=============================================================================
