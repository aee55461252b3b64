---------------------------- MODULE AgentSessions ----------------------------
(***************************************************************************)
(* The runner sessions of one agent and the authority they stand on        *)
(* (src/cloudflare/workspace.ts): the agent's owners, the membership of    *)
(* these owners as the control plane projects it, the delegations they     *)
(* grant, and the sessions minted from them.                               *)
(*                                                                         *)
(* Two operations wait in the middle, for a hash: starting a session and   *)
(* rotating its token.  Each is a Begin action that checks and reads, and  *)
(* a Finish action that checks again and writes; anything may happen in    *)
(* between.  Every other operation is one transaction.                     *)
(*                                                                         *)
(* The machine a session is started for is left out: it is checked before  *)
(* a start, copied into the row, and not looked at by anything here.       *)
(***************************************************************************)
EXTENDS Integers, FiniteSets

CONSTANTS
    Members,            \* members of the workspace
    Founder,            \* the member who created the agent
    Delegations,        \* delegation ids, each minted at most once
    Sessions,           \* session ids, each minted at most once
    StartIds,           \* bound: starts waiting for a hash at one time
    RotateIds,          \* bound: rotations waiting for a hash at one time
    TokenTtl,           \* life of a token, 15 minutes in the code
    HardTtl,            \* life of a session, 8 hours in the code
    DelegationTtl,      \* longest life of a delegation, 30 days in the code
    MaxDelay,           \* how long a call may wait for a hash
    MaxClock,           \* bound: length of a behaviour
    MaxVersion,         \* bound: projections of one member
    MaxRotations,       \* bound: rotations of one session
    None                \* SQL NULL

(* Rows of agent_delegations and agent_sessions. *)
DelegationRows ==
    [state : {"open", "revoked"}, owner : Members, epoch : 1 .. MaxVersion,
     expires : Nat]
SessionRows ==
    [state : {"open", "revoked"}, delegation : Delegations, owner : Members,
     token : Nat, tokenExpires : Nat, hardExpires : Nat]

ASSUME SessionsAssumption ==
    /\ Founder \in Members
    /\ TokenTtl \in Nat \ {0}
    /\ HardTtl \in Nat \ {0}
    /\ DelegationTtl \in Nat \ {0}
    /\ MaxDelay \in Nat
    /\ MaxClock \in Nat
    /\ MaxVersion \in Nat \ {0}
    /\ MaxRotations \in Nat
    /\ None \notin DelegationRows \cup SessionRows

VARIABLES
    active,             \* agents.status = 'active'
    owners,             \* agent_owners
    members,            \* members: status and version of the projection
    delegations,        \* agent_delegations
    sessions,           \* agent_sessions
    starts,             \* startAgentSession calls that wait for a hash
    rotations,          \* rotateAgentSessionToken calls that wait for a hash
    clock,
    grants              \* history: tokens handed out, and for which token

tables == <<active, owners, members, delegations, sessions>>
calls == <<starts, rotations>>
vars == <<tables, calls, clock, grants>>

(* "suspended" stands for every status but active. *)
Statuses == {"active", "suspended"}

-----------------------------------------------------------------------------
(* Authority. *)

(* authorizeActor: every projection carries a new epoch, so the version of  *)
(* the projection stands for it.                                            *)
Current(m, epoch) == members[m].status = "active" /\ members[m].version = epoch

(* authorizeActor and requireOwnedAgent, in an operation that does not wait. *)
ActsAsOwner(m) == members[m].status = "active" /\ m \in owners

OpenDelegations == {d \in Delegations : delegations[d] # None /\ delegations[d].state = "open"}
OpenSessions == {s \in Sessions : sessions[s] # None /\ sessions[s].state = "open"}

(* requireLiveDelegation *)
LiveDelegation(d, now) ==
    /\ d \in OpenDelegations
    /\ delegations[d].expires > now
    /\ Current(delegations[d].owner, delegations[d].epoch)
    /\ delegations[d].owner \in owners

(* requireLiveAgentSessionById, requireExactAgentSessionTuple,              *)
(* requireLiveDelegation and requireLiveSessionOwner.                       *)
Honoured(s, token, now) ==
    /\ s \in OpenSessions
    /\ sessions[s].tokenExpires > now
    /\ sessions[s].hardExpires > now
    /\ sessions[s].token = token
    /\ LiveDelegation(sessions[s].delegation, now)
    /\ active

DelegationsRevoked(D) ==
    [d \in Delegations |-> IF d \in D \cap OpenDelegations
                           THEN [delegations[d] EXCEPT !.state = "revoked"]
                           ELSE delegations[d]]

SessionsRevoked(S) ==
    [s \in Sessions |-> IF s \in S \cap OpenSessions
                        THEN [sessions[s] EXCEPT !.state = "revoked"]
                        ELSE sessions[s]]

DelegationsOf(m) == {d \in OpenDelegations : delegations[d].owner = m}
SessionsOf(m) == {s \in OpenSessions : sessions[s].owner = m}
SessionsUnder(d) == {s \in OpenSessions : sessions[s].delegation = d}

-----------------------------------------------------------------------------
(* Membership, ownership and the agent's status. *)

(* applyMembership: a projection that is replayed or overtaken changes      *)
(* nothing; a newer one carries a new epoch and ends what the old one       *)
(* carried.                                                                 *)
ApplyMembership(m, status, version) ==
    /\ version > members[m].version
    /\ members' = [members EXCEPT ![m] = [status |-> status, version |-> version]]
    /\ sessions' = SessionsRevoked(SessionsOf(m))
    /\ delegations' = DelegationsRevoked(DelegationsOf(m))
    /\ UNCHANGED <<active, owners, calls, clock, grants>>

AddAgentOwner(m, added) ==
    /\ ActsAsOwner(m)
    /\ members[added].status = "active"
    /\ owners' = owners \cup {added}
    /\ UNCHANGED <<active, members, delegations, sessions, calls, clock, grants>>

RemoveAgentOwner(m, removed) ==
    /\ ActsAsOwner(m)
    /\ removed \in owners
    /\ owners # {removed}
    /\ owners' = owners \ {removed}
    /\ sessions' = SessionsRevoked({s \in OpenSessions :
                        delegations[sessions[s].delegation].owner = removed})
    /\ delegations' = DelegationsRevoked(DelegationsOf(removed))
    /\ UNCHANGED <<active, members, calls, clock, grants>>

SetAgentStatus(m, status) ==
    /\ ActsAsOwner(m)
    /\ active' = status
    /\ sessions' = IF status THEN sessions ELSE SessionsRevoked(OpenSessions)
    /\ UNCHANGED <<owners, members, delegations, calls, clock, grants>>

-----------------------------------------------------------------------------
(* Delegations. *)

CreateAgentDelegation(m, d, expires) ==
    /\ ActsAsOwner(m)
    /\ active
    /\ delegations[d] = None
    /\ expires > clock /\ expires <= clock + DelegationTtl
    /\ delegations' = [delegations EXCEPT ![d] =
          [state |-> "open", owner |-> m, epoch |-> members[m].version,
           expires |-> expires]]
    /\ UNCHANGED <<active, owners, members, sessions, calls, clock, grants>>

ReaffirmAgentDelegation(m, d, expires) ==
    /\ ActsAsOwner(m)
    /\ LiveDelegation(d, clock)
    /\ delegations[d].owner = m
    /\ expires > delegations[d].expires /\ expires <= clock + DelegationTtl
    /\ delegations' = [delegations EXCEPT ![d].expires = expires]
    /\ UNCHANGED <<active, owners, members, sessions, calls, clock, grants>>

RevokeAgentDelegation(m, d) ==
    /\ ActsAsOwner(m)
    /\ d \in OpenDelegations
    /\ delegations' = DelegationsRevoked({d})
    /\ sessions' = SessionsRevoked(SessionsUnder(d))
    /\ UNCHANGED <<active, owners, members, calls, clock, grants>>

-----------------------------------------------------------------------------
(* Sessions. *)

Earliest(a, b) == IF a <= b THEN a ELSE b

(* startRunnerSession and startAgentSession up to the hash.  Which of the   *)
(* member's delegations is taken, the newest, is left open.                 *)
BeginStart(m, d, id) ==
    /\ \A c \in starts : c.id # id
    /\ ActsAsOwner(m)
    /\ active
    /\ LiveDelegation(d, clock)
    /\ delegations[d].owner = m
    /\ starts' = starts \cup {[id |-> id, member |-> m, epoch |-> members[m].version,
                               delegation |-> d, now |-> clock]}
    /\ UNCHANGED <<tables, rotations, clock, grants>>

(* The row a start writes, replacing whichever session was open. *)
Started(c) ==
    LET hard == Earliest(c.now + HardTtl, delegations[c.delegation].expires)
    IN  [state |-> "open", delegation |-> c.delegation, owner |-> c.member,
         token |-> 0,
         tokenExpires |-> Earliest(c.now + TokenTtl, hard), hardExpires |-> hard]

(* Faulty variant: what was checked before the hash is not checked again. *)
FinishStartUnchecked(c, s) ==
    /\ sessions[s] = None
    /\ sessions' = [SessionsRevoked(OpenSessions) EXCEPT ![s] = Started(c)]
    /\ starts' = starts \ {c}
    /\ UNCHANGED <<active, owners, members, delegations, rotations, clock, grants>>

(* Faulty variant: the session that was open stays open. *)
FinishStartBeside(c, s) ==
    /\ Current(c.member, c.epoch)
    /\ LiveDelegation(c.delegation, c.now)
    /\ delegations[c.delegation].owner = c.member
    /\ active
    /\ sessions[s] = None
    /\ sessions' = [sessions EXCEPT ![s] = Started(c)]
    /\ starts' = starts \ {c}
    /\ UNCHANGED <<active, owners, members, delegations, rotations, clock, grants>>

(* startAgentSession after the hash: the member, the delegation and the     *)
(* agent are read again.                                                    *)
FinishStart(c, s) ==
    /\ Current(c.member, c.epoch)
    /\ LiveDelegation(c.delegation, c.now)
    /\ delegations[c.delegation].owner = c.member
    /\ active
    /\ sessions[s] = None
    /\ sessions' = [SessionsRevoked(OpenSessions) EXCEPT ![s] = Started(c)]
    /\ starts' = starts \ {c}
    /\ UNCHANGED <<active, owners, members, delegations, rotations, clock, grants>>

(* rotateAgentSessionToken up to the second hash. *)
BeginRotate(s, token, id) ==
    /\ \A c \in rotations : c.id # id
    /\ Honoured(s, token, clock)
    /\ token < MaxRotations
    /\ rotations' = rotations \cup {[id |-> id, session |-> s, token |-> token, now |-> clock]}
    /\ UNCHANGED <<tables, starts, clock, grants>>

(* The row a rotation writes. *)
Rotated(c) ==
    LET row == sessions[c.session]
    IN  [row EXCEPT !.token = @ + 1,
             !.tokenExpires = Earliest(c.now + TokenTtl,
                   Earliest(row.hardExpires, delegations[row.delegation].expires))]

(* Faulty variant: the update only asks whether the session is still open. *)
FinishRotateUnread(c) ==
    /\ c.session \in OpenSessions
    /\ sessions' = [sessions EXCEPT ![c.session] = Rotated(c)]
    /\ grants' = grants \cup {[session |-> c.session, from |-> c.token,
                               to |-> sessions[c.session].token + 1]}
    /\ rotations' = rotations \ {c}
    /\ UNCHANGED <<active, owners, members, delegations, starts, clock>>

(* rotateAgentSessionToken after the second hash: everything is read again, *)
(* the token in force among it.                                             *)
FinishRotate(c) ==
    /\ Honoured(c.session, c.token, c.now)
    /\ sessions' = [sessions EXCEPT ![c.session] = Rotated(c)]
    /\ grants' = grants \cup {[session |-> c.session, from |-> c.token,
                               to |-> sessions[c.session].token + 1]}
    /\ rotations' = rotations \ {c}
    /\ UNCHANGED <<active, owners, members, delegations, starts, clock>>

(* A call that waits is refused when it goes on, or lost with the object. *)
DropCall ==
    /\ \/ \E c \in starts : starts' = starts \ {c} /\ UNCHANGED rotations
       \/ \E c \in rotations : rotations' = rotations \ {c} /\ UNCHANGED starts
    /\ UNCHANGED <<tables, clock, grants>>

StopAgentSession(m, s) ==
    /\ ActsAsOwner(m)
    /\ s \in OpenSessions
    /\ sessions' = SessionsRevoked({s})
    /\ UNCHANGED <<active, owners, members, delegations, calls, clock, grants>>

StopAgentRuntime(m) ==
    /\ ActsAsOwner(m)
    /\ sessions' = SessionsRevoked(OpenSessions)
    /\ UNCHANGED <<active, owners, members, delegations, calls, clock, grants>>

(* A call does not wait for its hash for ever. *)
Tick ==
    /\ clock < MaxClock
    /\ \A c \in starts \cup rotations : clock < c.now + MaxDelay
    /\ clock' = clock + 1
    /\ UNCHANGED <<tables, calls, grants>>

-----------------------------------------------------------------------------

Init ==
    /\ active = TRUE
    /\ owners = {Founder}
    /\ members = [m \in Members |-> [status |-> "active", version |-> 1]]
    /\ delegations = [d \in Delegations |-> None]
    /\ sessions = [s \in Sessions |-> None]
    /\ starts = {}
    /\ rotations = {}
    /\ clock = 0
    /\ grants = {}

OwnerStep(m) ==
    \/ \E other \in Members : AddAgentOwner(m, other) \/ RemoveAgentOwner(m, other)
    \/ \E status \in BOOLEAN : SetAgentStatus(m, status)
    \/ \E d \in Delegations, expires \in 1 .. MaxClock + DelegationTtl :
          CreateAgentDelegation(m, d, expires) \/ ReaffirmAgentDelegation(m, d, expires)
    \/ \E d \in Delegations : RevokeAgentDelegation(m, d)
    \/ \E s \in Sessions : StopAgentSession(m, s)
    \/ StopAgentRuntime(m)

SessionStep ==
    \/ \E m \in Members, d \in Delegations, id \in StartIds : BeginStart(m, d, id)
    \/ \E c \in starts, s \in Sessions : FinishStart(c, s)
    \/ \E s \in Sessions, token \in 0 .. MaxRotations, id \in RotateIds :
          BeginRotate(s, token, id)
    \/ \E c \in rotations : FinishRotate(c)
    \/ DropCall

Next ==
    \/ \E m \in Members, status \in Statuses, version \in 1 .. MaxVersion :
          ApplyMembership(m, status, version)
    \/ \E m \in Members : OwnerStep(m)
    \/ SessionStep
    \/ Tick

Spec == Init /\ [][Next]_vars

-----------------------------------------------------------------------------
(* Properties. *)

StartCalls ==
    [id : StartIds, member : Members, epoch : 1 .. MaxVersion, delegation : Delegations,
     now : Nat]
RotateCalls == [id : RotateIds, session : Sessions, token : Nat, now : Nat]

SessionsTypeOK ==
    /\ active \in BOOLEAN
    /\ owners \subseteq Members
    /\ members \in [Members -> [status : Statuses, version : 1 .. MaxVersion]]
    /\ delegations \in [Delegations -> DelegationRows \cup {None}]
    /\ sessions \in [Sessions -> SessionRows \cup {None}]
    /\ starts \subseteq StartCalls
    /\ rotations \subseteq RotateCalls
    /\ clock \in Nat
    /\ grants \subseteq [session : Sessions, from : Nat, to : Nat]

(* An open delegation stands on authority its owner still has. *)
DelegationsStand ==
    \A d \in OpenDelegations :
        /\ Current(delegations[d].owner, delegations[d].epoch)
        /\ delegations[d].owner \in owners

(* An open session stands on an open delegation of an active agent, for the *)
(* member who granted it, and never outlives it.                            *)
SessionsStand ==
    \A s \in OpenSessions :
        /\ active
        /\ sessions[s].delegation \in OpenDelegations
        /\ sessions[s].owner = delegations[sessions[s].delegation].owner
        /\ sessions[s].tokenExpires <= sessions[s].hardExpires
        /\ sessions[s].hardExpires <= delegations[sessions[s].delegation].expires

(* No start waits longer than a call may. *)
StartsInTime == \A c \in starts : clock <= c.now + MaxDelay

(* Tokens are handed out one after the other. *)
GrantsInOrder ==
    \A g \in grants : /\ sessions[g.session] # None
                      /\ g.to = g.from + 1
                      /\ g.to <= sessions[g.session].token

(* A session is open only as long as everything it was minted from holds,   *)
(* although authority may be withdrawn while a start waits for its hash;    *)
(* there is one at a time, and somebody is accountable for the agent.       *)
AuthorityHolds ==
    /\ SessionsTypeOK
    /\ owners # {}
    /\ DelegationsStand
    /\ SessionsStand
    /\ \A s, other \in OpenSessions : s = other
    /\ StartsInTime
    /\ GrantsInOrder

(* Two holders of one token, a retry or a thief, cannot both rotate it.     *)
TokenSpentOnce ==
    \A g, other \in grants :
        g.session = other.session /\ g.from = other.from => g = other

(* The phase of a session as the rest of the workspace sees it: it is over  *)
(* when it is revoked, or expired for every call that still waits.          *)
Phase ==
    [s \in Sessions |->
        IF sessions[s] = None THEN "unused"
        ELSE IF sessions[s].state = "open" /\ clock < sessions[s].hardExpires + MaxDelay
             THEN "live" ELSE "ended"]

Authority == INSTANCE SessionAuthority WITH session <- Phase

(* Delegations, owners, epochs and tokens together are the simple authority *)
(* the work queue is built on: issued once, replaced, ended for good.       *)
ImplementsAuthority == Authority!AuthoritySpec
=============================================================================
