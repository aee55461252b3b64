-------------------------------- MODULE Vault --------------------------------
(***************************************************************************)
(* The use of credentials: grants, approval cards, the kill switches, the  *)
(* local release and the request proxied through a release device          *)
(* (releaseVaultCredential to revokeVaultGrants in                         *)
(* src/cloudflare/workspace.ts, decideVaultAuthorization in                *)
(* src/domain/vault-authorization.ts), over the credentials of module      *)
(* VaultCustody.                                                           *)
(*                                                                         *)
(* A handler waits only for storage, which lets nobody in, with two        *)
(* exceptions: a proxied request is sealed between the decision and the    *)
(* row, and its answer is opened between the row and the second decision.  *)
(* One agent asks, under one delegation.  What else may refuse it (rooms,  *)
(* projects, the hourly ceiling, the hours of a credential) is left out: a *)
(* refused request changes nothing, and an answer may always be refused.   *)
(* Sealing takes less than the clock's step; an answer is judged at the    *)
(* instant it came in.                                                     *)
(*                                                                         *)
(* Instants are distances from the present.                                *)
(***************************************************************************)
EXTENDS Integers, Sequences, FiniteSets, FiniteSetsExt, SequencesExt, VaultCustody

CONSTANTS
    Requester,          \* the member whose agent asks
    Tuples,             \* what grants name exactly, told apart by delivery
    Keys,               \* idempotency keys of proxied requests
    CardTtl,            \* life of a card, 5 minutes in the code
    GrantTtl,           \* life of a windowed grant, 0 when the policy has none
    ProxyTtl,           \* life of a proxied request
    MaxUses,            \* bound: uses of one grant recorded
    None

ASSUME VaultAssumption ==
    /\ Requester \in Members
    /\ Tuples \subseteq {"inject", "device_proxy"}
    /\ CardTtl \in Nat \ {0} /\ GrantTtl \in Nat /\ ProxyTtl \in Nat \ {0}
    /\ \A b \in Budgets : b.keys \subseteq Keys /\ b.tuples \subseteq Tuples
    /\ MaxUses \in Nat \ {0}
    /\ IsFiniteSet(Credentials)
    /\ None \notin Int \cup {"denied", "allowed"}

VARIABLES
    access,             \* vault_settings: agent_access_on and access_epoch
    agentOff,           \* the agent's vault_access_off_at is set
    standing,           \* whether the delegation of the agent is live
    grants,             \* vault_grants in the order they were issued
    cards,              \* vault_approvals with their items and approvers
    deadline,           \* due_at of system:vault_approval_expiry
    expiry,             \* the run that claimed that row, None when there is none
    proxies,            \* vault_proxy_requests by idempotency key
    sealing,            \* proxied requests being sealed
    opening,            \* answers being opened
    cut,                \* history: grants that existed when a switch was thrown
    dropped             \* history: cards a finished expiry run left behind

releaseVars == <<access, agentOff, standing, grants, cards, deadline, expiry,
                 proxies, sealing, opening, cut, dropped>>
vars == <<custodyVars, releaseVars>>

CardStatuses == {"pending", "allowed", "denied", "expired"}
ProxyStates == {"none", "pending", "refused", "uncertain", "completed"}
NoProxy == [state |-> "none", cred |-> None, version |-> 0, policy |-> 0,
            access |-> 0, left |-> 0, frames |-> 0, uses |-> 0]

Cards == 1 .. Len(cards)
Grants == 1 .. Len(grants)

-----------------------------------------------------------------------------
(* Tables. *)

(* revokeVaultGrants, for the grants of the credentials C. *)
Revoked(gs, C) ==
    [g \in 1 .. Len(gs) |-> IF gs[g].cred \in C THEN [gs[g] EXCEPT !.revoked = TRUE] ELSE gs[g]]

(* cancelPendingApprovals: the card expires, and what had no answer is      *)
(* denied.                                                                  *)
Lapsed(card) == [card EXCEPT !.status = "expired",
                    !.items = [c \in DOMAIN @ |-> IF @[c] = None THEN "denied" ELSE @[c]]]
Cancelled(cs, I) ==
    [i \in 1 .. Len(cs) |-> IF cs[i].status = "pending" /\ i \in I THEN Lapsed(cs[i]) ELSE cs[i]]
CardsOn(C) == {i \in Cards : DOMAIN cards[i].items \cap C # {}}

(* Pending proxied requests of the credentials C are refused. *)
Refused(ps, C) ==
    [k \in Keys |-> IF ps[k].state = "pending" /\ ps[k].cred \in C
                    THEN [ps[k] EXCEPT !.state = "refused"] ELSE ps[k]]

(* The rows that go with a credential (ON DELETE CASCADE). *)
WithoutCredential(cs, c) ==
    [i \in 1 .. Len(cs) |-> [cs[i] EXCEPT !.items = [o \in DOMAIN @ \ {c} |-> @[o]]]]

(* insertVaultGrant: under the epochs that hold now; without an expiry it   *)
(* is good for one use.                                                     *)
Grant(c, t, once, by) ==
    [cred |-> c, tuple |-> t, version |-> vault[c].version, policy |-> vault[c].policy,
     access |-> access.epoch, once |-> once, remaining |-> IF once THEN 1 ELSE 0,
     left |-> IF once THEN 0 ELSE GrantTtl, revoked |-> FALSE, by |-> by, uses |-> 0]

Pending(cs) == {i \in 1 .. Len(cs) : cs[i].status = "pending"}

(* scheduleDueWork keeps the earlier of two instants. *)
Scheduled(d, at) == IF d # None /\ d < at THEN d ELSE at

(* armVaultApprovalExpiry *)
Armed(d, cs) ==
    IF Pending(cs) = {} THEN d ELSE Scheduled(d, Min({cs[i].left : i \in Pending(cs)}))

(* vaultApproverMemberIds *)
Approvers(c) == vault[c].managers \cap active

-----------------------------------------------------------------------------
(* The decision: evaluateVaultAccess and decideVaultAuthorization.          *)

(* Grants that match exactly; which of them is found is the newest.         *)
Matching(c, t, now) ==
    {g \in Grants :
        /\ grants[g].cred = c /\ grants[g].tuple = t
        /\ grants[g].version = vault[c].version
        /\ grants[g].policy = vault[c].policy
        /\ grants[g].access = access.epoch
        /\ ~grants[g].revoked
        /\ IF grants[g].once THEN grants[g].remaining > 0 ELSE grants[g].left > now}

SwitchedOff(c) == ~access.on \/ agentOff \/ vault[c].frozen

Decision(c, t, now) ==
    IF ~Live(c) \/ SwitchedOff(c) \/ Requester \notin active \/ ~standing
    THEN "deny"
    ELSE IF Matching(c, t, now) # {} THEN "grant"
    ELSE IF vault[c].mode = "never" THEN "deny"
    ELSE IF vault[c].mode = "ask" THEN "ask" ELSE "automatic"

(* A use under a grant is recorded, and a grant for one use is spent. *)
Consumed(c, t, now) ==
    IF Decision(c, t, now) # "grant" THEN grants
    ELSE [grants EXCEPT ![Max(Matching(c, t, now))].uses = @ + 1,
                        ![Max(Matching(c, t, now))].remaining = IF @ > 0 THEN @ - 1 ELSE 0]

UsesBounded(c, t, now) ==
    Decision(c, t, now) = "grant" => grants[Max(Matching(c, t, now))].uses < MaxUses

-----------------------------------------------------------------------------
(* Custody operations, whole. *)

CreateCredential(m, c, S, w, mode, captured) ==
    /\ Create(m, c, S, w, mode, captured)
    /\ UNCHANGED releaseVars

(* Faulty variant: a new value leaves the grants of the old one alone. *)
UpdateCredentialKeepingGrants(m, c, S, w, mode) ==
    /\ Update(m, c, S, w, mode)
    /\ UNCHANGED releaseVars

(* An update revokes the grants; cards and proxied requests stay as they    *)
(* are and fail when they are answered.                                     *)
UpdateCredential(m, c, S, w, mode) ==
    /\ Update(m, c, S, w, mode)
    /\ grants' = Revoked(grants, {c})
    /\ UNCHANGED <<access, agentOff, standing, cards, deadline, expiry, proxies,
                   sealing, opening, cut, dropped>>

AddCredentialCustodian(m, c, r) ==
    /\ AddCustodian(m, c, r)
    /\ grants' = Revoked(grants, {c})
    /\ cards' = Cancelled(cards, CardsOn({c}))
    /\ UNCHANGED <<access, agentOff, standing, deadline, expiry, proxies,
                   sealing, opening, cut, dropped>>

RemoveCredentialCustodian(m, c, r) ==
    /\ RemoveCustodian(m, c, r)
    /\ grants' = Revoked(grants, {c})
    /\ cards' = Cancelled(cards, CardsOn({c}))
    /\ proxies' = Refused(proxies, {c})
    /\ UNCHANGED <<access, agentOff, standing, deadline, expiry,
                   sealing, opening, cut, dropped>>

(* The grants and requests of the credential go with its row; a grant that  *)
(* is gone is kept here as revoked.                                         *)
DeleteCredential(m, c) ==
    /\ Delete(m, c)
    /\ grants' = Revoked(grants, {c})
    /\ cards' = WithoutCredential(cards, c)
    /\ proxies' = [k \in Keys |-> IF proxies[k].cred = c THEN NoProxy ELSE proxies[k]]
    /\ UNCHANGED <<access, agentOff, standing, deadline, expiry,
                   sealing, opening, cut, dropped>>

RotateMemberKey(m) ==
    /\ RotateKey(m)
    /\ grants' = Revoked(grants, Held(m))
    /\ cards' = Cancelled(cards, CardsOn(Held(m)))
    /\ proxies' = Refused(proxies, Held(m))
    /\ UNCHANGED <<access, agentOff, standing, deadline, expiry,
                   sealing, opening, cut, dropped>>

(* applyMembership: a change of epoch or status ends the delegations of the *)
(* member and revokes the grants issued to it.                              *)
ChangeMembership(m, on) ==
    /\ SetActive(m, on)
    /\ IF m = Requester
       THEN /\ grants' = Revoked(grants, Credentials)
            /\ standing' = FALSE
       ELSE UNCHANGED <<grants, standing>>
    /\ UNCHANGED <<access, agentOff, cards, deadline, expiry, proxies,
                   sealing, opening, cut, dropped>>

-----------------------------------------------------------------------------
(* The kill switches. *)

Existing(C) == {g \in Grants : grants[g].cred \in C}

(* Faulty variant: the cards that wait are left open. *)
FreezeLeavingCards(c) ==
    /\ SetFrozen(c, TRUE)
    /\ grants' = Revoked(grants, {c})
    /\ cut' = cut \cup Existing({c})
    /\ UNCHANGED <<access, agentOff, standing, cards, deadline, expiry, proxies,
                   sealing, opening, dropped>>

(* setVaultCredentialFreeze *)
Freeze(c) ==
    /\ SetFrozen(c, TRUE)
    /\ grants' = Revoked(grants, {c})
    /\ cards' = Cancelled(cards, CardsOn({c}))
    /\ cut' = cut \cup Existing({c})
    /\ UNCHANGED <<access, agentOff, standing, deadline, expiry, proxies,
                   sealing, opening, dropped>>

Unfreeze(c) ==
    /\ SetFrozen(c, FALSE)
    /\ UNCHANGED releaseVars

(* setAgentVaultAccess *)
SwitchAgent(off) ==
    /\ Changing
    /\ agentOff # off
    /\ agentOff' = off
    /\ grants' = IF off THEN Revoked(grants, Credentials) ELSE grants
    /\ cards' = IF off THEN Cancelled(cards, Cards) ELSE cards
    /\ cut' = IF off THEN Grants ELSE cut
    /\ UNCHANGED <<active, keys, vault, stale, access, standing, deadline, expiry,
                   proxies, sealing, opening, dropped>>

(* setVaultAgentAccess: every grant goes in both directions, the cards only *)
(* when access is switched off.                                             *)
SwitchAccess(on) ==
    /\ Changing
    /\ access.on # on
    /\ access' = [on |-> on, epoch |-> access.epoch + 1]
    /\ grants' = Revoked(grants, Credentials)
    /\ cards' = IF on THEN cards ELSE Cancelled(cards, Cards)
    /\ cut' = Grants
    /\ UNCHANGED <<active, keys, vault, stale, agentOff, standing, deadline, expiry,
                   proxies, sealing, opening, dropped>>

(* The delegation is revoked, its owner removed or the agent paused: the    *)
(* agent may not ask again under it.                                        *)
EndDelegation ==
    /\ standing
    /\ standing' = FALSE
    /\ grants' = Revoked(grants, Credentials)
    /\ UNCHANGED <<custodyVars, access, agentOff, cards, deadline, expiry,
                   proxies, sealing, opening, cut, dropped>>

-----------------------------------------------------------------------------
(* Grants and the local release. *)

(* issueVaultGrant: by a manager, with no regard to the switches. *)
IssueGrant(m, c, t, once) ==
    /\ Len(grants) < budget.issued
    /\ Manages(m, c)
    /\ once \/ GrantTtl > 0
    /\ standing /\ Requester \in active
    /\ grants' = Append(grants, Grant(c, t, once, m))
    /\ UNCHANGED <<custodyVars, access, agentOff, standing, cards, deadline, expiry,
                   proxies, sealing, opening, cut, dropped>>

(* revokeVaultGrant *)
RevokeGrant(m, g) ==
    /\ m \in active
    /\ m \in Admins \cup {Requester} \cup vault[grants[g].cred].managers
    /\ ~grants[g].revoked
    /\ grants' = [grants EXCEPT ![g].revoked = TRUE]
    /\ UNCHANGED <<custodyVars, access, agentOff, standing, cards, deadline, expiry,
                   proxies, sealing, opening, cut, dropped>>

(* releaseVaultCredential: a requester without a wrap spends nothing. *)
Release(c, t) ==
    /\ Requester \in active /\ Live(c)
    /\ Requester \in Custodians(c)
    /\ Decision(c, t, 0) \in {"grant", "automatic"}
    /\ UsesBounded(c, t, 0)
    /\ grants' = Consumed(c, t, 0)
    /\ UNCHANGED <<custodyVars, access, agentOff, standing, cards, deadline, expiry,
                   proxies, sealing, opening, cut, dropped>>

-----------------------------------------------------------------------------
(* Approval cards. *)

NewCard(t, C, approvers) ==
    [tuple |-> t, items |-> [c \in C |-> None],
     grant |-> [c \in C |-> 0],
     version |-> [c \in C |-> vault[c].version], policy |-> [c \in C |-> vault[c].policy],
     approvers |-> approvers, status |-> "pending", left |-> CardTtl, by |-> None]

(* What is left to a human, one card for every group of approvers. *)
Asked(t, C) == {c \in C : Decision(c, t, 0) = "ask" /\ Approvers(c) # {}}
NewCards(t, C) ==
    {NewCard(t, {c \in Asked(t, C) : Approvers(c) = S}, S) : S \in {Approvers(c) : c \in Asked(t, C)}}

(* Faulty variant: the card is written and nothing is due for it. *)
RequestApprovalUndue(t, C) ==
    /\ Requester \in active
    /\ Asked(t, C) # {}
    /\ Len(cards) + Cardinality(NewCards(t, C)) <= budget.cards
    /\ cards' = cards \o SetToSeq(NewCards(t, C))
    /\ UNCHANGED <<custodyVars, access, agentOff, standing, grants, deadline, expiry,
                   proxies, sealing, opening, cut, dropped>>

(* requestVaultApproval, createVaultApproval *)
RequestApproval(t, C) ==
    /\ Requester \in active
    /\ Asked(t, C) # {}
    /\ Len(cards) + Cardinality(NewCards(t, C)) <= budget.cards
    /\ cards' = cards \o SetToSeq(NewCards(t, C))
    /\ deadline' = Scheduled(deadline, CardTtl)
    /\ UNCHANGED <<custodyVars, access, agentOff, standing, grants, expiry,
                   proxies, sealing, opening, cut, dropped>>

(* Faulty variant: only that it is there and on. *)
StillThere(card, c) == Live(c) /\ ~vault[c].frozen

(* The credential is the one the approver read, and it is on. *)
StillAsRead(card, c) ==
    /\ Live(c) /\ ~vault[c].frozen
    /\ vault[c].version = card.version[c] /\ vault[c].policy = card.policy[c]

Allowed(answer) == {c \in DOMAIN answer : answer[c] # "denied"}

(* One grant for every item that is allowed, in the order of the items. *)
GrantsFor(m, card, answer) ==
    LET order == SetToSeq(Allowed(answer))
    IN  [n \in 1 .. Len(order) |->
            Grant(order[n], card.tuple, answer[order[n]] = "once" \/ GrantTtl = 0, m)]

Answered(m, card, answer) ==
    LET order == SetToSeq(Allowed(answer))
    IN  [card EXCEPT
            !.status = IF Allowed(answer) = {} THEN "denied" ELSE "allowed",
            !.by = m,
            !.items = [c \in DOMAIN @ |-> IF c \in Allowed(answer) THEN "allowed" ELSE "denied"],
            !.grant = [c \in DOMAIN @ |-> IF c \in Allowed(answer)
                          THEN Len(grants) + CHOOSE n \in 1 .. Len(order) : order[n] = c ELSE 0]]

(* decideVaultApproval: the first answer wins, it answers every item, and   *)
(* it is taken whole or, when an allowed credential changed, not at all.    *)
Decide(m, i, answer) ==
    /\ m \in active \cap cards[i].approvers
    /\ cards[i].status = "pending" /\ cards[i].left > 0
    /\ \A c \in Allowed(answer) : StillAsRead(cards[i], c)
    /\ Len(grants) + Cardinality(Allowed(answer)) <= budget.grants
    /\ grants' = grants \o GrantsFor(m, cards[i], answer)
    /\ cards' = [cards EXCEPT ![i] = Answered(m, cards[i], answer)]
    /\ UNCHANGED <<custodyVars, access, agentOff, standing, deadline, expiry,
                   proxies, sealing, opening, cut, dropped>>

(* expireVaultApprovals *)
Expired(cs, now) ==
    [i \in 1 .. Len(cs) |-> IF cs[i].status = "pending" /\ cs[i].left <= now
                            THEN Lapsed(cs[i]) ELSE cs[i]]

(* An answer that comes too late times out every card that is due.          *)
DecideLate(m, i) ==
    /\ m \in active \cap cards[i].approvers
    /\ cards[i].status = "pending" /\ cards[i].left <= 0
    /\ cards' = Expired(cards, 0)
    /\ deadline' = Armed(deadline, cards')
    /\ UNCHANGED <<custodyVars, access, agentOff, standing, grants, expiry,
                   proxies, sealing, opening, cut, dropped>>

(* runDueWork claims the row; items before it may wait.                     *)
BeginExpiry ==
    /\ expiry = None
    /\ deadline # None /\ deadline <= 0
    /\ expiry' = 0
    /\ UNCHANGED <<custodyVars, access, agentOff, standing, grants, cards, deadline,
                   proxies, sealing, opening, cut, dropped>>

(* The cards that were due when the run began time out, the row is armed    *)
(* for the next one, and runDueWork deletes the row it claimed.             *)
EndExpiry ==
    /\ expiry # None
    /\ cards' = Expired(cards, expiry)
    /\ deadline' = None
    /\ expiry' = None
    /\ dropped' = dropped \cup Pending(cards')
    /\ UNCHANGED <<custodyVars, access, agentOff, standing, grants,
                   proxies, sealing, opening, cut>>

-----------------------------------------------------------------------------
(* The request proxied through a release device. *)

(* requestVaultProxy, up to the seal: it asks, or goes on to seal under the *)
(* version it has read.                                                     *)
BeginProxy(k, c) ==
    /\ Requester \in active
    /\ proxies[k].state = "none"
    /\ Live(c) /\ Requester \in Custodians(c)
    /\ \/ /\ Decision(c, "device_proxy", 0) = "ask"
          /\ RequestApproval("device_proxy", {c})
       \/ /\ Decision(c, "device_proxy", 0) \in {"grant", "automatic"}
          /\ sealing' = sealing \cup
                {[key |-> k, cred |-> c, version |-> vault[c].version, policy |-> vault[c].policy]}
          /\ UNCHANGED <<custodyVars, access, agentOff, standing, grants, cards, deadline,
                         expiry, proxies, opening, cut, dropped>>

ProxyRow(s) == [state |-> "pending", cred |-> s.cred, version |-> s.version,
                policy |-> s.policy, access |-> access.epoch, left |-> ProxyTtl, frames |-> 0, uses |-> 0]

(* Faulty variant: the row of an earlier call with this key is overwritten. *)
SendProxyAgain(s) ==
    /\ s \in sealing
    /\ sealing' = sealing \ {s}
    /\ Live(s.cred)
    /\ proxies' = [proxies EXCEPT ![s.key] = [ProxyRow(s) EXCEPT !.frames = proxies[s.key].frames + 1]]
    /\ UNCHANGED <<custodyVars, access, agentOff, standing, grants, cards, deadline,
                   expiry, opening, cut, dropped>>

(* After the seal: the row, unless another call with this key has written   *)
(* it, and then the frame.                                                  *)
SendProxy(s) ==
    /\ s \in sealing
    /\ sealing' = sealing \ {s}
    /\ proxies[s.key].state = "none" /\ Live(s.cred)
    /\ proxies' = [proxies EXCEPT ![s.key] = [ProxyRow(s) EXCEPT !.frames = proxies[s.key].frames + 1]]
    /\ UNCHANGED <<custodyVars, access, agentOff, standing, grants, cards, deadline,
                   expiry, opening, cut, dropped>>

(* The device went away: the row is refused.                                *)
SendProxyUnheard(s) ==
    /\ s \in sealing
    /\ sealing' = sealing \ {s}
    /\ proxies[s.key].state = "none" /\ Live(s.cred)
    /\ proxies' = [proxies EXCEPT ![s.key] = [ProxyRow(s) EXCEPT !.state = "refused"]]
    /\ UNCHANGED <<custodyVars, access, agentOff, standing, grants, cards, deadline,
                   expiry, opening, cut, dropped>>

(* The key was used meanwhile or the credential is gone: the call throws.   *)
SendProxyRefused(s) ==
    /\ s \in sealing
    /\ proxies[s.key].state # "none" \/ ~Live(s.cred)
    /\ sealing' = sealing \ {s}
    /\ UNCHANGED <<custodyVars, access, agentOff, standing, grants, cards, deadline,
                   expiry, proxies, opening, cut, dropped>>

(* requestVaultProxy with a key that has a row: vaultProxyResult.           *)
RetryProxy(k) ==
    /\ Requester \in active
    /\ proxies[k].state # "none"
    /\ proxies' = [proxies EXCEPT ![k].state =
                      IF @ = "pending" /\ proxies[k].left = 0 THEN "uncertain" ELSE @]
    /\ UNCHANGED <<custodyVars, access, agentOff, standing, grants, cards, deadline,
                   expiry, sealing, opening, cut, dropped>>

(* completeVaultProxy, up to the opening: an answer past the deadline makes *)
(* the request uncertain.                                                   *)
BeginAnswer(k) ==
    /\ Requester \in active
    /\ proxies[k].state = "pending" /\ proxies[k].frames > 0
    /\ IF proxies[k].left = 0
       THEN /\ proxies' = [proxies EXCEPT ![k].state = "uncertain"]
            /\ UNCHANGED opening
       ELSE /\ opening' = opening \cup {[key |-> k, lag |-> 0]}
            /\ UNCHANGED proxies
    /\ UNCHANGED <<custodyVars, access, agentOff, standing, grants, cards, deadline,
                   expiry, sealing, cut, dropped>>

(* Its authority is what it was when the request was accepted.              *)
StillAuthorised(k, now) ==
    LET p == proxies[k]
    IN  /\ Decision(p.cred, "device_proxy", now) \in {"grant", "automatic"}
        /\ vault[p.cred].version = p.version /\ vault[p.cred].policy = p.policy
        /\ access.epoch = p.access

(* After the opening: one use is recorded and the request completed, or     *)
(* nothing is spent and it is refused, also for reasons left out here.      *)
FinishAnswer(a) ==
    /\ a \in opening
    /\ opening' = opening \ {a}
    /\ proxies[a.key].state = "pending"
    /\ \/ /\ StillAuthorised(a.key, -a.lag) /\ UsesBounded(proxies[a.key].cred, "device_proxy", -a.lag)
          /\ grants' = Consumed(proxies[a.key].cred, "device_proxy", -a.lag)
          /\ proxies' = [proxies EXCEPT ![a.key].state = "completed", ![a.key].uses = @ + 1]
       \/ /\ proxies' = [proxies EXCEPT ![a.key].state = "refused"]
          /\ UNCHANGED grants
    /\ UNCHANGED <<custodyVars, access, agentOff, standing, cards, deadline,
                   expiry, sealing, cut, dropped>>

(* Somebody else settled the request meanwhile: the answer throws.          *)
FinishAnswerLate(a) ==
    /\ a \in opening
    /\ proxies[a.key].state # "pending"
    /\ opening' = opening \ {a}
    /\ UNCHANGED <<custodyVars, access, agentOff, standing, grants, cards, deadline,
                   expiry, proxies, sealing, cut, dropped>>

(* The instance is lost, between the row and its frame too.                 *)
Crash ==
    /\ sealing # {} \/ opening # {} \/ expiry # None
    /\ \/ UNCHANGED proxies
       \/ \E s \in sealing :
             /\ proxies[s.key].state = "none" /\ Live(s.cred)
             /\ proxies' = [proxies EXCEPT ![s.key] = ProxyRow(s)]
    /\ sealing' = {} /\ opening' = {} /\ expiry' = None
    /\ UNCHANGED <<custodyVars, access, agentOff, standing, grants, cards, deadline,
                   cut, dropped>>

-----------------------------------------------------------------------------
Past == -1
Nearer(t) == IF t > Past THEN t - 1 ELSE t
Sooner(t) == IF t > 0 THEN t - 1 ELSE t

(* Time passes; the alarm does not leave a due row waiting for long.        *)
Tick ==
    /\ sealing = {} /\ \A a \in opening : a.lag = 0
    /\ deadline # None => deadline > Past
    /\ expiry # None => expiry > Past
    /\ deadline' = IF deadline = None THEN None ELSE Nearer(deadline)
    /\ expiry' = IF expiry = None THEN None ELSE Nearer(expiry)
    /\ cards' = [i \in Cards |-> IF cards[i].status = "pending"
                                 THEN [cards[i] EXCEPT !.left = Nearer(@)] ELSE cards[i]]
    /\ grants' = [g \in Grants |-> IF grants[g].once \/ grants[g].revoked THEN grants[g]
                                ELSE [grants[g] EXCEPT !.left = Nearer(@)]]
    /\ proxies' = [k \in Keys |-> [proxies[k] EXCEPT !.left = Sooner(@)]]
    /\ opening' = {[a EXCEPT !.lag = @ + 1] : a \in opening}
    /\ UNCHANGED <<custodyVars, access, agentOff, standing, sealing, cut, dropped>>

Init ==
    /\ CustodyInit
    /\ access = [on |-> TRUE, epoch |-> 1]
    /\ agentOff = FALSE
    /\ standing = TRUE
    /\ grants = <<>> /\ cards = <<>>
    /\ deadline = None /\ expiry = None
    /\ proxies = [k \in Keys |-> NoProxy]
    /\ sealing = {} /\ opening = {}
    /\ cut = {} /\ dropped = {}

CustodyStep ==
    \/ \E m \in Members : PublishKey(m) /\ UNCHANGED releaseVars
    \/ \E m \in Members : RotateMemberKey(m)
    \/ \E m \in Members, on \in BOOLEAN : ChangeMembership(m, on)
    \/ \E m, r \in Members, c \in Credentials :
          AddCredentialCustodian(m, c, r) \/ RemoveCredentialCustodian(m, c, r)
    \/ \E m \in Members, c \in Credentials : DeleteCredential(m, c)
    \/ \E m \in Members, c \in Credentials, S \in SUBSET Members, mode \in budget.modes :
          \E w \in Sealings(S) :
             \/ \E captured \in BOOLEAN : CreateCredential(m, c, S, w, mode, captured)
             \/ UpdateCredential(m, c, S, w, mode)

SwitchStep ==
    \/ \E c \in Credentials : Freeze(c) \/ Unfreeze(c)
    \/ \E b \in BOOLEAN : SwitchAgent(b) \/ SwitchAccess(b)
    \/ EndDelegation

GrantStep ==
    \/ \E m \in Members, c \in Credentials, t \in budget.tuples, once \in BOOLEAN : IssueGrant(m, c, t, once)
    \/ \E m \in Members, g \in Grants : RevokeGrant(m, g)
    \/ \E c \in Credentials, t \in budget.tuples \ {"device_proxy"} : Release(c, t)

CardStep ==
    \/ \E t \in budget.tuples, C \in SUBSET Credentials : RequestApproval(t, C)
    \/ \E m \in Members, i \in Cards :
          \/ DecideLate(m, i)
          \/ \E answer \in [DOMAIN cards[i].items -> {"denied", "once", "window"}] :
                Decide(m, i, answer)
    \/ BeginExpiry
    \/ EndExpiry

ProxyStep ==
    \/ \E k \in budget.keys, c \in budget.creds : BeginProxy(k, c)
    \/ \E s \in sealing : SendProxy(s) \/ SendProxyUnheard(s) \/ SendProxyRefused(s)
    \/ \E k \in Keys : \/ RetryProxy(k)
                       \/ BeginAnswer(k)
    \/ \E a \in opening : FinishAnswer(a) \/ FinishAnswerLate(a)

Next == CustodyStep \/ SwitchStep \/ GrantStep \/ CardStep \/ ProxyStep \/ Crash \/ Tick

Spec == Init /\ [][Next]_vars

-----------------------------------------------------------------------------
(* Properties. *)

(* Types, and that no row outlives the credential it refers to. *)
VaultTypeOK ==
    /\ standing \in BOOLEAN
    /\ access.epoch \in 1 .. budget.changes + 1
    /\ \A g \in Grants : grants[g].cred \in Credentials /\ grants[g].remaining \in 0 .. 1
    /\ \A i \in Cards : /\ cards[i].status \in CardStatuses
                        /\ \A c \in DOMAIN cards[i].items : Live(c)
                        /\ cards[i].left \in Past .. CardTtl
    /\ \A k \in Keys : /\ proxies[k].state \in ProxyStates
                       /\ proxies[k].state # "none" => Live(proxies[k].cred)
    /\ \A a \in opening : a.key \in Keys /\ a.lag \in 0 .. 1
    /\ cut \subseteq Grants /\ dropped \subseteq Cards

(* A grant that stands was given for the credential as it is now, by a      *)
(* member who can still open it: every change to the value, the policy, the *)
(* custodians, their keys or the workspace switch takes with it the grants  *)
(* given before (vault-authorization-contract.md, revocation).              *)
GrantsAreCurrent ==
    /\ VaultTypeOK
    /\ \A g \in Grants : ~grants[g].revoked =>
          LET c == grants[g].cred
          IN  /\ Live(c)
              /\ grants[g].version = vault[c].version
              /\ grants[g].policy = vault[c].policy
              /\ grants[g].access = access.epoch
              /\ grants[g].by \in vault[c].managers

(* The first answer is the only one: each credential it allowed has a grant *)
(* of its own, given by that approver for the version on the card; a card   *)
(* that waits has given nothing, and one that timed out denied everything.  *)
(* The first answer, or the expiry, stands whoever comes later.  And no     *)
(* card waits for what a switch has stopped: its answer would hand out      *)
(* exactly what the switch was thrown to stop (setVaultAgentAccess); a      *)
(* grant that existed when its switch was thrown is never used again,       *)
(* whichever way the switch is turned afterwards.  Every card that waits    *)
(* has a deadline the alarm will serve, except those an earlier run left    *)
(* behind: such a run deletes the row it has just armed for them.           *)
AnswersStand ==
    /\ [](\A i \in Cards :
              LET card == cards[i]
                  items == DOMAIN card.items
              IN  /\ card.status = "pending" =>
                        /\ access.on /\ ~agentOff
                        /\ \A c \in items : card.items[c] = None /\ ~vault[c].frozen
                  /\ card.status \in {"denied", "expired"} => \A c \in items : card.items[c] = "denied"
                  /\ card.status \in {"allowed", "denied"} => card.by \in card.approvers
                  /\ \A c \in items : card.items[c] = "allowed" =>
                        LET g == card.grant[c]
                        IN  /\ grants[g].cred = c /\ grants[g].tuple = card.tuple
                            /\ grants[g].by = card.by
                            /\ grants[g].version = card.version[c]
                            /\ \A j \in Cards, o \in Credentials :
                                  o \in DOMAIN cards[j].items /\ <<j, o>> # <<i, c>>
                                    => cards[j].grant[o] # g)
    /\ [](\A i \in Pending(cards) \ dropped :
              deadline # None /\ (deadline <= cards[i].left \/ deadline <= 0))
    /\ [][/\ \A i \in Cards : cards[i].status # "pending" =>
                cards'[i].status = cards[i].status /\ cards'[i].by = cards[i].by
          /\ \A g \in cut : grants'[g].uses = grants[g].uses]_vars

(* One "Allow once" is one use, whether it is spent by a release or by the  *)
(* late answer of a proxied request; one frame at most goes out for an      *)
(* idempotency key and a credential, and a use is recorded for it exactly   *)
(* when the request is completed.                                           *)
(* Besides, what the requester was told of a proxied request it is never    *)
(* told otherwise: not completed after uncertain, not uncertain after       *)
(* refused; and the row that knows stays as long as its credential.         *)
UsedOnce ==
    /\ [](/\ \A g \in Grants : grants[g].once => grants[g].uses <= 1
          /\ \A k \in Keys : /\ proxies[k].frames <= 1
                             /\ proxies[k].uses = IF proxies[k].state = "completed" THEN 1 ELSE 0)
    /\ [][\A k \in Keys : proxies[k].state # "none" =>
             \/ proxies[k].state \in {"pending", proxies'[k].state} /\ proxies'[k].state # "none"
             \/ proxies'[k].state = "none" /\ vault'[proxies[k].cred].state = "deleted"]_vars
=============================================================================
