------------------------------ MODULE Accounts ------------------------------
(* One person's account in the control plane: browser sessions and devices  *)
(* with the epoch that ends them all (src/control/authorization.ts),        *)
(* one-time challenges and passkey gestures (src/control/onboarding.ts),    *)
(* and the vault recovery package with its device packages                  *)
(* (src/control/vault-recovery.ts).  Every statement is an await of its own *)
(* and a step of its own, so a call acts on what it read before; only a     *)
(* batch is one step.  A call that is refused, or finds that there is       *)
(* nothing left to do, ends like one that is cut off.                       *)
EXTENDS Membership

CONSTANTS Holder,        \* whose account it is
          Sessions, Devices, Challenges, Nonces, Digests, AccountCalls, MaxEpoch

ASSUME AccountsAssumption == Holder \in People /\ MaxEpoch \in Nat \ {0}

VARIABLES
    account,       \* security_epoch, and the passkey's sign count
    sessions,      \* sessions
    devices,       \* devices
    challenges,    \* auth_challenges
    recovery,      \* account_vault_recovery: its vault epoch, 0 before there is one
    packages,      \* vault_device_packages
    accountCalls,  \* what the calls in flight have read
    nonces,        \* device_request_nonces
    spent,         \* history: how often each challenge and nonce was accepted
    approved,      \* history: the decisions each challenge authorised
    removed        \* history: the vault epoch a device was removed for

accountVars == <<account, sessions, devices, challenges, recovery, packages,
                 accountCalls, nonces, spent, approved, removed>>
histories == <<spent, approved, removed>>

NoSession == [state |-> "none", epoch |-> 0, early |-> FALSE]
NoDevice == [state |-> "none", epoch |-> 0, key |-> 0, early |-> FALSE]
NewDevice(epoch, early) == [state |-> "active", epoch |-> epoch, key |-> 1, early |-> early]
NoChallenge == [state |-> "none", kind |-> None, digest |-> None]
NoAccountCall == [pc |-> "idle", epoch |-> 0, early |-> FALSE, device |-> None,
                  nonce |-> None, challenge |-> None, digest |-> None, count |-> 0,
                  ahead |-> FALSE]

Idle(k) == accountCalls[k] = NoAccountCall
Calling(k, record) == accountCalls' = [accountCalls EXCEPT ![k] = record]
Return(k) == Calling(k, NoAccountCall)

(* What authenticateBrowserSession and authorizeSignedDeviceRequest accept. *)
Authentic(s) == sessions[s].state = "open" /\ sessions[s].epoch = account.epoch
Trusted(d) == devices[d].state = "active" /\ devices[d].epoch = account.epoch
ActiveDevice(d) == devices[d].state = "active"

-----------------------------------------------------------------------------
(* Sessions and devices.  issueBrowserSession and registerDevice read the   *)
(* account's epoch and hash the token before they insert.                   *)
BeginIssue(k, what) ==
    /\ Idle(k)
    /\ Calling(k, [NoAccountCall EXCEPT !.pc = what, !.epoch = account.epoch])
    /\ UNCHANGED <<account, sessions, devices, challenges, recovery, packages, nonces, histories>>

(* Faulty variant: the row gets the epoch the account has by then. *)
IssueSessionCurrent(k, s) ==
    /\ accountCalls[k].pc = "session" /\ sessions[s].state = "none"
    /\ sessions' = [sessions EXCEPT ![s] =
          [state |-> "open", epoch |-> account.epoch, early |-> accountCalls[k].early]]
    /\ Return(k)
    /\ UNCHANGED <<account, devices, challenges, recovery, packages, nonces, histories>>

IssueSession(k, s) ==
    /\ accountCalls[k].pc = "session" /\ sessions[s].state = "none"
    /\ sessions' = [sessions EXCEPT ![s] =
          [state |-> "open", epoch |-> accountCalls[k].epoch, early |-> accountCalls[k].early]]
    /\ Return(k)
    /\ UNCHANGED <<account, devices, challenges, recovery, packages, nonces, histories>>

RegisterDevice(k, d) ==
    /\ accountCalls[k].pc = "device" /\ devices[d].state = "none"
    /\ devices' = [devices EXCEPT ![d] =
          NewDevice(accountCalls[k].epoch, accountCalls[k].early)]
    /\ Return(k)
    /\ UNCHANGED <<account, sessions, challenges, recovery, packages, nonces, histories>>

(* revokeBrowserSession *)
RevokeSession(s) ==
    /\ sessions[s].state = "open"
    /\ sessions' = [sessions EXCEPT ![s].state = "revoked"]
    /\ UNCHANGED <<account, devices, challenges, recovery, packages, accountCalls, nonces, histories>>

(* revokeAllBrowserSessions: one batch.  What was there, and what was being *)
(* issued, is marked as early.                                              *)
RevokeAll ==
    /\ account.epoch < MaxEpoch
    /\ account' = [account EXCEPT !.epoch = @ + 1]
    /\ sessions' = [s \in Sessions |->
          IF sessions[s].state = "open" THEN [sessions[s] EXCEPT !.state = "revoked", !.early = TRUE]
                                        ELSE sessions[s]]
    /\ devices' = [d \in Devices |-> [devices[d] EXCEPT !.early = @ \/ devices[d].state = "active"]]
    /\ accountCalls' = [k \in AccountCalls |->
          [accountCalls[k] EXCEPT !.early = @ \/ accountCalls[k].pc \in {"session", "device"}]]
    /\ UNCHANGED <<challenges, recovery, packages, nonces, histories>>

(* revokeDevice *)
RevokeDevice(d) ==
    /\ ActiveDevice(d)
    /\ devices' = [devices EXCEPT ![d].state = "revoked", ![d].key = @ + 1]
    /\ UNCHANGED <<account, sessions, challenges, recovery, packages, accountCalls, nonces, histories>>

-----------------------------------------------------------------------------
(* authorizeSignedDeviceRequest: the device, then the membership, then the  *)
(* object, and at last the nonce, which the table takes once.  The epoch is *)
(* the one the client claims, and a claim other than the row's is refused.  *)
BeginRequest(k, d, n) ==
    /\ Idle(k) /\ Trusted(d)
    /\ Calling(k, [NoAccountCall EXCEPT !.pc = "verified", !.device = d, !.nonce = n])
    /\ UNCHANGED <<account, sessions, devices, challenges, recovery, packages, nonces, histories>>

AskControl(k) ==
    /\ accountCalls[k].pc = "verified"
    /\ IF rows[Holder].status = "active"
       THEN Calling(k, [accountCalls[k] EXCEPT !.pc = "member", !.epoch = rows[Holder].epoch])
       ELSE Return(k)
    /\ UNCHANGED <<account, sessions, devices, challenges, recovery, packages, nonces, histories>>

AskObject(k) ==
    /\ accountCalls[k].pc = "member"
    /\ IF local[Holder].status = "active" /\ local[Holder].epoch = accountCalls[k].epoch
       THEN Calling(k, [accountCalls[k] EXCEPT !.pc = "admitted"])
       ELSE Return(k)
    /\ UNCHANGED <<account, sessions, devices, challenges, recovery, packages, nonces, histories>>

AcceptRequest(k) ==
    LET used == <<accountCalls[k].device, accountCalls[k].nonce>>
    IN  /\ accountCalls[k].pc = "admitted"
        /\ used \notin nonces
        /\ nonces' = nonces \cup {used}
        /\ spent' = [spent EXCEPT !.nonces[used] = @ + 1]
        /\ Return(k)
        /\ UNCHANGED <<account, sessions, devices, challenges, recovery, packages, approved, removed>>

RefuseRequest(k) ==
    /\ accountCalls[k].pc = "admitted"
    /\ <<accountCalls[k].device, accountCalls[k].nonce>> \in nonces
    /\ Return(k)
    /\ UNCHANGED <<account, sessions, devices, challenges, recovery, packages, nonces, histories>>

-----------------------------------------------------------------------------
(* Challenges. *)

(* issueEmailChallenge, beginPasskeyRegistration, beginPasskeyAuthentication *)
(* and beginVaultApprovalAssertion, whose challenge names a decision.       *)
IssueChallenge(c, kind, digest) ==
    /\ challenges[c].state = "none"
    /\ digest # None => kind = "passkey"
    /\ challenges' = [challenges EXCEPT ![c] = [state |-> "live", kind |-> kind, digest |-> digest]]
    /\ UNCHANGED <<account, sessions, devices, recovery, packages, accountCalls, nonces, histories>>

LapseChallenge(c) ==
    /\ challenges[c].state = "live"
    /\ challenges' = [challenges EXCEPT ![c].state = "lapsed"]
    /\ UNCHANGED <<account, sessions, devices, recovery, packages, accountCalls, nonces, histories>>

(* consumeChallenge, consumePasskeyChallenge: one update that returns what  *)
(* it consumed.                                                             *)
Consume(c, kind) ==
    /\ challenges[c].state = "live" /\ challenges[c].kind = kind
    /\ challenges' = [challenges EXCEPT ![c].state = "consumed"]
    /\ spent' = [spent EXCEPT !.challenges[c] = @ + 1]

(* authenticateEmailLink, registerPassword, finishPasskeyRegistration *)
UseChallenge(c, kind) ==
    /\ kind \in {"email", "registration"}
    /\ Consume(c, kind)
    /\ UNCHANGED <<account, sessions, devices, recovery, packages, accountCalls, nonces,
                   approved, removed>>

(* finishPasskeyAuthentication, verifyVaultApprovalAssertion: the challenge *)
(* is consumed first, and a decision it was not made for is refused.        *)
BeginAssertion(k, c, digest) ==
    /\ Idle(k)
    /\ Consume(c, "passkey")
    /\ IF digest \in {None, challenges[c].digest}
       THEN Calling(k, [NoAccountCall EXCEPT !.pc = "consumed", !.challenge = c, !.digest = digest])
       ELSE UNCHANGED accountCalls
    /\ UNCHANGED <<account, sessions, devices, recovery, packages, nonces, approved, removed>>

(* The sign count the assertion carries must not be below the one read.     *)
LoadPasskey(k, count) ==
    /\ accountCalls[k].pc = "consumed" /\ count >= account.count
    /\ Calling(k, [accountCalls[k] EXCEPT !.pc = "asserting", !.count = count])
    /\ UNCHANGED <<account, sessions, devices, challenges, recovery, packages, nonces, histories>>

(* After the verification the count is stored as it came. *)
FinishAssertion(k) ==
    LET call == accountCalls[k]
    IN  /\ call.pc = "asserting"
        /\ account' = [account EXCEPT !.count = call.count]
        /\ approved' = IF call.digest = None THEN approved
                       ELSE [approved EXCEPT ![call.challenge] = @ \cup {call.digest}]
        /\ Return(k)
        /\ UNCHANGED <<sessions, devices, challenges, recovery, packages, nonces, spent, removed>>

-----------------------------------------------------------------------------
(* The recovery package. *)

(* initialize (of epoch 0) and rotate, up to the check of the device.  The  *)
(* epoch is the one the client expects.                                     *)
BeginRotate(k, d, epoch) ==
    /\ Idle(k) /\ ActiveDevice(d)
    /\ Calling(k, [NoAccountCall EXCEPT !.pc = "rotating", !.epoch = epoch])
    /\ UNCHANGED <<account, sessions, devices, challenges, recovery, packages, nonces, histories>>

(* One update that compares the epoch (a first package: the primary key).   *)
Rotate(k) ==
    /\ accountCalls[k].pc = "rotating"
    /\ recovery = accountCalls[k].epoch /\ recovery < MaxEpoch
    /\ recovery' = accountCalls[k].epoch + 1
    /\ spent' = [spent EXCEPT !.epochs[accountCalls[k].epoch] = @ + 1]
    /\ IF accountCalls[k].epoch = 0 THEN Return(k)
       ELSE Calling(k, [accountCalls[k] EXCEPT !.pc = "cleaning"])
    /\ UNCHANGED <<account, sessions, devices, challenges, packages, nonces, approved, removed>>

(* The device packages of earlier epochs go in a statement of their own. *)
CleanPackages(k) ==
    /\ accountCalls[k].pc = "cleaning"
    /\ packages' = {p \in packages : p.epoch > accountCalls[k].epoch}
    /\ Return(k)
    /\ UNCHANGED <<account, sessions, devices, challenges, recovery, nonces, histories>>

(* read, awaited by three operations.  storeDevicePackage compares the      *)
(* epoch its body names, the others go on with the epoch they find.         *)
ReadRecovery(k) ==
    LET call == accountCalls[k]
    IN  /\ recovery > 0
        /\ \/ /\ call.pc = "targeted" /\ call.epoch = recovery
              /\ Calling(k, [call EXCEPT !.pc = "validated"])
           \/ /\ call.pc = "claimed"
              /\ Calling(k, [call EXCEPT !.pc = "looking", !.epoch = recovery])
           \/ /\ call.pc = "acting"
              /\ Calling(k, [call EXCEPT !.pc = "expecting", !.epoch = recovery])
        /\ UNCHANGED <<account, sessions, devices, challenges, recovery, packages, nonces, histories>>

(* storeDevicePackage: the device that approves, the device it is for, the  *)
(* recovery epoch, an earlier package, the insert.  The body names device,  *)
(* epoch and key, and `ahead` keeps that it named an epoch to come.         *)
BeginStore(k, by, d, epoch) ==
    /\ Idle(k) /\ ActiveDevice(by)
    /\ Calling(k, [NoAccountCall EXCEPT !.pc = "approved", !.device = d, !.epoch = epoch,
                                        !.ahead = epoch > recovery])
    /\ UNCHANGED <<account, sessions, devices, challenges, recovery, packages, nonces, histories>>

(* Faulty variant: a device is looked up whatever its status. *)
ReadTargetUnchecked(k) ==
    LET call == accountCalls[k]
    IN  /\ call.pc = "approved" /\ devices[call.device].state # "none"
        /\ Calling(k, [call EXCEPT !.pc = "targeted", !.count = devices[call.device].key])
        /\ UNCHANGED <<account, sessions, devices, challenges, recovery, packages, nonces, histories>>

(* The key the body names is compared with the one read here. *)
ReadTarget(k) ==
    LET call == accountCalls[k]
    IN  /\ call.pc = "approved" /\ ActiveDevice(call.device)
        /\ Calling(k, [call EXCEPT !.pc = "targeted", !.count = devices[call.device].key])
        /\ UNCHANGED <<account, sessions, devices, challenges, recovery, packages, nonces, histories>>

FindNoPackage(k) ==
    LET call == accountCalls[k]
    IN  /\ call.pc = "validated"
        /\ \A p \in packages : ~(p.device = call.device /\ p.epoch = call.epoch)
        /\ Calling(k, [call EXCEPT !.pc = "storing"])
        /\ UNCHANGED <<account, sessions, devices, challenges, recovery, packages, nonces, histories>>

Store(k) ==
    LET call == accountCalls[k]
    IN  /\ call.pc = "storing"
        /\ \A p \in packages : ~(p.device = call.device /\ p.epoch = call.epoch)
        /\ packages' = packages \cup {[device |-> call.device, epoch |-> call.epoch,
                                       key |-> call.count, consumed |-> FALSE, ahead |-> call.ahead]}
        /\ Return(k)
        /\ UNCHANGED <<account, sessions, devices, challenges, recovery, nonces, histories>>

(* consumeDevicePackage: the device with the key it names, the recovery     *)
(* epoch, the package, and its mark.                                        *)
BeginConsumePackage(k, d) ==
    /\ Idle(k) /\ ActiveDevice(d)
    /\ Calling(k, [NoAccountCall EXCEPT !.pc = "claimed", !.device = d, !.count = devices[d].key])
    /\ UNCHANGED <<account, sessions, devices, challenges, recovery, packages, nonces, histories>>

FindPackage(k) ==
    LET call == accountCalls[k]
    IN  /\ call.pc = "looking"
        /\ \E p \in packages : /\ p.device = call.device /\ p.epoch = call.epoch
                               /\ p.key = call.count /\ ~p.consumed
        /\ Calling(k, [call EXCEPT !.pc = "consuming"])
        /\ UNCHANGED <<account, sessions, devices, challenges, recovery, packages, nonces, histories>>

ConsumePackage(k) ==
    LET mine == {p \in packages : p.device = accountCalls[k].device /\ p.epoch = accountCalls[k].epoch}
    IN  /\ accountCalls[k].pc = "consuming"
        /\ packages' = (packages \ mine) \cup {[p EXCEPT !.consumed = TRUE] : p \in mine}
        /\ Return(k)
        /\ UNCHANGED <<account, sessions, devices, challenges, recovery, nonces, histories>>

(* removeDeviceAfterRekey: the device that acts, the recovery epoch (which  *)
(* must be the one the client expects), and the device to be removed.       *)
BeginRemove(k, by, d) ==
    /\ Idle(k) /\ by # d /\ ActiveDevice(by)
    /\ Calling(k, [NoAccountCall EXCEPT !.pc = "acting", !.device = d])
    /\ UNCHANGED <<account, sessions, devices, challenges, recovery, packages, nonces, histories>>

ReadRemoved(k) ==
    LET call == accountCalls[k]
    IN  /\ call.pc = "expecting" /\ ActiveDevice(call.device)
        /\ Calling(k, [call EXCEPT !.pc = "removing"])
        /\ UNCHANGED <<account, sessions, devices, challenges, recovery, packages, nonces, histories>>

(* Its batch takes effect statement by statement: the device is revoked and *)
(* the packages go also when the epoch has moved and the call is refused.   *)
Remove(k) ==
    LET d == accountCalls[k].device
        moved == recovery # accountCalls[k].epoch
    IN  /\ accountCalls[k].pc = "removing" /\ recovery < MaxEpoch
        /\ recovery' = IF moved THEN recovery ELSE recovery + 1
        /\ devices' = IF ActiveDevice(d) THEN [devices EXCEPT ![d].state = "revoked", ![d].key = @ + 1]
                      ELSE devices
        /\ packages' = {}
        /\ removed' = IF ~moved /\ ActiveDevice(d) THEN [removed EXCEPT ![d] = recovery + 1] ELSE removed
        /\ spent' = IF moved THEN spent ELSE [spent EXCEPT !.epochs[recovery] = @ + 1]
        /\ Return(k)
        /\ UNCHANGED <<account, sessions, challenges, nonces, approved>>

(* A call fails or is cut off where it waits. *)
DropCall(k) ==
    /\ ~Idle(k)
    /\ Return(k)
    /\ UNCHANGED <<account, sessions, devices, challenges, recovery, packages, nonces, histories>>

AccountsInit ==
    /\ account = [epoch |-> 1, count |-> 0]
    /\ sessions = [s \in Sessions |-> NoSession]
    /\ devices = [d \in Devices |-> IF "sessions" \in budget.exercise THEN NoDevice
                                    ELSE NewDevice(1, FALSE)]
    /\ challenges = [c \in Challenges |-> NoChallenge]
    /\ recovery = 0 /\ packages = {}
    /\ accountCalls = [k \in AccountCalls |-> NoAccountCall]
    /\ nonces = {}
    /\ spent = [challenges |-> [c \in Challenges |-> 0],
                nonces |-> [n \in Devices \X Nonces |-> 0],
                epochs |-> [e \in 0 .. MaxEpoch |-> 0]]
    /\ approved = [c \in Challenges |-> {}]
    /\ removed = [d \in Devices |-> 0]

(* Where packages are fetched too, the epoch moves by removals alone. *)
Expected == IF "fetches" \in budget.exercise THEN {0} ELSE 0 .. MaxEpoch - 1

SessionStep ==
    \/ \E k \in AccountCalls : \/ \E what \in {"session", "device"} : BeginIssue(k, what)
                               \/ \E s \in Sessions : IssueSession(k, s)
                               \/ \E d \in Devices : RegisterDevice(k, d)
    \/ \E s \in Sessions : RevokeSession(s)
    \/ RevokeAll

RequestStep ==
    \E k \in AccountCalls :
        \/ \E d \in Devices, n \in Nonces : BeginRequest(k, d, n)
        \/ AskControl(k) \/ AskObject(k) \/ AcceptRequest(k) \/ RefuseRequest(k)

ChallengeStep ==
    \/ \E c \in Challenges : \/ \E kind \in {"email", "registration", "passkey"}, digest \in Digests \cup {None} :
                                   IssueChallenge(c, kind, digest)
                             \/ LapseChallenge(c)
                             \/ \E kind \in {"email", "registration"} : UseChallenge(c, kind)
                             \/ \E k \in AccountCalls, digest \in Digests \cup {None} :
                                   BeginAssertion(k, c, digest)
    \/ \E k \in AccountCalls : (\E count \in 0 .. 1 : LoadPasskey(k, count)) \/ FinishAssertion(k)

RecoveryStep ==
    \E k \in AccountCalls :
        \/ \E d \in Devices, epoch \in Expected : BeginRotate(k, d, epoch)
        \/ \E by, d \in Devices : BeginRemove(k, by, d) \/ (\E e \in 1 .. MaxEpoch : BeginStore(k, by, d, e))
        \/ ReadRecovery(k) \/ ReadTarget(k) \/ FindNoPackage(k) \/ ReadRemoved(k)
        \/ Rotate(k) \/ CleanPackages(k) \/ Store(k) \/ Remove(k)

FetchStep ==
    \E k \in AccountCalls :
        (\E d \in Devices : BeginConsumePackage(k, d)) \/ FindPackage(k) \/ ConsumePackage(k)

-----------------------------------------------------------------------------
(* Properties. *)

AccountsTypeOK ==
    /\ account.epoch \in 1 .. MaxEpoch /\ account.count \in 0 .. 1
    /\ \A s \in Sessions : sessions[s].state \in {"none", "open", "revoked"}
    /\ \A d \in Devices : devices[d].state \in {"none", "active", "revoked"}
    /\ recovery \in 0 .. MaxEpoch
    /\ \A p \in packages : p.device \in Devices /\ p.epoch \in 1 .. recovery

(* After "sign out everywhere" no session or device of before gets in, also *)
(* one that was being issued meanwhile.  A gesture, a signed request and a  *)
(* recovery epoch are each used once, and a gesture for the decision it was *)
(* made for.  A removed device is given nothing of the epoch it was removed *)
(* for (vault-recovery.ts, at removeDeviceAfterRekey), unless the body that *)
(* stores it named that epoch ahead of its time: the removal may commit     *)
(* between the reads of the device and of the epoch.                        *)
AccountsHold ==
    /\ AccountsTypeOK
    /\ \A s \in Sessions : sessions[s].early => ~Authentic(s)
    /\ \A d \in Devices : devices[d].early => ~Trusted(d)
    /\ \A c \in Challenges : /\ spent.challenges[c] <= 1
                             /\ approved[c] \subseteq {challenges[c].digest} \ {None}
    /\ \A n \in DOMAIN spent.nonces : spent.nonces[n] <= 1
    /\ \A e \in DOMAIN spent.epochs : spent.epochs[e] <= 1
    /\ \A p \in packages : removed[p.device] > 0 /\ ~p.ahead => p.epoch < removed[p.device]
=============================================================================
