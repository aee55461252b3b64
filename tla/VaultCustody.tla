----------------------------- MODULE VaultCustody -----------------------------
(***************************************************************************)
(* Who can open a credential: the vault_credentials rows with their key    *)
(* wraps and their managing members, and the members' published wrapping   *)
(* keys (createVaultCredential to rotateVaultMemberKey in                  *)
(* src/cloudflare/workspace.ts).                                           *)
(*                                                                         *)
(* The value never reaches the server: a credential is its version, its    *)
(* policy epoch and, for every custodian, the epoch of the key its wrap    *)
(* was sealed to.  A client that seals a new version may have read a       *)
(* member's key before that member replaced it; only the operations on     *)
(* custodians check.  What these operations do to grants, cards and        *)
(* requests is in module Vault, which takes each of them whole.            *)
(***************************************************************************)
EXTENDS Naturals, FiniteSets, FiniteSetsExt, Functions

CONSTANTS
    Members,
    Admins,             \* members whose role is owner or admin
    Credentials,
    Budgets             \* bounds: what a behaviour has of each thing, see BudgetOf

ASSUME CustodyAssumption ==
    /\ Admins \subseteq Members
    /\ \A b \in Budgets : /\ b.creds \subseteq Credentials /\ b.changes \in Nat
                          /\ b.modes \subseteq {"never", "ask", "auto"}
                          /\ b.cards \in Nat /\ b.grants \in Nat /\ b.issued \in Nat

VARIABLES
    active,             \* members whose projected status is active
    keys,               \* vault_member_keys: key_epoch, 0 when none is published
    vault,              \* vault_credentials, wraps and manage entries by id
    budget,             \* bounds of this behaviour
    changes,            \* administrative changes so far
    stale               \* history: versions sealed by a client to a replaced key

custodyVars == <<active, keys, vault, budget, changes, stale>>

States == {"none", "live", "deleted"}
Nobody == [m \in Members |-> 0]
NoCredential == [state |-> "none", version |-> 0, policy |-> 0, frozen |-> FALSE,
                 mode |-> "never", wraps |-> Nobody, managers |-> {}]
Deleted == [NoCredential EXCEPT !.state = "deleted"]

Live(c) == vault[c].state = "live"
Custodians(c) == {m \in Members : vault[c].wraps[m] > 0}

(* Wraps for the members of S, each sealed to the key its client read: the  *)
(* current one or one replaced meanwhile.                                   *)
Sealings(S) ==
    {w \in [Members -> 0 .. Max(Range(keys))] :
        \A m \in Members : IF m \in S THEN w[m] \in 1 .. keys[m] ELSE w[m] = 0}

Replaced(w) == \E m \in Members : w[m] > 0 /\ w[m] < keys[m]
MarkStale(c, w) == IF Replaced(w) THEN stale \cup {c} ELSE stale \ {c}

Changing == changes < budget.changes /\ changes' = changes + 1 /\ UNCHANGED budget

-----------------------------------------------------------------------------

(* publishVaultMemberKey: only where no key is registered. *)
PublishKey(m) ==
    /\ Changing
    /\ m \in active
    /\ keys[m] = 0
    /\ keys' = [keys EXCEPT ![m] = 1]
    /\ UNCHANGED <<active, vault, stale>>

(* createVaultCredential: the creator is a custodian, an id is used once,   *)
(* and a credential captured from a command's output starts switched off.   *)
Create(m, c, S, w, mode, captured) ==
    /\ Changing
    /\ vault[c].state = "none" /\ c \in budget.creds
    /\ m \in S /\ S \subseteq active
    /\ w \in Sealings(S)
    /\ vault' = [vault EXCEPT ![c] =
          [state |-> "live", version |-> 1, policy |-> 1, frozen |-> captured,
           mode |-> mode, wraps |-> w, managers |-> S]]
    /\ stale' = MarkStale(c, w)
    /\ UNCHANGED <<active, keys>>

(* requireVaultManager *)
Manages(m, c) == Live(c) /\ m \in active /\ m \in vault[c].managers

(* updateVaultCredential: a new value, sealed by the client for the members *)
(* it chose.                                                                *)
Update(m, c, S, w, mode) ==
    /\ Changing
    /\ Manages(m, c)
    /\ S # {} /\ S \subseteq active
    /\ w \in Sealings(S)
    /\ vault' = [vault EXCEPT ![c].version = @ + 1, ![c].policy = @ + 1,
                              ![c].mode = mode, ![c].wraps = w, ![c].managers = S]
    /\ stale' = MarkStale(c, w)
    /\ UNCHANGED <<active, keys>>

(* addVaultCustodian: one more wrap, to the recipient's current key.        *)
AddCustodian(m, c, r) ==
    /\ Changing
    /\ Manages(m, c)
    /\ r \in active \ Custodians(c) /\ keys[r] > 0
    /\ vault' = [vault EXCEPT ![c].policy = @ + 1, ![c].wraps[r] = keys[r],
                              ![c].managers = @ \cup {r}]
    /\ UNCHANGED <<active, keys, stale>>

(* removeVaultCustodian: a new version, sealed to the current key of every  *)
(* remaining custodian; the last one stays.                                 *)
RemoveCustodian(m, c, r) ==
    /\ Changing
    /\ Manages(m, c)
    /\ r \in Custodians(c) /\ Custodians(c) # {r}
    /\ \A o \in Custodians(c) \ {r} : keys[o] > 0
    /\ vault' = [vault EXCEPT ![c].version = @ + 1, ![c].policy = @ + 1,
          ![c].wraps = [o \in Members |-> IF o \in Custodians(c) \ {r} THEN keys[o] ELSE 0],
          ![c].managers = @ \ {r}]
    /\ stale' = stale \ {c}
    /\ UNCHANGED <<active, keys>>

(* deleteVaultCredential: the row goes with its wraps and entries, and a    *)
(* tombstone keeps its id from being used again.                            *)
Delete(m, c) ==
    /\ Changing
    /\ Live(c)
    /\ m \in active /\ m \in Admins \cup vault[c].managers
    /\ vault' = [vault EXCEPT ![c] = Deleted]
    /\ stale' = stale \ {c}
    /\ UNCHANGED <<active, keys>>

(* The credentials a new key of m must be sealed into. *)
Held(m) == {c \in Credentials : Live(c) /\ m \in Custodians(c)}

(* Faulty variant: credentials that are switched off are left for later. *)
RotateKeyWhereOn(m) ==
    /\ Changing
    /\ m \in active
    /\ keys[m] > 0
    /\ keys' = [keys EXCEPT ![m] = @ + 1]
    /\ vault' = [c \in Credentials |->
          IF c \in Held(m) /\ ~vault[c].frozen
          THEN [vault[c] EXCEPT !.wraps[m] = keys[m] + 1, !.policy = @ + 1]
          ELSE vault[c]]
    /\ UNCHANGED <<active, stale>>

(* rotateVaultMemberKey: the key and every current wrap of that member are  *)
(* replaced together.                                                       *)
RotateKey(m) ==
    /\ Changing
    /\ m \in active
    /\ keys[m] > 0
    /\ keys' = [keys EXCEPT ![m] = @ + 1]
    /\ vault' = [c \in Credentials |->
          IF c \in Held(m)
          THEN [vault[c] EXCEPT !.wraps[m] = keys[m] + 1, !.policy = @ + 1]
          ELSE vault[c]]
    /\ UNCHANGED <<active, stale>>

(* setVaultCredentialFreeze, by anybody who may see the credential. *)
SetFrozen(c, off) ==
    /\ Changing
    /\ Live(c)
    /\ vault[c].frozen # off
    /\ vault' = [vault EXCEPT ![c].frozen = off]
    /\ UNCHANGED <<active, keys, stale>>

(* applyMembership: suspended or removed, or back again. *)
SetActive(m, on) ==
    /\ Changing
    /\ (m \in active) # on
    /\ active' = IF on THEN active \cup {m} ELSE active \ {m}
    /\ UNCHANGED <<keys, vault, stale>>

(* What a behaviour has: credentials and their policy modes, deliveries,    *)
(* administrative changes, cards, grants, those of them issued without a    *)
(* card, and idempotency keys.  A run takes several budgets, each large in  *)
(* what it is about.                                                        *)
BudgetOf(creds, modes, tuples, n, cardsMax, grantsMax, issuedMax, ks) ==
    [creds |-> creds, modes |-> modes, tuples |-> tuples, changes |-> n, cards |-> cardsMax,
     grants |-> grantsMax, issued |-> issuedMax, keys |-> ks]

(* Some credentials were created when the members published their keys.     *)
CustodyInit ==
    /\ active = Members
    /\ keys \in [Members -> {0, 1}]
    /\ budget \in Budgets
    /\ \E made \in SUBSET budget.creds, S \in SUBSET {m \in Members : keys[m] = 1}, mode \in budget.modes :
          /\ made # {} => S # {}
          /\ vault = [c \in Credentials |->
                IF c \in made
                THEN [state |-> "live", version |-> 1, policy |-> 1, frozen |-> FALSE,
                      mode |-> mode, wraps |-> [m \in Members |-> IF m \in S THEN 1 ELSE 0],
                      managers |-> S]
                ELSE NoCredential]
    /\ changes = 0
    /\ stale = {}

-----------------------------------------------------------------------------
(* Properties. *)

CustodyTypeOK ==
    /\ active \subseteq Members
    /\ keys \in [Members -> 0 .. budget.changes + 1]
    /\ \A c \in Credentials :
          /\ vault[c].state \in States
          /\ vault[c].version \in 0 .. budget.changes + 1
          /\ vault[c].policy \in 0 .. budget.changes + 1
          /\ vault[c].frozen \in BOOLEAN
          /\ vault[c].mode \in {"never", "ask", "auto"}
          /\ vault[c].wraps \in [Members -> 0 .. budget.changes + 1]
          /\ vault[c].managers \subseteq Members
    /\ budget \in Budgets /\ changes \in 0 .. budget.changes
    /\ stale \subseteq Credentials

(* The members who may manage a credential are those who can open it, and   *)
(* there is always one, whatever is sealed again, added, removed or rotated *)
(* (validateVaultAcl: "key wraps must exactly match managing custodians").  *)
ManagersAreCustodians ==
    \A c \in Credentials : Live(c) =>
        vault[c].managers = Custodians(c) /\ Custodians(c) # {}

(* Replacing a key strands nobody: every custodian of a live credential     *)
(* holds a wrap for the key that is published now, except where a client    *)
(* sealed the current version to a key replaced meanwhile.                  *)
CustodiansCanOpen ==
    \A c \in Credentials \ stale : Live(c) =>
        \A m \in Custodians(c) : vault[c].wraps[m] = keys[m]

(* Custody holds through every change of hands: both of the above, and the  *)
(* types.                                                                   *)
CustodyHolds == CustodyTypeOK /\ ManagersAreCustodians /\ CustodiansCanOpen
=============================================================================
