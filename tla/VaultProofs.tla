----------------------------- MODULE VaultProofs -----------------------------
(***************************************************************************)
(* Modules VaultCustody and Vault keep their promises for any members,     *)
(* credentials, grants, cards and proxied requests: whoever manages a      *)
(* credential can open it (CustodyHolds), a grant that stands was given    *)
(* for the credential as it is now (GrantsAreCurrent), an answer stands    *)
(* and gives what it allowed (AnswersStand), and is used once (UsedOnce).  *)
(*                                                                         *)
(* None of them is inductive.  A card that is answered hands out grants in *)
(* the name of the approvers it was sent to; that they still manage the    *)
(* credential follows from its policy epoch, which every change of         *)
(* managers raises (CardsOK).  A grant for one use is used once because    *)
(* its uses and what remains of it never exceed one (GrantsOK).  Every     *)
(* action has a lemma that it keeps VaultInvariant, and the lemmas share   *)
(* what revoking, cancelling, refusing and staying as it is do to a part.  *)
(***************************************************************************)
EXTENDS Vault, FiniteSetTheorems, SequenceTheorems, TLAPS

CredentialRows ==
    [state : States, version : Nat, policy : Nat, frozen : BOOLEAN,
     mode : {"never", "ask", "auto"}, wraps : [Members -> Nat], managers : SUBSET Members]

(* Epochs advance no faster than changes are made, and nothing is sealed to *)
(* a key that was never published.                                          *)
CustodyShape ==
    /\ active \subseteq Members
    /\ keys \in [Members -> Nat] /\ vault \in [Credentials -> CredentialRows]
    /\ budget \in Budgets /\ changes \in Nat /\ changes <= budget.changes
    /\ stale \subseteq Credentials
    /\ \A m \in Members : keys[m] <= changes + 1
    /\ \A c \in Credentials :
          /\ vault[c].version <= changes + 1 /\ vault[c].policy <= changes + 1
          /\ \A m \in Members : vault[c].wraps[m] <= keys[m]

CustodyInvariant == CustodyShape /\ ManagersAreCustodians /\ CustodiansCanOpen

-----------------------------------------------------------------------------
(* Custody. *)

LEMMA BudgetsBounded ==
    ASSUME CustodyInvariant
    PROVE  /\ budget.changes \in Nat /\ budget.creds \subseteq Credentials
           /\ budget.modes \subseteq {"never", "ask", "auto"}
BY CustodyAssumption DEF CustodyInvariant, CustodyShape

LEMMA CustodyImplies == CustodyInvariant => CustodyHolds
<1> SUFFICES ASSUME CustodyInvariant PROVE CustodyHolds
  OBVIOUS
<1> USE DEF CustodyInvariant, CustodyShape
<1>1. budget.changes \in Nat
  BY BudgetsBounded
<1>2. keys \in [Members -> 0 .. budget.changes + 1]
  BY <1>1
<1>3. ASSUME NEW c \in Credentials
      PROVE  /\ vault[c] \in CredentialRows
             /\ vault[c].version \in 0 .. budget.changes + 1
             /\ vault[c].policy \in 0 .. budget.changes + 1
             /\ vault[c].wraps \in [Members -> 0 .. budget.changes + 1]
  BY <1>1 DEF CredentialRows
<1>4. changes \in 0 .. budget.changes
  BY <1>1
<1>5. CustodyTypeOK
  BY <1>2, <1>3, <1>4 DEF CustodyTypeOK, CredentialRows
<1> QED BY <1>5 DEF CustodyHolds

(* What a client seals for S opens with the keys it read, and is marked     *)
(* when one of them was replaced.                                           *)
LEMMA SealingsFit ==
    ASSUME CustodyInvariant, NEW S \in SUBSET Members, NEW w \in Sealings(S), NEW c \in Credentials
    PROVE  /\ w \in [Members -> Nat]
           /\ {m \in Members : w[m] > 0} = S
           /\ \A m \in Members : w[m] <= keys[m]
           /\ MarkStale(c, w) \subseteq Credentials
           /\ c \notin MarkStale(c, w) => \A m \in S : w[m] = keys[m]
           /\ \A o \in Credentials \ {c} : o \in MarkStale(c, w) <=> o \in stale
<1>1. w \in [Members -> 0 .. Max(Range(keys))]
  BY DEF Sealings
<1>2. \A m \in Members : keys[m] \in Nat
  BY DEF CustodyInvariant, CustodyShape
<1>3. \A m \in Members : IF m \in S THEN w[m] \in 1 .. keys[m] ELSE w[m] = 0
  BY DEF Sealings
<1>4. \A m \in Members : w[m] \in Nat /\ w[m] <= keys[m] /\ (w[m] > 0 <=> m \in S)
  BY <1>2, <1>3
<1>5. w \in [Members -> Nat]
  BY <1>1, <1>4
<1>6. c \notin MarkStale(c, w) => ~Replaced(w)
  BY DEF MarkStale
<1>7. ~Replaced(w) => \A m \in S : w[m] = keys[m]
  BY <1>2, <1>4 DEF Replaced
<1>8. MarkStale(c, w) \subseteq Credentials /\ \A o \in Credentials \ {c} : o \in MarkStale(c, w) <=> o \in stale
  BY DEF MarkStale, CustodyInvariant, CustodyShape
<1> QED BY <1>4, <1>5, <1>6, <1>7, <1>8

(* A step that leaves the keys alone and writes one credential, sealed to   *)
(* keys that exist and managed by its custodians.                           *)
LEMMA OneWritten ==
    ASSUME CustodyInvariant, Changing, NEW c \in Credentials, NEW row \in CredentialRows,
           vault' = [vault EXCEPT ![c] = row],
           UNCHANGED <<active, keys>>, stale' \subseteq Credentials,
           \A o \in Credentials \ {c} : o \in stale' <=> o \in stale,
           row.version <= changes + 2, row.policy <= changes + 2,
           \A m \in Members : row.wraps[m] <= keys[m],
           row.state = "live" =>
              /\ row.managers = {m \in Members : row.wraps[m] > 0} /\ row.managers # {}
              /\ c \notin stale' => \A m \in row.managers : row.wraps[m] = keys[m]
    PROVE  CustodyInvariant'
<1> USE DEF CustodyInvariant
<1>1. vault' \in [Credentials -> CredentialRows] /\ vault'[c] = row
      /\ \A o \in Credentials \ {c} : vault'[o] = vault[o]
  BY DEF CustodyShape
<1>2. changes' = changes + 1 /\ changes' \in Nat /\ changes' <= budget'.changes /\ budget' \in Budgets
  BY BudgetsBounded DEF Changing, CustodyShape
<1>3. \A o \in Credentials : vault[o].version \in Nat /\ vault[o].policy \in Nat
                             /\ vault'[o].version \in Nat /\ vault'[o].policy \in Nat
  BY <1>1 DEF CustodyShape, CredentialRows
<1>4. \A m \in Members : keys[m] \in Nat /\ keys[m] <= changes + 1 /\ keys'[m] = keys[m]
  BY DEF CustodyShape
<1>5. \A m \in Members : keys'[m] <= changes' + 1
  BY <1>2, <1>4 DEF CustodyShape
<1>6. ASSUME NEW o \in Credentials
      PROVE  /\ vault'[o].version <= changes' + 1 /\ vault'[o].policy <= changes' + 1
             /\ \A m \in Members : vault'[o].wraps[m] <= keys'[m]
  <2>1. CASE o = c
    BY <1>1, <1>2, <1>4, <2>1 DEF CustodyShape
  <2>2. CASE o # c
    <3>1. vault[o].version <= changes + 1 /\ vault[o].policy <= changes + 1
          /\ \A m \in Members : vault[o].wraps[m] <= keys[m]
      BY DEF CustodyShape
    <3> QED BY <1>1, <1>2, <1>3, <1>4, <2>2, <3>1 DEF CustodyShape
  <2> QED BY <2>1, <2>2
<1>7. CustodyShape'
  BY <1>1, <1>2, <1>5, <1>6 DEF CustodyShape
<1>8. ASSUME NEW o \in Credentials, (Live(o))'
      PROVE  vault'[o].managers = Custodians(o)' /\ Custodians(o)' # {}
  <2>1. CASE o = c
    BY <1>1, <1>8, <2>1 DEF Live, Custodians
  <2>2. CASE o # c
    BY <1>1, <1>8, <2>2 DEF ManagersAreCustodians, Live, Custodians
  <2> QED BY <2>1, <2>2
<1>9. ASSUME NEW o \in Credentials, o \notin stale', (Live(o))', NEW m \in Custodians(o)'
      PROVE  vault'[o].wraps[m] = keys'[m]
  <2>1. CASE o = c
    BY <1>1, <1>4, <1>9, <2>1 DEF Live, Custodians
  <2>2. CASE o # c
    BY <1>1, <1>4, <1>9, <2>2 DEF CustodiansCanOpen, Live, Custodians
  <2> QED BY <2>1, <2>2
<1>10. ManagersAreCustodians'
  BY <1>8 DEF ManagersAreCustodians
<1>11. CustodiansCanOpen'
  BY <1>9 DEF CustodiansCanOpen
<1> QED BY <1>7, <1>10, <1>11

(* What a step does to the credentials that were there: those in C have a   *)
(* new policy epoch or are gone, the others are as they were but for the    *)
(* freeze.                                                                  *)
OnlyTouches(C) ==
    \A c \in Credentials : Live(c) =>
        IF c \in C
        THEN Live(c)' => vault'[c].policy > vault[c].policy
        ELSE /\ Live(c)'
             /\ vault'[c].version = vault[c].version
             /\ vault'[c].policy = vault[c].policy
             /\ vault'[c].managers = vault[c].managers

LEMMA OneTouched ==
    ASSUME CustodyInvariant, NEW c \in Credentials, NEW row \in CredentialRows,
           vault' = [vault EXCEPT ![c] = row], row.policy > vault[c].policy
    PROVE  OnlyTouches({c})
<1>1. vault'[c] = row /\ \A o \in Credentials \ {c} : vault'[o] = vault[o]
  BY DEF CustodyInvariant, CustodyShape
<1> QED BY <1>1 DEF OnlyTouches, Live

LEMMA PublishKeyKeeps ==
    ASSUME CustodyInvariant, NEW m \in Members, PublishKey(m)
    PROVE  CustodyInvariant' /\ OnlyTouches({})
<1> USE DEF CustodyInvariant
<1>1. changes' = changes + 1 /\ changes' \in Nat /\ changes' <= budget'.changes /\ budget' \in Budgets
  BY BudgetsBounded DEF PublishKey, Changing, CustodyShape
<1>2. /\ keys' \in [Members -> Nat] /\ keys'[m] = 1 /\ keys[m] = 0
      /\ \A o \in Members \ {m} : keys'[o] = keys[o]
      /\ vault' = vault /\ stale' = stale /\ active' = active
  BY DEF PublishKey, CustodyShape
<1>3. \A o \in Members : keys[o] \in Nat /\ keys[o] <= changes + 1 /\ changes \in Nat
  BY DEF CustodyShape
<1>4. \A o \in Members : keys'[o] <= changes' + 1 /\ keys[o] <= keys'[o]
  BY <1>1, <1>2, <1>3
<1>5. ASSUME NEW c \in Credentials
      PROVE  /\ vault[c] \in CredentialRows
             /\ vault'[c].version <= changes' + 1 /\ vault'[c].policy <= changes' + 1
             /\ \A o \in Members : vault'[c].wraps[o] <= keys'[o]
  <2>1. vault[c] \in CredentialRows /\ vault[c].version <= changes + 1 /\ vault[c].policy <= changes + 1
        /\ \A o \in Members : vault[c].wraps[o] <= keys[o]
    BY DEF CustodyShape
  <2> QED BY <1>1, <1>2, <1>3, <1>4, <2>1 DEF CredentialRows
<1>6. CustodyShape'
  BY <1>1, <1>2, <1>4, <1>5 DEF CustodyShape
<1>7. ASSUME NEW c \in Credentials, NEW o \in Members, vault[c].wraps[o] > 0
      PROVE  keys'[o] = keys[o]
  <2>1. vault[c].wraps[o] \in Nat /\ vault[c].wraps[o] <= keys[o]
    BY <1>5 DEF CredentialRows, CustodyShape
  <2> QED BY <1>2, <1>3, <1>7, <2>1
<1>8. ManagersAreCustodians'
  BY <1>2 DEF ManagersAreCustodians, Live, Custodians
<1>9. CustodiansCanOpen'
  BY <1>2, <1>7 DEF CustodiansCanOpen, Live, Custodians
<1>10. OnlyTouches({})
  BY <1>2 DEF OnlyTouches, Live
<1> QED BY <1>6, <1>8, <1>9, <1>10

LEMMA CreateKeeps ==
    ASSUME CustodyInvariant, NEW m \in Members, NEW c \in Credentials, NEW S \in SUBSET Members,
           NEW w \in Sealings(S), NEW mode \in budget.modes, NEW captured \in BOOLEAN,
           Create(m, c, S, w, mode, captured)
    PROVE  CustodyInvariant' /\ OnlyTouches({})
<1> DEFINE row == [state |-> "live", version |-> 1, policy |-> 1, frozen |-> captured,
                   mode |-> mode, wraps |-> w, managers |-> S]
<1>1. /\ w \in [Members -> Nat] /\ {o \in Members : w[o] > 0} = S
      /\ \A o \in Members : w[o] <= keys[o]
      /\ MarkStale(c, w) \subseteq Credentials
      /\ c \notin MarkStale(c, w) => \A o \in S : w[o] = keys[o]
      /\ \A o \in Credentials \ {c} : o \in MarkStale(c, w) <=> o \in stale
  BY SealingsFit
<1>2. row \in CredentialRows
  BY <1>1, BudgetsBounded DEF CredentialRows, States
<1>3. vault' = [vault EXCEPT ![c] = row] /\ stale' = MarkStale(c, w) /\ UNCHANGED <<active, keys>>
      /\ Changing /\ S # {} /\ ~Live(c)
  BY DEF Create, Live
<1>4. 1 <= changes + 2
  BY DEF CustodyInvariant, CustodyShape
<1>5. /\ row.version = 1 /\ row.policy = 1 /\ row.wraps = w /\ row.managers = S
  OBVIOUS
<1> HIDE DEF row
<1>6. CustodyInvariant'
  BY <1>1, <1>2, <1>3, <1>4, <1>5, OneWritten
<1>7. \A o \in Credentials \ {c} : vault'[o] = vault[o]
  BY <1>3 DEF CustodyInvariant, CustodyShape
<1>8. OnlyTouches({})
  BY <1>3, <1>7 DEF OnlyTouches, Live
<1> QED BY <1>6, <1>8

LEMMA UpdateKeeps ==
    ASSUME CustodyInvariant, NEW m \in Members, NEW c \in Credentials, NEW S \in SUBSET Members,
           NEW w \in Sealings(S), NEW mode \in budget.modes, Update(m, c, S, w, mode)
    PROVE  CustodyInvariant' /\ OnlyTouches({c})
<1> DEFINE row == [state |-> vault[c].state, version |-> vault[c].version + 1,
                   policy |-> vault[c].policy + 1, frozen |-> vault[c].frozen,
                   mode |-> mode, wraps |-> w, managers |-> S]
<1>1. /\ w \in [Members -> Nat] /\ {o \in Members : w[o] > 0} = S
      /\ \A o \in Members : w[o] <= keys[o]
      /\ MarkStale(c, w) \subseteq Credentials
      /\ c \notin MarkStale(c, w) => \A o \in S : w[o] = keys[o]
      /\ \A o \in Credentials \ {c} : o \in MarkStale(c, w) <=> o \in stale
  BY SealingsFit
<1>2. /\ vault[c] \in CredentialRows
      /\ vault[c].version \in Nat /\ vault[c].policy \in Nat
      /\ vault[c].version <= changes + 1 /\ vault[c].policy <= changes + 1
      /\ changes \in Nat
  BY DEF CustodyInvariant, CustodyShape, CredentialRows
<1>3. row \in CredentialRows
  BY <1>1, <1>2, BudgetsBounded DEF CredentialRows
<1>4. /\ row.version = vault[c].version + 1 /\ row.policy = vault[c].policy + 1
      /\ row.wraps = w /\ row.managers = S
  BY <1>2 DEF CredentialRows
<1>5. vault' = [vault EXCEPT ![c] = row]
  BY <1>2 DEF Update, CustodyInvariant, CustodyShape, CredentialRows
<1> HIDE DEF row
<1>6. row.version <= changes + 2 /\ row.policy <= changes + 2 /\ row.policy > vault[c].policy
  BY <1>2, <1>4
<1>7. stale' = MarkStale(c, w) /\ UNCHANGED <<active, keys>> /\ Changing /\ S # {}
  BY DEF Update
<1>8. CustodyInvariant'
  BY <1>1, <1>3, <1>4, <1>5, <1>6, <1>7, OneWritten
<1> QED BY <1>3, <1>5, <1>6, <1>8, OneTouched

LEMMA AddCustodianKeeps ==
    ASSUME CustodyInvariant, NEW m \in Members, NEW c \in Credentials, NEW r \in Members,
           AddCustodian(m, c, r)
    PROVE  CustodyInvariant' /\ OnlyTouches({c})
<1> DEFINE w == [vault[c].wraps EXCEPT ![r] = keys[r]]
           S == vault[c].managers \cup {r}
           row == [state |-> vault[c].state, version |-> vault[c].version,
                   policy |-> vault[c].policy + 1, frozen |-> vault[c].frozen,
                   mode |-> vault[c].mode, wraps |-> w, managers |-> S]
<1>1. /\ vault[c] \in CredentialRows /\ vault[c].policy \in Nat /\ vault[c].policy <= changes + 1
      /\ vault[c].version \in Nat /\ vault[c].version <= changes + 1
      /\ changes \in Nat /\ keys[r] \in Nat
  BY DEF CustodyInvariant, CustodyShape, CredentialRows
<1>2. /\ w \in [Members -> Nat] /\ w[r] = keys[r]
      /\ \A o \in Members \ {r} : w[o] = vault[c].wraps[o]
  BY <1>1 DEF CredentialRows
<1>3. S \in SUBSET Members
  BY <1>1 DEF CredentialRows
<1>4. vault' = [vault EXCEPT ![c] = row]
  <2>1. vault' = [vault EXCEPT ![c] = [vault[c] EXCEPT !.policy = vault[c].policy + 1,
                                          !.wraps = w, !.managers = S]]
    BY <1>1 DEF AddCustodian, CustodyInvariant, CustodyShape, CredentialRows
  <2>2. vault[c].policy + 1 \in Nat
    BY <1>1
  <2> HIDE DEF w, S
  <2> DEFINE p == vault[c].policy + 1
             v == [vault[c] EXCEPT !.policy = p, !.wraps = w, !.managers = S]
  <2>3. p \in Nat
    BY <2>2
  <2> HIDE DEF p
  <2>4. v.state = vault[c].state /\ v.version = vault[c].version /\ v.policy = p
    BY <1>1 DEF CredentialRows
  <2>5. v.frozen = vault[c].frozen /\ v.mode = vault[c].mode /\ v.wraps = w /\ v.managers = S
    BY <1>1 DEF CredentialRows
  <2>6. v \in CredentialRows
    BY <1>1, <1>2, <1>3, <2>3 DEF CredentialRows
  <2> HIDE DEF v
  <2>7. v = row
    BY <2>4, <2>5, <2>6 DEF CredentialRows, p
  <2> QED BY <2>1, <2>7 DEF v, p
<1>5. Live(c) /\ keys[r] > 0 /\ UNCHANGED <<active, keys, stale>> /\ Changing
  BY DEF AddCustodian, Manages
<1> HIDE DEF w, S
<1>6. row \in CredentialRows
  BY <1>1, <1>2, <1>3 DEF CredentialRows
<1>7. /\ row.version = vault[c].version /\ row.policy = vault[c].policy + 1
      /\ row.wraps = w /\ row.managers = S
  BY <1>1 DEF CredentialRows
<1> HIDE DEF row
<1>8. S = {o \in Members : w[o] > 0}
  BY <1>2, <1>3, <1>5 DEF S, CustodyInvariant, ManagersAreCustodians, Custodians
<1>9. S # {}
  BY DEF S
<1>10. c \notin stale' => \A o \in S : w[o] = keys[o]
  <2> SUFFICES ASSUME c \notin stale, NEW o \in S PROVE w[o] = keys[o]
    BY <1>5
  <2>1. CASE o = r
    BY <1>2, <2>1
  <2>2. CASE o # r
    <3>1. o \in Custodians(c)
      BY <1>5, <2>2 DEF S, CustodyInvariant, ManagersAreCustodians
    <3> QED BY <1>2, <1>3, <1>5, <2>2, <3>1 DEF CustodyInvariant, CustodiansCanOpen
  <2> QED BY <2>1, <2>2
<1>11. \A o \in Members : row.wraps[o] <= keys[o]
  BY <1>1, <1>2, <1>7 DEF CustodyInvariant, CustodyShape
<1>12. row.version <= changes + 2 /\ row.policy <= changes + 2 /\ row.policy > vault[c].policy
  BY <1>1, <1>7
<1>13. stale' \subseteq Credentials /\ \A o \in Credentials \ {c} : o \in stale' <=> o \in stale
  BY <1>5 DEF CustodyInvariant, CustodyShape
<1>14. CustodyInvariant'
  BY <1>4, <1>5, <1>6, <1>7, <1>8, <1>9, <1>10, <1>11, <1>12, <1>13, OneWritten
<1> QED BY <1>4, <1>6, <1>12, <1>14, OneTouched

LEMMA RemoveCustodianKeeps ==
    ASSUME CustodyInvariant, NEW m \in Members, NEW c \in Credentials, NEW r \in Members,
           RemoveCustodian(m, c, r)
    PROVE  CustodyInvariant' /\ OnlyTouches({c})
<1> DEFINE rest == Custodians(c) \ {r}
           w == [o \in Members |-> IF o \in rest THEN keys[o] ELSE 0]
           S == vault[c].managers \ {r}
           row == [state |-> vault[c].state, version |-> vault[c].version + 1,
                   policy |-> vault[c].policy + 1, frozen |-> vault[c].frozen,
                   mode |-> vault[c].mode, wraps |-> w, managers |-> S]
<1>1. /\ vault[c] \in CredentialRows /\ vault[c].policy \in Nat /\ vault[c].policy <= changes + 1
      /\ vault[c].version \in Nat /\ vault[c].version <= changes + 1
      /\ changes \in Nat /\ \A o \in Members : keys[o] \in Nat
  BY DEF CustodyInvariant, CustodyShape, CredentialRows
<1>2. /\ Live(c) /\ UNCHANGED <<active, keys>> /\ Changing /\ stale' = stale \ {c}
      /\ r \in Custodians(c) /\ Custodians(c) # {r} /\ \A o \in rest : keys[o] > 0
  BY DEF RemoveCustodian, Manages
<1>3. vault[c].managers = Custodians(c)
  BY <1>2 DEF CustodyInvariant, ManagersAreCustodians
<1>4. rest \subseteq Members /\ rest # {} /\ S = rest
  BY <1>2, <1>3 DEF Custodians
<1>5. w \in [Members -> Nat] /\ \A o \in Members : w[o] <= keys[o] /\ (w[o] > 0 <=> o \in rest)
  BY <1>1, <1>2
<1>6. row \in CredentialRows
  BY <1>1, <1>4, <1>5 DEF CredentialRows
<1>7. vault' = [vault EXCEPT ![c].version = @ + 1, ![c].policy = @ + 1, ![c].wraps = w, ![c].managers = S]
  BY DEF RemoveCustodian
<1>8. \A o \in rest : w[o] = keys[o]
  BY <1>4
<1> HIDE DEF rest, w, S
<1>14. vault' = [vault EXCEPT ![c] = row]
  BY <1>1, <1>7 DEF CustodyInvariant, CustodyShape, CredentialRows
<1>9. /\ row.version = vault[c].version + 1 /\ row.policy = vault[c].policy + 1
      /\ row.wraps = w /\ row.managers = S
  BY <1>1 DEF CredentialRows
<1> HIDE DEF row
<1>10. row.version <= changes + 2 /\ row.policy <= changes + 2 /\ row.policy > vault[c].policy
  BY <1>1, <1>9
<1>11. S = {o \in Members : w[o] > 0}
  BY <1>4, <1>5
<1>12. stale' \subseteq Credentials /\ \A o \in Credentials \ {c} : o \in stale' <=> o \in stale
  BY <1>2 DEF CustodyInvariant, CustodyShape
<1>13. CustodyInvariant'
  BY <1>2, <1>4, <1>5, <1>6, <1>8, <1>9, <1>10, <1>11, <1>12, <1>14, OneWritten
<1> QED BY <1>6, <1>10, <1>13, <1>14, OneTouched

LEMMA DeleteKeeps ==
    ASSUME CustodyInvariant, NEW m \in Members, NEW c \in Credentials, Delete(m, c)
    PROVE  CustodyInvariant' /\ OnlyTouches({c}) /\ ~Live(c)'
<1>1. Deleted \in CredentialRows /\ Deleted.state = "deleted" /\ Deleted.version = 0
      /\ Deleted.policy = 0 /\ \A m_1 \in Members : Deleted.wraps[m_1] = 0
  BY DEF Deleted, NoCredential, CredentialRows, States, Nobody
<1>2. /\ UNCHANGED <<active, keys>> /\ Changing /\ stale' = stale \ {c}
      /\ vault' = [vault EXCEPT ![c] = Deleted]
  BY DEF Delete
<1>3. \A o \in Members : keys[o] \in Nat /\ 0 <= keys[o]
  BY DEF CustodyInvariant, CustodyShape
<1>4. 0 <= changes + 2
  BY DEF CustodyInvariant, CustodyShape
<1>5. stale' \subseteq Credentials /\ \A o \in Credentials \ {c} : o \in stale' <=> o \in stale
  BY <1>2 DEF CustodyInvariant, CustodyShape
<1>6. CustodyInvariant'
  BY <1>1, <1>2, <1>3, <1>4, <1>5, OneWritten
<1>7. vault'[c] = Deleted /\ \A o \in Credentials \ {c} : vault'[o] = vault[o]
  BY <1>2 DEF CustodyInvariant, CustodyShape
<1>8. OnlyTouches({c}) /\ ~Live(c)'
  BY <1>1, <1>7 DEF OnlyTouches, Live
<1> QED BY <1>6, <1>8

LEMMA RotateKeyKeeps ==
    ASSUME CustodyInvariant, NEW m \in Members, RotateKey(m)
    PROVE  CustodyInvariant' /\ OnlyTouches(Held(m))
<1> USE DEF CustodyInvariant
<1>0. Changing /\ keys[m] > 0 /\ keys' = [keys EXCEPT ![m] = keys[m] + 1] /\ stale' = stale /\ active' = active
  BY Zenon DEF RotateKey
<1>1. changes' = changes + 1 /\ changes' \in Nat /\ changes' <= budget'.changes /\ budget' \in Budgets
  BY <1>0, BudgetsBounded DEF Changing, CustodyShape
<1>2. /\ keys' \in [Members -> Nat] /\ keys'[m] = keys[m] + 1 /\ keys[m] > 0
      /\ \A o \in Members \ {m} : keys'[o] = keys[o]
      /\ stale' = stale /\ active' = active
  BY <1>0 DEF CustodyShape
<1>3. \A o \in Members : keys[o] \in Nat /\ keys[o] <= changes + 1 /\ changes \in Nat
  BY DEF CustodyShape
<1>4. \A o \in Members : keys'[o] <= changes' + 1 /\ keys[o] <= keys'[o]
  BY <1>1, <1>2, <1>3
<1>5. ASSUME NEW c \in Credentials
      PROVE  /\ vault[c] \in CredentialRows /\ vault[c].version \in Nat /\ vault[c].policy \in Nat
             /\ vault[c].version <= changes + 1 /\ vault[c].policy <= changes + 1
             /\ \A o \in Members : vault[c].wraps[o] \in Nat /\ vault[c].wraps[o] <= keys[o]
  BY DEF CustodyShape, CredentialRows
<1>6. ASSUME NEW c \in Held(m)
      PROVE  /\ c \in Credentials /\ Live(c)
             /\ vault'[c] \in CredentialRows
             /\ vault'[c].state = vault[c].state /\ vault'[c].version = vault[c].version
             /\ vault'[c].managers = vault[c].managers
             /\ vault'[c].policy = vault[c].policy + 1
             /\ vault'[c].wraps[m] = keys'[m]
             /\ \A o \in Members \ {m} : vault'[c].wraps[o] = vault[c].wraps[o]
  <2>1. c \in Credentials /\ Live(c)
    BY DEF Held
  <2>2. vault'[c] = [vault[c] EXCEPT !.wraps[m] = keys[m] + 1, !.policy = vault[c].policy + 1]
    BY <2>1 DEF RotateKey
  <2> DEFINE k == keys[m] + 1
             p == vault[c].policy + 1
  <2>3. k \in Nat /\ p \in Nat
    BY <1>3, <1>5, <2>1
  <2>4. vault'[c] = [vault[c] EXCEPT !.wraps[m] = k, !.policy = p]
    BY <2>2
  <2>5. k = keys'[m]
    BY <1>2
  <2> HIDE DEF k, p
  <2>6. vault'[c] \in CredentialRows
    <3> DEFINE w == [vault[c].wraps EXCEPT ![m] = k]
    <3>1. w \in [Members -> Nat]
      BY <1>5, <2>1, <2>3 DEF CredentialRows
    <3>2. vault'[c] = [vault[c] EXCEPT !.wraps = w, !.policy = p]
      BY <1>5, <2>1, <2>4 DEF CredentialRows
    <3> HIDE DEF w
    <3> QED BY <1>5, <2>1, <2>3, <3>1, <3>2 DEF CredentialRows
  <2>7. /\ vault'[c].state = vault[c].state /\ vault'[c].version = vault[c].version
        /\ vault'[c].managers = vault[c].managers /\ vault'[c].policy = p
    BY <1>5, <2>1, <2>4 DEF CredentialRows
  <2>8. vault'[c].wraps[m] = k /\ \A o \in Members \ {m} : vault'[c].wraps[o] = vault[c].wraps[o]
    BY <1>5, <2>1, <2>4 DEF CredentialRows
  <2> QED BY <2>1, <2>5, <2>6, <2>7, <2>8 DEF p
<1>7. ASSUME NEW c \in Credentials \ Held(m) PROVE vault'[c] = vault[c]
  BY DEF RotateKey
<1>8. vault' \in [Credentials -> CredentialRows]
  <2>1. \A c \in Credentials : vault'[c] \in CredentialRows
    BY <1>5, <1>6, <1>7
  <2>2. vault' = [c \in Credentials |-> vault'[c]]
    BY DEF RotateKey
  <2> QED BY <2>1, <2>2
<1>9. ASSUME NEW c \in Credentials
      PROVE  /\ vault'[c].version <= changes' + 1 /\ vault'[c].policy <= changes' + 1
             /\ \A o \in Members : vault'[c].wraps[o] <= keys'[o]
             /\ \A o \in Members : vault'[c].wraps[o] > 0 <=> vault[c].wraps[o] > 0
  <2>1. CASE c \in Held(m)
    <3>1. vault[c].wraps[m] > 0
      BY <2>1 DEF Held, Custodians
    <3>2. vault'[c].version <= changes' + 1 /\ vault'[c].policy <= changes' + 1
      BY <1>1, <1>3, <1>5, <1>6, <2>1
    <3>3. ASSUME NEW o \in Members
          PROVE  vault'[c].wraps[o] <= keys'[o] /\ (vault'[c].wraps[o] > 0 <=> vault[c].wraps[o] > 0)
      BY <1>2, <1>3, <1>5, <1>6, <2>1, <3>1
    <3> QED BY <3>2, <3>3
  <2>2. CASE c \notin Held(m)
    BY <1>1, <1>3, <1>4, <1>5, <1>7, <1>2, <2>2
  <2> QED BY <2>1, <2>2
<1>10. CustodyShape'
  BY <1>1, <1>2, <1>4, <1>8, <1>9 DEF CustodyShape
<1>11. ASSUME NEW c \in Credentials
       PROVE  /\ Live(c)' <=> Live(c)
              /\ vault'[c].managers = vault[c].managers
              /\ Custodians(c)' = Custodians(c)
  BY <1>6, <1>7, <1>9 DEF Live, Custodians
<1>12. ManagersAreCustodians'
  BY <1>11 DEF ManagersAreCustodians
<1>13. ASSUME NEW c \in Credentials \ stale, Live(c), NEW o \in Custodians(c)
       PROVE  vault'[c].wraps[o] = keys'[o]
  <2>1. vault[c].wraps[o] = keys[o] /\ o \in Members
    BY <1>13 DEF CustodiansCanOpen, Custodians
  <2>2. CASE c \in Held(m)
    BY <1>2, <1>6, <2>1, <2>2
  <2>3. CASE c \notin Held(m)
    <3>1. o # m
      BY <1>13, <2>3 DEF Held
    <3> QED BY <1>2, <1>7, <2>1, <2>3, <3>1
  <2> QED BY <2>2, <2>3
<1>14. CustodiansCanOpen'
  BY <1>2, <1>11, <1>13 DEF CustodiansCanOpen
<1>15. OnlyTouches(Held(m))
  BY <1>5, <1>6, <1>7, <1>11 DEF OnlyTouches
<1> QED BY <1>10, <1>12, <1>14, <1>15

LEMMA SetFrozenKeeps ==
    ASSUME CustodyInvariant, NEW c \in Credentials, NEW off \in BOOLEAN, SetFrozen(c, off)
    PROVE  CustodyInvariant' /\ OnlyTouches({})
<1> USE DEF CustodyInvariant
<1> DEFINE row == [vault[c] EXCEPT !.frozen = off]
<1>1. vault[c] \in CredentialRows /\ vault' = [vault EXCEPT ![c] = row] /\ Live(c)
      /\ UNCHANGED <<active, keys, stale>> /\ Changing
  BY DEF SetFrozen, CustodyShape
<1>2. row \in CredentialRows
  BY <1>1 DEF CredentialRows
<1>3. /\ row.state = vault[c].state /\ row.version = vault[c].version /\ row.policy = vault[c].policy
      /\ row.wraps = vault[c].wraps /\ row.managers = vault[c].managers
  BY <1>1 DEF CredentialRows
<1> HIDE DEF row
<1>4. /\ vault[c].version \in Nat /\ vault[c].policy \in Nat
      /\ vault[c].version <= changes + 1 /\ vault[c].policy <= changes + 1 /\ changes \in Nat
  BY <1>1 DEF CustodyShape, CredentialRows
<1>5. row.version <= changes + 2 /\ row.policy <= changes + 2
  BY <1>3, <1>4
<1>6. /\ row.managers = {m \in Members : row.wraps[m] > 0} /\ row.managers # {}
      /\ c \notin stale' => \A m \in row.managers : row.wraps[m] = keys[m]
  BY <1>1, <1>3 DEF ManagersAreCustodians, CustodiansCanOpen, Custodians
<1>7. \A m \in Members : row.wraps[m] <= keys[m]
  BY <1>3 DEF CustodyShape
<1>8. CustodyInvariant'
  BY <1>1, <1>2, <1>5, <1>6, <1>7, OneWritten DEF CustodyShape
<1>9. vault'[c] = row /\ \A o \in Credentials \ {c} : vault'[o] = vault[o]
  BY <1>1 DEF CustodyShape
<1>10. OnlyTouches({})
  BY <1>3, <1>9 DEF OnlyTouches, Live
<1> QED BY <1>8, <1>10

(* Steps that leave the keys and the credentials alone. *)
LEMMA OthersKeepCustody ==
    ASSUME CustodyInvariant, UNCHANGED <<keys, vault, budget, stale>>,
           active' \subseteq Members, changes' \in Nat, changes <= changes', changes' <= budget.changes
    PROVE  CustodyInvariant' /\ OnlyTouches({})
<1> USE DEF CustodyInvariant
<1>1. \A m \in Members : keys[m] \in Nat /\ keys[m] <= changes' + 1
  BY DEF CustodyShape
<1>2. \A c \in Credentials : /\ vault[c].version \in Nat /\ vault[c].policy \in Nat
                             /\ vault[c].version <= changes' + 1 /\ vault[c].policy <= changes' + 1
  BY DEF CustodyShape, CredentialRows
<1>3. CustodyShape'
  BY <1>1, <1>2 DEF CustodyShape
<1>4. ManagersAreCustodians' /\ CustodiansCanOpen'
  BY DEF ManagersAreCustodians, CustodiansCanOpen, Live, Custodians
<1>5. OnlyTouches({})
  BY DEF OnlyTouches, Live
<1> QED BY <1>3, <1>4, <1>5

LEMMA ChangingKeeps ==
    ASSUME CustodyInvariant, Changing, UNCHANGED <<keys, vault, stale>>, active' \subseteq Members
    PROVE  CustodyInvariant' /\ OnlyTouches({})
<1>1. changes' = changes + 1 /\ changes' <= budget.changes /\ budget' = budget /\ changes \in Nat
  BY BudgetsBounded DEF Changing, CustodyInvariant, CustodyShape
<1>2. changes' \in Nat /\ changes <= changes'
  BY <1>1
<1> QED BY <1>1, <1>2, OthersKeepCustody

LEMMA StillKeeps ==
    ASSUME CustodyInvariant, UNCHANGED custodyVars
    PROVE  CustodyInvariant' /\ OnlyTouches({})
<1>1. active \subseteq Members /\ changes \in Nat /\ changes <= budget.changes
  BY DEF CustodyInvariant, CustodyShape
<1>2. UNCHANGED <<keys, vault, budget, stale>> /\ active' \subseteq Members /\ changes' \in Nat
      /\ changes <= changes' /\ changes' <= budget.changes
  BY <1>1 DEF custodyVars
<1> QED BY <1>2, OthersKeepCustody

LEMMA CustodyStarts == CustodyInit => CustodyInvariant
<1> SUFFICES ASSUME CustodyInit PROVE CustodyInvariant
  OBVIOUS
<1>1. PICK made \in SUBSET budget.creds, S \in SUBSET {m \in Members : keys[m] = 1}, mode \in budget.modes :
          /\ made # {} => S # {}
          /\ vault = [c \in Credentials |->
                IF c \in made
                THEN [state |-> "live", version |-> 1, policy |-> 1, frozen |-> FALSE,
                      mode |-> mode, wraps |-> [m \in Members |-> IF m \in S THEN 1 ELSE 0],
                      managers |-> S]
                ELSE NoCredential]
  BY DEF CustodyInit
<1>2. /\ active = Members /\ keys \in [Members -> {0, 1}] /\ budget \in Budgets
      /\ changes = 0 /\ stale = {}
  BY DEF CustodyInit
<1>3. budget.changes \in Nat /\ budget.modes \subseteq {"never", "ask", "auto"}
  BY <1>2, CustodyAssumption
<1> DEFINE w == [m \in Members |-> IF m \in S THEN 1 ELSE 0]
           row == [state |-> "live", version |-> 1, policy |-> 1, frozen |-> FALSE,
                   mode |-> mode, wraps |-> w, managers |-> S]
<1>4. w \in [Members -> Nat] /\ \A m \in Members : w[m] = IF m \in S THEN 1 ELSE 0
  OBVIOUS
<1>5. \A c \in Credentials : vault[c] = IF c \in made THEN row ELSE NoCredential
  BY <1>1
<1> HIDE DEF w
<1>6. row \in CredentialRows
  BY <1>2, <1>3, <1>4 DEF CredentialRows, States
<1>7. /\ row.state = "live" /\ row.version = 1 /\ row.policy = 1 /\ row.wraps = w /\ row.managers = S
  OBVIOUS
<1>8. /\ NoCredential \in CredentialRows /\ NoCredential.state = "none" /\ NoCredential.version = 0
      /\ NoCredential.policy = 0 /\ \A m \in Members : NoCredential.wraps[m] = 0
  BY DEF NoCredential, CredentialRows, States, Nobody
<1>9. vault \in [Credentials -> CredentialRows]
  <2>1. \A c \in Credentials : vault[c] \in CredentialRows
    BY <1>5, <1>6, <1>8
  <2>2. vault = [c \in Credentials |-> vault[c]]
    BY <1>1
  <2> QED BY <2>1, <2>2
<1> HIDE DEF row
<1>10. keys \in [Members -> Nat] /\ \A m \in Members : keys[m] \in {0, 1}
  BY <1>2
<1>11. ASSUME NEW c \in Credentials
       PROVE  /\ vault[c].version <= changes + 1 /\ vault[c].policy <= changes + 1
              /\ \A m \in Members : vault[c].wraps[m] <= keys[m]
  <2>1. CASE c \in made
    BY <1>2, <1>4, <1>5, <1>7, <1>10, <2>1
  <2>2. CASE c \notin made
    BY <1>2, <1>5, <1>8, <1>10, <2>2
  <2> QED BY <2>1, <2>2
<1>12. CustodyShape
  BY <1>2, <1>3, <1>9, <1>10, <1>11 DEF CustodyShape
<1>13. ASSUME NEW c \in Credentials, Live(c)
       PROVE  /\ vault[c].managers = Custodians(c) /\ Custodians(c) # {}
              /\ \A m \in Custodians(c) : vault[c].wraps[m] = keys[m]
  <2>1. c \in made
    BY <1>5, <1>8, <1>13 DEF Live
  <2>2. vault[c] = row /\ S # {}
    BY <1>1, <1>5, <2>1
  <2>3. Custodians(c) = S
    BY <1>4, <1>7, <2>2 DEF Custodians
  <2> QED BY <1>4, <1>7, <2>2, <2>3
<1> QED BY <1>12, <1>13 DEF CustodyInvariant, ManagersAreCustodians, CustodiansCanOpen

-----------------------------------------------------------------------------
(* Grants, cards and proxied requests. *)

Deliveries == {"inject", "device_proxy"}

Notes(V) == UNION {[D -> V] : D \in SUBSET Credentials}

GrantRows ==
    [cred : Credentials, tuple : Deliveries, version : Nat, policy : Nat, access : Nat,
     once : BOOLEAN, remaining : 0 .. 1, left : Int, revoked : BOOLEAN, by : Members, uses : Nat]

CardRows ==
    [tuple : Deliveries, items : Notes({None, "denied", "allowed"}), grant : Notes(Nat),
     version : Notes(Nat), policy : Notes(Nat), approvers : SUBSET Members,
     status : CardStatuses, left : Past .. CardTtl, by : Members \cup {None}]

ProxyRows ==
    [state : ProxyStates, cred : Credentials \cup {None}, version : Nat, policy : Nat,
     access : Nat, left : Int, frames : Nat, uses : Nat]

(* What a grant was given for is what is there. *)
Stands(grant) ==
    /\ Live(grant.cred)
    /\ grant.version = vault[grant.cred].version
    /\ grant.policy = vault[grant.cred].policy
    /\ grant.access = access.epoch
    /\ grant.by \in vault[grant.cred].managers

GrantsOK ==
    /\ grants \in Seq(GrantRows)
    /\ \A g \in Grants : /\ ~grants[g].revoked => Stands(grants[g])
                         /\ grants[g].once => grants[g].uses + grants[g].remaining <= 1
    /\ \A g \in cut : g \in Grants /\ grants[g].revoked

(* The grant an answer gave for one item of its card. *)
Gave(card, c) ==
    LET g == card.grant[c]
    IN  /\ g \in Grants
        /\ grants[g].cred = c /\ grants[g].tuple = card.tuple
        /\ grants[g].by = card.by /\ grants[g].version = card.version[c]

CardOK(card) ==
    LET items == DOMAIN card.items
    IN  /\ items \subseteq DOMAIN card.grant /\ items \subseteq DOMAIN card.version
        /\ items \subseteq DOMAIN card.policy
        /\ \A c \in items :
              /\ Live(c)
              /\ card.policy[c] <= vault[c].policy
              /\ card.policy[c] = vault[c].policy => card.approvers \subseteq vault[c].managers
              /\ IF card.items[c] = "allowed" THEN Gave(card, c) ELSE card.grant[c] = 0
        /\ card.status = "pending" =>
              access.on /\ ~agentOff /\ \A c \in items : card.items[c] = None /\ ~vault[c].frozen
        /\ card.status \in {"denied", "expired"} => \A c \in items : card.items[c] = "denied"
        /\ card.status \in {"allowed", "denied"} => card.by \in card.approvers

(* No two answers share a grant. *)
GaveApart ==
    \A i, j \in Cards : \A c \in DOMAIN cards[i].items, o \in DOMAIN cards[j].items :
        (cards[i].items[c] = "allowed" /\ <<i, c>> # <<j, o>>) => cards[j].grant[o] # cards[i].grant[c]

CardsOK ==
    /\ cards \in Seq(CardRows)
    /\ \A i \in Cards : CardOK(cards[i])
    /\ GaveApart
    /\ dropped \subseteq Cards

DeadlineOK ==
    /\ deadline \in Int \cup {None} /\ expiry \in Int \cup {None}
    /\ \A i \in Pending(cards) \ dropped :
          deadline # None /\ (deadline <= cards[i].left \/ deadline <= 0)

(* A row that is there is of a credential that is, a frame went out at most *)
(* once, and a use was recorded for it if it is completed.                  *)
ProxiesOK ==
    /\ proxies \in [Keys -> ProxyRows]
    /\ \A k \in Keys :
          /\ proxies[k].state # "none" => proxies[k].cred \in Credentials /\ Live(proxies[k].cred)
          /\ proxies[k].state = "none" => proxies[k].frames = 0
          /\ proxies[k].frames <= 1
          /\ proxies[k].uses = IF proxies[k].state = "completed" THEN 1 ELSE 0

CallsOK ==
    /\ sealing \subseteq [key : Keys, cred : Credentials, version : Nat, policy : Nat]
    /\ opening \subseteq [key : Keys, lag : 0 .. 1]

SwitchesOK ==
    /\ standing \in BOOLEAN /\ agentOff \in BOOLEAN
    /\ access \in [on : BOOLEAN, epoch : Nat]
    /\ access.epoch >= 1 /\ access.epoch <= changes + 1

VaultInvariant ==
    /\ CustodyInvariant
    /\ SwitchesOK
    /\ GrantsOK
    /\ CardsOK
    /\ DeadlineOK
    /\ ProxiesOK
    /\ CallsOK

(* What no step does: take a grant back, or give it another meaning. *)
GrantsKept ==
    /\ Len(grants) <= Len(grants')
    /\ \A g \in Grants :
          /\ grants'[g].cred = grants[g].cred /\ grants'[g].tuple = grants[g].tuple
          /\ grants'[g].by = grants[g].by /\ grants'[g].version = grants[g].version

(* The same of a card, and of what was answered. *)
AnswersKept ==
    /\ \A i \in Cards : cards[i].status # "pending" =>
          cards'[i].status = cards[i].status /\ cards'[i].by = cards[i].by
    /\ \A g \in cut : grants'[g].uses = grants[g].uses

-----------------------------------------------------------------------------
(* Sequences. *)

LEMMA FunctionIsSeq ==
    ASSUME NEW S, NEW n \in Nat, NEW f \in [1 .. n -> S]
    PROVE  f \in Seq(S) /\ Len(f) = n
<1>1. f \in Seq(S)
  BY SeqDef
<1>2. Len(f) \in Nat /\ 1 .. Len(f) = 1 .. n
  BY <1>1, LenProperties
<1>3. Len(f) = n
  BY <1>2
<1> QED BY <1>1, <1>3

LEMMA SeqIsFunction ==
    ASSUME NEW S, NEW s \in Seq(S)
    PROVE  /\ Len(s) \in Nat /\ DOMAIN s = 1 .. Len(s)
           /\ \A i \in 1 .. Len(s) : s[i] \in S
BY LenProperties

(* The members of a finite set, in some order. *)
LEMMA SetToSeqOrders ==
    ASSUME NEW S, IsFiniteSet(S)
    PROVE  /\ SetToSeq(S) \in Seq(S) /\ Len(SetToSeq(S)) = Cardinality(S)
           /\ Cardinality(S) \in Nat
           /\ \A x \in S : \E n \in 1 .. Len(SetToSeq(S)) : SetToSeq(S)[n] = x
<1> DEFINE N == Cardinality(S)
           T == 1 .. N
<1>1. N \in Nat
  BY FS_CardinalityType
<1>2. IsFiniteSet(T) /\ Cardinality(T) = N
  <2> HIDE DEF N
  <2>1. 1 \in Int /\ N \in Int
    BY <1>1
  <2>2. /\ IsFiniteSet(1 .. N)
        /\ Cardinality(1 .. N) = IF 1 > N THEN 0 ELSE N - 1 + 1
    BY <2>1, FS_Interval, Zenon
  <2>3. (IF 1 > N THEN 0 ELSE N - 1 + 1) = N
    BY <1>1
  <2> QED BY <2>2, <2>3
<1>3. ExistsBijection(T, S)
  BY <1>2, FS_SameCardinalityBij
<1>4. \E f \in [T -> S] : IsInjective(f)
  BY <1>3 DEF ExistsBijection, Bijection, Injection, IsInjective
<1>5. SetToSeq(S) \in [T -> S] /\ IsInjective(SetToSeq(S))
  BY <1>4 DEF SetToSeq
<1> DEFINE f == SetToSeq(S)
<1>6. f \in Seq(S) /\ Len(f) = N
  BY <1>1, <1>5, FunctionIsSeq
<1>7. f \in Injection(T, S)
  BY <1>5 DEF Injection, IsInjective
<1>8. f \in Surjection(T, S)
  BY <1>2, <1>7, FS_Injection
<1>9. \A x \in S : \E n \in T : f[n] = x
  BY <1>8 DEF Surjection
<1> QED BY <1>1, <1>6, <1>9

-----------------------------------------------------------------------------
(* The earliest of a set of instants that are bounded from below, and the   *)
(* newest of a set of grants.                                               *)

LEMMA HasEarliest ==
    ASSUME NEW S \in SUBSET Int, S # {}, NEW b \in Nat, \A t \in S : t >= -b
    PROVE  \E m \in S : \A y \in S : m <= y
<1> DEFINE R == OpToRel(<, Nat)
           T == {t + b : t \in S}
<1>1. \A x, y \in Nat : x < y => <<x, y>> \in R
  BY DEF OpToRel
<1>2. IsWellFoundedOn(R, Nat)
  BY NatLessThanWellFounded
<1>3. T \subseteq Nat /\ T # {}
  <2>1. ASSUME NEW t \in S PROVE t + b \in Nat
    <3>1. t \in Int /\ t >= -b
      OBVIOUS
    <3> QED BY <3>1
  <2> QED BY <2>1
<1> HIDE DEF R
<1>4. PICK u \in T : \A y \in T : ~ (<<y, u>> \in R)
  <2> HIDE DEF T
  <2> QED BY <1>2, <1>3, WFMin
<1>5. PICK m \in S : u = m + b
  OBVIOUS
<1>6. ASSUME NEW y \in S PROVE m <= y
  <2>1. m \in Int /\ y \in Int /\ y + b \in Nat /\ m + b \in Nat /\ y + b \in T
    BY <1>3
  <2> HIDE DEF T
  <2>2. ~ (y + b < m + b)
    BY <1>1, <1>4, <1>5, <2>1, Zenon
  <2> QED BY <2>1, <2>2
<1> QED BY <1>6

LEMMA MinIsEarliest ==
    ASSUME NEW S \in SUBSET Int, S # {}, NEW b \in Nat, \A t \in S : t >= -b
    PROVE  Min(S) \in S /\ \A y \in S : Min(S) <= y
BY HasEarliest DEF Min

LEMMA MaxIsNewest ==
    ASSUME NEW n \in Nat, NEW M \in SUBSET (1 .. n), M # {}
    PROVE  Max(M) \in M
<1> DEFINE S == {-x : x \in M}
<1>1. S \in SUBSET Int /\ S # {} /\ \A s \in S : s >= -n
  <2>1. \A x \in M : x \in Int /\ -x \in Int /\ -x >= -n
    OBVIOUS
  <2> QED BY <2>1
<1>2. PICK s \in S : \A y \in S : s <= y
  <2> HIDE DEF S
  <2> QED BY <1>1, HasEarliest
<1>3. PICK x \in M : s = -x
  OBVIOUS
<1>4. ASSUME NEW y \in M PROVE x >= y
  <2>1. -y \in S /\ x \in Int /\ y \in Int
    OBVIOUS
  <2>2. s <= -y
    BY <1>2, <2>1
  <2> QED BY <1>3, <2>1, <2>2
<1> QED BY <1>4 DEF Max

-----------------------------------------------------------------------------
(* Grants. *)

(* A grant keeps what it was given for, and is not given back. *)
GrantFollows(old, new) ==
    /\ new \in GrantRows
    /\ new.cred = old.cred /\ new.tuple = old.tuple /\ new.version = old.version
    /\ new.policy = old.policy /\ new.access = old.access /\ new.once = old.once /\ new.by = old.by
    /\ old.revoked => new.revoked
    /\ new.once => new.uses + new.remaining <= 1

LEMMA GrantsFollow ==
    ASSUME VaultInvariant, NEW C, OnlyTouches(C),
           grants' \in Seq(GrantRows), Len(grants') = Len(grants),
           \A g \in Grants : /\ GrantFollows(grants[g], grants'[g])
                             /\ ~grants'[g].revoked => /\ grants[g].cred \notin C
                                                       /\ access'.epoch = access.epoch,
           \A g \in cut' : g \in Grants /\ grants'[g].revoked
    PROVE  GrantsOK' /\ GrantsKept
<1>1. /\ grants \in Seq(GrantRows)
      /\ \A g \in Grants : ~grants[g].revoked => Stands(grants[g])
  BY DEF VaultInvariant, GrantsOK
<1>2. Len(grants) \in Nat /\ \A g \in Grants : grants[g] \in GrantRows
  BY <1>1, SeqIsFunction DEF Grants
<1>3. Grants' = Grants
  BY DEF Grants
<1>4. ASSUME NEW g \in Grants, ~grants'[g].revoked PROVE Stands(grants[g])'
  <2>1. ~grants[g].revoked /\ Stands(grants[g]) /\ grants[g].cred \in Credentials
    BY <1>1, <1>2, <1>4 DEF GrantFollows, GrantRows
  <2>2. grants'[g].cred = grants[g].cred /\ grants'[g].by = grants[g].by
        /\ grants'[g].version = grants[g].version /\ grants'[g].policy = grants[g].policy
        /\ grants'[g].access = grants[g].access
    BY DEF GrantFollows
  <2>3. grants[g].cred \notin C /\ access'.epoch = access.epoch
    BY <1>4
  <2> QED BY <2>1, <2>2, <2>3 DEF OnlyTouches, Stands
<1>5. \A g \in Grants : grants'[g].once => grants'[g].uses + grants'[g].remaining <= 1
  BY DEF GrantFollows
<1>6. GrantsOK'
  BY <1>3, <1>4, <1>5 DEF GrantsOK
<1>7. GrantsKept
  BY <1>2 DEF GrantsKept, GrantFollows
<1> QED BY <1>6, <1>7

LEMMA SameGrantFollows ==
    ASSUME VaultInvariant, NEW g \in Grants
    PROVE  GrantFollows(grants[g], grants[g])
<1>1. grants[g] \in GrantRows /\ (grants[g].once => grants[g].uses + grants[g].remaining <= 1)
  BY SeqIsFunction DEF VaultInvariant, GrantsOK, Grants
<1> QED BY <1>1 DEF GrantFollows

LEMMA RevokedFollows ==
    ASSUME VaultInvariant, NEW g \in Grants, NEW row, row = [grants[g] EXCEPT !.revoked = TRUE]
    PROVE  GrantFollows(grants[g], row) /\ row.revoked /\ row.uses = grants[g].uses
<1>1. grants[g] \in GrantRows /\ (grants[g].once => grants[g].uses + grants[g].remaining <= 1)
  BY SeqIsFunction DEF VaultInvariant, GrantsOK, Grants
<1>2. row \in GrantRows
  BY <1>1 DEF GrantRows
<1>3. /\ row.cred = grants[g].cred /\ row.tuple = grants[g].tuple /\ row.version = grants[g].version
      /\ row.policy = grants[g].policy /\ row.access = grants[g].access /\ row.once = grants[g].once
      /\ row.by = grants[g].by /\ row.revoked /\ row.uses = grants[g].uses
      /\ row.remaining = grants[g].remaining
  BY <1>1 DEF GrantRows
<1> QED BY <1>1, <1>2, <1>3 DEF GrantFollows

(* revokeVaultGrants, as far as the credentials D, in a step that changes   *)
(* those of C; a switch is recorded only for grants it revokes.             *)
LEMMA RevokingKeeps ==
    ASSUME VaultInvariant, NEW C, NEW D, OnlyTouches(C), C \subseteq D,
           grants' = Revoked(grants, D),
           access'.epoch = access.epoch \/ Credentials \subseteq D,
           \A g \in cut' \ cut : g \in Grants /\ grants[g].cred \in D
    PROVE  GrantsOK' /\ GrantsKept /\ \A g \in cut : grants'[g].uses = grants[g].uses
<1>1. Len(grants) \in Nat /\ \A g \in Grants : grants[g] \in GrantRows
  BY SeqIsFunction DEF VaultInvariant, GrantsOK, Grants
<1>2. /\ grants' = [g \in 1 .. Len(grants) |-> grants'[g]]
      /\ \A g \in Grants : grants'[g] = IF grants[g].cred \in D THEN [grants[g] EXCEPT !.revoked = TRUE]
                                                               ELSE grants[g]
  BY DEF Revoked, Grants
<1>3. ASSUME NEW g \in Grants
      PROVE  /\ GrantFollows(grants[g], grants'[g]) /\ grants'[g].uses = grants[g].uses
             /\ grants[g].cred \in D => grants'[g].revoked
             /\ grants[g].revoked => grants'[g].revoked
  <2>1. CASE grants[g].cred \in D
    BY <1>2, <2>1, RevokedFollows
  <2>2. CASE grants[g].cred \notin D
    BY <1>2, <2>2, SameGrantFollows
  <2> QED BY <2>1, <2>2
<1>4. \A g \in Grants : grants'[g] \in GrantRows
  BY <1>3 DEF GrantFollows
<1>5. grants' \in [1 .. Len(grants) -> GrantRows]
  BY <1>2, <1>4 DEF Grants
<1>6. grants' \in Seq(GrantRows) /\ Len(grants') = Len(grants)
  BY <1>1, <1>5, FunctionIsSeq
<1>7. \A g \in cut : g \in Grants /\ grants[g].revoked
  BY DEF VaultInvariant, GrantsOK
<1>8. \A g \in cut' : g \in Grants /\ grants'[g].revoked
  BY <1>3, <1>7
<1>9. \A g \in Grants : grants[g].cred \in Credentials
  BY <1>1 DEF GrantRows
<1>10. \A g \in Grants : ~grants'[g].revoked => grants[g].cred \notin C /\ access'.epoch = access.epoch
  BY <1>3, <1>9
<1>11. GrantsOK' /\ GrantsKept
  BY <1>3, <1>6, <1>8, <1>10, GrantsFollow
<1> QED BY <1>3, <1>7, <1>11

LEMMA StillGrants ==
    ASSUME VaultInvariant, OnlyTouches({}), UNCHANGED <<grants, cut>>, access'.epoch = access.epoch
    PROVE  GrantsOK' /\ GrantsKept /\ \A g \in cut : grants'[g].uses = grants[g].uses
<1>1. \A g \in Grants : GrantFollows(grants[g], grants'[g])
  BY SameGrantFollows
<1>2. grants' \in Seq(GrantRows) /\ Len(grants') = Len(grants)
      /\ \A g \in cut' : g \in Grants /\ grants'[g].revoked
  BY DEF VaultInvariant, GrantsOK
<1>3. GrantsOK' /\ GrantsKept
  BY <1>1, <1>2, GrantsFollow
<1> QED BY <1>3

(* A use is recorded, and a grant for one use is spent. *)
LEMMA ConsumedKeeps ==
    ASSUME VaultInvariant, NEW c \in Credentials, NEW t, NEW now \in Int,
           UNCHANGED <<custodyVars, access, cut>>, grants' = Consumed(c, t, now)
    PROVE  GrantsOK' /\ GrantsKept /\ \A g \in cut : grants'[g].uses = grants[g].uses
<1>1. OnlyTouches({})
  BY StillKeeps DEF VaultInvariant
<1>2. CASE Decision(c, t, now) # "grant"
  <2>1. grants' = grants /\ cut' = cut /\ access' = access
    BY <1>2 DEF Consumed
  <2> QED BY <1>1, <2>1, StillGrants
<1>3. CASE Decision(c, t, now) = "grant"
  <2> DEFINE M == Matching(c, t, now)
             u == Max(M)
  <2>1. Len(grants) \in Nat /\ grants \in Seq(GrantRows) /\ \A g \in Grants : grants[g] \in GrantRows
    BY SeqIsFunction DEF VaultInvariant, GrantsOK, Grants
  <2>2. M # {} /\ M \subseteq Grants
    BY <1>3 DEF Decision, Matching
  <2>3. u \in M
    <3> HIDE DEF M
    <3> QED BY <2>1, <2>2, MaxIsNewest DEF Grants
  <2>4. /\ u \in Grants /\ ~grants[u].revoked
        /\ grants[u].once => grants[u].remaining > 0
    BY <2>2, <2>3 DEF Matching
  <2>5. grants' = [grants EXCEPT ![u].uses = @ + 1, ![u].remaining = IF @ > 0 THEN @ - 1 ELSE 0]
    BY <1>3 DEF Consumed
  <2> HIDE DEF u, M
  <2> DEFINE uses == grants[u].uses + 1
             rest == IF grants[u].remaining > 0 THEN grants[u].remaining - 1 ELSE 0
             row == [grants[u] EXCEPT !.uses = uses, !.remaining = rest]
  <2>6. /\ grants[u] \in GrantRows /\ grants[u].uses \in Nat /\ grants[u].remaining \in 0 .. 1
        /\ grants[u].once => grants[u].uses + grants[u].remaining <= 1
    BY <2>1, <2>4 DEF VaultInvariant, GrantsOK, GrantRows
  <2>7. uses \in Nat /\ rest \in 0 .. 1 /\ (grants[u].once => uses + rest <= 1)
    BY <2>4, <2>6
  <2>8. DOMAIN grants = Grants
    BY <2>1, SeqIsFunction DEF Grants
  <2>9. grants' = [grants EXCEPT ![u] = row]
    BY <2>4, <2>5, <2>6, <2>8 DEF GrantRows
  <2> HIDE DEF uses, rest
  <2>10. row \in GrantRows
    BY <2>6, <2>7 DEF GrantRows
  <2>11. /\ row.cred = grants[u].cred /\ row.tuple = grants[u].tuple /\ row.version = grants[u].version
         /\ row.policy = grants[u].policy /\ row.access = grants[u].access /\ row.once = grants[u].once
         /\ row.by = grants[u].by /\ row.revoked = grants[u].revoked /\ row.uses = uses
         /\ row.remaining = rest
    BY <2>6 DEF GrantRows
  <2>12. GrantFollows(grants[u], row)
    <3> HIDE DEF row
    <3> QED BY <2>7, <2>10, <2>11 DEF GrantFollows
  <2> HIDE DEF row
  <2>13. grants' \in Seq(GrantRows) /\ Len(grants') = Len(grants)
         /\ \A g \in Grants : grants'[g] = IF g = u THEN row ELSE grants[g]
    BY <2>1, <2>4, <2>9, <2>10, ExceptSeq DEF Grants
  <2>14. \A g \in Grants : GrantFollows(grants[g], grants'[g])
    BY <2>12, <2>13, SameGrantFollows
  <2>15. \A g \in cut : g \in Grants /\ grants[g].revoked /\ g # u /\ grants'[g] = grants[g]
    BY <2>4, <2>13 DEF VaultInvariant, GrantsOK
  <2>16. \A g \in cut' : g \in Grants /\ grants'[g].revoked
    BY <2>15
  <2>17. GrantsOK' /\ GrantsKept
    BY <1>1, <2>13, <2>14, <2>16, GrantsFollow
  <2> QED BY <2>15, <2>17
<1> QED BY <1>2, <1>3

(* insertVaultGrant, in the name of a member who manages the credential. *)
LEMMA GrantIsNew ==
    ASSUME VaultInvariant, NEW c \in Credentials, Live(c), NEW t \in Deliveries, NEW once \in BOOLEAN,
           NEW by \in vault[c].managers
    PROVE  /\ Grant(c, t, once, by) \in GrantRows /\ Stands(Grant(c, t, once, by))
           /\ Grant(c, t, once, by).once
                => Grant(c, t, once, by).uses + Grant(c, t, once, by).remaining <= 1
           /\ Grant(c, t, once, by).cred = c /\ Grant(c, t, once, by).tuple = t
           /\ Grant(c, t, once, by).by = by /\ Grant(c, t, once, by).version = vault[c].version
<1>1. vault[c] \in CredentialRows /\ access.epoch \in Nat /\ GrantTtl \in Nat
  BY VaultAssumption DEF VaultInvariant, CustodyInvariant, CustodyShape, SwitchesOK
<1>2. vault[c].version \in Nat /\ vault[c].policy \in Nat /\ by \in Members
  BY <1>1 DEF CredentialRows
<1> DEFINE rest == IF once THEN 1 ELSE 0
           left == IF once THEN 0 ELSE GrantTtl
<1>3. rest \in 0 .. 1 /\ left \in Int /\ (once => rest = 1)
  BY <1>1
<1>4. Grant(c, t, once, by) =
         [cred |-> c, tuple |-> t, version |-> vault[c].version, policy |-> vault[c].policy,
          access |-> access.epoch, once |-> once, remaining |-> rest, left |-> left,
          revoked |-> FALSE, by |-> by, uses |-> 0]
  BY DEF Grant
<1> HIDE DEF rest, left
<1>5. Grant(c, t, once, by) \in GrantRows
  BY <1>1, <1>2, <1>3, <1>4 DEF GrantRows
<1> QED BY <1>2, <1>3, <1>4, <1>5 DEF Stands

LEMMA GivingKeeps ==
    ASSUME VaultInvariant, UNCHANGED <<custodyVars, access, cut>>,
           NEW new \in Seq(GrantRows), grants' = grants \o new,
           \A n \in 1 .. Len(new) : Stands(new[n]) /\ (new[n].once => new[n].uses + new[n].remaining <= 1)
    PROVE  /\ GrantsOK' /\ GrantsKept /\ \A g \in cut : grants'[g].uses = grants[g].uses
           /\ Len(grants') = Len(grants) + Len(new)
           /\ \A n \in 1 .. Len(new) : grants'[Len(grants) + n] = new[n]
           /\ \A g \in Grants : grants'[g] = grants[g]
<1>1. /\ grants \in Seq(GrantRows) /\ Len(grants) \in Nat /\ Len(new) \in Nat
      /\ \A g \in Grants : ~grants[g].revoked => Stands(grants[g])
      /\ \A g \in Grants : grants[g].once => grants[g].uses + grants[g].remaining <= 1
      /\ \A g \in cut : g \in Grants /\ grants[g].revoked
  BY SeqIsFunction DEF VaultInvariant, GrantsOK
<1>2. /\ grants' \in Seq(GrantRows) /\ Len(grants') = Len(grants) + Len(new)
      /\ \A g \in 1 .. Len(grants) + Len(new) :
            grants'[g] = IF g <= Len(grants) THEN grants[g] ELSE new[g - Len(grants)]
  BY <1>1, ConcatProperties
<1>3. ASSUME NEW n \in 1 .. Len(new) PROVE grants'[Len(grants) + n] = new[n]
  <2>1. Len(grants) + n \in 1 .. Len(grants) + Len(new) /\ ~(Len(grants) + n <= Len(grants))
        /\ (Len(grants) + n) - Len(grants) = n
    BY <1>1
  <2> QED BY <1>2, <2>1
<1>4. ASSUME NEW g \in Grants PROVE grants'[g] = grants[g]
  <2>1. g \in 1 .. Len(grants) + Len(new) /\ g <= Len(grants)
    BY <1>1 DEF Grants
  <2> QED BY <1>2, <2>1
<1>5. ASSUME NEW g \in Grants' PROVE g \in Grants \/ \E n \in 1 .. Len(new) : g = Len(grants) + n
  <2>1. g \in 1 .. Len(grants) + Len(new)
    BY <1>2 DEF Grants
  <2>2. CASE g <= Len(grants)
    BY <1>1, <2>1, <2>2 DEF Grants
  <2>3. CASE ~(g <= Len(grants))
    <3>1. g - Len(grants) \in 1 .. Len(new) /\ g = Len(grants) + (g - Len(grants))
      BY <1>1, <2>1, <2>3
    <3> QED BY <3>1
  <2> QED BY <2>2, <2>3
<1>6. UNCHANGED <<vault, access, cut>>
  BY DEF custodyVars
<1>7. ASSUME NEW g \in Grants'
      PROVE  /\ ~grants'[g].revoked => Stands(grants[g])'
             /\ grants'[g].once => grants'[g].uses + grants'[g].remaining <= 1
  <2>1. CASE g \in Grants
    <3>1. grants'[g] = grants[g]
      BY <1>4, <2>1
    <3>2. ~grants[g].revoked => Stands(grants[g])
      BY <1>1, <2>1
    <3>3. grants[g].once => grants[g].uses + grants[g].remaining <= 1
      BY <1>1, <2>1
    <3> QED BY <1>6, <3>1, <3>2, <3>3 DEF Stands, Live
  <2>2. CASE \E n \in 1 .. Len(new) : g = Len(grants) + n
    <3>1. PICK n \in 1 .. Len(new) : g = Len(grants) + n
      BY <2>2
    <3>2. grants'[g] = new[n]
      BY <1>3, <3>1
    <3> QED BY <1>6, <3>2 DEF Stands, Live
  <2> QED BY <1>5, <2>1, <2>2
<1>8. ASSUME NEW g \in cut' PROVE g \in Grants' /\ grants'[g].revoked
  <2>1. g \in Grants /\ grants[g].revoked /\ grants'[g] = grants[g]
    BY <1>1, <1>4, <1>6
  <2>2. g \in 1 .. Len(grants) + Len(new)
    BY <1>1, <2>1 DEF Grants
  <2> QED BY <1>2, <2>1, <2>2 DEF Grants
<1>9. GrantsOK'
  BY <1>2, <1>7, <1>8 DEF GrantsOK
<1>10. GrantsKept
  <2>1. Len(grants) <= Len(grants')
    BY <1>1, <1>2
  <2> QED BY <1>4, <2>1 DEF GrantsKept
<1>11. \A g \in cut : grants'[g].uses = grants[g].uses
  BY <1>1, <1>4
<1> QED BY <1>2, <1>3, <1>4, <1>9, <1>10, <1>11

-----------------------------------------------------------------------------
(* Cards. *)

(* A card keeps what it asks and whom; it may lose items with their         *)
(* credentials, and lapse while it waits.                                   *)
CardFollows(old, new) ==
    /\ new \in CardRows
    /\ new.tuple = old.tuple /\ new.grant = old.grant /\ new.version = old.version
    /\ new.policy = old.policy /\ new.approvers = old.approvers
    /\ DOMAIN new.items \subseteq DOMAIN old.items
    /\ \/ /\ new.status = old.status /\ new.by = old.by
          /\ \A c \in DOMAIN new.items : new.items[c] = old.items[c]
       \/ /\ old.status = "pending" /\ new.status = "expired"
          /\ \A c \in DOMAIN new.items : new.items[c] = "denied"

LEMMA CardTyped ==
    ASSUME VaultInvariant, NEW i \in Cards
    PROVE  /\ cards[i] \in CardRows /\ CardOK(cards[i])
           /\ DOMAIN cards[i].items \subseteq Credentials
           /\ \A c \in DOMAIN cards[i].items : /\ cards[i].items[c] \in {None, "denied", "allowed"}
                                               /\ cards[i].version[c] \in Nat
                                               /\ cards[i].policy[c] \in Nat
<1>1. cards[i] \in CardRows /\ CardOK(cards[i])
  BY SeqIsFunction DEF VaultInvariant, CardsOK, Cards
<1>2. /\ cards[i].items \in Notes({None, "denied", "allowed"})
      /\ cards[i].version \in Notes(Nat) /\ cards[i].policy \in Notes(Nat)
  BY <1>1 DEF CardRows
<1>3. DOMAIN cards[i].items \subseteq Credentials
      /\ \A c \in DOMAIN cards[i].items : cards[i].items[c] \in {None, "denied", "allowed"}
  BY <1>2 DEF Notes
<1>4. \A c \in DOMAIN cards[i].version : cards[i].version[c] \in Nat
  BY <1>2 DEF Notes
<1>5. \A c \in DOMAIN cards[i].policy : cards[i].policy[c] \in Nat
  BY <1>2 DEF Notes
<1> QED BY <1>1, <1>3, <1>4, <1>5 DEF CardOK

LEMMA NoneIsNoAnswer == None \notin Int /\ None # "denied" /\ None # "allowed"
BY VaultAssumption

(* The answer a card gave stays given. *)
LEMMA GaveStays ==
    ASSUME VaultInvariant, GrantsOK', GrantsKept, NEW card, NEW c, Gave(card, c)
    PROVE  /\ card.grant[c] \in 1 .. Len(grants')
           /\ grants'[card.grant[c]].cred = c /\ grants'[card.grant[c]].tuple = card.tuple
           /\ grants'[card.grant[c]].by = card.by
           /\ grants'[card.grant[c]].version = card.version[c]
<1>1. Len(grants) \in Nat /\ Len(grants') \in Nat /\ Len(grants) <= Len(grants')
  BY SeqIsFunction DEF VaultInvariant, GrantsOK, GrantsKept
<1>2. card.grant[c] \in Grants
  BY DEF Gave
<1>3. card.grant[c] \in 1 .. Len(grants')
  BY <1>1, <1>2 DEF Grants
<1> QED BY <1>2, <1>3 DEF Gave, GrantsKept

LEMMA CardStaysOK ==
    ASSUME VaultInvariant, NEW C, OnlyTouches(C), CustodyInvariant', GrantsOK', GrantsKept,
           NEW i \in Cards, CardFollows(cards[i], cards'[i]),
           \A c \in DOMAIN cards'[i].items : Live(c)',
           cards'[i].status = "pending" =>
              access'.on /\ ~agentOff' /\ \A c \in DOMAIN cards'[i].items : ~vault'[c].frozen
    PROVE  CardOK(cards[i])'
<1> DEFINE old == cards[i]
           new == cards'[i]
           items == DOMAIN new.items
<1>1. /\ old \in CardRows /\ CardOK(old) /\ DOMAIN old.items \subseteq Credentials
      /\ \A c \in DOMAIN old.items : old.policy[c] \in Nat
  BY CardTyped
<1>2. /\ new.tuple = old.tuple /\ new.grant = old.grant /\ new.version = old.version
      /\ new.policy = old.policy /\ new.approvers = old.approvers /\ items \subseteq DOMAIN old.items
  BY DEF CardFollows
<1>3. items \subseteq DOMAIN new.grant /\ items \subseteq DOMAIN new.version
      /\ items \subseteq DOMAIN new.policy
  BY <1>1, <1>2 DEF CardOK
<1>4. ASSUME NEW c \in items
      PROVE  /\ new.policy[c] <= vault'[c].policy
             /\ new.policy[c] = vault'[c].policy => new.approvers \subseteq vault'[c].managers
  <2>1. /\ c \in Credentials /\ Live(c) /\ Live(c)' /\ old.policy[c] \in Nat
        /\ old.policy[c] <= vault[c].policy
        /\ old.policy[c] = vault[c].policy => old.approvers \subseteq vault[c].managers
    BY <1>1, <1>2, <1>4 DEF CardOK
  <2>2. vault[c].policy \in Nat /\ vault'[c].policy \in Nat
    BY <2>1 DEF VaultInvariant, CustodyInvariant, CustodyShape, CredentialRows
  <2>3. CASE c \in C
    <3>1. vault'[c].policy > vault[c].policy
      BY <2>1, <2>3 DEF OnlyTouches
    <3>2. old.policy[c] <= vault'[c].policy /\ old.policy[c] # vault'[c].policy
      BY <2>1, <2>2, <3>1
    <3> QED BY <1>2, <3>2
  <2>4. CASE c \notin C
    <3>1. vault'[c].policy = vault[c].policy /\ vault'[c].managers = vault[c].managers
      BY <2>1, <2>4 DEF OnlyTouches
    <3> QED BY <1>2, <2>1, <3>1
  <2> QED BY <2>3, <2>4
<1>5. CASE /\ new.status = old.status /\ new.by = old.by
           /\ \A c \in items : new.items[c] = old.items[c]
  <2>1. ASSUME NEW c \in items
        PROVE  IF new.items[c] = "allowed" THEN Gave(cards[i], c)' ELSE new.grant[c] = 0
    <3>1. IF old.items[c] = "allowed" THEN Gave(old, c) ELSE old.grant[c] = 0
      BY <1>1, <1>2, <2>1 DEF CardOK
    <3>2. CASE old.items[c] = "allowed"
      <4>1. /\ old.grant[c] \in 1 .. Len(grants')
            /\ grants'[old.grant[c]].cred = c /\ grants'[old.grant[c]].tuple = old.tuple
            /\ grants'[old.grant[c]].by = old.by
            /\ grants'[old.grant[c]].version = old.version[c]
        BY <3>1, <3>2, GaveStays
      <4> QED BY <1>2, <1>5, <2>1, <3>2, <4>1 DEF Gave, Grants
    <3>3. CASE old.items[c] # "allowed"
      BY <1>2, <1>5, <2>1, <3>1, <3>3
    <3> QED BY <3>2, <3>3
  <2>2. new.status = "pending" => \A c \in items : new.items[c] = None
    BY <1>1, <1>2, <1>5 DEF CardOK
  <2>3. new.status \in {"denied", "expired"} => \A c \in items : new.items[c] = "denied"
    BY <1>1, <1>2, <1>5 DEF CardOK
  <2>4. new.status \in {"allowed", "denied"} => new.by \in new.approvers
    BY <1>1, <1>2, <1>5 DEF CardOK
  <2> QED BY <1>3, <1>4, <2>1, <2>2, <2>3, <2>4 DEF CardOK
<1>6. CASE /\ old.status = "pending" /\ new.status = "expired"
           /\ \A c \in items : new.items[c] = "denied"
  <2>1. ASSUME NEW c \in items PROVE new.items[c] # "allowed" /\ new.grant[c] = 0
    <3>1. old.items[c] = None /\ old.items[c] # "allowed"
      BY <1>1, <1>2, <1>6, <2>1, NoneIsNoAnswer DEF CardOK
    <3> QED BY <1>1, <1>2, <1>6, <2>1, <3>1 DEF CardOK
  <2> QED BY <1>3, <1>4, <1>6, <2>1 DEF CardOK
<1> QED BY <1>5, <1>6 DEF CardFollows

LEMMA CardsFollow ==
    ASSUME VaultInvariant, NEW C, OnlyTouches(C), CustodyInvariant', GrantsOK', GrantsKept,
           cards' \in Seq(CardRows), Len(cards') = Len(cards), dropped' \subseteq Cards,
           \A i \in Cards :
              /\ CardFollows(cards[i], cards'[i])
              /\ \A c \in DOMAIN cards'[i].items : Live(c)'
              /\ cards'[i].status = "pending" =>
                    access'.on /\ ~agentOff' /\ \A c \in DOMAIN cards'[i].items : ~vault'[c].frozen
    PROVE  /\ CardsOK'
           /\ \A i \in Cards : cards[i].status # "pending" =>
                 cards'[i].status = cards[i].status /\ cards'[i].by = cards[i].by
<1>1. Cards' = Cards
  BY DEF Cards
<1>2. \A i \in Cards : CardOK(cards[i])'
  BY CardStaysOK
<1>3. ASSUME NEW i \in Cards, NEW j \in Cards, NEW c \in DOMAIN cards'[i].items,
             NEW o \in DOMAIN cards'[j].items, cards'[i].items[c] = "allowed", <<i, c>> # <<j, o>>
      PROVE  cards'[j].grant[o] # cards'[i].grant[c]
  <2>1. /\ cards'[i].grant = cards[i].grant /\ cards'[j].grant = cards[j].grant
        /\ c \in DOMAIN cards[i].items /\ o \in DOMAIN cards[j].items
    BY <1>3 DEF CardFollows
  <2>2. cards[i].items[c] = "allowed"
    BY <1>3 DEF CardFollows
  <2>3. GaveApart
    BY DEF VaultInvariant, CardsOK
  <2> QED BY <1>3, <2>1, <2>2, <2>3 DEF GaveApart
<1>4. GaveApart'
  BY <1>1, <1>3 DEF GaveApart
<1>5. CardsOK'
  BY <1>1, <1>2, <1>4 DEF CardsOK
<1>6. \A i \in Cards : cards[i].status # "pending" =>
          cards'[i].status = cards[i].status /\ cards'[i].by = cards[i].by
  BY DEF CardFollows
<1> QED BY <1>5, <1>6

(* The credentials outside D that were there are there, and on if they were. *)
StayOnBut(D) ==
    \A c \in Credentials \ D : Live(c) => Live(c)' /\ (vault'[c].frozen => vault[c].frozen)

LEMMA OneStaysOn ==
    ASSUME CustodyInvariant, NEW c \in Credentials, NEW row, vault' = [vault EXCEPT ![c] = row]
    PROVE  /\ StayOnBut({c})
           /\ (~Live(c) \/ (row.state = "live" /\ (row.frozen => vault[c].frozen))) => StayOnBut({})
<1>1. vault'[c] = row /\ \A o \in Credentials \ {c} : vault'[o] = vault[o]
  BY DEF CustodyInvariant, CustodyShape
<1> QED BY <1>1 DEF StayOnBut, Live

LEMMA CustodyStaysOn ==
    ASSUME CustodyInvariant, NEW m \in Members, NEW c \in Credentials
    PROVE  /\ \A S \in SUBSET Members, mode \in budget.modes, captured \in BOOLEAN :
                 \A w \in Sealings(S) : Create(m, c, S, w, mode, captured) => StayOnBut({})
           /\ \A S \in SUBSET Members, mode \in budget.modes :
                 \A w \in Sealings(S) : Update(m, c, S, w, mode) => StayOnBut({})
           /\ \A r \in Members : AddCustodian(m, c, r) \/ RemoveCustodian(m, c, r) => StayOnBut({})
           /\ Delete(m, c) => StayOnBut({c})
           /\ SetFrozen(c, TRUE) => StayOnBut({c})
           /\ SetFrozen(c, FALSE) => StayOnBut({})
           /\ RotateKey(m) => StayOnBut({})
<1>1. /\ vault[c] \in CredentialRows /\ vault \in [Credentials -> CredentialRows]
  BY DEF CustodyInvariant, CustodyShape
<1>2. ASSUME NEW S \in SUBSET Members, NEW mode \in budget.modes, NEW captured \in BOOLEAN,
             NEW w \in Sealings(S), Create(m, c, S, w, mode, captured)
      PROVE  StayOnBut({})
  <2> DEFINE row == [state |-> "live", version |-> 1, policy |-> 1, frozen |-> captured,
                     mode |-> mode, wraps |-> w, managers |-> S]
  <2>1. vault' = [vault EXCEPT ![c] = row] /\ ~Live(c)
    BY <1>2 DEF Create, Live
  <2> HIDE DEF row
  <2>2. \A o \in Credentials \ {c} : vault'[o] = vault[o]
    BY <1>1, <2>1
  <2> QED BY <2>1, <2>2 DEF StayOnBut, Live
<1>3. ASSUME NEW S \in SUBSET Members, NEW mode \in budget.modes, NEW w \in Sealings(S),
             Update(m, c, S, w, mode)
      PROVE  StayOnBut({})
  <2> DEFINE row == [vault[c] EXCEPT !.version = @ + 1, !.policy = @ + 1,
                                     !.mode = mode, !.wraps = w, !.managers = S]
  <2>1. vault' = [vault EXCEPT ![c] = row] /\ Live(c)
    BY <1>1, <1>3 DEF Update, Manages
  <2>2. row.state = vault[c].state /\ row.frozen = vault[c].frozen
    BY <1>1 DEF CredentialRows
  <2> HIDE DEF row
  <2> QED BY <2>1, <2>2, OneStaysOn DEF Live
<1>4. ASSUME NEW r \in Members, AddCustodian(m, c, r) PROVE StayOnBut({})
  <2> DEFINE row == [vault[c] EXCEPT !.policy = @ + 1, !.wraps[r] = keys[r], !.managers = @ \cup {r}]
  <2>1. vault' = [vault EXCEPT ![c] = row] /\ Live(c)
    BY <1>1, <1>4 DEF AddCustodian, Manages
  <2>2. row.state = vault[c].state /\ row.frozen = vault[c].frozen
    BY <1>1 DEF CredentialRows
  <2> HIDE DEF row
  <2> QED BY <2>1, <2>2, OneStaysOn DEF Live
<1>5. ASSUME NEW r \in Members, RemoveCustodian(m, c, r) PROVE StayOnBut({})
  <2> DEFINE w == [o \in Members |-> IF o \in Custodians(c) \ {r} THEN keys[o] ELSE 0]
             row == [vault[c] EXCEPT !.version = @ + 1, !.policy = @ + 1, !.wraps = w,
                                     !.managers = @ \ {r}]
  <2>1. vault' = [vault EXCEPT ![c] = row] /\ Live(c)
    BY <1>1, <1>5 DEF RemoveCustodian, Manages
  <2> HIDE DEF w
  <2>2. row.state = vault[c].state /\ row.frozen = vault[c].frozen
    BY <1>1 DEF CredentialRows
  <2> HIDE DEF row
  <2> QED BY <2>1, <2>2, OneStaysOn DEF Live
<1>6. Delete(m, c) => StayOnBut({c})
  BY OneStaysOn DEF Delete
<1>7. ASSUME NEW off \in BOOLEAN, SetFrozen(c, off)
      PROVE  StayOnBut({c}) /\ (~off => StayOnBut({}))
  <2> DEFINE row == [vault[c] EXCEPT !.frozen = off]
  <2>1. vault' = [vault EXCEPT ![c] = row] /\ Live(c)
    BY <1>1, <1>7 DEF SetFrozen
  <2>2. row.state = vault[c].state /\ row.frozen = off
    BY <1>1 DEF CredentialRows
  <2> HIDE DEF row
  <2> QED BY <2>1, <2>2, OneStaysOn DEF Live
<1>8. ASSUME RotateKey(m) PROVE StayOnBut({})
  <2>1. ASSUME NEW o \in Credentials
        PROVE  vault'[o].state = vault[o].state /\ vault'[o].frozen = vault[o].frozen
    <3>1. vault[o] \in CredentialRows
      BY <1>1
    <3>2. vault'[o] = IF o \in Held(m)
                      THEN [vault[o] EXCEPT !.wraps[m] = keys[m] + 1, !.policy = @ + 1] ELSE vault[o]
      BY <1>8, <2>1, Zenon DEF RotateKey
    <3> QED BY <3>1, <3>2 DEF CredentialRows
  <2> QED BY <2>1 DEF StayOnBut, Live
<1> QED BY <1>2, <1>3, <1>4, <1>5, <1>6, <1>7, <1>8

(* A card that waits has no answers, and lapses with none. *)
LEMMA LapsedFollows ==
    ASSUME VaultInvariant, NEW i \in Cards, cards[i].status = "pending"
    PROVE  /\ CardFollows(cards[i], Lapsed(cards[i]))
           /\ Lapsed(cards[i]).status = "expired"
           /\ DOMAIN Lapsed(cards[i]).items = DOMAIN cards[i].items
<1> DEFINE D == DOMAIN cards[i].items
           f == [c \in D |-> IF cards[i].items[c] = None THEN "denied" ELSE cards[i].items[c]]
           new == [cards[i] EXCEPT !.status = "expired", !.items = f]
<1>1. cards[i] \in CardRows /\ CardOK(cards[i]) /\ D \subseteq Credentials
  BY CardTyped
<1>2. Lapsed(cards[i]) = new
  BY <1>1 DEF Lapsed, CardRows
<1>3. \A c \in D : f[c] = "denied"
  BY <1>1 DEF CardOK
<1>4. f \in Notes({None, "denied", "allowed"}) /\ DOMAIN f = D
  <2>1. f \in [D -> {None, "denied", "allowed"}]
    BY <1>3
  <2> QED BY <1>1, <2>1 DEF Notes
<1> HIDE DEF f
<1>5. new \in CardRows
  BY <1>1, <1>4 DEF CardRows, CardStatuses
<1>6. /\ new.tuple = cards[i].tuple /\ new.grant = cards[i].grant /\ new.version = cards[i].version
      /\ new.policy = cards[i].policy /\ new.approvers = cards[i].approvers
      /\ new.status = "expired" /\ new.items = f
  BY <1>1 DEF CardRows
<1> HIDE DEF new
<1> QED BY <1>2, <1>3, <1>4, <1>5, <1>6 DEF CardFollows

LEMMA SameCardFollows ==
    ASSUME VaultInvariant, NEW i \in Cards
    PROVE  CardFollows(cards[i], cards[i])
BY CardTyped DEF CardFollows

(* Some of the cards that wait lapse. *)
LEMMA CancelledCards ==
    ASSUME VaultInvariant, NEW I, NEW cs, cs = Cancelled(cards, I)
    PROVE  /\ cs \in Seq(CardRows) /\ Len(cs) = Len(cards)
           /\ \A i \in Cards :
                 /\ CardFollows(cards[i], cs[i])
                 /\ DOMAIN cs[i].items = DOMAIN cards[i].items
                 /\ cs[i].status = "pending" => i \notin I /\ cs[i] = cards[i]
<1>1. Len(cards) \in Nat
  BY SeqIsFunction DEF VaultInvariant, CardsOK
<1>2. /\ cs = [i \in 1 .. Len(cards) |-> cs[i]]
      /\ \A i \in Cards : cs[i] = IF cards[i].status = "pending" /\ i \in I
                                  THEN Lapsed(cards[i]) ELSE cards[i]
  BY DEF Cancelled, Cards
<1>3. ASSUME NEW i \in Cards
      PROVE  /\ CardFollows(cards[i], cs[i])
             /\ DOMAIN cs[i].items = DOMAIN cards[i].items
             /\ cs[i].status = "pending" => i \notin I /\ cs[i] = cards[i]
  <2>1. CASE cards[i].status = "pending" /\ i \in I
    BY <1>2, <2>1, LapsedFollows
  <2>2. CASE ~(cards[i].status = "pending" /\ i \in I)
    BY <1>2, <2>2, SameCardFollows
  <2> QED BY <2>1, <2>2
<1>4. \A i \in Cards : cs[i] \in CardRows
  BY <1>3 DEF CardFollows
<1>5. cs \in [1 .. Len(cards) -> CardRows]
  BY <1>2, <1>4 DEF Cards
<1>6. cs \in Seq(CardRows) /\ Len(cs) = Len(cards)
  BY <1>1, <1>5, FunctionIsSeq
<1> QED BY <1>3, <1>6

LEMMA CancellingKeeps ==
    ASSUME VaultInvariant, NEW C, OnlyTouches(C), NEW D, StayOnBut(D),
           CustodyInvariant', GrantsOK', GrantsKept, NEW I, cards' = Cancelled(cards, I),
           dropped' = dropped \/ dropped' \subseteq Cards,
           \A c \in D : c \in Credentials => c \notin C,
           \A i \in Cards \ I : cards[i].status = "pending" =>
              access'.on /\ ~agentOff' /\ \A c \in D : c \notin DOMAIN cards[i].items
    PROVE  /\ CardsOK'
           /\ \A i \in Cards : cards[i].status # "pending" =>
                 cards'[i].status = cards[i].status /\ cards'[i].by = cards[i].by
<1>1. /\ cards' \in Seq(CardRows) /\ Len(cards') = Len(cards)
      /\ \A i \in Cards :
            /\ CardFollows(cards[i], cards'[i])
            /\ DOMAIN cards'[i].items = DOMAIN cards[i].items
            /\ cards'[i].status = "pending" => i \notin I /\ cards'[i] = cards[i]
  BY CancelledCards
<1>2. ASSUME NEW i \in Cards, NEW c \in DOMAIN cards'[i].items PROVE Live(c)'
  <2>1. c \in Credentials /\ Live(c)
    BY <1>1, <1>2, CardTyped DEF CardOK
  <2>2. CASE c \in D
    BY <2>1, <2>2 DEF OnlyTouches
  <2>3. CASE c \notin D
    BY <2>1, <2>3 DEF StayOnBut
  <2> QED BY <2>2, <2>3
<1>3. ASSUME NEW i \in Cards, cards'[i].status = "pending"
      PROVE  access'.on /\ ~agentOff' /\ \A c \in DOMAIN cards'[i].items : ~vault'[c].frozen
  <2>1. i \notin I /\ cards'[i] = cards[i] /\ cards[i].status = "pending"
    BY <1>1, <1>3
  <2>2. \A c \in DOMAIN cards[i].items : c \in Credentials /\ Live(c) /\ ~vault[c].frozen
    BY <2>1, CardTyped DEF CardOK
  <2>3. \A c \in DOMAIN cards[i].items : c \notin D
    BY <2>1
  <2> QED BY <2>1, <2>2, <2>3 DEF StayOnBut
<1>4. dropped' \subseteq Cards
  BY DEF VaultInvariant, CardsOK
<1> QED BY <1>1, <1>2, <1>3, <1>4, CardsFollow

(* Cards that stay as they are. *)
LEMMA StillCards ==
    ASSUME VaultInvariant, NEW C, OnlyTouches(C), StayOnBut({}),
           CustodyInvariant', GrantsOK', GrantsKept, UNCHANGED <<cards, dropped>>,
           access.on => access'.on, agentOff' => agentOff
    PROVE  CardsOK'
<1>1. cards \in Seq(CardRows) /\ dropped \subseteq Cards
  BY DEF VaultInvariant, CardsOK
<1>2. ASSUME NEW i \in Cards
      PROVE  /\ CardFollows(cards[i], cards'[i])
             /\ \A c \in DOMAIN cards'[i].items : Live(c)'
             /\ cards'[i].status = "pending" =>
                   access'.on /\ ~agentOff' /\ \A c \in DOMAIN cards'[i].items : ~vault'[c].frozen
  <2>1. CardOK(cards[i]) /\ DOMAIN cards[i].items \subseteq Credentials
    BY CardTyped
  <2> QED BY <2>1, SameCardFollows DEF StayOnBut, CardOK
<1> QED BY <1>1, <1>2, CardsFollow

-----------------------------------------------------------------------------
(* Deadlines, requests and switches that a step leaves alone. *)

(* What was told of a request is not told otherwise. *)
ProxiesKept ==
    \A k \in Keys : proxies[k].state # "none" =>
        \/ proxies[k].state \in {"pending", proxies'[k].state} /\ proxies'[k].state # "none"
        \/ proxies'[k].state = "none" /\ vault'[proxies[k].cred].state = "deleted"

Kept == VaultInvariant' /\ AnswersKept /\ ProxiesKept

LEMMA StillDeadline ==
    ASSUME VaultInvariant, Len(cards') = Len(cards), UNCHANGED <<deadline, dropped>>,
           expiry' \in Int \cup {None},
           \A i \in Cards : cards'[i].status = "pending" =>
              cards[i].status = "pending" /\ cards'[i].left = cards[i].left
    PROVE  DeadlineOK'
<1>1. /\ deadline \in Int \cup {None}
      /\ \A i \in Pending(cards) \ dropped :
            deadline # None /\ (deadline <= cards[i].left \/ deadline <= 0)
  BY DEF VaultInvariant, DeadlineOK
<1>2. ASSUME NEW i \in Pending(cards') \ dropped'
      PROVE  deadline' # None /\ (deadline' <= cards'[i].left \/ deadline' <= 0)
  <2>1. i \in Pending(cards) \ dropped /\ cards'[i].left = cards[i].left
    BY <1>2 DEF Pending, Cards
  <2> QED BY <1>1, <2>1
<1>3. Pending(cards)' = Pending(cards')
  BY DEF Pending
<1> QED BY <1>1, <1>2, <1>3 DEF DeadlineOK

LEMMA StillProxies ==
    ASSUME VaultInvariant, StayOnBut({}), UNCHANGED proxies
    PROVE  ProxiesOK' /\ ProxiesKept
<1>1. /\ proxies \in [Keys -> ProxyRows]
      /\ \A k \in Keys :
            /\ proxies[k].state # "none" => proxies[k].cred \in Credentials /\ Live(proxies[k].cred)
            /\ proxies[k].state = "none" => proxies[k].frames = 0
            /\ proxies[k].frames <= 1
            /\ proxies[k].uses = IF proxies[k].state = "completed" THEN 1 ELSE 0
  BY DEF VaultInvariant, ProxiesOK
<1>2. \A k \in Keys : proxies[k].state # "none" => Live(proxies[k].cred)'
  BY <1>1 DEF StayOnBut
<1> QED BY <1>1, <1>2 DEF ProxiesOK, ProxiesKept

LEMMA OneProxy ==
    ASSUME VaultInvariant, StayOnBut({}), NEW k \in Keys, NEW row \in ProxyRows,
           proxies' = [proxies EXCEPT ![k] = row],
           row.state # "none", row.cred \in Credentials, Live(row.cred)',
           row.frames <= 1, row.uses = IF row.state = "completed" THEN 1 ELSE 0,
           proxies[k].state \in {"none", "pending", row.state}
    PROVE  ProxiesOK' /\ ProxiesKept
<1>1. /\ proxies \in [Keys -> ProxyRows]
      /\ \A j \in Keys :
            /\ proxies[j].state # "none" => proxies[j].cred \in Credentials /\ Live(proxies[j].cred)
            /\ proxies[j].state = "none" => proxies[j].frames = 0
            /\ proxies[j].frames <= 1
            /\ proxies[j].uses = IF proxies[j].state = "completed" THEN 1 ELSE 0
  BY DEF VaultInvariant, ProxiesOK
<1>2. /\ proxies' \in [Keys -> ProxyRows] /\ proxies'[k] = row
      /\ \A j \in Keys \ {k} : proxies'[j] = proxies[j]
  BY <1>1
<1>3. ASSUME NEW j \in Keys
      PROVE  /\ proxies'[j].state # "none" => proxies'[j].cred \in Credentials /\ Live(proxies[j].cred)'
             /\ proxies'[j].state = "none" => proxies'[j].frames = 0
             /\ proxies'[j].frames <= 1
             /\ proxies'[j].uses = IF proxies'[j].state = "completed" THEN 1 ELSE 0
             /\ proxies[j].state # "none" =>
                   proxies[j].state \in {"pending", proxies'[j].state} /\ proxies'[j].state # "none"
  <2>1. CASE j = k
    BY <1>2, <2>1
  <2>2. CASE j # k
    <3>1. proxies'[j] = proxies[j]
      BY <1>2, <2>2
    <3>2. proxies[j].state # "none" => Live(proxies[j].cred)'
      BY <1>1, <3>1 DEF StayOnBut
    <3> QED BY <1>1, <3>1, <3>2
  <2> QED BY <2>1, <2>2
<1> QED BY <1>2, <1>3 DEF ProxiesOK, ProxiesKept

LEMMA RefusingKeeps ==
    ASSUME VaultInvariant, StayOnBut({}), NEW C, proxies' = Refused(proxies, C)
    PROVE  ProxiesOK' /\ ProxiesKept
<1>1. /\ proxies \in [Keys -> ProxyRows]
      /\ \A j \in Keys :
            /\ proxies[j].state # "none" => proxies[j].cred \in Credentials /\ Live(proxies[j].cred)
            /\ proxies[j].state = "none" => proxies[j].frames = 0
            /\ proxies[j].frames <= 1
            /\ proxies[j].uses = IF proxies[j].state = "completed" THEN 1 ELSE 0
  BY DEF VaultInvariant, ProxiesOK
<1>2. /\ proxies' = [k \in Keys |-> proxies'[k]]
      /\ \A k \in Keys : proxies'[k] = IF proxies[k].state = "pending" /\ proxies[k].cred \in C
                                       THEN [proxies[k] EXCEPT !.state = "refused"] ELSE proxies[k]
  BY DEF Refused
<1>3. ASSUME NEW k \in Keys
      PROVE  /\ proxies'[k] \in ProxyRows
             /\ proxies'[k].cred = proxies[k].cred /\ proxies'[k].frames = proxies[k].frames
             /\ proxies'[k].uses = proxies[k].uses
             /\ \/ proxies'[k].state = proxies[k].state
                \/ proxies[k].state = "pending" /\ proxies'[k].state = "refused"
  <2>1. proxies[k] \in ProxyRows
    BY <1>1
  <2>2. CASE proxies[k].state = "pending" /\ proxies[k].cred \in C
    <3>1. proxies'[k] = [proxies[k] EXCEPT !.state = "refused"]
      BY <1>2, <2>2
    <3> QED BY <2>1, <2>2, <3>1 DEF ProxyRows, ProxyStates
  <2>3. CASE ~(proxies[k].state = "pending" /\ proxies[k].cred \in C)
    BY <1>2, <2>1, <2>3
  <2> QED BY <2>2, <2>3
<1>4. proxies' \in [Keys -> ProxyRows]
  BY <1>2, <1>3
<1>5. ASSUME NEW k \in Keys
      PROVE  /\ proxies'[k].state # "none" => proxies'[k].cred \in Credentials /\ Live(proxies[k].cred)'
             /\ proxies'[k].state = "none" => proxies'[k].frames = 0
             /\ proxies'[k].frames <= 1
             /\ proxies'[k].uses = IF proxies'[k].state = "completed" THEN 1 ELSE 0
             /\ proxies[k].state # "none" =>
                   proxies[k].state \in {"pending", proxies'[k].state} /\ proxies'[k].state # "none"
  <2>1. proxies'[k].state # "none" => proxies[k].state # "none"
    BY <1>3
  <2>2. proxies[k].state # "none" => Live(proxies[k].cred)'
    <3>1. CASE proxies[k].state # "none"
      <4>1. proxies[k].cred \in Credentials /\ Live(proxies[k].cred)
        BY <1>1, <3>1
      <4>2. vault'[proxies[k].cred].state = "live"
        BY <4>1 DEF StayOnBut, Live
      <4> QED BY <1>3, <4>2 DEF Live
    <3> QED BY <3>1
  <2> QED BY <1>1, <1>3, <2>1, <2>2
<1> QED BY <1>4, <1>5 DEF ProxiesOK, ProxiesKept

LEMMA StillSwitches ==
    ASSUME VaultInvariant, changes' \in Nat, changes <= changes', UNCHANGED access,
           agentOff' \in BOOLEAN, standing' \in BOOLEAN
    PROVE  SwitchesOK'
<1>1. /\ access \in [on : BOOLEAN, epoch : Nat] /\ changes \in Nat
      /\ access.epoch >= 1 /\ access.epoch <= changes + 1
  BY DEF VaultInvariant, SwitchesOK, CustodyInvariant, CustodyShape
<1>2. access.epoch \in Nat
  BY <1>1
<1>3. access.epoch <= changes' + 1
  BY <1>1, <1>2
<1> QED BY <1>1, <1>3 DEF SwitchesOK

-----------------------------------------------------------------------------
(* Every operation keeps the invariant: changes of custody. *)

LEMMA ChangesCount ==
    ASSUME VaultInvariant, Changing
    PROVE  changes' \in Nat /\ changes <= changes'
BY DEF Changing, VaultInvariant, CustodyInvariant, CustodyShape

LEMMA CallsStill ==
    ASSUME VaultInvariant, UNCHANGED <<sealing, opening>>
    PROVE  CallsOK'
BY DEF VaultInvariant, CallsOK

(* A step that leaves the tables of this module alone. *)
LEMMA CustodyOnlyKeeps ==
    ASSUME VaultInvariant, CustodyInvariant', OnlyTouches({}), StayOnBut({}),
           changes' \in Nat, changes <= changes', UNCHANGED releaseVars
    PROVE  Kept
<1> USE DEF releaseVars
<1>1. GrantsOK' /\ GrantsKept /\ \A g \in cut : grants'[g].uses = grants[g].uses
  BY StillGrants
<1>2. CardsOK'
  BY <1>1, StillCards
<1>3. DeadlineOK'
  BY StillDeadline DEF VaultInvariant, DeadlineOK
<1>4. ProxiesOK' /\ ProxiesKept
  BY StillProxies
<1>5. SwitchesOK'
  BY StillSwitches DEF VaultInvariant, SwitchesOK
<1>6. CallsOK'
  BY CallsStill
<1> QED BY <1>1, <1>2, <1>3, <1>4, <1>5, <1>6 DEF Kept, VaultInvariant, AnswersKept

(* A step that revokes the grants of D, cancels the cards of I and refuses  *)
(* requests, as custody changes do.                                         *)
LEMMA RevokedCancelledKeeps ==
    ASSUME VaultInvariant, CustodyInvariant', NEW C, OnlyTouches(C), StayOnBut({}), Changing,
           grants' = Revoked(grants, C),
           cards' = cards \/ \E I : cards' = Cancelled(cards, I),
           proxies' = proxies \/ \E R : proxies' = Refused(proxies, R),
           UNCHANGED <<access, agentOff, standing, deadline, expiry, sealing, opening, cut, dropped>>
    PROVE  Kept
<1>1. GrantsOK' /\ GrantsKept /\ \A g \in cut : grants'[g].uses = grants[g].uses
  BY RevokingKeeps
<1>2. changes' \in Nat /\ changes <= changes'
  BY ChangesCount
<1>3. SwitchesOK' /\ agentOff \in BOOLEAN /\ standing \in BOOLEAN
  BY <1>2, StillSwitches DEF VaultInvariant, SwitchesOK
<1>4. expiry' \in Int \cup {None}
  BY DEF VaultInvariant, DeadlineOK
<1>5. /\ CardsOK' /\ DeadlineOK'
      /\ \A i \in Cards : cards[i].status # "pending" =>
            cards'[i].status = cards[i].status /\ cards'[i].by = cards[i].by
  <2>1. CASE cards' = cards
    <3>1. CardsOK'
      BY <1>1, <2>1, StillCards
    <3>2. DeadlineOK'
      BY <1>4, <2>1, StillDeadline
    <3> QED BY <2>1, <3>1, <3>2
  <2>2. CASE \E I : cards' = Cancelled(cards, I)
    <3>1. PICK I : cards' = Cancelled(cards, I)
      BY <2>2
    <3>2. \A i \in Cards : cards[i].status = "pending" => access'.on /\ ~agentOff'
      BY CardTyped DEF CardOK
    <3>3. /\ CardsOK'
          /\ \A i \in Cards : cards[i].status # "pending" =>
                cards'[i].status = cards[i].status /\ cards'[i].by = cards[i].by
      BY <1>1, <3>1, <3>2, CancellingKeeps
    <3>4. /\ Len(cards') = Len(cards)
          /\ \A i \in Cards : cards'[i].status = "pending" => i \notin I /\ cards'[i] = cards[i]
      BY <3>1, CancelledCards
    <3>5. DeadlineOK'
      BY <1>4, <3>4, StillDeadline
    <3> QED BY <3>3, <3>5
  <2> QED BY <2>1, <2>2
<1>6. ProxiesOK' /\ ProxiesKept
  BY StillProxies, RefusingKeeps
<1>7. CallsOK'
  BY CallsStill
<1> QED BY <1>1, <1>3, <1>5, <1>6, <1>7 DEF Kept, VaultInvariant, AnswersKept

LEMMA PublishKeyKept ==
    ASSUME VaultInvariant, NEW m \in Members, PublishKey(m), UNCHANGED releaseVars
    PROVE  Kept
<1>1. CustodyInvariant' /\ OnlyTouches({})
  BY PublishKeyKeeps DEF VaultInvariant
<1>2. StayOnBut({}) /\ Changing
  BY DEF PublishKey, StayOnBut, Live
<1> QED BY <1>1, <1>2, ChangesCount, CustodyOnlyKeeps

LEMMA CreateCredentialKept ==
    ASSUME VaultInvariant, NEW m \in Members, NEW c \in Credentials, NEW S \in SUBSET Members,
           NEW w \in Sealings(S), NEW mode \in budget.modes, NEW captured \in BOOLEAN,
           CreateCredential(m, c, S, w, mode, captured)
    PROVE  Kept
<1>1. Create(m, c, S, w, mode, captured) /\ UNCHANGED releaseVars /\ CustodyInvariant
  BY DEF CreateCredential, VaultInvariant
<1>2. CustodyInvariant' /\ OnlyTouches({})
  BY <1>1, CreateKeeps
<1>3. StayOnBut({})
  BY <1>1, CustodyStaysOn
<1>4. Changing
  BY <1>1 DEF Create
<1> QED BY <1>1, <1>2, <1>3, <1>4, ChangesCount, CustodyOnlyKeeps

LEMMA UpdateCredentialKept ==
    ASSUME VaultInvariant, NEW m \in Members, NEW c \in Credentials, NEW S \in SUBSET Members,
           NEW w \in Sealings(S), NEW mode \in budget.modes, UpdateCredential(m, c, S, w, mode)
    PROVE  Kept
<1>1. /\ Update(m, c, S, w, mode) /\ CustodyInvariant /\ grants' = Revoked(grants, {c})
      /\ UNCHANGED <<access, agentOff, standing, cards, deadline, expiry, proxies,
                     sealing, opening, cut, dropped>>
  BY DEF UpdateCredential, VaultInvariant
<1>2. CustodyInvariant' /\ OnlyTouches({c})
  BY <1>1, UpdateKeeps
<1>3. StayOnBut({})
  BY <1>1, CustodyStaysOn
<1>4. Changing
  BY <1>1 DEF Update
<1> QED BY <1>1, <1>2, <1>3, <1>4, RevokedCancelledKeeps

LEMMA AddCredentialCustodianKept ==
    ASSUME VaultInvariant, NEW m \in Members, NEW c \in Credentials, NEW r \in Members,
           AddCredentialCustodian(m, c, r)
    PROVE  Kept
<1>1. /\ AddCustodian(m, c, r) /\ CustodyInvariant /\ grants' = Revoked(grants, {c})
      /\ cards' = Cancelled(cards, CardsOn({c}))
      /\ UNCHANGED <<access, agentOff, standing, deadline, expiry, proxies,
                     sealing, opening, cut, dropped>>
  BY DEF AddCredentialCustodian, VaultInvariant
<1>2. CustodyInvariant' /\ OnlyTouches({c})
  BY <1>1, AddCustodianKeeps
<1>3. StayOnBut({})
  BY <1>1, CustodyStaysOn
<1>4. Changing
  BY <1>1 DEF AddCustodian
<1> QED BY <1>1, <1>2, <1>3, <1>4, RevokedCancelledKeeps

LEMMA RemoveCredentialCustodianKept ==
    ASSUME VaultInvariant, NEW m \in Members, NEW c \in Credentials, NEW r \in Members,
           RemoveCredentialCustodian(m, c, r)
    PROVE  Kept
<1>1. /\ RemoveCustodian(m, c, r) /\ CustodyInvariant /\ grants' = Revoked(grants, {c})
      /\ cards' = Cancelled(cards, CardsOn({c})) /\ proxies' = Refused(proxies, {c})
      /\ UNCHANGED <<access, agentOff, standing, deadline, expiry, sealing, opening, cut, dropped>>
  BY DEF RemoveCredentialCustodian, VaultInvariant
<1>2. CustodyInvariant' /\ OnlyTouches({c})
  BY <1>1, RemoveCustodianKeeps
<1>3. StayOnBut({})
  BY <1>1, CustodyStaysOn
<1>4. Changing
  BY <1>1 DEF RemoveCustodian
<1> QED BY <1>1, <1>2, <1>3, <1>4, RevokedCancelledKeeps

LEMMA RotateMemberKeyKept ==
    ASSUME VaultInvariant, NEW m \in Members, RotateMemberKey(m)
    PROVE  Kept
<1>1. /\ RotateKey(m) /\ CustodyInvariant /\ grants' = Revoked(grants, Held(m))
      /\ cards' = Cancelled(cards, CardsOn(Held(m))) /\ proxies' = Refused(proxies, Held(m))
      /\ UNCHANGED <<access, agentOff, standing, deadline, expiry, sealing, opening, cut, dropped>>
  BY DEF RotateMemberKey, VaultInvariant
<1>2. CustodyInvariant' /\ OnlyTouches(Held(m))
  BY <1>1, RotateKeyKeeps
<1>3. StayOnBut({})
  <2>1. CASE \E c \in Credentials : TRUE
    BY <1>1, <2>1, CustodyStaysOn
  <2>2. CASE ~ \E c \in Credentials : TRUE
    BY <2>2 DEF StayOnBut
  <2> QED BY <2>1, <2>2
<1>4. Changing
  BY <1>1, Zenon DEF RotateKey
<1> QED BY <1>1, <1>2, <1>3, <1>4, RevokedCancelledKeeps

LEMMA ChangeMembershipKept ==
    ASSUME VaultInvariant, NEW m \in Members, NEW on \in BOOLEAN, ChangeMembership(m, on)
    PROVE  Kept
<1>1. /\ SetActive(m, on) /\ CustodyInvariant
      /\ \/ grants' = Revoked(grants, Credentials) /\ standing' = FALSE
         \/ grants' = grants /\ standing' = standing
      /\ UNCHANGED <<access, agentOff, cards, deadline, expiry, proxies, sealing, opening, cut, dropped>>
  BY DEF ChangeMembership, VaultInvariant
<1>2. Changing /\ UNCHANGED <<keys, vault, stale>> /\ active' \subseteq Members
  BY <1>1 DEF SetActive, CustodyInvariant, CustodyShape
<1>3. CustodyInvariant' /\ OnlyTouches({})
  BY <1>1, <1>2, ChangingKeeps
<1>4. StayOnBut({})
  BY <1>2 DEF StayOnBut, Live
<1>5. GrantsOK' /\ GrantsKept /\ \A g \in cut : grants'[g].uses = grants[g].uses
  <2>1. CASE grants' = grants
    BY <1>1, <1>3, <2>1, StillGrants
  <2>2. CASE grants' = Revoked(grants, Credentials)
    BY <1>1, <1>3, <2>2, RevokingKeeps
  <2> QED BY <1>1, <2>1, <2>2
<1>6. CardsOK'
  BY <1>1, <1>3, <1>4, <1>5, StillCards
<1>7. DeadlineOK'
  BY <1>1, StillDeadline DEF VaultInvariant, DeadlineOK
<1>8. ProxiesOK' /\ ProxiesKept
  BY <1>1, <1>4, StillProxies
<1>9. SwitchesOK'
  BY <1>1, <1>2, ChangesCount, StillSwitches DEF VaultInvariant, SwitchesOK
<1>10. CallsOK'
  BY <1>1, CallsStill
<1> QED BY <1>1, <1>3, <1>5, <1>6, <1>7, <1>8, <1>9, <1>10 DEF Kept, VaultInvariant, AnswersKept

(* The items of a credential go with its row. *)
LEMMA WithoutFollows ==
    ASSUME VaultInvariant, NEW c \in Credentials, cards' = WithoutCredential(cards, c)
    PROVE  /\ cards' \in Seq(CardRows) /\ Len(cards') = Len(cards)
           /\ \A i \in Cards : /\ CardFollows(cards[i], cards'[i])
                               /\ DOMAIN cards'[i].items = DOMAIN cards[i].items \ {c}
                               /\ cards'[i].status = cards[i].status /\ cards'[i].by = cards[i].by
                               /\ cards'[i].left = cards[i].left
<1>1. Len(cards) \in Nat
  BY SeqIsFunction DEF VaultInvariant, CardsOK
<1>2. cards' = [i \in 1 .. Len(cards) |-> cards'[i]]
  BY DEF WithoutCredential
<1>3. ASSUME NEW i \in Cards
      PROVE  /\ CardFollows(cards[i], cards'[i])
             /\ DOMAIN cards'[i].items = DOMAIN cards[i].items \ {c}
             /\ cards'[i].status = cards[i].status /\ cards'[i].by = cards[i].by
             /\ cards'[i].left = cards[i].left
  <2> DEFINE D == DOMAIN cards[i].items
             f == [o \in D \ {c} |-> cards[i].items[o]]
             new == [cards[i] EXCEPT !.items = f]
  <2>1. /\ cards[i] \in CardRows /\ D \subseteq Credentials
        /\ \A o \in D : cards[i].items[o] \in {None, "denied", "allowed"}
    BY CardTyped
  <2>2. cards'[i] = new
    BY <2>1 DEF WithoutCredential, Cards, CardRows
  <2>3. DOMAIN f = D \ {c} /\ \A o \in D \ {c} : f[o] = cards[i].items[o]
    OBVIOUS
  <2>4. f \in Notes({None, "denied", "allowed"})
    <3>1. f \in [D \ {c} -> {None, "denied", "allowed"}]
      BY <2>1
    <3> QED BY <2>1, <3>1 DEF Notes
  <2> HIDE DEF f
  <2>5. new \in CardRows
    BY <2>1, <2>4 DEF CardRows
  <2>6. /\ new.tuple = cards[i].tuple /\ new.grant = cards[i].grant /\ new.version = cards[i].version
        /\ new.policy = cards[i].policy /\ new.approvers = cards[i].approvers
        /\ new.status = cards[i].status /\ new.by = cards[i].by /\ new.left = cards[i].left
        /\ new.items = f
    BY <2>1 DEF CardRows
  <2> HIDE DEF new
  <2> QED BY <2>2, <2>3, <2>5, <2>6 DEF CardFollows
<1>4. \A i \in Cards : cards'[i] \in CardRows
  BY <1>3 DEF CardFollows
<1>5. cards' \in [1 .. Len(cards) -> CardRows]
  BY <1>2, <1>4 DEF Cards
<1>6. cards' \in Seq(CardRows) /\ Len(cards') = Len(cards)
  BY <1>1, <1>5, FunctionIsSeq
<1> QED BY <1>3, <1>6

LEMMA DeleteCredentialKept ==
    ASSUME VaultInvariant, NEW m \in Members, NEW c \in Credentials, DeleteCredential(m, c)
    PROVE  Kept
<1>1. /\ Delete(m, c) /\ CustodyInvariant /\ grants' = Revoked(grants, {c})
      /\ cards' = WithoutCredential(cards, c)
      /\ proxies' = [k \in Keys |-> IF proxies[k].cred = c THEN NoProxy ELSE proxies[k]]
      /\ UNCHANGED <<access, agentOff, standing, deadline, expiry, sealing, opening, cut, dropped>>
  BY DEF DeleteCredential, VaultInvariant
<1>2. CustodyInvariant' /\ OnlyTouches({c}) /\ ~Live(c)'
  BY <1>1, DeleteKeeps
<1>3. StayOnBut({c})
  BY <1>1, CustodyStaysOn
<1>4. Changing /\ vault'[c].state = "deleted"
  BY <1>1 DEF Delete, Deleted, NoCredential, CustodyInvariant, CustodyShape
<1>5. GrantsOK' /\ GrantsKept /\ \A g \in cut : grants'[g].uses = grants[g].uses
  BY <1>1, <1>2, RevokingKeeps
<1>6. /\ cards' \in Seq(CardRows) /\ Len(cards') = Len(cards)
      /\ \A i \in Cards : /\ CardFollows(cards[i], cards'[i])
                          /\ DOMAIN cards'[i].items = DOMAIN cards[i].items \ {c}
                          /\ cards'[i].status = cards[i].status /\ cards'[i].by = cards[i].by
                          /\ cards'[i].left = cards[i].left
  BY <1>1, WithoutFollows
<1>7. ASSUME NEW i \in Cards
      PROVE  /\ \A o \in DOMAIN cards'[i].items : Live(o)'
             /\ cards'[i].status = "pending" =>
                   access'.on /\ ~agentOff' /\ \A o \in DOMAIN cards'[i].items : ~vault'[o].frozen
  <2>1. CardOK(cards[i]) /\ DOMAIN cards[i].items \subseteq Credentials
    BY CardTyped
  <2> QED BY <1>1, <1>3, <1>6, <2>1 DEF CardOK, StayOnBut
<1>8. dropped' \subseteq Cards
  BY <1>1 DEF VaultInvariant, CardsOK
<1>9. CardsOK'
  BY <1>2, <1>5, <1>6, <1>7, <1>8, CardsFollow
<1>10. DeadlineOK'
  BY <1>1, <1>6, StillDeadline DEF VaultInvariant, DeadlineOK
<1>11. /\ proxies \in [Keys -> ProxyRows]
       /\ \A k \in Keys :
             /\ proxies[k].state # "none" => proxies[k].cred \in Credentials /\ Live(proxies[k].cred)
             /\ proxies[k].state = "none" => proxies[k].frames = 0
             /\ proxies[k].frames <= 1
             /\ proxies[k].uses = IF proxies[k].state = "completed" THEN 1 ELSE 0
  BY DEF VaultInvariant, ProxiesOK
<1>12. NoProxy \in ProxyRows /\ NoProxy.state = "none" /\ NoProxy.frames = 0 /\ NoProxy.uses = 0
  BY DEF NoProxy, ProxyRows, ProxyStates
<1>13. \A k \in Keys : proxies'[k] = IF proxies[k].cred = c THEN NoProxy ELSE proxies[k]
  BY <1>1
<1>14. proxies' \in [Keys -> ProxyRows]
  BY <1>1, <1>11, <1>12
<1>15. ASSUME NEW k \in Keys
       PROVE  /\ proxies'[k].state # "none" => proxies'[k].cred \in Credentials /\ Live(proxies[k].cred)'
              /\ proxies'[k].state = "none" => proxies'[k].frames = 0
              /\ proxies'[k].frames <= 1
              /\ proxies'[k].uses = IF proxies'[k].state = "completed" THEN 1 ELSE 0
  <2>1. CASE proxies[k].cred = c
    <3>1. proxies'[k] = NoProxy
      BY <1>13, <2>1
    <3> QED BY <1>12, <3>1
  <2>2. CASE proxies[k].cred # c
    <3>1. proxies'[k] = proxies[k]
      BY <1>13, <2>2
    <3>2. proxies[k].state # "none" => Live(proxies[k].cred)'
      BY <1>3, <1>11, <2>2, <3>1 DEF StayOnBut, Live
    <3> QED BY <1>11, <3>1, <3>2
  <2> QED BY <2>1, <2>2
<1>16. ProxiesOK'
  BY <1>14, <1>15 DEF ProxiesOK
<1>17. ProxiesKept
  BY <1>4, <1>12, <1>13 DEF ProxiesKept
<1>18. SwitchesOK' /\ CallsOK'
  BY <1>1, <1>4, ChangesCount, StillSwitches, CallsStill DEF VaultInvariant, SwitchesOK
<1> QED BY <1>2, <1>5, <1>6, <1>9, <1>10, <1>16, <1>17, <1>18 DEF Kept, VaultInvariant, AnswersKept

-----------------------------------------------------------------------------
(* The kill switches. *)

LEMMA FreezeKept ==
    ASSUME VaultInvariant, NEW c \in Credentials, Freeze(c)
    PROVE  Kept
<1>1. /\ SetFrozen(c, TRUE) /\ CustodyInvariant /\ grants' = Revoked(grants, {c})
      /\ cards' = Cancelled(cards, CardsOn({c})) /\ cut' = cut \cup Existing({c})
      /\ UNCHANGED <<access, agentOff, standing, deadline, expiry, proxies, sealing, opening, dropped>>
  BY DEF Freeze, VaultInvariant
<1>2. CustodyInvariant' /\ OnlyTouches({})
  BY <1>1, SetFrozenKeeps
<1>3. StayOnBut({c}) /\ Changing
  <2>1. Requester \in Members
    BY VaultAssumption
  <2>2. StayOnBut({c})
    BY <1>1, <2>1, CustodyStaysOn
  <2> QED BY <1>1, <2>2 DEF SetFrozen
<1>4. \A g \in cut' \ cut : g \in Grants /\ grants[g].cred \in {c}
  BY <1>1 DEF Existing
<1>5. GrantsOK' /\ GrantsKept /\ \A g \in cut : grants'[g].uses = grants[g].uses
  BY <1>1, <1>2, <1>4, RevokingKeeps
<1>6. \A i \in Cards \ CardsOn({c}) : cards[i].status = "pending" =>
         access'.on /\ ~agentOff' /\ \A o \in {c} : o \notin DOMAIN cards[i].items
  BY <1>1, CardTyped DEF CardOK, CardsOn
<1>7. /\ CardsOK'
      /\ \A i \in Cards : cards[i].status # "pending" =>
            cards'[i].status = cards[i].status /\ cards'[i].by = cards[i].by
  BY <1>1, <1>2, <1>3, <1>5, <1>6, CancellingKeeps
<1>8. /\ Len(cards') = Len(cards)
      /\ \A i \in Cards : cards'[i].status = "pending" => cards'[i] = cards[i]
  BY <1>1, CancelledCards
<1>9. DeadlineOK'
  BY <1>1, <1>8, StillDeadline DEF VaultInvariant, DeadlineOK
<1>10. \A o \in Credentials : Live(o) => Live(o)'
  BY <1>2 DEF OnlyTouches
<1>11. ProxiesOK' /\ ProxiesKept
  BY <1>1, <1>10 DEF VaultInvariant, ProxiesOK, ProxiesKept, Live
<1>12. SwitchesOK' /\ CallsOK'
  BY <1>1, <1>3, ChangesCount, StillSwitches, CallsStill DEF VaultInvariant, SwitchesOK
<1> QED BY <1>2, <1>5, <1>7, <1>9, <1>11, <1>12 DEF Kept, VaultInvariant, AnswersKept

LEMMA UnfreezeKept ==
    ASSUME VaultInvariant, NEW c \in Credentials, Unfreeze(c)
    PROVE  Kept
<1>1. SetFrozen(c, FALSE) /\ UNCHANGED releaseVars /\ CustodyInvariant
  BY DEF Unfreeze, VaultInvariant
<1>2. CustodyInvariant' /\ OnlyTouches({})
  BY <1>1, SetFrozenKeeps
<1>3. StayOnBut({}) /\ Changing
  <2>1. Requester \in Members
    BY VaultAssumption
  <2>2. StayOnBut({})
    BY <1>1, <2>1, CustodyStaysOn
  <2> QED BY <1>1, <2>2 DEF SetFrozen
<1> QED BY <1>1, <1>2, <1>3, ChangesCount, CustodyOnlyKeeps

(* The switch of one agent, and of the workspace. *)
LEMMA SwitchKept ==
    ASSUME VaultInvariant, Changing, UNCHANGED <<active, keys, vault, stale, standing, deadline, expiry,
                                                 proxies, sealing, opening, dropped>>,
           SwitchesOK',
           \/ /\ grants' = Revoked(grants, Credentials) /\ cut' \in {cut, Grants}
           \/ /\ grants' = grants /\ cut' = cut /\ access' = access,
           \/ cards' = Cancelled(cards, Cards)
           \/ cards' = cards /\ (access.on => access'.on) /\ (agentOff' => agentOff)
    PROVE  Kept
<1>1. CustodyInvariant' /\ OnlyTouches({})
  BY ChangingKeeps DEF VaultInvariant, CustodyInvariant, CustodyShape
<1>2. StayOnBut({})
  BY DEF StayOnBut, Live
<1>3. GrantsOK' /\ GrantsKept /\ \A g \in cut : grants'[g].uses = grants[g].uses
  <2>1. CASE grants' = grants /\ cut' = cut /\ access' = access
    BY <1>1, <2>1, StillGrants
  <2>2. CASE grants' = Revoked(grants, Credentials) /\ cut' \in {cut, Grants}
    <3>1. \A g \in Grants : grants[g].cred \in Credentials
      <4>1. \A g \in Grants : grants[g] \in GrantRows
        BY SeqIsFunction DEF VaultInvariant, GrantsOK, Grants
      <4> QED BY <4>1 DEF GrantRows
    <3>2. \A g \in cut' \ cut : g \in Grants /\ grants[g].cred \in Credentials
      BY <2>2, <3>1
    <3> QED BY <1>1, <2>2, <3>2, RevokingKeeps
  <2> QED BY <2>1, <2>2
<1>4. /\ CardsOK' /\ DeadlineOK'
      /\ \A i \in Cards : cards[i].status # "pending" =>
            cards'[i].status = cards[i].status /\ cards'[i].by = cards[i].by
  <2>1. expiry' \in Int \cup {None}
    BY DEF VaultInvariant, DeadlineOK
  <2>2. CASE cards' = Cancelled(cards, Cards)
    <3>1. /\ CardsOK'
          /\ \A i \in Cards : cards[i].status # "pending" =>
                cards'[i].status = cards[i].status /\ cards'[i].by = cards[i].by
      BY <1>1, <1>2, <1>3, <2>2, CancellingKeeps
    <3>2. /\ Len(cards') = Len(cards)
          /\ \A i \in Cards : cards'[i].status = "pending" => cards'[i] = cards[i]
      BY <2>2, CancelledCards
    <3>3. DeadlineOK'
      BY <2>1, <3>2, StillDeadline
    <3> QED BY <3>1, <3>3
  <2>3. CASE cards' = cards /\ (access.on => access'.on) /\ (agentOff' => agentOff)
    <3>1. CardsOK'
      BY <1>1, <1>2, <1>3, <2>3, StillCards
    <3>2. DeadlineOK'
      BY <2>1, <2>3, StillDeadline
    <3> QED BY <2>3, <3>1, <3>2
  <2> QED BY <2>2, <2>3
<1>5. ProxiesOK' /\ ProxiesKept
  BY <1>2, StillProxies
<1>6. CallsOK'
  BY CallsStill
<1> QED BY <1>1, <1>3, <1>4, <1>5, <1>6 DEF Kept, VaultInvariant, AnswersKept

LEMMA SwitchAgentKept ==
    ASSUME VaultInvariant, NEW off \in BOOLEAN, SwitchAgent(off)
    PROVE  Kept
<1>1. /\ Changing /\ agentOff' = off
      /\ UNCHANGED <<active, keys, vault, stale, access, standing, deadline, expiry,
                     proxies, sealing, opening, dropped>>
      /\ \/ off /\ grants' = Revoked(grants, Credentials) /\ cards' = Cancelled(cards, Cards) /\ cut' = Grants
         \/ ~off /\ grants' = grants /\ cards' = cards /\ cut' = cut
  BY DEF SwitchAgent
<1>2. SwitchesOK'
  BY <1>1, ChangesCount, StillSwitches DEF VaultInvariant, SwitchesOK
<1> QED BY <1>1, <1>2, SwitchKept

LEMMA SwitchAccessKept ==
    ASSUME VaultInvariant, NEW on \in BOOLEAN, SwitchAccess(on)
    PROVE  Kept
<1>1. /\ Changing /\ access' = [on |-> on, epoch |-> access.epoch + 1]
      /\ grants' = Revoked(grants, Credentials) /\ cut' = Grants
      /\ \/ on /\ cards' = cards
         \/ ~on /\ cards' = Cancelled(cards, Cards)
      /\ UNCHANGED <<active, keys, vault, stale, agentOff, standing, deadline, expiry,
                     proxies, sealing, opening, dropped>>
  BY DEF SwitchAccess
<1>2. /\ changes' = changes + 1 /\ changes \in Nat /\ access.epoch \in Nat
      /\ access.epoch >= 1 /\ access.epoch <= changes + 1
      /\ agentOff \in BOOLEAN /\ standing \in BOOLEAN
  BY <1>1 DEF Changing, VaultInvariant, SwitchesOK, CustodyInvariant, CustodyShape
<1>3. access'.on = on /\ access'.epoch = access.epoch + 1
  BY <1>1
<1>4. access' \in [on : BOOLEAN, epoch : Nat]
  BY <1>1, <1>2
<1>5. access'.epoch >= 1 /\ access'.epoch <= changes' + 1
  BY <1>2, <1>3
<1>6. SwitchesOK'
  BY <1>1, <1>2, <1>4, <1>5 DEF SwitchesOK
<1> QED BY <1>1, <1>3, <1>6, SwitchKept

-----------------------------------------------------------------------------
(* Grants and the local release. *)

LEMMA CustodyStands ==
    ASSUME VaultInvariant, UNCHANGED custodyVars
    PROVE  CustodyInvariant' /\ OnlyTouches({}) /\ StayOnBut({}) /\ changes' \in Nat /\ changes <= changes'
<1>1. CustodyInvariant' /\ OnlyTouches({})
  BY StillKeeps DEF VaultInvariant
<1>2. StayOnBut({})
  BY DEF StayOnBut, Live, custodyVars
<1>3. changes' = changes /\ changes \in Nat
  BY DEF VaultInvariant, CustodyInvariant, CustodyShape, custodyVars
<1> QED BY <1>1, <1>2, <1>3

(* A step that changes grants only, or ends the delegation too. *)
LEMMA GrantsOnlyKeep ==
    ASSUME VaultInvariant,
           UNCHANGED <<custodyVars, access, agentOff, cards, deadline, expiry, proxies, sealing, opening, dropped>>,
           standing' \in BOOLEAN, GrantsOK', GrantsKept, \A g \in cut : grants'[g].uses = grants[g].uses
    PROVE  Kept
<1>1. CustodyInvariant' /\ OnlyTouches({}) /\ StayOnBut({}) /\ changes' \in Nat /\ changes <= changes'
  BY CustodyStands
<1>2. CardsOK'
  BY <1>1, StillCards
<1>3. DeadlineOK'
  BY StillDeadline DEF VaultInvariant, DeadlineOK
<1>4. ProxiesOK' /\ ProxiesKept
  BY <1>1, StillProxies
<1>5. SwitchesOK'
  BY <1>1, StillSwitches DEF VaultInvariant, SwitchesOK
<1>6. CallsOK'
  BY CallsStill
<1> QED BY <1>1, <1>2, <1>3, <1>4, <1>5, <1>6 DEF Kept, VaultInvariant, AnswersKept

LEMMA EndDelegationKept ==
    ASSUME VaultInvariant, EndDelegation
    PROVE  Kept
<1>1. /\ standing' = FALSE /\ grants' = Revoked(grants, Credentials)
      /\ UNCHANGED <<custodyVars, access, agentOff, cards, deadline, expiry,
                     proxies, sealing, opening, cut, dropped>>
  BY DEF EndDelegation
<1>2. GrantsOK' /\ GrantsKept /\ \A g \in cut : grants'[g].uses = grants[g].uses
  BY <1>1, CustodyStands, RevokingKeeps
<1> QED BY <1>1, <1>2, GrantsOnlyKeep

LEMMA IssueGrantKept ==
    ASSUME VaultInvariant, NEW m \in Members, NEW c \in Credentials, NEW t \in budget.tuples,
           NEW once \in BOOLEAN, IssueGrant(m, c, t, once)
    PROVE  Kept
<1>1. /\ Manages(m, c) /\ grants' = Append(grants, Grant(c, t, once, m))
      /\ UNCHANGED <<custodyVars, access, agentOff, standing, cards, deadline, expiry,
                     proxies, sealing, opening, cut, dropped>>
  BY DEF IssueGrant
<1>2. t \in Deliveries
  BY VaultAssumption DEF VaultInvariant, CustodyInvariant, CustodyShape, Deliveries
<1> DEFINE row == Grant(c, t, once, m)
<1>3. /\ row \in GrantRows /\ Stands(row) /\ (row.once => row.uses + row.remaining <= 1)
  BY <1>1, <1>2, GrantIsNew DEF Manages
<1>4. grants' = grants \o <<row>> /\ <<row>> \in Seq(GrantRows) /\ Len(<<row>>) = 1 /\ <<row>>[1] = row
  <2>1. grants \in Seq(GrantRows)
    BY DEF VaultInvariant, GrantsOK
  <2> HIDE DEF row
  <2>2. grants' = Append(grants, row)
    BY <1>1 DEF row
  <2> QED BY <1>3, <2>1, <2>2, AppendIsConcat
<1> HIDE DEF row
<1>5. \A n \in 1 .. Len(<<row>>) :
         Stands(<<row>>[n]) /\ (<<row>>[n].once => <<row>>[n].uses + <<row>>[n].remaining <= 1)
  <2>1. \A n \in 1 .. Len(<<row>>) : <<row>>[n] = row
    BY <1>4
  <2> QED BY <1>3, <2>1
<1>6. GrantsOK' /\ GrantsKept /\ \A g \in cut : grants'[g].uses = grants[g].uses
  BY <1>1, <1>4, <1>5, GivingKeeps
<1> QED BY <1>1, <1>6, GrantsOnlyKeep DEF VaultInvariant, SwitchesOK

LEMMA RevokeGrantKept ==
    ASSUME VaultInvariant, NEW m \in Members, NEW g \in Grants, RevokeGrant(m, g)
    PROVE  Kept
<1>1. /\ grants' = [grants EXCEPT ![g].revoked = TRUE]
      /\ UNCHANGED <<custodyVars, access, agentOff, standing, cards, deadline, expiry,
                     proxies, sealing, opening, cut, dropped>>
  BY DEF RevokeGrant
<1> DEFINE row == [grants[g] EXCEPT !.revoked = TRUE]
<1>2. GrantFollows(grants[g], row) /\ row.revoked /\ row.uses = grants[g].uses
  BY RevokedFollows
<1>3. grants \in Seq(GrantRows) /\ DOMAIN grants = 1 .. Len(grants)
  BY SeqIsFunction DEF VaultInvariant, GrantsOK
<1>4. grants' = [grants EXCEPT ![g] = row]
  BY <1>1, <1>3
<1> HIDE DEF row
<1>5. /\ grants' \in Seq(GrantRows) /\ Len(grants') = Len(grants)
      /\ \A h \in Grants : grants'[h] = IF h = g THEN row ELSE grants[h]
  BY <1>2, <1>3, <1>4, ExceptSeq DEF GrantFollows, Grants
<1>6. \A h \in Grants : GrantFollows(grants[h], grants'[h]) /\ grants'[h].uses = grants[h].uses
  BY <1>2, <1>5, SameGrantFollows
<1>7. \A h \in cut : h \in Grants /\ grants[h].revoked
  BY DEF VaultInvariant, GrantsOK
<1>8. GrantsOK' /\ GrantsKept
  BY <1>1, <1>5, <1>6, <1>7, CustodyStands, GrantsFollow DEF GrantFollows
<1> QED BY <1>1, <1>6, <1>7, <1>8, GrantsOnlyKeep DEF VaultInvariant, SwitchesOK

LEMMA ReleaseKept ==
    ASSUME VaultInvariant, NEW c \in Credentials, NEW t, Release(c, t)
    PROVE  Kept
<1>1. /\ grants' = Consumed(c, t, 0)
      /\ UNCHANGED <<custodyVars, access, agentOff, standing, cards, deadline, expiry,
                     proxies, sealing, opening, cut, dropped>>
  BY DEF Release
<1>2. GrantsOK' /\ GrantsKept /\ \A g \in cut : grants'[g].uses = grants[g].uses
  BY <1>1, ConsumedKeeps
<1> QED BY <1>1, <1>2, GrantsOnlyKeep DEF VaultInvariant, SwitchesOK

-----------------------------------------------------------------------------
(* Cards. *)

LEMMA ExpiredIsCancelled ==
    ASSUME NEW now
    PROVE  Expired(cards, now) = Cancelled(cards, {i \in Cards : cards[i].left <= now})
BY DEF Expired, Cancelled, Cards

LEMMA DecideLateKept ==
    ASSUME VaultInvariant, NEW m \in Members, NEW i \in Cards, DecideLate(m, i)
    PROVE  Kept
<1>1. /\ cards' = Expired(cards, 0) /\ deadline' = Armed(deadline, cards')
      /\ UNCHANGED <<custodyVars, access, agentOff, standing, grants, expiry,
                     proxies, sealing, opening, cut, dropped>>
  BY DEF DecideLate
<1>2. CustodyInvariant' /\ OnlyTouches({}) /\ StayOnBut({}) /\ changes' \in Nat /\ changes <= changes'
  BY <1>1, CustodyStands
<1>3. GrantsOK' /\ GrantsKept /\ \A g \in cut : grants'[g].uses = grants[g].uses
  BY <1>1, <1>2, StillGrants
<1> DEFINE I == {j \in Cards : cards[j].left <= 0}
<1>4. cards' = Cancelled(cards, I)
  BY <1>1, ExpiredIsCancelled
<1> HIDE DEF I
<1>5. \A j \in Cards \ I : cards[j].status = "pending" => access'.on /\ ~agentOff'
  BY <1>1, CardTyped DEF CardOK
<1>6. /\ CardsOK'
      /\ \A j \in Cards : cards[j].status # "pending" =>
            cards'[j].status = cards[j].status /\ cards'[j].by = cards[j].by
  BY <1>1, <1>2, <1>3, <1>4, <1>5, CancellingKeeps
<1>7. DeadlineOK'
  <2> DEFINE S == {cards'[j].left : j \in Pending(cards')}
  <2>1. cards' \in Seq(CardRows) /\ deadline \in Int \cup {None} /\ expiry' \in Int \cup {None}
    BY <1>1, <1>6 DEF VaultInvariant, DeadlineOK, CardsOK
  <2>2. \A j \in Pending(cards') : cards'[j] \in CardRows
    BY <2>1, SeqIsFunction DEF Pending
  <2>3. \A j \in Pending(cards') : cards'[j].left \in Int /\ cards'[j].left >= -1
    BY <2>2, VaultAssumption DEF CardRows, Past
  <2>4. Pending(cards)' = Pending(cards')
    BY DEF Pending
  <2>5. CASE Pending(cards') = {}
    BY <1>1, <2>1, <2>4, <2>5 DEF DeadlineOK, Armed
  <2>6. CASE Pending(cards') # {}
    <3>1. S \in SUBSET Int /\ S # {} /\ \A s \in S : s >= -1
      BY <2>3, <2>6
    <3> HIDE DEF S
    <3>2. Min(S) \in Int /\ \A s \in S : Min(S) <= s
      BY <3>1, MinIsEarliest
    <3>3. deadline' = Scheduled(deadline, Min(S))
      BY <1>1, <2>6 DEF Armed, S
    <3>4. deadline' \in Int /\ deadline' <= Min(S)
      BY <2>1, <3>2, <3>3 DEF Scheduled
    <3>5. ASSUME NEW j \in Pending(cards') PROVE deadline' <= cards'[j].left
      <4>1. cards'[j].left \in S
        BY DEF S
      <4>2. Min(S) <= cards'[j].left
        BY <3>2, <4>1
      <4> QED BY <2>3, <3>2, <3>4, <4>2
    <3> QED BY <2>1, <2>4, <3>4, <3>5, NoneIsNoAnswer DEF DeadlineOK
  <2> QED BY <2>5, <2>6
<1>8. ProxiesOK' /\ ProxiesKept
  BY <1>1, <1>2, StillProxies
<1>9. SwitchesOK' /\ CallsOK'
  BY <1>1, <1>2, StillSwitches, CallsStill DEF VaultInvariant, SwitchesOK
<1> QED BY <1>2, <1>3, <1>6, <1>7, <1>8, <1>9 DEF Kept, VaultInvariant, AnswersKept

LEMMA BeginExpiryKept ==
    ASSUME VaultInvariant, BeginExpiry
    PROVE  Kept
<1>1. /\ expiry' = 0
      /\ UNCHANGED <<custodyVars, access, agentOff, standing, grants, cards, deadline,
                     proxies, sealing, opening, cut, dropped>>
  BY DEF BeginExpiry
<1>2. CustodyInvariant' /\ OnlyTouches({}) /\ StayOnBut({}) /\ changes' \in Nat /\ changes <= changes'
  BY <1>1, CustodyStands
<1>3. GrantsOK' /\ GrantsKept /\ \A g \in cut : grants'[g].uses = grants[g].uses
  BY <1>1, <1>2, StillGrants
<1>4. CardsOK' /\ DeadlineOK'
  BY <1>1, <1>2, <1>3, StillCards, StillDeadline
<1>5. ProxiesOK' /\ ProxiesKept
  BY <1>1, <1>2, StillProxies
<1>6. SwitchesOK' /\ CallsOK'
  BY <1>1, <1>2, StillSwitches, CallsStill DEF VaultInvariant, SwitchesOK
<1> QED BY <1>1, <1>2, <1>3, <1>4, <1>5, <1>6 DEF Kept, VaultInvariant, AnswersKept

LEMMA EndExpiryKept ==
    ASSUME VaultInvariant, EndExpiry
    PROVE  Kept
<1>1. /\ cards' = Expired(cards, expiry) /\ deadline' = None /\ expiry' = None
      /\ dropped' = dropped \cup Pending(cards')
      /\ UNCHANGED <<custodyVars, access, agentOff, standing, grants, proxies, sealing, opening, cut>>
  BY DEF EndExpiry
<1>2. CustodyInvariant' /\ OnlyTouches({}) /\ StayOnBut({}) /\ changes' \in Nat /\ changes <= changes'
  BY <1>1, CustodyStands
<1>3. GrantsOK' /\ GrantsKept /\ \A g \in cut : grants'[g].uses = grants[g].uses
  BY <1>1, <1>2, StillGrants
<1> DEFINE I == {j \in Cards : cards[j].left <= expiry}
<1>4. cards' = Cancelled(cards, I)
  BY <1>1, ExpiredIsCancelled
<1> HIDE DEF I
<1>5. Len(cards') = Len(cards)
  BY <1>4, CancelledCards
<1>6. \A j \in Cards \ I : cards[j].status = "pending" => access'.on /\ ~agentOff'
  BY <1>1, CardTyped DEF CardOK
<1>7. dropped' \subseteq Cards
  BY <1>1, <1>5 DEF VaultInvariant, CardsOK, Pending, Cards
<1>8. /\ CardsOK'
      /\ \A j \in Cards : cards[j].status # "pending" =>
            cards'[j].status = cards[j].status /\ cards'[j].by = cards[j].by
  BY <1>2, <1>3, <1>4, <1>6, <1>7, CancellingKeeps
<1>9. DeadlineOK'
  BY <1>1 DEF DeadlineOK, Pending
<1>10. ProxiesOK' /\ ProxiesKept
  BY <1>1, <1>2, StillProxies
<1>11. SwitchesOK' /\ CallsOK'
  BY <1>1, <1>2, StillSwitches, CallsStill DEF VaultInvariant, SwitchesOK
<1> QED BY <1>2, <1>3, <1>8, <1>9, <1>10, <1>11 DEF Kept, VaultInvariant, AnswersKept

(* The first answer.  The approvers manage what they allow, because its     *)
(* policy epoch is the one on the card.                                     *)
LEMMA AnswerGives ==
    ASSUME VaultInvariant, NEW m \in Members, NEW i \in Cards,
           NEW answer \in [DOMAIN cards[i].items -> {"denied", "once", "window"}],
           Decide(m, i, answer)
    PROVE  LET order == SetToSeq(Allowed(answer))
               new == GrantsFor(m, cards[i], answer)
           IN  /\ Allowed(answer) \subseteq DOMAIN cards[i].items
               /\ Len(order) \in Nat
               /\ \A c \in Allowed(answer) : \E n \in 1 .. Len(order) : order[n] = c
               /\ new \in Seq(GrantRows) /\ Len(new) = Len(order)
               /\ \A n \in 1 .. Len(order) :
                     /\ order[n] \in Allowed(answer)
                     /\ Stands(new[n]) /\ (new[n].once => new[n].uses + new[n].remaining <= 1)
                     /\ new[n].cred = order[n] /\ new[n].tuple = cards[i].tuple
                     /\ new[n].by = m /\ new[n].version = cards[i].version[order[n]]
<1> DEFINE S == Allowed(answer)
           order == SetToSeq(S)
           new == GrantsFor(m, cards[i], answer)
<1>1. /\ cards[i] \in CardRows /\ CardOK(cards[i]) /\ DOMAIN cards[i].items \subseteq Credentials
  BY CardTyped
<1>2. S \subseteq DOMAIN cards[i].items /\ S \subseteq Credentials
  BY <1>1 DEF Allowed
<1>3. IsFiniteSet(S)
  BY <1>2, FS_Subset, VaultAssumption
<1> HIDE DEF S
<1>4. /\ order \in Seq(S) /\ Len(order) \in Nat
      /\ \A c \in S : \E n \in 1 .. Len(order) : order[n] = c
  BY <1>3, SetToSeqOrders
<1>5. \A n \in 1 .. Len(order) : order[n] \in S
  BY <1>4, SeqIsFunction
<1> DEFINE once(n) == answer[order[n]] = "once" \/ GrantTtl = 0
<1>6. new = [n \in 1 .. Len(order) |-> Grant(order[n], cards[i].tuple, once(n), m)]
  BY DEF GrantsFor, S
<1>7. m \in cards[i].approvers /\ \A c \in S : StillAsRead(cards[i], c)
  BY DEF Decide, S
<1>8. ASSUME NEW n \in 1 .. Len(order)
      PROVE  LET g == Grant(order[n], cards[i].tuple, once(n), m)
             IN  /\ g \in GrantRows /\ Stands(g) /\ (g.once => g.uses + g.remaining <= 1)
                 /\ g.cred = order[n] /\ g.tuple = cards[i].tuple
                 /\ g.by = m /\ g.version = cards[i].version[order[n]]
  <2> DEFINE c == order[n]
             b == once(n)
  <2>1. c \in S /\ c \in Credentials /\ c \in DOMAIN cards[i].items
    BY <1>2, <1>5
  <2>2. Live(c) /\ vault[c].version = cards[i].version[c] /\ vault[c].policy = cards[i].policy[c]
    BY <1>7, <2>1 DEF StillAsRead
  <2>3. m \in vault[c].managers
    BY <1>1, <1>7, <2>1, <2>2 DEF CardOK
  <2>4. cards[i].tuple \in Deliveries
    BY <1>1 DEF CardRows
  <2>5. b \in BOOLEAN
    OBVIOUS
  <2> HIDE DEF b, c
  <2>6. /\ Grant(c, cards[i].tuple, b, m) \in GrantRows /\ Stands(Grant(c, cards[i].tuple, b, m))
        /\ Grant(c, cards[i].tuple, b, m).once
              => Grant(c, cards[i].tuple, b, m).uses + Grant(c, cards[i].tuple, b, m).remaining <= 1
        /\ Grant(c, cards[i].tuple, b, m).cred = c
        /\ Grant(c, cards[i].tuple, b, m).tuple = cards[i].tuple
        /\ Grant(c, cards[i].tuple, b, m).by = m
        /\ Grant(c, cards[i].tuple, b, m).version = vault[c].version
    BY <2>1, <2>2, <2>3, <2>4, <2>5, GrantIsNew
  <2> QED BY <2>2, <2>6 DEF b, c
<1> HIDE DEF once, order
<1>9. new \in [1 .. Len(order) -> GrantRows]
  BY <1>6, <1>8
<1>10. new \in Seq(GrantRows) /\ Len(new) = Len(order)
  BY <1>4, <1>9, FunctionIsSeq
<1>11. ASSUME NEW n \in 1 .. Len(order)
       PROVE  /\ Stands(new[n]) /\ (new[n].once => new[n].uses + new[n].remaining <= 1)
              /\ new[n].cred = order[n] /\ new[n].tuple = cards[i].tuple
              /\ new[n].by = m /\ new[n].version = cards[i].version[order[n]]
  <2>1. new[n] = Grant(order[n], cards[i].tuple, once(n), m)
    BY <1>6
  <2> HIDE DEF new
  <2> QED BY <1>8, <2>1
<1> HIDE DEF new
<1> QED BY <1>2, <1>4, <1>5, <1>10, <1>11 DEF S, order, new

LEMMA DecideKept ==
    ASSUME VaultInvariant, NEW m \in Members, NEW i \in Cards,
           NEW answer \in [DOMAIN cards[i].items -> {"denied", "once", "window"}],
           Decide(m, i, answer)
    PROVE  Kept
<1> DEFINE S == Allowed(answer)
           order == SetToSeq(S)
           new == GrantsFor(m, cards[i], answer)
           N == Len(grants)
           at(c) == CHOOSE n \in 1 .. Len(order) : order[n] = c
           card == Answered(m, cards[i], answer)
<1>1. /\ m \in cards[i].approvers /\ cards[i].status = "pending"
      /\ grants' = grants \o new /\ cards' = [cards EXCEPT ![i] = card]
      /\ UNCHANGED <<custodyVars, access, agentOff, standing, deadline, expiry,
                     proxies, sealing, opening, cut, dropped>>
  BY DEF Decide
<1>2. CustodyInvariant' /\ OnlyTouches({}) /\ StayOnBut({}) /\ changes' \in Nat /\ changes <= changes'
  BY <1>1, CustodyStands
<1>3. /\ S \subseteq DOMAIN cards[i].items
      /\ Len(order) \in Nat
      /\ \A c \in S : \E n \in 1 .. Len(order) : order[n] = c
      /\ new \in Seq(GrantRows) /\ Len(new) = Len(order)
      /\ \A n \in 1 .. Len(order) :
            /\ order[n] \in S
            /\ Stands(new[n]) /\ (new[n].once => new[n].uses + new[n].remaining <= 1)
            /\ new[n].cred = order[n] /\ new[n].tuple = cards[i].tuple
            /\ new[n].by = m /\ new[n].version = cards[i].version[order[n]]
  BY AnswerGives
<1> HIDE DEF new, order
<1>4. /\ GrantsOK' /\ GrantsKept /\ \A g \in cut : grants'[g].uses = grants[g].uses
      /\ Len(grants') = N + Len(new)
      /\ \A n \in 1 .. Len(new) : grants'[N + n] = new[n]
  BY <1>1, <1>3, GivingKeeps
<1>5. N \in Nat
  BY SeqIsFunction DEF VaultInvariant, GrantsOK
<1>6. \A c \in S : at(c) \in 1 .. Len(order) /\ order[at(c)] = c
  BY <1>3
<1> HIDE DEF at, N
<1>7. /\ cards[i] \in CardRows /\ CardOK(cards[i]) /\ DOMAIN cards[i].items \subseteq Credentials
  BY CardTyped
<1> DEFINE D == DOMAIN cards[i].items
           items == [c \in D |-> IF c \in S THEN "allowed" ELSE "denied"]
           G == DOMAIN cards[i].grant
           grant == [c \in G |-> IF c \in S THEN N + at(c) ELSE 0]
           status == IF S = {} THEN "denied" ELSE "allowed"
<1>8. card = [cards[i] EXCEPT !.status = status, !.by = m, !.items = items, !.grant = grant]
  BY <1>7 DEF Answered, CardRows, order, at, N
<1>9. D \subseteq Credentials /\ G \subseteq Credentials /\ D \subseteq G
  <2>1. cards[i].grant \in Notes(Nat)
    BY <1>7 DEF CardRows
  <2>2. G \subseteq Credentials
    BY <2>1 DEF Notes
  <2> QED BY <1>7, <2>2 DEF CardOK
<1>10. DOMAIN items = D /\ \A c \in D : items[c] = IF c \in S THEN "allowed" ELSE "denied"
  OBVIOUS
<1>11. DOMAIN grant = G /\ \A c \in G : grant[c] = IF c \in S THEN N + at(c) ELSE 0
  OBVIOUS
<1>12. items \in Notes({None, "denied", "allowed"})
  <2>1. items \in [D -> {None, "denied", "allowed"}]
    OBVIOUS
  <2> HIDE DEF items, D
  <2> QED BY <1>9, <2>1 DEF Notes
<1>13. grant \in Notes(Nat)
  <2>1. \A c \in G : (IF c \in S THEN N + at(c) ELSE 0) \in Nat
    BY <1>5, <1>6
  <2>2. grant \in [G -> Nat]
    BY <2>1
  <2> HIDE DEF grant, G
  <2> QED BY <1>9, <2>2 DEF Notes
<1>14. status \in CardStatuses /\ status # "pending" /\ status # "expired" /\ (status = "denied" => S = {})
  BY DEF CardStatuses
<1> HIDE DEF items, grant, status, S, card
<1>15. card \in CardRows
  BY <1>7, <1>8, <1>12, <1>13, <1>14 DEF CardRows
<1>16. /\ card.tuple = cards[i].tuple /\ card.version = cards[i].version
       /\ card.policy = cards[i].policy /\ card.approvers = cards[i].approvers
       /\ card.status = status /\ card.by = m /\ card.items = items /\ card.grant = grant
       /\ card.left = cards[i].left
  BY <1>7, <1>8 DEF CardRows
<1>17. cards \in Seq(CardRows)
  BY DEF VaultInvariant, CardsOK
<1>18. /\ cards' \in Seq(CardRows) /\ Len(cards') = Len(cards)
       /\ \A j \in Cards : cards'[j] = IF j = i THEN card ELSE cards[j]
  BY <1>1, <1>15, <1>17, ExceptSeq DEF Cards
<1>19. Cards' = Cards
  BY <1>18 DEF Cards
<1>20. ASSUME NEW c \in S
       PROVE  /\ N + at(c) \in 1 .. Len(grants') /\ N + at(c) > N
              /\ grants'[N + at(c)].cred = c /\ grants'[N + at(c)].tuple = cards[i].tuple
              /\ grants'[N + at(c)].by = m /\ grants'[N + at(c)].version = cards[i].version[c]
  <2>1. at(c) \in 1 .. Len(new) /\ order[at(c)] = c
    BY <1>3, <1>6
  <2>2. grants'[N + at(c)] = new[at(c)]
    BY <1>4, <2>1
  <2>3. N + at(c) \in 1 .. Len(grants') /\ N + at(c) > N
    BY <1>3, <1>4, <1>5, <2>1
  <2> QED BY <1>3, <2>1, <2>2, <2>3
<1>21. UNCHANGED <<vault, access, agentOff>>
  BY <1>1 DEF custodyVars
<1>22. CardOK(cards[i])'
  <2>1. cards'[i] = card
    BY <1>18
  <2>2. DOMAIN card.items = D /\ D \subseteq DOMAIN card.grant /\ D \subseteq DOMAIN card.version
        /\ D \subseteq DOMAIN card.policy
    BY <1>7, <1>9, <1>10, <1>11, <1>16 DEF CardOK
  <2>3. ASSUME NEW c \in D
        PROVE  /\ Live(c)'
               /\ card.policy[c] <= vault'[c].policy
               /\ card.policy[c] = vault'[c].policy => card.approvers \subseteq vault'[c].managers
               /\ IF card.items[c] = "allowed" THEN Gave(cards[i], c)' ELSE card.grant[c] = 0
    <3>1. /\ Live(c)' /\ card.policy[c] <= vault'[c].policy
          /\ card.policy[c] = vault'[c].policy => card.approvers \subseteq vault'[c].managers
      BY <1>7, <1>16, <1>21, <2>3 DEF CardOK, Live
    <3>2. CASE c \in S
      <4>1. card.items[c] = "allowed" /\ card.grant[c] = N + at(c)
        BY <1>9, <1>10, <1>11, <1>16, <2>3, <3>2
      <4> QED BY <1>16, <1>20, <2>1, <3>1, <3>2, <4>1 DEF Gave, Grants
    <3>3. CASE c \notin S
      <4>1. card.items[c] = "denied" /\ card.grant[c] = 0
        BY <1>9, <1>10, <1>11, <1>16, <2>3, <3>3
      <4> QED BY <3>1, <4>1
    <3> QED BY <3>2, <3>3
  <2>4. card.status \in {"denied", "expired"} => \A c \in D : card.items[c] = "denied"
    BY <1>10, <1>14, <1>16
  <2>5. card.by \in card.approvers /\ card.status # "pending"
    BY <1>1, <1>14, <1>16
  <2> HIDE DEF D
  <2> QED BY <2>1, <2>2, <2>3, <2>4, <2>5 DEF CardOK
<1>23. ASSUME NEW j \in Cards, j # i PROVE CardOK(cards[j])'
  <2>1. cards'[j] = cards[j] /\ CardFollows(cards[j], cards[j]) /\ CardOK(cards[j])
        /\ DOMAIN cards[j].items \subseteq Credentials
    BY <1>18, <1>23, SameCardFollows, CardTyped
  <2>2. /\ \A c \in DOMAIN cards'[j].items : Live(c)'
        /\ cards'[j].status = "pending" =>
              access'.on /\ ~agentOff' /\ \A c \in DOMAIN cards'[j].items : ~vault'[c].frozen
    BY <1>21, <2>1 DEF CardOK, Live
  <2> QED BY <1>2, <1>4, <2>1, <2>2, CardStaysOK
<1>24. ASSUME NEW j \in Cards, j # i, NEW o \in DOMAIN cards[j].items
       PROVE  cards[j].grant[o] \in 0 .. N
  <2>1. IF cards[j].items[o] = "allowed" THEN Gave(cards[j], o) ELSE cards[j].grant[o] = 0
    BY <1>24, CardTyped DEF CardOK
  <2> QED BY <1>5, <2>1 DEF Gave, Grants, N
<1>25. ASSUME NEW j \in Cards, NEW k \in Cards, NEW c \in DOMAIN cards'[j].items,
              NEW o \in DOMAIN cards'[k].items, cards'[j].items[c] = "allowed", <<j, c>> # <<k, o>>
       PROVE  cards'[k].grant[o] # cards'[j].grant[c]
  <2>1. CASE j # i /\ k # i
    <3>1. cards'[j] = cards[j] /\ cards'[k] = cards[k] /\ GaveApart
      BY <1>18, <2>1 DEF VaultInvariant, CardsOK
    <3> QED BY <1>25, <3>1 DEF GaveApart
  <2>2. CASE j # i /\ k = i
    <3>1. cards'[j] = cards[j] /\ cards'[k] = card /\ o \in D
      BY <1>10, <1>16, <1>18, <2>2
    <3>2. cards'[j].grant[c] \in 1 .. N
      <4>1. Gave(cards[j], c)
        BY <1>25, <3>1, CardTyped DEF CardOK
      <4> QED BY <3>1, <4>1 DEF Gave, Grants, N
    <3>3. card.grant[o] = (IF o \in S THEN N + at(o) ELSE 0)
      BY <1>9, <1>11, <1>16, <3>1
    <3>4. o \in S => N + at(o) > N /\ N + at(o) \in Int
      BY <1>20
    <3> QED BY <1>5, <3>1, <3>2, <3>3, <3>4
  <2>3. CASE j = i
    <3>1. cards'[j] = card /\ c \in D /\ c \in S
      BY <1>10, <1>16, <1>18, <1>25, <2>3
    <3>2. card.grant[c] = N + at(c) /\ N + at(c) > N /\ N + at(c) \in Int /\ at(c) \in Nat
      BY <1>6, <1>9, <1>11, <1>16, <1>20, <3>1
    <3>3. CASE k = i
      <4>1. cards'[k] = card /\ o \in D /\ o # c
        BY <1>10, <1>16, <1>18, <1>25, <2>3, <3>3
      <4>2. card.grant[o] = (IF o \in S THEN N + at(o) ELSE 0)
        BY <1>9, <1>11, <1>16, <4>1
      <4>3. CASE o \in S
        <5>1. at(o) # at(c) /\ at(o) \in Nat
          BY <1>6, <3>1, <4>1, <4>3
        <5>2. N + at(o) # N + at(c)
          BY <1>5, <3>2, <5>1
        <5> QED BY <3>1, <3>2, <4>1, <4>2, <4>3, <5>2
      <4>4. CASE o \notin S
        <5>1. N + at(c) # 0
          BY <1>5, <3>2
        <5> QED BY <3>1, <3>2, <4>1, <4>2, <4>4, <5>1
      <4> QED BY <4>3, <4>4
    <3>4. CASE k # i
      <4>1. cards'[k] = cards[k] /\ cards[k].grant[o] \in 0 .. N
        BY <1>18, <1>24, <3>4
      <4> QED BY <1>5, <3>1, <3>2, <4>1
    <3> QED BY <3>3, <3>4
  <2> QED BY <2>1, <2>2, <2>3
<1>26. CardsOK'
  <2>1. \A j \in Cards : CardOK(cards[j])'
    BY <1>22, <1>23
  <2>2. GaveApart'
    BY <1>19, <1>25 DEF GaveApart
  <2>3. dropped' \subseteq Cards'
    BY <1>1, <1>19 DEF VaultInvariant, CardsOK
  <2> QED BY <1>18, <1>19, <2>1, <2>2, <2>3 DEF CardsOK
<1>27. \A j \in Cards : cards[j].status # "pending" =>
          cards'[j].status = cards[j].status /\ cards'[j].by = cards[j].by
  BY <1>1, <1>18
<1>28. DeadlineOK'
  <2>1. \A j \in Cards : cards'[j].status = "pending" =>
           cards[j].status = "pending" /\ cards'[j].left = cards[j].left
    BY <1>14, <1>16, <1>18
  <2> QED BY <1>1, <1>18, <2>1, StillDeadline DEF VaultInvariant, DeadlineOK
<1>29. ProxiesOK' /\ ProxiesKept
  BY <1>1, <1>2, StillProxies
<1>30. SwitchesOK' /\ CallsOK'
  BY <1>1, <1>2, StillSwitches, CallsStill DEF VaultInvariant, SwitchesOK
<1> QED BY <1>2, <1>4, <1>26, <1>27, <1>28, <1>29, <1>30 DEF Kept, VaultInvariant, AnswersKept

(* A new card asks for what may be asked, of the members who manage it. *)
LEMMA NewCardOK ==
    ASSUME VaultInvariant, NEW t \in Deliveries, NEW C \in SUBSET Credentials, NEW card \in NewCards(t, C)
    PROVE  /\ card \in CardRows /\ CardOK(card)
           /\ card.status = "pending" /\ card.left = CardTtl
           /\ \A c \in DOMAIN card.items : card.items[c] = None /\ card.grant[c] = 0
<1>1. PICK a \in Asked(t, C) :
         card = NewCard(t, {c \in Asked(t, C) : Approvers(c) = Approvers(a)}, Approvers(a))
  BY DEF NewCards
<1> DEFINE D == {c \in Asked(t, C) : Approvers(c) = Approvers(a)}
           S == Approvers(a)
<1>2. D \subseteq Credentials /\ S \subseteq Members
  BY DEF Asked, Approvers, VaultInvariant, CustodyInvariant, CustodyShape
<1>3. \A c \in D : Live(c) /\ ~SwitchedOff(c) /\ S \subseteq vault[c].managers
  BY DEF Asked, Decision, Approvers
<1>4. \A c \in D : vault[c].version \in Nat /\ vault[c].policy \in Nat
  BY <1>2 DEF VaultInvariant, CustodyInvariant, CustodyShape, CredentialRows
<1>5. access.on /\ ~agentOff /\ \A c \in D : ~vault[c].frozen
  <2>1. a \in D
    BY <1>1
  <2> QED BY <1>3, <2>1 DEF SwitchedOff
<1> HIDE DEF D, S
<1> DEFINE none == [c \in D |-> None]
           zero == [c \in D |-> 0]
           versions == [c \in D |-> vault[c].version]
           policies == [c \in D |-> vault[c].policy]
<1>6. card = [tuple |-> t, items |-> none, grant |-> zero, version |-> versions, policy |-> policies,
              approvers |-> S, status |-> "pending", left |-> CardTtl, by |-> None]
  BY <1>1 DEF NewCard, D, S
<1>7. /\ none \in [D -> {None, "denied", "allowed"}] /\ zero \in [D -> Nat]
      /\ versions \in [D -> Nat] /\ policies \in [D -> Nat]
      /\ \A c \in D : none[c] = None /\ zero[c] = 0 /\ policies[c] = vault[c].policy
  BY <1>4
<1> HIDE DEF none, zero, versions, policies
<1>8. /\ none \in Notes({None, "denied", "allowed"}) /\ zero \in Notes(Nat)
      /\ versions \in Notes(Nat) /\ policies \in Notes(Nat)
  BY <1>2, <1>7 DEF Notes
<1>9. CardTtl \in Past .. CardTtl
  BY VaultAssumption DEF Past
<1>10. card \in CardRows
  BY <1>2, <1>6, <1>8, <1>9 DEF CardRows, CardStatuses
<1>11. /\ card.items = none /\ card.grant = zero /\ card.version = versions /\ card.policy = policies
       /\ card.approvers = S /\ card.status = "pending" /\ card.left = CardTtl
  BY <1>6
<1>12. DOMAIN none = D /\ DOMAIN zero = D /\ DOMAIN versions = D /\ DOMAIN policies = D
  BY <1>7
<1>13. \A c \in D : /\ card.policy[c] <= vault[c].policy /\ card.approvers \subseteq vault[c].managers
                    /\ card.items[c] = None /\ card.items[c] # "allowed" /\ card.grant[c] = 0
  BY <1>3, <1>4, <1>7, <1>11, NoneIsNoAnswer
<1>14. CardOK(card)
  BY <1>3, <1>5, <1>11, <1>12, <1>13 DEF CardOK
<1> QED BY <1>10, <1>11, <1>12, <1>13, <1>14

LEMMA NewCardsFinite ==
    ASSUME NEW t, NEW C \in SUBSET Credentials
    PROVE  IsFiniteSet(NewCards(t, C))
<1> DEFINE A == Asked(t, C)
           f(a) == NewCard(t, {c \in A : Approvers(c) = Approvers(a)}, Approvers(a))
           F == [a \in A |-> f(a)]
           T == NewCards(t, C)
<1>1. IsFiniteSet(A)
  <2>1. A \subseteq Credentials
    BY DEF Asked
  <2> QED BY <2>1, FS_Subset, VaultAssumption
<1>2. T = {f(a) : a \in A}
  BY DEF NewCards
<1> HIDE DEF A, f, T
<1>3. F \in [A -> T] /\ \A x \in T : \E a \in A : F[a] = x
  BY <1>2
<1> HIDE DEF F
<1>4. F \in Surjection(A, T)
  BY <1>3 DEF Surjection
<1>5. IsFiniteSet(T)
  BY <1>1, <1>4, FS_Surjection
<1> QED BY <1>5 DEF T

LEMMA RequestApprovalKept ==
    ASSUME VaultInvariant, NEW t \in Deliveries, NEW C \in SUBSET Credentials, RequestApproval(t, C)
    PROVE  Kept
<1> DEFINE new == SetToSeq(NewCards(t, C))
           N == Len(cards)
<1>1. /\ cards' = cards \o new /\ deadline' = Scheduled(deadline, CardTtl)
      /\ UNCHANGED <<custodyVars, access, agentOff, standing, grants, expiry,
                     proxies, sealing, opening, cut, dropped>>
  BY DEF RequestApproval
<1>2. CustodyInvariant' /\ OnlyTouches({}) /\ StayOnBut({}) /\ changes' \in Nat /\ changes <= changes'
  BY <1>1, CustodyStands
<1>3. GrantsOK' /\ GrantsKept /\ \A g \in cut : grants'[g].uses = grants[g].uses
  BY <1>1, <1>2, StillGrants
<1>4. new \in Seq(NewCards(t, C)) /\ Len(new) \in Nat
  <2>1. IsFiniteSet(NewCards(t, C))
    BY NewCardsFinite
  <2> QED BY <2>1, SetToSeqOrders
<1>5. \A n \in 1 .. Len(new) : new[n] \in NewCards(t, C)
  BY <1>4, SeqIsFunction
<1>6. \A x \in NewCards(t, C) : x \in CardRows
  BY NewCardOK
<1> HIDE DEF new
<1>7. new \in Seq(CardRows)
  BY <1>4, <1>6, SeqMonotonic
<1>8. cards \in Seq(CardRows) /\ N \in Nat
  BY SeqIsFunction DEF VaultInvariant, CardsOK
<1>9. /\ cards' \in Seq(CardRows) /\ Len(cards') = N + Len(new)
      /\ \A j \in 1 .. N + Len(new) : cards'[j] = IF j <= N THEN cards[j] ELSE new[j - N]
  BY <1>1, <1>7, <1>8, ConcatProperties
<1>10. Cards = 1 .. N /\ Cards' = 1 .. N + Len(new)
  BY <1>9 DEF Cards
<1> HIDE DEF N
<1>11. ASSUME NEW j \in Cards'
       PROVE  \/ cards'[j] = cards[j] /\ j \in Cards
              \/ cards'[j] \in NewCards(t, C) /\ j \notin Cards
  <2>1. j \in 1 .. N + Len(new)
    BY <1>10
  <2>2. CASE j <= N
    <3>1. j \in 1 .. N
      BY <1>4, <1>8, <2>1, <2>2
    <3>2. cards'[j] = cards[j]
      BY <1>9, <2>1, <2>2
    <3>3. j \in Cards
      BY <1>10, <3>1
    <3> QED BY <3>2, <3>3
  <2>3. CASE ~(j <= N)
    <3>1. j - N \in 1 .. Len(new)
      BY <1>4, <1>8, <2>1, <2>3
    <3> QED BY <1>5, <1>9, <1>10, <2>1, <2>3, <3>1
  <2> QED BY <2>2, <2>3
<1>12. Cards \subseteq Cards'
  BY <1>4, <1>8, <1>10
<1>13. \A j \in Cards : cards'[j] = cards[j]
  BY <1>11, <1>12
<1>14. UNCHANGED <<vault, access, agentOff, grants>>
  BY <1>1 DEF custodyVars
<1>15. ASSUME NEW j \in Cards' PROVE CardOK(cards[j])'
  <2>1. CardOK(cards'[j])
    BY <1>11, NewCardOK, CardTyped
  <2> QED BY <1>14, <2>1 DEF CardOK, Live, Gave, Grants
<1>16. ASSUME NEW i \in Cards', NEW j \in Cards', NEW c \in DOMAIN cards'[i].items,
              NEW o \in DOMAIN cards'[j].items, cards'[i].items[c] = "allowed", <<i, c>> # <<j, o>>
       PROVE  cards'[j].grant[o] # cards'[i].grant[c]
  <2>1. i \in Cards /\ cards'[i] = cards[i]
    BY <1>11, <1>16, NewCardOK, NoneIsNoAnswer
  <2>2. cards[i].grant[c] \in Grants
    BY <1>16, <2>1, CardTyped DEF CardOK, Gave
  <2>3. CASE j \in Cards
    <3>1. cards'[j] = cards[j] /\ GaveApart
      BY <1>13, <2>3 DEF VaultInvariant, CardsOK
    <3> QED BY <1>16, <2>1, <2>3, <3>1 DEF GaveApart
  <2>4. CASE j \notin Cards
    <3>1. cards'[j].grant[o] = 0
      BY <1>11, <2>4, NewCardOK
    <3> QED BY <2>1, <2>2, <3>1 DEF Grants
  <2> QED BY <2>3, <2>4
<1>17. CardsOK'
  <2>1. GaveApart'
    BY <1>16 DEF GaveApart
  <2>2. dropped' \subseteq Cards'
    BY <1>1, <1>12 DEF VaultInvariant, CardsOK
  <2> QED BY <1>9, <1>15, <2>1, <2>2 DEF CardsOK
<1>18. DeadlineOK'
  <2>1. /\ deadline \in Int \cup {None} /\ expiry' \in Int \cup {None} /\ CardTtl \in Nat \ {0}
        /\ \A i \in Pending(cards) \ dropped :
              deadline # None /\ (deadline <= cards[i].left \/ deadline <= 0)
    BY <1>1, VaultAssumption DEF VaultInvariant, DeadlineOK
  <2>2. /\ deadline' \in Int /\ deadline' # None /\ deadline' <= CardTtl
        /\ deadline # None => deadline' <= deadline
    BY <1>1, <2>1, NoneIsNoAnswer DEF Scheduled
  <2>3. ASSUME NEW j \in Pending(cards') \ dropped'
        PROVE  deadline' <= cards'[j].left \/ deadline' <= 0
    <3>1. j \in Cards' /\ cards'[j].status = "pending" /\ j \notin dropped
      BY <1>1 DEF Pending, Cards
    <3>2. CASE j \in Cards
      <4>1. j \in Pending(cards) /\ cards'[j] = cards[j]
        BY <1>13, <3>1, <3>2 DEF Pending, Cards
      <4>2. deadline # None /\ (deadline <= cards[j].left \/ deadline <= 0)
        BY <2>1, <3>1, <4>1
      <4>3. cards[j].left \in Int
        BY <3>2, CardTyped, VaultAssumption DEF CardRows, Past
      <4> QED BY <2>1, <2>2, <4>1, <4>2, <4>3
    <3>3. CASE j \notin Cards
      <4>1. cards'[j].left = CardTtl
        BY <1>11, <3>1, <3>3, NewCardOK
      <4> QED BY <2>2, <4>1
    <3> QED BY <3>2, <3>3
  <2>4. Pending(cards)' = Pending(cards')
    BY DEF Pending
  <2> QED BY <2>1, <2>2, <2>3, <2>4 DEF DeadlineOK
<1>19. ProxiesOK' /\ ProxiesKept
  BY <1>1, <1>2, StillProxies
<1>20. SwitchesOK' /\ CallsOK'
  BY <1>1, <1>2, StillSwitches, CallsStill DEF VaultInvariant, SwitchesOK
<1>21. \A j \in Cards : cards[j].status # "pending" =>
          cards'[j].status = cards[j].status /\ cards'[j].by = cards[j].by
  BY <1>13
<1> QED BY <1>2, <1>3, <1>17, <1>18, <1>19, <1>20, <1>21 DEF Kept, VaultInvariant, AnswersKept

-----------------------------------------------------------------------------
(* Proxied requests. *)

(* A step that changes requests and their calls only, or drops the run of   *)
(* an expiry.                                                               *)
LEMMA ProxiesOnlyKeep ==
    ASSUME VaultInvariant,
           UNCHANGED <<custodyVars, access, agentOff, standing, grants, cards, deadline, cut, dropped>>,
           expiry' \in {expiry, None}, ProxiesOK', ProxiesKept, CallsOK'
    PROVE  Kept
<1>1. CustodyInvariant' /\ OnlyTouches({}) /\ StayOnBut({}) /\ changes' \in Nat /\ changes <= changes'
  BY CustodyStands
<1>2. GrantsOK' /\ GrantsKept /\ \A g \in cut : grants'[g].uses = grants[g].uses
  BY <1>1, StillGrants
<1>3. CardsOK'
  BY <1>1, <1>2, StillCards
<1>4. DeadlineOK'
  BY StillDeadline DEF VaultInvariant, DeadlineOK
<1>5. SwitchesOK'
  BY <1>1, StillSwitches DEF VaultInvariant, SwitchesOK
<1> QED BY <1>1, <1>2, <1>3, <1>4, <1>5 DEF Kept, VaultInvariant, AnswersKept

LEMMA ProxyTyped ==
    ASSUME VaultInvariant, NEW k \in Keys
    PROVE  /\ proxies[k] \in ProxyRows
           /\ proxies[k].state # "none" => proxies[k].cred \in Credentials /\ Live(proxies[k].cred)
           /\ proxies[k].frames \in 0 .. 1
           /\ proxies[k].state = "none" => proxies[k].frames = 0
           /\ proxies[k].uses = IF proxies[k].state = "completed" THEN 1 ELSE 0
<1>1. /\ proxies[k] \in ProxyRows
      /\ proxies[k].state # "none" => proxies[k].cred \in Credentials /\ Live(proxies[k].cred)
      /\ proxies[k].state = "none" => proxies[k].frames = 0
      /\ proxies[k].frames <= 1
      /\ proxies[k].uses = IF proxies[k].state = "completed" THEN 1 ELSE 0
  BY DEF VaultInvariant, ProxiesOK
<1>2. proxies[k].frames \in Nat
  BY <1>1 DEF ProxyRows
<1> QED BY <1>1, <1>2

(* The row a sealed request gets. *)
LEMMA ProxyRowFits ==
    ASSUME VaultInvariant, NEW s \in sealing
    PROVE  /\ s.key \in Keys /\ s.cred \in Credentials
           /\ ProxyRow(s) \in ProxyRows /\ ProxyRow(s).state = "pending" /\ ProxyRow(s).cred = s.cred
           /\ ProxyRow(s).frames = 0 /\ ProxyRow(s).uses = 0
<1>1. s.key \in Keys /\ s.cred \in Credentials /\ s.version \in Nat /\ s.policy \in Nat
  BY DEF VaultInvariant, CallsOK
<1>2. access.epoch \in Nat /\ ProxyTtl \in Int
  BY VaultAssumption DEF VaultInvariant, SwitchesOK
<1> QED BY <1>1, <1>2 DEF ProxyRow, ProxyRows, ProxyStates

LEMMA BeginProxyKept ==
    ASSUME VaultInvariant, NEW k \in Keys, NEW c \in Credentials, BeginProxy(k, c)
    PROVE  Kept
<1>1. CASE RequestApproval("device_proxy", {c})
  BY <1>1, RequestApprovalKept DEF Deliveries
<1>2. CASE /\ sealing' = sealing \cup
                 {[key |-> k, cred |-> c, version |-> vault[c].version, policy |-> vault[c].policy]}
           /\ UNCHANGED <<custodyVars, access, agentOff, standing, grants, cards, deadline,
                          expiry, proxies, opening, cut, dropped>>
  <2>1. vault[c].version \in Nat /\ vault[c].policy \in Nat
    BY DEF VaultInvariant, CustodyInvariant, CustodyShape, CredentialRows
  <2>2. CallsOK'
    BY <1>2, <2>1 DEF VaultInvariant, CallsOK
  <2>3. ProxiesOK' /\ ProxiesKept
    BY <1>2, CustodyStands, StillProxies
  <2> QED BY <1>2, <2>2, <2>3, ProxiesOnlyKeep
<1> QED BY <1>1, <1>2 DEF BeginProxy

(* The row is written when none is there, pending or refused. *)
LEMMA SendingKeeps ==
    ASSUME VaultInvariant, NEW s \in sealing, NEW row \in ProxyRows,
           proxies[s.key].state = "none", Live(s.cred), UNCHANGED custodyVars,
           proxies' = [proxies EXCEPT ![s.key] = row],
           row.state \in {"pending", "refused"}, row.cred = s.cred, row.frames <= 1, row.uses = 0
    PROVE  ProxiesOK' /\ ProxiesKept
<1>1. s.key \in Keys /\ s.cred \in Credentials
  BY ProxyRowFits
<1>2. StayOnBut({}) /\ Live(row.cred)'
  BY CustodyStands DEF Live, custodyVars
<1> QED BY <1>1, <1>2, OneProxy

LEMMA SendProxyKept ==
    ASSUME VaultInvariant, NEW s \in sealing, SendProxy(s)
    PROVE  Kept
<1> DEFINE row == [ProxyRow(s) EXCEPT !.frames = proxies[s.key].frames + 1]
<1>1. /\ sealing' = sealing \ {s} /\ proxies[s.key].state = "none" /\ Live(s.cred)
      /\ proxies' = [proxies EXCEPT ![s.key] = row]
      /\ UNCHANGED <<custodyVars, access, agentOff, standing, grants, cards, deadline,
                     expiry, opening, cut, dropped>>
  BY DEF SendProxy
<1>2. proxies[s.key].frames = 0
  BY <1>1, ProxyRowFits, ProxyTyped
<1>3. /\ row \in ProxyRows /\ row.state \in {"pending", "refused"}
      /\ row.cred = s.cred /\ row.frames <= 1 /\ row.uses = 0
  BY <1>2, ProxyRowFits DEF ProxyRows
<1> HIDE DEF row
<1>4. ProxiesOK' /\ ProxiesKept
  BY <1>1, <1>3, SendingKeeps
<1>5. CallsOK'
  BY <1>1 DEF VaultInvariant, CallsOK
<1> QED BY <1>1, <1>4, <1>5, ProxiesOnlyKeep

LEMMA SendProxyUnheardKept ==
    ASSUME VaultInvariant, NEW s \in sealing, SendProxyUnheard(s)
    PROVE  Kept
<1> DEFINE row == [ProxyRow(s) EXCEPT !.state = "refused"]
<1>1. /\ sealing' = sealing \ {s} /\ proxies[s.key].state = "none" /\ Live(s.cred)
      /\ proxies' = [proxies EXCEPT ![s.key] = row]
      /\ UNCHANGED <<custodyVars, access, agentOff, standing, grants, cards, deadline,
                     expiry, opening, cut, dropped>>
  BY DEF SendProxyUnheard
<1>2. /\ row \in ProxyRows /\ row.state \in {"pending", "refused"}
      /\ row.cred = s.cred /\ row.frames <= 1 /\ row.uses = 0
  BY ProxyRowFits DEF ProxyRows, ProxyStates
<1> HIDE DEF row
<1>3. ProxiesOK' /\ ProxiesKept
  BY <1>1, <1>2, SendingKeeps
<1>4. CallsOK'
  BY <1>1 DEF VaultInvariant, CallsOK
<1> QED BY <1>1, <1>3, <1>4, ProxiesOnlyKeep

LEMMA SendProxyRefusedKept ==
    ASSUME VaultInvariant, NEW s \in sealing, SendProxyRefused(s)
    PROVE  Kept
<1>1. /\ sealing' = sealing \ {s}
      /\ UNCHANGED <<custodyVars, access, agentOff, standing, grants, cards, deadline,
                     expiry, proxies, opening, cut, dropped>>
  BY DEF SendProxyRefused
<1>2. ProxiesOK' /\ ProxiesKept
  BY <1>1, CustodyStands, StillProxies
<1>3. CallsOK'
  BY <1>1 DEF VaultInvariant, CallsOK
<1> QED BY <1>1, <1>2, <1>3, ProxiesOnlyKeep

(* A row that is there changes its state, as long as it was pending. *)
LEMMA SettlingKeeps ==
    ASSUME VaultInvariant, NEW k \in Keys, NEW state \in ProxyStates \ {"none"}, NEW uses \in Nat,
           proxies[k].state # "none", proxies[k].state \in {"pending", state}, UNCHANGED custodyVars,
           uses = IF state = "completed" THEN 1 ELSE 0,
           proxies' = [proxies EXCEPT ![k] = [proxies[k] EXCEPT !.state = state, !.uses = uses]]
    PROVE  ProxiesOK' /\ ProxiesKept
<1>1. PICK row : row = [proxies[k] EXCEPT !.state = state, !.uses = uses]
  OBVIOUS
<1>2. /\ row \in ProxyRows /\ row.state = state /\ row.uses = uses
      /\ row.cred = proxies[k].cred /\ row.frames = proxies[k].frames
      /\ proxies' = [proxies EXCEPT ![k] = row]
  <2>1. proxies[k] \in ProxyRows
    BY ProxyTyped
  <2> QED BY <1>1, <2>1 DEF ProxyRows
<1>3. proxies[k].cred \in Credentials /\ Live(proxies[k].cred) /\ proxies[k].frames <= 1
  BY ProxyTyped
<1>4. StayOnBut({}) /\ Live(row.cred)'
  <2>1. vault' = vault /\ Live(row.cred)
    BY <1>2, <1>3 DEF custodyVars
  <2> QED BY <2>1, CustodyStands DEF Live
<1>5. /\ row.state # "none" /\ row.cred \in Credentials /\ row.frames <= 1
      /\ row.uses = (IF row.state = "completed" THEN 1 ELSE 0)
      /\ proxies[k].state \in {"none", "pending", row.state}
  BY <1>2, <1>3
<1> QED BY <1>2, <1>4, <1>5, OneProxy

(* A row that keeps the uses it has. *)
LEMMA StateOnlyKeeps ==
    ASSUME VaultInvariant, NEW k \in Keys, NEW state \in ProxyStates \ {"none"},
           proxies[k].state # "none", proxies[k].state \in {"pending", state}, UNCHANGED custodyVars,
           state = "completed" => proxies[k].state = "completed",
           proxies' = [proxies EXCEPT ![k].state = state]
    PROVE  ProxiesOK' /\ ProxiesKept
<1>1. proxies \in [Keys -> ProxyRows] /\ proxies[k] \in ProxyRows
      /\ proxies[k].uses = IF proxies[k].state = "completed" THEN 1 ELSE 0
  BY ProxyTyped DEF VaultInvariant, ProxiesOK
<1> DEFINE uses == proxies[k].uses
<1>2. uses \in Nat /\ uses = IF state = "completed" THEN 1 ELSE 0
  BY <1>1
<1>3. [proxies[k] EXCEPT !.state = state] = [proxies[k] EXCEPT !.state = state, !.uses = uses]
  BY <1>1 DEF ProxyRows
<1>4. proxies' = [proxies EXCEPT ![k] = [proxies[k] EXCEPT !.state = state, !.uses = uses]]
  BY <1>1, <1>3
<1> HIDE DEF uses
<1> QED BY <1>2, <1>4, SettlingKeeps

LEMMA RetryProxyKept ==
    ASSUME VaultInvariant, NEW k \in Keys, RetryProxy(k)
    PROVE  Kept
<1> DEFINE state == IF proxies[k].state = "pending" /\ proxies[k].left = 0 THEN "uncertain"
                    ELSE proxies[k].state
<1>1. /\ proxies[k].state # "none"
      /\ proxies' = [proxies EXCEPT ![k].state =
                        IF @ = "pending" /\ proxies[k].left = 0 THEN "uncertain" ELSE @]
      /\ UNCHANGED <<custodyVars, access, agentOff, standing, grants, cards, deadline,
                     expiry, sealing, opening, cut, dropped>>
  BY DEF RetryProxy
<1>2. proxies \in [Keys -> ProxyRows] /\ proxies[k] \in ProxyRows
  BY ProxyTyped DEF VaultInvariant, ProxiesOK
<1>3. proxies' = [proxies EXCEPT ![k].state = state]
  BY <1>1, <1>2
<1>4. /\ state \in ProxyStates \ {"none"} /\ proxies[k].state \in {"pending", state}
      /\ state = "completed" => proxies[k].state = "completed"
  BY <1>1, <1>2 DEF ProxyRows, ProxyStates
<1> HIDE DEF state
<1>5. ProxiesOK' /\ ProxiesKept
  BY <1>1, <1>3, <1>4, StateOnlyKeeps
<1>6. CallsOK'
  BY <1>1, CallsStill
<1> QED BY <1>1, <1>5, <1>6, ProxiesOnlyKeep

LEMMA BeginAnswerKept ==
    ASSUME VaultInvariant, NEW k \in Keys, BeginAnswer(k)
    PROVE  Kept
<1>1. /\ proxies[k].state = "pending"
      /\ UNCHANGED <<custodyVars, access, agentOff, standing, grants, cards, deadline,
                     expiry, sealing, cut, dropped>>
  BY DEF BeginAnswer
<1>2. CASE proxies' = [proxies EXCEPT ![k].state = "uncertain"] /\ UNCHANGED opening
  <2>1. ProxiesOK' /\ ProxiesKept
    BY <1>1, <1>2, StateOnlyKeeps DEF ProxyStates
  <2> QED BY <1>1, <1>2, <2>1, CallsStill, ProxiesOnlyKeep
<1>3. CASE opening' = opening \cup {[key |-> k, lag |-> 0]} /\ UNCHANGED proxies
  <2>1. ProxiesOK' /\ ProxiesKept
    BY <1>1, <1>3, CustodyStands, StillProxies
  <2>2. CallsOK'
    BY <1>1, <1>3 DEF VaultInvariant, CallsOK
  <2> QED BY <1>1, <2>1, <2>2, ProxiesOnlyKeep
<1> QED BY <1>2, <1>3 DEF BeginAnswer

(* An answer records one use, on the grant and on the request. *)
LEMMA FinishAnswerKept ==
    ASSUME VaultInvariant, NEW a \in opening, FinishAnswer(a)
    PROVE  Kept
<1> DEFINE k == a.key
<1>1. k \in Keys /\ a.lag \in 0 .. 1
  BY DEF VaultInvariant, CallsOK
<1> DEFINE now == -a.lag
<1>2. now \in Int
  BY <1>1
<1>3. /\ opening' = opening \ {a} /\ proxies[k].state = "pending"
      /\ \/ /\ grants' = Consumed(proxies[k].cred, "device_proxy", now)
            /\ proxies' = [proxies EXCEPT ![k].state = "completed", ![k].uses = @ + 1]
         \/ proxies' = [proxies EXCEPT ![k].state = "refused"] /\ UNCHANGED grants
      /\ UNCHANGED <<custodyVars, access, agentOff, standing, cards, deadline, expiry, sealing, cut, dropped>>
  BY DEF FinishAnswer
<1> HIDE DEF k, now
<1>4. CallsOK'
  BY <1>3 DEF VaultInvariant, CallsOK
<1>5. CASE /\ grants' = Consumed(proxies[k].cred, "device_proxy", now)
           /\ proxies' = [proxies EXCEPT ![k].state = "completed", ![k].uses = @ + 1]
  <2>1. proxies[k].cred \in Credentials /\ proxies[k].uses = 0 /\ proxies[k] \in ProxyRows
        /\ proxies \in [Keys -> ProxyRows]
    BY <1>1, <1>3, ProxyTyped DEF VaultInvariant, ProxiesOK
  <2>2. proxies' = [proxies EXCEPT ![k] = [proxies[k] EXCEPT !.state = "completed", !.uses = 1]]
    BY <1>1, <1>5, <2>1 DEF ProxyRows
  <2>3. ProxiesOK' /\ ProxiesKept
    BY <1>1, <1>3, <2>2, SettlingKeeps DEF ProxyStates
  <2>4. GrantsOK' /\ GrantsKept /\ \A g \in cut : grants'[g].uses = grants[g].uses
    BY <1>2, <1>3, <1>5, <2>1, ConsumedKeeps
  <2>5. CustodyInvariant' /\ OnlyTouches({}) /\ StayOnBut({}) /\ changes' \in Nat /\ changes <= changes'
    BY <1>3, CustodyStands
  <2>6. CardsOK' /\ DeadlineOK'
    BY <1>3, <2>4, <2>5, StillCards, StillDeadline DEF VaultInvariant, DeadlineOK
  <2>7. SwitchesOK'
    BY <1>3, <2>5, StillSwitches DEF VaultInvariant, SwitchesOK
  <2> QED BY <1>3, <1>4, <2>3, <2>4, <2>5, <2>6, <2>7 DEF Kept, VaultInvariant, AnswersKept
<1>6. CASE proxies' = [proxies EXCEPT ![k].state = "refused"] /\ UNCHANGED grants
  <2>1. ProxiesOK' /\ ProxiesKept
    BY <1>1, <1>3, <1>6, StateOnlyKeeps DEF ProxyStates
  <2> QED BY <1>3, <1>4, <1>6, <2>1, ProxiesOnlyKeep
<1> QED BY <1>3, <1>5, <1>6

LEMMA FinishAnswerLateKept ==
    ASSUME VaultInvariant, NEW a \in opening, FinishAnswerLate(a)
    PROVE  Kept
<1>1. /\ opening' = opening \ {a}
      /\ UNCHANGED <<custodyVars, access, agentOff, standing, grants, cards, deadline,
                     expiry, proxies, sealing, cut, dropped>>
  BY DEF FinishAnswerLate
<1>2. ProxiesOK' /\ ProxiesKept
  BY <1>1, CustodyStands, StillProxies
<1>3. CallsOK'
  BY <1>1 DEF VaultInvariant, CallsOK
<1> QED BY <1>1, <1>2, <1>3, ProxiesOnlyKeep

LEMMA CrashKept ==
    ASSUME VaultInvariant, Crash
    PROVE  Kept
<1>1. /\ sealing' = {} /\ opening' = {} /\ expiry' = None
      /\ UNCHANGED <<custodyVars, access, agentOff, standing, grants, cards, deadline, cut, dropped>>
  BY DEF Crash
<1>2. CallsOK'
  BY <1>1 DEF CallsOK
<1>3. CASE UNCHANGED proxies
  <2>1. ProxiesOK' /\ ProxiesKept
    BY <1>1, <1>3, CustodyStands, StillProxies
  <2> QED BY <1>1, <1>2, <2>1, ProxiesOnlyKeep
<1>4. CASE \E s \in sealing :
              /\ proxies[s.key].state = "none" /\ Live(s.cred)
              /\ proxies' = [proxies EXCEPT ![s.key] = ProxyRow(s)]
  <2>1. PICK s \in sealing :
              /\ proxies[s.key].state = "none" /\ Live(s.cred)
              /\ proxies' = [proxies EXCEPT ![s.key] = ProxyRow(s)]
    BY <1>4
  <2>2. ProxyRow(s) \in ProxyRows /\ ProxyRow(s).state = "pending" /\ ProxyRow(s).cred = s.cred
        /\ ProxyRow(s).frames <= 1 /\ ProxyRow(s).uses = 0
    BY ProxyRowFits
  <2>3. ProxiesOK' /\ ProxiesKept
    BY <1>1, <2>1, <2>2, SendingKeeps
  <2> QED BY <1>1, <1>2, <2>3, ProxiesOnlyKeep
<1> QED BY <1>3, <1>4 DEF Crash

-----------------------------------------------------------------------------
(* Time. *)

(* What comes nearer keeps its order, and what is past stays past. *)
LEMMA NearerKeepsOrder ==
    ASSUME NEW s \in Int, NEW t \in Int
    PROVE  /\ Nearer(s) \in Int /\ Nearer(s) <= s
           /\ s <= t => Nearer(s) <= Nearer(t)
           /\ s >= Past => Nearer(s) >= Past
BY DEF Nearer, Past

LEMMA TickGrants ==
    ASSUME VaultInvariant, Tick
    PROVE  GrantsOK' /\ GrantsKept /\ \A g \in cut : grants'[g].uses = grants[g].uses
<1>1. /\ grants' = [g \in Grants |-> IF grants[g].once \/ grants[g].revoked THEN grants[g]
                                     ELSE [grants[g] EXCEPT !.left = Nearer(@)]]
      /\ UNCHANGED <<custodyVars, access, cut>>
  BY DEF Tick
<1>2. Len(grants) \in Nat /\ \A g \in Grants : grants[g] \in GrantRows
  BY SeqIsFunction DEF VaultInvariant, GrantsOK, Grants
<1>3. ASSUME NEW g \in Grants
      PROVE  /\ GrantFollows(grants[g], grants'[g]) /\ grants'[g].uses = grants[g].uses
             /\ grants'[g].revoked = grants[g].revoked
  <2>1. grants'[g] = IF grants[g].once \/ grants[g].revoked THEN grants[g]
                     ELSE [grants[g] EXCEPT !.left = Nearer(@)]
    BY <1>1
  <2>2. CASE grants[g].once \/ grants[g].revoked
    BY <2>1, <2>2, SameGrantFollows
  <2>3. CASE ~(grants[g].once \/ grants[g].revoked)
    <3>1. PICK left : left = Nearer(grants[g].left)
      OBVIOUS
    <3>2. grants[g] \in GrantRows /\ left \in Int
      BY <1>2, <3>1, NearerKeepsOrder DEF GrantRows
    <3>3. grants'[g] = [grants[g] EXCEPT !.left = left]
      BY <2>1, <2>3, <3>1, <3>2 DEF GrantRows
    <3>4. grants'[g] \in GrantRows
      BY <3>2, <3>3 DEF GrantRows
    <3>5. /\ grants'[g].cred = grants[g].cred /\ grants'[g].tuple = grants[g].tuple
          /\ grants'[g].version = grants[g].version /\ grants'[g].policy = grants[g].policy
          /\ grants'[g].access = grants[g].access /\ grants'[g].once = grants[g].once
          /\ grants'[g].by = grants[g].by /\ grants'[g].revoked = grants[g].revoked
          /\ grants'[g].uses = grants[g].uses
      BY <3>2, <3>3 DEF GrantRows
    <3> QED BY <2>3, <3>4, <3>5 DEF GrantFollows
  <2> QED BY <2>2, <2>3
<1>4. \A g \in Grants : grants'[g] \in GrantRows
  BY <1>3 DEF GrantFollows
<1>5. grants' \in [1 .. Len(grants) -> GrantRows]
  BY <1>1, <1>4 DEF Grants
<1>6. grants' \in Seq(GrantRows) /\ Len(grants') = Len(grants)
  BY <1>2, <1>5, FunctionIsSeq
<1>7. \A g \in cut : g \in Grants /\ grants[g].revoked
  BY DEF VaultInvariant, GrantsOK
<1>8. \A g \in cut' : g \in Grants /\ grants'[g].revoked
  BY <1>1, <1>3, <1>7
<1>9. GrantsOK' /\ GrantsKept
  BY <1>1, <1>3, <1>6, <1>8, CustodyStands, GrantsFollow
<1> QED BY <1>3, <1>7, <1>9

LEMMA TickCards ==
    ASSUME VaultInvariant, Tick, GrantsOK', GrantsKept
    PROVE  /\ CardsOK' /\ Len(cards') = Len(cards)
           /\ \A i \in Cards : /\ cards'[i].status = cards[i].status /\ cards'[i].by = cards[i].by
                               /\ cards[i].status = "pending" => cards'[i].left = Nearer(cards[i].left)
<1>1. /\ cards' = [i \in Cards |-> IF cards[i].status = "pending"
                                   THEN [cards[i] EXCEPT !.left = Nearer(@)] ELSE cards[i]]
      /\ UNCHANGED <<custodyVars, access, agentOff, dropped>>
  BY DEF Tick
<1>2. Len(cards) \in Nat /\ dropped \subseteq Cards
  BY SeqIsFunction DEF VaultInvariant, CardsOK
<1>3. ASSUME NEW i \in Cards
      PROVE  /\ CardFollows(cards[i], cards'[i]) /\ cards'[i].items = cards[i].items
             /\ cards'[i].status = cards[i].status /\ cards'[i].by = cards[i].by
             /\ cards[i].status = "pending" => cards'[i].left = Nearer(cards[i].left)
  <2>1. cards'[i] = IF cards[i].status = "pending" THEN [cards[i] EXCEPT !.left = Nearer(@)] ELSE cards[i]
    BY <1>1
  <2>2. CASE cards[i].status # "pending"
    BY <2>1, <2>2, SameCardFollows
  <2>3. CASE cards[i].status = "pending"
    <3>1. PICK left : left = Nearer(cards[i].left)
      OBVIOUS
    <3>2. cards[i] \in CardRows
      BY CardTyped
    <3>3. left \in Past .. CardTtl
      <4>1. cards[i].left \in Int /\ cards[i].left >= Past /\ cards[i].left <= CardTtl /\ CardTtl \in Int
        BY <3>2, VaultAssumption DEF CardRows, Past
      <4>2. left \in Int /\ left <= cards[i].left /\ left >= Past
        BY <3>1, <4>1, NearerKeepsOrder
      <4>3. Past \in Int
        BY DEF Past
      <4> QED BY <4>1, <4>2, <4>3
    <3>4. cards'[i] = [cards[i] EXCEPT !.left = left]
      BY <2>1, <2>3, <3>1, <3>2 DEF CardRows
    <3>5. cards'[i] \in CardRows /\ cards'[i].left = left
      BY <3>2, <3>3, <3>4 DEF CardRows
    <3>6. /\ cards'[i].tuple = cards[i].tuple /\ cards'[i].grant = cards[i].grant
          /\ cards'[i].version = cards[i].version /\ cards'[i].policy = cards[i].policy
          /\ cards'[i].approvers = cards[i].approvers /\ cards'[i].items = cards[i].items
          /\ cards'[i].status = cards[i].status /\ cards'[i].by = cards[i].by
      BY <3>2, <3>4 DEF CardRows
    <3> QED BY <3>1, <3>5, <3>6 DEF CardFollows
  <2> QED BY <2>2, <2>3
<1>4. \A i \in Cards : cards'[i] \in CardRows
  BY <1>3 DEF CardFollows
<1>5. cards' \in [1 .. Len(cards) -> CardRows]
  BY <1>1, <1>4 DEF Cards
<1>6. cards' \in Seq(CardRows) /\ Len(cards') = Len(cards)
  BY <1>2, <1>5, FunctionIsSeq
<1>7. vault' = vault /\ access' = access /\ agentOff' = agentOff /\ dropped' = dropped
  BY <1>1 DEF custodyVars
<1>8. ASSUME NEW i \in Cards
      PROVE  /\ \A c \in DOMAIN cards'[i].items : Live(c)'
             /\ cards'[i].status = "pending" =>
                   access'.on /\ ~agentOff' /\ \A c \in DOMAIN cards'[i].items : ~vault'[c].frozen
  <2>1. CardOK(cards[i])
    BY CardTyped
  <2> QED BY <1>3, <1>7, <2>1 DEF CardOK, Live
<1>9. CardsOK'
  BY <1>1, <1>2, <1>3, <1>6, <1>7, <1>8, CustodyStands, CardsFollow
<1> QED BY <1>3, <1>6, <1>9

LEMMA TickKept ==
    ASSUME VaultInvariant, Tick
    PROVE  Kept
<1>1. /\ sealing = {} /\ \A a \in opening : a.lag = 0
      /\ deadline' = IF deadline = None THEN None ELSE Nearer(deadline)
      /\ expiry' = IF expiry = None THEN None ELSE Nearer(expiry)
      /\ proxies' = [k \in Keys |-> [proxies[k] EXCEPT !.left = Sooner(@)]]
      /\ opening' = {[a EXCEPT !.lag = @ + 1] : a \in opening}
      /\ UNCHANGED <<custodyVars, access, agentOff, standing, sealing, cut, dropped>>
  BY DEF Tick
<1>2. CustodyInvariant' /\ OnlyTouches({}) /\ StayOnBut({}) /\ changes' \in Nat /\ changes <= changes'
  BY <1>1, CustodyStands
<1>3. GrantsOK' /\ GrantsKept /\ \A g \in cut : grants'[g].uses = grants[g].uses
  BY TickGrants
<1>4. /\ CardsOK' /\ Len(cards') = Len(cards)
      /\ \A i \in Cards : /\ cards'[i].status = cards[i].status /\ cards'[i].by = cards[i].by
                          /\ cards[i].status = "pending" => cards'[i].left = Nearer(cards[i].left)
  BY <1>3, TickCards
<1>5. DeadlineOK'
  <2>1. /\ deadline \in Int \cup {None} /\ expiry \in Int \cup {None}
        /\ \A i \in Pending(cards) \ dropped :
              deadline # None /\ (deadline <= cards[i].left \/ deadline <= 0)
    BY DEF VaultInvariant, DeadlineOK
  <2>2. deadline' \in Int \cup {None} /\ expiry' \in Int \cup {None}
    BY <1>1, <2>1, NearerKeepsOrder
  <2>3. ASSUME NEW i \in Pending(cards') \ dropped'
        PROVE  deadline' # None /\ (deadline' <= cards'[i].left \/ deadline' <= 0)
    <3>1. i \in Pending(cards) \ dropped /\ i \in Cards /\ cards[i].status = "pending"
      BY <1>1, <1>4 DEF Pending, Cards
    <3>2. deadline # None /\ deadline \in Int /\ (deadline <= cards[i].left \/ deadline <= 0)
      BY <2>1, <3>1
    <3>3. cards[i].left \in Int
      BY <3>1, CardTyped, VaultAssumption DEF CardRows, Past
    <3>4. deadline' = Nearer(deadline) /\ cards'[i].left = Nearer(cards[i].left) /\ deadline' \in Int
      BY <1>1, <1>4, <3>1, <3>2, NearerKeepsOrder
    <3>5. deadline <= 0 => deadline' <= 0
      BY <3>2, <3>4, NearerKeepsOrder
    <3>6. deadline <= cards[i].left => deadline' <= cards'[i].left
      BY <3>2, <3>3, <3>4, NearerKeepsOrder
    <3> QED BY <3>2, <3>4, <3>5, <3>6, NoneIsNoAnswer
  <2>4. Pending(cards)' = Pending(cards')
    BY DEF Pending
  <2> QED BY <2>2, <2>3, <2>4 DEF DeadlineOK
<1>6. ProxiesOK' /\ ProxiesKept
  <2>1. ASSUME NEW k \in Keys
        PROVE  /\ proxies'[k] \in ProxyRows
               /\ proxies'[k].state = proxies[k].state /\ proxies'[k].cred = proxies[k].cred
               /\ proxies'[k].frames = proxies[k].frames /\ proxies'[k].uses = proxies[k].uses
    <3>1. PICK left : left = Sooner(proxies[k].left)
      OBVIOUS
    <3>2. proxies[k] \in ProxyRows /\ left \in Int
      BY <3>1, ProxyTyped DEF ProxyRows, Sooner
    <3>3. proxies'[k] = [proxies[k] EXCEPT !.left = left]
      BY <1>1, <3>1, <3>2 DEF ProxyRows
    <3> QED BY <3>2, <3>3 DEF ProxyRows
  <2>2. proxies' \in [Keys -> ProxyRows]
    BY <1>1, <2>1
  <2>3. vault' = vault
    BY <1>1 DEF custodyVars
  <2>4. ASSUME NEW k \in Keys
        PROVE  /\ proxies'[k].state # "none" => proxies'[k].cred \in Credentials /\ Live(proxies[k].cred)'
               /\ proxies'[k].state = "none" => proxies'[k].frames = 0
               /\ proxies'[k].frames <= 1
               /\ proxies'[k].uses = IF proxies'[k].state = "completed" THEN 1 ELSE 0
    BY <2>1, <2>3, ProxyTyped DEF Live
  <2> QED BY <2>1, <2>2, <2>4 DEF ProxiesOK, ProxiesKept
<1>7. CallsOK'
  <2>1. ASSUME NEW a \in opening PROVE [a EXCEPT !.lag = @ + 1] \in [key : Keys, lag : 0 .. 1]
    <3>1. a \in [key : Keys, lag : 0 .. 1] /\ a.lag = 0
      BY <1>1 DEF VaultInvariant, CallsOK
    <3> QED BY <3>1
  <2>2. opening' \subseteq [key : Keys, lag : 0 .. 1]
    BY <1>1, <2>1
  <2> QED BY <1>1, <2>2 DEF CallsOK
<1>8. SwitchesOK'
  BY <1>1, <1>2, StillSwitches DEF VaultInvariant, SwitchesOK
<1> QED BY <1>2, <1>3, <1>4, <1>5, <1>6, <1>7, <1>8 DEF Kept, VaultInvariant, AnswersKept

LEMMA StutterKept ==
    ASSUME VaultInvariant, UNCHANGED vars
    PROVE  Kept
<1>1. UNCHANGED <<custodyVars, access, agentOff, standing, grants, cards, deadline, expiry,
                  proxies, sealing, opening, cut, dropped>>
  BY DEF vars, releaseVars
<1>2. ProxiesOK' /\ ProxiesKept
  BY <1>1, CustodyStands, StillProxies
<1> QED BY <1>1, <1>2, CallsStill, ProxiesOnlyKeep

-----------------------------------------------------------------------------
(* The whole specification. *)

LEMMA VaultStarts == Init => VaultInvariant
<1> SUFFICES ASSUME Init PROVE VaultInvariant
  OBVIOUS
<1>1. CustodyInvariant /\ changes \in Nat
  BY CustodyStarts DEF Init, CustodyInvariant, CustodyShape
<1>2. SwitchesOK
  <2>1. access = [on |-> TRUE, epoch |-> 1] /\ agentOff = FALSE /\ standing = TRUE
    BY DEF Init
  <2>2. access \in [on : BOOLEAN, epoch : Nat] /\ access.epoch = 1
    BY <2>1
  <2>3. access.epoch >= 1 /\ access.epoch <= changes + 1
    BY <1>1, <2>2
  <2> QED BY <2>1, <2>2, <2>3 DEF SwitchesOK
<1>3. GrantsOK /\ CardsOK
  <2>1. grants = <<>> /\ cards = <<>> /\ cut = {} /\ dropped = {}
    BY DEF Init
  <2> QED BY <2>1 DEF GrantsOK, CardsOK, GaveApart, Grants, Cards
<1>4. DeadlineOK
  <2>1. cards = <<>> /\ deadline = None /\ expiry = None
    BY DEF Init
  <2> QED BY <2>1 DEF DeadlineOK, Pending
<1>5. ProxiesOK
  <2>1. NoProxy \in ProxyRows /\ NoProxy.state = "none" /\ NoProxy.frames = 0 /\ NoProxy.uses = 0
    BY DEF NoProxy, ProxyRows, ProxyStates
  <2>2. proxies = [k \in Keys |-> NoProxy]
    BY DEF Init
  <2> HIDE DEF NoProxy
  <2> QED BY <2>1, <2>2 DEF ProxiesOK
<1>6. CallsOK
  BY DEF Init, CallsOK
<1> QED BY <1>1, <1>2, <1>3, <1>4, <1>5, <1>6 DEF VaultInvariant

LEMMA VaultStep ==
    ASSUME VaultInvariant, [Next]_vars
    PROVE  Kept
<1>1. budget \in Budgets /\ budget.keys \subseteq Keys /\ budget.creds \subseteq Credentials
      /\ budget.tuples \subseteq Deliveries
  BY VaultAssumption, BudgetsBounded DEF VaultInvariant, CustodyInvariant, CustodyShape, Deliveries
<1>2. CASE CustodyStep
  BY <1>2, PublishKeyKept, RotateMemberKeyKept, ChangeMembershipKept, AddCredentialCustodianKept,
     RemoveCredentialCustodianKept, DeleteCredentialKept, CreateCredentialKept, UpdateCredentialKept
     DEF CustodyStep
<1>3. CASE SwitchStep
  BY <1>3, FreezeKept, UnfreezeKept, SwitchAgentKept, SwitchAccessKept, EndDelegationKept DEF SwitchStep
<1>4. CASE GrantStep
  BY <1>4, IssueGrantKept, RevokeGrantKept, ReleaseKept DEF GrantStep
<1>5. CASE CardStep
  BY <1>1, <1>5, RequestApprovalKept, DecideLateKept, DecideKept, BeginExpiryKept, EndExpiryKept
     DEF CardStep
<1>6. CASE ProxyStep
  BY <1>1, <1>6, BeginProxyKept, SendProxyKept, SendProxyUnheardKept, SendProxyRefusedKept,
     RetryProxyKept, BeginAnswerKept, FinishAnswerKept, FinishAnswerLateKept DEF ProxyStep
<1>7. CASE Crash \/ Tick \/ UNCHANGED vars
  BY <1>7, CrashKept, TickKept, StutterKept
<1> QED BY <1>2, <1>3, <1>4, <1>5, <1>6, <1>7 DEF Next

(* The invariant the results below rest on. *)
LEMMA VaultStays == Spec => []VaultInvariant
<1>1. VaultInvariant /\ [Next]_vars => VaultInvariant'
  BY VaultStep DEF Kept
<1> QED BY <1>1, VaultStarts, PTL DEF Spec

(* Whoever manages a live credential is a custodian of it, there is always  *)
(* one, and a custodian's wrap is for the key that is published now, except *)
(* where a client sealed to a key replaced meanwhile; however changes of    *)
(* credentials, keys and members follow on each other.                      *)
THEOREM CustodyIsHeld == Spec => []CustodyHolds
<1>1. VaultInvariant => CustodyHolds
  BY CustodyImplies DEF VaultInvariant
<1> QED BY <1>1, VaultStays, PTL

LEMMA VaultTyped == VaultInvariant => VaultTypeOK
<1> SUFFICES ASSUME VaultInvariant PROVE VaultTypeOK
  OBVIOUS
<1>1. standing \in BOOLEAN
  BY DEF VaultInvariant, SwitchesOK
<1>2. access.epoch \in 1 .. budget.changes + 1
  <2>1. access.epoch \in Nat /\ access.epoch >= 1 /\ access.epoch <= changes + 1
    BY DEF VaultInvariant, SwitchesOK
  <2>2. changes \in Nat /\ changes <= budget.changes /\ budget.changes \in Nat
    BY BudgetsBounded DEF VaultInvariant, CustodyInvariant, CustodyShape
  <2> QED BY <2>1, <2>2
<1>3. ASSUME NEW g \in Grants PROVE grants[g].cred \in Credentials /\ grants[g].remaining \in 0 .. 1
  <2>1. grants[g] \in GrantRows
    BY SeqIsFunction DEF VaultInvariant, GrantsOK, Grants
  <2> QED BY <2>1 DEF GrantRows
<1>4. ASSUME NEW i \in Cards
      PROVE  /\ cards[i].status \in CardStatuses
             /\ \A c \in DOMAIN cards[i].items : Live(c)
             /\ cards[i].left \in Past .. CardTtl
  BY CardTyped DEF CardRows, CardOK
<1>5. ASSUME NEW k \in Keys
      PROVE  proxies[k].state \in ProxyStates /\ (proxies[k].state # "none" => Live(proxies[k].cred))
  BY ProxyTyped DEF ProxyRows
<1>6. \A a \in opening : a.key \in Keys /\ a.lag \in 0 .. 1
  BY DEF VaultInvariant, CallsOK
<1>7. cut \subseteq Grants /\ dropped \subseteq Cards
  BY DEF VaultInvariant, GrantsOK, CardsOK
<1> QED BY <1>1, <1>2, <1>3, <1>4, <1>5, <1>6, <1>7 DEF VaultTypeOK

(* A grant that stands was given for the credential as it is now, by one    *)
(* who can still open it: no change to the value, the policy, the           *)
(* custodians, their keys or the switch leaves an earlier grant usable.     *)
THEOREM GrantsCurrent == Spec => []GrantsAreCurrent
<1>1. VaultInvariant => GrantsAreCurrent
  BY VaultTyped DEF VaultInvariant, GrantsOK, Stands, GrantsAreCurrent
<1> QED BY <1>1, VaultStays, PTL

(* What an answer says of its card, its grants and no others. *)
AnsweredCards ==
    \A i \in Cards :
        LET card == cards[i]
            items == DOMAIN card.items
        IN  /\ card.status = "pending" =>
                  /\ access.on /\ ~agentOff
                  /\ \A c \in items : card.items[c] = None /\ ~vault[c].frozen
            /\ card.status \in {"denied", "expired"} => \A c \in items : card.items[c] = "denied"
            /\ card.status \in {"allowed", "denied"} => card.by \in card.approvers
            /\ \A c \in items : card.items[c] = "allowed" =>
                  LET g == card.grant[c]
                  IN  /\ grants[g].cred = c /\ grants[g].tuple = card.tuple
                      /\ grants[g].by = card.by
                      /\ grants[g].version = card.version[c]
                      /\ \A j \in Cards, o \in Credentials :
                            o \in DOMAIN cards[j].items /\ <<j, o>> # <<i, c>>
                              => cards[j].grant[o] # g

LEMMA CardsAnswered == VaultInvariant => AnsweredCards
<1> SUFFICES ASSUME VaultInvariant, NEW i \in Cards
             PROVE  LET card == cards[i]
                        items == DOMAIN card.items
                    IN  /\ card.status = "pending" =>
                              /\ access.on /\ ~agentOff
                              /\ \A c \in items : card.items[c] = None /\ ~vault[c].frozen
                        /\ card.status \in {"denied", "expired"} =>
                              \A c \in items : card.items[c] = "denied"
                        /\ card.status \in {"allowed", "denied"} => card.by \in card.approvers
                        /\ \A c \in items : card.items[c] = "allowed" =>
                              LET g == card.grant[c]
                              IN  /\ grants[g].cred = c /\ grants[g].tuple = card.tuple
                                  /\ grants[g].by = card.by
                                  /\ grants[g].version = card.version[c]
                                  /\ \A j \in Cards, o \in Credentials :
                                        o \in DOMAIN cards[j].items /\ <<j, o>> # <<i, c>>
                                          => cards[j].grant[o] # g
  BY DEF AnsweredCards
<1>1. CardOK(cards[i])
  BY CardTyped
<1>2. ASSUME NEW c \in DOMAIN cards[i].items, cards[i].items[c] = "allowed"
      PROVE  /\ Gave(cards[i], c)
             /\ \A j \in Cards, o \in Credentials :
                   o \in DOMAIN cards[j].items /\ <<j, o>> # <<i, c>> => cards[j].grant[o] # cards[i].grant[c]
  <2>1. Gave(cards[i], c)
    BY <1>1, <1>2 DEF CardOK
  <2>2. GaveApart
    BY DEF VaultInvariant, CardsOK
  <2> QED BY <1>2, <2>1, <2>2 DEF GaveApart
<1>3. /\ cards[i].status = "pending" =>
             access.on /\ ~agentOff /\ \A c \in DOMAIN cards[i].items : cards[i].items[c] = None /\ ~vault[c].frozen
      /\ cards[i].status \in {"denied", "expired"} => \A c \in DOMAIN cards[i].items : cards[i].items[c] = "denied"
      /\ cards[i].status \in {"allowed", "denied"} => cards[i].by \in cards[i].approvers
  BY <1>1 DEF CardOK
<1> QED BY <1>2, <1>3 DEF Gave

(* The first answer to a card is the only one and gives exactly what was    *)
(* allowed, no card waits for what a switch has stopped, a grant that was   *)
(* there when its switch was thrown is never used again, and every card     *)
(* that waits has a deadline, but for those an earlier run left behind.     *)
THEOREM AnswersHold == Spec => AnswersStand
<1>1. VaultInvariant => AnsweredCards
  BY CardsAnswered
<1>2. VaultInvariant => \A i \in Pending(cards) \ dropped :
                           deadline # None /\ (deadline <= cards[i].left \/ deadline <= 0)
  BY DEF VaultInvariant, DeadlineOK
<1>3. VaultInvariant /\ [Next]_vars => AnswersKept
  BY VaultStep DEF Kept
<1> QED BY <1>1, <1>2, <1>3, VaultStays, PTL DEF Spec, AnswersStand, AnsweredCards, AnswersKept

(* What the uses of grants and requests come to: one per "Allow once", and on a request exactly   *)
(* when it is completed.                                                    *)
UsesCounted ==
    /\ \A g \in Grants : grants[g].once => grants[g].uses <= 1
    /\ \A k \in Keys : /\ proxies[k].frames <= 1
                       /\ proxies[k].uses = IF proxies[k].state = "completed" THEN 1 ELSE 0

(* One "Allow once" is one use at most, one frame at most goes out for an   *)
(* idempotency key, a use is recorded exactly when its request completes,   *)
(* and what was told of a request is never told otherwise.                  *)
THEOREM UsesHold == Spec => UsedOnce
<1>1. VaultInvariant => UsesCounted
  <2> SUFFICES ASSUME VaultInvariant PROVE UsesCounted
    OBVIOUS
  <2>1. ASSUME NEW g \in Grants, grants[g].once PROVE grants[g].uses <= 1
    <3>1. grants[g] \in GrantRows /\ grants[g].uses + grants[g].remaining <= 1
      BY <2>1, SeqIsFunction DEF VaultInvariant, GrantsOK, Grants
    <3>2. grants[g].uses \in Nat /\ grants[g].remaining \in Nat
      BY <3>1 DEF GrantRows
    <3> QED BY <3>1, <3>2
  <2>2. \A k \in Keys : /\ proxies[k].frames <= 1
                        /\ proxies[k].uses = IF proxies[k].state = "completed" THEN 1 ELSE 0
    BY DEF VaultInvariant, ProxiesOK
  <2> QED BY <2>1, <2>2 DEF UsesCounted
<1>2. VaultInvariant /\ [Next]_vars => ProxiesKept
  BY VaultStep DEF Kept
<1> QED BY <1>1, <1>2, VaultStays, PTL DEF Spec, UsedOnce, UsesCounted, ProxiesKept
=============================================================================
