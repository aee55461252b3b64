----------------------------- MODULE Workspace -----------------------------
(* The people of a workspace over its planes, and what follows from who     *)
(* they are: the account and the memberships of the control plane, their    *)
(* projection in the workspace object, the connections that live off that   *)
(* projection, the rooms its members write in, and what their open tabs     *)
(* hear; what the workspace has bought and the files that takes; its export *)
(* and its end.  A scenario says which parts are exercised, so that TLC     *)
(* need not take the product of them all.                                   *)
EXTENDS OauthTokens, Accounts, Live, Tenancy

ASSUME WorkspaceAssumption == \A sc \in Scenarios : "exercise" \in DOMAIN sc

Exercised == budget.exercise

roomsAndTabs == <<roomVars, liveVars>>
tenantVars == <<billingVars, storageVars, tenancyVars>>
workspaceVars == <<vars, oauthVars, accountVars, roomsAndTabs, tenantVars>>

Init ==
    /\ MembershipInit /\ OauthInit /\ AccountsInit /\ RoomsInit /\ LiveInit
    /\ BillingInit /\ StorageInit /\ TenancyInit

AccountStep ==
    \/ "sessions" \in Exercised /\ SessionStep
    \/ "requests" \in Exercised /\ RequestStep
    \/ "challenges" \in Exercised /\ ChallengeStep
    \/ "recovery" \in Exercised /\ RecoveryStep
    \/ "fetches" \in Exercised /\ FetchStep
    \/ Exercised \cap {"sessions", "recovery"} # {} /\ (\E d \in Devices : RevokeDevice(d))
    \/ \E k \in AccountCalls : DropCall(k)

(* The parts that are exercised without the calls of the control plane, and *)
(* those for which the steps of the others say what becomes of them.        *)
Places == {"rooms", "live", "billing", "files", "tenancy"}
AsAWhole == Exercised \cap {"files", "tenancy"} # {}

IdentityStep ==
    \/ /\ Exercised \cap Places = {}
       /\ MembershipNext /\ UNCHANGED <<oauthVars, accountVars>>
    \/ "tokens" \in Exercised /\ OauthNext /\ UNCHANGED <<vars, accountVars>>
    \/ AccountStep /\ UNCHANGED <<vars, oauthVars>>

(* The rooms alone, or with what the tabs hear of them. *)
PlaceStep ==
    /\ ~AsAWhole
    /\ \/ "live" \in Exercised /\ LiveNext
       \/ /\ "rooms" \in Exercised /\ "live" \notin Exercised
          /\ RoomsNext \/ MembersMove
          /\ UNCHANGED liveVars

(* What was bought, the files, and the workspace as a whole.  The members   *)
(* change until its purge begins; nobody asks for them after that.          *)
TenantStep ==
    \/ /\ "billing" \in Exercised /\ ~AsAWhole
       /\ EventStep \/ AllowanceStep \/ ChangePlanStep \/ Tick
       /\ UNCHANGED <<vars, roomVars, storageVars, tenancyVars>>
    \/ /\ "files" \in Exercised
       /\ UploadStep \/ ReclaimStep
       /\ UNCHANGED <<vars, roomVars, tenancyVars>>
    \/ /\ "tenancy" \in Exercised
       /\ DeletionStep \/ ExportStep
       /\ UNCHANGED vars
    \/ /\ AsAWhole
       /\ \/ WritingStep /\ UNCHANGED vars
          \/ FundingStep /\ UNCHANGED <<vars, roomVars, tenancyVars>>
    \/ /\ "tenancy" \in Exercised /\ ~deletion.started
       /\ MembersMove
       /\ UNCHANGED tenantVars

Next ==
    \/ IdentityStep /\ UNCHANGED <<roomsAndTabs, tenantVars>>
    \/ PlaceStep /\ UNCHANGED <<oauthVars, accountVars, tenantVars>>
    \/ TenantStep /\ UNCHANGED <<oauthVars, accountVars, liveVars>>

Spec == Init /\ [][Next]_workspaceVars
=============================================================================
