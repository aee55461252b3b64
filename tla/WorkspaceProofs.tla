--------------------------- MODULE WorkspaceProofs ---------------------------
(***************************************************************************)
(* What module Workspace keeps for any people, devices, connections, rooms, *)
(* tabs and scenarios, whatever is exercised: which step moves which part,  *)
(* and so the theorems on the memberships, the account, the connections and *)
(* what was bought, whose parts module ControlPlaneProofs takes step by     *)
(* step; and, step by step here, those on the rooms, the files, the end of  *)
(* the workspace, its export, and what its open tabs hear.                  *)
(***************************************************************************)
EXTENDS Workspace, ControlPlaneProofs, WellFoundedInduction

-----------------------------------------------------------------------------
(* Whatever else is exercised, the memberships change by their own steps.   *)

LEMMA MoveKeepsMembers == ASSUME NEW name, Move(name) PROVE UNCHANGED vars
BY DEF Move, membersAside

LEMMA RoomStepAside == RoomStep => UNCHANGED vars
<1> SUFFICES ASSUME RoomStep PROVE \E name : Move(name)
  BY MoveKeepsMembers
<1>1. PICK p \in People, r \in Rooms :
         \/ \E kind, others : CreateChannel(p, r, kind, others)
         \/ \E others : OpenDirectMessage(p, others, r)
         \/ JoinChannel(p, r) \/ LeaveChannel(p, r) \/ ArchiveChannel(p, r)
         \/ \E q : AddChannelMember(p, r, q)
  BY DEF RoomStep
<1> QED BY Zenon, <1>1 DEF CreateChannel, OpenDirectMessage, JoinChannel, LeaveChannel, ArchiveChannel,
           AddChannelMember

LEMMA SendStepAside == SendStep => UNCHANGED vars
<1> SUFFICES ASSUME SendStep PROVE UNCHANGED vars
  OBVIOUS
<1>1. PICK p, r, parent, to, keyworded, viaForm : SendMessage(p, r, parent, to, keyworded, viaForm)
  BY DEF SendStep
<1>2. Move("send")
  BY <1>1 DEF SendMessage
<1> QED BY <1>2, MoveKeepsMembers

LEMMA QueueStepAside == QueueStep => UNCHANGED vars
<1> SUFFICES ASSUME QueueStep PROVE UNCHANGED vars
  OBVIOUS
<1>1. CASE \E p, r, form, ranked, buckets : ConfigureWorkQueue(p, r, form, ranked, buckets)
  <2>1. PICK p, r, form, ranked, buckets : ConfigureWorkQueue(p, r, form, ranked, buckets)
    BY <1>1
  <2>2. Move("queue")
    BY <2>1 DEF ConfigureWorkQueue
  <2> QED BY <2>2, MoveKeepsMembers
<1>2. CASE \E p, m, status : SetItemStatus(p, m, status)
  <2>1. PICK p, m, status : SetItemStatus(p, m, status)
    BY <1>2
  <2>2. Move("status")
    BY Zenon, <2>1 DEF SetItemStatus
  <2> QED BY <2>2, MoveKeepsMembers
<1> QED BY <1>1, <1>2 DEF QueueStep

LEMMA MessageStepAside ==
    ASSUME NEW p, NEW m, NEW r, NEW adds,
           \/ ForwardMessage(p, m, r) \/ DeleteMessage(p, m) \/ SaveMessage(p, m)
           \/ UnsaveMessage(p, m) \/ ReactToMessage(p, m, adds) \/ PinMessage(p, m, adds)
    PROVE  UNCHANGED vars
<1>1. Move("forward") \/ Move("delete") \/ Move("keep")
  BY DEF ForwardMessage, DeleteMessage, SaveMessage, UnsaveMessage, ReactToMessage, PinMessage
<1> QED BY <1>1, MoveKeepsMembers

LEMMA ReaderStepAside == ReaderStep => UNCHANGED vars
<1> SUFFICES ASSUME ReaderStep PROVE UNCHANGED vars
  OBVIOUS
<1>1. \/ \E p, r, level : SetNotifyLevel(p, r, level)
      \/ \E p, r, requested : MarkChannelRead(p, r, requested)
      \/ \E p, quiet, keyword : SetNotificationPreferences(p, quiet, keyword)
      \/ \E p, m, wanted : SetThreadSubscription(p, m, wanted)
      \/ \E p, m, requested, byFrame : MarkThreadRead(p, m, requested, byFrame)
      \/ \E p, n, unread : MarkNotification(p, n, unread)
  BY DEF ReaderStep
<1>2. Move("prefs") \/ Move("read")
  BY <1>1 DEF SetNotifyLevel, MarkChannelRead, SetNotificationPreferences, SetThreadSubscription,
     MarkThreadRead, MarkNotification
<1> QED BY <1>2, MoveKeepsMembers

LEMMA DraftStepAside == DraftStep => UNCHANGED vars
<1> SUFFICES ASSUME DraftStep PROVE UNCHANGED vars
  OBVIOUS
<1>1. \E s, r : GetDraft(s, r) \/ SpendDraft(s, r) \/ \E empty : SaveDraft(s, r, empty)
  BY DEF DraftStep
<1>2. Move("drafts")
  BY <1>1 DEF GetDraft, SpendDraft, SaveDraft
<1> QED BY <1>2, MoveKeepsMembers

LEMMA RoomsNextAside == RoomsNext => UNCHANGED vars
<1>1. MessageStep => UNCHANGED vars
  <2>1. MessageStep => \E p, m, r, adds :
           \/ ForwardMessage(p, m, r) \/ DeleteMessage(p, m) \/ SaveMessage(p, m)
           \/ UnsaveMessage(p, m) \/ ReactToMessage(p, m, adds) \/ PinMessage(p, m, adds)
    BY DEF MessageStep
  <2> QED BY <2>1, MessageStepAside
<1> QED BY <1>1, RoomStepAside, QueueStepAside, SendStepAside, ReaderStepAside, DraftStepAside
        DEF RoomsNext

LEMMA LiveNextAside == LiveNext => MembershipNext \/ UNCHANGED vars
<1> SUFFICES ASSUME LiveNext PROVE MembershipNext \/ UNCHANGED vars
  OBVIOUS
<1>1. CASE AnnouncedStep
  <2>1. \/ \E p, r, parent : SendMessage(p, r, parent, Nobody, {}, FALSE)
        \/ \E p, m, r : ForwardMessage(p, m, r)
        \/ \E p, m : DeleteMessage(p, m)
        \/ \E p, m, adds : ReactToMessage(p, m, adds) \/ PinMessage(p, m, adds)
    BY <1>1 DEF AnnouncedStep
  <2>2. Move("send") \/ Move("forward") \/ Move("delete") \/ Move("keep")
    BY <2>1 DEF SendMessage, ForwardMessage, DeleteMessage, ReactToMessage, PinMessage
  <2> QED BY <2>2, MoveKeepsMembers
<1>2. CASE RecordedStep
  <2>1. \E p, r : JoinChannel(p, r) \/ LeaveChannel(p, r) \/ \E q : AddChannelMember(p, r, q)
    BY <1>2 DEF RecordedStep
  <2>2. Move("places")
    BY <2>1 DEF JoinChannel, LeaveChannel, AddChannelMember
  <2> QED BY <2>2, MoveKeepsMembers
<1>3. CASE \E r \in Rooms : PostCard(r)
  <2>1. Move("card")
    BY <1>3 DEF PostCard
  <2> QED BY <2>1, MoveKeepsMembers
<1>4. CASE MembersChange
  BY <1>4 DEF MembersChange, MembersMove
<1>5. CASE UNCHANGED <<vars, roomVars>>
  BY <1>5
<1> QED BY <1>1, <1>2, <1>3, <1>4, <1>5 DEF LiveNext

LEMMA OnlyMembersMove == Next => MembershipNext \/ UNCHANGED vars
<1> SUFFICES ASSUME Next PROVE MembershipNext \/ UNCHANGED vars
  OBVIOUS
<1>1. CASE IdentityStep
  BY <1>1 DEF IdentityStep
<1>2. CASE PlaceStep
  BY <1>2, RoomsNextAside, LiveNextAside DEF PlaceStep, MembersMove
<1>3. CASE TenantStep
  BY <1>3 DEF TenantStep, MembersMove
<1> QED BY <1>1, <1>2, <1>3 DEF Next

-----------------------------------------------------------------------------
(* The memberships of a workspace. *)

Members == MembersInvariant /\ OwnersKept /\ SerialInvariant

LEMMA MembersHeld == Spec => []Members
<1>1. Init => Members
  BY MembersStart, OwnersStart, SerialStart DEF Init, Members
<1>2. Members /\ [Next]_workspaceVars => Members'
  <2> SUFFICES ASSUME Members, [Next]_workspaceVars PROVE Members'
    OBVIOUS
  <2>1. CASE MembershipNext
    BY <2>1, MembersStep, OwnersStep, SerialStep DEF Members
  <2>2. CASE UNCHANGED vars
    BY <2>2, MembersStutter, OwnersStutter, SerialStutter DEF Members
  <2> QED BY <2>1, <2>2, OnlyMembersMove DEF workspaceVars
<1> QED BY <1>1, <1>2, PTL DEF Spec

(* The workspace object holds the newest operation it ever took about a     *)
(* member, whatever calls overlap, are lost, arrive late or come again.     *)
THEOREM MembersAgree == Spec => []ProjectionIsNewest
BY MembersHeld, MembersAreNewest, PTL DEF Members

(* Calls that follow one another leave nobody between the two planes and    *)
(* oversell no seat; and each plane keeps an active owner whatever overlaps *)
(* or is lost.                                                              *)
THEOREM PlanesHeld == Spec => []PlanesAgree
<1>1. Members => PlanesAgree
  BY PlanesHold DEF Members
<1> QED BY <1>1, MembersHeld, PTL

-----------------------------------------------------------------------------
(* The account of one of the members. *)

LEMMA OnlyTheAccountMoves ==
    ASSUME Next
    PROVE  \/ UNCHANGED accountVars
           \/ SessionStep \/ RequestStep \/ ChallengeStep \/ RecoveryStep \/ FetchStep
           \/ \E d \in Devices : RevokeDevice(d)
           \/ \E k \in AccountCalls : DropCall(k)
BY DEF Next, IdentityStep, AccountStep

(* Whatever requests of an account overlap, stop half way or come again: a  *)
(* session and a device that were signed out stay out, a challenge and a    *)
(* signed request count once, an epoch has one key, and a device that was   *)
(* removed has no package of the next.                                      *)
THEOREM AccountsKept == Spec => []AccountsHold
<1>1. Init => AccountInvariant
  BY AccountStart DEF Init
<1>2. Members /\ AccountInvariant /\ [Next]_workspaceVars => AccountInvariant'
  <2> SUFFICES ASSUME Members, AccountInvariant, [Next]_workspaceVars PROVE AccountInvariant'
    OBVIOUS
  <2>1. rows[Holder].epoch \in Nat
    <3>1. rows[Holder] \in MemberRow \cup {NoRow}
      BY AccountsAssumption DEF Members, MembersInvariant, TablesTyped, Table
    <3> QED BY <3>1 DEF MemberRow, NoRow
  <2>2. CASE UNCHANGED accountVars
    BY <2>2, AccountStutter
  <2> QED BY <2>1, <2>2, OnlyTheAccountMoves, AccountStepHolds DEF workspaceVars
<1> QED BY <1>1, <1>2, MembersHeld, AccountIsHeld, PTL DEF Spec

-----------------------------------------------------------------------------
(* The connections that applications have to the workspace. *)

LEMMA OnlyConnectionsMove == Next => OauthNext \/ UNCHANGED oauthVars
BY DEF Next, IdentityStep

LEMMA OauthHeld == Spec => []OauthInvariant
<1>1. Init => OauthInvariant
  BY OauthStart DEF Init
<1>2. OauthInvariant /\ [Next]_workspaceVars => OauthInvariant'
  <2> SUFFICES ASSUME OauthInvariant, [Next]_workspaceVars PROVE OauthInvariant'
    OBVIOUS
  <2>1. CASE UNCHANGED oauthVars
    BY <2>1, OauthStutter
  <2> QED BY <2>1, OnlyConnectionsMove, OauthStep DEF workspaceVars
<1> QED BY <1>1, <1>2, PTL DEF Spec

(* A code and a refresh token are spent once, and a pair of tokens is       *)
(* honoured for one connection alone; a connection that was revoked stays   *)
(* revoked and keeps the member who made it.                                *)
THEOREM ConnectionsHeld == Spec => ConnectionsStand
<1>1. OauthInvariant /\ [Next]_workspaceVars => [ConnectionsKept]_oauthVars
  BY OnlyConnectionsMove, OauthKeeps DEF workspaceVars
<1> QED BY <1>1, OauthHeld, OauthIsHeld, PTL DEF Spec, ConnectionsStand, ConnectionsKept

-----------------------------------------------------------------------------
(* What the workspace has bought. *)

LEMMA WithinKeepsBilling ==
    ASSUME NEW what, Within(what) \/ Free
    PROVE  UNCHANGED billingRows
BY DEF Within, Free, billingVars, billingRows

LEMMA UploadsAside ==
    ASSUME UploadStep \/ ReclaimStep
    PROVE  \/ Free \/ Within("uploads") \/ Within("transfers")
           \/ Within("faults") \/ Within("sweeps")
<1>1. ASSUME NEW p \in People, NEW f \in Files,
             \/ \E r \in Rooms : ReserveUpload(p, f, r)
             \/ \E u \in Transfers : StartTransfer(u, p, f)
             \/ \E m \in Posts : AttachFile(p, f, m)
             \/ DeleteFile(p, f)
      PROVE  Free \/ Within("uploads") \/ Within("transfers")
  BY <1>1, Zenon DEF ReserveUpload, StartTransfer, AttachFile, DeleteFile
<1>2. ASSUME NEW u \in Transfers,
             \/ \E fine \in BOOLEAN : Moved(u, fine) \/ ConfirmUpload(u, fine)
             \/ RemoveRefused(u) \/ LoseTransfer(u)
      PROVE  Free \/ Within("faults")
  BY <1>2 DEF Moved, ConfirmUpload, RemoveRefused, LoseTransfer
<1>3. CASE UploadStep
  <2>1. CASE \E p \in People, f \in Files :
                \/ \E r \in Rooms : ReserveUpload(p, f, r)
                \/ \E u \in Transfers : StartTransfer(u, p, f)
                \/ \E m \in Posts : AttachFile(p, f, m)
                \/ DeleteFile(p, f)
    BY <1>1, <2>1
  <2>2. CASE \E u \in Transfers : \/ \E fine \in BOOLEAN : Moved(u, fine) \/ ConfirmUpload(u, fine)
                                  \/ RemoveRefused(u) \/ LoseTransfer(u)
    BY <1>2, <2>2
  <2> QED BY <1>3, <2>1, <2>2 DEF UploadStep
<1>4. CASE ReclaimStep
  BY Zenon, <1>4 DEF ReclaimStep, BeginReclaim, EndReclaim, LoseReclaim
<1> QED BY <1>3, <1>4

LEMMA EndsAside ==
    ASSUME DeletionStep \/ ExportStep
    PROVE  \/ Free \/ Within("deletions") \/ Within("purges")
           \/ Within("faults") \/ Within("chunks") \/ Within("restores")
<1>1. CASE DeletionStep
  BY <1>1 DEF DeletionStep, RequestWorkspaceDeletion, CancelWorkspaceDeletion, ReadReceipt, BeginPurge,
     PurgeAttachments, LosePurge, SealPurge
<1>2. CASE ExportStep
  BY <1>2 DEF ExportStep, BeginExport, FinishExport, BeginRecording, ExportChunk, RecordExportChunk,
     LoseChunk, SweepExpiredExports, RestoreFromExport
<1> QED BY <1>1, <1>2

LEMMA OnlyBillingMoves ==
    Next => EventStep \/ AllowanceStep \/ ChangePlanStep \/ Tick \/ UNCHANGED billingRows
<1> SUFFICES ASSUME Next, ~UNCHANGED billingRows
             PROVE  EventStep \/ AllowanceStep \/ ChangePlanStep \/ Tick
  OBVIOUS
<1>1. ~UNCHANGED billingVars
  BY DEF billingVars, billingRows
<1>2. ~UNCHANGED tenantVars
  BY <1>1 DEF tenantVars
<1>3. ~(UploadStep \/ ReclaimStep)
  BY UploadsAside, WithinKeepsBilling
<1>4. ~(DeletionStep \/ ExportStep)
  BY EndsAside, WithinKeepsBilling
<1>5. TenantStep
  BY <1>2 DEF Next
<1> QED BY <1>1, <1>2, <1>3, <1>4, <1>5 DEF TenantStep, WritingStep, FundingStep

LEMMA BillingHeld == Spec => []BillingInvariant
<1>1. Init => BillingInvariant
  BY BillingStart DEF Init
<1>2. BillingInvariant /\ [Next]_workspaceVars => BillingInvariant'
  <2> SUFFICES ASSUME BillingInvariant, [Next]_workspaceVars PROVE BillingInvariant'
    OBVIOUS
  <2>1. CASE UNCHANGED workspaceVars
    <3>1. UNCHANGED billingRows
      BY <2>1 DEF workspaceVars, tenantVars, billingVars, billingRows
    <3> QED BY <3>1, BillingStutter
  <2> QED BY <2>1, OnlyBillingMoves, BillingStepHolds, BillingStutter
<1> QED BY <1>1, <1>2, PTL DEF Spec

(* However the provider's events are late, repeated and out of order, and   *)
(* whatever projections and changes overlap: the row is what the newest     *)
(* event that was applied says, an allowance that was projected since is    *)
(* the row's, and one change of the plan waits, handed out once.            *)
THEOREM BoughtHolds == Spec => []BillingHolds
BY BillingHeld, BillingIsHeld, PTL

-----------------------------------------------------------------------------
(* The rooms. *)

NoticeKinds == {"mention", "thread_reply", "dm", "keyword", "channel"}
RoomSet == [made : BOOLEAN, kind : Kinds, creator : People \cup {None}, archived : BOOLEAN,
            form : BOOLEAN, ranked : BOOLEAN, next : Nat, buckets : [Buckets -> BucketSet]]
PostSet == [room : Rooms, author : People \cup {None}, root : Nat, seq : Nat, tseq : Nat,
            status : Buckets \cup {None}, deleted : BOOLEAN, from : Nat]
NoticeSet == [member : People, post : Nat, kind : NoticeKinds, read : BOOLEAN, badge : BOOLEAN,
              push : BOOLEAN, private : BOOLEAN, allowed : SUBSET People]

RoomsTyped ==
    /\ rooms \in [Rooms -> RoomSet] /\ inRoom \in [Rooms -> SUBSET People]
    /\ posts \in Seq(PostSet) /\ notices \subseteq NoticeSet

(* A room that is not there has nothing, and a queue's buckets are of a     *)
(* room that has a ranking.                                                 *)
RoomSound(r) ==
    /\ rooms[r].kind = "dm" => rooms[r].made
    /\ \A b \in Buckets : rooms[r].buckets[b].on => rooms[r].ranked

TalksApart ==
    \A r, other \in Rooms : r # other /\ rooms[r].kind = "dm" /\ rooms[other].kind = "dm"
                            => inRoom[r] # inRoom[other]

PostSound(m) ==
    /\ rooms[posts[m].room].made
    /\ posts[m].seq < rooms[posts[m].room].next /\ posts[m].tseq <= m
    /\ posts[m].status # None => Bucket(m).on
    /\ posts[m].root # 0 => /\ posts[m].root \in Posts
                            /\ posts[posts[m].root].root = 0
                            /\ posts[posts[m].root].room = posts[m].room

(* Whoever a notice lets in is let in by the bucket, or is an owner, or was *)
(* one.                                                                     *)
NoticeSound(n) ==
    /\ n.post \in Posts
    /\ n.member # posts[n.post].author
    /\ n.private <=> posts[n.post].status # None /\ Bucket(n.post).private
    /\ n.private => n.allowed \subseteq Bucket(n.post).allowed \cup Owners \cup demoted

RoomsSound ==
    /\ RoomsTyped /\ TalksApart
    /\ \A r \in Rooms : RoomSound(r)
    /\ \A m \in Posts : PostSound(m)
    /\ \A n \in notices : NoticeSound(n)

ReadSound ==
    /\ read = [rooms |-> read.rooms, threads |-> read.threads]
    /\ read.rooms \in [Rooms -> [People -> Nat]]
    /\ read.threads = [x \in DOMAIN read.threads |-> read.threads[x]]
    /\ \A x \in DOMAIN read.threads : read.threads[x] \in Nat
    /\ \A r \in Rooms, p \in People : read.rooms[r][p] <= LatestIn(r)

Draft == [revision : Nat, text : Nat]

(* A device that shows a revision shows the text it has, as long as the     *)
(* room's draft was never cleared.                                          *)
DraftsSound ==
    /\ drafts \in [Rooms -> Draft] /\ screens \in [Screens -> [Rooms -> Draft]] /\ texts \in Nat
    /\ \A r \in Rooms : drafts[r].revision = 0 => drafts[r] = NoDraft
    /\ \A s \in Screens, r \in Rooms :
          /\ screens[s][r].revision = 0 => screens[s][r] = NoDraft
          /\ r \notin cleared => /\ screens[s][r].revision <= drafts[r].revision
                                 /\ screens[s][r].revision = drafts[r].revision
                                       => screens[s][r] = drafts[r]

(* Where the purge may empty the rooms nobody drafts and nobody reads; and  *)
(* where there are no rooms nobody is told anything.                        *)
PartsApart ==
    /\ AsAWhole => /\ screens = [s \in Screens |-> [r \in Rooms |-> NoDraft]]
                   /\ drafts = [r \in Rooms |-> NoDraft]
    /\ Exercised \cap Places = {} => notices = {}

RoomsInvariant == RoomsSound /\ ReadSound /\ DraftsSound /\ PartsApart

-----------------------------------------------------------------------------
(* The largest of a set of numbers below a bound. *)

LEMMA LeastOf ==
    ASSUME NEW S \in SUBSET Nat, S # {}
    PROVE  \E m \in S : \A y \in S : m <= y
<1> DEFINE R == OpToRel(<, Nat)
<1>1. \A a, b \in Nat : a < b => <<a, b>> \in R
  BY DEF OpToRel
<1>2. IsWellFoundedOn(R, Nat)
  BY NatLessThanWellFounded
<1> HIDE DEF R
<1>3. PICK m \in S : \A y \in S : ~ (<<y, m>> \in R)
  BY <1>2, WFMin
<1>4. ASSUME NEW y \in S PROVE m <= y
  <2>1. m \in Nat /\ y \in Nat
    OBVIOUS
  <2>2. ~ (y < m)
    BY <1>1, <1>3, <2>1, Zenon
  <2> QED BY <2>1, <2>2
<1> QED BY <1>4

LEMMA LargestOf ==
    ASSUME NEW S \in SUBSET Nat, S # {}, NEW b \in Nat, \A x \in S : x <= b
    PROVE  Max(S) \in S /\ \A x \in S : x <= Max(S)
<1> DEFINE T == {b - x : x \in S}
<1>1. T \in SUBSET Nat /\ T # {}
  <2>1. ASSUME NEW x \in S PROVE b - x \in Nat
    <3>1. x \in Nat /\ x <= b
      OBVIOUS
    <3> QED BY <3>1
  <2> QED BY <2>1
<1> HIDE DEF T
<1>2. PICK m \in T : \A y \in T : m <= y
  BY <1>1, LeastOf
<1>3. PICK x \in S : m = b - x
  BY DEF T
<1>4. \A y \in S : x >= y
  <2> SUFFICES ASSUME NEW y \in S PROVE x >= y
    OBVIOUS
  <2>1. b - x <= b - y
    BY <1>2, <1>3 DEF T
  <2> QED BY <2>1
<1> QED BY <1>4 DEF Max

-----------------------------------------------------------------------------
(* Messages that are written and messages that change. *)

PostIn(m) == posts[m].room \in Rooms /\ posts[m] \in PostSet /\ m \in 1 .. Len(posts)

LEMMA PostsTyped ==
    ASSUME RoomsTyped
    PROVE  /\ Len(posts) \in Nat /\ Posts = 1 .. Len(posts)
           /\ \A m \in Posts : posts[m] \in PostSet /\ m \in Nat /\ posts[m].room \in Rooms
                               /\ posts[m].seq \in Nat /\ posts[m].root \in Nat /\ posts[m].tseq \in Nat
                               /\ posts[m].status \in Buckets \cup {None}
<1>1. posts \in Seq(PostSet)
  BY DEF RoomsTyped
<1>2. Len(posts) \in Nat /\ DOMAIN posts = 1 .. Len(posts) /\ \A m \in DOMAIN posts : posts[m] \in PostSet
  BY <1>1, ElementOfSeq, LenProperties
<1> QED BY <1>2 DEF Posts, PostSet

(* What a step that is not about the rooms leaves alone. *)
LEMMA RoomsStand ==
    ASSUME RoomsSound, UNCHANGED <<content, notices>>,
           Owners \subseteq Owners' \cup demoted', demoted \subseteq demoted'
    PROVE  RoomsSound'
<1>1. rooms' = rooms /\ inRoom' = inRoom /\ posts' = posts /\ notices' = notices
  BY DEF content
<1>2. RoomsTyped'
  BY <1>1 DEF RoomsSound, RoomsTyped
<1>3. TalksApart' /\ \A r \in Rooms : RoomSound(r)'
  BY <1>1 DEF RoomsSound, TalksApart, RoomSound
<1>4. \A m \in Posts' : PostSound(m)'
  BY <1>1 DEF RoomsSound, PostSound, Posts, Bucket
<1>5. ASSUME NEW n \in notices' PROVE NoticeSound(n)'
  <2>1. NoticeSound(n)
    BY <1>1, <1>5 DEF RoomsSound
  <2>2. Bucket(n.post)' = Bucket(n.post)
    BY <1>1 DEF Bucket
  <2> QED BY <2>1, <2>2, <1>1 DEF NoticeSound, Posts
<1> QED BY <1>2, <1>3, <1>4, <1>5 DEF RoomsSound

LEMMA SameOwners ==
    ASSUME UNCHANGED <<vars, demoted>>
    PROVE  Owners' = Owners /\ demoted' = demoted /\ Owners \subseteq Owners' \cup demoted'
BY DEF vars, Owners

LEMMA MoveSame ==
    ASSUME NEW name, Move(name)
    PROVE  UNCHANGED <<vars, demoted>> /\ Owners' = Owners /\ Owners \subseteq Owners' \cup demoted'
BY SameOwners DEF Move, membersAside

LEMMA LatestIs ==
    ASSUME RoomsSound, NEW r \in Rooms
    PROVE  /\ LatestIn(r) \in Nat
           /\ \A m \in Posts : posts[m].room = r /\ posts[m].root = 0 => posts[m].seq <= LatestIn(r)
           /\ LatestIn(r) # 0 => \E m \in Posts : /\ posts[m].room = r /\ posts[m].root = 0
                                                  /\ posts[m].seq = LatestIn(r)
<1> DEFINE S == {0} \cup {posts[m].seq : m \in {m \in Posts : posts[m].room = r /\ posts[m].root = 0}}
<1>1. rooms[r].next \in Nat
  BY DEF RoomsSound, RoomsTyped, RoomSet
<1>2. \A m \in Posts : posts[m].seq \in Nat
  BY PostsTyped DEF RoomsSound
<1>3. S \in SUBSET Nat /\ S # {}
  BY <1>2
<1>4. \A x \in S : x <= rooms[r].next
  <2>1. \A m \in Posts : posts[m].room = r => posts[m].seq < rooms[r].next
    BY DEF RoomsSound, PostSound
  <2> QED BY <1>1, <1>2, <2>1
<1>5. Max(S) \in S /\ \A x \in S : x <= Max(S)
  <2> HIDE DEF S
  <2> QED BY <1>1, <1>3, <1>4, LargestOf
<1>6. LatestIn(r) = Max(S)
  BY DEF LatestIn
<1> QED BY <1>3, <1>5, <1>6

LEMMA LatestUnderIs ==
    ASSUME RoomsSound, NEW root
    PROVE  LatestUnder(root) \in Nat
<1> DEFINE S == {0} \cup {posts[m].tseq : m \in {m \in Posts : posts[m].root = root}}
<1>1. \A m \in Posts : posts[m].tseq \in Nat /\ posts[m].tseq <= m /\ m \in Nat /\ m <= Len(posts)
  BY PostsTyped DEF RoomsSound, PostSound
<1>2. S \in SUBSET Nat /\ S # {} /\ Len(posts) \in Nat
  BY <1>1, PostsTyped DEF RoomsSound
<1>3. \A x \in S : x <= Len(posts)
  <2>1. \A m \in Posts : posts[m].tseq <= Len(posts)
    BY <1>1, <1>2
  <2> QED BY <1>2, <2>1
<1>4. Max(S) \in S
  <2> HIDE DEF S
  <2> QED BY <1>2, <1>3, LargestOf
<1>5. LatestUnder(root) = Max(S)
  BY DEF LatestUnder
<1> QED BY <1>2, <1>4, <1>5

(* No message goes, and none changes its room, its root or its number.      *)
PostsGrow ==
    \A m \in Posts : /\ m \in Posts'
                     /\ posts'[m].room = posts[m].room /\ posts'[m].author = posts[m].author
                     /\ posts'[m].root = posts[m].root /\ posts'[m].seq = posts[m].seq

LatestIsLatest ==
    \A r \in Rooms :
        /\ LatestIn(r) \in Nat
        /\ \A m \in Posts : posts[m].room = r /\ posts[m].root = 0 => posts[m].seq <= LatestIn(r)

LEMMA LatestBounds == RoomsSound => LatestIsLatest
BY LatestIs DEF LatestIsLatest

LEMMA LatestGrows ==
    ASSUME RoomsSound, RoomsSound', PostsGrow, NEW r \in Rooms
    PROVE  LatestIn(r) \in Nat /\ LatestIn(r)' \in Nat /\ LatestIn(r) <= LatestIn(r)'
<1>1. LatestIn(r) \in Nat
  BY LatestIs
<1>2. LatestIsLatest'
  BY LatestBounds, PTL
<1>3. CASE LatestIn(r) = 0
  BY <1>1, <1>2, <1>3 DEF LatestIsLatest
<1>4. CASE LatestIn(r) # 0
  <2>1. PICK m \in Posts : posts[m].room = r /\ posts[m].root = 0 /\ posts[m].seq = LatestIn(r)
    BY <1>4, LatestIs
  <2> QED BY <1>1, <1>2, <2>1 DEF PostsGrow, LatestIsLatest
<1> QED BY <1>1, <1>2, <1>3, <1>4 DEF LatestIsLatest

LEMMA ReadStands ==
    ASSUME RoomsSound, RoomsSound', ReadSound, PostsGrow, UNCHANGED read
    PROVE  ReadSound'
<1>1. ASSUME NEW r \in Rooms, NEW p \in People PROVE read.rooms[r][p] <= LatestIn(r)'
  <2>1. read.rooms[r][p] \in Nat /\ read.rooms[r][p] <= LatestIn(r)
    BY DEF ReadSound
  <2> QED BY <2>1, LatestGrows
<1> QED BY <1>1 DEF ReadSound

LEMMA SamePosts ==
    ASSUME UNCHANGED posts
    PROVE  PostsGrow
BY DEF PostsGrow, Posts

LEMMA WrittenIs ==
    ASSUME RoomsSound, NEW p \in People \cup {None}, NEW r \in Rooms, NEW root \in Nat, NEW from \in Nat,
           Written(p, r, root, from)
    PROVE  /\ posts' \in Seq(PostSet) /\ Posts' = 1 .. Len(posts) + 1 /\ Len(posts') = Len(posts) + 1
           /\ \A m \in Posts : posts'[m] = posts[m]
           /\ LET new == posts'[Len(posts) + 1]
              IN  /\ new.room = r /\ new.author = p /\ new.root = root /\ new.seq = rooms[r].next
                  /\ new.status = None /\ new.tseq \in Nat /\ new.tseq <= Len(posts) + 1
<1> DEFINE replies == {m \in Posts : posts[m].root = root}
           tseq == IF root = 0 THEN 0 ELSE Cardinality(replies) + 1
           new == [room |-> r, author |-> p, root |-> root, seq |-> rooms[r].next, tseq |-> tseq,
                   status |-> None, deleted |-> FALSE, from |-> from]
<1>1. Len(posts) \in Nat /\ Posts = 1 .. Len(posts) /\ posts \in Seq(PostSet)
  BY PostsTyped DEF RoomsSound, RoomsTyped
<1>2. Cardinality(replies) \in Nat /\ Cardinality(replies) <= Len(posts)
  <2>1. IsFiniteSet(1 .. Len(posts)) /\ Cardinality(1 .. Len(posts)) = Len(posts)
    <3>1. \A a, b \in Int : /\ IsFiniteSet(a .. b)
                           /\ Cardinality(a .. b) = IF a > b THEN 0 ELSE b - a + 1
      BY FS_Interval
    <3>2. 1 \in Int /\ Len(posts) \in Int
      BY <1>1
    <3>3. /\ IsFiniteSet(1 .. Len(posts))
          /\ Cardinality(1 .. Len(posts)) = IF 1 > Len(posts) THEN 0 ELSE Len(posts) - 1 + 1
      BY <3>1, <3>2, Zenon
    <3> QED BY <1>1, <3>3
  <2>2. replies \subseteq 1 .. Len(posts)
    BY <1>1
  <2> HIDE DEF replies
  <2> QED BY <2>1, <2>2, FS_Subset, FS_CardinalityType
<1>3. tseq \in Nat /\ tseq <= Len(posts) + 1
  BY <1>1, <1>2
<1>4. rooms[r].next \in Nat
  BY DEF RoomsSound, RoomsTyped, RoomSet
<1>5. posts' = Append(posts, new)
  BY DEF Written
<1> HIDE DEF tseq
<1>6. new \in PostSet
  BY <1>3, <1>4 DEF PostSet
<1>7. new.room = r /\ new.author = p /\ new.root = root /\ new.seq = rooms[r].next
      /\ new.status = None /\ new.tseq = tseq
  OBVIOUS
<1> HIDE DEF new
<1>8. /\ posts' \in Seq(PostSet) /\ Len(posts') = Len(posts) + 1
      /\ \A m \in 1 .. Len(posts) : posts'[m] = posts[m]
      /\ posts'[Len(posts) + 1] = new
  BY <1>1, <1>5, <1>6, AppendProperties
<1>9. Posts' = 1 .. Len(posts) + 1
  BY <1>1, <1>8 DEF Posts
<1> QED BY <1>1, <1>3, <1>7, <1>8, <1>9

LEMMA WrittenKeeps ==
    ASSUME RoomsSound, NEW p \in People \cup {None}, NEW r \in Rooms, NEW root \in Nat, NEW from \in Nat,
           Written(p, r, root, from), rooms[r].made,
           root # 0 => root \in Posts /\ posts[root].root = 0 /\ posts[root].room = r,
           UNCHANGED inRoom, Owners' = Owners, demoted' = demoted,
           notices' \subseteq NoticeSet,
           \A n \in notices' : \/ n \in notices
                               \/ n.post = Len(posts) + 1 /\ n.member # p /\ ~n.private
    PROVE  RoomsSound' /\ PostsGrow
<1>1. /\ posts' \in Seq(PostSet) /\ Posts' = 1 .. Len(posts) + 1
      /\ \A m \in Posts : posts'[m] = posts[m]
      /\ LET new == posts'[Len(posts) + 1]
         IN  /\ new.room = r /\ new.author = p /\ new.root = root /\ new.seq = rooms[r].next
             /\ new.status = None /\ new.tseq \in Nat /\ new.tseq <= Len(posts) + 1
  BY WrittenIs
<1>2. Len(posts) \in Nat /\ Posts = 1 .. Len(posts)
      /\ \A m \in Posts : /\ posts[m].room \in Rooms /\ posts[m].seq \in Nat
                          /\ posts[m].status \in Buckets \cup {None}
  BY PostsTyped DEF RoomsSound
<1>3. /\ rooms \in [Rooms -> RoomSet] /\ rooms' = [rooms EXCEPT ![r].next = @ + 1]
  BY DEF RoomsSound, RoomsTyped, Written
<1>4. rooms' \in [Rooms -> RoomSet]
  BY <1>3 DEF RoomSet
<1>5. \A x \in Rooms : /\ rooms'[x].made = rooms[x].made /\ rooms'[x].kind = rooms[x].kind
                       /\ rooms'[x].buckets = rooms[x].buckets /\ rooms'[x].ranked = rooms[x].ranked
                       /\ rooms[x].next \in Nat /\ rooms'[x].next >= rooms[x].next
  BY <1>3 DEF RoomSet
<1>6. rooms'[r].next = rooms[r].next + 1
  BY <1>3 DEF RoomSet
<1>7. PostsGrow
  BY <1>1, <1>2 DEF PostsGrow
<1>8. RoomsTyped'
  BY <1>1, <1>4 DEF RoomsSound, RoomsTyped
<1>9. TalksApart' /\ \A x \in Rooms : RoomSound(x)'
  BY <1>5 DEF RoomsSound, TalksApart, RoomSound
<1>10. \A m \in Posts : Bucket(m)' = Bucket(m)
  BY <1>1, <1>2, <1>5 DEF Bucket
<1>11. ASSUME NEW m \in Posts' PROVE PostSound(m)'
  <2>1. CASE m \in Posts
    <3>1. PostSound(m) /\ posts'[m] = posts[m] /\ m \in Posts'
      BY <1>1, <2>1 DEF RoomsSound
    <3>2. posts[m].room \in Rooms /\ posts[m].seq \in Nat
      BY <1>2, <2>1
    <3>3. rooms'[posts[m].room].made /\ posts[m].seq < rooms'[posts[m].room].next
      <4>1. rooms[posts[m].room].made /\ posts[m].seq < rooms[posts[m].room].next
        BY <3>1 DEF PostSound
      <4>2. /\ rooms'[posts[m].room].made = rooms[posts[m].room].made
            /\ rooms[posts[m].room].next \in Nat /\ rooms'[posts[m].room].next \in Nat
            /\ rooms'[posts[m].room].next >= rooms[posts[m].room].next
        BY <1>4, <1>5, <3>2 DEF RoomSet
      <4>3. posts[m].seq < rooms'[posts[m].room].next
        BY <3>2, <4>1, <4>2
      <4> QED BY <4>1, <4>2, <4>3
    <3>4. posts[m].root # 0 => /\ posts[m].root \in Posts /\ posts[m].root \in Posts'
                               /\ posts'[posts[m].root] = posts[posts[m].root]
      BY <1>1, <1>2, <3>1 DEF PostSound
    <3> QED BY <1>10, <2>1, <3>1, <3>3, <3>4 DEF PostSound
  <2>2. CASE m = Len(posts) + 1
    <3>1. rooms'[r].made
      BY <1>5
    <3>2. rooms[r].next < rooms'[r].next
      BY <1>5, <1>6
    <3>3. root # 0 => root \in Posts' /\ posts'[root] = posts[root]
      BY <1>1, <1>2
    <3>4. posts'[m].room = r /\ posts'[m].root = root /\ posts'[m].seq = rooms[r].next
          /\ posts'[m].status = None /\ posts'[m].tseq <= m
      BY <1>1, <2>2
    <3>5. root # 0 => /\ posts'[m].root \in Posts' /\ posts'[posts'[m].root].root = 0
                      /\ posts'[posts'[m].root].room = posts'[m].room
      BY <3>3, <3>4
    <3>6. rooms'[posts'[m].room].made /\ posts'[m].seq < rooms'[posts'[m].room].next
      BY <3>1, <3>2, <3>4
    <3> QED BY <3>4, <3>5, <3>6, Zenon DEF PostSound
  <2>3. m \in Posts \/ m = Len(posts) + 1
    BY <1>1, <1>2
  <2> QED BY <2>1, <2>2, <2>3
<1>12. ASSUME NEW n \in notices' PROVE NoticeSound(n)'
  <2>1. CASE n \in notices
    <3>1. NoticeSound(n)
      BY <2>1 DEF RoomsSound
    <3>2. n.post \in Posts /\ n.post \in Posts' /\ posts'[n.post] = posts[n.post]
      BY <1>1, <1>2, <3>1 DEF NoticeSound
    <3>3. Bucket(n.post)' = Bucket(n.post)
      BY <1>10, <3>2
    <3> QED BY <3>1, <3>2, <3>3 DEF NoticeSound
  <2>2. CASE n.post = Len(posts) + 1 /\ n.member # p /\ ~n.private
    BY <1>1, <1>2, <2>2 DEF NoticeSound
  <2> QED BY <2>1, <2>2
<1> QED BY <1>7, <1>8, <1>9, <1>11, <1>12 DEF RoomsSound

LEMMA KindIs ==
    ASSUME NEW q, NEW r, NEW root, NEW direct, NEW keyword
    PROVE  KindFor(q, r, root, direct, keyword) \in NoticeKinds
<1>1. CASE q \in direct
  BY <1>1 DEF KindFor, NoticeKinds
<1>2. CASE q \notin direct /\ root # 0 /\ <<root, q>> \in subscribed
  BY <1>2 DEF KindFor, NoticeKinds
<1>3. CASE q \notin direct /\ ~(root # 0 /\ <<root, q>> \in subscribed)
  BY <1>3 DEF KindFor, NoticeKinds
<1> QED BY <1>1, <1>2, <1>3

LEMMA NotifyIs ==
    ASSUME RoomsTyped, NEW p \in People, NEW m \in Nat, NEW r \in Rooms, NEW root, NEW to, NEW keyworded,
           Notify(p, m, r, root, to, keyworded)
    PROVE  /\ notices' \subseteq NoticeSet
           /\ \A n \in notices' : \/ n \in notices
                                  \/ n.post = m /\ n.member # p /\ ~n.private
<1> DEFINE group == to.group \ {p}
           direct == (to.named \cup group) \cap ActivePeople
           outside == IF rooms[r].kind = "public" THEN direct ELSE {}
           audience == {q \in (inRoom[r] \cup outside) \ {p} : Acts(q)}
           broadcast == to.room \/ to.group # {}
           Keyword(q) == q \in keyworded /\ prefs[q].keyword
           Kind(q) == KindFor(q, r, root, direct, Keyword(q))
           informed == {q \in audience : InInbox(levels[r][q], Kind(q), broadcast)}
           Of(q) == [member |-> q, post |-> m, kind |-> Kind(q), read |-> FALSE,
                     badge |-> levels[r][q] # "nothing",
                     push |-> Pushed(levels[r][q], Kind(q), broadcast, Keyword(q), prefs[q].quiet),
                     private |-> FALSE, allowed |-> {}]
<1>1. notices' = notices \cup {Of(q) : q \in informed}
  BY DEF Notify
<1>2. \A q \in informed : q \in People /\ q # p
  <2>1. inRoom[r] \subseteq People
    BY DEF RoomsTyped
  <2>2. direct \subseteq People
    BY DEF ActivePeople
  <2>3. outside \subseteq People
    BY <2>2
  <2> HIDE DEF direct, outside
  <2> QED BY <2>1, <2>3
<1>3. ASSUME NEW q \in informed PROVE Of(q) \in NoticeSet /\ Of(q).post = m /\ Of(q).member # p /\ ~Of(q).private
  <2>1. PICK k : k = Kind(q)
    OBVIOUS
  <2>2. k \in NoticeKinds
    BY <2>1, KindIs
  <2>3. PICK b \in BOOLEAN : b = (levels[r][q] # "nothing")
    OBVIOUS
  <2>4. PICK u \in BOOLEAN : u = Pushed(levels[r][q], Kind(q), broadcast, Keyword(q), prefs[q].quiet)
    BY DEF Pushed
  <2>5. q \in People /\ q # p
    BY <1>2, <1>3
  <2>6. Of(q) = [member |-> q, post |-> m, kind |-> k, read |-> FALSE, badge |-> b, push |-> u,
                 private |-> FALSE, allowed |-> {}]
    BY <2>1, <2>3, <2>4
  <2> HIDE DEF Of
  <2> QED BY <2>2, <2>5, <2>6 DEF NoticeSet
<1> HIDE DEF Of, informed
<1>4. notices \subseteq NoticeSet
  BY DEF RoomsTyped
<1> QED BY <1>1, <1>3, <1>4

LEMMA SendKeeps ==
    ASSUME RoomsSound, NEW p \in People, NEW r \in Rooms, NEW parent \in Posts \cup {0},
           NEW to, NEW keyworded, NEW viaForm, SendMessage(p, r, parent, to, keyworded, viaForm)
    PROVE  RoomsSound' /\ PostsGrow
<1> DEFINE root == RootOf(parent)
<1>1. /\ Move("send") /\ Written(p, r, root, 0) /\ UNCHANGED <<inRoom, kept, drafting>>
      /\ Notify(p, Len(posts) + 1, r, root, to, keyworded)
      /\ rooms[r].made /\ (parent # 0 => posts[parent].room = r)
  BY DEF SendMessage, Participant
<1>2. Len(posts) \in Nat /\ \A m \in Posts : m \in Nat /\ posts[m].root \in Nat
  BY PostsTyped DEF RoomsSound
<1>3. root \in Nat /\ (root # 0 => root \in Posts /\ posts[root].root = 0 /\ posts[root].room = r)
  <2>1. CASE parent = 0
    BY <2>1 DEF RootOf
  <2>2. CASE parent \in Posts /\ parent # 0 /\ posts[parent].root = 0
    BY <1>1, <1>2, <2>2 DEF RootOf
  <2>3. CASE parent \in Posts /\ parent # 0 /\ posts[parent].root # 0
    <3>1. PostSound(parent)
      BY <2>3 DEF RoomsSound
    <3> QED BY <1>1, <1>2, <2>3, <3>1 DEF RootOf, PostSound
  <2> QED BY <2>1, <2>2, <2>3
<1> HIDE DEF root
<1>4. Owners' = Owners /\ demoted' = demoted
  BY <1>1, MoveSame
<1>5. /\ notices' \subseteq NoticeSet
      /\ \A n \in notices' : \/ n \in notices
                             \/ n.post = Len(posts) + 1 /\ n.member # p /\ ~n.private
  <2>1. RoomsTyped /\ Len(posts) + 1 \in Nat
    BY <1>2 DEF RoomsSound
  <2> QED BY <1>1, <2>1, NotifyIs
<1> QED BY <1>1, <1>3, <1>4, <1>5, WrittenKeeps

LEMMA ForwardKeeps ==
    ASSUME RoomsSound, NEW p \in People, NEW m \in Posts, NEW r \in Rooms, ForwardMessage(p, m, r)
    PROVE  RoomsSound' /\ PostsGrow
<1>1. /\ Move("forward") /\ Written(p, r, 0, m) /\ UNCHANGED <<inRoom, notices>> /\ rooms[r].made
  BY DEF ForwardMessage, Participant, notified
<1>2. m \in Nat /\ notices' \subseteq NoticeSet
  BY <1>1, PostsTyped DEF RoomsSound, RoomsTyped
<1>3. Owners' = Owners /\ demoted' = demoted
  BY <1>1, MoveSame
<1> QED BY <1>1, <1>2, <1>3, WrittenKeeps

LEMMA CardKeeps ==
    ASSUME RoomsSound, NEW r \in Rooms, PostCard(r)
    PROVE  RoomsSound' /\ PostsGrow
<1>1. /\ Move("card") /\ Written(None, r, 0, 0) /\ UNCHANGED <<inRoom, notices>> /\ rooms[r].made
  BY DEF PostCard, notified
<1>2. notices' \subseteq NoticeSet
  BY <1>1 DEF RoomsSound, RoomsTyped
<1>3. Owners' = Owners /\ demoted' = demoted
  BY <1>1, MoveSame
<1> QED BY <1>1, <1>2, <1>3, WrittenKeeps

-----------------------------------------------------------------------------
(* Queues. *)

LEMMA CopiedIs ==
    ASSUME NEW n \in NoticeSet, NEW bucket \in BucketSet
    PROVE  /\ Copied(n, bucket) \in NoticeSet
           /\ Copied(n, bucket).post = n.post /\ Copied(n, bucket).member = n.member
           /\ Copied(n, bucket).private = bucket.private
           /\ bucket.private => Copied(n, bucket).allowed = bucket.allowed \cup Owners
<1> DEFINE allowed == IF bucket.private THEN bucket.allowed \cup Owners ELSE {}
<1>1. Owners \subseteq People
  BY DEF Owners
<1>2. bucket.private \in BOOLEAN /\ bucket.allowed \subseteq People
  BY DEF BucketSet
<1>3. allowed \in SUBSET People
  BY <1>1, <1>2
<1>4. bucket.private => allowed = bucket.allowed \cup Owners
  OBVIOUS
<1>5. Copied(n, bucket) = [n EXCEPT !.private = bucket.private, !.allowed = allowed]
  BY DEF Copied
<1> HIDE DEF allowed
<1> QED BY <1>2, <1>3, <1>4, <1>5 DEF NoticeSet

(* The messages keep what they are but for their status and their deletion. *)
PostsStay ==
    /\ posts' \in Seq(PostSet) /\ Posts' = Posts
    /\ \A m \in Posts : /\ posts'[m].room = posts[m].room /\ posts'[m].author = posts[m].author
                        /\ posts'[m].root = posts[m].root /\ posts'[m].seq = posts[m].seq
                        /\ posts'[m].tseq = posts[m].tseq

LEMMA PostsMapped ==
    ASSUME RoomsTyped, NEW f, \A m \in Posts : f[m] \in PostSet,
           posts' = [m \in Posts |-> f[m]]
    PROVE  posts' \in Seq(PostSet) /\ Posts' = Posts /\ \A m \in Posts : posts'[m] = f[m]
<1>1. Len(posts) \in Nat /\ Posts = 1 .. Len(posts)
  BY PostsTyped
<1>2. posts' \in [1 .. Len(posts) -> PostSet]
  BY <1>1
<1>3. posts' \in Seq(PostSet)
  BY <1>1, <1>2, SeqDef
<1>4. DOMAIN posts' = Posts
  OBVIOUS
<1> QED BY <1>3, <1>4 DEF Posts

LEMMA PostsStayGrow == ASSUME PostsStay PROVE PostsGrow
BY DEF PostsStay, PostsGrow

(* Rooms that keep what they are but for their form, their ranking and      *)
(* their buckets.                                                           *)
LEMMA QueueKeeps ==
    ASSUME RoomsSound, PostsStay, UNCHANGED inRoom, rooms' \in [Rooms -> RoomSet],
           \A x \in Rooms : /\ rooms'[x].made = rooms[x].made /\ rooms'[x].kind = rooms[x].kind
                            /\ rooms'[x].next = rooms[x].next
                            /\ \A b \in Buckets : rooms'[x].buckets[b].on => rooms'[x].ranked,
           notices' \subseteq NoticeSet,
           \A m \in Posts : posts'[m].status # None => Bucket(m)'.on,
           \A n \in notices' : NoticeSound(n)'
    PROVE  RoomsSound'
<1>1. RoomsTyped'
  BY DEF RoomsSound, RoomsTyped, PostsStay
<1>2. TalksApart' /\ \A x \in Rooms : RoomSound(x)'
  BY DEF RoomsSound, TalksApart, RoomSound
<1>3. ASSUME NEW m \in Posts' PROVE PostSound(m)'
  <2>1. m \in Posts /\ PostSound(m) /\ posts[m].room \in Rooms
    BY PostsTyped DEF RoomsSound, PostsStay
  <2>2. posts[m].root # 0 => posts[m].root \in Posts
    BY <2>1 DEF PostSound
  <2> QED BY <2>1, <2>2 DEF PostSound, PostsStay
<1> QED BY <1>1, <1>2, <1>3 DEF RoomsSound

LEMMA StatusGiven ==
    ASSUME NEW x \in PostSet, NEW status \in Buckets \cup {None}
    PROVE  LET y == [x EXCEPT !.status = status]
           IN  /\ y \in PostSet /\ y.status = status /\ y.room = x.room /\ y.author = x.author
               /\ y.root = x.root /\ y.seq = x.seq /\ y.tseq = x.tseq
BY DEF PostSet

LEMMA RoomConfigured ==
    ASSUME NEW x \in RoomSet, NEW form \in BOOLEAN, NEW ranked \in BOOLEAN,
           NEW buckets \in [Buckets -> BucketSet]
    PROVE  [x EXCEPT !.form = form, !.ranked = ranked, !.buckets = buckets] \in RoomSet
<1>1. PICK y : y = [x EXCEPT !.form = form]
  OBVIOUS
<1>2. PICK z : z = [y EXCEPT !.ranked = ranked]
  OBVIOUS
<1>3. y \in RoomSet
  BY <1>1 DEF RoomSet
<1>4. z \in RoomSet
  BY <1>2, <1>3 DEF RoomSet
<1>5. [z EXCEPT !.buckets = buckets] \in RoomSet
  BY <1>4 DEF RoomSet
<1>6. [x EXCEPT !.form = form, !.ranked = ranked, !.buckets = buckets] = [z EXCEPT !.buckets = buckets]
  BY <1>1, <1>2
<1> QED BY <1>5, <1>6

LEMMA NoBucketIn == NoBucket \in BucketSet /\ ~NoBucket.on /\ ~NoBucket.private
BY DEF NoBucket, BucketSet

LEMMA ConfigureKeeps ==
    ASSUME RoomsSound, NEW p \in People, NEW r \in Rooms, NEW form \in BOOLEAN, NEW ranked \in BOOLEAN,
           NEW buckets \in BucketsFor(r), ConfigureWorkQueue(p, r, form, ranked, buckets)
    PROVE  RoomsSound' /\ PostsGrow
<1> DEFINE dropped == {b \in Buckets : rooms[r].buckets[b].on /\ ~buckets[b].on}
           NewStatus(m) == IF posts[m].room = r /\ posts[m].status \in dropped THEN None
                           ELSE posts[m].status
           CopyOf(n) == LET status == posts[n.post].status
                        IN  IF posts[n.post].room # r \/ status = None THEN n
                            ELSE Copied(n, IF status \in dropped THEN NoBucket ELSE buckets[status])
           Restated(m) == [posts[m] EXCEPT !.status = NewStatus(m)]
           restated == [m \in Posts |-> Restated(m)]
<1>1. /\ Move("queue") /\ UNCHANGED inRoom
      /\ (\E b \in Buckets : buckets[b].on) => ranked
      /\ rooms' = [rooms EXCEPT ![r].form = form, ![r].ranked = ranked, ![r].buckets = buckets]
      /\ posts' = restated
      /\ notices' = {CopyOf(n) : n \in notices}
  BY DEF ConfigureWorkQueue
<1>2. /\ rooms \in [Rooms -> RoomSet] /\ notices \subseteq NoticeSet
      /\ \A m \in Posts : /\ posts[m] \in PostSet /\ posts[m].room \in Rooms
                          /\ posts[m].status \in Buckets \cup {None}
  BY PostsTyped DEF RoomsSound, RoomsTyped
<1>3. buckets \in [Buckets -> BucketSet]
  <2>1. PICK b \in Buckets, bucket \in BucketChoices : buckets = [rooms[r].buckets EXCEPT ![b] = bucket]
    BY DEF BucketsFor
  <2>2. BucketChoices \subseteq BucketSet
    BY NoBucketIn DEF BucketChoices, BucketSet, ActivePeople
  <2>3. rooms[r].buckets \in [Buckets -> BucketSet]
    BY <1>2 DEF RoomSet
  <2> QED BY <2>1, <2>2, <2>3
<1>4. rooms' \in [Rooms -> RoomSet]
  <2>1. PICK row : row = [rooms[r] EXCEPT !.form = form, !.ranked = ranked, !.buckets = buckets]
    OBVIOUS
  <2>2. row \in RoomSet
    BY <1>2, <1>3, <2>1, RoomConfigured
  <2>3. rooms' = [rooms EXCEPT ![r] = row]
    BY <1>1, <1>2, <2>1
  <2> QED BY <1>2, <2>2, <2>3
<1>5. /\ \A x \in Rooms \ {r} : rooms'[x] = rooms[x]
      /\ rooms'[r].made = rooms[r].made /\ rooms'[r].kind = rooms[r].kind
      /\ rooms'[r].next = rooms[r].next /\ rooms'[r].ranked = ranked /\ rooms'[r].buckets = buckets
  BY <1>1, <1>2 DEF RoomSet
<1>6. \A m \in Posts : NewStatus(m) \in Buckets \cup {None}
  BY <1>2
<1> HIDE DEF NewStatus
<1>7. \A m \in Posts : /\ Restated(m) \in PostSet /\ Restated(m).status = NewStatus(m)
                       /\ Restated(m).room = posts[m].room /\ Restated(m).author = posts[m].author
                       /\ Restated(m).root = posts[m].root /\ Restated(m).seq = posts[m].seq
                       /\ Restated(m).tseq = posts[m].tseq
  BY <1>2, <1>6, StatusGiven
<1> HIDE DEF Restated
<1>8. PostsStay /\ \A m \in Posts : posts'[m].status = NewStatus(m)
  <2>1. \A m \in Posts : restated[m] = Restated(m) /\ restated[m] \in PostSet
    BY <1>7
  <2>2. posts' = [m \in Posts |-> restated[m]]
    BY <1>1
  <2> HIDE DEF restated
  <2>3. posts' \in Seq(PostSet) /\ Posts' = Posts /\ \A m \in Posts : posts'[m] = restated[m]
    BY <2>1, <2>2, PostsMapped DEF RoomsSound
  <2> QED BY <2>1, <2>3, <1>7 DEF PostsStay
<1> HIDE DEF restated
<1>9. \A x \in Rooms : /\ rooms'[x].made = rooms[x].made /\ rooms'[x].kind = rooms[x].kind
                       /\ rooms'[x].next = rooms[x].next
                       /\ \A b \in Buckets : rooms'[x].buckets[b].on => rooms'[x].ranked
  BY <1>1, <1>5 DEF RoomsSound, RoomSound
<1>10. ASSUME NEW m \in Posts, posts'[m].status # None PROVE Bucket(m)'.on
  <2>1. PostSound(m) /\ posts'[m].room = posts[m].room /\ NewStatus(m) # None
    BY <1>8, <1>10 DEF RoomsSound, PostsStay
  <2>2. CASE posts[m].room # r
    <3>1. NewStatus(m) = posts[m].status
      BY <2>2 DEF NewStatus
    <3>2. Bucket(m)' = Bucket(m)
      BY <1>2, <1>5, <1>8, <2>1, <2>2, <3>1 DEF Bucket
    <3> QED BY <2>1, <3>1, <3>2 DEF PostSound
  <2>3. CASE posts[m].room = r
    <3>1. NewStatus(m) = posts[m].status /\ posts[m].status \in Buckets /\ posts[m].status \notin dropped
      BY <1>2, <2>1, <2>3 DEF NewStatus
    <3>2. rooms[r].buckets[posts[m].status].on
      BY <2>1, <2>3, <3>1 DEF PostSound, Bucket
    <3>3. buckets[posts[m].status].on
      BY <3>1, <3>2
    <3> QED BY <1>5, <1>8, <2>1, <2>3, <3>1, <3>3 DEF Bucket
  <2> QED BY <2>2, <2>3
<1>11. ASSUME NEW n \in notices, NEW c, c = CopyOf(n) PROVE c \in NoticeSet /\ NoticeSound(c)'
  <2>1. /\ NoticeSound(n) /\ n \in NoticeSet /\ n.post \in Posts
        /\ posts'[n.post].author = posts[n.post].author /\ posts'[n.post].room = posts[n.post].room
        /\ n.post \in Posts' /\ posts'[n.post].status = NewStatus(n.post)
        /\ posts[n.post].room \in Rooms /\ posts[n.post].status \in Buckets \cup {None}
    BY <1>2, <1>8, <1>11 DEF RoomsSound, NoticeSound, PostsStay
  <2>2. Owners' = Owners /\ demoted' = demoted
    BY <1>1, MoveSame
  <2>3. CASE posts[n.post].status = None
    <3>1. c = n /\ NewStatus(n.post) = None
      BY <1>11, <2>3 DEF NewStatus
    <3> QED BY <2>1, <2>3, <3>1 DEF NoticeSound
  <2>4. CASE posts[n.post].room # r
    <3>1. c = n /\ NewStatus(n.post) = posts[n.post].status
      BY <1>11, <2>4 DEF NewStatus
    <3>2. Bucket(n.post)' = Bucket(n.post)
      BY <1>5, <2>1, <2>4, <3>1 DEF Bucket
    <3> QED BY <2>1, <2>2, <3>1, <3>2 DEF NoticeSound
  <2>5. CASE posts[n.post].room = r /\ posts[n.post].status # None
    <3> DEFINE bucket == IF posts[n.post].status \in dropped THEN NoBucket ELSE buckets[posts[n.post].status]
    <3>1. c = Copied(n, bucket)
      BY <1>11, <2>5
    <3>2. bucket \in BucketSet
      BY <1>3, <2>1, <2>5, NoBucketIn
    <3>3. NewStatus(n.post) # None => bucket = buckets[NewStatus(n.post)] /\ NewStatus(n.post) \in Buckets
      BY <2>1, <2>5 DEF NewStatus
    <3>4. NewStatus(n.post) = None => ~bucket.private
      BY <2>1, <2>5, NoBucketIn DEF NewStatus
    <3>5. NewStatus(n.post) # None => Bucket(n.post)' = bucket
      BY <1>5, <2>1, <2>5, <3>3 DEF Bucket
    <3> HIDE DEF bucket
    <3>6. /\ c \in NoticeSet /\ c.post = n.post /\ c.member = n.member
          /\ c.private = bucket.private
          /\ bucket.private => c.allowed = bucket.allowed \cup Owners
      BY <2>1, <3>1, <3>2, CopiedIs
    <3>7. c.private <=> (posts'[n.post].status # None /\ Bucket(n.post)'.private)
      BY <2>1, <3>4, <3>5, <3>6
    <3>8. c.private => c.allowed \subseteq Bucket(n.post)'.allowed \cup Owners' \cup demoted'
      BY <2>1, <2>2, <3>4, <3>5, <3>6
    <3>9. c.post \in Posts' /\ c.member # posts'[n.post].author
      BY <2>1, <3>6 DEF NoticeSound
    <3> QED BY <3>6, <3>7, <3>8, <3>9 DEF NoticeSound
  <2> QED BY <2>3, <2>4, <2>5
<1> HIDE DEF CopyOf
<1>12. notices' \subseteq NoticeSet /\ \A n \in notices' : NoticeSound(n)'
  BY <1>1, <1>11
<1> QED BY <1>1, <1>4, <1>8, <1>9, <1>10, <1>12, QueueKeeps, PostsStayGrow

LEMMA StatusKeeps ==
    ASSUME RoomsSound, NEW p \in People, NEW m \in Posts, NEW status \in Buckets \cup {None},
           SetItemStatus(p, m, status)
    PROVE  RoomsSound' /\ PostsGrow
<1> DEFINE r == posts[m].room
           chosen == IF status = None THEN NoBucket ELSE rooms[r].buckets[status]
           joined == [chosen EXCEPT !.allowed = IF chosen.private THEN @ \cup {p} ELSE @]
<1>1. /\ Move("status") /\ UNCHANGED inRoom
      /\ rooms[r].ranked /\ (status # None => chosen.on)
      /\ rooms' = IF status = None THEN rooms
                  ELSE [rooms EXCEPT ![r].buckets[status] = joined]
      /\ posts' = [posts EXCEPT ![m].status = status]
      /\ notices' = {IF n.post = m THEN Copied(n, joined) ELSE n : n \in notices}
  BY Zenon DEF SetItemStatus
<1>2. /\ rooms \in [Rooms -> RoomSet] /\ notices \subseteq NoticeSet /\ posts \in Seq(PostSet)
      /\ \A x \in Posts : /\ posts[x] \in PostSet /\ posts[x].room \in Rooms
                          /\ posts[x].status \in Buckets \cup {None}
  BY PostsTyped DEF RoomsSound, RoomsTyped
<1>3. r \in Rooms
  BY <1>2
<1>4. /\ joined \in BucketSet /\ joined.on = chosen.on /\ joined.private = chosen.private
      /\ chosen.allowed \subseteq joined.allowed
  <2>1. chosen \in BucketSet
    BY <1>2, <1>3, NoBucketIn DEF RoomSet
  <2> HIDE DEF chosen
  <2>2. PICK allowed \in SUBSET People : /\ allowed = IF chosen.private THEN chosen.allowed \cup {p} ELSE chosen.allowed
                                         /\ chosen.allowed \subseteq allowed
    <3> DEFINE a == IF chosen.private THEN chosen.allowed \cup {p} ELSE chosen.allowed
    <3>1. chosen.allowed \in SUBSET People
      BY <2>1 DEF BucketSet
    <3>2. a \in SUBSET People /\ chosen.allowed \subseteq a
      BY <3>1
    <3> HIDE DEF a
    <3> QED BY <3>2 DEF a
  <2>3. joined = [chosen EXCEPT !.allowed = allowed]
    BY <2>2
  <2> HIDE DEF joined
  <2> QED BY <2>1, <2>2, <2>3 DEF BucketSet
<1>5. status = None => ~joined.private
  BY <1>4, NoBucketIn
<1> HIDE DEF joined, chosen
<1>6. /\ rooms' \in [Rooms -> RoomSet]
      /\ \A x \in Rooms : /\ rooms'[x].made = rooms[x].made /\ rooms'[x].kind = rooms[x].kind
                          /\ rooms'[x].next = rooms[x].next /\ rooms'[x].ranked = rooms[x].ranked
                          /\ \A b \in Buckets : rooms'[x].buckets[b] =
                                IF x = r /\ b = status /\ status # None THEN joined ELSE rooms[x].buckets[b]
  <2>1. CASE status = None
    BY <1>1, <1>2, <2>1
  <2>2. CASE status # None
    <3>1. PICK row : row = [rooms[r] EXCEPT !.buckets[status] = joined]
      OBVIOUS
    <3>2. /\ row \in RoomSet /\ row.made = rooms[r].made /\ row.kind = rooms[r].kind
          /\ row.next = rooms[r].next /\ row.ranked = rooms[r].ranked
          /\ \A b \in Buckets : row.buckets[b] = IF b = status THEN joined ELSE rooms[r].buckets[b]
      BY <1>2, <1>3, <1>4, <2>2, <3>1 DEF RoomSet
    <3>3. rooms' = [rooms EXCEPT ![r] = row]
      BY <1>1, <1>2, <1>3, <2>2, <3>1
    <3> QED BY <1>2, <1>3, <2>2, <3>2, <3>3
  <2> QED BY <2>1, <2>2
<1>7. \A x \in Rooms : /\ rooms'[x].made = rooms[x].made /\ rooms'[x].kind = rooms[x].kind
                       /\ rooms'[x].next = rooms[x].next
                       /\ \A b \in Buckets : rooms'[x].buckets[b].on => rooms'[x].ranked
  BY <1>1, <1>6 DEF RoomsSound, RoomSound
<1>8. PostsStay /\ \A x \in Posts : posts'[x].status = IF x = m THEN status ELSE posts[x].status
  <2>1. PICK item : item = [posts[m] EXCEPT !.status = status]
    OBVIOUS
  <2>2. /\ item \in PostSet /\ item.status = status /\ item.room = posts[m].room
        /\ item.author = posts[m].author /\ item.root = posts[m].root /\ item.seq = posts[m].seq
        /\ item.tseq = posts[m].tseq
    <3>1. PICK x \in PostSet : x = posts[m]
      BY <1>2
    <3>2. status \in Buckets \cup {None}
      BY <1>2
    <3>3. PICK y : y = [x EXCEPT !.status = status]
      OBVIOUS
    <3>4. /\ y \in PostSet /\ y.status = status /\ y.room = x.room /\ y.author = x.author
          /\ y.root = x.root /\ y.seq = x.seq /\ y.tseq = x.tseq
      BY <3>2, <3>3, StatusGiven
    <3>5. item = y
      BY <2>1, <3>1, <3>3
    <3> QED BY <3>1, <3>4, <3>5
  <2>3. posts' = [posts EXCEPT ![m] = item]
    BY <1>1, <2>1
  <2> DEFINE items == [posts EXCEPT ![m] = item]
  <2>4. \A x \in Posts : items[x] \in PostSet /\ items[x] = IF x = m THEN item ELSE posts[x]
    BY <1>2, <2>2 DEF Posts
  <2>5. posts' = [x \in Posts |-> items[x]]
    BY <2>3 DEF Posts
  <2> HIDE DEF items
  <2>6. posts' \in Seq(PostSet) /\ Posts' = Posts /\ \A x \in Posts : posts'[x] = items[x]
    BY <2>4, <2>5, PostsMapped DEF RoomsSound
  <2> QED BY <2>2, <2>4, <2>6 DEF PostsStay
<1>9. ASSUME NEW x \in Posts, posts'[x].status # None PROVE Bucket(x)'.on
  <2>1. posts'[x].room = posts[x].room /\ posts[x].room \in Rooms /\ PostSound(x)
    BY <1>2, <1>8 DEF PostsStay, RoomsSound
  <2>2. CASE x = m
    <3>1. posts'[x].status = status /\ status \in Buckets
      BY <1>8, <1>9, <2>2
    <3> QED BY <1>1, <1>3, <1>4, <1>6, <1>9, <2>1, <2>2, <3>1 DEF Bucket
  <2>3. CASE x # m
    <3>1. posts'[x].status = posts[x].status /\ posts[x].status \in Buckets
      BY <1>2, <1>8, <1>9, <2>3
    <3>2. rooms[posts[x].room].buckets[posts[x].status].on
      BY <1>9, <2>1, <3>1 DEF PostSound, Bucket
    <3>3. rooms'[posts[x].room].buckets[posts[x].status].on
      <4>1. CASE posts[x].room = r /\ posts[x].status = status
        <5>1. rooms'[posts[x].room].buckets[posts[x].status] = joined /\ status # None
          BY <1>6, <1>8, <1>9, <2>1, <2>3, <3>1, <4>1
        <5>2. joined.on
          BY <1>1, <1>4, <5>1
        <5> QED BY <5>1, <5>2
      <4>2. CASE ~(posts[x].room = r /\ posts[x].status = status)
        <5>1. rooms'[posts[x].room].buckets[posts[x].status] = rooms[posts[x].room].buckets[posts[x].status]
          BY <1>6, <2>1, <3>1, <4>2
        <5> QED BY <3>2, <5>1
      <4> QED BY <4>1, <4>2
    <3> QED BY <2>1, <3>1, <3>3 DEF Bucket
  <2> QED BY <2>2, <2>3
<1>10. ASSUME NEW n \in notices, NEW c, c = IF n.post = m THEN Copied(n, joined) ELSE n
       PROVE  c \in NoticeSet /\ NoticeSound(c)'
  <2>1. /\ NoticeSound(n) /\ n \in NoticeSet /\ n.post \in Posts /\ n.post \in Posts'
        /\ posts'[n.post].author = posts[n.post].author /\ posts'[n.post].room = posts[n.post].room
        /\ posts[n.post].room \in Rooms /\ posts[n.post].status \in Buckets \cup {None}
    BY <1>2, <1>8, <1>10 DEF RoomsSound, NoticeSound, PostsStay
  <2>2. Owners' = Owners /\ demoted' = demoted
    BY <1>1, MoveSame
  <2>3. CASE n.post = m
    <3>1. /\ c \in NoticeSet /\ c.post = m /\ c.member = n.member /\ c.private = joined.private
          /\ joined.private => c.allowed = joined.allowed \cup Owners
      BY <1>4, <1>10, <2>1, <2>3, CopiedIs
    <3>2. posts'[m].status = status
      BY <1>8
    <3>3. status # None => Bucket(m)' = joined
      BY <1>3, <1>6, <2>1, <2>3, <3>2 DEF Bucket
    <3>4. c.private <=> (posts'[m].status # None /\ Bucket(m)'.private)
      BY <1>5, <3>1, <3>2, <3>3
    <3>5. c.private => c.allowed \subseteq Bucket(m)'.allowed \cup Owners' \cup demoted'
      BY <1>5, <2>2, <3>1, <3>2, <3>3
    <3>6. c.post \in Posts' /\ c.member # posts'[m].author
      BY <2>1, <2>3, <3>1 DEF NoticeSound
    <3> QED BY <3>1, <3>4, <3>5, <3>6 DEF NoticeSound
  <2>4. CASE n.post # m
    <3>1. c = n /\ posts'[n.post].status = posts[n.post].status
      BY <1>8, <1>10, <2>1, <2>4
    <3>2. posts[n.post].status # None =>
             /\ Bucket(n.post)'.private = Bucket(n.post).private
             /\ Bucket(n.post).allowed \subseteq Bucket(n.post)'.allowed
      <4>1. CASE posts[n.post].room = r /\ posts[n.post].status = status /\ status # None
        <5>1. Bucket(n.post) = chosen /\ Bucket(n.post)' = joined
          BY <1>3, <1>6, <2>1, <3>1, <4>1 DEF Bucket, chosen
        <5> QED BY <1>4, <5>1
      <4>2. CASE ~(posts[n.post].room = r /\ posts[n.post].status = status) /\ posts[n.post].status # None
        BY <1>6, <2>1, <3>1, <4>2 DEF Bucket
      <4> QED BY <4>1, <4>2
    <3> QED BY <2>1, <2>2, <3>1, <3>2 DEF NoticeSound
  <2> QED BY <2>3, <2>4
<1>11. notices' \subseteq NoticeSet /\ \A n \in notices' : NoticeSound(n)'
  BY <1>1, <1>10
<1> QED BY <1>1, <1>6, <1>7, <1>8, <1>9, <1>11, QueueKeeps, PostsStayGrow

LEMMA DeleteKeeps ==
    ASSUME RoomsSound, NEW p \in People, NEW m \in Posts, DeleteMessage(p, m)
    PROVE  RoomsSound' /\ PostsGrow
<1>1. Move("delete") /\ UNCHANGED <<rooms, inRoom, notices>> /\ posts' = [posts EXCEPT ![m].deleted = TRUE]
  BY DEF DeleteMessage, notified
<1>2. \A x \in Posts : posts[x] \in PostSet
  BY PostsTyped DEF RoomsSound
<1>3. PICK item : item = [posts[m] EXCEPT !.deleted = TRUE]
  OBVIOUS
<1>4. /\ item \in PostSet /\ item.status = posts[m].status /\ item.room = posts[m].room
      /\ item.author = posts[m].author /\ item.root = posts[m].root /\ item.seq = posts[m].seq
      /\ item.tseq = posts[m].tseq
  BY <1>2, <1>3 DEF PostSet
<1>5. PostsStay /\ \A x \in Posts : posts'[x].status = posts[x].status
  <2> DEFINE items == [posts EXCEPT ![m] = item]
  <2>1. posts' = items
    BY <1>1, <1>3
  <2>2. \A x \in Posts : items[x] \in PostSet /\ items[x] = IF x = m THEN item ELSE posts[x]
    BY <1>2, <1>4 DEF Posts
  <2>3. posts' = [x \in Posts |-> items[x]]
    BY <2>1 DEF Posts
  <2> HIDE DEF items
  <2>4. posts' \in Seq(PostSet) /\ Posts' = Posts /\ \A x \in Posts : posts'[x] = items[x]
    BY <2>2, <2>3, PostsMapped DEF RoomsSound
  <2> QED BY <1>4, <2>2, <2>4 DEF PostsStay
<1>6. \A x \in Posts : Bucket(x)' = Bucket(x)
  BY <1>1, <1>5 DEF Bucket, PostsStay
<1>7. \A x \in Posts : posts'[x].status # None => Bucket(x)'.on
  BY <1>5, <1>6 DEF RoomsSound, PostSound
<1>8. ASSUME NEW n \in notices' PROVE NoticeSound(n)'
  <2>1. NoticeSound(n) /\ n.post \in Posts /\ n.post \in Posts'
    BY <1>1, <1>5, <1>8 DEF RoomsSound, NoticeSound, PostsStay
  <2>2. Owners' = Owners /\ demoted' = demoted
    BY <1>1, MoveSame
  <2>3. posts'[n.post].author = posts[n.post].author /\ posts'[n.post].status = posts[n.post].status
        /\ Bucket(n.post)' = Bucket(n.post)
    BY <1>5, <1>6, <2>1 DEF PostsStay
  <2> QED BY <2>1, <2>2, <2>3 DEF NoticeSound
<1>9. /\ rooms' \in [Rooms -> RoomSet] /\ notices' \subseteq NoticeSet
      /\ \A x \in Rooms : \A b \in Buckets : rooms'[x].buckets[b].on => rooms'[x].ranked
  BY <1>1 DEF RoomsSound, RoomsTyped, RoomSound
<1> QED BY <1>1, <1>5, <1>7, <1>8, <1>9, QueueKeeps, PostsStayGrow

-----------------------------------------------------------------------------
(* Rooms that are made, joined, left and archived. *)

LEMMA PlacesKeep ==
    ASSUME RoomsSound, NEW name, Move(name), UNCHANGED <<posts, notices>>,
           rooms' \in [Rooms -> RoomSet], inRoom' \in [Rooms -> SUBSET People],
           \A x \in Rooms : rooms[x].made => /\ rooms'[x].made /\ rooms'[x].next = rooms[x].next
                                             /\ rooms'[x].buckets = rooms[x].buckets,
           \A x \in Rooms : /\ rooms'[x].kind = "dm" => rooms'[x].made
                            /\ \A b \in Buckets : rooms'[x].buckets[b].on => rooms'[x].ranked,
           TalksApart'
    PROVE  RoomsSound' /\ PostsGrow
<1>1. RoomsTyped'
  BY DEF RoomsSound, RoomsTyped
<1>2. \A x \in Rooms : RoomSound(x)'
  BY DEF RoomSound
<1>3. ASSUME NEW m \in Posts PROVE rooms[posts[m].room].made /\ posts[m].room \in Rooms /\ Bucket(m)' = Bucket(m)
  <2>1. PostSound(m) /\ posts[m].room \in Rooms
    BY PostsTyped DEF RoomsSound
  <2> QED BY <2>1 DEF PostSound, Bucket
<1>4. Posts' = Posts
  BY DEF Posts
<1>5. ASSUME NEW m \in Posts' PROVE PostSound(m)'
  <2>1. PostSound(m)
    BY <1>4 DEF RoomsSound
  <2> QED BY <1>3, <1>4, <2>1 DEF PostSound
<1>6. ASSUME NEW n \in notices' PROVE NoticeSound(n)'
  <2>1. NoticeSound(n)
    BY DEF RoomsSound
  <2>2. n.post \in Posts /\ Bucket(n.post)' = Bucket(n.post)
    BY <1>3, <2>1 DEF NoticeSound
  <2>3. Owners' = Owners /\ demoted' = demoted
    BY MoveSame
  <2> QED BY <1>4, <2>1, <2>2, <2>3 DEF NoticeSound
<1> QED BY <1>1, <1>2, <1>5, <1>6, SamePosts DEF RoomsSound

LEMMA RoomMade ==
    ASSUME NEW kind \in Kinds, NEW p \in People
    PROVE  LET new == [NoRoom EXCEPT !.made = TRUE, !.kind = kind, !.creator = p]
           IN  new \in RoomSet /\ new.made /\ new.kind = kind /\ \A b \in Buckets : ~new.buckets[b].on
<1>1. NoRoom.buckets = [b \in Buckets |-> NoBucket]
  BY DEF NoRoom
<1>2. NoRoom \in RoomSet
  BY NoBucketIn DEF NoRoom, RoomSet, Kinds
<1> QED BY <1>1, <1>2, NoBucketIn DEF RoomSet

LEMMA CreateKeeps ==
    ASSUME RoomsSound, NEW p \in People, NEW r \in Rooms, NEW kind, NEW invited,
           CreateChannel(p, r, kind, invited)
    PROVE  RoomsSound' /\ PostsGrow
<1>1. /\ Move("rooms") /\ UNCHANGED <<posts, notices>> /\ ~rooms[r].made
      /\ kind \in {"public", "private"} /\ invited \subseteq People
      /\ rooms' = [rooms EXCEPT ![r] = [NoRoom EXCEPT !.made = TRUE, !.kind = kind, !.creator = p]]
      /\ inRoom' = [inRoom EXCEPT ![r] = {p} \cup invited]
  BY DEF CreateChannel, notified, ActivePeople
<1>2. rooms \in [Rooms -> RoomSet] /\ inRoom \in [Rooms -> SUBSET People]
  BY DEF RoomsSound, RoomsTyped
<1>a. kind \in Kinds
  BY <1>1 DEF Kinds
<1>3. PICK new \in RoomSet : /\ new = [NoRoom EXCEPT !.made = TRUE, !.kind = kind, !.creator = p]
                             /\ new.made /\ new.kind = kind /\ \A b \in Buckets : ~new.buckets[b].on
  BY <1>a, RoomMade
<1>4. rooms' = [rooms EXCEPT ![r] = new]
  BY <1>1, <1>3
<1>5. rooms' \in [Rooms -> RoomSet] /\ rooms'[r] = new /\ \A x \in Rooms \ {r} : rooms'[x] = rooms[x]
  BY <1>2, <1>4
<1>6. inRoom' \in [Rooms -> SUBSET People] /\ \A x \in Rooms \ {r} : inRoom'[x] = inRoom[x]
  BY <1>1, <1>2
<1>7. TalksApart'
  BY <1>1, <1>3, <1>5, <1>6 DEF RoomsSound, TalksApart
<1>8. \A x \in Rooms : rooms[x].made => /\ rooms'[x].made /\ rooms'[x].next = rooms[x].next
                                        /\ rooms'[x].buckets = rooms[x].buckets
  BY <1>1, <1>5
<1>9. \A x \in Rooms : /\ rooms'[x].kind = "dm" => rooms'[x].made
                       /\ \A b \in Buckets : rooms'[x].buckets[b].on => rooms'[x].ranked
  BY <1>3, <1>5 DEF RoomsSound, RoomSound
<1> QED BY <1>1, <1>5, <1>6, <1>7, <1>8, <1>9, PlacesKeep

LEMMA OpenKeeps ==
    ASSUME RoomsSound, NEW p \in People, NEW others, NEW r \in Rooms, OpenDirectMessage(p, others, r)
    PROVE  RoomsSound' /\ PostsGrow
<1>1. /\ Move("rooms") /\ UNCHANGED <<posts, notices>> /\ ~rooms[r].made /\ others \subseteq People
      /\ \A other \in Rooms : rooms[other].made /\ rooms[other].kind = "dm" => inRoom[other] # others \cup {p}
      /\ rooms' = [rooms EXCEPT ![r] = [NoRoom EXCEPT !.made = TRUE, !.kind = "dm", !.creator = p]]
      /\ inRoom' = [inRoom EXCEPT ![r] = others \cup {p}]
  BY DEF OpenDirectMessage, notified, ActivePeople
<1>2. rooms \in [Rooms -> RoomSet] /\ inRoom \in [Rooms -> SUBSET People]
  BY DEF RoomsSound, RoomsTyped
<1>3. PICK new \in RoomSet : /\ new = [NoRoom EXCEPT !.made = TRUE, !.kind = "dm", !.creator = p]
                             /\ new.made /\ new.kind = "dm" /\ \A b \in Buckets : ~new.buckets[b].on
  BY RoomMade DEF Kinds
<1>4. rooms' = [rooms EXCEPT ![r] = new]
  BY <1>1, <1>3
<1>5. rooms' \in [Rooms -> RoomSet] /\ rooms'[r] = new /\ \A x \in Rooms \ {r} : rooms'[x] = rooms[x]
  BY <1>2, <1>4
<1>6. /\ inRoom' \in [Rooms -> SUBSET People] /\ \A x \in Rooms \ {r} : inRoom'[x] = inRoom[x]
      /\ inRoom'[r] = others \cup {p}
  BY <1>1, <1>2
<1>7. \A x \in Rooms \ {r} : rooms[x].kind = "dm" => inRoom[x] # others \cup {p}
  BY <1>1 DEF RoomsSound, RoomSound
<1>8. TalksApart'
  BY <1>3, <1>5, <1>6, <1>7 DEF RoomsSound, TalksApart
<1>9. \A x \in Rooms : rooms[x].made => /\ rooms'[x].made /\ rooms'[x].next = rooms[x].next
                                        /\ rooms'[x].buckets = rooms[x].buckets
  BY <1>1, <1>5
<1>10. \A x \in Rooms : /\ rooms'[x].kind = "dm" => rooms'[x].made
                        /\ \A b \in Buckets : rooms'[x].buckets[b].on => rooms'[x].ranked
  BY <1>3, <1>5 DEF RoomsSound, RoomSound
<1> QED BY <1>1, <1>5, <1>6, <1>8, <1>9, <1>10, PlacesKeep

(* Somebody joins, is added or leaves. *)
LEMMA MemberMoves ==
    ASSUME RoomsSound, NEW r \in Rooms, NEW members \in SUBSET People, NEW name, Move(name),
           UNCHANGED <<rooms, posts, notices>>, rooms[r].kind # "dm",
           inRoom' = [inRoom EXCEPT ![r] = members]
    PROVE  RoomsSound' /\ PostsGrow
<1>1. rooms' \in [Rooms -> RoomSet] /\ inRoom \in [Rooms -> SUBSET People]
  BY DEF RoomsSound, RoomsTyped
<1>2. inRoom' \in [Rooms -> SUBSET People] /\ \A x \in Rooms \ {r} : inRoom'[x] = inRoom[x]
  BY <1>1
<1>3. TalksApart'
  BY <1>2 DEF RoomsSound, TalksApart
<1>4. \A x \in Rooms : /\ rooms'[x].kind = "dm" => rooms'[x].made
                       /\ \A b \in Buckets : rooms'[x].buckets[b].on => rooms'[x].ranked
  BY DEF RoomsSound, RoomSound
<1> QED BY <1>1, <1>2, <1>3, <1>4, PlacesKeep

LEMMA PlaceStepKeeps ==
    ASSUME RoomsSound, NEW p \in People, NEW r \in Rooms,
           JoinChannel(p, r) \/ LeaveChannel(p, r) \/ \E q \in People : AddChannelMember(p, r, q)
    PROVE  RoomsSound' /\ PostsGrow
<1>1. inRoom[r] \in SUBSET People
  BY DEF RoomsSound, RoomsTyped
<1>2. CASE JoinChannel(p, r)
  <2>1. /\ Move("places") /\ UNCHANGED <<rooms, posts, notices>> /\ rooms[r].kind # "dm"
        /\ inRoom' = [inRoom EXCEPT ![r] = inRoom[r] \cup {p}]
    BY <1>2 DEF JoinChannel, notified
  <2>2. inRoom[r] \cup {p} \in SUBSET People
    BY <1>1
  <2> QED BY <2>1, <2>2, MemberMoves
<1>3. CASE LeaveChannel(p, r)
  <2>1. /\ Move("places") /\ UNCHANGED <<rooms, posts, notices>> /\ rooms[r].kind # "dm"
        /\ inRoom' = [inRoom EXCEPT ![r] = inRoom[r] \ {p}]
    BY <1>3 DEF LeaveChannel, notified
  <2>2. inRoom[r] \ {p} \in SUBSET People
    BY <1>1
  <2> QED BY <2>1, <2>2, MemberMoves
<1>4. CASE \E q \in People : AddChannelMember(p, r, q)
  <2>1. PICK q \in People : AddChannelMember(p, r, q)
    BY <1>4
  <2>2. /\ Move("places") /\ UNCHANGED <<rooms, posts, notices>> /\ rooms[r].kind # "dm"
        /\ inRoom' = [inRoom EXCEPT ![r] = inRoom[r] \cup {q}]
    BY <2>1 DEF AddChannelMember, notified
  <2>3. inRoom[r] \cup {q} \in SUBSET People
    BY <1>1
  <2> QED BY <2>2, <2>3, MemberMoves
<1> QED BY <1>2, <1>3, <1>4

LEMMA ArchiveKeeps ==
    ASSUME RoomsSound, NEW p \in People, NEW r \in Rooms, ArchiveChannel(p, r)
    PROVE  RoomsSound' /\ PostsGrow
<1>1. /\ Move("rooms") /\ UNCHANGED <<inRoom, posts, notices>>
      /\ rooms' = [rooms EXCEPT ![r].archived = TRUE]
  BY DEF ArchiveChannel, notified
<1>2. rooms \in [Rooms -> RoomSet] /\ inRoom' \in [Rooms -> SUBSET People]
  BY <1>1 DEF RoomsSound, RoomsTyped
<1>3. /\ rooms' \in [Rooms -> RoomSet]
      /\ \A x \in Rooms : /\ rooms'[x].made = rooms[x].made /\ rooms'[x].kind = rooms[x].kind
                          /\ rooms'[x].next = rooms[x].next /\ rooms'[x].buckets = rooms[x].buckets
                          /\ rooms'[x].ranked = rooms[x].ranked
  <2>1. rooms' \in [Rooms -> RoomSet]
    BY <1>1, <1>2 DEF RoomSet
  <2> QED BY <1>1, <1>2, <2>1 DEF RoomSet
<1>4. TalksApart'
  BY <1>1, <1>3 DEF RoomsSound, TalksApart
<1>5. \A x \in Rooms : /\ rooms'[x].kind = "dm" => rooms'[x].made
                       /\ \A b \in Buckets : rooms'[x].buckets[b].on => rooms'[x].ranked
  BY <1>3 DEF RoomsSound, RoomSound
<1> QED BY <1>1, <1>2, <1>3, <1>4, <1>5, PlacesKeep

LEMMA RoomStepKeeps ==
    ASSUME RoomsSound, RoomStep
    PROVE  RoomsSound' /\ PostsGrow
<1>1. PICK p \in People, r \in Rooms :
         \/ \E kind, others : CreateChannel(p, r, kind, others)
         \/ \E others : OpenDirectMessage(p, others, r)
         \/ JoinChannel(p, r) \/ LeaveChannel(p, r) \/ ArchiveChannel(p, r)
         \/ \E q \in People : AddChannelMember(p, r, q)
  BY DEF RoomStep
<1> QED BY <1>1, CreateKeeps, OpenKeeps, PlaceStepKeeps, ArchiveKeeps

-----------------------------------------------------------------------------
(* What members keep for themselves. *)

LEMMA AsideKeeps ==
    ASSUME RoomsSound, NEW name, Move(name), UNCHANGED <<content, notices>>
    PROVE  RoomsSound' /\ PostsGrow
<1>1. Owners \subseteq Owners' \cup demoted' /\ demoted \subseteq demoted'
  BY MoveSame
<1>2. RoomsSound'
  BY <1>1, RoomsStand
<1> QED BY <1>2, SamePosts DEF content

LEMMA MarkKeeps ==
    ASSUME RoomsSound, NEW p \in People, NEW n \in notices, NEW unread \in BOOLEAN,
           MarkNotification(p, n, unread)
    PROVE  RoomsSound' /\ PostsGrow
<1>1. /\ Move("prefs") /\ UNCHANGED content
      /\ notices' = (notices \ {n}) \cup {[n EXCEPT !.read = ~unread]}
  BY DEF MarkNotification
<1>2. notices \subseteq NoticeSet /\ n \in NoticeSet
  BY DEF RoomsSound, RoomsTyped
<1>3. PICK new : new = [n EXCEPT !.read = ~unread]
  OBVIOUS
<1>4. /\ new \in NoticeSet /\ new.member = n.member /\ new.post = n.post
      /\ new.private = n.private /\ new.allowed = n.allowed
  BY <1>2, <1>3 DEF NoticeSet
<1>5. notices' = (notices \ {n}) \cup {new}
  BY <1>1, <1>3
<1>6. rooms' = rooms /\ inRoom' = inRoom /\ posts' = posts
  BY <1>1 DEF content
<1>7. Owners' = Owners /\ demoted' = demoted
  BY <1>1, MoveSame
<1>8. RoomsTyped'
  BY <1>2, <1>4, <1>5, <1>6 DEF RoomsSound, RoomsTyped
<1>9. TalksApart' /\ \A r \in Rooms : RoomSound(r)'
  BY <1>6 DEF RoomsSound, TalksApart, RoomSound
<1>10. \A m \in Posts' : PostSound(m)'
  BY <1>6 DEF RoomsSound, PostSound, Posts, Bucket
<1>11. ASSUME NEW x, NoticeSound(x) PROVE NoticeSound(x)'
  BY <1>6, <1>7, <1>11 DEF NoticeSound, Posts, Bucket
<1>12. NoticeSound(n)
  BY DEF RoomsSound
<1>13. NoticeSound(new)
  BY <1>4, <1>12 DEF NoticeSound
<1>14. \A x \in notices' : NoticeSound(x)
  BY <1>5, <1>13 DEF RoomsSound
<1> QED BY <1>8, <1>9, <1>10, <1>11, <1>14, <1>6, SamePosts DEF RoomsSound

(* How far a member has read, and what his draft is. *)
ReadKept ==
    /\ \A r \in Rooms, p \in People : rooms'[r].made => read'.rooms[r][p] >= read.rooms[r][p]
    /\ \A x \in DOMAIN read.threads : posts' # <<>> => read'.threads[x] >= read.threads[x]

DraftsKept ==
    \A r \in Rooms :
        drafts[r] # NoDraft /\ drafts'[r] # drafts[r] /\ r \notin cleared' /\ rooms'[r].made =>
            \E s \in Screens : /\ screens'[s][r] = drafts'[r]
                               /\ screens[s][r] \in {drafts[r], NoDraft}

LEMMA SameRead == ASSUME ReadSound, UNCHANGED read PROVE ReadKept
<1>1. \A r \in Rooms, p \in People : read.rooms[r][p] \in Nat
  BY DEF ReadSound
<1>2. \A x \in DOMAIN read.threads : read.threads[x] \in Nat
  BY DEF ReadSound
<1> QED BY <1>1, <1>2 DEF ReadKept

LEMMA SameDrafts ==
    ASSUME DraftsSound, UNCHANGED drafting
    PROVE  DraftsSound' /\ DraftsKept
BY DEF DraftsSound, DraftsKept, drafting

LEMMA AdvancedIs ==
    ASSUME NEW current \in Nat, NEW requested \in Nat, NEW latest \in Nat
    PROVE  /\ Advanced(current, requested, latest) \in Nat
           /\ Advanced(current, requested, latest) >= current
           /\ current <= latest => Advanced(current, requested, latest) <= latest
BY DEF Advanced, MaxOf

LEMMA ChannelReadKeeps ==
    ASSUME RoomsSound, ReadSound, NEW p \in People, NEW r \in Rooms, NEW requested \in Nat,
           MarkChannelRead(p, r, requested)
    PROVE  ReadSound' /\ ReadKept
<1>1. UNCHANGED posts
  BY DEF MarkChannelRead, content
<1>2. \A x \in Rooms : LatestIn(x)' = LatestIn(x)
  BY <1>1 DEF LatestIn, Posts
<1>3. /\ read = [rooms |-> read.rooms, threads |-> read.threads]
      /\ read.rooms \in [Rooms -> [People -> Nat]]
      /\ read.threads = [x \in DOMAIN read.threads |-> read.threads[x]]
      /\ \A x \in DOMAIN read.threads : read.threads[x] \in Nat
      /\ \A x \in Rooms, q \in People : read.rooms[x][q] <= LatestIn(x)
  BY DEF ReadSound
<1>4. PICK c : c = Advanced(read.rooms[r][p], requested, LatestIn(r))
  OBVIOUS
<1>5. c \in Nat /\ c >= read.rooms[r][p] /\ c <= LatestIn(r)
  <2>1. read.rooms[r][p] \in Nat /\ LatestIn(r) \in Nat /\ read.rooms[r][p] <= LatestIn(r)
    BY <1>3, LatestIs
  <2> QED BY <1>4, <2>1, AdvancedIs
<1>6. read' = [read EXCEPT !.rooms[r][p] = c]
  BY <1>4 DEF MarkChannelRead
<1>7. PICK row : row = [read.rooms[r] EXCEPT ![p] = c]
  OBVIOUS
<1>8. row \in [People -> Nat] /\ \A q \in People : row[q] = IF q = p THEN c ELSE read.rooms[r][q]
  BY <1>3, <1>5, <1>7
<1>9. PICK table : table = [read.rooms EXCEPT ![r] = row]
  OBVIOUS
<1>10. table \in [Rooms -> [People -> Nat]] /\ \A x \in Rooms : table[x] = IF x = r THEN row ELSE read.rooms[x]
  BY <1>3, <1>8, <1>9
<1>11. read' = [rooms |-> table, threads |-> read.threads]
  <2>1. read' = [read EXCEPT !.rooms = table]
    BY <1>6, <1>7, <1>9
  <2> QED BY <1>3, <2>1
<1>12. read'.rooms = table /\ read'.threads = read.threads
  BY <1>11
<1>13. \A x \in Rooms, q \in People : table[x][q] <= LatestIn(x) /\ table[x][q] >= read.rooms[x][q]
  <2> SUFFICES ASSUME NEW x \in Rooms, NEW q \in People
               PROVE  table[x][q] <= LatestIn(x) /\ table[x][q] >= read.rooms[x][q]
    OBVIOUS
  <2>1. read.rooms[x][q] \in Nat /\ read.rooms[x][q] <= LatestIn(x)
    BY <1>3
  <2>2. table[x][q] = IF x = r /\ q = p THEN c ELSE read.rooms[x][q]
    BY <1>8, <1>10
  <2> QED BY <1>5, <2>1, <2>2
<1>14. ReadSound'
  BY <1>2, <1>3, <1>10, <1>11, <1>12, <1>13 DEF ReadSound
<1>15. ReadKept
  BY <1>3, <1>12, <1>13 DEF ReadKept
<1> QED BY <1>14, <1>15

LEMMA ThreadReadKeeps ==
    ASSUME RoomsSound, ReadSound, NEW p \in People, NEW root \in Posts, NEW requested \in Nat, NEW byFrame,
           MarkThreadRead(p, root, requested, byFrame)
    PROVE  ReadSound' /\ ReadKept
<1>1. UNCHANGED posts
  BY DEF MarkThreadRead, content
<1>2. \A x \in Rooms : LatestIn(x)' = LatestIn(x)
  BY <1>1 DEF LatestIn, Posts
<1>3. /\ read = [rooms |-> read.rooms, threads |-> read.threads]
      /\ read.rooms \in [Rooms -> [People -> Nat]]
      /\ read.threads = [x \in DOMAIN read.threads |-> read.threads[x]]
      /\ \A x \in DOMAIN read.threads : read.threads[x] \in Nat
      /\ \A x \in Rooms, q \in People : read.rooms[x][q] <= LatestIn(x)
  BY DEF ReadSound
<1>4. PICK k : k = <<root, p>>
  OBVIOUS
<1>5. PICK old : old = IF k \in DOMAIN read.threads THEN read.threads[k] ELSE 0
  OBVIOUS
<1>6. PICK c : c = Advanced(old, requested, LatestUnder(root))
  OBVIOUS
<1>7. old \in Nat /\ c \in Nat /\ c >= old
  <2>1. old \in Nat
    BY <1>3, <1>5
  <2>2. LatestUnder(root) \in Nat
    BY LatestUnderIs
  <2> QED BY <1>6, <2>1, <2>2, AdvancedIs
<1>8. PICK table : table = [x \in DOMAIN read.threads \cup {k} |-> IF x = k THEN c ELSE read.threads[x]]
  OBVIOUS
<1>9. read' = [read EXCEPT !.threads = table]
  <2>1. read' = [read EXCEPT !.threads =
          [x \in DOMAIN @ \cup {<<root, p>>} |->
             IF x = <<root, p>>
             THEN Advanced(IF x \in DOMAIN @ THEN @[x] ELSE 0, requested, LatestUnder(root))
             ELSE @[x]]]
    BY DEF MarkThreadRead
  <2> QED BY <1>4, <1>5, <1>6, <1>8, <2>1
<1>10. read' = [rooms |-> read.rooms, threads |-> table]
  BY <1>3, <1>9
<1>11. read'.rooms = read.rooms /\ read'.threads = table
  BY <1>10
<1>12. /\ DOMAIN table = DOMAIN read.threads \cup {k}
       /\ \A x \in DOMAIN table : table[x] \in Nat
       /\ table = [x \in DOMAIN table |-> table[x]]
       /\ \A x \in DOMAIN read.threads : table[x] >= read.threads[x]
  BY <1>3, <1>5, <1>7, <1>8
<1>13. ReadSound'
  BY <1>2, <1>3, <1>10, <1>11, <1>12 DEF ReadSound
<1>14. \A r \in Rooms, q \in People : read.rooms[r][q] \in Nat
  BY <1>3
<1>15. ReadKept
  BY <1>11, <1>12, <1>14 DEF ReadKept
<1> QED BY <1>13, <1>15

LEMMA ReaderStepKeeps ==
    ASSUME RoomsSound, ReadSound, ReaderStep
    PROVE  RoomsSound' /\ PostsGrow /\ ReadSound' /\ ReadKept /\ UNCHANGED drafting
<1>1. CASE \E p \in People, n \in notices, unread \in BOOLEAN : MarkNotification(p, n, unread)
  <2>1. PICK p \in People, n \in notices, unread \in BOOLEAN : MarkNotification(p, n, unread)
    BY <1>1
  <2>2. RoomsSound' /\ PostsGrow
    BY <2>1, MarkKeeps
  <2>3. UNCHANGED <<read, drafting>>
    BY <2>1 DEF MarkNotification, kept
  <2> QED BY <2>2, <2>3, ReadStands, SameRead
<1>2. CASE \/ \E p \in People, r \in Rooms, level \in Levels : SetNotifyLevel(p, r, level)
           \/ \E p \in People, quiet, keyword \in BOOLEAN : SetNotificationPreferences(p, quiet, keyword)
           \/ \E p \in People, m \in Posts, wanted \in BOOLEAN : SetThreadSubscription(p, m, wanted)
  <2>1. Move("prefs") /\ UNCHANGED <<content, notices, read, drafting>>
    BY <1>2 DEF SetNotifyLevel, SetNotificationPreferences, SetThreadSubscription, kept
  <2>2. RoomsSound' /\ PostsGrow
    BY <2>1, AsideKeeps
  <2> QED BY <2>1, <2>2, ReadStands, SameRead
<1>3. CASE \E p \in People, r \in Rooms, requested \in 0..start.posts : MarkChannelRead(p, r, requested)
  <2>1. PICK p \in People, r \in Rooms, requested \in Nat : MarkChannelRead(p, r, requested)
    BY <1>3
  <2>2. Move("read") /\ UNCHANGED <<content, notices, drafting>>
    BY <2>1 DEF MarkChannelRead, notified
  <2>3. ReadSound' /\ ReadKept
    BY <2>1, ChannelReadKeeps
  <2> QED BY <2>2, <2>3, AsideKeeps
<1>4. CASE \E p \in People, m \in Posts, requested \in 0..start.posts, byFrame \in BOOLEAN :
               MarkThreadRead(p, m, requested, byFrame)
  <2>1. PICK p \in People, m \in Posts, requested \in Nat, byFrame \in BOOLEAN :
           MarkThreadRead(p, m, requested, byFrame)
    BY <1>4
  <2>2. Move("read") /\ UNCHANGED <<content, notices, drafting>>
    BY <2>1 DEF MarkThreadRead, notified
  <2>3. ReadSound' /\ ReadKept
    BY <2>1, ThreadReadKeeps
  <2> QED BY <2>2, <2>3, AsideKeeps
<1> QED BY <1>1, <1>2, <1>3, <1>4 DEF ReaderStep
-----------------------------------------------------------------------------
(* Drafts. *)

(* A device is given what the room's draft is by now. *)
LEMMA DraftStored ==
    ASSUME DraftsSound, NEW s \in Screens, NEW r \in Rooms, NEW draft \in Draft, StoreDraft(s, r, draft),
           cleared \subseteq cleared', texts' \in Nat,
           draft.revision = 0 => draft = NoDraft,
           r \in cleared' \/ draft.revision > drafts[r].revision,
           r \in cleared' \/ drafts[r] = NoDraft \/ screens[s][r].revision \in {0, drafts[r].revision}
    PROVE  DraftsSound' /\ DraftsKept
<1>1. /\ drafts' = [drafts EXCEPT ![r] = draft]
      /\ screens' = [screens EXCEPT ![s][r] = draft]
  BY DEF StoreDraft
<1>2. /\ drafts \in [Rooms -> Draft] /\ screens \in [Screens -> [Rooms -> Draft]]
      /\ \A x \in Rooms : drafts[x].revision = 0 => drafts[x] = NoDraft
      /\ \A t \in Screens, x \in Rooms :
          /\ screens[t][x].revision = 0 => screens[t][x] = NoDraft
          /\ x \notin cleared => /\ screens[t][x].revision <= drafts[x].revision
                                 /\ screens[t][x].revision = drafts[x].revision
                                       => screens[t][x] = drafts[x]
  BY DEF DraftsSound
<1>3. drafts' \in [Rooms -> Draft] /\ \A x \in Rooms : drafts'[x] = IF x = r THEN draft ELSE drafts[x]
  BY <1>1, <1>2
<1>4. PICK row : row = [screens[s] EXCEPT ![r] = draft]
  OBVIOUS
<1>5. row \in [Rooms -> Draft] /\ \A x \in Rooms : row[x] = IF x = r THEN draft ELSE screens[s][x]
  BY <1>2, <1>4
<1>6. /\ screens' \in [Screens -> [Rooms -> Draft]]
      /\ \A t \in Screens : screens'[t] = IF t = s THEN row ELSE screens[t]
  <2>1. screens' = [screens EXCEPT ![s] = row]
    BY <1>1, <1>4
  <2> QED BY <1>2, <1>5, <2>1
<1>7. \A t \in Screens, x \in Rooms :
         screens'[t][x] = IF t = s /\ x = r THEN draft ELSE screens[t][x]
  BY <1>5, <1>6
<1>8. \A x \in Rooms : drafts'[x].revision = 0 => drafts'[x] = NoDraft
  BY <1>2, <1>3
<1>9. ASSUME NEW t \in Screens, NEW x \in Rooms
      PROVE  /\ screens'[t][x].revision = 0 => screens'[t][x] = NoDraft
             /\ x \notin cleared' => /\ screens'[t][x].revision <= drafts'[x].revision
                                     /\ screens'[t][x].revision = drafts'[x].revision
                                           => screens'[t][x] = drafts'[x]
  <2>1. drafts[x] \in Draft /\ screens[t][x] \in Draft
    BY <1>2
  <2>2. /\ drafts[x].revision \in Nat /\ screens[t][x].revision \in Nat /\ draft.revision \in Nat
    BY <2>1 DEF Draft
  <2>3. CASE x # r
    BY <1>2, <1>3, <1>7, <2>3
  <2>4. CASE x = r /\ t = s
    BY <1>3, <1>7, <2>2, <2>4
  <2>5. CASE x = r /\ t # s
    <3>1. drafts'[x] = draft /\ screens'[t][x] = screens[t][x]
      BY <1>3, <1>7, <2>5
    <3>2. x \notin cleared' => screens[t][x].revision < draft.revision
      BY <1>2, <2>2, <2>5
    <3> QED BY <1>2, <2>2, <3>1, <3>2
  <2> QED BY <2>3, <2>4, <2>5
<1>10. DraftsSound'
  BY <1>3, <1>6, <1>8, <1>9 DEF DraftsSound
<1>11. ASSUME NEW x \in Rooms, drafts[x] # NoDraft, drafts'[x] # drafts[x], x \notin cleared'
       PROVE  \E t \in Screens : screens'[t][x] = drafts'[x] /\ screens[t][x] \in {drafts[x], NoDraft}
  <2>1. x = r /\ x \notin cleared
    BY <1>3, <1>11
  <2>2. screens[s][r] \in {drafts[r], NoDraft}
    BY <1>2, <1>11, <2>1
  <2>3. screens'[s][r] = drafts'[r]
    BY <1>3, <1>7
  <2> QED BY <2>1, <2>2, <2>3
<1>12. DraftsKept
  BY <1>11, Zenon DEF DraftsKept
<1> QED BY <1>10, <1>12

LEMMA NoDraftIn == NoDraft \in Draft /\ NoDraft.revision = 0
BY DEF NoDraft, Draft

LEMMA ClearKeeps ==
    ASSUME DraftsSound, NEW s \in Screens, NEW r \in Rooms, ClearDraft(s, r)
    PROVE  DraftsSound' /\ DraftsKept
<1>1. StoreDraft(s, r, NoDraft) /\ cleared' = cleared \cup {r} /\ texts' = texts
  BY DEF ClearDraft
<1>2. texts' \in Nat /\ cleared \subseteq cleared' /\ r \in cleared'
  BY <1>1 DEF DraftsSound
<1> QED BY <1>1, <1>2, NoDraftIn, DraftStored

LEMMA WriteKeeps ==
    ASSUME DraftsSound, NEW s \in Screens, NEW r \in Rooms, WriteDraft(s, r),
           drafts[r] = NoDraft \/ screens[s][r].revision \in {0, drafts[r].revision}
    PROVE  DraftsSound' /\ DraftsKept
<1>1. PICK draft : draft = [revision |-> drafts[r].revision + 1, text |-> texts + 1]
  OBVIOUS
<1>2. StoreDraft(s, r, draft) /\ texts' = texts + 1 /\ cleared' = cleared
  BY <1>1 DEF WriteDraft
<1>3. texts \in Nat /\ drafts[r] \in Draft
  BY DEF DraftsSound
<1>4. drafts[r].revision \in Nat
  BY <1>3 DEF Draft
<1>5. draft \in Draft /\ draft.revision > drafts[r].revision /\ draft.revision # 0 /\ texts' \in Nat
  BY <1>1, <1>2, <1>3, <1>4 DEF Draft
<1> QED BY <1>2, <1>5, DraftStored

LEMMA GetKeeps ==
    ASSUME DraftsSound, NEW s \in Screens, NEW r \in Rooms,
           screens' = [screens EXCEPT ![s][r] = drafts[r]], UNCHANGED <<drafts, texts, cleared>>
    PROVE  DraftsSound' /\ DraftsKept
<1>1. /\ drafts \in [Rooms -> Draft] /\ screens \in [Screens -> [Rooms -> Draft]]
  BY DEF DraftsSound
<1>2. PICK row : row = [screens[s] EXCEPT ![r] = drafts[r]]
  OBVIOUS
<1>3. row \in [Rooms -> Draft] /\ \A x \in Rooms : row[x] = IF x = r THEN drafts[r] ELSE screens[s][x]
  BY <1>1, <1>2
<1>4. /\ screens' \in [Screens -> [Rooms -> Draft]]
      /\ \A t \in Screens : screens'[t] = IF t = s THEN row ELSE screens[t]
  <2>1. screens' = [screens EXCEPT ![s] = row]
    BY <1>2
  <2> QED BY <1>1, <1>3, <2>1
<1>5. \A t \in Screens, x \in Rooms :
         screens'[t][x] = IF t = s /\ x = r THEN drafts[x] ELSE screens[t][x]
  BY <1>3, <1>4
<1>6. ASSUME NEW t \in Screens, NEW x \in Rooms
      PROVE  /\ screens'[t][x].revision = 0 => screens'[t][x] = NoDraft
             /\ x \notin cleared => /\ screens'[t][x].revision <= drafts[x].revision
                                    /\ screens'[t][x].revision = drafts[x].revision
                                           => screens'[t][x] = drafts[x]
  <2>1. drafts[x].revision \in Nat
    BY <1>1 DEF Draft
  <2> QED BY <1>5, <2>1 DEF DraftsSound
<1>7. DraftsSound'
  BY <1>4, <1>6 DEF DraftsSound
<1> QED BY <1>7 DEF DraftsKept

LEMMA DraftStepKeeps ==
    ASSUME RoomsSound, ReadSound, DraftsSound, DraftStep
    PROVE  /\ RoomsSound' /\ ReadSound' /\ DraftsSound'
           /\ PostsGrow /\ ReadKept /\ DraftsKept
<1>1. PICK s \in Screens, r \in Rooms :
         GetDraft(s, r) \/ SpendDraft(s, r) \/ \E empty \in BOOLEAN : SaveDraft(s, r, empty)
  BY DEF DraftStep
<1>2. Move("drafts") /\ UNCHANGED <<content, notices, read>>
  BY <1>1 DEF GetDraft, SpendDraft, SaveDraft, notified, kept
<1>3. RoomsSound' /\ PostsGrow
  BY <1>2, AsideKeeps
<1>4. ReadSound' /\ ReadKept
  BY <1>2, <1>3, ReadStands, SameRead
<1>5. CASE GetDraft(s, r)
  BY <1>3, <1>4, <1>5, GetKeeps DEF GetDraft
<1>6. CASE SpendDraft(s, r)
  BY <1>3, <1>4, <1>6, ClearKeeps DEF SpendDraft
<1>7. CASE \E empty \in BOOLEAN : SaveDraft(s, r, empty)
  <2>1. \/ ClearDraft(s, r)
        \/ WriteDraft(s, r) /\ (drafts[r] = NoDraft \/ screens[s][r].revision \in {0, drafts[r].revision})
    BY <1>7 DEF SaveDraft
  <2> QED BY <1>3, <1>4, <2>1, ClearKeeps, WriteKeeps
<1> QED BY <1>1, <1>5, <1>6, <1>7

-----------------------------------------------------------------------------
(* Every step of the rooms. *)

(* What the steps of the rooms keep of the invariant and do to what members *)
(* keep.                                                                    *)
Kept == RoomsSound' /\ ReadSound' /\ DraftsSound' /\ ReadKept /\ DraftsKept

LEMMA OthersKeep ==
    ASSUME RoomsSound, ReadSound, DraftsSound, RoomsSound', PostsGrow, UNCHANGED <<read, drafting>>
    PROVE  Kept
BY ReadStands, SameRead, SameDrafts DEF Kept

LEMMA RoomStepHolds ==
    ASSUME RoomsSound, ReadSound, DraftsSound, RoomStep
    PROVE  Kept
<1>1. PICK p \in People, r \in Rooms :
         \/ \E kind, others : CreateChannel(p, r, kind, others)
         \/ \E others : OpenDirectMessage(p, others, r)
         \/ JoinChannel(p, r) \/ LeaveChannel(p, r) \/ ArchiveChannel(p, r)
         \/ \E q \in People : AddChannelMember(p, r, q)
  BY DEF RoomStep
<1>2. UNCHANGED <<read, drafting>>
  BY <1>1 DEF CreateChannel, OpenDirectMessage, JoinChannel, LeaveChannel, ArchiveChannel,
     AddChannelMember, kept
<1> QED BY <1>2, RoomStepKeeps, OthersKeep

LEMMA QueueStepHolds ==
    ASSUME RoomsSound, ReadSound, DraftsSound, QueueStep
    PROVE  Kept
<1>1. CASE \E p \in People, r \in Rooms, form, ranked \in BOOLEAN :
              \E buckets \in BucketsFor(r) : ConfigureWorkQueue(p, r, form, ranked, buckets)
  <2>0. PICK p \in People, r \in Rooms, form \in BOOLEAN, ranked \in BOOLEAN :
           \E buckets \in BucketsFor(r) : ConfigureWorkQueue(p, r, form, ranked, buckets)
    BY <1>1
  <2>1. PICK buckets \in BucketsFor(r) : ConfigureWorkQueue(p, r, form, ranked, buckets)
    BY <2>0
  <2>2. RoomsSound' /\ PostsGrow
    BY <2>1, ConfigureKeeps
  <2>3. UNCHANGED <<read, drafting>>
    BY <2>1, Zenon DEF ConfigureWorkQueue, kept
  <2> QED BY <2>2, <2>3, OthersKeep
<1>2. CASE \E p \in People, m \in Posts, status \in Buckets \cup {None} : SetItemStatus(p, m, status)
  <2>1. PICK p \in People, m \in Posts, status \in Buckets \cup {None} : SetItemStatus(p, m, status)
    BY <1>2
  <2>2. RoomsSound' /\ PostsGrow
    BY <2>1, StatusKeeps
  <2>3. UNCHANGED <<read, drafting>>
    BY <2>1, Zenon DEF SetItemStatus, kept
  <2> QED BY <2>2, <2>3, OthersKeep
<1> QED BY <1>1, <1>2 DEF QueueStep

LEMMA SendHolds ==
    ASSUME RoomsSound, ReadSound, DraftsSound, NEW p \in People, NEW r \in Rooms, NEW parent \in Posts \cup {0},
           NEW to, NEW keyworded, NEW viaForm, SendMessage(p, r, parent, to, keyworded, viaForm)
    PROVE  Kept
<1>1. UNCHANGED <<read, drafting>>
  BY DEF SendMessage, kept
<1> QED BY <1>1, SendKeeps, OthersKeep

LEMMA MessageHolds ==
    ASSUME RoomsSound, ReadSound, DraftsSound, NEW p \in People, NEW m \in Posts,
           \/ \E r \in Rooms : ForwardMessage(p, m, r)
           \/ DeleteMessage(p, m) \/ SaveMessage(p, m) \/ UnsaveMessage(p, m)
           \/ \E adds \in BOOLEAN : ReactToMessage(p, m, adds) \/ PinMessage(p, m, adds)
    PROVE  Kept
<1>1. CASE \E r \in Rooms : ForwardMessage(p, m, r)
  <2>1. UNCHANGED <<read, drafting>>
    BY <1>1 DEF ForwardMessage, kept
  <2> QED BY <1>1, <2>1, ForwardKeeps, OthersKeep
<1>2. CASE DeleteMessage(p, m)
  <2>1. UNCHANGED <<read, drafting>>
    BY <1>2 DEF DeleteMessage, kept
  <2> QED BY <1>2, <2>1, DeleteKeeps, OthersKeep
<1>3. CASE \/ SaveMessage(p, m) \/ UnsaveMessage(p, m)
           \/ \E adds \in BOOLEAN : ReactToMessage(p, m, adds) \/ PinMessage(p, m, adds)
  <2>1. Move("keep") /\ UNCHANGED <<content, notices, read, drafting>>
    BY <1>3 DEF SaveMessage, UnsaveMessage, ReactToMessage, PinMessage, notified
  <2> QED BY <2>1, AsideKeeps, OthersKeep
<1> QED BY <1>1, <1>2, <1>3

LEMMA RoomsNextHolds ==
    ASSUME RoomsSound, ReadSound, DraftsSound, RoomsNext
    PROVE  Kept
<1>1. CASE SendStep
  BY <1>1, SendHolds DEF SendStep
<1>2. CASE MessageStep
  <2>1. PICK p \in People, m \in Posts :
           \/ \E r \in Rooms : ForwardMessage(p, m, r)
           \/ DeleteMessage(p, m) \/ SaveMessage(p, m) \/ UnsaveMessage(p, m)
           \/ \E adds \in BOOLEAN : ReactToMessage(p, m, adds) \/ PinMessage(p, m, adds)
    BY <1>2 DEF MessageStep
  <2> QED BY <2>1, MessageHolds
<1>3. CASE ReaderStep
  BY <1>3, ReaderStepKeeps, SameDrafts DEF Kept
<1>4. CASE DraftStep
  BY <1>4, DraftStepKeeps DEF Kept
<1> QED BY <1>1, <1>2, <1>3, <1>4, RoomStepHolds, QueueStepHolds DEF RoomsNext

LEMMA MembersMoveHolds ==
    ASSUME RoomsSound, ReadSound, DraftsSound, MembersMove
    PROVE  Kept
<1>1. /\ demoted' = demoted \cup {p \in People : OwnerIn(local, p) /\ ~OwnerIn(local', p)}
      /\ UNCHANGED <<content, notices, read, drafting>>
  BY DEF MembersMove, notified, kept
<1>2. Owners = {p \in People : OwnerIn(local, p)} /\ Owners' = {p \in People : OwnerIn(local', p)}
  BY DEF Owners, OwnerIn
<1>3. Owners \subseteq Owners' \cup demoted' /\ demoted \subseteq demoted'
  BY <1>1, <1>2
<1>4. RoomsSound'
  BY <1>1, <1>3, RoomsStand
<1>5. PostsGrow
  BY <1>1, SamePosts DEF content
<1> QED BY <1>1, <1>4, <1>5, OthersKeep

LEMMA LiveNextHolds ==
    ASSUME RoomsSound, ReadSound, DraftsSound, LiveNext
    PROVE  Kept
<1>1. CASE AnnouncedStep
  <2>1. PICK p \in People :
           \/ \E r \in Rooms, parent \in Posts \cup {0} : SendMessage(p, r, parent, Nobody, {}, FALSE)
           \/ \E m \in Posts :
                 \/ \E r \in Rooms : ForwardMessage(p, m, r)
                 \/ DeleteMessage(p, m)
                 \/ \E adds \in BOOLEAN : ReactToMessage(p, m, adds) \/ PinMessage(p, m, adds)
    BY <1>1 DEF AnnouncedStep
  <2> QED BY <2>1, SendHolds, MessageHolds
<1>2. CASE RecordedStep
  <2>1. PICK p \in People, r \in Rooms :
           JoinChannel(p, r) \/ LeaveChannel(p, r) \/ \E q \in People : AddChannelMember(p, r, q)
    BY <1>2 DEF RecordedStep
  <2>2. UNCHANGED <<read, drafting>>
    BY <2>1 DEF JoinChannel, LeaveChannel, AddChannelMember, kept
  <2> QED BY <2>1, <2>2, PlaceStepKeeps, OthersKeep
<1>3. CASE \E r \in Rooms : PostCard(r)
  <2>1. PICK r \in Rooms : PostCard(r)
    BY <1>3
  <2>2. UNCHANGED <<read, drafting>>
    BY <2>1 DEF PostCard, kept
  <2> QED BY <2>1, <2>2, CardKeeps, OthersKeep
<1>4. CASE MembersChange
  BY <1>4, MembersMoveHolds DEF MembersChange
<1>5. CASE UNCHANGED <<vars, roomVars>>
  <2>1. UNCHANGED <<vars, demoted>> /\ UNCHANGED <<content, notices, read, drafting>>
    BY <1>5 DEF roomVars, notified, kept
  <2>2. RoomsSound'
    BY <2>1, SameOwners, RoomsStand
  <2> QED BY <2>1, <2>2, SamePosts, OthersKeep DEF content
<1> QED BY <1>1, <1>2, <1>3, <1>4, <1>5 DEF LiveNext
-----------------------------------------------------------------------------
(* Rooms that are emptied and rooms that are built. *)

LEMMA NoRoomIn ==
    /\ NoRoom \in RoomSet /\ ~NoRoom.made /\ NoRoom.kind # "dm"
    /\ \A b \in Buckets : ~NoRoom.buckets[b].on
<1>1. NoRoom.buckets = [b \in Buckets |-> NoBucket]
  BY DEF NoRoom
<1>2. NoRoom \in RoomSet
  BY NoBucketIn DEF NoRoom, RoomSet, Kinds
<1> QED BY <1>1, <1>2, NoBucketIn DEF NoRoom

(* Rooms without a message. *)
LEMMA NoPostsSound ==
    ASSUME rooms \in [Rooms -> RoomSet], inRoom \in [Rooms -> SUBSET People], posts = <<>>, notices = {},
           \A r \in Rooms : RoomSound(r), TalksApart
    PROVE  RoomsSound
<1>1. Posts = {}
  BY DEF Posts
<1>2. posts \in Seq(PostSet)
  OBVIOUS
<1> QED BY <1>1, <1>2 DEF RoomsSound, RoomsTyped

NothingRead == read = [rooms |-> [r \in Rooms |-> [p \in People |-> 0]], threads |-> <<>>]

LEMMA NothingReadSound == RoomsSound /\ NothingRead => ReadSound
<1> SUFFICES ASSUME RoomsSound, NothingRead PROVE ReadSound
  OBVIOUS
<1>1. \A r \in Rooms : LatestIn(r) \in Nat
  BY LatestIs
<1>2. /\ read.rooms = [r \in Rooms |-> [p \in People |-> 0]]
      /\ read.threads = <<>> /\ DOMAIN read.threads = {}
  BY DEF NothingRead
<1>3. read = [rooms |-> read.rooms, threads |-> read.threads]
  BY <1>2 DEF NothingRead
<1>4. read.threads = [x \in DOMAIN read.threads |-> read.threads[x]]
  BY <1>2
<1> QED BY <1>1, <1>2, <1>3, <1>4 DEF ReadSound

Bare == rooms = [r \in Rooms |-> NoRoom] /\ inRoom = [r \in Rooms |-> {}] /\ posts = <<>> /\ notices = {}

LEMMA BareSound == Bare => RoomsSound
<1> SUFFICES ASSUME Bare PROVE RoomsSound
  OBVIOUS
<1>1. \A r \in Rooms : RoomSound(r)
  BY NoRoomIn DEF Bare, RoomSound
<1>2. TalksApart
  BY NoRoomIn DEF Bare, TalksApart
<1>3. rooms \in [Rooms -> RoomSet] /\ inRoom \in [Rooms -> SUBSET People] /\ posts = <<>> /\ notices = {}
  BY NoRoomIn DEF Bare
<1> QED BY <1>1, <1>2, <1>3, NoPostsSound

LEMMA EmptyHolds ==
    ASSUME DraftsSound, EmptyRooms, screens = [s \in Screens |-> [r \in Rooms |-> NoDraft]]
    PROVE  Kept
<1>1. Bare'
  BY DEF EmptyRooms, Bare
<1>2. RoomsSound'
  BY <1>1, BareSound, PTL
<1>3. NothingRead'
  BY DEF EmptyRooms, NothingRead
<1>4. ReadSound'
  BY <1>2, <1>3, NothingReadSound, PTL
<1>5. /\ drafts' = [r \in Rooms |-> NoDraft] /\ screens' = screens /\ texts' = texts /\ cleared' = cleared
  BY DEF EmptyRooms
<1>6. DraftsSound'
  BY <1>5, NoDraftIn DEF DraftsSound
<1>7. \A r \in Rooms : ~rooms'[r].made
  BY <1>1, NoRoomIn DEF Bare
<1>8. posts' = <<>>
  BY <1>1 DEF Bare
<1>9. ReadKept
  BY <1>7, <1>8 DEF ReadKept
<1>10. DraftsKept
  BY <1>7 DEF DraftsKept
<1> QED BY <1>2, <1>4, <1>6, <1>9, <1>10 DEF Kept

LEMMA RoomsStart ==
    ASSUME budget \in Scenarios, RoomsInit
    PROVE  RoomsInvariant
<1> DEFINE built == start.built
           Made(r) == [NoRoom EXCEPT !.made = TRUE, !.kind = built[r].kind, !.creator = built[r].creator,
                                     !.form = built[r].form, !.ranked = built[r].ranked,
                                     !.buckets = built[r].buckets]
<1>1. /\ \A r \in DOMAIN built :
            /\ built[r] \in BuiltSet
            /\ (\E b \in Buckets : built[r].buckets[b].on) => built[r].ranked
      /\ \A r, other \in DOMAIN built :
            r # other /\ built[r].kind = "dm" /\ built[other].kind = "dm"
               => built[r].members # built[other].members
  BY BuiltAssumption DEF RoomsInit
<1>2. /\ rooms = [r \in Rooms |-> IF r \notin DOMAIN built THEN NoRoom ELSE Made(r)]
      /\ inRoom = [r \in Rooms |-> IF r \in DOMAIN built THEN built[r].members ELSE {}]
      /\ posts = <<>> /\ notices = {} /\ NothingRead
      /\ drafts = [r \in Rooms |-> NoDraft] /\ screens = [s \in Screens |-> [r \in Rooms |-> NoDraft]]
      /\ texts = 0
  BY DEF RoomsInit, NothingRead
<1>3. ASSUME NEW r \in DOMAIN built
      PROVE  /\ Made(r) \in RoomSet /\ Made(r).made /\ Made(r).kind = built[r].kind
             /\ Made(r).ranked = built[r].ranked /\ Made(r).buckets = built[r].buckets
             /\ built[r].members \subseteq People
  <2>1. PICK given \in BuiltSet : given = built[r]
    BY <1>1
  <2>2. given.kind \in Kinds /\ given.creator \in People /\ given.form \in BOOLEAN /\ given.ranked \in BOOLEAN
        /\ given.buckets \in [Buckets -> BucketSet] /\ given.members \subseteq People
    BY DEF BuiltSet
  <2>3. Made(r) = [NoRoom EXCEPT !.made = TRUE, !.kind = given.kind, !.creator = given.creator,
                                 !.form = given.form, !.ranked = given.ranked, !.buckets = given.buckets]
    BY <2>1
  <2>4. NoRoom \in RoomSet
    BY NoRoomIn
  <2> HIDE DEF Made
  <2> QED BY <2>1, <2>2, <2>3, <2>4 DEF RoomSet
<1> HIDE DEF Made, built
<1>4. rooms \in [Rooms -> RoomSet] /\ inRoom \in [Rooms -> SUBSET People]
  BY <1>2, <1>3, NoRoomIn
<1>5. \A r \in Rooms : RoomSound(r)
  <2>1. \A r \in Rooms : r \notin DOMAIN built => rooms[r] = NoRoom
    BY <1>2
  <2>2. \A r \in Rooms : r \in DOMAIN built => rooms[r] = Made(r)
    BY <1>2
  <2> QED BY <2>1, <2>2, <1>1, <1>3, NoRoomIn DEF RoomSound
<1>6. TalksApart
  <2> SUFFICES ASSUME NEW r \in Rooms, NEW other \in Rooms, r # other, rooms[r].kind = "dm",
                      rooms[other].kind = "dm"
               PROVE  inRoom[r] # inRoom[other]
    BY DEF TalksApart
  <2>1. r \in DOMAIN built /\ other \in DOMAIN built
    BY <1>2, NoRoomIn
  <2>2. built[r].kind = "dm" /\ built[other].kind = "dm"
    BY <1>2, <1>3, <2>1
  <2> QED BY <1>1, <1>2, <2>1, <2>2
<1>7. RoomsSound
  BY <1>2, <1>4, <1>5, <1>6, NoPostsSound
<1>8. ReadSound
  BY <1>2, <1>7, NothingReadSound
<1>9. DraftsSound
  BY <1>2, NoDraftIn DEF DraftsSound
<1>10. PartsApart
  BY <1>2 DEF PartsApart
<1> QED BY <1>7, <1>8, <1>9, <1>10 DEF RoomsInvariant

-----------------------------------------------------------------------------
(* What a scenario exercises it exercises all the time.                     *)

ExerciseKnown == "exercise" \in DOMAIN budget

LEMMA ExercisedStays ==
    ASSUME ExerciseKnown, [Next]_workspaceVars
    PROVE  ExerciseKnown' /\ Exercised' = Exercised /\ AsAWhole' = AsAWhole
<1>1. \/ budget' = budget
      \/ budget' = [budget EXCEPT !.calls = @ - 1]
      \/ budget' = [budget EXCEPT !.losses = @ - 1]
      \/ budget' = [budget EXCEPT !.deliveries = @ - 1]
  BY OnlyMembersMove, BudgetStep DEF vars, workspaceVars
<1>2. DOMAIN budget' = DOMAIN budget /\ budget'.exercise = budget.exercise
  BY <1>1 DEF ExerciseKnown
<1> QED BY <1>2 DEF ExerciseKnown, Exercised, AsAWhole

LEMMA ExerciseHeld == Spec => []ExerciseKnown
<1>1. Init => ExerciseKnown
  BY WorkspaceAssumption DEF Init, MembershipInit, ExerciseKnown
<1>2. ExerciseKnown /\ [Next]_workspaceVars => ExerciseKnown'
  BY ExercisedStays
<1> QED BY <1>1, <1>2, PTL DEF Spec

-----------------------------------------------------------------------------
(* The rooms of the workspace. *)

(* Steps that are not about the rooms, while the owners stay who they are   *)
(* or nobody was told anything.                                             *)
LEMMA RoomsStutter ==
    ASSUME RoomsSound, ReadSound, DraftsSound, UNCHANGED roomVars, UNCHANGED vars \/ notices = {}
    PROVE  Kept
<1>1. UNCHANGED <<content, notices, read, drafting, demoted>> /\ UNCHANGED <<rooms, inRoom, posts>>
  BY DEF roomVars, notified, kept, content
<1>2. CASE UNCHANGED vars
  <2>1. RoomsSound'
    BY <1>1, <1>2, SameOwners, RoomsStand
  <2> QED BY <1>1, <2>1, SamePosts, OthersKeep
<1>3. CASE notices = {}
  <2>1. RoomsTyped' /\ TalksApart' /\ \A r \in Rooms : RoomSound(r)'
    BY <1>1 DEF RoomsSound, RoomsTyped, TalksApart, RoomSound
  <2>2. \A m \in Posts' : PostSound(m)'
    BY <1>1 DEF RoomsSound, PostSound, Posts, Bucket
  <2>3. RoomsSound'
    BY <1>1, <1>3, <2>1, <2>2 DEF RoomsSound
  <2> QED BY <1>1, <2>3, SamePosts, OthersKeep
<1> QED BY <1>2, <1>3

LEMMA EndsHold ==
    ASSUME DeletionStep \/ ExportStep
    PROVE  EmptyRooms \/ UNCHANGED roomVars
<1>1. CASE DeletionStep
  <2>1. ASSUME NEW c \in PurgeCalls, NEW flag \in BOOLEAN, BeginPurge(c, flag)
        PROVE  EmptyRooms \/ UNCHANGED roomVars
    <3>1. RunStage(NextStage) \/ UNCHANGED roomVars
      BY <2>1 DEF BeginPurge
    <3> QED BY <3>1 DEF RunStage
  <2>2. ASSUME NEW c \in PurgeCalls, NEW flag \in BOOLEAN,
               PurgeAttachments(c, flag) \/ LosePurge(c, flag) \/ SealPurge(c)
        PROVE  UNCHANGED roomVars
    BY <2>2 DEF PurgeAttachments, LosePurge, SealPurge, RowsStay
  <2>3. ASSUME NEW p \in People, RequestWorkspaceDeletion(p) \/ CancelWorkspaceDeletion(p) \/ ReadReceipt
        PROVE  UNCHANGED roomVars
    BY <2>3 DEF RequestWorkspaceDeletion, CancelWorkspaceDeletion, ReadReceipt, RowsStay
  <2>4. ReadReceipt => UNCHANGED roomVars
    BY DEF ReadReceipt, RowsStay
  <2> QED BY <1>1, <2>1, <2>2, <2>3, <2>4 DEF DeletionStep
<1>2. CASE ExportStep
  <2>1. ASSUME NEW p \in People, BeginExport(p) \/ FinishExport(p)
        PROVE  RowsStay
    BY <2>1 DEF BeginExport, FinishExport, ExportAside
  <2>2. ASSUME NEW p \in People, NEW k \in Collectors,
               BeginRecording(k, p) \/ (\E x \in Chunks : ExportChunk(k, p, x))
               \/ RecordExportChunk(k) \/ LoseChunk(k)
        PROVE  RowsStay
    BY <2>2 DEF BeginRecording, ExportChunk, RecordExportChunk, LoseChunk, ExportAside
  <2>3. ASSUME NEW k \in Collectors, RecordExportChunk(k) \/ LoseChunk(k)
        PROVE  RowsStay
    BY <2>3 DEF RecordExportChunk, LoseChunk, ExportAside
  <2>4. SweepExpiredExports \/ RestoreFromExport => RowsStay
    BY DEF SweepExpiredExports, RestoreFromExport, ExportAside
  <2>5. RowsStay
    BY <1>2, <2>1, <2>2, <2>3, <2>4 DEF ExportStep
  <2> QED BY <2>5 DEF RowsStay
<1> QED BY <1>1, <1>2

LEMMA WritingKeeps ==
    ASSUME RoomsSound, ReadSound, DraftsSound, WritingStep
    PROVE  Kept /\ UNCHANGED drafting
<1>1. SendStep \/ RoomStep
  BY DEF WritingStep
<1>2. CASE SendStep
  <2>1. PICK p \in People, r \in Rooms, parent \in Posts \cup {0}, to \in Addressed,
             keyworded \in {{}, People}, viaForm \in BOOLEAN :
           SendMessage(p, r, parent, to, keyworded, viaForm)
    BY <1>2 DEF SendStep
  <2> QED BY <2>1, SendHolds DEF SendMessage
<1>3. CASE RoomStep
  <2>1. PICK p \in People, r \in Rooms :
         \/ \E kind, others : CreateChannel(p, r, kind, others)
         \/ \E others : OpenDirectMessage(p, others, r)
         \/ JoinChannel(p, r) \/ LeaveChannel(p, r) \/ ArchiveChannel(p, r)
         \/ \E q \in People : AddChannelMember(p, r, q)
    BY <1>3 DEF RoomStep
  <2>2. UNCHANGED drafting
    BY <2>1 DEF CreateChannel, OpenDirectMessage, JoinChannel, LeaveChannel, ArchiveChannel,
       AddChannelMember
  <2> QED BY <1>3, <2>2, RoomStepHolds
<1> QED BY <1>1, <1>2, <1>3

LEMMA RoomsStepHolds ==
    ASSUME ExerciseKnown, RoomsInvariant, [Next]_workspaceVars
    PROVE  RoomsInvariant' /\ ReadKept /\ DraftsKept
<1>1. Exercised' = Exercised /\ AsAWhole' = AsAWhole
  BY ExercisedStays
<1>2. RoomsSound /\ ReadSound /\ DraftsSound /\ PartsApart
  BY DEF RoomsInvariant
<1>3. SUFFICES Kept /\ PartsApart'
  BY DEF Kept, RoomsInvariant
<1>4. CASE UNCHANGED roomVars /\ (UNCHANGED vars \/ Exercised \cap Places = {})
  <2>1. Kept
    BY <1>2, <1>4, RoomsStutter DEF PartsApart
  <2>2. UNCHANGED <<screens, drafts, notices>>
    BY <1>4 DEF roomVars, notified, drafting
  <2> QED BY <1>1, <1>2, <2>1, <2>2 DEF PartsApart
<1>5. CASE PlaceStep
  <2>1. ~AsAWhole /\ Exercised \cap Places # {}
    BY <1>5 DEF PlaceStep, Places
  <2>2. Kept
    BY <1>2, <1>5, RoomsNextHolds, MembersMoveHolds, LiveNextHolds DEF PlaceStep
  <2> QED BY <1>1, <2>1, <2>2 DEF PartsApart
<1>6. CASE TenantStep /\ ~(UNCHANGED roomVars /\ UNCHANGED vars)
  <2>1. Exercised \cap Places # {}
    BY <1>6 DEF TenantStep, Places, AsAWhole
  <2>2. AsAWhole
    BY <1>6 DEF TenantStep, AsAWhole
  <2>3. screens = [s \in Screens |-> [r \in Rooms |-> NoDraft]] /\ drafts = [r \in Rooms |-> NoDraft]
    BY <1>2, <2>2 DEF PartsApart
  <2>4. CASE (DeletionStep \/ ExportStep) /\ UNCHANGED vars
    <3>1. EmptyRooms
      BY <1>6, <2>4, EndsHold
    <3>2. Kept
      BY <1>2, <2>3, <3>1, EmptyHolds
    <3>3. screens' = screens /\ drafts' = [r \in Rooms |-> NoDraft]
      BY <3>1 DEF EmptyRooms
    <3> QED BY <1>1, <2>1, <2>3, <3>2, <3>3 DEF PartsApart
  <2>5. CASE WritingStep
    <3>1. Kept /\ UNCHANGED drafting
      BY <1>2, <2>5, WritingKeeps
    <3> QED BY <1>1, <2>1, <2>3, <3>1 DEF PartsApart, drafting
  <2>6. CASE MembersMove
    <3>1. Kept /\ UNCHANGED drafting
      BY <1>2, <2>6, MembersMoveHolds DEF MembersMove
    <3> QED BY <1>1, <2>1, <2>3, <3>1 DEF PartsApart, drafting
  <2> QED BY <1>6, <2>4, <2>5, <2>6 DEF TenantStep
<1>7. CASE IdentityStep /\ UNCHANGED roomsAndTabs
  BY <1>4, <1>7 DEF IdentityStep, roomsAndTabs
<1>8. CASE UNCHANGED workspaceVars
  BY <1>4, <1>8 DEF workspaceVars, roomsAndTabs
<1> QED BY <1>4, <1>5, <1>6, <1>7, <1>8 DEF Next

LEMMA RoomsHeld == Spec => []RoomsInvariant
<1>1. Init => RoomsInvariant
  BY RoomsStart DEF Init, MembershipInit
<1>2. ExerciseKnown /\ RoomsInvariant /\ [Next]_workspaceVars => RoomsInvariant'
  BY RoomsStepHolds
<1> QED BY <1>1, <1>2, ExerciseHeld, PTL DEF Spec

LEMMA NoticesAreSound == RoomsInvariant => NoticesAgree
<1> SUFFICES ASSUME RoomsInvariant PROVE NoticesAgree
  OBVIOUS
<1>1. RoomsSound /\ ReadSound
  BY DEF RoomsInvariant
<1>2. ASSUME NEW n \in notices
      PROVE  LET m == posts[n.post]
             IN  /\ n.private <=> m.status # None /\ Bucket(n.post).private
                 /\ NoticeShown(n) => MayRead(n.member, n.post) \/ n.member \in demoted
                 /\ n.member # m.author
  <2>1. NoticeSound(n) /\ n.member \in People
    BY <1>1 DEF RoomsSound, RoomsTyped, NoticeSet
  <2>2. ASSUME NoticeShown(n), ~MayRead(n.member, n.post) PROVE n.member \in demoted
    <3>1. Withheld(n.member, n.post)
      BY <2>2 DEF MayRead
    <3>2. n.private /\ n.member \in n.allowed
      BY <2>1, <2>2, <3>1 DEF Withheld, NoticeSound, NoticeShown
    <3>3. n.member \notin Bucket(n.post).allowed /\ n.member \notin Owners
      BY <3>1 DEF Withheld, Owners
    <3> QED BY <2>1, <3>2, <3>3 DEF NoticeSound
  <2> QED BY <2>1, <2>2 DEF NoticeSound
<1>3. ASSUME NEW m \in Posts
      PROVE  /\ posts[m].status # None => Bucket(m).on
             /\ posts[m].root # 0 => LET root == posts[posts[m].root]
                                     IN  root.root = 0 /\ root.room = posts[m].room
  BY <1>1 DEF RoomsSound, PostSound
<1>4. ASSUME NEW r \in Rooms, NEW p \in People
      PROVE  /\ read.rooms[r][p] <= LatestIn(r)
             /\ \A m \in HistoryShown(p, r) : MayRead(p, m)
  <2>1. ASSUME NEW m \in HistoryShown(p, r), ~MayRead(p, m) PROVE FALSE
    <3>1. m \in Posts /\ posts[m].room = r /\ ~rooms[r].ranked
      BY <2>1 DEF HistoryShown
    <3>2. posts[m].status # None /\ Bucket(m).on
      BY <1>3, <2>1, <3>1 DEF MayRead, Withheld
    <3>3. posts[m].status \in Buckets /\ rooms[r].buckets[posts[m].status].on
      BY <1>1, <3>1, <3>2, PostsTyped DEF RoomsSound, Bucket
    <3> QED BY <1>1, <3>1, <3>3 DEF RoomsSound, RoomSound
  <2> QED BY <1>1, <2>1 DEF ReadSound
<1>5. TalksApart
  BY <1>1 DEF RoomsSound
<1> QED BY <1>2, <1>3, <1>4, <1>5 DEF NoticesAgree, TalksApart

(* Whatever is configured, moved, deleted and written in whatever order:    *)
(* a notice says of an item's privacy what its bucket says, and is shown to *)
(* nobody who may not read the item, but an owner who was demoted since.    *)
THEOREM NoticesHeld == Spec => []NoticesAgree
BY RoomsHeld, NoticesAreSound, PTL

(* As long as there is the room, nobody's place in it moves back; and no    *)
(* device puts its draft over a text that it did not show, unless it knew   *)
(* of none or the room's draft was cleared once.                            *)
THEOREM PlacesHeld == Spec => MembersKeepTheirPlace
<1>1. ReadKept /\ DraftsKept =>
        /\ \A r \in Rooms, p \in People : rooms'[r].made => read'.rooms[r][p] >= read.rooms[r][p]
        /\ \A x \in DOMAIN read.threads : posts' # <<>> => read'.threads[x] >= read.threads[x]
        /\ \A r \in Rooms :
             drafts[r] # NoDraft /\ drafts'[r] # drafts[r] /\ r \notin cleared' /\ rooms'[r].made =>
                \E s \in Screens : /\ screens'[s][r] = drafts'[r]
                                   /\ screens[s][r] \in {drafts[r], NoDraft}
  BY DEF ReadKept, DraftsKept
<1>2. ExerciseKnown /\ RoomsInvariant /\ [Next]_workspaceVars => ReadKept /\ DraftsKept
  BY RoomsStepHolds
<1> QED BY <1>1, <1>2, RoomsHeld, ExerciseHeld, PTL DEF Spec, MembersKeepTheirPlace

-----------------------------------------------------------------------------
(* The files, the purge and the export. *)

FileRow == [state : {"none", "reserved", "stored", "deleted"}, by : People \cup {None},
            room : Rooms \cup {None}, post : Nat, expires : Nat, gone : BOOLEAN]
TransferSet == [pc : {"idle", "moving", "confirming", "removing"}, file : Files \cup {None},
                by : People \cup {None}, at : Nat]
DeletionSet == [on : BOOLEAN, after : Nat, started : BOOLEAN, receipt : Nat]

StorageTyped ==
    /\ files \in [Files -> FileRow] /\ transfers \in [Transfers -> TransferSet]
    /\ \A u \in Transfers : transfers[u].pc # "idle" => transfers[u].file \in Files
    /\ sweep \in [pc : {"idle", "deleting"}, keys : SUBSET Files]
    /\ deletion \in DeletionSet
    /\ peak \in Nat /\ (AsAWhole => allowance.quota <= peak)
    /\ IsFiniteSet({f \in Files : files[f].state # "none"})

(* Whoever moves a file is alone with it, or the file is blemished; and it  *)
(* is still there to be confirmed.                                          *)
Moving(u, f) == transfers[u].pc # "idle" /\ transfers[u].file = f
Alone == \A u, v \in Transfers, f \in Files : u # v /\ Moving(u, f) /\ Moving(v, f) => f \in blemished
TransferSound(u, f) ==
    Moving(u, f) =>
       /\ files[f].state = "stored" => f \in blemished
       /\ files[f].state = "none" => deletion.started
       /\ transfers[u].pc = "confirming" /\ files[f].state \in {"reserved", "stored"}
             /\ ~deletion.started => f \in objects \cup blemished
TransfersSound == Alone /\ \A u \in Transfers, f \in Files : TransferSound(u, f)

(* A file hangs on a message of its uploader. *)
HangsOn(f) ==
    files[f].post # 0 => /\ files[f].post \in Posts
                         /\ posts[files[f].post].author = files[f].by
                         /\ posts[files[f].post].room = files[f].room
FileSound(f) ==
    /\ files[f].state = "none" => files[f].post = 0
    /\ files[f].state \in {"reserved", "stored"} => ~files[f].gone
    /\ files[f].state = "stored" /\ ~deletion.started => f \in objects \cup blemished
    /\ f \in objects \ stranded => \/ files[f].state \in {"reserved", "stored"}
                                   \/ files[f].state = "deleted" /\ ~files[f].gone
                                   \/ \E u \in Transfers : Moving(u, f)
    /\ f \in sweep.keys => /\ files[f].state \in {"none", "deleted"}
                           /\ files[f].state = "none" => deletion.started
FilesSound == \A f \in Files : FileSound(f) /\ HangsOn(f)

StorageInvariant ==
    /\ StorageTyped /\ TransfersSound /\ FilesSound
    /\ Cardinality(InUse \ overdue) <= peak

StageSet == {"attachments", "content", "vault", "audit", "scheduler", "control_rows", "routing"}

PurgeSet == [pc : {"idle", "deleting", "sealing"}, keys : SUBSET Files, at : Nat]
Purged == {"attachments", "content", "scheduler"} \subseteq done

(* A purge begins after a deletion that cannot be called off any more; what *)
(* a stage emptied stays empty; and a call that is about to hand out a      *)
(* receipt has nothing left to do.                                          *)
PurgeSound ==
    /\ done \subseteq StageSet /\ purging \in [PurgeCalls -> PurgeSet]
    /\ deletion.started => deletion.on
    /\ ~deletion.started => /\ done = {} /\ deletion.receipt = 0
                            /\ \A c \in PurgeCalls : purging[c].pc = "idle"
    /\ deletion.on /\ ~deletion.started => content = asIs
    /\ "attachments" \in done => \A f \in Files : files[f] = NoFile
    /\ "content" \in done => Bare /\ "attachments" \in done
    /\ "scheduler" \in done => recorded = <<>> /\ run = NoRun
    /\ deletion.receipt # 0 => Purged
    /\ \A c \in PurgeCalls :
          /\ purging[c].pc = "deleting" => \A f \in Files : files[f].state # "none" => f \in purging[c].keys
          /\ purging[c].pc = "sealing" => Purged
          /\ purging[c].pc # "idle" => purging[c].at # 0

ReceiptsSound ==
    /\ together \in BOOLEAN
    /\ deletion.receipt = 0 => told = {}
    /\ ~together => /\ told \subseteq {deletion.receipt}
                    /\ \A c, other \in PurgeCalls :
                          purging[c].pc # "idle" /\ purging[other].pc # "idle" => c = other
                    /\ deletion.receipt # 0 => \A c \in PurgeCalls : purging[c].pc = "idle"

ChunkLines == [room : Rooms, post : Nat, root : Nat, deleted : BOOLEAN]
RunSet == [open : BOOLEAN, steady : BOOLEAN, expires : Nat, manifest : SUBSET Chunks]
RequestSet == [pc : {"idle", "holding", "hashing"}, chunk : Chunks \cup {None}, body : SUBSET ChunkLines]

(* The bodies of chunk x that are somewhere: with a request, recorded, or   *)
(* with the collector.                                                      *)
Holds(k, x) == collecting[k].pc # "idle" /\ collecting[k].chunk = x
Bodies(x) ==
    {collecting[k].body : k \in {k \in Collectors : Holds(k, x)}}
    \cup (IF x \in DOMAIN recorded THEN {recorded[x]} ELSE {})
    \cup (IF x \in DOMAIN copy THEN {copy[x]} ELSE {})
HeldLines == UNION {UNION Bodies(x) : x \in Chunks}

Untouched == /\ copy = <<>> /\ recorded = <<>> /\ ~replacement.made /\ run.manifest = {} /\ ~run.open
             /\ \A k \in Collectors : collecting[k].pc = "idle"

ExportTyped ==
    /\ "posts" \in DOMAIN start /\ start.posts \in Nat
    /\ run \in RunSet /\ collecting \in [Collectors -> RequestSet]
    /\ \A k \in Collectors : collecting[k].pc # "idle" => collecting[k].chunk \in Chunks
    /\ recorded = [x \in DOMAIN recorded |-> recorded[x]] /\ DOMAIN recorded \subseteq Chunks
    /\ copy = [x \in DOMAIN copy |-> copy[x]] /\ DOMAIN copy \subseteq Chunks
    /\ replacement \in [made : BOOLEAN, epoch : Nat, lines : SUBSET ChunkLines]

(* A request that is alone with a chunk carries what will be recorded.      *)
RunSound ==
    /\ run.expires = 0 /\ ~deletion.started => Untouched
    /\ run.open => DOMAIN copy \subseteq DOMAIN recorded
    /\ run.manifest # {} => DOMAIN copy = Chunks
    /\ \A x \in DOMAIN copy \cap DOMAIN recorded : copy[x] = recorded[x] \/ x \in doubled
    /\ \A k \in Collectors, x \in Chunks \ doubled :
          Holds(k, x) => /\ x \notin DOMAIN recorded
                         /\ \A other \in Collectors : Holds(other, x) => other = k

(* What is held of the rooms and of the messages is as they were written.   *)
LineTrue(line) ==
    /\ line.post = 0 => line = Line(line.room, 0, 0, FALSE)
    /\ line.post # 0 /\ "content" \notin done =>
          /\ line.post \in Posts
          /\ posts[line.post].room = line.room /\ posts[line.post].root = line.root
LinesSound ==
    /\ \A x \in Chunks : \A body \in Bodies(x) : body \subseteq ChunkLines
    /\ \A line \in HeldLines : LineTrue(line)
    /\ \A line, root \in HeldLines : line.root # 0 /\ root.post = line.root => root.room = line.room

(* The lines of a chunk, of what there was when the export began.           *)
Among(x, line) == IF x.table = "channels" THEN line.post = 0 ELSE line.post = x.offset + 1
Snapped(x) == {line \in snapshot : Among(x, line)}
SteadySound ==
    /\ \A line \in snapshot : \E x \in Chunks : Among(x, line)
    /\ run.steady => \A x \in Chunks : \A body \in Bodies(x) : body = Snapped(x)
    /\ run.steady /\ run.manifest = {} /\ ~deletion.started => Everything = snapshot

ReplacementSound ==
    replacement.made =>
       /\ \A line \in replacement.lines : line.post # 0 =>
             /\ Line(line.room, 0, 0, FALSE) \in replacement.lines
             /\ line.root # 0 => \E root \in replacement.lines :
                                    root.post = line.root /\ root.room = line.room
       /\ run.steady => replacement.lines = snapshot

EndsInvariant == PurgeSound /\ ReceiptsSound
ExportInvariant == ExportTyped /\ RunSound /\ LinesSound /\ SteadySound /\ ReplacementSound

(* Where neither files nor the end of the workspace are exercised nothing   *)
(* of them happens.                                                         *)
TenancyAtRest ==
    /\ done = {} /\ purging = [c \in PurgeCalls |-> NoPurge] /\ told = {} /\ together = FALSE
    /\ run = NoRun /\ recorded = <<>> /\ collecting = [k \in Collectors |-> NoRequest]
    /\ copy = <<>> /\ snapshot = {} /\ doubled = {} /\ replacement = Nowhere
TenantApart == ~AsAWhole => StorageInit /\ TenancyAtRest

ClockRuns == clock \in Nat \ {0}

-----------------------------------------------------------------------------
(* Files. *)

(* What a step has to show when no file begins to count. *)
LEMMA InUseShrinks ==
    ASSUME StorageInvariant, InUse' \ overdue' \subseteq InUse \ overdue, peak' \in Nat, peak <= peak'
    PROVE  Cardinality(InUse' \ overdue') <= peak'
<1>1. /\ IsFiniteSet({f \in Files : files[f].state # "none"}) /\ peak \in Nat
      /\ Cardinality(InUse \ overdue) <= peak
  BY DEF StorageInvariant, StorageTyped
<1>2. InUse \ overdue \subseteq {f \in Files : files[f].state # "none"}
  BY DEF InUse, Uses
<1>3. IsFiniteSet(InUse \ overdue)
  BY <1>1, <1>2, FS_Subset
<1>4. /\ Cardinality(InUse' \ overdue') <= Cardinality(InUse \ overdue)
      /\ IsFiniteSet(InUse' \ overdue')
  BY <1>3, FS_Subset
<1>5. Cardinality(InUse' \ overdue') \in Nat /\ Cardinality(InUse \ overdue) \in Nat
  BY <1>3, <1>4, FS_CardinalityType
<1> QED BY <1>1, <1>4, <1>5

(* One file's row is replaced. *)
LEMMA RowReplaced ==
    ASSUME files \in [Files -> FileRow], NEW f \in Files, NEW row \in FileRow, files' = [files EXCEPT ![f] = row]
    PROVE  /\ files' \in [Files -> FileRow] /\ files'[f] = row
           /\ \A g \in Files \ {f} : files'[g] = files[g]
OBVIOUS

LEMMA FileTyped ==
    ASSUME StorageInvariant, NEW f \in Files
    PROVE  /\ files[f] \in FileRow /\ files[f].post \in Nat /\ files[f].expires \in Nat
           /\ files[f].state \in {"none", "reserved", "stored", "deleted"}
BY DEF StorageInvariant, StorageTyped, FileRow

(* A row that was given out stays finite with the others. *)
LEMMA RowsStayFinite ==
    ASSUME StorageInvariant, NEW f \in Files,
           \A g \in Files \ {f} : files'[g].state # "none" => files[g].state # "none"
    PROVE  IsFiniteSet({g \in Files : files'[g].state # "none"})
<1>1. IsFiniteSet({g \in Files : files[g].state # "none"} \cup {f})
  BY FS_AddElement DEF StorageInvariant, StorageTyped
<1>2. {g \in Files : files'[g].state # "none"} \subseteq {g \in Files : files[g].state # "none"} \cup {f}
  OBVIOUS
<1> QED BY <1>1, <1>2, FS_Subset

LEMMA WithinIs ==
    ASSUME NEW what, Within(what) \/ Free
    PROVE  clock' = clock /\ allowance' = allowance
BY DEF Within, Free, billingVars

LEMMA ReserveHolds ==
    ASSUME StorageInvariant, ClockRuns, deletion.started => deletion.on, AsAWhole, AsAWhole',
           allowance.quota \in Nat, UNCHANGED posts,
           NEW p \in People, NEW f \in Files, NEW r \in Rooms, ReserveUpload(p, f, r)
    PROVE  StorageInvariant'
<1>1. /\ Enters(p) /\ files[f].state = "none" /\ Cardinality(InUse) + 1 <= allowance.quota
      /\ UNCHANGED <<objects, transfers, sweep, deletion, blemished, stranded, overdue, peak>>
      /\ clock' = clock /\ allowance' = allowance
  BY WithinIs DEF ReserveUpload
<1>2. ~deletion.started
  BY <1>1 DEF Enters
<1>3. PICK row : row = [NoFile EXCEPT !.state = "reserved", !.by = p, !.room = r, !.expires = clock + Ttl]
  OBVIOUS
<1>4. /\ row \in FileRow /\ row.state = "reserved" /\ row.post = 0 /\ ~row.gone /\ row.expires > clock
  <2>1. row = [state |-> "reserved", by |-> p, room |-> r, post |-> 0, expires |-> clock + 1, gone |-> FALSE]
    BY <1>3 DEF NoFile, Ttl
  <2>2. clock + 1 \in Nat /\ clock + 1 > clock
    BY DEF ClockRuns
  <2>3. row \in FileRow
    BY <2>1, <2>2 DEF FileRow
  <2> QED BY <2>1, <2>2, <2>3
<1>5. files \in [Files -> FileRow]
  BY DEF StorageInvariant, StorageTyped
<1>6. files' = [files EXCEPT ![f] = row]
  BY <1>3 DEF ReserveUpload
<1>7. /\ files' \in [Files -> FileRow] /\ files'[f] = row /\ \A g \in Files \ {f} : files'[g] = files[g]
  BY <1>4, <1>5, <1>6
<1>8. \A u \in Transfers : ~Moving(u, f)
  BY <1>1, <1>2 DEF StorageInvariant, TransfersSound, TransferSound
<1>9. StorageTyped'
  <2>1. IsFiniteSet({g \in Files : files'[g].state # "none"})
    BY <1>7, RowsStayFinite
  <2> QED BY <1>1, <1>7, <2>1 DEF StorageInvariant, StorageTyped
<1>10. \A u \in Transfers, g \in Files : Moving(u, g)' <=> Moving(u, g)
  BY <1>1 DEF Moving
<1>11. TransfersSound'
  BY <1>1, <1>7, <1>8, <1>10 DEF StorageInvariant, TransfersSound, TransferSound, Alone
<1>12. ASSUME NEW g \in Files PROVE FileSound(g)' /\ HangsOn(g)'
  <2>1. FileSound(g) /\ HangsOn(g)
    BY DEF StorageInvariant, FilesSound
  <2>2. Posts' = Posts
    BY DEF Posts
  <2>3. CASE g = f
    BY <1>1, <1>2, <1>4, <1>7, <2>1, <2>3 DEF FileSound, HangsOn
  <2>4. CASE g # f
    <3>1. files'[g] = files[g]
      BY <1>7, <2>4
    <3>2. FileSound(g)'
      BY <1>1, <1>10, <2>1, <3>1 DEF FileSound
    <3>3. HangsOn(g)'
      BY <2>1, <2>2, <3>1 DEF HangsOn
    <3> QED BY <3>2, <3>3
  <2> QED BY <2>3, <2>4
<1>13. Cardinality(InUse' \ overdue') <= peak'
  <2>1. /\ IsFiniteSet(InUse)
    <3>1. InUse \subseteq {g \in Files : files[g].state # "none"}
      BY DEF InUse, Uses
    <3> QED BY <3>1, FS_Subset DEF StorageInvariant, StorageTyped
  <2>2. f \notin InUse
    BY <1>1 DEF InUse, Uses
  <2>3. InUse' = InUse \cup {f}
    <3>1. \A g \in Files \ {f} : Uses(g)' <=> Uses(g)
      BY <1>1, <1>7 DEF Uses
    <3>2. Uses(f)'
      BY <1>1, <1>4, <1>7 DEF Uses
    <3> QED BY <3>1, <3>2 DEF InUse
  <2>4. IsFiniteSet(InUse') /\ Cardinality(InUse') = Cardinality(InUse) + 1
    BY <2>1, <2>2, <2>3, FS_AddElement
  <2>5. Cardinality(InUse' \ overdue') <= Cardinality(InUse') /\ IsFiniteSet(InUse' \ overdue')
    BY <2>4, FS_Subset
  <2>6. Cardinality(InUse) \in Nat /\ Cardinality(InUse') \in Nat /\ Cardinality(InUse' \ overdue') \in Nat
    BY <2>1, <2>4, <2>5, FS_CardinalityType
  <2>7. allowance.quota <= peak /\ peak \in Nat /\ peak' = peak
    BY <1>1 DEF StorageInvariant, StorageTyped
  <2> QED BY <1>1, <2>4, <2>5, <2>6, <2>7
<1> QED BY <1>9, <1>11, <1>12, <1>13 DEF StorageInvariant, FilesSound

(* A step that moves no file. *)
LEMMA FilesStand ==
    ASSUME StorageInvariant, UNCHANGED <<files, overdue, peak, posts>>,
           clock' = clock, allowance' = allowance, AsAWhole' = AsAWhole,
           transfers' \in [Transfers -> TransferSet],
           \A u \in Transfers : transfers'[u].pc # "idle" => transfers'[u].file \in Files,
           sweep' \in [pc : {"idle", "deleting"}, keys : SUBSET Files], deletion' \in DeletionSet,
           TransfersSound', \A f \in Files : FileSound(f)'
    PROVE  StorageInvariant'
<1>1. StorageTyped'
  BY DEF StorageInvariant, StorageTyped
<1>2. Posts' = Posts
  BY DEF Posts
<1>3. \A f \in Files : HangsOn(f)'
  BY <1>2 DEF StorageInvariant, FilesSound, HangsOn
<1>4. InUse' \ overdue' \subseteq InUse \ overdue
  BY DEF InUse, Uses
<1>5. Cardinality(InUse' \ overdue') <= peak'
  BY <1>4, InUseShrinks DEF StorageInvariant, StorageTyped
<1> QED BY <1>1, <1>3, <1>5 DEF StorageInvariant, FilesSound

(* A transfer takes a step, and may end. *)
LEMMA TransferReplaced ==
    ASSUME StorageInvariant, NEW u \in Transfers, NEW x \in TransferSet, transfers' = [transfers EXCEPT ![u] = x],
           x.pc # "idle" => x.file \in Files
    PROVE  /\ transfers' \in [Transfers -> TransferSet] /\ transfers'[u] = x
           /\ \A v \in Transfers : transfers'[v].pc # "idle" => transfers'[v].file \in Files
           /\ \A v \in Transfers \ {u} : transfers'[v] = transfers[v]
BY DEF StorageInvariant, StorageTyped

LEMMA StartHolds ==
    ASSUME StorageInvariant, deletion.started => deletion.on, AsAWhole' = AsAWhole, UNCHANGED posts,
           NEW u \in Transfers, NEW p \in People, NEW f \in Files, StartTransfer(u, p, f)
    PROVE  StorageInvariant'
<1>1. /\ transfers[u].pc = "idle" /\ Enters(p) /\ files[f].state = "reserved"
      /\ UNCHANGED <<files, objects, sweep, deletion, stranded, overdue, peak>>
      /\ clock' = clock /\ allowance' = allowance
      /\ blemished \subseteq blemished'
      /\ (\E other \in Transfers : transfers[other].file = f) => f \in blemished'
  BY WithinIs DEF StartTransfer
<1>2. PICK x : x = [pc |-> "moving", file |-> f, by |-> p, at |-> 0]
  OBVIOUS
<1>3. x \in TransferSet /\ x.pc = "moving" /\ x.file = f
  BY <1>2 DEF TransferSet
<1>4. transfers' = [transfers EXCEPT ![u] = x]
  BY <1>2 DEF StartTransfer
<1>5. /\ transfers' \in [Transfers -> TransferSet] /\ transfers'[u] = x
      /\ \A v \in Transfers : transfers'[v].pc # "idle" => transfers'[v].file \in Files
      /\ \A v \in Transfers \ {u} : transfers'[v] = transfers[v]
  BY <1>3, <1>4, TransferReplaced
<1>6. \A g \in Files : Moving(u, g)' <=> g = f
  BY <1>3, <1>5 DEF Moving
<1>7. \A v \in Transfers \ {u}, g \in Files : Moving(v, g)' <=> Moving(v, g)
  BY <1>5 DEF Moving
<1>8. \A g \in Files : ~Moving(u, g)
  BY <1>1 DEF Moving
<1>9. Alone'
  <2> SUFFICES ASSUME NEW v \in Transfers, NEW w \in Transfers, NEW g \in Files, v # w, Moving(v, g)', Moving(w, g)'
               PROVE  g \in blemished'
    BY DEF Alone
  <2>1. CASE v # u /\ w # u
    BY <1>1, <1>7, <2>1 DEF StorageInvariant, TransfersSound, Alone
  <2>2. CASE v = u
    BY <1>1, <1>6, <1>7, <2>2 DEF Moving
  <2>3. CASE w = u
    BY <1>1, <1>6, <1>7, <2>3 DEF Moving
  <2> QED BY <2>1, <2>2, <2>3
<1>10. ASSUME NEW v \in Transfers, NEW g \in Files PROVE TransferSound(v, g)'
  <2>1. CASE v = u
    BY <1>1, <1>3, <1>5, <1>6, <2>1 DEF TransferSound
  <2>2. CASE v # u
    <3>1. TransferSound(v, g)
      BY DEF StorageInvariant, TransfersSound
    <3> QED BY <1>1, <1>5, <1>7, <2>2, <3>1 DEF TransferSound
  <2> QED BY <2>1, <2>2
<1>11. ASSUME NEW g \in Files PROVE FileSound(g)'
  <2>1. FileSound(g)
    BY DEF StorageInvariant, FilesSound
  <2>2. (\E v \in Transfers : Moving(v, g)) => \E v \in Transfers : Moving(v, g)'
    BY <1>7, <1>8
  <2> QED BY <1>1, <2>1, <2>2 DEF FileSound
<1>12. sweep' \in [pc : {"idle", "deleting"}, keys : SUBSET Files] /\ deletion' \in DeletionSet
  BY <1>1 DEF StorageInvariant, StorageTyped
<1> QED BY <1>1, <1>5, <1>9, <1>10, <1>11, <1>12, FilesStand DEF TransfersSound

LEMMA MovedHolds ==
    ASSUME StorageInvariant, ClockRuns, AsAWhole' = AsAWhole, UNCHANGED posts,
           NEW u \in Transfers, NEW fine \in BOOLEAN, Moved(u, fine)
    PROVE  StorageInvariant'
<1>1. /\ transfers[u].pc = "moving" /\ objects' = objects \cup {transfers[u].file}
      /\ UNCHANGED <<files, sweep, deletion, blemished, stranded, overdue, peak>>
      /\ clock' = clock /\ allowance' = allowance
  BY WithinIs DEF Moved
<1>2. transfers \in [Transfers -> TransferSet] /\ transfers[u].file \in Files
  BY <1>1 DEF StorageInvariant, StorageTyped
<1>3. PICK f \in Files : f = transfers[u].file
  BY <1>2
<1>4. PICK now \in {"confirming", "removing"} : now = IF fine THEN "confirming" ELSE "removing"
  OBVIOUS
<1>5. PICK x : x = [transfers[u] EXCEPT !.pc = now, !.at = clock]
  OBVIOUS
<1>6. x \in TransferSet /\ x.pc = now /\ x.file = f /\ x.pc # "idle"
  BY <1>2, <1>3, <1>5 DEF TransferSet, ClockRuns
<1>7. transfers' = [transfers EXCEPT ![u] = x]
  <2>1. transfers' = [transfers EXCEPT ![u].pc = IF fine THEN "confirming" ELSE "removing", ![u].at = clock]
    BY DEF Moved
  <2> QED BY <1>2, <1>4, <1>5, <2>1
<1>8. /\ transfers' \in [Transfers -> TransferSet] /\ transfers'[u] = x
      /\ \A v \in Transfers : transfers'[v].pc # "idle" => transfers'[v].file \in Files
      /\ \A v \in Transfers \ {u} : transfers'[v] = transfers[v]
  BY <1>6, <1>7, TransferReplaced
<1>9. \A v \in Transfers, g \in Files : Moving(v, g)' <=> Moving(v, g)
  BY <1>1, <1>3, <1>6, <1>8 DEF Moving
<1>10. ASSUME NEW v \in Transfers, NEW g \in Files PROVE TransferSound(v, g)'
  <2>1. TransferSound(v, g)
    BY DEF StorageInvariant, TransfersSound
  <2>2. CASE v = u
    BY <1>1, <1>3, <1>9, <2>1, <2>2 DEF TransferSound, Moving
  <2>3. CASE v # u
    BY <1>1, <1>8, <1>9, <2>1, <2>3 DEF TransferSound
  <2> QED BY <2>2, <2>3
<1>11. Alone'
  BY <1>1, <1>9 DEF StorageInvariant, TransfersSound, Alone
<1>12. ASSUME NEW g \in Files PROVE FileSound(g)'
  <2>1. FileSound(g)
    BY DEF StorageInvariant, FilesSound
  <2>2. g = f => \E v \in Transfers : Moving(v, g)'
    BY <1>6, <1>8 DEF Moving
  <2> QED BY <1>1, <1>3, <1>9, <2>1, <2>2 DEF FileSound
<1>13. sweep' \in [pc : {"idle", "deleting"}, keys : SUBSET Files] /\ deletion' \in DeletionSet
  BY <1>1 DEF StorageInvariant, StorageTyped
<1> QED BY <1>1, <1>8, <1>10, <1>11, <1>12, <1>13, FilesStand DEF TransfersSound

LEMMA IdleTransfer == NoTransfer \in TransferSet /\ NoTransfer.pc = "idle"
BY DEF NoTransfer, TransferSet

LEMMA RefusedHolds ==
    ASSUME StorageInvariant, AsAWhole' = AsAWhole, UNCHANGED posts,
           NEW u \in Transfers, RemoveRefused(u)
    PROVE  StorageInvariant'
<1>1. /\ transfers[u].pc = "removing" /\ objects' = objects \ {transfers[u].file}
      /\ transfers' = [transfers EXCEPT ![u] = NoTransfer]
      /\ UNCHANGED <<files, sweep, deletion, blemished, stranded, overdue, peak>>
      /\ clock' = clock /\ allowance' = allowance
  BY WithinIs DEF RemoveRefused
<1>2. PICK f \in Files : f = transfers[u].file
  BY <1>1 DEF StorageInvariant, StorageTyped
<1>3. /\ transfers' \in [Transfers -> TransferSet] /\ transfers'[u] = NoTransfer
      /\ \A v \in Transfers : transfers'[v].pc # "idle" => transfers'[v].file \in Files
      /\ \A v \in Transfers \ {u} : transfers'[v] = transfers[v]
  BY <1>1, IdleTransfer, TransferReplaced
<1>4. Moving(u, f) /\ \A g \in Files \ {f} : ~Moving(u, g)
  BY <1>1, <1>2 DEF Moving
<1>5. \A g \in Files : ~Moving(u, g)'
  BY <1>3, IdleTransfer DEF Moving
<1>6. \A v \in Transfers \ {u}, g \in Files : Moving(v, g)' <=> Moving(v, g)
  BY <1>3 DEF Moving
<1>7. Alone'
  BY <1>1, <1>5, <1>6 DEF StorageInvariant, TransfersSound, Alone
<1>8. \A v \in Transfers \ {u} : Moving(v, f) => f \in blemished
  BY <1>4 DEF StorageInvariant, TransfersSound, Alone
<1>9. ASSUME NEW v \in Transfers, NEW g \in Files PROVE TransferSound(v, g)'
  <2>1. TransferSound(v, g)
    BY DEF StorageInvariant, TransfersSound
  <2>2. CASE v = u
    BY <1>5, <2>2 DEF TransferSound
  <2>3. CASE v # u
    BY <1>1, <1>2, <1>3, <1>6, <1>8, <2>1, <2>3 DEF TransferSound
  <2> QED BY <2>2, <2>3
<1>10. ASSUME NEW g \in Files PROVE FileSound(g)'
  <2>1. FileSound(g)
    BY DEF StorageInvariant, FilesSound
  <2>2. files[f].state = "stored" => f \in blemished
    BY <1>4 DEF StorageInvariant, TransfersSound, TransferSound
  <2>3. g # f => ((\E v \in Transfers : Moving(v, g)) => \E v \in Transfers : Moving(v, g)')
    BY <1>4, <1>6
  <2> QED BY <1>1, <1>2, <2>1, <2>2, <2>3 DEF FileSound
<1>11. sweep' \in [pc : {"idle", "deleting"}, keys : SUBSET Files] /\ deletion' \in DeletionSet
  BY <1>1 DEF StorageInvariant, StorageTyped
<1> QED BY <1>1, <1>3, <1>7, <1>9, <1>10, <1>11, FilesStand DEF TransfersSound

LEMMA LoseTransferHolds ==
    ASSUME StorageInvariant, AsAWhole' = AsAWhole, UNCHANGED posts,
           NEW u \in Transfers, LoseTransfer(u)
    PROVE  StorageInvariant'
<1>1. /\ transfers[u].pc # "idle" /\ stranded' = stranded \cup {transfers[u].file}
      /\ transfers' = [transfers EXCEPT ![u] = NoTransfer]
      /\ UNCHANGED <<files, objects, sweep, deletion, blemished, overdue, peak>>
      /\ clock' = clock /\ allowance' = allowance
  BY WithinIs DEF LoseTransfer
<1>2. PICK f \in Files : f = transfers[u].file
  BY <1>1 DEF StorageInvariant, StorageTyped
<1>3. /\ transfers' \in [Transfers -> TransferSet] /\ transfers'[u] = NoTransfer
      /\ \A v \in Transfers : transfers'[v].pc # "idle" => transfers'[v].file \in Files
      /\ \A v \in Transfers \ {u} : transfers'[v] = transfers[v]
  BY <1>1, IdleTransfer, TransferReplaced
<1>4. \A g \in Files \ {f} : ~Moving(u, g)
  BY <1>1, <1>2 DEF Moving
<1>5. \A g \in Files : ~Moving(u, g)'
  BY <1>3, IdleTransfer DEF Moving
<1>6. \A v \in Transfers \ {u}, g \in Files : Moving(v, g)' <=> Moving(v, g)
  BY <1>3 DEF Moving
<1>7. Alone'
  BY <1>1, <1>5, <1>6 DEF StorageInvariant, TransfersSound, Alone
<1>8. ASSUME NEW v \in Transfers, NEW g \in Files PROVE TransferSound(v, g)'
  <2>1. TransferSound(v, g)
    BY DEF StorageInvariant, TransfersSound
  <2>2. CASE v = u
    BY <1>5, <2>2 DEF TransferSound
  <2>3. CASE v # u
    BY <1>1, <1>3, <1>6, <2>1, <2>3 DEF TransferSound
  <2> QED BY <2>2, <2>3
<1>9. ASSUME NEW g \in Files PROVE FileSound(g)'
  <2>1. FileSound(g)
    BY DEF StorageInvariant, FilesSound
  <2>2. g # f => ((\E v \in Transfers : Moving(v, g)) => \E v \in Transfers : Moving(v, g)')
    BY <1>4, <1>6
  <2> QED BY <1>1, <1>2, <2>1, <2>2 DEF FileSound
<1>10. sweep' \in [pc : {"idle", "deleting"}, keys : SUBSET Files] /\ deletion' \in DeletionSet
  BY <1>1 DEF StorageInvariant, StorageTyped
<1> QED BY <1>1, <1>3, <1>7, <1>8, <1>9, <1>10, FilesStand DEF TransfersSound

(* Of the files only rows change, and a file that counts counted before or  *)
(* was confirmed late.                                                      *)
LEMMA RowsMove ==
    ASSUME StorageInvariant, AsAWhole' = AsAWhole, UNCHANGED posts,
           clock' = clock, allowance' = allowance,
           UNCHANGED <<transfers, deletion, blemished, overdue, peak>>,
           files' \in [Files -> FileRow], sweep' \in [pc : {"idle", "deleting"}, keys : SUBSET Files],
           \A f \in Files : /\ files'[f].state \in {files[f].state, "deleted"}
                            /\ files[f].state = "none" => files'[f].state = "none"
                            /\ Uses(f)' => Uses(f)
                            /\ files'[f].state \in {"reserved", "stored"} /\ f \in objects => f \in objects'
                            /\ FileSound(f)' /\ HangsOn(f)'
    PROVE  StorageInvariant'
<1>1. StorageTyped'
  <2>1. {f \in Files : files'[f].state # "none"} \subseteq {f \in Files : files[f].state # "none"}
    OBVIOUS
  <2>2. IsFiniteSet({f \in Files : files'[f].state # "none"})
    BY <2>1, FS_Subset DEF StorageInvariant, StorageTyped
  <2> QED BY <2>2 DEF StorageInvariant, StorageTyped
<1>2. \A u \in Transfers, f \in Files : Moving(u, f)' <=> Moving(u, f)
  BY DEF Moving
<1>3. Alone'
  BY <1>2 DEF StorageInvariant, TransfersSound, Alone
<1>4. ASSUME NEW u \in Transfers, NEW f \in Files PROVE TransferSound(u, f)'
  <2>1. TransferSound(u, f)
    BY DEF StorageInvariant, TransfersSound
  <2>2. files[f].state \in {"none", "reserved", "stored", "deleted"}
    BY FileTyped
  <2> QED BY <1>2, <2>1, <2>2 DEF TransferSound
<1>5. Cardinality(InUse' \ overdue') <= peak'
  <2>1. InUse' \ overdue' \subseteq InUse \ overdue
    BY DEF InUse
  <2> QED BY <2>1, InUseShrinks DEF StorageInvariant, StorageTyped
<1> QED BY <1>1, <1>3, <1>4, <1>5 DEF StorageInvariant, TransfersSound, FilesSound

LEMMA AttachHolds ==
    ASSUME StorageInvariant, AsAWhole' = AsAWhole, UNCHANGED posts,
           NEW p \in People, NEW f \in Files, NEW m \in Posts, m \in Nat \ {0}, AttachFile(p, f, m)
    PROVE  StorageInvariant'
<1>1. /\ posts[m].author = p /\ files[f].state = "stored" /\ files[f].by = p
      /\ files[f].room = posts[m].room
      /\ files' = [files EXCEPT ![f].post = m]
      /\ UNCHANGED <<objects, transfers, sweep, deletion, blemished, stranded, overdue, peak>>
      /\ clock' = clock /\ allowance' = allowance
  BY WithinIs DEF AttachFile
<1>2. PICK row : row = [files[f] EXCEPT !.post = m]
  OBVIOUS
<1>3. files \in [Files -> FileRow]
  BY DEF StorageInvariant, StorageTyped
<1>4. /\ row \in FileRow /\ row.state = files[f].state /\ row.by = files[f].by /\ row.room = files[f].room
      /\ row.gone = files[f].gone /\ row.expires = files[f].expires /\ row.post = m
  BY <1>2, <1>3 DEF FileRow
<1>5. files' = [files EXCEPT ![f] = row]
  BY <1>1, <1>2, <1>3
<1>6. /\ files' \in [Files -> FileRow] /\ files'[f] = row /\ \A g \in Files \ {f} : files'[g] = files[g]
  BY <1>3, <1>4, <1>5, RowReplaced
<1>7. Posts' = Posts
  BY DEF Posts
<1>8. \A u \in Transfers, g \in Files : Moving(u, g)' <=> Moving(u, g)
  BY <1>1 DEF Moving
<1>9. ASSUME NEW g \in Files
      PROVE  /\ files'[g].state = files[g].state /\ files'[g].gone = files[g].gone
             /\ files'[g].expires = files[g].expires /\ (files[g].state = "none" => files'[g].post = files[g].post)
  BY <1>1, <1>4, <1>6
<1>10. ASSUME NEW g \in Files PROVE FileSound(g)'
  <2>1. FileSound(g)
    BY DEF StorageInvariant, FilesSound
  <2> QED BY <1>1, <1>8, <1>9, <2>1 DEF FileSound
<1>11. ASSUME NEW g \in Files PROVE HangsOn(g)'
  <2>1. HangsOn(g)
    BY DEF StorageInvariant, FilesSound
  <2> QED BY <1>1, <1>4, <1>6, <1>7, <2>1 DEF HangsOn
<1>12. \A g \in Files : Uses(g)' <=> Uses(g)
  BY <1>1, <1>9 DEF Uses
<1>13. sweep' \in [pc : {"idle", "deleting"}, keys : SUBSET Files]
  BY <1>1 DEF StorageInvariant, StorageTyped
<1> QED BY <1>1, <1>6, <1>9, <1>10, <1>11, <1>12, <1>13, RowsMove

(* A row that is marked as deleted, or as one whose object is gone.         *)
LEMMA DeletedRow ==
    ASSUME NEW row \in FileRow
    PROVE  /\ [row EXCEPT !.state = "deleted", !.expires = 0] \in FileRow
           /\ [row EXCEPT !.gone = TRUE] \in FileRow
BY DEF FileRow

LEMMA DeleteFileHolds ==
    ASSUME StorageInvariant, AsAWhole' = AsAWhole, UNCHANGED posts,
           NEW p \in People, NEW f \in Files, DeleteFile(p, f)
    PROVE  StorageInvariant'
<1>1. /\ files[f].state \in {"reserved", "stored"}
      /\ files' = [files EXCEPT ![f].state = "deleted", ![f].expires = 0]
      /\ UNCHANGED <<objects, transfers, sweep, deletion, blemished, stranded, overdue, peak>>
      /\ clock' = clock /\ allowance' = allowance
  BY WithinIs DEF DeleteFile
<1>2. PICK row : row = [files[f] EXCEPT !.state = "deleted", !.expires = 0]
  OBVIOUS
<1>3. files \in [Files -> FileRow]
  BY DEF StorageInvariant, StorageTyped
<1>4. /\ row \in FileRow /\ row.state = "deleted" /\ row.by = files[f].by /\ row.room = files[f].room
      /\ row.gone = files[f].gone /\ row.post = files[f].post
  <2>1. row \in FileRow
    BY <1>2, <1>3, DeletedRow
  <2> QED BY <1>2, <1>3, <2>1 DEF FileRow
<1>5. files' = [files EXCEPT ![f] = row]
  BY <1>1, <1>2, <1>3
<1>6. /\ files' \in [Files -> FileRow] /\ files'[f] = row /\ \A g \in Files \ {f} : files'[g] = files[g]
  BY <1>3, <1>4, <1>5, RowReplaced
<1>7. Posts' = Posts
  BY DEF Posts
<1>8. \A u \in Transfers, g \in Files : Moving(u, g)' <=> Moving(u, g)
  BY <1>1 DEF Moving
<1>9. ASSUME NEW g \in Files PROVE FileSound(g)'
  <2>1. FileSound(g)
    BY DEF StorageInvariant, FilesSound
  <2>2. CASE g = f
    BY <1>1, <1>4, <1>6, <2>1, <2>2 DEF FileSound
  <2>3. CASE g # f
    BY <1>1, <1>6, <1>8, <2>1, <2>3 DEF FileSound
  <2> QED BY <2>2, <2>3
<1>10. ASSUME NEW g \in Files PROVE HangsOn(g)'
  <2>1. HangsOn(g)
    BY DEF StorageInvariant, FilesSound
  <2> QED BY <1>4, <1>6, <1>7, <2>1 DEF HangsOn
<1>11. \A g \in Files : Uses(g)' => Uses(g)
  BY <1>1, <1>4, <1>6 DEF Uses
<1>12. sweep' \in [pc : {"idle", "deleting"}, keys : SUBSET Files]
  BY <1>1 DEF StorageInvariant, StorageTyped
<1>13. \A g \in Files : files'[g].state \in {files[g].state, "deleted"}
                        /\ (files[g].state = "none" => files'[g].state = "none")
  BY <1>1, <1>4, <1>6
<1> QED BY <1>1, <1>6, <1>9, <1>10, <1>11, <1>12, <1>13, RowsMove

LEMMA BeginReclaimHolds ==
    ASSUME StorageInvariant, ClockRuns, AsAWhole' = AsAWhole, UNCHANGED posts, BeginReclaim
    PROVE  StorageInvariant'
<1> DEFINE Left(f) == files[f].state = "reserved" /\ files[f].expires <= clock
           Swept(f) == IF Left(f) THEN [files[f] EXCEPT !.state = "deleted", !.expires = 0] ELSE files[f]
<1>1. /\ files' = [f \in Files |-> Swept(f)]
      /\ sweep' = [pc |-> "deleting", keys |-> {f \in Files : files'[f].state = "deleted" /\ ~files'[f].gone}]
      /\ UNCHANGED <<objects, transfers, deletion, blemished, stranded, overdue, peak>>
      /\ clock' = clock /\ allowance' = allowance
  <2>1. \A f \in Files : f \in {g \in Files : files[g].state = "reserved" /\ files[g].expires <= clock}
                         <=> Left(f)
    OBVIOUS
  <2>2. clock' = clock /\ allowance' = allowance
    BY WithinIs DEF BeginReclaim
  <2> QED BY <2>1, <2>2 DEF BeginReclaim
<1>2. ASSUME NEW f \in Files
      PROVE  /\ files'[f] \in FileRow /\ files'[f].post = files[f].post /\ files'[f].by = files[f].by
             /\ files'[f].room = files[f].room /\ files'[f].gone = files[f].gone
             /\ files'[f].state = IF Left(f) THEN "deleted" ELSE files[f].state
             /\ ~Left(f) => files'[f] = files[f]
  <2>1. PICK row \in FileRow : row = files[f]
    BY FileTyped
  <2>2. CASE Left(f)
    <3>1. files'[f] = [row EXCEPT !.state = "deleted", !.expires = 0]
      BY <1>1, <2>1, <2>2
    <3>2. files'[f] \in FileRow
      BY <3>1, DeletedRow
    <3> HIDE DEF Left, Swept
    <3> QED BY <2>1, <2>2, <3>1, <3>2 DEF FileRow
  <2>3. CASE ~Left(f)
    BY <1>1, <2>1, <2>3
  <2> QED BY <2>2, <2>3
<1>3. \A f \in Files : Left(f) => files[f].state = "reserved" /\ ~Uses(f)
  BY FileTyped DEF Uses, ClockRuns
<1> HIDE DEF Left, Swept
<1>4. files' \in [Files -> FileRow]
  BY <1>1, <1>2
<1>5. \A u \in Transfers, f \in Files : Moving(u, f)' <=> Moving(u, f)
  BY <1>1 DEF Moving
<1>6. sweep' \in [pc : {"idle", "deleting"}, keys : SUBSET Files]
  BY <1>1
<1>7. Posts' = Posts
  BY DEF Posts
<1>8. ASSUME NEW f \in Files PROVE FileSound(f)'
  <2>1. FileSound(f)
    BY DEF StorageInvariant, FilesSound
  <2>2. f \in sweep'.keys => files'[f].state = "deleted"
    BY <1>1
  <2>3. CASE Left(f)
    BY <1>1, <1>2, <1>3, <2>1, <2>2, <2>3 DEF FileSound
  <2>4. CASE ~Left(f)
    BY <1>1, <1>2, <1>5, <2>1, <2>2, <2>4 DEF FileSound
  <2> QED BY <2>3, <2>4
<1>9. ASSUME NEW f \in Files PROVE HangsOn(f)'
  <2>1. HangsOn(f)
    BY DEF StorageInvariant, FilesSound
  <2> QED BY <1>2, <1>7, <2>1 DEF HangsOn
<1>10. \A f \in Files : Uses(f)' => Uses(f)
  BY <1>1, <1>2 DEF Uses
<1>11. \A f \in Files : files'[f].state \in {files[f].state, "deleted"}
                        /\ (files[f].state = "none" => files'[f].state = "none")
  BY <1>2, <1>3
<1> QED BY <1>1, <1>4, <1>6, <1>8, <1>9, <1>10, <1>11, RowsMove

LEMMA EndReclaimHolds ==
    ASSUME StorageInvariant, AsAWhole' = AsAWhole, UNCHANGED posts,
           NEW went \in BOOLEAN, EndReclaim(went)
    PROVE  StorageInvariant'
<1> DEFINE Marked(f) == f \in sweep.keys /\ files[f].state # "none"
<1>1. /\ objects' = IF went THEN objects \ sweep.keys ELSE objects
      /\ stranded' = IF went THEN stranded ELSE stranded \cup sweep.keys
      /\ files' = [f \in Files |-> IF Marked(f) THEN [files[f] EXCEPT !.gone = TRUE] ELSE files[f]]
      /\ sweep' = NoSweep
      /\ UNCHANGED <<transfers, deletion, blemished, overdue, peak>>
      /\ clock' = clock /\ allowance' = allowance
  BY WithinIs DEF EndReclaim
<1>2. ASSUME NEW f \in Files
      PROVE  /\ files'[f] \in FileRow /\ files'[f].post = files[f].post /\ files'[f].by = files[f].by
             /\ files'[f].room = files[f].room /\ files'[f].state = files[f].state
             /\ files'[f].expires = files[f].expires
             /\ ~Marked(f) => files'[f] = files[f]
  <2>1. PICK row \in FileRow : row = files[f]
    BY FileTyped
  <2>2. CASE Marked(f)
    <3>1. files'[f] = [row EXCEPT !.gone = TRUE]
      BY <1>1, <2>1, <2>2
    <3>2. files'[f] \in FileRow
      BY <3>1, DeletedRow
    <3> HIDE DEF Marked
    <3> QED BY <2>1, <2>2, <3>1, <3>2 DEF FileRow
  <2>3. CASE ~Marked(f)
    BY <1>1, <2>1, <2>3
  <2> QED BY <2>2, <2>3
<1>3. \A f \in Files : f \in sweep.keys => files[f].state \in {"none", "deleted"}
  BY DEF StorageInvariant, FilesSound, FileSound
<1>4. \A f \in Files : Marked(f) => files[f].state = "deleted"
  BY <1>3
<1>5. \A f \in Files : f \in sweep.keys /\ f \in objects' \ stranded' => FALSE
  BY <1>1
<1>6. \A f \in Files : ~Marked(f) /\ f \in sweep.keys => files[f].state = "none"
  OBVIOUS
<1>7. files' \in [Files -> FileRow]
  BY <1>1, <1>2
<1> HIDE DEF Marked
<1>8. \A u \in Transfers, f \in Files : Moving(u, f)' <=> Moving(u, f)
  BY <1>1 DEF Moving
<1>9. sweep' \in [pc : {"idle", "deleting"}, keys : SUBSET Files] /\ sweep'.keys = {}
  BY <1>1 DEF NoSweep
<1>10. Posts' = Posts
  BY DEF Posts
<1>11. ASSUME NEW f \in Files PROVE FileSound(f)'
  <2>1. FileSound(f)
    BY DEF StorageInvariant, FilesSound
  <2>2. f \in objects' \ stranded' => f \in objects \ stranded /\ f \notin sweep.keys
    BY <1>1
  <2>3. f \in objects /\ f \notin sweep.keys => f \in objects'
    BY <1>1
  <2>4. Marked(f) => f \in sweep.keys
    BY DEF Marked
  <2>5. CASE Marked(f)
    BY <1>1, <1>2, <1>4, <1>9, <2>1, <2>2, <2>4, <2>5 DEF FileSound
  <2>6. CASE ~Marked(f)
    <3>1. files'[f] = files[f]
      BY <1>2, <2>6
    <3>2. files[f].state = "stored" => f \notin sweep.keys
      BY <1>3
    <3> QED BY <1>1, <1>8, <1>9, <2>1, <2>2, <2>3, <3>1, <3>2 DEF FileSound
  <2> QED BY <2>5, <2>6
<1>12. ASSUME NEW f \in Files PROVE HangsOn(f)'
  <2>1. HangsOn(f)
    BY DEF StorageInvariant, FilesSound
  <2> QED BY <1>2, <1>10, <2>1 DEF HangsOn
<1>13. \A f \in Files : Uses(f)' => Uses(f)
  BY <1>1, <1>2 DEF Uses
<1>14. \A f \in Files : files'[f].state \in {"reserved", "stored"} /\ f \in objects => f \in objects'
  BY <1>1, <1>2, <1>3
<1>15. \A f \in Files : files'[f].state = files[f].state
  BY <1>2
<1> QED BY <1>1, <1>7, <1>9, <1>11, <1>12, <1>13, <1>14, <1>15, RowsMove

LEMMA LoseReclaimHolds ==
    ASSUME StorageInvariant, AsAWhole' = AsAWhole, UNCHANGED posts,
           NEW went \in BOOLEAN, LoseReclaim(went)
    PROVE  StorageInvariant'
<1>1. /\ objects' = IF went THEN objects \ sweep.keys ELSE objects
      /\ sweep' = NoSweep
      /\ UNCHANGED <<files, transfers, deletion, blemished, stranded, overdue, peak>>
      /\ clock' = clock /\ allowance' = allowance
  BY WithinIs DEF LoseReclaim
<1>2. \A f \in Files : f \in sweep.keys => files[f].state \in {"none", "deleted"}
  BY DEF StorageInvariant, FilesSound, FileSound
<1>3. \A u \in Transfers, f \in Files : Moving(u, f)' <=> Moving(u, f)
  BY <1>1 DEF Moving
<1>4. sweep' \in [pc : {"idle", "deleting"}, keys : SUBSET Files] /\ sweep'.keys = {}
  BY <1>1 DEF NoSweep
<1>5. \A f \in Files : /\ f \in objects' => f \in objects
                       /\ files[f].state \in {"reserved", "stored"} /\ f \in objects => f \in objects'
  BY <1>1, <1>2
<1>6. ASSUME NEW f \in Files PROVE FileSound(f)' /\ HangsOn(f)'
  <2>1. FileSound(f) /\ HangsOn(f)
    BY DEF StorageInvariant, FilesSound
  <2>2. FileSound(f)'
    BY <1>1, <1>3, <1>4, <1>5, <2>1 DEF FileSound
  <2>3. HangsOn(f)'
    BY <1>1, <2>1 DEF HangsOn, Posts
  <2> QED BY <2>2, <2>3
<1>7. \A f \in Files : Uses(f)' <=> Uses(f)
  BY <1>1 DEF Uses
<1>8. files' \in [Files -> FileRow]
  BY <1>1 DEF StorageInvariant, StorageTyped
<1> QED BY <1>1, <1>4, <1>5, <1>6, <1>7, <1>8, RowsMove

LEMMA ConfirmHolds ==
    ASSUME StorageInvariant, AsAWhole' = AsAWhole, UNCHANGED posts,
           NEW u \in Transfers, NEW heard \in BOOLEAN, ConfirmUpload(u, heard)
    PROVE  StorageInvariant'
<1>1. PICK f \in Files : f = transfers[u].file
  BY DEF ConfirmUpload, StorageInvariant, StorageTyped
<1>2. PICK accepted \in BOOLEAN :
         accepted <=> /\ Enters(transfers[u].by)
                      /\ \/ files[f].state = "stored"
                         \/ files[f].state = "reserved" /\ files[f].expires > transfers[u].at
  OBVIOUS
<1>3. /\ transfers[u].pc = "confirming"
      /\ accepted => files[f].state \in {"stored", "reserved"}
      /\ files' = IF accepted THEN [files EXCEPT ![f].state = "stored", ![f].expires = 0] ELSE files
      /\ Answered(u, accepted /\ heard)
      /\ blemished' = IF heard THEN blemished ELSE blemished \cup {f}
      /\ overdue' = IF accepted /\ ~Uses(f) THEN overdue \cup {f} ELSE overdue
      /\ UNCHANGED <<objects, sweep, deletion, stranded, peak>>
      /\ clock' = clock /\ allowance' = allowance
  <2>1. /\ transfers[u].pc = "confirming"
        /\ files' = IF accepted THEN [files EXCEPT ![f].state = "stored", ![f].expires = 0] ELSE files
        /\ Answered(u, accepted /\ heard)
        /\ blemished' = IF heard THEN blemished ELSE blemished \cup {f}
        /\ overdue' = IF accepted /\ ~Uses(f) THEN overdue \cup {f} ELSE overdue
        /\ UNCHANGED <<objects, sweep, deletion, stranded, peak>>
        /\ IF heard THEN Free ELSE Within("faults")
    BY <1>1, <1>2 DEF ConfirmUpload
  <2>2. accepted => files[f].state \in {"stored", "reserved"}
    BY <1>2
  <2> QED BY <2>1, <2>2, WithinIs
<1>4. files \in [Files -> FileRow] /\ transfers \in [Transfers -> TransferSet]
  BY DEF StorageInvariant, StorageTyped
<1>5. PICK row : row = IF accepted THEN [files[f] EXCEPT !.state = "stored", !.expires = 0] ELSE files[f]
  OBVIOUS
<1>6. /\ row \in FileRow /\ row.by = files[f].by /\ row.room = files[f].room
      /\ row.gone = files[f].gone /\ row.post = files[f].post
      /\ row.state = IF accepted THEN "stored" ELSE files[f].state
      /\ ~accepted => row = files[f]
  <2>1. PICK old \in FileRow : old = files[f]
    BY <1>4
  <2>2. CASE accepted
    <3>1. row = [old EXCEPT !.state = "stored", !.expires = 0]
      BY <1>5, <2>1, <2>2
    <3> QED BY <2>1, <2>2, <3>1 DEF FileRow
  <2>3. CASE ~accepted
    BY <1>5, <2>1, <2>3
  <2> QED BY <2>2, <2>3
<1>7. files' = [files EXCEPT ![f] = row]
  <2>1. CASE accepted
    BY <1>3, <1>4, <1>5, <2>1
  <2>2. CASE ~accepted
    BY <1>3, <1>4, <1>5, <2>2
  <2> QED BY <2>1, <2>2
<1>8. /\ files' \in [Files -> FileRow] /\ files'[f] = row /\ \A g \in Files \ {f} : files'[g] = files[g]
  BY <1>4, <1>6, <1>7, RowReplaced
<1>9. PICK x : x = IF accepted /\ heard THEN NoTransfer ELSE [transfers[u] EXCEPT !.pc = "removing"]
  OBVIOUS
<1>10. /\ x \in TransferSet /\ (accepted /\ heard => x.pc = "idle")
       /\ ~(accepted /\ heard) => x.pc = "removing" /\ x.file = f
  <2>1. PICK old \in TransferSet : old = transfers[u]
    BY <1>4
  <2>2. CASE accepted /\ heard
    BY <1>9, <2>2, IdleTransfer
  <2>3. CASE ~(accepted /\ heard)
    <3>1. x = [old EXCEPT !.pc = "removing"]
      BY <1>9, <2>1, <2>3
    <3> QED BY <1>1, <2>1, <2>3, <3>1 DEF TransferSet
  <2> QED BY <2>2, <2>3
<1>11. transfers' = [transfers EXCEPT ![u] = x]
  <2>1. CASE accepted /\ heard
    BY <1>3, <1>9, <2>1 DEF Answered
  <2>2. CASE ~(accepted /\ heard)
    BY <1>3, <1>4, <1>9, <2>2 DEF Answered
  <2> QED BY <2>1, <2>2
<1>12. /\ transfers' \in [Transfers -> TransferSet] /\ transfers'[u] = x
       /\ \A v \in Transfers : transfers'[v].pc # "idle" => transfers'[v].file \in Files
       /\ \A v \in Transfers \ {u} : transfers'[v] = transfers[v]
  BY <1>10, <1>11, TransferReplaced
<1>13. Moving(u, f) /\ \A g \in Files \ {f} : ~Moving(u, g)
  BY <1>1, <1>3 DEF Moving
<1>14. /\ Moving(u, f)' <=> ~(accepted /\ heard)
       /\ \A g \in Files \ {f} : ~Moving(u, g)'
  BY <1>10, <1>12 DEF Moving
<1>15. \A v \in Transfers \ {u}, g \in Files : Moving(v, g)' <=> Moving(v, g)
  BY <1>12 DEF Moving
<1>16. blemished \subseteq blemished' /\ (~heard => f \in blemished') /\ overdue \subseteq overdue'
  BY <1>3
<1>17. \A v \in Transfers \ {u} : Moving(v, f) => f \in blemished
  BY <1>13 DEF StorageInvariant, TransfersSound, Alone
<1>18. Alone'
  BY <1>13, <1>14, <1>15, <1>16 DEF StorageInvariant, TransfersSound, Alone
<1>19. TransferSound(u, f) /\ FileSound(f) /\ HangsOn(f)
  BY DEF StorageInvariant, TransfersSound, FilesSound
<1>20. ASSUME NEW v \in Transfers, NEW g \in Files PROVE TransferSound(v, g)'
  <2>1. TransferSound(v, g)
    BY DEF StorageInvariant, TransfersSound
  <2>2. CASE v = u /\ g # f
    BY <1>14, <2>2 DEF TransferSound
  <2>3. CASE v = u /\ g = f /\ Moving(u, f)'
    <3>1. files'[f].state = "stored" => f \in blemished'
      BY <1>6, <1>8, <1>13, <1>14, <1>16, <1>19, <2>3 DEF TransferSound
    <3>2. files'[f].state = "none" => deletion'.started
      BY <1>3, <1>6, <1>8, <1>13, <1>19 DEF TransferSound
    <3>3. transfers'[u].pc # "confirming"
      BY <1>10, <1>12, <1>14, <2>3
    <3> QED BY <2>3, <3>1, <3>2, <3>3 DEF TransferSound
  <2>4. CASE v # u /\ g = f
    <3>1. transfers'[v] = transfers[v] /\ (Moving(v, f)' <=> Moving(v, f))
      BY <1>12, <1>15, <2>4
    <3>2. Moving(v, f) => f \in blemished'
      BY <1>16, <1>17, <2>4
    <3>3. files'[f].state = "none" => files[f].state = "none"
      BY <1>6, <1>8
    <3> QED BY <1>3, <2>1, <2>4, <3>1, <3>2, <3>3 DEF TransferSound
  <2>5. CASE v # u /\ g # f
    BY <1>3, <1>8, <1>12, <1>15, <1>16, <2>1, <2>5 DEF TransferSound
  <2> QED BY <2>2, <2>3, <2>4, <2>5 DEF TransferSound
<1>21. ASSUME NEW g \in Files PROVE FileSound(g)'
  <2>1. FileSound(g)
    BY DEF StorageInvariant, FilesSound
  <2>2. CASE g = f /\ accepted
    <3>1. files'[f].state = "stored" /\ files'[f].gone = files[f].gone
      BY <1>6, <1>8, <2>2
    <3>2. ~files[f].gone /\ f \notin sweep.keys /\ (~deletion.started => f \in objects \cup blemished)
      BY <1>3, <1>13, <1>19, <2>2 DEF TransferSound, FileSound
    <3> QED BY <1>3, <1>16, <2>2, <3>1, <3>2 DEF FileSound
  <2>3. CASE g = f /\ ~accepted
    <3>1. Moving(u, f)' /\ files'[f] = files[f]
      BY <1>6, <1>8, <1>14, <2>3
    <3> QED BY <1>3, <1>16, <2>1, <2>3, <3>1 DEF FileSound
  <2>4. CASE g # f
    <3>1. (\E v \in Transfers : Moving(v, g)) => \E v \in Transfers : Moving(v, g)'
      BY <1>13, <1>15, <2>4
    <3> QED BY <1>3, <1>8, <1>16, <2>1, <2>4, <3>1 DEF FileSound
  <2> QED BY <2>2, <2>3, <2>4
<1>22. ASSUME NEW g \in Files PROVE HangsOn(g)'
  <2>1. HangsOn(g)
    BY DEF StorageInvariant, FilesSound
  <2>2. Posts' = Posts
    BY DEF Posts
  <2> QED BY <1>6, <1>8, <2>1, <2>2 DEF HangsOn
<1>23. StorageTyped'
  <2>1. \A g \in Files : files'[g].state # "none" => files[g].state # "none"
    BY <1>3, <1>6, <1>8
  <2>2. IsFiniteSet({g \in Files : files'[g].state # "none"})
    BY <2>1, RowsStayFinite
  <2> QED BY <1>3, <1>8, <1>12, <2>2 DEF StorageInvariant, StorageTyped
<1>24. Cardinality(InUse' \ overdue') <= peak'
  <2>1. ASSUME NEW g \in InUse' \ overdue' PROVE g \in InUse \ overdue
    <3>1. g \in Files /\ Uses(g)' /\ g \notin overdue
      BY <1>16, <2>1 DEF InUse
    <3>2. CASE g = f
      <4>1. CASE accepted
        BY <1>3, <2>1, <3>1, <3>2, <4>1 DEF InUse
      <4>2. CASE ~accepted
        BY <1>3, <1>6, <1>8, <3>1, <3>2, <4>2 DEF Uses, InUse
      <4> QED BY <4>1, <4>2
    <3>3. CASE g # f
      BY <1>3, <1>8, <3>1, <3>3 DEF Uses, InUse
    <3> QED BY <3>2, <3>3
  <2> QED BY <1>3, <2>1, InUseShrinks DEF StorageInvariant, StorageTyped
<1> QED BY <1>18, <1>20, <1>21, <1>22, <1>23, <1>24 DEF StorageInvariant, TransfersSound, FilesSound

(* The allowance and the clock move, and the largest allowance is kept.     *)
LEMMA FundingHolds ==
    ASSUME StorageInvariant, clock \in Nat, clock' \in Nat, clock <= clock', allowance'.quota \in Nat,
           AsAWhole' = AsAWhole, UNCHANGED posts, peak' = MaxOf(peak, allowance'.quota),
           UNCHANGED <<files, objects, transfers, sweep, deletion, blemished, stranded, overdue>>
    PROVE  StorageInvariant'
<1>1. peak \in Nat /\ peak' \in Nat /\ peak <= peak' /\ allowance'.quota <= peak'
  <2>1. peak \in Nat
    BY DEF StorageInvariant, StorageTyped
  <2> QED BY <2>1 DEF MaxOf
<1>2. StorageTyped'
  BY <1>1 DEF StorageInvariant, StorageTyped
<1>3. TransfersSound'
  BY DEF StorageInvariant, TransfersSound, Alone, TransferSound, Moving
<1>4. ASSUME NEW f \in Files PROVE FileSound(f)' /\ HangsOn(f)'
  BY DEF StorageInvariant, FilesSound, FileSound, HangsOn, Moving, Posts
<1>5. \A f \in Files : Uses(f)' => Uses(f)
  BY FileTyped DEF Uses
<1>6. InUse' \ overdue' \subseteq InUse \ overdue
  BY <1>5 DEF InUse
<1>7. Cardinality(InUse' \ overdue') <= peak'
  BY <1>1, <1>6, InUseShrinks
<1> QED BY <1>2, <1>3, <1>4, <1>7 DEF StorageInvariant, FilesSound

(* A step that is not about files, while messages stay where they are. *)
LEMMA FilesAreLeft ==
    ASSUME StorageInvariant, UNCHANGED storageVars, clock' = clock, allowance' = allowance,
           AsAWhole' = AsAWhole, PostsGrow
    PROVE  StorageInvariant'
<1>1. UNCHANGED <<files, objects, transfers, sweep, deletion, blemished, stranded, overdue, peak>>
  BY DEF storageVars
<1>2. StorageTyped'
  BY <1>1 DEF StorageInvariant, StorageTyped
<1>3. TransfersSound'
  BY <1>1 DEF StorageInvariant, TransfersSound, Alone, TransferSound, Moving
<1>4. ASSUME NEW f \in Files PROVE FileSound(f)' /\ HangsOn(f)'
  <2>1. FileSound(f) /\ HangsOn(f)
    BY DEF StorageInvariant, FilesSound
  <2>2. FileSound(f)'
    BY <1>1, <2>1 DEF FileSound, Moving
  <2>3. HangsOn(f)'
    BY <1>1, <2>1 DEF HangsOn, PostsGrow
  <2> QED BY <2>2, <2>3
<1>5. InUse' \ overdue' \subseteq InUse \ overdue
  BY <1>1 DEF InUse, Uses
<1>6. Cardinality(InUse' \ overdue') <= peak'
  BY <1>1, <1>5, InUseShrinks DEF StorageInvariant, StorageTyped
<1> QED BY <1>2, <1>3, <1>4, <1>6 DEF StorageInvariant, FilesSound

LEMMA NoFileIn == /\ NoFile \in FileRow /\ NoFile.state = "none" /\ NoFile.post = 0
                  /\ ~NoFile.gone /\ NoFile.expires = 0
BY DEF NoFile, FileRow

LEMMA StorageStart ==
    ASSUME StorageInit, AsAWhole => allowance.quota = 0
    PROVE  StorageInvariant
<1>1. /\ \A f \in Files : files[f] = NoFile
      /\ files \in [Files -> FileRow]
      /\ transfers \in [Transfers -> TransferSet] /\ \A u \in Transfers : transfers[u].pc = "idle"
      /\ sweep = NoSweep /\ deletion = NoDeletion /\ objects = {} /\ peak = 0 /\ overdue = {}
  BY NoFileIn, IdleTransfer DEF StorageInit
<1>2. {f \in Files : files[f].state # "none"} = {} /\ InUse \ overdue = {}
  BY <1>1, NoFileIn DEF InUse, Uses
<1>3. StorageTyped
  <2>1. sweep \in [pc : {"idle", "deleting"}, keys : SUBSET Files] /\ deletion \in DeletionSet
    BY <1>1 DEF NoSweep, NoDeletion, DeletionSet
  <2>2. IsFiniteSet({f \in Files : files[f].state # "none"})
    BY <1>2, FS_EmptySet
  <2>3. peak \in Nat /\ (AsAWhole => allowance.quota <= peak)
    BY <1>1
  <2> QED BY <1>1, <2>1, <2>2, <2>3 DEF StorageTyped
<1>4. TransfersSound
  BY <1>1 DEF TransfersSound, Alone, TransferSound, Moving
<1>5. FilesSound
  BY <1>1, NoFileIn DEF FilesSound, FileSound, HangsOn, NoSweep
<1> QED BY <1>1, <1>2, <1>3, <1>4, <1>5, FS_EmptySet DEF StorageInvariant

-----------------------------------------------------------------------------
(* The purge. *)

(* A stage is chosen when those before it are done. *)
LEMMA NextStageIs ==
    /\ NextStage \in StageSet \cup {"none"}
    /\ "attachments" \notin done => NextStage = "attachments"
    /\ NextStage = "attachments" => "attachments" \notin done
    /\ NextStage = "content" => "attachments" \in done
    /\ NextStage \in {"routing", "none"} => Purged
<1>1. /\ DOMAIN Stages = 1 .. 7 /\ Stages[1] = "attachments" /\ Stages[2] = "content" /\ Stages[3] = "vault"
      /\ Stages[4] = "audit" /\ Stages[5] = "scheduler" /\ Stages[6] = "control_rows" /\ Stages[7] = "routing"
  BY DEF Stages
<1>2. CASE Undone = {}
  <2>1. \A k \in 1 .. 7 : Stages[k] \in done
    BY <1>1, <1>2 DEF Undone
  <2>2. "attachments" \in done /\ "content" \in done /\ "scheduler" \in done
    BY <1>1, <2>1
  <2> QED BY <1>2, <2>2 DEF NextStage, Purged
<1>3. CASE Undone # {}
  <2>1. Undone \in SUBSET Nat
    BY <1>1 DEF Undone
  <2>2. \E k \in Undone : \A o \in Undone : k <= o
    BY <1>3, <2>1, LeastOf
  <2>3. PICK k \in Undone : NextStage = Stages[k] /\ \A o \in Undone : k <= o
    BY <1>3, <2>2 DEF NextStage
  <2>4. k \in 1 .. 7 /\ Stages[k] \notin done /\ \A o \in 1 .. 7 : o < k => Stages[o] \in done
    BY <1>1, <2>1, <2>3 DEF Undone
  <2>5. k = 1 \/ k = 2 \/ k = 3 \/ k = 4 \/ k = 5 \/ k = 6 \/ k = 7
    BY <2>4
  <2>6. CASE k = 1
    BY <1>1, <2>3, <2>4, <2>6 DEF StageSet
  <2>7. CASE k # 1
    <3>1. Stages[1] \in done
      BY <2>4, <2>7
    <3>2. k = 7 => Stages[2] \in done /\ Stages[5] \in done
      BY <2>4
    <3>3. NextStage \in StageSet \ {"attachments"} /\ (NextStage = "routing" => k = 7) /\ NextStage # "none"
      BY <1>1, <2>3, <2>5, <2>7 DEF StageSet
    <3> QED BY <1>1, <3>1, <3>2, <3>3 DEF Purged
  <2> QED BY <2>6, <2>7
<1> QED BY <1>2, <1>3

(* The deletion moves, and objects may go once its purge has begun. *)
LEMMA DeletionFrame ==
    ASSUME StorageInvariant, UNCHANGED <<files, stranded, transfers, sweep, blemished, overdue, peak>>,
           clock' = clock, allowance' = allowance, AsAWhole' = AsAWhole, deletion' \in DeletionSet,
           deletion.started => deletion'.started, objects' \subseteq objects,
           objects' = objects \/ deletion'.started, \A f \in Files : HangsOn(f)'
    PROVE  StorageInvariant'
<1>1. StorageTyped'
  BY DEF StorageInvariant, StorageTyped
<1>2. \A u \in Transfers, f \in Files : Moving(u, f)' <=> Moving(u, f)
  BY DEF Moving
<1>3. Alone'
  BY <1>2 DEF StorageInvariant, TransfersSound, Alone
<1>4. ASSUME NEW u \in Transfers, NEW f \in Files PROVE TransferSound(u, f)'
  <2>1. TransferSound(u, f)
    BY DEF StorageInvariant, TransfersSound
  <2> QED BY <1>2, <2>1 DEF TransferSound
<1>5. ASSUME NEW f \in Files PROVE FileSound(f)'
  <2>1. FileSound(f)
    BY DEF StorageInvariant, FilesSound
  <2> QED BY <1>2, <2>1 DEF FileSound
<1>6. InUse' \ overdue' \subseteq InUse \ overdue
  BY DEF InUse, Uses
<1>7. Cardinality(InUse' \ overdue') <= peak'
  BY <1>6, InUseShrinks DEF StorageInvariant, StorageTyped
<1> QED BY <1>1, <1>3, <1>4, <1>5, <1>7 DEF StorageInvariant, TransfersSound, FilesSound

LEMMA HangsStill ==
    ASSUME StorageInvariant, UNCHANGED <<files, posts>>
    PROVE  \A f \in Files : HangsOn(f)'
BY DEF StorageInvariant, FilesSound, HangsOn, Posts

LEMMA DeletionTyped ==
    ASSUME StorageInvariant
    PROVE  /\ deletion \in DeletionSet /\ deletion.on \in BOOLEAN /\ deletion.started \in BOOLEAN
           /\ deletion.receipt \in Nat /\ NoDeletion \in DeletionSet
BY DEF StorageInvariant, StorageTyped, DeletionSet, NoDeletion

LEMMA RequestHolds ==
    ASSUME StorageInvariant, EndsInvariant, ClockRuns, AsAWhole' = AsAWhole,
           NEW p \in People, RequestWorkspaceDeletion(p)
    PROVE  StorageInvariant' /\ EndsInvariant'
<1>1. /\ ~deletion.on /\ clock' = clock /\ allowance' = allowance
      /\ deletion' = [on |-> TRUE, after |-> clock + 1, started |-> FALSE, receipt |-> 0]
      /\ asIs' = content /\ FilesAside /\ UNCHANGED <<files, objects, stranded>> /\ UNCHANGED roomVars
      /\ UNCHANGED <<done, purging, told, together>> /\ UNCHANGED exportVars
  BY WithinIs DEF RequestWorkspaceDeletion, Owner, Enters, RowsStay, Window
<1>2. /\ deletion' \in DeletionSet /\ deletion'.on /\ ~deletion'.started /\ deletion'.receipt = 0
  <2>1. clock + 1 \in Nat
    BY DEF ClockRuns
  <2> QED BY <1>1, <2>1 DEF DeletionSet
<1>3. /\ UNCHANGED <<transfers, sweep, blemished, overdue, peak>> /\ UNCHANGED <<rooms, inRoom, posts, notices>>
      /\ content' = content /\ UNCHANGED <<recorded, run>>
  BY <1>1 DEF FilesAside, roomVars, content, notified, exportVars
<1>4. ~deletion.started
  BY <1>1 DEF EndsInvariant, PurgeSound
<1>5. StorageInvariant'
  BY <1>1, <1>2, <1>3, <1>4, HangsStill, DeletionFrame
<1>6. done = {} /\ \A c \in PurgeCalls : purging[c].pc = "idle"
  BY <1>4 DEF EndsInvariant, PurgeSound
<1>7. PurgeSound'
  <2>1. done' \subseteq StageSet /\ purging' \in [PurgeCalls -> PurgeSet]
    BY <1>1 DEF EndsInvariant, PurgeSound
  <2> QED BY <1>1, <1>2, <1>3, <1>6, <2>1 DEF PurgeSound
<1>8. ReceiptsSound'
  <2>1. deletion.receipt = 0
    BY <1>4 DEF EndsInvariant, PurgeSound
  <2>2. told = {} /\ together \in BOOLEAN
    BY <2>1 DEF EndsInvariant, ReceiptsSound
  <2> QED BY <1>1, <1>2, <1>6, <2>2 DEF ReceiptsSound
<1> QED BY <1>5, <1>7, <1>8 DEF EndsInvariant

LEMMA CancelHolds ==
    ASSUME StorageInvariant, EndsInvariant, ClockRuns, AsAWhole' = AsAWhole,
           NEW p \in People, CancelWorkspaceDeletion(p)
    PROVE  StorageInvariant' /\ EndsInvariant'
<1>1. /\ ~deletion.started /\ clock' = clock /\ allowance' = allowance /\ deletion' = NoDeletion
      /\ FilesAside /\ UNCHANGED <<files, objects, stranded>> /\ UNCHANGED roomVars
      /\ UNCHANGED <<done, purging, asIs, told, together>> /\ UNCHANGED exportVars
  BY WithinIs DEF CancelWorkspaceDeletion, RowsStay, tenancyVars, purgeVars
<1>2. deletion' \in DeletionSet /\ ~deletion'.on /\ ~deletion'.started /\ deletion'.receipt = 0
  BY <1>1, DeletionTyped DEF NoDeletion
<1>3. /\ UNCHANGED <<transfers, sweep, blemished, overdue, peak>> /\ UNCHANGED <<rooms, inRoom, posts, notices>>
      /\ UNCHANGED <<recorded, run>>
  BY <1>1 DEF FilesAside, roomVars, content, notified, exportVars
<1>4. StorageInvariant'
  BY <1>1, <1>2, <1>3, HangsStill, DeletionFrame
<1>5. done = {} /\ (\A c \in PurgeCalls : purging[c].pc = "idle") /\ deletion.receipt = 0
  BY <1>1 DEF EndsInvariant, PurgeSound
<1>6. PurgeSound'
  <2>1. done' \subseteq StageSet /\ purging' \in [PurgeCalls -> PurgeSet]
    BY <1>1 DEF EndsInvariant, PurgeSound
  <2> QED BY <1>1, <1>2, <1>3, <1>5, <2>1 DEF PurgeSound
<1>7. ReceiptsSound'
  <2>1. told = {} /\ together \in BOOLEAN
    BY <1>5 DEF EndsInvariant, ReceiptsSound
  <2> QED BY <1>1, <1>2, <1>5, <2>1 DEF ReceiptsSound
<1> QED BY <1>4, <1>6, <1>7 DEF EndsInvariant

LEMMA PurgeTyped ==
    ASSUME EndsInvariant, NEW c \in PurgeCalls
    PROVE  /\ purging \in [PurgeCalls -> PurgeSet] /\ purging[c] \in PurgeSet /\ purging[c].at \in Nat
           /\ purging[c].pc \in {"idle", "deleting", "sealing"} /\ purging[c].keys \subseteq Files
           /\ purging[c].pc # "idle" => deletion.started /\ deletion.on /\ purging[c].at # 0
           /\ NoPurge \in PurgeSet /\ NoPurge.pc = "idle"
<1>1. /\ purging \in [PurgeCalls -> PurgeSet] /\ (deletion.started => deletion.on)
      /\ purging[c].pc # "idle" => purging[c].at # 0
      /\ ~deletion.started => purging[c].pc = "idle"
  BY DEF EndsInvariant, PurgeSound
<1>2. purging[c] \in PurgeSet
  BY <1>1
<1>3. NoPurge \in PurgeSet /\ NoPurge.pc = "idle"
  BY DEF NoPurge, PurgeSet
<1> QED BY <1>1, <1>2, <1>3 DEF PurgeSet

(* One call of the purge takes a step. *)
LEMMA PurgeReplaced ==
    ASSUME EndsInvariant, NEW c \in PurgeCalls, NEW x \in PurgeSet, purging' = [purging EXCEPT ![c] = x]
    PROVE  /\ purging' \in [PurgeCalls -> PurgeSet] /\ purging'[c] = x
           /\ \A o \in PurgeCalls \ {c} : purging'[o] = purging[o]
BY DEF EndsInvariant, PurgeSound

LEMMA ReadHolds ==
    ASSUME StorageInvariant, EndsInvariant, AsAWhole' = AsAWhole, ReadReceipt
    PROVE  StorageInvariant' /\ EndsInvariant'
<1>1. /\ deletion.receipt # 0 /\ told' = told \cup {deletion.receipt}
      /\ clock' = clock /\ allowance' = allowance
      /\ FilesAside /\ UNCHANGED <<files, objects, stranded>> /\ UNCHANGED roomVars
      /\ UNCHANGED <<deletion, done, purging, asIs, together>> /\ UNCHANGED exportVars
  BY WithinIs DEF ReadReceipt, RowsStay
<1>2. /\ UNCHANGED <<transfers, sweep, blemished, overdue, peak>> /\ UNCHANGED <<rooms, inRoom, posts, notices>>
      /\ content' = content /\ UNCHANGED <<recorded, run>>
  BY <1>1 DEF FilesAside, roomVars, content, notified, exportVars
<1>3. StorageInvariant'
  BY <1>1, <1>2, DeletionTyped, HangsStill, DeletionFrame
<1>4. PurgeSound'
  BY <1>1, <1>2 DEF EndsInvariant, PurgeSound, Purged, Bare
<1>5. ReceiptsSound'
  BY <1>1 DEF EndsInvariant, ReceiptsSound
<1> QED BY <1>3, <1>4, <1>5 DEF EndsInvariant

LEMMA LosePurgeHolds ==
    ASSUME StorageInvariant, EndsInvariant, AsAWhole' = AsAWhole,
           NEW c \in PurgeCalls, NEW went \in BOOLEAN, LosePurge(c, went)
    PROVE  StorageInvariant' /\ EndsInvariant'
<1>1. /\ purging[c].pc # "idle" /\ objects' \subseteq objects /\ purging' = [purging EXCEPT ![c] = NoPurge]
      /\ clock' = clock /\ allowance' = allowance
      /\ FilesAside /\ UNCHANGED <<files, stranded>> /\ UNCHANGED roomVars
      /\ UNCHANGED <<deletion, done, asIs, told, together>> /\ UNCHANGED exportVars
  BY WithinIs DEF LosePurge
<1>2. /\ UNCHANGED <<transfers, sweep, blemished, overdue, peak>> /\ UNCHANGED <<rooms, inRoom, posts, notices>>
      /\ content' = content /\ UNCHANGED <<recorded, run>>
  BY <1>1 DEF FilesAside, roomVars, content, notified, exportVars
<1>3. deletion.started /\ NoPurge \in PurgeSet /\ NoPurge.pc = "idle"
  BY <1>1, PurgeTyped
<1>4. /\ purging' \in [PurgeCalls -> PurgeSet] /\ purging'[c].pc = "idle"
      /\ \A o \in PurgeCalls \ {c} : purging'[o] = purging[o]
  BY <1>1, <1>3, PurgeReplaced
<1>5. StorageInvariant'
  BY <1>1, <1>2, <1>3, DeletionTyped, HangsStill, DeletionFrame
<1>6. PurgeSound'
  <2>1. ASSUME NEW o \in PurgeCalls
        PROVE  /\ purging'[o].pc = "deleting" => \A f \in Files : files'[f].state # "none" => f \in purging'[o].keys
               /\ purging'[o].pc = "sealing" => Purged'
               /\ purging'[o].pc # "idle" => purging'[o].at # 0
    BY <1>1, <1>4 DEF EndsInvariant, PurgeSound, Purged
  <2> QED BY <1>1, <1>2, <1>3, <1>4, <2>1 DEF EndsInvariant, PurgeSound, Purged, Bare
<1>7. ReceiptsSound'
  BY <1>1, <1>4 DEF EndsInvariant, ReceiptsSound
<1> QED BY <1>5, <1>6, <1>7 DEF EndsInvariant

LEMMA SealHolds ==
    ASSUME StorageInvariant, EndsInvariant, AsAWhole' = AsAWhole,
           NEW c \in PurgeCalls, SealPurge(c)
    PROVE  StorageInvariant' /\ EndsInvariant'
<1>1. /\ purging[c].pc = "sealing" /\ purging' = [purging EXCEPT ![c] = NoPurge]
      /\ deletion' = [deletion EXCEPT !.receipt = purging[c].at] /\ told' = told \cup {purging[c].at}
      /\ clock' = clock /\ allowance' = allowance
      /\ FilesAside /\ UNCHANGED <<files, objects, stranded>> /\ UNCHANGED roomVars
      /\ UNCHANGED <<done, asIs, together>> /\ UNCHANGED exportVars
  BY WithinIs DEF SealPurge, RowsStay
<1>2. /\ UNCHANGED <<transfers, sweep, blemished, overdue, peak>> /\ UNCHANGED <<rooms, inRoom, posts, notices>>
      /\ content' = content /\ UNCHANGED <<recorded, run>>
  BY <1>1 DEF FilesAside, roomVars, content, notified, exportVars
<1>3. /\ deletion.started /\ deletion.on /\ purging[c].at \in Nat \ {0}
      /\ NoPurge \in PurgeSet /\ NoPurge.pc = "idle"
  BY <1>1, PurgeTyped
<1>4. /\ purging' \in [PurgeCalls -> PurgeSet] /\ purging'[c].pc = "idle"
      /\ \A o \in PurgeCalls \ {c} : purging'[o] = purging[o]
  BY <1>1, <1>3, PurgeReplaced
<1>5. /\ deletion' \in DeletionSet /\ deletion'.started /\ deletion'.on /\ deletion'.receipt = purging[c].at
  <2>1. PICK n \in Nat : n = purging[c].at
    BY <1>3
  <2>2. deletion \in DeletionSet
    BY DeletionTyped
  <2> QED BY <1>1, <1>3, <2>1, <2>2 DEF DeletionSet
<1>6. StorageInvariant'
  BY <1>1, <1>2, <1>5, HangsStill, DeletionFrame
<1>7. Purged /\ Purged'
  BY <1>1 DEF EndsInvariant, PurgeSound, Purged
<1>8. PurgeSound'
  <2>1. ASSUME NEW o \in PurgeCalls
        PROVE  /\ purging'[o].pc = "deleting" => \A f \in Files : files'[f].state # "none" => f \in purging'[o].keys
               /\ purging'[o].pc # "idle" => purging'[o].at # 0
    BY <1>1, <1>4 DEF EndsInvariant, PurgeSound
  <2> QED BY <1>1, <1>2, <1>4, <1>5, <1>7, <2>1 DEF EndsInvariant, PurgeSound, Bare
<1>9. ReceiptsSound'
  <2>1. together \in BOOLEAN
    BY DEF EndsInvariant, ReceiptsSound
  <2>2. ASSUME ~together
        PROVE  told = {} /\ \A o \in PurgeCalls \ {c} : purging[o].pc = "idle"
    BY <1>1, <2>2 DEF EndsInvariant, ReceiptsSound
  <2> QED BY <1>1, <1>3, <1>4, <1>5, <2>1, <2>2 DEF ReceiptsSound
<1> QED BY <1>6, <1>8, <1>9 DEF EndsInvariant

LEMMA PurgeAttachmentsHolds ==
    ASSUME StorageInvariant, EndsInvariant, AsAWhole' = AsAWhole,
           NEW c \in PurgeCalls, NEW went \in BOOLEAN, PurgeAttachments(c, went)
    PROVE  StorageInvariant' /\ EndsInvariant'
<1>1. /\ purging[c].pc = "deleting" /\ purging' = [purging EXCEPT ![c] = NoPurge]
      /\ objects' = IF went THEN objects \ purging[c].keys ELSE objects
      /\ stranded' = IF went THEN stranded ELSE stranded \cup purging[c].keys
      /\ files' = [f \in Files |-> NoFile] /\ done' = done \cup {"attachments"}
      /\ clock' = clock /\ allowance' = allowance
      /\ FilesAside /\ UNCHANGED roomVars
      /\ UNCHANGED <<deletion, asIs, told, together>> /\ UNCHANGED exportVars
  BY WithinIs DEF PurgeAttachments
<1>2. /\ UNCHANGED <<transfers, sweep, blemished, overdue, peak>> /\ UNCHANGED <<rooms, inRoom, posts, notices>>
      /\ content' = content /\ UNCHANGED <<recorded, run>>
  BY <1>1 DEF FilesAside, roomVars, content, notified, exportVars
<1>3. deletion.started /\ NoPurge \in PurgeSet /\ NoPurge.pc = "idle"
  BY <1>1, PurgeTyped
<1>4. /\ purging' \in [PurgeCalls -> PurgeSet] /\ purging'[c].pc = "idle"
      /\ \A o \in PurgeCalls \ {c} : purging'[o] = purging[o]
  BY <1>1, <1>3, PurgeReplaced
<1>5. /\ files' \in [Files -> FileRow]
      /\ \A f \in Files : /\ files'[f] = NoFile /\ files'[f].state = "none" /\ files'[f].post = 0
                          /\ ~files'[f].gone
  BY <1>1, NoFileIn
<1>6. StorageInvariant'
  <2>1. StorageTyped'
    <3>1. IsFiniteSet({f \in Files : files'[f].state # "none"})
      <4>1. {f \in Files : files'[f].state # "none"} = {}
        BY <1>5
      <4> QED BY <4>1, FS_EmptySet
    <3> QED BY <1>1, <1>2, <1>5, <3>1 DEF StorageInvariant, StorageTyped
  <2>2. \A u \in Transfers, f \in Files : Moving(u, f)' <=> Moving(u, f)
    BY <1>2 DEF Moving
  <2>3. TransfersSound'
    BY <1>1, <1>2, <1>3, <1>5, <2>2 DEF StorageInvariant, TransfersSound, TransferSound, Alone
  <2>4. ASSUME NEW f \in Files PROVE FileSound(f)'
    <3>1. FileSound(f)
      BY DEF StorageInvariant, FilesSound
    <3>2. files[f].state # "none" => f \in purging[c].keys
      BY <1>1 DEF EndsInvariant, PurgeSound
    <3>3. f \in objects' \ stranded' => f \in objects \ stranded /\ f \notin purging[c].keys
      BY <1>1
    <3>4. f \in objects' \ stranded' => \E u \in Transfers : Moving(u, f)'
      BY <2>2, <3>1, <3>2, <3>3 DEF FileSound
    <3> QED BY <1>1, <1>2, <1>3, <1>5, <3>1, <3>4 DEF FileSound
  <2>5. \A f \in Files : HangsOn(f)'
    BY <1>5 DEF HangsOn
  <2>6. InUse' \ overdue' \subseteq InUse \ overdue
    BY <1>5 DEF InUse, Uses
  <2>7. Cardinality(InUse' \ overdue') <= peak'
    BY <1>2, <2>6, InUseShrinks DEF StorageInvariant, StorageTyped
  <2> QED BY <2>1, <2>3, <2>4, <2>5, <2>7 DEF StorageInvariant, FilesSound
<1>7. PurgeSound'
  <2>1. done' \subseteq StageSet /\ deletion.on
    BY <1>1, <1>3 DEF EndsInvariant, PurgeSound, StageSet
  <2>2. Purged => Purged'
    BY <1>1 DEF Purged
  <2>3. ASSUME NEW o \in PurgeCalls
        PROVE  /\ purging'[o].pc = "deleting" => \A f \in Files : files'[f].state # "none" => f \in purging'[o].keys
               /\ purging'[o].pc = "sealing" => Purged'
               /\ purging'[o].pc # "idle" => purging'[o].at # 0
    BY <1>1, <1>4, <1>5, <2>2 DEF EndsInvariant, PurgeSound
  <2>4. /\ "content" \in done' => Bare' /\ "attachments" \in done'
        /\ "scheduler" \in done' => recorded' = <<>> /\ run' = NoRun
        /\ deletion'.receipt # 0 => Purged'
    BY <1>1, <1>2, <2>2 DEF EndsInvariant, PurgeSound, Bare
  <2> QED BY <1>1, <1>3, <1>4, <1>5, <2>1, <2>3, <2>4 DEF PurgeSound
<1>8. ReceiptsSound'
  BY <1>1, <1>4 DEF EndsInvariant, ReceiptsSound
<1> QED BY <1>6, <1>7, <1>8 DEF EndsInvariant

LEMMA BeginPurgeHolds ==
    ASSUME StorageInvariant, EndsInvariant, ClockRuns, AsAWhole' = AsAWhole,
           NEW c \in PurgeCalls, NEW skipped \in BOOLEAN, BeginPurge(c, skipped)
    PROVE  StorageInvariant' /\ EndsInvariant'
<1>1. PICK stage : stage = NextStage
  OBVIOUS
<1>2. /\ purging[c].pc = "idle" /\ deletion.on /\ deletion.receipt = 0
      /\ deletion' = [deletion EXCEPT !.started = TRUE]
      /\ together' = (together \/ \E other \in PurgeCalls : purging[other].pc # "idle")
      /\ IF stage = "attachments"
         THEN /\ purging' = [purging EXCEPT ![c] =
                    [pc |-> "deleting", keys |-> {f \in Files : files[f].state # "none"}, at |-> clock]]
              /\ UNCHANGED roomVars /\ UNCHANGED <<recorded, run, done>>
         ELSE /\ RunStage(stage)
              /\ purging' = [purging EXCEPT ![c] =
                    IF stage \in {"routing", "none"} THEN [pc |-> "sealing", keys |-> {}, at |-> clock]
                    ELSE NoPurge]
      /\ FilesAside /\ UNCHANGED <<files, objects, stranded, asIs, told>>
      /\ clock' = clock /\ allowance' = allowance
  BY <1>1, WithinIs DEF BeginPurge
<1>3. /\ stage \in StageSet \cup {"none"}
      /\ stage = "attachments" => "attachments" \notin done
      /\ stage = "content" => "attachments" \in done
      /\ stage \in {"routing", "none"} => Purged
      /\ stage # "attachments" => "attachments" \in done
  BY <1>1, NextStageIs
<1>4. UNCHANGED <<transfers, sweep, blemished, overdue, peak>>
  BY <1>2 DEF FilesAside
<1>5. /\ deletion' \in DeletionSet /\ deletion'.started /\ deletion'.on /\ deletion'.receipt = 0
  BY <1>2, DeletionTyped DEF DeletionSet
<1>6. /\ stage = "content" => Bare'
      /\ stage # "content" => UNCHANGED <<rooms, inRoom, posts, notices>>
      /\ stage = "scheduler" => recorded' = <<>> /\ run' = NoRun
      /\ stage # "scheduler" => UNCHANGED <<recorded, run>>
      /\ done \subseteq done' /\ done' \subseteq done \cup ({stage} \cap StageSet)
      /\ stage = "attachments" => done' = done
  <2>1. CASE stage = "attachments"
    <3>1. UNCHANGED <<rooms, inRoom, posts, notices>>
      BY <1>2, <2>1 DEF roomVars, content, notified
    <3> QED BY <1>2, <2>1, <3>1
  <2>2. CASE stage # "attachments"
    <3>1. /\ IF stage = "content" THEN EmptyRooms ELSE UNCHANGED roomVars
          /\ IF stage = "scheduler" THEN recorded' = <<>> /\ run' = NoRun ELSE UNCHANGED <<recorded, run>>
          /\ done' = done \cup ({stage} \ {"none"})
      BY <1>2, <2>2 DEF RunStage
    <3>2. stage = "content" => Bare'
      BY <3>1 DEF EmptyRooms, Bare
    <3>3. stage # "content" => UNCHANGED <<rooms, inRoom, posts, notices>>
      BY <3>1 DEF roomVars, content, notified
    <3> QED BY <1>3, <2>2, <3>1, <3>2, <3>3
  <2> QED BY <2>1, <2>2
<1>7. PICK x \in PurgeSet :
         /\ purging' = [purging EXCEPT ![c] = x]
         /\ x.pc = "deleting" => x.keys = {f \in Files : files[f].state # "none"}
         /\ x.pc = "sealing" => stage \in {"routing", "none"}
         /\ x.pc # "idle" => x.at # 0
  <2>1. clock \in Nat /\ clock # 0
    BY DEF ClockRuns
  <2>2. CASE stage = "attachments"
    <3>1. PICK x : x = [pc |-> "deleting", keys |-> {f \in Files : files[f].state # "none"}, at |-> clock]
      OBVIOUS
    <3>2. x \in PurgeSet /\ x.pc = "deleting" /\ x.keys = {f \in Files : files[f].state # "none"} /\ x.at = clock
      BY <2>1, <3>1 DEF PurgeSet
    <3> QED BY <1>2, <2>1, <2>2, <3>1, <3>2
  <2>3. CASE stage \in {"routing", "none"}
    <3>1. PICK x : x = [pc |-> "sealing", keys |-> {}, at |-> clock]
      OBVIOUS
    <3>2. x \in PurgeSet /\ x.pc = "sealing" /\ x.at = clock
      BY <2>1, <3>1 DEF PurgeSet
    <3> QED BY <1>2, <2>1, <2>3, <3>1, <3>2
  <2>4. CASE stage \notin {"attachments", "routing", "none"}
    <3>1. NoPurge \in PurgeSet /\ NoPurge.pc = "idle"
      BY PurgeTyped
    <3> QED BY <1>2, <2>4, <3>1
  <2> QED BY <2>2, <2>3, <2>4
<1>8. /\ purging' \in [PurgeCalls -> PurgeSet] /\ purging'[c] = x
      /\ \A o \in PurgeCalls \ {c} : purging'[o] = purging[o]
  BY <1>7, PurgeReplaced
<1>9. StorageInvariant'
  <2>1. \A f \in Files : HangsOn(f)'
    <3>1. CASE stage = "content"
      <4>1. \A f \in Files : files'[f] = NoFile
        BY <1>2, <1>3, <3>1 DEF EndsInvariant, PurgeSound
      <4> QED BY <4>1, NoFileIn DEF HangsOn
    <3>2. CASE stage # "content"
      BY <1>2, <1>6, <3>2, HangsStill
    <3> QED BY <3>1, <3>2
  <2> QED BY <1>2, <1>4, <1>5, <2>1, DeletionFrame
<1>10. PurgeSound'
  <2>1. done' \subseteq StageSet
    BY <1>6 DEF EndsInvariant, PurgeSound
  <2>2. "attachments" \in done' => \A f \in Files : files'[f] = NoFile
    BY <1>2, <1>3, <1>6 DEF EndsInvariant, PurgeSound
  <2>3. "content" \in done' => Bare' /\ "attachments" \in done'
    <3>1. CASE stage = "content"
      BY <1>3, <1>6, <3>1
    <3>2. CASE stage # "content"
      BY <1>6, <3>2 DEF EndsInvariant, PurgeSound, Bare
    <3> QED BY <3>1, <3>2
  <2>4. "scheduler" \in done' => recorded' = <<>> /\ run' = NoRun
    BY <1>6 DEF EndsInvariant, PurgeSound
  <2>5. Purged => Purged'
    BY <1>6 DEF Purged
  <2>6. ASSUME NEW o \in PurgeCalls
        PROVE  /\ purging'[o].pc = "deleting" => \A f \in Files : files'[f].state # "none" => f \in purging'[o].keys
               /\ purging'[o].pc = "sealing" => Purged'
               /\ purging'[o].pc # "idle" => purging'[o].at # 0
    <3>1. CASE o = c
      BY <1>2, <1>3, <1>7, <1>8, <2>5, <3>1
    <3>2. CASE o # c
      BY <1>2, <1>8, <2>5, <3>2 DEF EndsInvariant, PurgeSound
    <3> QED BY <3>1, <3>2
  <2> QED BY <1>5, <1>8, <2>1, <2>2, <2>3, <2>4, <2>6 DEF PurgeSound
<1>11. ReceiptsSound'
  <2>1. together \in BOOLEAN /\ told = {} /\ told' = {}
    BY <1>2 DEF EndsInvariant, ReceiptsSound
  <2>2. together' \in BOOLEAN
    BY <1>2, <2>1
  <2>3. ~together' => \A o \in PurgeCalls \ {c} : purging'[o].pc = "idle"
    BY <1>2, <1>8
  <2> QED BY <1>5, <2>1, <2>2, <2>3 DEF ReceiptsSound
<1> QED BY <1>9, <1>10, <1>11 DEF EndsInvariant

LEMMA DeletionStepHolds ==
    ASSUME StorageInvariant, EndsInvariant, ClockRuns, AsAWhole' = AsAWhole, DeletionStep
    PROVE  StorageInvariant' /\ EndsInvariant'
<1>1. CASE \E p \in People : RequestWorkspaceDeletion(p) \/ CancelWorkspaceDeletion(p)
  BY <1>1, RequestHolds, CancelHolds
<1>2. CASE ReadReceipt
  BY <1>2, ReadHolds
<1>3. CASE \E c \in PurgeCalls, flag \in BOOLEAN :
              BeginPurge(c, flag) \/ PurgeAttachments(c, flag) \/ LosePurge(c, flag)
  BY <1>3, BeginPurgeHolds, PurgeAttachmentsHolds, LosePurgeHolds
<1>4. CASE \E c \in PurgeCalls : SealPurge(c)
  BY <1>4, SealHolds
<1> QED BY <1>1, <1>2, <1>3, <1>4 DEF DeletionStep

(* Steps that leave the deletion and the purge as they are. *)
LEMMA EndsAreLeft ==
    ASSUME EndsInvariant, UNCHANGED <<deletion, purgeVars, files, content, notices>>,
           "scheduler" \in done => UNCHANGED <<recorded, run>>
    PROVE  EndsInvariant'
<1>1. /\ UNCHANGED <<done, purging, asIs, told, together>> /\ UNCHANGED <<rooms, inRoom, posts>>
      /\ content' = content /\ UNCHANGED <<deletion, files, notices>>
      /\ "scheduler" \in done => UNCHANGED <<recorded, run>>
  BY DEF purgeVars, content
<1>2. PurgeSound'
  BY <1>1 DEF EndsInvariant, PurgeSound, Purged, Bare
<1>3. ReceiptsSound'
  BY <1>1 DEF EndsInvariant, ReceiptsSound
<1> QED BY <1>2, <1>3 DEF EndsInvariant

(* And those that only happen before a deletion was asked for. *)
LEMMA EndsAreFar ==
    ASSUME EndsInvariant, UNCHANGED <<deletion, purgeVars>>, ~deletion.on
    PROVE  EndsInvariant'
<1>1. /\ UNCHANGED <<done, purging, asIs, told, together>> /\ UNCHANGED deletion
  BY DEF purgeVars
<1>2. /\ ~deletion.started /\ done = {} /\ deletion.receipt = 0 /\ \A c \in PurgeCalls : purging[c].pc = "idle"
  BY DEF EndsInvariant, PurgeSound
<1>3. PurgeSound'
  <2>1. done \subseteq StageSet /\ purging \in [PurgeCalls -> PurgeSet]
    BY DEF EndsInvariant, PurgeSound
  <2> QED BY <1>1, <1>2, <2>1 DEF PurgeSound
<1>4. ReceiptsSound'
  BY <1>1 DEF EndsInvariant, ReceiptsSound
<1> QED BY <1>3, <1>4 DEF EndsInvariant

(* Once a deletion was asked for, no file comes to be. *)
LEMMA NoFileComes ==
    ASSUME StorageInvariant, deletion.on, UploadStep \/ ReclaimStep
    PROVE  \A f \in Files : files[f].state = "none" => files'[f] = files[f]
<1>1. files \in [Files -> FileRow] /\ \A p : ~Enters(p)
  BY DEF StorageInvariant, StorageTyped, Enters
<1>2. \A p \in People, f \in Files :
         /\ \A r \in Rooms : ~ReserveUpload(p, f, r)
         /\ \A u \in Transfers : ~StartTransfer(u, p, f)
         /\ \A m \in Posts : ~AttachFile(p, f, m)
         /\ ~DeleteFile(p, f)
  <2> SUFFICES ASSUME NEW p \in People, NEW f \in Files
               PROVE  /\ \A r \in Rooms : ~ReserveUpload(p, f, r)
                      /\ \A u \in Transfers : ~StartTransfer(u, p, f)
                      /\ \A m \in Posts : ~AttachFile(p, f, m)
                      /\ ~DeleteFile(p, f)
    OBVIOUS
  <2>1. \A r \in Rooms : ~ReserveUpload(p, f, r)
    BY <1>1 DEF ReserveUpload
  <2>2. \A u \in Transfers : ~StartTransfer(u, p, f)
    BY <1>1 DEF StartTransfer
  <2>3. \A m \in Posts : ~AttachFile(p, f, m)
    BY <1>1 DEF AttachFile
  <2>4. ~DeleteFile(p, f)
    BY <1>1 DEF DeleteFile, Reaches
  <2> QED BY <2>1, <2>2, <2>3, <2>4
<1>3. ASSUME NEW u \in Transfers, NEW fine \in BOOLEAN,
             Moved(u, fine) \/ ConfirmUpload(u, fine) \/ RemoveRefused(u) \/ LoseTransfer(u)
      PROVE  UNCHANGED files
  <2>1. CASE ConfirmUpload(u, fine)
    BY <1>1, <2>1 DEF ConfirmUpload
  <2>2. CASE Moved(u, fine) \/ RemoveRefused(u) \/ LoseTransfer(u)
    BY <2>2 DEF Moved, RemoveRefused, LoseTransfer
  <2> QED BY <1>3, <2>1, <2>2
<1>4. UploadStep => UNCHANGED files
  BY <1>2, <1>3 DEF UploadStep
<1>5. BeginReclaim => \A f \in Files : files[f].state = "none" => files'[f] = files[f]
  BY DEF BeginReclaim
<1>6. ASSUME NEW went \in BOOLEAN, EndReclaim(went) \/ LoseReclaim(went)
      PROVE  \A f \in Files : files[f].state = "none" => files'[f] = files[f]
  <2>1. EndReclaim(went) => \A f \in Files : files[f].state = "none" => files'[f] = files[f]
    BY DEF EndReclaim
  <2>2. LoseReclaim(went) => UNCHANGED files
    BY DEF LoseReclaim
  <2> QED BY <1>6, <2>1, <2>2
<1> QED BY <1>4, <1>5, <1>6 DEF ReclaimStep

LEMMA UploadsKeepDeletion ==
    ASSUME UploadStep \/ ReclaimStep
    PROVE  UNCHANGED deletion
<1>1. ASSUME NEW p \in People, NEW f \in Files,
             \/ \E r \in Rooms : ReserveUpload(p, f, r)
             \/ \E u \in Transfers : StartTransfer(u, p, f)
             \/ \E m \in Posts : AttachFile(p, f, m)
             \/ DeleteFile(p, f)
      PROVE  UNCHANGED deletion
  BY <1>1 DEF ReserveUpload, StartTransfer, AttachFile, DeleteFile
<1>2. ASSUME NEW u \in Transfers,
             \/ \E fine \in BOOLEAN : Moved(u, fine) \/ ConfirmUpload(u, fine)
             \/ RemoveRefused(u) \/ LoseTransfer(u)
      PROVE  UNCHANGED deletion
  BY <1>2 DEF Moved, ConfirmUpload, RemoveRefused, LoseTransfer
<1>3. ReclaimStep => UNCHANGED deletion
  BY DEF ReclaimStep, BeginReclaim, EndReclaim, LoseReclaim
<1>4. UploadStep => UNCHANGED deletion
  BY <1>1, <1>2 DEF UploadStep
<1> QED BY <1>3, <1>4

LEMMA UploadsHold ==
    ASSUME StorageInvariant, EndsInvariant, ClockRuns, allowance.quota \in Nat, AsAWhole, AsAWhole',
           RoomsTyped, UploadStep \/ ReclaimStep, UNCHANGED <<roomVars, tenancyVars>>
    PROVE  StorageInvariant' /\ EndsInvariant'
<1>1. /\ UNCHANGED posts /\ UNCHANGED <<content, notices>> /\ (deletion.started => deletion.on)
      /\ AsAWhole' = AsAWhole
  <2>1. AsAWhole \in BOOLEAN
    BY DEF AsAWhole
  <2> QED BY <2>1 DEF roomVars, content, notified, EndsInvariant, PurgeSound
<1>2. \A m \in Posts : m \in Nat \ {0}
  BY DEF RoomsTyped, Posts
<1>3. StorageInvariant'
  <2>1. ASSUME NEW p \in People, NEW f \in Files,
               \/ \E r \in Rooms : ReserveUpload(p, f, r)
               \/ \E u \in Transfers : StartTransfer(u, p, f)
               \/ \E m \in Posts : AttachFile(p, f, m)
               \/ DeleteFile(p, f)
        PROVE  StorageInvariant'
    BY <1>1, <1>2, <2>1, ReserveHolds, StartHolds, AttachHolds, DeleteFileHolds
  <2>2. ASSUME NEW u \in Transfers,
               \/ \E fine \in BOOLEAN : Moved(u, fine) \/ ConfirmUpload(u, fine)
               \/ RemoveRefused(u) \/ LoseTransfer(u)
        PROVE  StorageInvariant'
    BY <1>1, <2>2, MovedHolds, ConfirmHolds, RefusedHolds, LoseTransferHolds
  <2>3. CASE ReclaimStep
    BY <1>1, <2>3, BeginReclaimHolds, EndReclaimHolds, LoseReclaimHolds DEF ReclaimStep
  <2>4. CASE UploadStep
    BY <2>1, <2>2, <2>4 DEF UploadStep
  <2> QED BY <2>3, <2>4
<1>4. /\ UNCHANGED <<deletion, purgeVars>> /\ UNCHANGED <<recorded, run>>
  BY UploadsKeepDeletion DEF tenancyVars, exportVars
<1>5. EndsInvariant'
  <2>1. CASE ~deletion.on
    BY <1>4, <2>1, EndsAreFar
  <2>2. CASE deletion.on
    <3>1. \A f \in Files : files[f].state = "none" => files'[f] = files[f]
      BY <2>2, NoFileComes
    <3>2. /\ UNCHANGED <<done, purging, asIs, told, together>> /\ UNCHANGED <<rooms, inRoom, posts>>
          /\ content' = content /\ UNCHANGED <<deletion, recorded, run, notices>>
      BY <1>1, <1>4 DEF purgeVars, content
    <3>3. "attachments" \in done => \A f \in Files : files'[f] = NoFile
      BY <3>1, NoFileIn DEF EndsInvariant, PurgeSound
    <3>4. ASSUME NEW o \in PurgeCalls
          PROVE  purging'[o].pc = "deleting" => \A f \in Files : files'[f].state # "none" => f \in purging'[o].keys
      BY <3>1, <3>2 DEF EndsInvariant, PurgeSound
    <3>5. PurgeSound'
      BY <3>2, <3>3, <3>4 DEF EndsInvariant, PurgeSound, Purged, Bare
    <3>6. ReceiptsSound'
      BY <3>2 DEF EndsInvariant, ReceiptsSound
    <3> QED BY <3>5, <3>6 DEF EndsInvariant
  <2> QED BY <2>1, <2>2
<1> QED BY <1>3, <1>5

-----------------------------------------------------------------------------
(* The export. *)

LEMMA SameTables ==
    ASSUME ExportTyped, UNCHANGED <<rooms, posts>>, "posts" \in DOMAIN start', start'.posts = start.posts
    PROVE  /\ Chunks' = Chunks /\ Everything' = Everything
           /\ "posts" \in DOMAIN start' /\ start'.posts \in Nat
BY DEF ExportTyped, Chunks, Everything, LinesOf, Rows, Posts

LEMMA ChunkIs ==
    ASSUME ExportTyped, NEW x \in Chunks
    PROVE  /\ x = [table |-> x.table, offset |-> x.offset] /\ x.offset \in Nat
           /\ x.table \in {"channels", "messages"} /\ (x.table = "channels" => x.offset = 0)
BY DEF ExportTyped, Chunks

LEMMA ChunksThere == [table |-> "channels", offset |-> 0] \in Chunks
BY DEF Chunks

LEMMA ChunksAlike ==
    ASSUME ExportTyped, NEW x \in Chunks, NEW y \in Chunks, x.table = y.table, x.offset = y.offset
    PROVE  x = y
BY ChunkIs

(* The lines of a chunk are of the tables as they are. *)
LEMMA RowsAre ==
    ASSUME ExportTyped, RoomsSound, NEW x \in Chunks, NEW line \in Rows(x)
    PROVE  /\ line \in ChunkLines /\ Among(x, line)
           /\ line.post = 0 => line = Line(line.room, 0, 0, FALSE)
           /\ line.post # 0 => /\ line.post \in Posts /\ posts[line.post].room = line.room
                               /\ posts[line.post].root = line.root
<1>1. x.offset \in Nat /\ x.table \in {"channels", "messages"}
  BY ChunkIs
<1>2. CASE x.table = "channels"
  <2>1. PICK r \in Rooms : line = [room |-> r, post |-> 0, root |-> 0, deleted |-> FALSE]
    BY <1>2 DEF Rows, Line
  <2> QED BY <1>2, <2>1 DEF ChunkLines, Among, Line
<1>3. CASE x.table = "messages"
  <2>1. PICK m \in {x.offset + 1} \cap Posts :
           line = [room |-> posts[m].room, post |-> m, root |-> posts[m].root, deleted |-> posts[m].deleted]
    BY <1>3 DEF Rows, Line
  <2>2. posts[m] \in PostSet /\ m = x.offset + 1
    BY <2>1 DEF RoomsSound, RoomsTyped, Posts
  <2>3. line \in ChunkLines
    BY <1>1, <2>1, <2>2 DEF ChunkLines, PostSet
  <2>4. line.post = m /\ m # 0 /\ line.room = posts[m].room /\ line.root = posts[m].root
    BY <1>1, <2>1, <2>2
  <2>5. Among(x, line)
    BY <1>3, <2>2, <2>4 DEF Among
  <2> QED BY <2>1, <2>3, <2>4, <2>5
<1> QED BY <1>1, <1>2, <1>3

LEMMA AmongOne ==
    ASSUME ExportTyped, NEW x \in Chunks, NEW y \in Chunks, NEW line, Among(x, line), Among(y, line)
    PROVE  x = y
<1>1. /\ x.offset \in Nat /\ y.offset \in Nat
      /\ x.table \in {"channels", "messages"} /\ y.table \in {"channels", "messages"}
      /\ x.table = "channels" => x.offset = 0
      /\ y.table = "channels" => y.offset = 0
  BY ChunkIs
<1>2. CASE x.table = "channels" /\ y.table = "channels"
  BY <1>1, <1>2, ChunksAlike
<1>3. CASE x.table # "channels" /\ y.table # "channels"
  <2>1. line.post = x.offset + 1 /\ line.post = y.offset + 1
    BY <1>3 DEF Among
  <2>2. x.offset = y.offset /\ x.table = y.table
    BY <1>1, <1>3, <2>1
  <2> QED BY <2>2, ChunksAlike
<1>4. CASE x.table = "channels" /\ y.table # "channels"
  BY <1>1, <1>4 DEF Among
<1>5. CASE x.table # "channels" /\ y.table = "channels"
  BY <1>1, <1>5 DEF Among
<1> QED BY <1>2, <1>3, <1>4, <1>5

LEMMA EverythingIs ==
    ASSUME ExportTyped, RoomsSound
    PROVE  /\ \A line \in Everything : \E x \in Chunks : line \in Rows(x) /\ Among(x, line)
           /\ \A x \in Chunks : Rows(x) = {line \in Everything : Among(x, line)}
<1>1. \A line : line \in Everything <=> \E x \in Chunks : line \in Rows(x)
  BY DEF Everything, LinesOf
<1>2. ASSUME NEW line \in Everything PROVE \E x \in Chunks : line \in Rows(x) /\ Among(x, line)
  BY <1>1, RowsAre
<1>3. ASSUME NEW x \in Chunks PROVE Rows(x) = {line \in Everything : Among(x, line)}
  <2>1. ASSUME NEW line \in Rows(x) PROVE line \in Everything /\ Among(x, line)
    BY <1>1, <2>1, RowsAre
  <2>2. ASSUME NEW line \in Everything, Among(x, line) PROVE line \in Rows(x)
    <3>1. PICK y \in Chunks : line \in Rows(y) /\ Among(y, line)
      BY <1>2, <2>2
    <3> QED BY <2>2, <3>1, AmongOne
  <2> QED BY <2>1, <2>2
<1> QED BY <1>2, <1>3

(* As long as the tables are there, a reply and its root are in one room.   *)
LEMMA RootsAgree ==
    ASSUME RoomsSound, "content" \notin done, NEW line, LineTrue(line), NEW root, LineTrue(root),
           line.root # 0, root.post = line.root
    PROVE  root.room = line.room
<1>1. line.post # 0
  BY DEF LineTrue, Line
<1>2. line.post \in Posts /\ posts[line.post].room = line.room /\ posts[line.post].root = line.root
  BY <1>1 DEF LineTrue
<1>3. root.post \in Posts /\ posts[root.post].room = root.room
  BY DEF LineTrue
<1> QED BY <1>2, <1>3 DEF RoomsSound, PostSound

LEMMA HeldIs ==
    \A line : line \in HeldLines <=> \E x \in Chunks : \E body \in Bodies(x) : line \in body
BY DEF HeldLines

(* What is held is in a request, recorded, or with the collector. *)
LEMMA BodiesAre ==
    ASSUME NEW x
    PROVE  \A body : body \in Bodies(x) <=>
              \/ \E k \in Collectors : Holds(k, x) /\ body = collecting[k].body
              \/ x \in DOMAIN recorded /\ body = recorded[x]
              \/ x \in DOMAIN copy /\ body = copy[x]
BY DEF Bodies

(* A step after which nothing is held that was not held, but what a request *)
(* has just read.                                                           *)
HeldBefore == \A x \in Chunks : Bodies(x)' \subseteq Bodies(x)

LEMMA LinesStay ==
    ASSUME LinesSound, Chunks' = Chunks, HeldBefore, \A line : LineTrue(line) => LineTrue(line)'
    PROVE  LinesSound'
<1>1. HeldLines' \subseteq HeldLines
  BY DEF HeldLines, HeldBefore
<1>2. \A x \in Chunks' : \A body \in Bodies(x)' : body \subseteq ChunkLines'
  BY DEF LinesSound, HeldBefore, ChunkLines
<1> QED BY <1>1, <1>2 DEF LinesSound

LEMMA ExportQuiet ==
    ASSUME ExportInvariant, ExportTyped', RunSound', Chunks' = Chunks, HeldBefore,
           UNCHANGED <<snapshot, replacement>>, \A line : LineTrue(line) => LineTrue(line)',
           run'.steady => run.steady,
           run'.steady /\ run'.manifest = {} /\ ~deletion'.started => Everything' = snapshot
    PROVE  ExportInvariant'
<1>1. LinesSound'
  BY LinesStay DEF ExportInvariant
<1>2. SteadySound'
  <2>1. \A x \in Chunks : Snapped(x)' = Snapped(x)
    BY DEF Snapped, Among
  <2>2. \A line \in snapshot' : \E x \in Chunks' : Among(x, line)'
    BY DEF ExportInvariant, SteadySound, Among
  <2>3. run'.steady => \A x \in Chunks' : \A body \in Bodies(x)' : body = Snapped(x)'
    BY <2>1 DEF ExportInvariant, SteadySound, HeldBefore
  <2> QED BY <2>2, <2>3 DEF SteadySound
<1>3. ReplacementSound'
  BY DEF ExportInvariant, ReplacementSound, Line
<1> QED BY <1>1, <1>2, <1>3 DEF ExportInvariant

(* What an export step leaves alone. *)
LEMMA ExportAsideIs ==
    ASSUME ExportTyped, ExportAside
    PROVE  /\ Chunks' = Chunks /\ Everything' = Everything
           /\ "posts" \in DOMAIN start' /\ start'.posts \in Nat
           /\ deletion' = deletion /\ done' = done /\ UNCHANGED <<rooms, posts>>
           /\ UNCHANGED storageVars /\ UNCHANGED roomVars /\ UNCHANGED purgeVars
           /\ \A line : LineTrue(line)' <=> LineTrue(line)
<1>1. /\ UNCHANGED <<deletion, purgeVars>> /\ FilesAside /\ UNCHANGED roomVars
      /\ UNCHANGED <<files, objects, stranded>>
  BY DEF ExportAside, RowsStay
<1>2. UNCHANGED <<rooms, posts, start>> /\ done' = done
  BY <1>1 DEF roomVars, content, purgeVars
<1>3. UNCHANGED storageVars
  BY <1>1 DEF FilesAside, storageVars
<1>4. \A line : LineTrue(line)' <=> LineTrue(line)
  BY <1>2 DEF LineTrue, Line, Posts
<1>5. Chunks' = Chunks /\ Everything' = Everything /\ "posts" \in DOMAIN start' /\ start'.posts \in Nat
  <2>1. "posts" \in DOMAIN start' /\ start'.posts = start.posts
    BY <1>2 DEF ExportTyped
  <2> QED BY <1>2, <2>1, SameTables
<1> QED BY <1>1, <1>2, <1>3, <1>4, <1>5

LEMMA ExportKnown ==
    ASSUME ExportInvariant
    PROVE  /\ run \in RunSet /\ run.open \in BOOLEAN /\ run.steady \in BOOLEAN /\ run.expires \in Nat
           /\ run.manifest \subseteq Chunks
           /\ \A k \in Collectors : /\ collecting[k] \in RequestSet
                                    /\ collecting[k].pc # "idle" => collecting[k].chunk \in Chunks
           /\ NoRequest \in RequestSet /\ NoRequest.pc = "idle" /\ NoRun \in RunSet
<1>1. run \in RunSet
  BY DEF ExportInvariant, ExportTyped
<1>2. NoRequest \in RequestSet /\ NoRequest.pc = "idle" /\ NoRun \in RunSet
  BY DEF NoRequest, RequestSet, NoRun, RunSet
<1> QED BY <1>1, <1>2 DEF RunSet, ExportInvariant, ExportTyped

(* One request takes a step. *)
LEMMA RequestReplaced ==
    ASSUME ExportTyped, Chunks' = Chunks, NEW k \in Collectors, NEW x \in RequestSet, x.pc # "idle" => x.chunk \in Chunks,
           collecting' = [collecting EXCEPT ![k] = x]
    PROVE  /\ collecting' \in [Collectors -> RequestSet'] /\ collecting'[k] = x
           /\ \A o \in Collectors : collecting'[o].pc # "idle" => collecting'[o].chunk \in Chunks
           /\ \A o \in Collectors \ {k} : collecting'[o] = collecting[o]
<1>1. RequestSet' = RequestSet
  BY DEF RequestSet, ChunkLines
<1> QED BY <1>1 DEF ExportTyped

LEMMA KeepIs ==
    ASSUME NEW x, NEW body, copy' = Keep(x, body)
    PROVE  /\ DOMAIN copy' = DOMAIN copy \cup {x} /\ copy'[x] = body
           /\ copy' = [y \in DOMAIN copy' |-> copy'[y]]
           /\ \A y \in DOMAIN copy : y # x => copy'[y] = copy[y]
BY DEF Keep

LEMMA BeginExportHolds ==
    ASSUME ExportInvariant, EndsInvariant, RoomsSound, ClockRuns, NEW p \in People, BeginExport(p)
    PROVE  ExportInvariant'
<1>1. /\ ~deletion.on /\ ~run.open /\ run.expires = 0
      /\ run' = [open |-> TRUE, steady |-> TRUE, expires |-> clock + 1, manifest |-> {}]
      /\ snapshot' = Everything /\ ExportAside
      /\ UNCHANGED <<recorded, collecting, copy, doubled, replacement>>
  BY DEF BeginExport, Owner, Enters
<1>2. ExportTyped /\ ~deletion.started
  BY <1>1 DEF ExportInvariant, EndsInvariant, PurgeSound
<1>3. Untouched
  BY <1>1, <1>2 DEF ExportInvariant, RunSound
<1>4. /\ Chunks' = Chunks /\ Everything' = Everything /\ "posts" \in DOMAIN start' /\ start'.posts \in Nat
  BY <1>1, <1>2, ExportAsideIs
<1>5. /\ copy' = <<>> /\ recorded' = <<>> /\ ~replacement'.made
      /\ \A k \in Collectors : collecting'[k].pc = "idle"
      /\ DOMAIN copy' = {} /\ DOMAIN recorded' = {}
  BY <1>1, <1>3 DEF Untouched
<1>6. \A x : Bodies(x)' = {}
  BY <1>5 DEF Bodies, Holds
<1>7. /\ run' \in RunSet' /\ run'.open /\ run'.expires # 0 /\ run'.manifest = {}
  <2>1. clock + 1 \in Nat /\ clock + 1 # 0
    BY DEF ClockRuns
  <2> QED BY <1>1, <2>1 DEF RunSet
<1>8. ExportTyped'
  BY <1>1, <1>2, <1>4, <1>7 DEF ExportTyped, RequestSet, ChunkLines
<1>9. RunSound'
  BY <1>5, <1>7 DEF RunSound, Holds
<1>10. LinesSound'
  BY <1>6 DEF LinesSound, HeldLines
<1>11. SteadySound'
  <2>1. \A line \in snapshot' : \E x \in Chunks' : Among(x, line)'
    BY <1>1, <1>2, <1>4, EverythingIs DEF Among
  <2> QED BY <1>1, <1>4, <1>6, <2>1 DEF SteadySound
<1>12. ReplacementSound'
  BY <1>5 DEF ReplacementSound
<1> QED BY <1>8, <1>9, <1>10, <1>11, <1>12 DEF ExportInvariant

(* Requests that move on, and that end. *)
LEMMA RequestsHold ==
    ASSUME ExportInvariant, ExportAside, NEW k \in Collectors, NEW x \in RequestSet,
           collecting' = [collecting EXCEPT ![k] = x], collecting[k].pc # "idle",
           x.pc # "idle" => x.chunk = collecting[k].chunk /\ x.body = collecting[k].body,
           UNCHANGED <<run, recorded, copy, snapshot, doubled, replacement>>
    PROVE  ExportInvariant'
<1>1. ExportTyped /\ RunSound
  BY DEF ExportInvariant
<1>2. /\ Chunks' = Chunks /\ Everything' = Everything /\ "posts" \in DOMAIN start' /\ start'.posts \in Nat
      /\ deletion' = deletion /\ \A line : LineTrue(line)' <=> LineTrue(line)
  BY <1>1, ExportAsideIs
<1>3. x.pc # "idle" => x.chunk \in Chunks
  BY ExportKnown
<1>4. /\ collecting' \in [Collectors -> RequestSet'] /\ collecting'[k] = x
      /\ \A o \in Collectors : collecting'[o].pc # "idle" => collecting'[o].chunk \in Chunks
      /\ \A o \in Collectors \ {k} : collecting'[o] = collecting[o]
  BY <1>1, <1>2, <1>3, RequestReplaced
<1>5. ExportTyped'
  BY <1>1, <1>2, <1>4 DEF ExportTyped, RunSet, ChunkLines
<1>6. \A y : \A o \in Collectors : Holds(o, y)' => Holds(o, y) /\ collecting'[o].body = collecting[o].body
  BY <1>4 DEF Holds
<1>7. HeldBefore
  <2> SUFFICES ASSUME NEW y \in Chunks, NEW body \in Bodies(y)' PROVE body \in Bodies(y)
    BY DEF HeldBefore
  <2>1. \/ \E o \in Collectors : Holds(o, y)' /\ body = collecting'[o].body
        \/ y \in DOMAIN recorded /\ body = recorded[y]
        \/ y \in DOMAIN copy /\ body = copy[y]
    BY DEF Bodies
  <2> QED BY <1>6, <2>1, BodiesAre
<1>8. RunSound'
  <2>1. ~(run.expires = 0 /\ ~deletion.started)
    BY <1>1 DEF RunSound, Untouched
  <2> QED BY <1>1, <1>2, <1>6, <2>1 DEF RunSound
<1>9. run.steady /\ run.manifest = {} /\ ~deletion'.started => Everything' = snapshot
  BY <1>2 DEF ExportInvariant, SteadySound
<1> QED BY <1>2, <1>5, <1>7, <1>8, <1>9, ExportQuiet

LEMMA RequestsMove ==
    ASSUME ExportInvariant, NEW k \in Collectors,
           (\E p \in People : BeginRecording(k, p)) \/ LoseChunk(k)
    PROVE  ExportInvariant'
<1>1. CASE \E p \in People : BeginRecording(k, p)
  <2>1. /\ collecting[k].pc = "holding" /\ collecting' = [collecting EXCEPT ![k].pc = "hashing"]
        /\ ExportAside /\ UNCHANGED <<run, recorded, copy, snapshot, doubled, replacement>>
    BY <1>1 DEF BeginRecording
  <2>2. PICK old \in RequestSet : old = collecting[k]
    BY ExportKnown
  <2>3. PICK x : x = [old EXCEPT !.pc = "hashing"]
    OBVIOUS
  <2>4. x \in RequestSet /\ x.chunk = old.chunk /\ x.body = old.body
    BY <2>3 DEF RequestSet
  <2>5. collecting' = [collecting EXCEPT ![k] = x]
    BY <2>1, <2>2, <2>3
  <2> QED BY <2>1, <2>2, <2>4, <2>5, RequestsHold
<1>2. CASE LoseChunk(k)
  BY <1>2, ExportKnown, RequestsHold DEF LoseChunk
<1> QED BY <1>1, <1>2

LEMMA RecordHolds ==
    ASSUME ExportInvariant, NEW k \in Collectors, RecordExportChunk(k)
    PROVE  ExportInvariant'
<1>1. PICK x \in Chunks : x = collecting[k].chunk
  BY ExportKnown DEF RecordExportChunk
<1>2. PICK body \in SUBSET ChunkLines : body = collecting[k].body
  BY ExportKnown DEF RequestSet
<1>3. /\ collecting[k].pc = "hashing" /\ collecting' = [collecting EXCEPT ![k] = NoRequest]
      /\ ExportAside /\ UNCHANGED <<run, snapshot, doubled, replacement>>
      /\ IF run.open
         THEN /\ recorded' = [y \in DOMAIN recorded \cup {x} |->
                                 IF y \in DOMAIN recorded THEN recorded[y] ELSE body]
              /\ copy' = Keep(x, body)
         ELSE UNCHANGED <<recorded, copy>>
  BY <1>1, <1>2 DEF RecordExportChunk
<1>4. CASE ~run.open
  BY <1>3, <1>4, ExportKnown, RequestsHold
<1>5. CASE run.open
  <2>1. ExportTyped /\ RunSound
    BY DEF ExportInvariant
  <2>2. /\ Chunks' = Chunks /\ Everything' = Everything /\ "posts" \in DOMAIN start' /\ start'.posts \in Nat
        /\ deletion' = deletion /\ \A line : LineTrue(line)' <=> LineTrue(line)
    BY <1>3, <2>1, ExportAsideIs
  <2>3. /\ collecting' \in [Collectors -> RequestSet'] /\ collecting'[k].pc = "idle"
        /\ \A o \in Collectors : collecting'[o].pc # "idle" => collecting'[o].chunk \in Chunks
        /\ \A o \in Collectors \ {k} : collecting'[o] = collecting[o]
    BY <1>3, <2>1, <2>2, ExportKnown, RequestReplaced
  <2>4. /\ DOMAIN copy' = DOMAIN copy \cup {x} /\ copy'[x] = body
        /\ copy' = [y \in DOMAIN copy' |-> copy'[y]]
        /\ \A y \in DOMAIN copy : y # x => copy'[y] = copy[y]
    <3>1. copy' = Keep(x, body)
      BY <1>3, <1>5
    <3> QED BY <3>1, KeepIs
  <2>5. /\ DOMAIN recorded' = DOMAIN recorded \cup {x}
        /\ recorded' = [y \in DOMAIN recorded' |-> recorded'[y]]
        /\ \A y \in DOMAIN recorded : recorded'[y] = recorded[y]
        /\ x \notin DOMAIN recorded => recorded'[x] = body
    BY <1>3, <1>5
  <2>6. ExportTyped'
    BY <1>1, <1>3, <2>1, <2>2, <2>3, <2>4, <2>5 DEF ExportTyped, RunSet, ChunkLines
  <2>7. Holds(k, x)
    BY <1>1, <1>3 DEF Holds
  <2>8. \A y : \A o \in Collectors : Holds(o, y)' => o # k /\ Holds(o, y) /\ collecting'[o] = collecting[o]
    BY <2>3 DEF Holds
  <2>9. HeldBefore
    <3> SUFFICES ASSUME NEW y \in Chunks, NEW held \in Bodies(y)' PROVE held \in Bodies(y)
      BY DEF HeldBefore
    <3>1. \/ \E o \in Collectors : Holds(o, y)' /\ held = collecting'[o].body
          \/ y \in DOMAIN recorded' /\ held = recorded'[y]
          \/ y \in DOMAIN copy' /\ held = copy'[y]
      BY DEF Bodies
    <3>2. body \in Bodies(x)
      BY <1>2, <2>7, BodiesAre
    <3>3. CASE \E o \in Collectors : Holds(o, y)' /\ held = collecting'[o].body
      BY <2>8, <3>3, BodiesAre
    <3>4. CASE y \in DOMAIN recorded' /\ held = recorded'[y]
      BY <2>5, <3>2, <3>4, BodiesAre
    <3>5. CASE y \in DOMAIN copy' /\ held = copy'[y]
      BY <2>4, <3>2, <3>5, BodiesAre
    <3> QED BY <3>1, <3>3, <3>4, <3>5
  <2>10. RunSound'
    <3>1. ~(run.expires = 0 /\ ~deletion.started)
      BY <1>5, <2>1 DEF RunSound, Untouched
    <3>2. run.manifest # {} => DOMAIN copy' = Chunks'
      BY <1>1, <2>1, <2>2, <2>4 DEF RunSound
    <3>3. DOMAIN copy' \subseteq DOMAIN recorded'
      BY <1>5, <2>1, <2>4, <2>5 DEF RunSound
    <3>4. ASSUME NEW y \in DOMAIN copy' \cap DOMAIN recorded' PROVE copy'[y] = recorded'[y] \/ y \in doubled
      <4>1. CASE y = x
        BY <1>1, <2>1, <2>4, <2>5, <2>7, <4>1 DEF RunSound
      <4>2. CASE y # x
        BY <2>1, <2>4, <2>5, <4>2 DEF RunSound
      <4> QED BY <4>1, <4>2
    <3>5. ASSUME NEW o \in Collectors, NEW y \in Chunks \ doubled, Holds(o, y)'
          PROVE  /\ y \notin DOMAIN recorded'
                 /\ \A other \in Collectors : Holds(other, y)' => other = o
      <4>1. Holds(o, y) /\ o # k
        BY <2>8, <3>5
      <4>2. y \notin DOMAIN recorded /\ \A other \in Collectors : Holds(other, y) => other = o
        BY <2>1, <4>1 DEF RunSound
      <4>3. y # x
        BY <2>7, <4>1, <4>2
      <4> QED BY <2>5, <2>8, <4>2, <4>3
    <3> QED BY <1>3, <2>2, <3>1, <3>2, <3>3, <3>4, <3>5 DEF RunSound
  <2>11. run.steady /\ run.manifest = {} /\ ~deletion'.started => Everything' = snapshot
    BY <2>2 DEF ExportInvariant, SteadySound
  <2> QED BY <1>3, <2>2, <2>6, <2>9, <2>10, <2>11, ExportQuiet
<1> QED BY <1>4, <1>5

LEMMA FinishHolds ==
    ASSUME ExportInvariant, ClockRuns, NEW p \in People, FinishExport(p)
    PROVE  ExportInvariant'
<1>1. /\ run.open /\ run.expires > clock /\ DOMAIN copy = Chunks /\ run.manifest = {}
      /\ run' = [run EXCEPT !.manifest = DOMAIN recorded] /\ ExportAside
      /\ UNCHANGED <<recorded, collecting, copy, snapshot, doubled, replacement>>
  BY DEF FinishExport, Running
<1>2. ExportTyped /\ RunSound
  BY DEF ExportInvariant
<1>3. /\ Chunks' = Chunks /\ Everything' = Everything /\ "posts" \in DOMAIN start' /\ start'.posts \in Nat
      /\ deletion' = deletion /\ \A line : LineTrue(line)' <=> LineTrue(line)
  BY <1>1, <1>2, ExportAsideIs
<1>4. /\ run' \in RunSet' /\ run'.open = run.open /\ run'.steady = run.steady /\ run'.expires = run.expires
      /\ run'.manifest = DOMAIN recorded
  <2>1. run \in RunSet /\ DOMAIN recorded \subseteq Chunks
    BY <1>2 DEF ExportTyped
  <2> QED BY <1>1, <1>3, <2>1 DEF RunSet
<1>5. ExportTyped'
  BY <1>1, <1>2, <1>3, <1>4 DEF ExportTyped, RequestSet, ChunkLines
<1>6. HeldBefore
  BY <1>1 DEF HeldBefore, Bodies, Holds
<1>7. run.expires # 0
  BY <1>1, ExportKnown DEF ClockRuns
<1>8. RunSound'
  BY <1>1, <1>2, <1>3, <1>4, <1>7 DEF RunSound, Holds
<1>9. run'.steady /\ run'.manifest = {} /\ ~deletion'.started => Everything' = snapshot
  BY <1>1, <1>3, <1>4 DEF ExportInvariant, SteadySound
<1> QED BY <1>1, <1>3, <1>4, <1>5, <1>6, <1>8, <1>9, ExportQuiet

LEMMA SweepHolds ==
    ASSUME ExportInvariant, SweepExpiredExports
    PROVE  ExportInvariant'
<1>1. /\ run.open /\ run' = [run EXCEPT !.open = FALSE] /\ recorded' = <<>> /\ ExportAside
      /\ UNCHANGED <<collecting, copy, snapshot, doubled, replacement>>
  BY DEF SweepExpiredExports
<1>2. ExportTyped /\ RunSound
  BY DEF ExportInvariant
<1>3. /\ Chunks' = Chunks /\ Everything' = Everything /\ "posts" \in DOMAIN start' /\ start'.posts \in Nat
      /\ deletion' = deletion /\ \A line : LineTrue(line)' <=> LineTrue(line)
  BY <1>1, <1>2, ExportAsideIs
<1>4. /\ run' \in RunSet' /\ ~run'.open /\ run'.steady = run.steady /\ run'.expires = run.expires
      /\ run'.manifest = run.manifest
  <2>1. run \in RunSet
    BY <1>2 DEF ExportTyped
  <2> QED BY <1>1, <1>3, <2>1 DEF RunSet
<1>5. DOMAIN recorded' = {} /\ recorded' = [y \in DOMAIN recorded' |-> recorded'[y]]
  BY <1>1
<1>6. ExportTyped'
  BY <1>1, <1>2, <1>3, <1>4, <1>5 DEF ExportTyped, RequestSet, ChunkLines
<1>7. HeldBefore
  BY <1>1, <1>5 DEF HeldBefore, Bodies, Holds
<1>8. ~(run.expires = 0 /\ ~deletion.started)
  BY <1>1, <1>2 DEF RunSound, Untouched
<1>9. RunSound'
  BY <1>1, <1>2, <1>3, <1>4, <1>5, <1>8 DEF RunSound, Holds
<1>10. run'.steady /\ run'.manifest = {} /\ ~deletion'.started => Everything' = snapshot
  BY <1>3, <1>4 DEF ExportInvariant, SteadySound
<1> QED BY <1>1, <1>3, <1>4, <1>6, <1>7, <1>9, <1>10, ExportQuiet

(* A chunk is handed out again, or read and handed out. *)
LEMMA ChunkHolds ==
    ASSUME ExportInvariant, EndsInvariant, RoomsSound, ClockRuns, NEW k \in Collectors, NEW p \in People,
           NEW x \in Chunks, ExportChunk(k, p, x)
    PROVE  ExportInvariant'
<1>1. /\ ~deletion.on /\ run.open /\ run.expires > clock /\ collecting[k].pc = "idle"
      /\ IF x \in DOMAIN recorded
         THEN copy' = Keep(x, recorded[x]) /\ UNCHANGED <<collecting, doubled>>
         ELSE /\ collecting' = [collecting EXCEPT ![k] = [pc |-> "holding", chunk |-> x, body |-> Rows(x)]]
              /\ doubled' = IF \E other \in Collectors : collecting[other].chunk = x
                            THEN doubled \cup {x} ELSE doubled
              /\ UNCHANGED copy
      /\ ExportAside /\ UNCHANGED <<run, recorded, snapshot, replacement>>
  BY DEF ExportChunk, Owner, Enters, Running
<1>2. ExportTyped /\ RunSound /\ LinesSound /\ SteadySound
  BY DEF ExportInvariant
<1>3. /\ Chunks' = Chunks /\ Everything' = Everything /\ "posts" \in DOMAIN start' /\ start'.posts \in Nat
      /\ deletion' = deletion /\ done' = done /\ UNCHANGED <<rooms, posts>>
      /\ \A line : LineTrue(line)' <=> LineTrue(line)
  BY <1>1, <1>2, ExportAsideIs
<1>4. run.expires # 0 /\ ~deletion.started /\ "content" \notin done
  <2>1. run.expires # 0
    BY <1>1, ExportKnown DEF ClockRuns
  <2> QED BY <1>1, <2>1 DEF EndsInvariant, PurgeSound
<1>5. run.steady /\ run.manifest = {} => Everything = snapshot
  BY <1>2, <1>4 DEF SteadySound
<1>6. CASE x \in DOMAIN recorded
  <2>1. /\ DOMAIN copy' = DOMAIN copy \cup {x} /\ copy'[x] = recorded[x]
        /\ copy' = [y \in DOMAIN copy' |-> copy'[y]]
        /\ \A y \in DOMAIN copy : y # x => copy'[y] = copy[y]
    <3>1. copy' = Keep(x, recorded[x])
      BY <1>1, <1>6
    <3>2. PICK body : body = recorded[x]
      OBVIOUS
    <3>3. copy' = Keep(x, body)
      BY <3>1, <3>2
    <3> QED BY <3>2, <3>3, KeepIs
  <2>2. UNCHANGED <<collecting, doubled>>
    BY <1>1, <1>6
  <2>3. ExportTyped'
    BY <1>1, <1>2, <1>3, <2>1, <2>2 DEF ExportTyped, RequestSet, RunSet, ChunkLines
  <2>4. HeldBefore
    <3> SUFFICES ASSUME NEW y \in Chunks, NEW held \in Bodies(y)' PROVE held \in Bodies(y)
      BY DEF HeldBefore
    <3>1. \/ \E o \in Collectors : Holds(o, y) /\ held = collecting[o].body
          \/ y \in DOMAIN recorded /\ held = recorded[y]
          \/ y \in DOMAIN copy' /\ held = copy'[y]
      BY <1>1, <2>2 DEF Bodies, Holds
    <3>2. recorded[x] \in Bodies(x)
      BY <1>6, BodiesAre
    <3> QED BY <2>1, <3>1, <3>2, BodiesAre
  <2>5. RunSound'
    <3>1. run.manifest # {} => DOMAIN copy' = Chunks'
      BY <1>2, <1>3, <2>1 DEF RunSound
    <3>2. DOMAIN copy' \subseteq DOMAIN recorded
      BY <1>1, <1>2, <1>6, <2>1 DEF RunSound
    <3>3. \A y \in DOMAIN copy' \cap DOMAIN recorded : copy'[y] = recorded[y] \/ y \in doubled
      BY <1>2, <2>1 DEF RunSound
    <3> QED BY <1>1, <1>2, <1>3, <1>4, <2>2, <3>1, <3>2, <3>3 DEF RunSound, Holds
  <2> QED BY <1>1, <1>3, <1>5, <2>3, <2>4, <2>5, ExportQuiet
<1>7. CASE x \notin DOMAIN recorded
  <2>1. PICK rowsOf : rowsOf = Rows(x)
    OBVIOUS
  <2>2. PICK new : new = [pc |-> "holding", chunk |-> x, body |-> rowsOf]
    OBVIOUS
  <2>3. rowsOf \subseteq ChunkLines /\ \A line \in rowsOf : LineTrue(line)
    BY <1>2, <2>1, RowsAre DEF LineTrue
  <2>4. new \in RequestSet /\ new.pc = "holding" /\ new.chunk = x /\ new.body = rowsOf
    BY <2>2, <2>3 DEF RequestSet
  <2>5. collecting' = [collecting EXCEPT ![k] = new] /\ UNCHANGED copy
    BY <1>1, <1>7, <2>1, <2>2
  <2>6. /\ doubled \subseteq doubled' /\ doubled' \subseteq doubled \cup {x}
        /\ (\E other \in Collectors : Holds(other, x)) => x \in doubled'
    BY <1>1, <1>7 DEF Holds
  <2>7. /\ collecting' \in [Collectors -> RequestSet'] /\ collecting'[k] = new
        /\ \A o \in Collectors : collecting'[o].pc # "idle" => collecting'[o].chunk \in Chunks
        /\ \A o \in Collectors \ {k} : collecting'[o] = collecting[o]
    BY <1>2, <1>3, <2>4, <2>5, RequestReplaced
  <2>8. ExportTyped'
    BY <1>1, <1>2, <1>3, <2>5, <2>7 DEF ExportTyped, RunSet, ChunkLines
  <2>9. \A y : ~Holds(k, y) /\ (Holds(k, y)' <=> y = x)
    BY <1>1, <2>4, <2>7 DEF Holds
  <2>10. \A y : \A o \in Collectors \ {k} : Holds(o, y)' <=> Holds(o, y)
    BY <2>7 DEF Holds
  <2>11. ASSUME NEW y \in Chunks, NEW held \in Bodies(y)' PROVE held \in Bodies(y) \/ (y = x /\ held = rowsOf)
    <3>1. \/ \E o \in Collectors : Holds(o, y)' /\ held = collecting'[o].body
          \/ y \in DOMAIN recorded /\ held = recorded[y]
          \/ y \in DOMAIN copy /\ held = copy[y]
      <4>1. recorded' = recorded /\ copy' = copy
        BY <1>1, <2>5
      <4>2. \/ held \in {collecting'[o].body : o \in {o \in Collectors : Holds(o, y)'}}
            \/ y \in DOMAIN recorded' /\ held = recorded'[y]
            \/ y \in DOMAIN copy' /\ held = copy'[y]
        BY <2>11 DEF Bodies
      <4> QED BY <4>1, <4>2
    <3>0. \/ \E o \in Collectors : Holds(o, y) /\ held = collecting[o].body
          \/ y \in DOMAIN recorded /\ held = recorded[y]
          \/ y \in DOMAIN copy /\ held = copy[y]
          => held \in Bodies(y)
      BY BodiesAre
    <3>2. CASE \E o \in Collectors : Holds(o, y)' /\ held = collecting'[o].body
      <4>1. PICK o \in Collectors : Holds(o, y)' /\ held = collecting'[o].body
        BY <3>2
      <4>2. CASE o = k
        <5>1. y = x
          BY <2>9, <4>1, <4>2
        <5>2. held = rowsOf
          BY <2>4, <2>7, <4>1, <4>2
        <5> QED BY <5>1, <5>2
      <4>3. CASE o # k
        <5>1. Holds(o, y) /\ held = collecting[o].body
          BY <2>7, <2>10, <4>1, <4>3
        <5> QED BY <5>1, <3>0
      <4> QED BY <4>2, <4>3
    <3>3. CASE y \in DOMAIN recorded /\ held = recorded[y]
      BY <3>3, <3>0
    <3>4. CASE y \in DOMAIN copy /\ held = copy[y]
      BY <3>4, <3>0
    <3> QED BY <3>1, <3>2, <3>3, <3>4
  <2>12. RunSound'
    <3>1. ASSUME NEW o \in Collectors, NEW y \in Chunks \ doubled', Holds(o, y)'
          PROVE  /\ y \notin DOMAIN recorded
                 /\ \A other \in Collectors : Holds(other, y)' => other = o
      <4>1. CASE o = k
        <5>1. y = x
          BY <2>9, <3>1, <4>1
        <5> QED BY <1>7, <2>6, <2>10, <3>1, <4>1, <5>1
      <4>2. CASE o # k
        <5>1. Holds(o, y) /\ y \notin doubled
          BY <2>6, <2>10, <3>1, <4>2
        <5>2. y # x
          BY <2>6, <3>1, <5>1
        <5> QED BY <1>2, <2>9, <2>10, <5>1, <5>2 DEF RunSound
      <4> QED BY <4>1, <4>2
    <3>2. \A y \in DOMAIN copy \cap DOMAIN recorded : copy[y] = recorded[y] \/ y \in doubled'
      BY <1>2, <2>6 DEF RunSound
    <3> QED BY <1>1, <1>2, <1>3, <1>4, <2>5, <3>1, <3>2 DEF RunSound
  <2>13. LinesSound'
    <3>1. \A y \in Chunks' : \A held \in Bodies(y)' : held \subseteq ChunkLines'
      BY <1>2, <1>3, <2>3, <2>11 DEF LinesSound, ChunkLines
    <3>2. ASSUME NEW line \in HeldLines' PROVE LineTrue(line) /\ LineTrue(line)'
      <4>1. PICK y \in Chunks : \E held \in Bodies(y)' : line \in held
        BY <1>3 DEF HeldLines
      <4>2. PICK held \in Bodies(y)' : line \in held
        BY <4>1
      <4> QED BY <1>2, <1>3, <2>3, <2>11, <4>2 DEF LinesSound, HeldLines
    <3>3. ASSUME NEW line \in HeldLines', NEW root \in HeldLines', line.root # 0, root.post = line.root
          PROVE  root.room = line.room
      BY <1>4, <3>2, <3>3, RootsAgree
    <3> QED BY <3>1, <3>2, <3>3 DEF LinesSound
  <2>14. SteadySound'
    <3>1. \A y \in Chunks : Snapped(y)' = Snapped(y)
      BY <1>1 DEF Snapped, Among
    <3>2. run.manifest = {}
      BY <1>1, <1>2, <1>7 DEF RunSound
    <3>3. run.steady => rowsOf = Snapped(x)
      BY <1>2, <1>5, <2>1, <3>2, EverythingIs DEF Snapped
    <3>4. run'.steady => \A y \in Chunks' : \A held \in Bodies(y)' : held = Snapped(y)'
      BY <1>1, <1>2, <1>3, <2>11, <3>1, <3>3 DEF SteadySound
    <3>5. \A line \in snapshot' : \E y \in Chunks' : Among(y, line)'
      BY <1>1, <1>2, <1>3 DEF SteadySound, Among
    <3> QED BY <1>1, <1>3, <1>5, <3>4, <3>5 DEF SteadySound
  <2>15. ReplacementSound'
    BY <1>1 DEF ExportInvariant, ReplacementSound, Line
  <2> QED BY <2>8, <2>12, <2>13, <2>14, <2>15 DEF ExportInvariant
<1> QED BY <1>6, <1>7

LEMMA RestoreHolds ==
    ASSUME ExportInvariant, RestoreFromExport
    PROVE  ExportInvariant'
<1>1. PICK lines : lines = LinesOf(copy)
  OBVIOUS
<1>2. PICK whole \in BOOLEAN :
         whole <=> \A line \in lines : line.post # 0 =>
                    /\ \E room \in lines : room.post = 0 /\ room.room = line.room
                    /\ line.root # 0 => \E root \in lines : root.post = line.root
  OBVIOUS
<1>3. /\ run.manifest # {} /\ ~replacement.made /\ ExportAside
      /\ replacement' = IF whole
            THEN [made |-> TRUE, epoch |-> replacement.epoch + 1, lines |-> lines] ELSE replacement
      /\ UNCHANGED <<run, recorded, collecting, copy, snapshot, doubled>>
  BY <1>1, <1>2 DEF RestoreFromExport
<1>4. ExportTyped /\ RunSound /\ LinesSound /\ SteadySound
  BY DEF ExportInvariant
<1>5. /\ Chunks' = Chunks /\ Everything' = Everything /\ "posts" \in DOMAIN start' /\ start'.posts \in Nat
      /\ deletion' = deletion /\ \A line : LineTrue(line)' <=> LineTrue(line)
  BY <1>3, <1>4, ExportAsideIs
<1>6. DOMAIN copy = Chunks
  BY <1>3, <1>4 DEF RunSound
<1>7. \A line : line \in lines <=> \E x \in Chunks : line \in copy[x]
  BY <1>1, <1>6 DEF LinesOf
<1>8. \A x \in Chunks : copy[x] \in Bodies(x)
  BY <1>6, BodiesAre
<1>9. lines \subseteq HeldLines /\ lines \subseteq ChunkLines
  BY <1>4, <1>7, <1>8 DEF HeldLines, LinesSound
<1>10. run.steady => lines = snapshot
  <2> SUFFICES ASSUME run.steady PROVE lines = snapshot
    OBVIOUS
  <2>1. \A x \in Chunks : copy[x] = Snapped(x)
    BY <1>4, <1>8 DEF SteadySound
  <2>2. \A line : line \in lines <=> \E x \in Chunks : line \in snapshot /\ Among(x, line)
    BY <1>7, <2>1 DEF Snapped
  <2>3. \A line \in snapshot : \E x \in Chunks : Among(x, line)
    BY <1>4 DEF SteadySound
  <2> QED BY <2>2, <2>3
<1>11. ExportTyped'
  <2>1. replacement' \in [made : BOOLEAN, epoch : Nat, lines : SUBSET ChunkLines]
    <3>1. replacement \in [made : BOOLEAN, epoch : Nat, lines : SUBSET ChunkLines]
      BY <1>4 DEF ExportTyped
    <3>2. replacement.epoch + 1 \in Nat
      BY <3>1
    <3> QED BY <1>3, <1>9, <3>1, <3>2
  <2> QED BY <1>3, <1>4, <1>5, <2>1 DEF ExportTyped, RequestSet, RunSet, ChunkLines
<1>12. \A x : Bodies(x)' = Bodies(x)
  BY <1>3 DEF Bodies, Holds
<1>13. RunSound'
  BY <1>3, <1>4, <1>5 DEF RunSound, Holds, Untouched
<1>14. LinesSound'
  <2>1. HeldBefore
    BY <1>12 DEF HeldBefore
  <2> QED BY <1>4, <1>5, <2>1, LinesStay
<1>15. SteadySound'
  BY <1>3, <1>4, <1>5, <1>12 DEF SteadySound, Snapped, Among
<1>16. ReplacementSound'
  <2>1. CASE ~whole
    BY <1>3, <2>1 DEF ReplacementSound
  <2>2. CASE whole
    <3>1. replacement'.lines = lines
      BY <1>3, <2>2
    <3>2. ASSUME NEW line \in lines, line.post # 0
          PROVE  /\ Line(line.room, 0, 0, FALSE) \in lines
                 /\ line.root # 0 => \E root \in lines : root.post = line.root /\ root.room = line.room
      <4>1. PICK room \in lines : room.post = 0 /\ room.room = line.room
        BY <1>2, <2>2, <3>2
      <4>2. room = Line(line.room, 0, 0, FALSE)
        BY <1>4, <1>9, <4>1 DEF LinesSound, LineTrue
      <4>3. ASSUME line.root # 0 PROVE \E root \in lines : root.post = line.root /\ root.room = line.room
        BY <1>2, <1>4, <1>9, <2>2, <3>2, <4>3 DEF LinesSound
      <4> QED BY <4>1, <4>2, <4>3
    <3> QED BY <1>3, <1>10, <3>1, <3>2 DEF ReplacementSound, Line
  <2> QED BY <2>1, <2>2
<1> QED BY <1>11, <1>13, <1>14, <1>15, <1>16 DEF ExportInvariant

LEMMA ExportStepHolds ==
    ASSUME ExportInvariant, EndsInvariant, RoomsSound, ClockRuns, ExportStep
    PROVE  ExportInvariant'
<1>1. CASE \E p \in People : BeginExport(p) \/ FinishExport(p)
  BY <1>1, BeginExportHolds, FinishHolds
<1>2. CASE \E p \in People, k \in Collectors : BeginRecording(k, p) \/ \E x \in Chunks : ExportChunk(k, p, x)
  <2>1. PICK p \in People, k \in Collectors : BeginRecording(k, p) \/ \E x \in Chunks : ExportChunk(k, p, x)
    BY <1>2
  <2>2. CASE BeginRecording(k, p)
    BY <2>2, RequestsMove
  <2>3. CASE \E x \in Chunks : ExportChunk(k, p, x)
    BY <2>3, ChunkHolds
  <2> QED BY <2>1, <2>2, <2>3
<1>3. CASE \E k \in Collectors : RecordExportChunk(k) \/ LoseChunk(k)
  BY <1>3, RecordHolds, RequestsMove
<1>4. CASE SweepExpiredExports \/ RestoreFromExport
  BY <1>4, SweepHolds, RestoreHolds
<1> QED BY <1>1, <1>2, <1>3, <1>4 DEF ExportStep

(* What a step of a deletion does to an export. *)
ExportEnds ==
    /\ UNCHANGED <<collecting, copy, snapshot, doubled, replacement, start>>
    /\ \/ recorded' = recorded /\ run' = run
       \/ recorded' = <<>> /\ run' = NoRun /\ deletion'.started
    /\ deletion.started => deletion'.started
    /\ done \subseteq done'
    /\ UNCHANGED <<rooms, posts>> \/ ("content" \in done' /\ deletion'.started)

LEMMA ExportMayEnd ==
    ASSUME EndsInvariant, StorageInvariant, DeletionStep
    PROVE  ExportEnds
<1>1. PurgeSound /\ deletion \in DeletionSet
  BY DeletionTyped DEF EndsInvariant
<1>2. CASE UNCHANGED <<done, exportVars, roomVars>> /\ (deletion.started => deletion'.started)
  BY <1>2 DEF ExportEnds, exportVars, roomVars, content
<1>3. CASE \E p \in People : RequestWorkspaceDeletion(p) \/ CancelWorkspaceDeletion(p)
  <2>1. UNCHANGED <<done, exportVars, roomVars>>
    BY <1>3 DEF RequestWorkspaceDeletion, CancelWorkspaceDeletion, RowsStay, tenancyVars, purgeVars
  <2>2. ~deletion.started
    BY <1>1, <1>3 DEF RequestWorkspaceDeletion, CancelWorkspaceDeletion, Owner, Enters, PurgeSound
  <2> QED BY <1>2, <2>1, <2>2
<1>4. CASE ReadReceipt
  BY <1>2, <1>4 DEF ReadReceipt, RowsStay
<1>5. CASE \E c \in PurgeCalls, flag \in BOOLEAN : LosePurge(c, flag)
  BY <1>2, <1>5 DEF LosePurge
<1>6. CASE \E c \in PurgeCalls : SealPurge(c)
  <2>1. UNCHANGED <<done, exportVars, roomVars>>
    BY <1>6 DEF SealPurge, RowsStay
  <2>2. PICK c \in PurgeCalls : deletion' = [deletion EXCEPT !.receipt = purging[c].at]
    BY <1>6 DEF SealPurge
  <2>3. deletion.started => deletion'.started
    BY <1>1, <2>2 DEF DeletionSet
  <2> QED BY <1>2, <2>1, <2>3
<1>7. CASE \E c \in PurgeCalls, flag \in BOOLEAN : PurgeAttachments(c, flag)
  <2>1. UNCHANGED <<deletion, exportVars, roomVars>> /\ done \subseteq done'
    BY <1>7 DEF PurgeAttachments
  <2> QED BY <2>1 DEF ExportEnds, exportVars, roomVars, content
<1>8. CASE \E c \in PurgeCalls, flag \in BOOLEAN : BeginPurge(c, flag)
  <2>1. PICK stage : stage = NextStage
    OBVIOUS
  <2>2. /\ deletion' = [deletion EXCEPT !.started = TRUE]
        /\ UNCHANGED <<collecting, copy, snapshot, doubled, replacement>>
        /\ UNCHANGED <<roomVars, recorded, run, done>> \/ RunStage(stage)
    BY <1>8, <2>1 DEF BeginPurge
  <2>3. deletion'.started
    BY <1>1, <2>2 DEF DeletionSet
  <2>4. CASE UNCHANGED <<roomVars, recorded, run, done>>
    BY <2>2, <2>3, <2>4 DEF ExportEnds, roomVars, content
  <2>5. CASE RunStage(stage)
    <3>1. done \subseteq done' /\ (stage = "content" => "content" \in done')
      BY <2>5 DEF RunStage
    <3>2. \/ recorded' = recorded /\ run' = run
          \/ recorded' = <<>> /\ run' = NoRun
      BY <2>5 DEF RunStage
    <3>3. start' = start /\ (stage # "content" => UNCHANGED <<rooms, posts>>)
      BY <2>5 DEF RunStage, EmptyRooms, roomVars, content
    <3> QED BY <2>2, <2>3, <3>1, <3>2, <3>3 DEF ExportEnds
  <2> QED BY <2>2, <2>4, <2>5
<1> QED BY <1>3, <1>4, <1>5, <1>6, <1>7, <1>8 DEF DeletionStep

LEMMA DeletionExports ==
    ASSUME ExportInvariant, EndsInvariant, StorageInvariant, DeletionStep
    PROVE  ExportInvariant'
<1>1. ExportEnds
  BY ExportMayEnd
<1>2. ExportTyped /\ RunSound /\ LinesSound /\ SteadySound
  BY DEF ExportInvariant
<1>3. Chunks' = Chunks /\ "posts" \in DOMAIN start' /\ start'.posts \in Nat
  BY <1>1, <1>2 DEF Chunks, ExportEnds, ExportTyped
<1>4. /\ run' \in RunSet /\ DOMAIN recorded' \subseteq Chunks
      /\ recorded' = [x \in DOMAIN recorded' |-> recorded'[x]]
      /\ DOMAIN recorded' \subseteq DOMAIN recorded
      /\ \A x \in DOMAIN recorded' : recorded'[x] = recorded[x]
      /\ \/ run' = run
         \/ run' = NoRun /\ deletion'.started
  <2>1. CASE recorded' = recorded /\ run' = run
    BY <1>2, <2>1 DEF ExportTyped
  <2>2. CASE recorded' = <<>> /\ run' = NoRun /\ deletion'.started
    <3>1. NoRun \in RunSet
      BY ExportKnown
    <3>2. DOMAIN recorded' = {} /\ recorded' = [x \in {} |-> recorded'[x]]
      BY <2>2
    <3> QED BY <2>2, <3>1, <3>2
  <2> QED BY <1>1, <2>1, <2>2 DEF ExportEnds
<1>5. ExportTyped'
  BY <1>1, <1>2, <1>3, <1>4 DEF ExportTyped, ExportEnds, RequestSet, RunSet, ChunkLines
<1>6. \A x : \A k \in Collectors : Holds(k, x)' <=> Holds(k, x)
  BY <1>1 DEF ExportEnds, Holds
<1>7. RunSound'
  <2>1. CASE recorded' = recorded /\ run' = run
    BY <1>1, <1>2, <1>3, <1>6, <2>1 DEF RunSound, ExportEnds, Untouched
  <2>2. CASE recorded' = <<>> /\ run' = NoRun /\ deletion'.started
    <3>1. ~NoRun.open /\ NoRun.manifest = {} /\ DOMAIN recorded' = {}
      BY <2>2 DEF NoRun
    <3> QED BY <1>1, <1>2, <1>3, <1>6, <2>2, <3>1 DEF RunSound, ExportEnds
  <2> QED BY <1>1, <2>1, <2>2 DEF ExportEnds
<1>8. HeldBefore
  <2> SUFFICES ASSUME NEW y \in Chunks, NEW held \in Bodies(y)' PROVE held \in Bodies(y)
    BY DEF HeldBefore
  <2>1. \/ \E k \in Collectors : Holds(k, y)' /\ held = collecting'[k].body
        \/ y \in DOMAIN recorded' /\ held = recorded'[y]
        \/ y \in DOMAIN copy' /\ held = copy'[y]
    BY DEF Bodies
  <2>2. collecting' = collecting /\ copy' = copy
    BY <1>1 DEF ExportEnds
  <2> QED BY <1>4, <1>6, <2>1, <2>2, BodiesAre
<1>9. \A line : LineTrue(line) => LineTrue(line)'
  <2>1. CASE UNCHANGED posts
    BY <1>1, <2>1 DEF LineTrue, Line, Posts, ExportEnds
  <2>2. CASE "content" \in done'
    BY <2>2 DEF LineTrue, Line
  <2> QED BY <1>1, <2>1, <2>2 DEF ExportEnds
<1>10. run'.steady => run.steady
  BY <1>4 DEF NoRun
<1>11. ASSUME run'.steady, run'.manifest = {}, ~deletion'.started PROVE Everything' = snapshot
  <2>1. UNCHANGED <<rooms, posts>> /\ run' = run /\ ~deletion.started
    BY <1>1, <1>4, <1>11 DEF ExportEnds
  <2>2. start'.posts = start.posts
    BY <1>1 DEF ExportEnds
  <2> QED BY <1>2, <1>3, <1>11, <2>1, <2>2, SameTables DEF SteadySound
<1> QED BY <1>1, <1>3, <1>5, <1>7, <1>8, <1>9, <1>10, <1>11, ExportQuiet DEF ExportEnds

(* An export takes nothing from the files and nothing back from a purge.    *)
LEMMA ExportEndsHold ==
    ASSUME StorageInvariant, EndsInvariant, AsAWhole' = AsAWhole, ExportStep, ExportInvariant
    PROVE  StorageInvariant' /\ EndsInvariant'
<1>1. ExportAside
  BY DEF ExportStep, BeginExport, FinishExport, BeginRecording, ExportChunk, RecordExportChunk, LoseChunk,
         SweepExpiredExports, RestoreFromExport
<1>2. /\ deletion' = deletion /\ UNCHANGED storageVars /\ UNCHANGED roomVars /\ UNCHANGED purgeVars
  BY <1>1, ExportAsideIs DEF ExportInvariant
<1>3. UNCHANGED billingRows
  BY EndsAside, WithinKeepsBilling
<1>4. StorageInvariant'
  <2>1. UNCHANGED posts
    BY <1>2 DEF roomVars, content
  <2> QED BY <1>2, <1>3, <2>1, SamePosts, FilesAreLeft DEF billingRows
<1>5. CASE ~deletion.on
  BY <1>2, <1>4, <1>5, EndsAreFar
<1>6. CASE deletion.on
  <2>1. \A p \in People : ~Owner(p)
    BY <1>6 DEF Owner, Enters
  <2>2. "scheduler" \in done => ~run.open
    BY DEF EndsInvariant, PurgeSound, NoRun
  <2>3. UNCHANGED <<recorded, run>> \/ run.open
    BY <2>1 DEF ExportStep, BeginExport, FinishExport, BeginRecording, ExportChunk, RecordExportChunk, LoseChunk,
                SweepExpiredExports, RestoreFromExport
  <2>4. UNCHANGED <<files, content, notices>>
    BY <1>2 DEF storageVars, roomVars, notified
  <2> QED BY <1>2, <1>4, <2>2, <2>3, <2>4, EndsAreLeft
<1> QED BY <1>5, <1>6

(* Steps that leave an export as it is, but for whether it is still steady. *)
StartStays == "posts" \in DOMAIN start' /\ start'.posts = start.posts
RunStays ==
    /\ run' \in RunSet /\ run'.open = run.open /\ run'.expires = run.expires /\ run'.manifest = run.manifest
    /\ run'.steady => run.steady /\ (run.manifest # {} \/ Everything' = Everything)

LEMMA ExportStays ==
    ASSUME ExportInvariant, StartStays, PostsGrow, RunStays,
           UNCHANGED <<recorded, collecting, copy, snapshot, doubled, replacement>>,
           UNCHANGED <<deletion, done>>
    PROVE  ExportInvariant'
<1>1. ExportTyped /\ RunSound /\ LinesSound /\ SteadySound
  BY DEF ExportInvariant
<1>2. Chunks' = Chunks /\ "posts" \in DOMAIN start' /\ start'.posts \in Nat
  BY <1>1 DEF Chunks, ExportTyped, StartStays
<1>3. ExportTyped'
  BY <1>1, <1>2 DEF ExportTyped, RequestSet, RunSet, ChunkLines, RunStays
<1>4. \A x : \A k \in Collectors : Holds(k, x)' <=> Holds(k, x)
  BY DEF Holds
<1>5. RunSound'
  BY <1>1, <1>2, <1>4 DEF RunSound, RunStays, Untouched
<1>6. HeldBefore
  BY DEF HeldBefore, Bodies, Holds
<1>7. ASSUME NEW line, LineTrue(line) PROVE LineTrue(line)'
  BY <1>7 DEF LineTrue, Line, PostsGrow
<1>8. run'.steady => run.steady
  BY DEF RunStays
<1>9. run'.steady /\ run'.manifest = {} /\ ~deletion'.started => Everything' = snapshot
  BY <1>1 DEF RunStays, SteadySound
<1> QED BY <1>2, <1>3, <1>5, <1>6, <1>7, <1>8, <1>9, ExportQuiet

LEMMA ExportAlone ==
    ASSUME ExportInvariant, UNCHANGED <<exportVars, deletion, done, rooms, posts, start>>
    PROVE  ExportInvariant'
<1>1. ExportTyped
  BY DEF ExportInvariant
<1>2. StartStays
  BY <1>1 DEF StartStays, ExportTyped
<1>3. UNCHANGED <<run, recorded, collecting, copy, snapshot, doubled, replacement>>
  BY DEF exportVars
<1>4. Everything' = Everything
  BY <1>1, <1>2, SameTables DEF StartStays
<1>5. RunStays
  BY <1>1, <1>3, <1>4 DEF RunStays, ExportTyped
<1> QED BY <1>2, <1>3, <1>5, SamePosts, ExportStays

(* What the files, the purge and the export hold together. *)
WholeHolds == StorageInvariant /\ EndsInvariant /\ ExportInvariant

LEMMA EndsHoldWhole ==
    ASSUME WholeHolds, RoomsSound, ClockRuns, AsAWhole' = AsAWhole, DeletionStep \/ ExportStep
    PROVE  WholeHolds'
<1>1. StorageInvariant /\ EndsInvariant /\ ExportInvariant
  BY DEF WholeHolds
<1>2. CASE DeletionStep
  BY <1>1, <1>2, DeletionStepHolds, DeletionExports DEF WholeHolds
<1>3. CASE ExportStep
  BY <1>1, <1>3, ExportEndsHold, ExportStepHolds DEF WholeHolds
<1> QED BY <1>2, <1>3

LEMMA UploadsHoldWhole ==
    ASSUME WholeHolds, RoomsSound, ClockRuns, allowance.quota \in Nat, AsAWhole, AsAWhole',
           UploadStep \/ ReclaimStep, UNCHANGED <<roomVars, tenancyVars>>
    PROVE  WholeHolds'
<1>1. StorageInvariant' /\ EndsInvariant'
  BY UploadsHold DEF WholeHolds, RoomsSound
<1>2. UNCHANGED <<exportVars, deletion, done, rooms, posts, start>>
  BY UploadsKeepDeletion DEF tenancyVars, purgeVars, roomVars, content
<1> QED BY <1>1, <1>2, ExportAlone DEF WholeHolds

LEMMA FundingHoldsWhole ==
    ASSUME WholeHolds, clock \in Nat, clock' \in Nat, clock <= clock', allowance'.quota \in Nat,
           AsAWhole' = AsAWhole, FundingStep, UNCHANGED <<roomVars, tenancyVars>>
    PROVE  WholeHolds'
<1>1. /\ UNCHANGED <<rooms, posts, start, content, notices>>
      /\ UNCHANGED <<recorded, run, done, exportVars, purgeVars>>
  BY DEF tenancyVars, purgeVars, exportVars, roomVars, content, notified
<1>2. /\ peak' = MaxOf(peak, allowance'.quota)
      /\ UNCHANGED <<files, objects, transfers, sweep, deletion, blemished, stranded, overdue>>
  BY DEF FundingStep
<1>3. StorageInvariant'
  BY <1>1, <1>2, FundingHolds DEF WholeHolds
<1>4. EndsInvariant'
  BY <1>1, <1>2, EndsAreLeft DEF WholeHolds
<1>5. ExportInvariant'
  BY <1>1, <1>2, ExportAlone DEF WholeHolds
<1> QED BY <1>3, <1>4, <1>5 DEF WholeHolds

LEMMA WritingMoves ==
    ASSUME RoomsSound, WritingStep
    PROVE  PostsGrow /\ \E name : Move(name)
<1>1. SendStep \/ RoomStep
  BY DEF WritingStep
<1>2. CASE SendStep
  <2>1. PICK p \in People, r \in Rooms, parent \in Posts \cup {0}, to \in Addressed,
             keyworded \in {{}, People}, viaForm \in BOOLEAN :
           SendMessage(p, r, parent, to, keyworded, viaForm)
    BY <1>2 DEF SendStep
  <2>2. Move("send")
    BY <2>1 DEF SendMessage
  <2>3. PostsGrow
    BY <2>1, SendKeeps
  <2> QED BY <2>2, <2>3
<1>3. CASE RoomStep
  <2>1. PICK p \in People, r \in Rooms :
         \/ \E kind, others : CreateChannel(p, r, kind, others)
         \/ \E others : OpenDirectMessage(p, others, r)
         \/ JoinChannel(p, r) \/ LeaveChannel(p, r) \/ ArchiveChannel(p, r)
         \/ \E q : AddChannelMember(p, r, q)
    BY <1>3 DEF RoomStep
  <2>2. \E name : Move(name)
    BY Zenon, <2>1 DEF CreateChannel, OpenDirectMessage, JoinChannel, LeaveChannel, ArchiveChannel,
       AddChannelMember
  <2> QED BY <1>3, <2>2, RoomStepKeeps
<1> QED BY <1>1, <1>2, <1>3

LEMMA WritingHoldsWhole ==
    ASSUME WholeHolds, RoomsSound, AsAWhole' = AsAWhole, WritingStep
    PROVE  WholeHolds'
<1>1. StorageInvariant /\ EndsInvariant /\ ExportInvariant /\ ExportTyped
  BY DEF WholeHolds, ExportInvariant
<1>2. PostsGrow /\ \E name : Move(name)
  BY WritingMoves
<1>3. /\ ~deletion.on
      /\ run' = [run EXCEPT !.steady = @ /\ (run.manifest # {} \/ Everything' = Everything)]
      /\ UNCHANGED <<billingVars, storageVars, purgeVars>>
      /\ UNCHANGED <<recorded, collecting, copy, snapshot, doubled, replacement>>
  BY DEF WritingStep
<1>4. UNCHANGED <<deletion, done, clock, allowance>>
  BY <1>3 DEF storageVars, purgeVars, billingVars
<1>5. StorageInvariant'
  BY <1>1, <1>2, <1>3, <1>4, FilesAreLeft
<1>6. EndsInvariant'
  BY <1>1, <1>3, <1>4, EndsAreFar
<1>7. StartStays
  <2>1. PICK name : start' = [start EXCEPT !.steps = @ - 1]
    BY <1>2 DEF Move
  <2>2. "posts" \in DOMAIN start
    BY <1>1 DEF ExportTyped
  <2> QED BY <2>1, <2>2 DEF StartStays
<1>8. RunStays
  <2>1. PICK quiet \in BOOLEAN : quiet <=> (run.manifest # {} \/ Everything' = Everything)
    OBVIOUS
  <2>2. run \in RunSet
    BY <1>1 DEF ExportTyped
  <2>3. PICK steady \in BOOLEAN : steady <=> run.steady /\ quiet
    OBVIOUS
  <2>4. run' = [run EXCEPT !.steady = steady]
    BY <1>3, <2>1, <2>2, <2>3 DEF RunSet
  <2>5. /\ run' \in RunSet /\ run'.open = run.open /\ run'.expires = run.expires
        /\ run'.manifest = run.manifest /\ run'.steady = steady
    BY <2>2, <2>4 DEF RunSet
  <2> QED BY <2>1, <2>3, <2>5 DEF RunStays
<1>9. ExportInvariant'
  BY <1>1, <1>2, <1>3, <1>4, <1>7, <1>8, ExportStays
<1> QED BY <1>5, <1>6, <1>9 DEF WholeHolds

(* Members come and go meanwhile. *)
LEMMA QuietHoldsWhole ==
    ASSUME WholeHolds, AsAWhole' = AsAWhole, UNCHANGED tenantVars,
           UNCHANGED <<content, notices, start>>
    PROVE  WholeHolds'
<1>1. UNCHANGED <<billingVars, storageVars, tenancyVars>>
  BY DEF tenantVars
<1>2. UNCHANGED <<rooms, posts, clock, allowance, deletion, files, exportVars, purgeVars, done, recorded, run>>
  BY <1>1 DEF billingVars, storageVars, tenancyVars, purgeVars, exportVars, content
<1>3. StorageInvariant'
  BY <1>1, <1>2, SamePosts, FilesAreLeft DEF WholeHolds
<1>4. EndsInvariant'
  BY <1>2, EndsAreLeft DEF WholeHolds
<1>5. ExportInvariant'
  BY <1>2, ExportAlone DEF WholeHolds
<1> QED BY <1>3, <1>4, <1>5 DEF WholeHolds

LEMMA EndsStart == StorageInit /\ TenancyInit => EndsInvariant
<1> SUFFICES ASSUME StorageInit, TenancyInit PROVE EndsInvariant
  OBVIOUS
<1>1. /\ done = {} /\ purging = [c \in PurgeCalls |-> NoPurge] /\ told = {} /\ together = FALSE
      /\ deletion = NoDeletion
  BY DEF StorageInit, TenancyInit
<1>2. NoPurge \in PurgeSet /\ NoPurge.pc = "idle"
  BY DEF NoPurge, PurgeSet
<1>3. ~NoDeletion.on /\ ~NoDeletion.started /\ NoDeletion.receipt = 0
  BY DEF NoDeletion
<1>4. PurgeSound
  BY <1>1, <1>2, <1>3 DEF PurgeSound
<1>5. ReceiptsSound
  BY <1>1, <1>2, <1>3 DEF ReceiptsSound
<1> QED BY <1>4, <1>5 DEF EndsInvariant

LEMMA ExportStart ==
    ASSUME budget \in Scenarios, RoomsInit, TenancyInit
    PROVE  ExportInvariant
<1>1. /\ run = NoRun /\ recorded = <<>> /\ collecting = [k \in Collectors |-> NoRequest]
      /\ copy = <<>> /\ snapshot = {} /\ doubled = {} /\ replacement = Nowhere
  BY DEF TenancyInit
<1>2. "posts" \in DOMAIN start /\ start.posts \in Nat
  BY RoomsAssumption DEF RoomsInit
<1>3. /\ NoRequest \in RequestSet /\ NoRequest.pc = "idle"
      /\ NoRun \in RunSet /\ ~NoRun.open /\ ~NoRun.steady /\ NoRun.manifest = {}
      /\ Nowhere \in [made : BOOLEAN, epoch : Nat, lines : SUBSET ChunkLines] /\ ~Nowhere.made
  BY DEF NoRequest, RequestSet, NoRun, RunSet, Nowhere
<1>4. \A x : \A k \in Collectors : ~Holds(k, x)
  BY <1>1, <1>3 DEF Holds
<1>5. DOMAIN recorded = {} /\ DOMAIN copy = {}
  BY <1>1
<1>6. \A x : Bodies(x) = {}
  BY <1>4, <1>5, BodiesAre
<1>7. ExportTyped
  BY <1>1, <1>2, <1>3, <1>5 DEF ExportTyped
<1>8. RunSound
  BY <1>1, <1>3, <1>4, <1>5 DEF RunSound, Untouched
<1>9. LinesSound
  BY <1>6 DEF LinesSound, HeldLines
<1>10. SteadySound
  BY <1>1, <1>3 DEF SteadySound
<1>11. ReplacementSound
  BY <1>1, <1>3 DEF ReplacementSound
<1> QED BY <1>7, <1>8, <1>9, <1>10, <1>11 DEF ExportInvariant

(* Where neither files nor the end of the workspace are exercised. *)
LEMMA TenantRests ==
    ASSUME TenantApart, AsAWhole' = AsAWhole, ~AsAWhole => UNCHANGED <<storageVars, tenancyVars>>
    PROVE  TenantApart'
<1> SUFFICES ASSUME ~AsAWhole PROVE (StorageInit /\ TenancyAtRest)'
  BY DEF TenantApart
<1>1. StorageInit /\ TenancyAtRest
  BY DEF TenantApart
<1> QED BY <1>1 DEF StorageInit, TenancyAtRest, storageVars, tenancyVars, purgeVars, exportVars

(* The clock starts where there is time to be late, and never goes back. *)
LEMMA ClockGoesOn ==
    ASSUME ClockRuns, Next
    PROVE  ClockRuns' /\ clock <= clock'
<1>1. clock \in Nat \ {0}
  BY DEF ClockRuns
<1>2. CASE clock' = clock
  BY <1>1, <1>2 DEF ClockRuns
<1>3. CASE Tick
  <2>1. clock' = clock + 1
    BY <1>3 DEF Tick
  <2> QED BY <1>1, <2>1 DEF ClockRuns
<1>4. CASE UNCHANGED billingRows
  BY <1>2, <1>4 DEF billingRows
<1>5. CASE EventStep
  <2>1. \/ \E size \in Sizes : ProviderSays(size)
        \/ \E d \in Deliveries :
              \/ \E e \in DOMAIN events : BeginAccepting(d, e)
              \/ ReadVersion(d) \/ RecordStale(d) \/ ApplyEvent(d) \/ LoseAccepting(d)
    BY <1>5 DEF EventStep
  <2> QED BY <1>2, <2>1 DEF ProviderSays, BeginAccepting, ReadVersion, RecordStale, ApplyEvent, LoseAccepting, Dispose
<1>6. CASE AllowanceStep
  BY <1>2, <1>6 DEF AllowanceStep, BeginProjecting, ApplyStorageEntitlement, LoseProjecting
<1>7. CASE ChangePlanStep
  BY <1>2, <1>7 DEF ChangePlanStep, BeginChange, BeginCheckout, RecordChange, MarkSubmitted, ChangeExpires
<1> QED BY <1>3, <1>4, <1>5, <1>6, <1>7, OnlyBillingMoves

(* What the workspace as a whole goes by. *)
TenantInvariant == (AsAWhole => WholeHolds) /\ TenantApart /\ ClockRuns

LEMMA TenantStart ==
    ASSUME Init
    PROVE  TenantInvariant
<1>1. budget \in Scenarios /\ RoomsInit /\ BillingInit /\ StorageInit /\ TenancyInit
  BY DEF Init, MembershipInit
<1>2. StorageInvariant
  BY <1>1, StorageStart DEF BillingInit
<1>3. WholeHolds
  BY <1>1, <1>2, EndsStart, ExportStart DEF WholeHolds
<1>4. TenantApart
  BY <1>1 DEF TenantApart, TenancyAtRest, TenancyInit
<1>5. ClockRuns
  BY <1>1 DEF ClockRuns, BillingInit
<1> QED BY <1>3, <1>4, <1>5 DEF TenantInvariant

LEMMA WholeStepHolds ==
    ASSUME WholeHolds, RoomsSound, ClockRuns, ClockRuns', clock <= clock', AsAWhole, AsAWhole' = AsAWhole,
           allowance.quota \in Nat, allowance'.quota \in Nat, Next
    PROVE  WholeHolds'
<1>1. CASE IdentityStep /\ UNCHANGED <<roomsAndTabs, tenantVars>>
  <2>1. UNCHANGED <<content, notices, start>> /\ UNCHANGED tenantVars
    BY <1>1 DEF roomsAndTabs, roomVars, notified
  <2> QED BY <2>1, QuietHoldsWhole
<1>2. CASE PlaceStep
  BY <1>2 DEF PlaceStep
<1>3. CASE TenantStep
  <2>1. CASE (UploadStep \/ ReclaimStep) /\ UNCHANGED <<vars, roomVars, tenancyVars>>
    <3>1. UNCHANGED <<roomVars, tenancyVars>>
      BY <2>1
    <3> QED BY <2>1, <3>1, UploadsHoldWhole
  <2>2. CASE DeletionStep \/ ExportStep
    BY <2>2, EndsHoldWhole
  <2>3. CASE WritingStep
    BY <2>3, WritingHoldsWhole
  <2>4. CASE FundingStep /\ UNCHANGED <<vars, roomVars, tenancyVars>>
    <3>1. UNCHANGED <<roomVars, tenancyVars>> /\ clock \in Nat /\ clock' \in Nat
      BY <2>4 DEF ClockRuns
    <3> QED BY <2>4, <3>1, FundingHoldsWhole
  <2>5. CASE MembersMove /\ UNCHANGED tenantVars
    <3>1. UNCHANGED <<content, notices, start>> /\ UNCHANGED tenantVars
      BY <2>5 DEF MembersMove, notified
    <3> QED BY <3>1, QuietHoldsWhole
  <2> QED BY <1>3, <2>1, <2>2, <2>3, <2>4, <2>5 DEF TenantStep
<1> QED BY <1>1, <1>2, <1>3 DEF Next

LEMMA TenantStepHolds ==
    ASSUME ExerciseKnown, RoomsInvariant, BillingInvariant, BillingInvariant', TenantInvariant, [Next]_workspaceVars
    PROVE  TenantInvariant'
<1>1. Exercised' = Exercised /\ AsAWhole' = AsAWhole
  BY ExercisedStays
<1>2. /\ RoomsSound /\ TenantApart /\ ClockRuns /\ (AsAWhole => WholeHolds)
      /\ allowance.quota \in Nat /\ allowance'.quota \in Nat
  BY DEF RoomsInvariant, TenantInvariant, BillingInvariant, BillingTables
<1>3. CASE UNCHANGED workspaceVars
  <2>1. UNCHANGED <<storageVars, tenancyVars, clock, content, notices, start>> /\ UNCHANGED tenantVars
    BY <1>3 DEF workspaceVars, tenantVars, roomsAndTabs, billingVars, roomVars, notified
  <2>2. ClockRuns'
    BY <1>2, <2>1 DEF ClockRuns
  <2>3. TenantApart'
    BY <1>1, <1>2, <2>1, TenantRests
  <2>4. AsAWhole => WholeHolds'
    BY <1>1, <1>2, <2>1, QuietHoldsWhole
  <2> QED BY <1>1, <2>2, <2>3, <2>4 DEF TenantInvariant
<1>4. CASE Next
  <2>1. ClockRuns' /\ clock <= clock'
    BY <1>2, <1>4, ClockGoesOn
  <2>2. AsAWhole => WholeHolds'
    BY <1>1, <1>2, <1>4, <2>1, WholeStepHolds
  <2>3. ~AsAWhole => UNCHANGED <<storageVars, tenancyVars>>
    <3>1. ~AsAWhole => ~("files" \in Exercised) /\ ~("tenancy" \in Exercised)
      BY DEF AsAWhole
    <3> QED BY <1>4, <3>1 DEF Next, TenantStep, tenantVars
  <2>4. TenantApart'
    BY <1>1, <1>2, <2>3, TenantRests
  <2> QED BY <1>1, <2>1, <2>2, <2>4 DEF TenantInvariant
<1> QED BY <1>3, <1>4

LEMMA TenantHeld == Spec => []TenantInvariant
<1>1. Init => TenantInvariant
  BY TenantStart
<1>2. /\ ExerciseKnown /\ RoomsInvariant /\ BillingInvariant /\ BillingInvariant'
      /\ TenantInvariant /\ [Next]_workspaceVars
      => TenantInvariant'
  BY TenantStepHolds
<1> QED BY <1>1, <1>2, ExerciseHeld, RoomsHeld, BillingHeld, PTL DEF Spec

LEMMA FilesAreSound ==
    ASSUME StorageInvariant
    PROVE  StorageHolds
<1>1. ASSUME NEW f \in Files PROVE FileSound(f) /\ HangsOn(f)
  BY DEF StorageInvariant, FilesSound
<1>2. \A u \in Transfers, f \in Files : Moving(u, f) => UnderWay(f)
  BY DEF Moving, UnderWay
<1>3. Cardinality(InUse \ overdue) <= peak
  BY DEF StorageInvariant
<1>4. ASSUME NEW f \in Files
      PROVE  /\ files[f].state = "stored" /\ ~deletion.started => f \in objects \cup blemished /\ ~files[f].gone
             /\ f \in objects \ stranded => \/ files[f].state \in {"reserved", "stored"}
                                            \/ files[f].state = "deleted" /\ ~files[f].gone
                                            \/ UnderWay(f)
             /\ files[f].post # 0 => LET m == posts[files[f].post]
                                     IN  m.author = files[f].by /\ m.room = files[f].room
  BY <1>1, <1>2 DEF FileSound, HangsOn
<1> QED BY <1>3, <1>4 DEF StorageHolds

LEMMA NoFilesSound ==
    ASSUME StorageInit
    PROVE  StorageHolds
<1>1. \A f \in Files : files[f] = NoFile
  BY DEF StorageInit
<1>2. InUse \ overdue = {}
  BY <1>1, NoFileIn DEF InUse, Uses
<1>3. Cardinality(InUse \ overdue) = 0 /\ peak = 0
  BY <1>2, FS_EmptySet DEF StorageInit
<1>4. objects = {}
  BY DEF StorageInit
<1>5. Cardinality(InUse \ overdue) <= peak
  BY <1>3
<1> QED BY <1>1, <1>4, <1>5, NoFileIn DEF StorageHolds

LEMMA EndsAreSound ==
    ASSUME WholeHolds
    PROVE  TenancyHolds
<1>1. PurgeSound /\ ReceiptsSound /\ RunSound /\ ReplacementSound
  BY DEF WholeHolds, EndsInvariant, ExportInvariant
<1>2. IF deletion.started THEN deletion.on ELSE done = {} /\ (deletion.on => content = asIs)
  BY <1>1 DEF PurgeSound
<1>3. ASSUME deletion.receipt # 0
      PROVE  /\ posts = <<>> /\ notices = {} /\ recorded = <<>>
             /\ \A r \in Rooms : ~rooms[r].made /\ inRoom[r] = {}
             /\ \A f \in Files : files[f].state = "none" /\ (f \in objects \ stranded => UnderWay(f))
  <2>1. Purged
    BY <1>1, <1>3 DEF PurgeSound
  <2>2. Bare /\ recorded = <<>> /\ \A f \in Files : files[f] = NoFile
    BY <1>1, <2>1 DEF PurgeSound, Purged
  <2>3. \A r \in Rooms : ~rooms[r].made /\ inRoom[r] = {}
    BY <2>2, NoRoomIn DEF Bare
  <2>4. ASSUME NEW f \in Files, f \in objects \ stranded PROVE UnderWay(f)
    <3>1. FileSound(f)
      BY DEF WholeHolds, StorageInvariant, FilesSound
    <3>2. files[f].state = "none"
      BY <2>2, NoFileIn
    <3> QED BY <2>4, <3>1, <3>2 DEF FileSound, Moving, UnderWay
  <2> QED BY <2>2, <2>3, <2>4, NoFileIn DEF Bare
<1>4. ~together => told \subseteq {deletion.receipt}
  BY <1>1 DEF ReceiptsSound
<1>5. \A x \in DOMAIN copy \cap DOMAIN recorded : copy[x] = recorded[x] \/ x \in doubled
  BY <1>1 DEF RunSound
<1> QED BY <1>1, <1>2, <1>3, <1>4, <1>5 DEF TenancyHolds, ReplacementSound

LEMMA NoEndSound ==
    ASSUME StorageInit, TenancyAtRest
    PROVE  TenancyHolds
<1>1. /\ done = {} /\ told = {} /\ DOMAIN copy = {} /\ deletion = NoDeletion /\ replacement = Nowhere
  BY DEF StorageInit, TenancyAtRest
<1>2. ~NoDeletion.on /\ ~NoDeletion.started /\ NoDeletion.receipt = 0 /\ ~Nowhere.made
  BY DEF NoDeletion, Nowhere
<1> QED BY <1>1, <1>2 DEF TenancyHolds

(* Whatever uploads, deletions, sweeps and lost requests overlap: a file    *)
(* that is stored has its bytes, unless it was moved twice, an answer was   *)
(* lost or the purge has begun; bytes that nobody can reach are on their    *)
(* way out; there is never more than the largest allowance there was; and a *)
(* file hangs on a message of its uploader in its room (confirmUpload,      *)
(* reclaimStorage).                                                         *)
THEOREM FilesHeld == Spec => []StorageHolds
<1>1. TenantInvariant => StorageHolds
  BY FilesAreSound, NoFilesSound DEF TenantInvariant, TenantApart, WholeHolds
<1> QED BY <1>1, TenantHeld, PTL

(* However the calls of a deletion, of its purge and of an export overlap,  *)
(* wait, fail and are repeated: until the purge begins nothing is lost, a   *)
(* workspace with a receipt is empty, callers that did not overlap have the *)
(* receipt that is stored, a collector has the bytes that were recorded,    *)
(* and a replacement has its rooms and roots, and what there was if nobody  *)
(* wrote meanwhile (purgeWorkspace, exportChunk, restoreFromExport).        *)
THEOREM TenancyHeld == Spec => []TenancyHolds
<1>1. TenantInvariant => TenancyHolds
  BY EndsAreSound, NoEndSound DEF TenantInvariant, TenantApart
<1> QED BY <1>1, TenantHeld, PTL

-----------------------------------------------------------------------------
(* What open tabs hear. *)

Frame == [type : {"event", "welcome", "reset"}, sequence : Nat, row : Nat]
TabSet == [cursor : Nat, told : SUBSET Nat, fetched : Nat, hello : Nat]

Heard(seen, e) == e \in seen.told \/ e <= seen.fetched

(* A frame tells a tab of a row, or has it fetch everything. *)
Brings(seen, frame, e) ==
    \/ frame.type = "reset"
    \/ frame.type = "welcome" /\ seen.cursor = 0
    \/ frame.type = "event" /\ frame.row = e

(* What the tab knows of a row, or will know by the frame n of its mail. *)
Arrives(seen, mail, n, e) == Heard(seen, e) \/ \E k \in 1 .. n : Brings(seen, mail[k], e)

(* What a tab passed over it knows. *)
SeenSound(seen, owed, end) ==
    /\ seen.cursor <= end /\ seen.hello <= end
    /\ \A e \in owed : e <= seen.cursor => Heard(seen, e)

(* What a frame makes the tab pass over reaches it by then, and everything  *)
(* by the end of its mail.                                                  *)
MailSound(seen, mail, owed, end) ==
    /\ \A k \in 1 .. Len(mail) : mail[k].sequence <= end /\ (mail[k].type = "welcome" => k = 1)
    /\ \A k \in 1 .. Len(mail) : mail[k].type = "event" =>
          \A e \in owed : e <= mail[k].sequence => Arrives(seen, mail, k, e)
    /\ \A e \in owed : Arrives(seen, mail, Len(mail), e)

(* Less is owed, or more rows were written. *)
LEMMA SoundWithLess ==
    ASSUME NEW seen, NEW mail \in Seq(Frame), NEW owed, NEW fewer \in SUBSET owed, NEW end \in Nat,
           NEW later \in Nat, end <= later, seen \in TabSet
    PROVE  /\ SeenSound(seen, owed, end) => SeenSound(seen, fewer, later)
           /\ MailSound(seen, mail, owed, end) => MailSound(seen, mail, fewer, later)
<1>1. seen.cursor \in Nat /\ seen.hello \in Nat /\ \A k \in 1 .. Len(mail) : mail[k].sequence \in Nat
  <2>1. \A k \in 1 .. Len(mail) : mail[k] \in Frame
    BY ElementOfSeq
  <2> QED BY <2>1 DEF TabSet, Frame
<1>2. SeenSound(seen, owed, end) => SeenSound(seen, fewer, later)
  BY <1>1 DEF SeenSound
<1>3. MailSound(seen, mail, owed, end) => MailSound(seen, mail, fewer, later)
  BY <1>1 DEF MailSound
<1> QED BY <1>2, <1>3

(* A row that is new was passed over by nobody. *)
LEMMA SeenWithMore ==
    ASSUME NEW seen \in TabSet, NEW owed, NEW more, NEW end \in Nat,
           NEW later \in Nat, end <= later, SeenSound(seen, owed, end),
           \A e \in more : e \in owed \/ (e \in Nat /\ e > end)
    PROVE  SeenSound(seen, more, later)
<1>1. seen.cursor \in Nat /\ seen.hello \in Nat
  BY DEF TabSet
<1> QED BY <1>1 DEF SeenSound

(* A frame is added: a row that is new, what everybody was told before, or  *)
(* the request to fetch.                                                    *)
LEMMA MailAppended ==
    ASSUME NEW seen \in TabSet, NEW mail \in Seq(Frame), NEW owed, NEW more, NEW end \in Nat,
           NEW later \in Nat, end <= later, MailSound(seen, mail, owed, end),
           NEW frame \in Frame, frame.type # "welcome", frame.sequence <= later,
           \A e \in more : e \in owed \/ (e \in Nat /\ e > end /\ frame.type = "event" /\ frame.row = e)
    PROVE  MailSound(seen, Append(mail, frame), more, later)
<1> DEFINE m == Append(mail, frame)
<1>1. /\ Len(mail) \in Nat /\ Len(m) = Len(mail) + 1 /\ m[Len(mail) + 1] = frame
      /\ \A k \in 1 .. Len(mail) : m[k] = mail[k] /\ mail[k] \in Frame
  BY ElementOfSeq, LenProperties, AppendProperties
<1> HIDE DEF m
<1>2. \A k \in 1 .. Len(mail) : mail[k].sequence \in Nat
  BY <1>1 DEF Frame
<1>3. \A k \in 1 .. Len(m) : m[k].sequence <= later /\ (m[k].type = "welcome" => k = 1)
  <2> SUFFICES ASSUME NEW k \in 1 .. Len(m)
               PROVE  m[k].sequence <= later /\ (m[k].type = "welcome" => k = 1)
    OBVIOUS
  <2>1. CASE k \in 1 .. Len(mail)
    BY <1>1, <1>2, <2>1 DEF MailSound
  <2>2. CASE k = Len(mail) + 1
    BY <1>1, <2>2
  <2> QED BY <1>1, <2>1, <2>2
<1>4. ASSUME NEW n \in 0 .. Len(mail), NEW e, Arrives(seen, mail, n, e)
      PROVE  Arrives(seen, m, n, e) /\ Arrives(seen, m, Len(m), e)
  <2>1. \A k \in 1 .. n : k \in 1 .. Len(mail) /\ k \in 1 .. Len(m) /\ m[k] = mail[k]
    BY <1>1
  <2> QED BY <1>4, <2>1 DEF Arrives
<1>5. ASSUME NEW e \in more PROVE Arrives(seen, m, Len(m), e)
  <2>1. CASE e \in owed
    BY <1>1, <1>4, <2>1 DEF MailSound
  <2>2. CASE e \notin owed
    <3>1. Brings(seen, m[Len(m)], e)
      BY <1>1, <2>2 DEF Brings
    <3> QED BY <1>1, <3>1 DEF Arrives
  <2> QED BY <2>1, <2>2
<1>6. ASSUME NEW k \in 1 .. Len(m), m[k].type = "event", NEW e \in more, e <= m[k].sequence
      PROVE  Arrives(seen, m, k, e)
  <2>1. CASE k \in 1 .. Len(mail)
    <3>1. m[k] = mail[k] /\ mail[k].sequence \in Nat /\ mail[k].sequence <= end
      BY <1>1, <1>2, <2>1 DEF MailSound
    <3>2. e \in owed
      BY <1>6, <3>1
    <3>3. Arrives(seen, mail, k, e)
      BY <1>6, <2>1, <3>1, <3>2 DEF MailSound
    <3> QED BY <1>1, <1>4, <2>1, <3>3
  <2>2. CASE k = Len(m)
    BY <1>5, <2>2
  <2> QED BY <1>1, <2>1, <2>2
<1> QED BY <1>3, <1>5, <1>6 DEF MailSound, m

(* Frames are added while everything that is owed is on its way. *)
LEMMA MailContinued ==
    ASSUME NEW seen \in TabSet, NEW mail \in Seq(Frame), NEW owed, NEW end \in Nat,
           MailSound(seen, mail, owed, end), NEW sent \in Seq(Frame),
           \A k \in 1 .. Len(sent) : sent[k].type # "welcome" /\ sent[k].sequence <= end
    PROVE  MailSound(seen, mail \o sent, owed, end)
<1> DEFINE m == mail \o sent
<1>1. /\ Len(mail) \in Nat /\ Len(sent) \in Nat /\ Len(m) = Len(mail) + Len(sent)
      /\ \A k \in 1 .. Len(mail) : m[k] = mail[k]
      /\ \A k \in 1 .. Len(m) : k \notin 1 .. Len(mail) =>
            k - Len(mail) \in 1 .. Len(sent) /\ m[k] = sent[k - Len(mail)]
  BY LenProperties, ConcatProperties
<1> HIDE DEF m
<1>2. \A k \in 1 .. Len(m) : m[k].sequence <= end /\ (m[k].type = "welcome" => k = 1)
  BY <1>1 DEF MailSound
<1>3. ASSUME NEW n \in 0 .. Len(mail), NEW l \in 0 .. Len(m), n <= l, NEW e, Arrives(seen, mail, n, e)
      PROVE  Arrives(seen, m, l, e)
  <2>1. \A k \in 1 .. n : k \in 1 .. l /\ m[k] = mail[k]
    BY <1>1, <1>3
  <2> QED BY <1>3, <2>1 DEF Arrives
<1>4. ASSUME NEW e \in owed PROVE Arrives(seen, m, Len(m), e)
  BY <1>1, <1>3 DEF MailSound
<1>5. ASSUME NEW k \in 1 .. Len(m), m[k].type = "event", NEW e \in owed, e <= m[k].sequence
      PROVE  Arrives(seen, m, k, e)
  <2>1. CASE k \in 1 .. Len(mail)
    <3>1. Arrives(seen, mail, k, e)
      BY <1>1, <1>5, <2>1 DEF MailSound
    <3> QED BY <1>1, <1>3, <2>1, <3>1
  <2>2. CASE k \notin 1 .. Len(mail)
    <3>1. Len(mail) <= k /\ Arrives(seen, mail, Len(mail), e)
      BY <1>1, <2>2 DEF MailSound
    <3> QED BY <1>1, <1>3, <3>1
  <2> QED BY <2>1, <2>2
<1> QED BY <1>2, <1>4, <1>5 DEF MailSound, m

(* Nothing that is owed is missing any more. *)
LEMMA AllHeard ==
    ASSUME NEW seen, NEW mail, NEW owed, NEW end,
           \A e \in owed : Heard(seen, e), seen.cursor <= end, seen.hello <= end,
           \A k \in 1 .. Len(mail) : mail[k].sequence <= end /\ mail[k].type # "welcome"
    PROVE  SeenSound(seen, owed, end) /\ MailSound(seen, mail, owed, end)
BY DEF SeenSound, MailSound, Arrives

(* The first frame is taken: what it brings is heard. *)
Taken(seen, frame, end) ==
    CASE frame.type = "welcome" /\ seen.cursor = 0 ->
            [seen EXCEPT !.fetched = end, !.cursor = frame.sequence, !.hello = frame.sequence]
      [] frame.type = "welcome" /\ seen.cursor > 0 -> [seen EXCEPT !.hello = frame.sequence]
      [] frame.type = "reset" -> [seen EXCEPT !.fetched = end, !.cursor = seen.hello]
      [] frame.type = "event" -> [seen EXCEPT !.told = @ \cup ({frame.row} \ {0}),
                                              !.cursor = MaxOf(@, frame.sequence)]

LEMMA TakenTyped ==
    ASSUME NEW seen \in TabSet, NEW frame \in Frame, NEW end \in Nat
    PROVE  /\ frame.type = "welcome" /\ seen.cursor = 0 =>
                  Taken(seen, frame, end) = [cursor |-> frame.sequence, told |-> seen.told,
                                             fetched |-> end, hello |-> frame.sequence]
           /\ frame.type = "welcome" /\ seen.cursor # 0 =>
                  Taken(seen, frame, end) = [cursor |-> seen.cursor, told |-> seen.told,
                                             fetched |-> seen.fetched, hello |-> frame.sequence]
           /\ frame.type = "reset" =>
                  Taken(seen, frame, end) = [cursor |-> seen.hello, told |-> seen.told,
                                             fetched |-> end, hello |-> seen.hello]
           /\ frame.type = "event" =>
                  Taken(seen, frame, end) = [cursor |-> MaxOf(seen.cursor, frame.sequence),
                                             told |-> seen.told \cup ({frame.row} \ {0}),
                                             fetched |-> seen.fetched, hello |-> seen.hello]
           /\ Taken(seen, frame, end) \in TabSet
<1>1. /\ seen = [cursor |-> seen.cursor, told |-> seen.told, fetched |-> seen.fetched, hello |-> seen.hello]
      /\ seen.cursor \in Nat /\ seen.told \subseteq Nat /\ seen.fetched \in Nat /\ seen.hello \in Nat
  BY DEF TabSet
<1>2. frame.type \in {"event", "welcome", "reset"} /\ frame.sequence \in Nat /\ frame.row \in Nat
  BY DEF Frame
<1>3. MaxOf(seen.cursor, frame.sequence) \in Nat
  BY <1>1, <1>2 DEF MaxOf
<1>4. CASE frame.type = "welcome" /\ seen.cursor = 0
  <2>1. Taken(seen, frame, end) = [seen EXCEPT !.fetched = end, !.cursor = frame.sequence,
                                               !.hello = frame.sequence]
    BY <1>1, <1>4 DEF Taken
  <2>2. Taken(seen, frame, end) = [cursor |-> frame.sequence, told |-> seen.told,
                                   fetched |-> end, hello |-> frame.sequence]
    BY <1>1, <2>1
  <2> QED BY <1>1, <1>2, <1>4, <2>2 DEF TabSet
<1>5. CASE frame.type = "welcome" /\ seen.cursor # 0
  <2>1. Taken(seen, frame, end) = [seen EXCEPT !.hello = frame.sequence]
    BY <1>1, <1>5 DEF Taken
  <2> QED BY <1>1, <1>2, <1>5, <2>1 DEF TabSet
<1>6. CASE frame.type = "reset"
  <2>1. Taken(seen, frame, end) = [seen EXCEPT !.fetched = end, !.cursor = seen.hello]
    BY <1>1, <1>6 DEF Taken
  <2>2. Taken(seen, frame, end) = [cursor |-> seen.hello, told |-> seen.told,
                                   fetched |-> end, hello |-> seen.hello]
    BY <1>1, <2>1
  <2> QED BY <1>1, <1>6, <2>2 DEF TabSet
<1>7. CASE frame.type = "event"
  <2>1. Taken(seen, frame, end) = [seen EXCEPT !.told = @ \cup ({frame.row} \ {0}),
                                               !.cursor = MaxOf(@, frame.sequence)]
    BY <1>1, <1>7 DEF Taken
  <2>2. Taken(seen, frame, end) = [cursor |-> MaxOf(seen.cursor, frame.sequence),
                                   told |-> seen.told \cup ({frame.row} \ {0}),
                                   fetched |-> seen.fetched, hello |-> seen.hello]
    BY <1>1, <2>1
  <2> QED BY <1>1, <1>2, <1>3, <1>7, <2>2 DEF TabSet
<1> QED BY <1>2, <1>4, <1>5, <1>6, <1>7

LEMMA MailTaken ==
    ASSUME NEW seen \in TabSet, NEW mail \in Seq(Frame), mail # <<>>, NEW end \in Nat,
           NEW owed \in SUBSET (1 .. end), SeenSound(seen, owed, end), MailSound(seen, mail, owed, end)
    PROVE  /\ SeenSound(Taken(seen, Head(mail), end), owed, end)
           /\ MailSound(Taken(seen, Head(mail), end), Tail(mail), owed, end)
<1> DEFINE frame == mail[1]
           rest == Tail(mail)
           after == Taken(seen, frame, end)
<1>1. /\ Head(mail) = frame /\ frame \in Frame /\ Len(mail) \in Nat /\ Len(mail) > 0
      /\ rest \in Seq(Frame) /\ Len(rest) = Len(mail) - 1
      /\ \A k \in 1 .. Len(rest) : rest[k] = mail[k + 1] /\ k + 1 \in 1 .. Len(mail)
  <2>1. Len(mail) \in Nat /\ Len(mail) > 0
    BY EmptySeq, LenProperties
  <2>2. mail[1] \in Frame
    BY <2>1, ElementOfSeq
  <2> QED BY <2>1, <2>2, HeadTailProperties
<1> HIDE DEF rest, frame
<1>2. /\ seen.cursor \in Nat /\ seen.hello \in Nat /\ seen.fetched \in Nat
      /\ seen.cursor <= end /\ seen.hello <= end
      /\ frame.sequence \in Nat /\ frame.sequence <= end
      /\ frame.type \in {"event", "welcome", "reset"}
  <2>1. frame.sequence <= end
    BY <1>1 DEF MailSound, frame
  <2> QED BY <1>1, <2>1 DEF SeenSound, TabSet, Frame
<1>3. \A k \in 1 .. Len(rest) : rest[k].sequence <= end /\ rest[k].type # "welcome"
  BY <1>1 DEF MailSound
<1>5. /\ frame.type = "welcome" /\ seen.cursor = 0 =>
            after.cursor = frame.sequence /\ after.fetched = end /\ after.hello = frame.sequence
      /\ frame.type = "welcome" /\ seen.cursor # 0 =>
            /\ after.cursor = seen.cursor /\ after.told = seen.told
            /\ after.fetched = seen.fetched /\ after.hello = frame.sequence
      /\ frame.type = "reset" => after.cursor = seen.hello /\ after.fetched = end /\ after.hello = seen.hello
      /\ frame.type = "event" =>
            /\ after.cursor = MaxOf(seen.cursor, frame.sequence)
            /\ after.told = seen.told \cup ({frame.row} \ {0})
            /\ after.fetched = seen.fetched /\ after.hello = seen.hello
  BY <1>1, TakenTyped
<1>4. \A e \in owed : e \in Nat /\ e <= end /\ e # 0
  OBVIOUS
<1>6. CASE frame.type = "reset" \/ (frame.type = "welcome" /\ seen.cursor = 0)
  <2>1. after.fetched = end /\ after.cursor <= end /\ after.hello <= end
    BY <1>2, <1>5, <1>6
  <2>2. \A e \in owed : Heard(after, e)
    BY <1>4, <2>1 DEF Heard
  <2> HIDE DEF after
  <2>3. SeenSound(after, owed, end) /\ MailSound(after, rest, owed, end)
    BY <1>3, <2>1, <2>2, AllHeard
  <2> QED BY <1>1, <2>3 DEF after, rest
<1>7. CASE frame.type = "event" \/ (frame.type = "welcome" /\ seen.cursor # 0)
  <2>1. /\ after.fetched = seen.fetched /\ seen.told \subseteq after.told /\ after.hello <= end
        /\ after.cursor = seen.cursor \/ (frame.type = "event" /\ after.cursor = frame.sequence)
        /\ frame.type = "event" => frame.row \in after.told \/ frame.row = 0
    BY <1>2, <1>5, <1>7 DEF MaxOf
  <2> HIDE DEF after
  <2>2. \A e : Heard(seen, e) => Heard(after, e)
    BY <2>1 DEF Heard
  <2>3. \A e \in owed : Brings(seen, frame, e) => Heard(after, e)
    BY <1>2, <1>4, <1>7, <2>1 DEF Brings, Heard
  <2>4. ASSUME NEW n \in 1 .. Len(mail), NEW e \in owed, Arrives(seen, mail, n, e)
        PROVE  Arrives(after, rest, n - 1, e)
    <3>1. CASE Heard(seen, e) \/ Brings(seen, frame, e)
      BY <2>2, <2>3, <3>1 DEF Arrives
    <3>2. CASE \E k \in 2 .. n : Brings(seen, mail[k], e)
      <4>1. PICK k \in 2 .. n : Brings(seen, mail[k], e)
        BY <3>2
      <4>2. k - 1 \in 1 .. n - 1 /\ k - 1 \in 1 .. Len(rest) /\ rest[k - 1] = mail[k]
        <5>1. k - 1 \in 1 .. n - 1 /\ k - 1 \in 1 .. Len(rest) /\ (k - 1) + 1 = k
          BY <1>1
        <5> QED BY <1>1, <5>1
      <4>3. Brings(after, rest[k - 1], e)
        BY <1>3, <4>1, <4>2 DEF Brings
      <4> QED BY <4>2, <4>3 DEF Arrives
    <3>3. \A k \in 1 .. n : k = 1 \/ k \in 2 .. n
      BY <1>1
    <3> QED BY <2>4, <3>1, <3>2, <3>3 DEF Arrives, frame
  <2>5. ASSUME NEW e \in owed, e <= after.cursor PROVE Heard(after, e)
    <3>1. CASE after.cursor = seen.cursor
      BY <2>2, <2>5, <3>1 DEF SeenSound
    <3>2. CASE frame.type = "event" /\ after.cursor = frame.sequence
      <4>1. Arrives(seen, mail, 1, e)
        BY <1>1, <2>5, <3>2 DEF MailSound
      <4>2. Heard(seen, e) \/ Brings(seen, frame, e)
        BY <4>1 DEF Arrives, frame
      <4> QED BY <2>2, <2>3, <4>2
    <3> QED BY <2>1, <3>1, <3>2
  <2>6. SeenSound(after, owed, end)
    BY <1>2, <2>1, <2>5 DEF SeenSound
  <2>7. ASSUME NEW k \in 1 .. Len(rest), rest[k].type = "event", NEW e \in owed, e <= rest[k].sequence
        PROVE  Arrives(after, rest, k, e)
    <3>0. rest[k] = mail[k + 1] /\ k + 1 \in 1 .. Len(mail)
      BY <1>1
    <3>1. Arrives(seen, mail, k + 1, e) /\ k + 1 \in 1 .. Len(mail) /\ (k + 1) - 1 = k
      BY <2>7, <3>0 DEF MailSound
    <3>2. Arrives(after, rest, (k + 1) - 1, e)
      BY <2>4, <3>1
    <3> QED BY <3>1, <3>2
  <2>8. ASSUME NEW e \in owed PROVE Arrives(after, rest, Len(rest), e)
    <3>1. Arrives(seen, mail, Len(mail), e) /\ Len(mail) \in 1 .. Len(mail)
      BY <1>1 DEF MailSound
    <3> QED BY <1>1, <2>4, <3>1
  <2>9. MailSound(after, rest, owed, end)
    BY <1>3, <2>7, <2>8 DEF MailSound
  <2> QED BY <1>1, <2>6, <2>9 DEF after, rest
<1> QED BY <1>2, <1>6, <1>7

(* A tab that was here before is welcomed with the rows since, in order. *)
LEMMA MailReplayed ==
    ASSUME NEW seen \in TabSet, NEW end \in Nat, NEW owed \in SUBSET Nat, SeenSound(seen, owed, end),
           NEW hello \in Nat, hello <= end, NEW sent \in Seq(Frame),
           \A k \in 1 .. Len(sent) : sent[k].type = "event" /\ sent[k].sequence <= end,
           \A j, k \in 1 .. Len(sent) : sent[j].row <= sent[k].sequence => j <= k,
           \A e \in owed : Heard(seen, e) \/ \E k \in 1 .. Len(sent) : sent[k].row = e
    PROVE  MailSound(seen, <<Welcome(hello)>> \o sent, owed, end)
<1> DEFINE first == <<Welcome(hello)>>
           m == first \o sent
<1>0. first \in Seq(Frame) /\ Len(first) = 1 /\ first[1] = Welcome(hello)
  BY DEF Welcome, Frame
<1>1. /\ Len(sent) \in Nat /\ Len(m) = Len(sent) + 1 /\ m[1] = Welcome(hello)
      /\ \A k \in 1 .. Len(m) : k # 1 => k - 1 \in 1 .. Len(sent) /\ m[k] = sent[k - 1]
      /\ \A k \in 1 .. Len(sent) : m[k + 1] = sent[k] /\ k + 1 \in 1 .. Len(m)
  <2> HIDE DEF first
  <2>0. /\ Len(m) = Len(first) + Len(sent) /\ Len(sent) \in Nat
        /\ \A k \in 1 .. Len(first) + Len(sent) :
              m[k] = IF k <= Len(first) THEN first[k] ELSE sent[k - Len(first)]
    <3>1. Len(sent) \in Nat
      BY LenProperties
    <3>2. first \in Seq(Frame) /\ sent \in Seq(Frame)
      BY <1>0
    <3>3. Len(m) = Len(first) + Len(sent)
      BY <3>2, ConcatProperties
    <3>4. \A k \in 1 .. Len(first) + Len(sent) :
              m[k] = IF k <= Len(first) THEN first[k] ELSE sent[k - Len(first)]
      BY <3>2, ConcatProperties
    <3> QED BY <3>1, <3>3, <3>4
  <2> HIDE DEF m
  <2>1. /\ Len(sent) \in Nat /\ Len(m) = Len(sent) + 1
        /\ \A k \in 1 .. Len(m) : m[k] = IF k <= 1 THEN first[k] ELSE sent[k - 1]
    BY <1>0, <2>0
  <2>2. \A k \in 1 .. Len(sent) : k + 1 \in 1 .. Len(m) /\ ~(k + 1 <= 1) /\ (k + 1) - 1 = k
    BY <2>1
  <2>3. \A k \in 1 .. Len(sent) : m[k + 1] = sent[k]
    BY <2>1, <2>2
  <2> QED BY <1>0, <2>1, <2>2, <2>3
<1> HIDE DEF m, first
<1>2. \A k \in 1 .. Len(m) : m[k].sequence <= end /\ (m[k].type = "welcome" => k = 1)
                              /\ (m[k].type = "event" => k # 1)
  <2> SUFFICES ASSUME NEW k \in 1 .. Len(m)
               PROVE  m[k].sequence <= end /\ (m[k].type = "welcome" => k = 1)
                      /\ (m[k].type = "event" => k # 1)
    OBVIOUS
  <2>1. CASE k = 1
    BY <1>1, <2>1 DEF Welcome
  <2>2. CASE k # 1
    <3>0. PICK j \in 1 .. Len(sent) : m[k] = sent[j]
      BY <1>1, <2>2
    <3>1. m[k].type = "event" /\ m[k].sequence <= end
      BY <3>0
    <3> QED BY <2>2, <3>1
  <2> QED BY <2>1, <2>2
<1>3. ASSUME NEW e \in owed, ~Heard(seen, e)
      PROVE  \E j \in 1 .. Len(sent) : sent[j].row = e /\ j + 1 \in 1 .. Len(m) /\ Brings(seen, m[j + 1], e)
  <2>1. PICK j \in 1 .. Len(sent) : sent[j].row = e
    BY <1>3
  <2> QED BY <1>1, <2>1 DEF Brings
<1>4. ASSUME NEW e \in owed PROVE Arrives(seen, m, Len(m), e)
  BY <1>3 DEF Arrives
<1>5. ASSUME NEW k \in 1 .. Len(m), m[k].type = "event", NEW e \in owed, e <= m[k].sequence
      PROVE  Arrives(seen, m, k, e)
  <2>1. CASE Heard(seen, e)
    BY <2>1 DEF Arrives
  <2>2. CASE ~Heard(seen, e)
    <3>1. PICK j \in 1 .. Len(sent) : sent[j].row = e /\ j + 1 \in 1 .. Len(m) /\ Brings(seen, m[j + 1], e)
      BY <1>3, <2>2
    <3>2. k - 1 \in 1 .. Len(sent) /\ m[k] = sent[k - 1]
      BY <1>1, <1>2, <1>5
    <3>3. j <= k - 1
      BY <1>5, <3>1, <3>2
    <3>4. j + 1 \in 1 .. k
      BY <3>1, <3>3
    <3> QED BY <3>1, <3>4 DEF Arrives
  <2> QED BY <2>1, <2>2
<1> QED BY <1>2, <1>4, <1>5 DEF MailSound, m, first

-----------------------------------------------------------------------------
LiveTyped ==
    /\ log \in Seq([room : Rooms \cup {None}, announced : BOOLEAN]) /\ purged \in 0 .. Len(log)
    /\ sockets \in [Tabs -> [open : BOOLEAN, epoch : Nat, mail : Seq(Frame)]]
    /\ tabs \in [Tabs -> TabSet]

(* A row is of a room that is there; and whoever a row was never hidden     *)
(* from sees its room still.                                                *)
RowsSound ==
    \A e \in DOMAIN log :
        /\ log[e].room # None => rooms[log[e].room].made
        /\ \A p \in People : <<p, e>> \notin hidden =>
              log[e].room # None /\ (p \in inRoom[log[e].room] \/ rooms[log[e].room].kind = "public")

TabSound(tab) ==
    tab \notin excused =>
        /\ SeenSound(tabs[tab], Owed(tab), Len(log))
        /\ sockets[tab].open => MailSound(tabs[tab], sockets[tab].mail, Owed(tab), Len(log))

AuthoritySound == \A tab \in Tabs : sockets[tab].open => Authorised(tab)

LiveSound == LiveTyped /\ RowsSound /\ AuthoritySound /\ \A tab \in Tabs : TabSound(tab)

-----------------------------------------------------------------------------
(* The rows of a replay in their order. *)

PlaceIn(S, e) == Cardinality({x \in S : x <= e})

LEMMA PlacesAre ==
    ASSUME NEW S \in SUBSET Nat, IsFiniteSet(S)
    PROVE  /\ Cardinality(S) \in Nat
           /\ \A e \in S : PlaceIn(S, e) \in 1 .. Cardinality(S)
           /\ \A e, f \in S : e < f => PlaceIn(S, e) < PlaceIn(S, f)
           /\ \A k \in 1 .. Cardinality(S) : \E e \in S : PlaceIn(S, e) = k
<1> DEFINE Upto(e) == {x \in S : x <= e}
           n == Cardinality(S)
<1>1. \A e \in S : /\ IsFiniteSet(Upto(e)) /\ Cardinality(Upto(e)) \in Nat
                   /\ Cardinality(Upto(e)) <= n /\ n \in Nat
  <2> SUFFICES ASSUME NEW e \in S
               PROVE  /\ IsFiniteSet(Upto(e)) /\ Cardinality(Upto(e)) \in Nat
                      /\ Cardinality(Upto(e)) <= n /\ n \in Nat
    OBVIOUS
  <2>1. Upto(e) \in SUBSET S
    OBVIOUS
  <2> HIDE DEF Upto
  <2> QED BY <2>1, FS_Subset, FS_CardinalityType
<1>2. n \in Nat
  BY FS_CardinalityType
<1>3. \A e \in S : Cardinality(Upto(e)) > 0
  <2> SUFFICES ASSUME NEW e \in S PROVE Cardinality(Upto(e)) > 0
    OBVIOUS
  <2>1. e \in Upto(e)
    OBVIOUS
  <2> HIDE DEF Upto
  <2>2. Cardinality(Upto(e)) # 0
    BY <1>1, <2>1, FS_EmptySet
  <2> QED BY <1>1, <2>2
<1>4. ASSUME NEW e \in S, NEW f \in S, e < f
      PROVE  Cardinality(Upto(e)) < Cardinality(Upto(f))
  <2>0. e \in Nat /\ f \in Nat /\ \A x \in S : x \in Nat
    OBVIOUS
  <2>1. Upto(e) \in SUBSET Upto(f) /\ f \in Upto(f) /\ f \notin Upto(e)
    <3>1. \A x \in S : x <= e => x <= f
      BY <1>4, <2>0
    <3>2. ~(f <= e) /\ f <= f
      BY <1>4, <2>0
    <3> QED BY <3>1, <3>2
  <2> HIDE DEF Upto
  <2>2. Cardinality(Upto(e)) <= Cardinality(Upto(f)) /\ Cardinality(Upto(f)) # Cardinality(Upto(e))
    BY <1>1, <2>1, FS_Subset
  <2> QED BY <1>1, <2>2
<1>5. \A e \in S : PlaceIn(S, e) = Cardinality(Upto(e))
  BY DEF PlaceIn
<1> HIDE DEF Upto
<1> DEFINE place == [e \in S |-> PlaceIn(S, e)]
<1>6. place \in [S -> 1 .. n]
  BY <1>1, <1>3, <1>5
<1>7. \A e, f \in S : e < f => place[e] < place[f]
  BY <1>4, <1>5
<1>8. place \in Injection(S, 1 .. n)
  <2>1. ASSUME NEW e \in S, NEW f \in S, place[e] = place[f] PROVE e = f
    <3>1. e \in Nat /\ f \in Nat /\ ~(e < f) /\ ~(f < e)
      <4>1. place[e] \in Nat /\ place[f] \in Nat
        BY <1>6
      <4> QED BY <1>7, <2>1, <4>1
    <3> QED BY <3>1
  <2> QED BY <1>6, <2>1 DEF Injection, IsInjective
<1>9. Cardinality(1 .. n) = n /\ IsFiniteSet(1 .. n)
  BY <1>2, FS_Interval
<1> HIDE DEF place, n
<1>10. place \in Surjection(S, 1 .. n)
  BY <1>8, <1>9, FS_Injection DEF n
<1>11. \A k \in 1 .. n : \E e \in S : place[e] = k
  BY <1>10 DEF Surjection
<1>12. \A e \in S : place[e] = PlaceIn(S, e)
  BY DEF place
<1> QED BY <1>2, <1>6, <1>7, <1>11, <1>12 DEF n

LEMMA LogTyped ==
    ASSUME LiveTyped
    PROVE  /\ Len(log) \in Nat /\ DOMAIN log = 1 .. Len(log) /\ purged \in Nat /\ purged <= Len(log)
           /\ \A e \in DOMAIN log : /\ log[e].room \in Rooms \cup {None} /\ log[e].announced \in BOOLEAN
                                    /\ e \in Nat /\ e <= Len(log) /\ e > 0
           /\ \A tab \in Tabs : /\ TabOf[tab] \in People /\ tabs[tab] \in TabSet
                                /\ tabs[tab].cursor \in Nat
                                /\ sockets[tab] \in [open : BOOLEAN, epoch : Nat, mail : Seq(Frame)]
                                /\ sockets[tab].mail \in Seq(Frame) /\ sockets[tab].epoch \in Nat
                                /\ Owed(tab) \in SUBSET (1 .. Len(log))
<1> DEFINE LogRow == [room : Rooms \cup {None}, announced : BOOLEAN]
<1>1. log \in Seq(LogRow)
  BY DEF LiveTyped
<1> HIDE DEF LogRow
<1>2. Len(log) \in Nat /\ DOMAIN log = 1 .. Len(log) /\ \A e \in DOMAIN log : log[e] \in LogRow
  BY <1>1, LenProperties, ElementOfSeq
<1>3. \A e \in DOMAIN log : log[e].room \in Rooms \cup {None} /\ log[e].announced \in BOOLEAN
  BY <1>2 DEF LogRow
<1>4. \A tab \in Tabs : tabs[tab] \in TabSet /\ tabs[tab].cursor \in Nat /\ TabOf[tab] \in People
  BY LiveAssumption DEF LiveTyped, TabSet
<1>5. \A tab \in Tabs : sockets[tab] \in [open : BOOLEAN, epoch : Nat, mail : Seq(Frame)]
  BY DEF LiveTyped
<1>6. \A tab \in Tabs : sockets[tab].mail \in Seq(Frame) /\ sockets[tab].epoch \in Nat
  BY <1>5
<1>7. \A tab \in Tabs : Owed(tab) \in SUBSET (1 .. Len(log))
  BY <1>2 DEF Owed
<1> QED BY <1>2, <1>3, <1>4, <1>5, <1>6, <1>7 DEF LiveTyped

LEMMA EventIs ==
    ASSUME NEW n \in Nat, NEW m \in Nat
    PROVE  /\ Event(n, m) \in Frame /\ Event(n, m).type = "event"
           /\ Event(n, m).sequence = n /\ Event(n, m).row = m
BY DEF Event, Frame

LEMMA ReplayIs ==
    ASSUME LiveTyped, NEW p, NEW since \in Nat
    PROVE  /\ RowsAfter(p, since) \in Seq(Frame)
           /\ \A k \in 1 .. Len(RowsAfter(p, since)) :
                 LET frame == RowsAfter(p, since)[k]
                 IN  frame.type = "event" /\ frame.row = frame.sequence /\ frame.sequence <= Len(log)
           /\ \A j, k \in 1 .. Len(RowsAfter(p, since)) :
                 RowsAfter(p, since)[j].row <= RowsAfter(p, since)[k].sequence => j <= k
           /\ \A e \in RowsSince(p, since) :
                 \E k \in 1 .. Len(RowsAfter(p, since)) : RowsAfter(p, since)[k].row = e
<1> DEFINE S == RowsSince(p, since)
           n == Cardinality(S)
           Nth(k) == CHOOSE e \in S : PlaceIn(S, e) = k
           sent == [k \in 1 .. n |-> Event(Nth(k), Nth(k))]
<1>1. sent = RowsAfter(p, since)
  BY DEF RowsAfter, PlaceIn
<1>2. S \in SUBSET Nat /\ IsFiniteSet(S) /\ \A e \in S : e <= Len(log)
  <2>1. S \in SUBSET (1 .. Len(log)) /\ Len(log) \in Nat
    BY LogTyped DEF RowsSince
  <2>2. IsFiniteSet(1 .. Len(log))
    BY <2>1, FS_Interval
  <2> QED BY <2>1, <2>2, FS_Subset
<1> HIDE DEF S
<1>3. /\ n \in Nat
      /\ \A e \in S : PlaceIn(S, e) \in 1 .. n
      /\ \A e, f \in S : e < f => PlaceIn(S, e) < PlaceIn(S, f)
      /\ \A k \in 1 .. n : \E e \in S : PlaceIn(S, e) = k
  BY <1>2, PlacesAre
<1>4. \A k \in 1 .. n : Nth(k) \in S /\ PlaceIn(S, Nth(k)) = k
  BY <1>3
<1> HIDE DEF Nth, n
<1>5. \A k \in 1 .. n : /\ sent[k] \in Frame /\ sent[k].type = "event" /\ sent[k].row = Nth(k)
                        /\ sent[k].sequence = Nth(k) /\ Nth(k) \in Nat /\ Nth(k) <= Len(log)
  <2> SUFFICES ASSUME NEW k \in 1 .. n
               PROVE  /\ sent[k] \in Frame /\ sent[k].type = "event" /\ sent[k].row = Nth(k)
                      /\ sent[k].sequence = Nth(k) /\ Nth(k) \in Nat /\ Nth(k) <= Len(log)
    OBVIOUS
  <2>1. Nth(k) \in Nat /\ Nth(k) <= Len(log)
    BY <1>2, <1>4
  <2>2. sent[k] = Event(Nth(k), Nth(k))
    OBVIOUS
  <2> QED BY <2>1, <2>2, EventIs
<1>6. sent \in Seq(Frame) /\ Len(sent) = n
  BY <1>3, <1>5
<1> HIDE DEF sent
<1>7. ASSUME NEW j \in 1 .. n, NEW k \in 1 .. n, sent[j].row <= sent[k].sequence
      PROVE  j <= k
  <2>1. Nth(j) <= Nth(k) /\ Nth(j) \in Nat /\ Nth(k) \in Nat
    BY <1>5, <1>7
  <2>2. CASE Nth(j) = Nth(k)
    BY <1>4, <2>2
  <2>3. CASE Nth(j) < Nth(k)
    <3>1. PlaceIn(S, Nth(j)) < PlaceIn(S, Nth(k))
      BY <1>3, <1>4, <2>3
    <3> QED BY <1>3, <1>4, <3>1
  <2> QED BY <2>1, <2>2, <2>3
<1>8. ASSUME NEW e \in S PROVE \E k \in 1 .. n : sent[k].row = e
  <2> DEFINE k == PlaceIn(S, e)
  <2>1. k \in 1 .. n /\ Nth(k) \in S /\ PlaceIn(S, Nth(k)) = k
    BY <1>3, <1>4
  <2>4. PlaceIn(S, Nth(k)) = PlaceIn(S, e) /\ k \in Nat
    BY <2>1
  <2> HIDE DEF k
  <2>5. ~(PlaceIn(S, Nth(k)) < PlaceIn(S, e)) /\ ~(PlaceIn(S, e) < PlaceIn(S, Nth(k)))
    BY <2>1, <2>4
  <2>2. ~(Nth(k) < e) /\ ~(e < Nth(k)) /\ e \in Nat /\ Nth(k) \in Nat
    BY <1>2, <1>3, <2>1, <2>5
  <2>3. Nth(k) = e
    BY <2>2
  <2> QED BY <1>5, <2>1, <2>3
<1> QED BY <1>1, <1>5, <1>6, <1>7, <1>8 DEF S

-----------------------------------------------------------------------------
(* What was written stays, and what was hidden. *)

RowsGo == Len(log) <= Len(log') /\ \A e \in DOMAIN log : log'[e] = log[e]
RoomsStay == \A r \in Rooms : rooms[r].made => rooms'[r].made

LEMMA HideKeeps ==
    ASSUME LiveTyped, LiveTyped', RowsSound, Hide, RowsGo, RoomsStay,
           \A e \in DOMAIN log' : e \notin DOMAIN log /\ log'[e].room # None => rooms'[log'[e].room].made
    PROVE  /\ RowsSound'
           /\ \A tab \in Tabs : \A e \in Owed(tab)' : e \in DOMAIN log => e \in Owed(tab)
           /\ \A p \in People, e \in DOMAIN log' : <<p, e>> \notin hidden' =>
                 /\ log'[e].room # None
                 /\ p \in inRoom'[log'[e].room] \/ rooms'[log'[e].room].kind = "public"
<1>1. \A p \in People, e \in DOMAIN log' : <<p, e>> \notin hidden' =>
          /\ log'[e].room # None /\ <<p, e>> \notin hidden
          /\ p \in inRoom'[log'[e].room] \/ rooms'[log'[e].room].kind = "public"
  BY DEF Hide
<1>2. ASSUME NEW e \in DOMAIN log', log'[e].room # None PROVE rooms'[log'[e].room].made
  <2>1. CASE e \in DOMAIN log
    <3>1. log'[e] = log[e] /\ log[e].room \in Rooms
      BY <1>2, <2>1, LogTyped DEF RowsGo
    <3>2. rooms[log[e].room].made
      BY <1>2, <2>1, <3>1 DEF RowsSound
    <3> QED BY <3>1, <3>2 DEF RoomsStay
  <2>2. CASE e \notin DOMAIN log
    BY <1>2, <2>2
  <2> QED BY <2>1, <2>2
<1>3. RowsSound'
  BY <1>1, <1>2 DEF RowsSound
<1>4. ASSUME NEW tab \in Tabs, NEW e \in Owed(tab)', e \in DOMAIN log PROVE e \in Owed(tab)
  <2>1. /\ e \in DOMAIN log' /\ log'[e].announced /\ <<TabOf[tab], e>> \notin hidden'
        /\ TabOf[tab] \in People
    BY <1>4, LogTyped DEF Owed
  <2>2. <<TabOf[tab], e>> \notin hidden
    BY <1>1, <2>1
  <2> QED BY <1>4, <2>1, <2>2 DEF Owed, RowsGo
<1> QED BY <1>1, <1>3, <1>4

(* A tab that hears nothing new, or whose socket closes. *)
LEMMA TabStays ==
    ASSUME LiveTyped, LiveTyped', NEW tab \in Tabs, TabSound(tab), RowsGo,
           tabs'[tab] = tabs[tab], sockets'[tab] = sockets[tab] \/ ~sockets'[tab].open,
           Owed(tab)' \subseteq Owed(tab), tab \in excused => tab \in excused'
    PROVE  TabSound(tab)'
<1> SUFFICES ASSUME tab \notin excused' PROVE /\ SeenSound(tabs[tab], Owed(tab), Len(log))'
                                              /\ sockets'[tab].open => MailSound(tabs[tab], sockets[tab].mail, Owed(tab), Len(log))'
  BY DEF TabSound
<1>1. /\ SeenSound(tabs[tab], Owed(tab), Len(log)) /\ Len(log) \in Nat /\ Len(log)' \in Nat
      /\ tabs[tab] \in TabSet /\ Len(log) <= Len(log)'
  BY LogTyped DEF TabSound, RowsGo, LiveTyped
<1>2. Owed(tab)' \in SUBSET Owed(tab)
  OBVIOUS
<1>3. sockets[tab].mail \in Seq(Frame)
  BY LogTyped
<1>4. SeenSound(tabs[tab], Owed(tab)', Len(log)')
  BY <1>1, <1>2, <1>3, SoundWithLess
<1>5. ASSUME sockets'[tab].open PROVE MailSound(tabs[tab], sockets[tab].mail, Owed(tab)', Len(log)')
  <2>1. MailSound(tabs[tab], sockets[tab].mail, Owed(tab), Len(log))
    BY <1>5 DEF TabSound
  <2> QED BY <1>1, <1>2, <1>3, <2>1, SoundWithLess
<1> QED BY <1>4, <1>5

(* A frame comes, about a row that is new or none. *)
LEMMA TabHears ==
    ASSUME LiveTyped, LiveTyped', NEW tab \in Tabs, TabSound(tab), RowsGo,
           tabs'[tab] = tabs[tab], sockets[tab].open, tab \in excused => tab \in excused',
           NEW frame \in Frame, frame.type # "welcome", frame.sequence <= Len(log'),
           sockets'[tab].mail = Append(sockets[tab].mail, frame),
           \A e \in Owed(tab)' : e \in Owed(tab) \/ (e > Len(log) /\ frame.type = "event" /\ frame.row = e)
    PROVE  TabSound(tab)'
<1> SUFFICES ASSUME tab \notin excused' PROVE /\ SeenSound(tabs[tab], Owed(tab), Len(log))'
                                              /\ MailSound(tabs[tab], sockets[tab].mail, Owed(tab), Len(log))'
  BY DEF TabSound
<1>1. /\ SeenSound(tabs[tab], Owed(tab), Len(log)) /\ Len(log) \in Nat /\ Len(log)' \in Nat
      /\ MailSound(tabs[tab], sockets[tab].mail, Owed(tab), Len(log))
      /\ tabs[tab] \in TabSet /\ Len(log) <= Len(log)' /\ sockets[tab].mail \in Seq(Frame)
  BY LogTyped DEF TabSound, RowsGo, LiveTyped
<1>2. \A e \in Owed(tab)' : e \in Nat
  <2>1. Owed(tab)' \subseteq DOMAIN log'
    BY DEF Owed
  <2>2. DOMAIN log' = 1 .. Len(log')
    BY LenProperties DEF LiveTyped
  <2> QED BY <1>1, <2>1, <2>2
<1>3. SeenSound(tabs[tab], Owed(tab)', Len(log)')
  BY <1>1, <1>2, SeenWithMore
<1>4. MailSound(tabs[tab], Append(sockets[tab].mail, frame), Owed(tab)', Len(log)')
  BY <1>1, <1>2, MailAppended
<1> QED BY <1>3, <1>4

(* The members and what the sockets were opened with are as they were. *)
LEMMA AuthorityStays ==
    ASSUME AuthoritySound, \A tab \in Tabs : sockets'[tab].open =>
              sockets[tab].open /\ sockets'[tab].epoch = sockets[tab].epoch
              /\ local'[TabOf[tab]] = local[TabOf[tab]]
    PROVE  AuthoritySound'
BY DEF AuthoritySound, Authorised

-----------------------------------------------------------------------------
(* What is written and sent. *)

(* A room's row in the replay table. *)
LEMMA RowIs ==
    ASSUME LiveTyped, NEW r \in Rooms \cup {None}, NEW announced \in BOOLEAN, log' = Row(r, announced)
    PROVE  /\ Len(log') = Len(log) + 1 /\ RowsGo
           /\ log' \in Seq([room : Rooms \cup {None}, announced : BOOLEAN])
           /\ DOMAIN log' = DOMAIN log \cup {Len(log) + 1} /\ Len(log) + 1 \notin DOMAIN log
           /\ log'[Len(log) + 1].room = r /\ log'[Len(log) + 1].announced = announced
<1> DEFINE LogRow == [room : Rooms \cup {None}, announced : BOOLEAN]
           new == [room |-> r, announced |-> announced]
<1>1. log \in Seq(LogRow) /\ new \in LogRow /\ log' = Append(log, new)
  BY DEF LiveTyped, Row
<1>2. new.room = r /\ new.announced = announced
  OBVIOUS
<1>3. Len(log) \in Nat /\ DOMAIN log = 1 .. Len(log)
  BY LogTyped
<1> HIDE DEF LogRow, new
<1>4. /\ log' \in Seq(LogRow) /\ Len(log') = Len(log) + 1 /\ log'[Len(log) + 1] = new
      /\ \A e \in 1 .. Len(log) : log'[e] = log[e]
  BY <1>1, AppendProperties
<1>5. DOMAIN log' = 1 .. Len(log')
  BY <1>4, LenProperties
<1> QED BY <1>2, <1>3, <1>4, <1>5 DEF RowsGo, LogRow

LEMMA BroadcastIs ==
    ASSUME LiveTyped, NEW r, NEW frame \in Frame, Broadcast(r, frame), NEW tab \in Tabs
    PROVE  /\ Hears(tab, r) => /\ sockets'[tab].mail = Append(sockets[tab].mail, frame)
                               /\ sockets[tab].open /\ sockets'[tab].open
           /\ ~Hears(tab, r) => sockets'[tab] = sockets[tab]
           /\ sockets'[tab].open = sockets[tab].open /\ sockets'[tab].epoch = sockets[tab].epoch
           /\ sockets'[tab] \in [open : BOOLEAN, epoch : Nat, mail : Seq(Frame)]
<1> DEFINE heard == [sockets[tab] EXCEPT !.mail = Append(@, frame)]
<1>1. sockets'[tab] = IF Hears(tab, r) THEN heard ELSE sockets[tab]
  BY DEF Broadcast
<1>2. /\ sockets[tab] \in [open : BOOLEAN, epoch : Nat, mail : Seq(Frame)]
      /\ sockets[tab].mail \in Seq(Frame)
  BY LogTyped
<1>3. Append(sockets[tab].mail, frame) \in Seq(Frame)
  BY <1>2, AppendProperties
<1>4. /\ heard.mail = Append(sockets[tab].mail, frame) /\ heard.open = sockets[tab].open
      /\ heard.epoch = sockets[tab].epoch
      /\ heard \in [open : BOOLEAN, epoch : Nat, mail : Seq(Frame)]
  BY <1>2, <1>3
<1> HIDE DEF heard
<1>5. Hears(tab, r) => sockets[tab].open
  BY DEF Hears
<1> QED BY <1>1, <1>2, <1>4, <1>5

LEMMA BroadcastTyped ==
    ASSUME LiveTyped, NEW r, NEW frame \in Frame, Broadcast(r, frame)
    PROVE  sockets' \in [Tabs -> [open : BOOLEAN, epoch : Nat, mail : Seq(Frame)]]
<1>1. \A tab \in Tabs : sockets'[tab] \in [open : BOOLEAN, epoch : Nat, mail : Seq(Frame)]
  BY BroadcastIs
<1>2. sockets' = [tab \in Tabs |-> sockets'[tab]]
  BY DEF Broadcast
<1> QED BY <1>1, <1>2

SameKinds == \A q \in Rooms : rooms'[q].made = rooms[q].made /\ rooms'[q].kind = rooms[q].kind

LEMMA AnnounceHolds ==
    ASSUME LiveSound, NEW r \in Rooms, rooms[r].made, Announce(r), SameKinds, UNCHANGED <<inRoom, local>>
    PROVE  LiveSound'
<1> DEFINE n == Len(log) + 1
           frame == Event(n, n)
<1>1. /\ LiveTyped /\ RowsSound /\ AuthoritySound /\ \A tab \in Tabs : TabSound(tab)
      /\ Len(log) \in Nat /\ Len(log) >= 0 /\ n \in Nat
  BY LogTyped DEF LiveSound
<1>2. /\ log' = Row(r, TRUE) /\ Broadcast(r, Event(Len(log'), Len(log'))) /\ Hide
      /\ UNCHANGED <<purged, tabs, breaks, excused>>
  BY DEF Announce
<1>3. /\ Len(log') = n /\ RowsGo
      /\ log' \in Seq([room : Rooms \cup {None}, announced : BOOLEAN])
      /\ DOMAIN log' = DOMAIN log \cup {n} /\ n \notin DOMAIN log
      /\ log'[n].room = r /\ log'[n].announced = TRUE
  BY <1>1, <1>2, RowIs
<1>4. frame \in Frame /\ frame.type = "event" /\ frame.sequence = n /\ frame.row = n /\ Broadcast(r, frame)
  BY <1>1, <1>2, <1>3, EventIs
<1> HIDE DEF frame
<1>5. LiveTyped'
  <2>0. purged' = purged /\ tabs' = tabs /\ purged \in Nat /\ purged <= Len(log)
    BY <1>1, <1>2, LogTyped
  <2>1. purged' \in 0 .. Len(log')
    BY <1>1, <1>3, <2>0
  <2> QED BY <1>1, <1>2, <1>3, <1>4, <2>1, BroadcastTyped DEF LiveTyped
<1>6. /\ RowsSound'
      /\ \A tab \in Tabs : \A e \in Owed(tab)' : e \in DOMAIN log => e \in Owed(tab)
      /\ \A p \in People, e \in DOMAIN log' : <<p, e>> \notin hidden' =>
            /\ log'[e].room # None
            /\ p \in inRoom'[log'[e].room] \/ rooms'[log'[e].room].kind = "public"
  <2>1. RoomsStay /\ rooms'[r].made
    BY DEF SameKinds, RoomsStay
  <2>2. \A e \in DOMAIN log' : e \notin DOMAIN log /\ log'[e].room # None => rooms'[log'[e].room].made
    BY <1>3, <2>1
  <2> QED BY <1>1, <1>2, <1>3, <1>5, <2>1, <2>2, HideKeeps
<1>7. AuthoritySound'
  BY <1>1, <1>4, BroadcastIs, AuthorityStays
<1>8. ASSUME NEW tab \in Tabs PROVE TabSound(tab)'
  <2>1. TabSound(tab) /\ tabs'[tab] = tabs[tab] /\ excused' = excused /\ TabOf[tab] \in People
    BY <1>1, <1>2, LogTyped
  <2>2. \A e \in Owed(tab)' : e \in Owed(tab) \/ e = n
    BY <1>3, <1>6 DEF Owed
  <2>3. CASE Hears(tab, r)
    <3>1. sockets[tab].open /\ sockets'[tab].mail = Append(sockets[tab].mail, frame)
      BY <1>1, <1>4, <2>3, BroadcastIs
    <3>2. \A e \in Owed(tab)' : e \in Owed(tab) \/ (e > Len(log) /\ frame.type = "event" /\ frame.row = e)
      BY <1>1, <1>4, <2>2
    <3>3. LiveTyped /\ LiveTyped' /\ RowsGo /\ (tab \in excused => tab \in excused')
      BY <1>1, <1>3, <1>5, <2>1
    <3>4. frame \in Frame /\ frame.type # "welcome" /\ frame.sequence <= Len(log')
      BY <1>1, <1>3, <1>4
    <3> QED BY <2>1, <3>1, <3>2, <3>3, <3>4, TabHears
  <2>4. CASE ~Hears(tab, r) /\ sockets[tab].open
    <3>1. sockets'[tab] = sockets[tab]
      BY <1>1, <1>4, <2>4, BroadcastIs
    <3>2. Authorised(tab)
      BY <1>1, <2>4 DEF AuthoritySound
    <3>3. ~(TabOf[tab] \in inRoom[r] \/ rooms[r].kind = "public")
      BY <2>4, <3>2 DEF Hears, Sees
    <3>4. n \notin Owed(tab)'
      BY <1>3, <1>6, <2>1, <3>3 DEF Owed, SameKinds
    <3>5. Owed(tab)' \subseteq Owed(tab)
      BY <2>2, <3>4
    <3> QED BY <1>1, <1>3, <1>5, <2>1, <3>1, <3>5, TabStays
  <2>5. CASE ~Hears(tab, r) /\ ~sockets[tab].open
    <3>1. ~sockets'[tab].open
      BY <1>1, <1>4, <2>5, BroadcastIs
    <3>2. ASSUME tab \notin excused' PROVE SeenSound(tabs[tab], Owed(tab), Len(log))'
      <4>1. SeenSound(tabs[tab], Owed(tab), Len(log)) /\ tabs[tab] \in TabSet
        BY <1>1, <2>1, <3>2, LogTyped DEF TabSound
      <4>2. \A e \in Owed(tab)' : e \in Owed(tab) \/ (e \in Nat /\ e > Len(log))
        BY <1>1, <2>2
      <4>3. SeenSound(tabs[tab], Owed(tab)', n)
        BY <1>1, <4>1, <4>2, SeenWithMore
      <4> QED BY <1>3, <2>1, <4>3
    <3> QED BY <3>1, <3>2 DEF TabSound
  <2> QED BY <2>3, <2>4, <2>5
<1> QED BY <1>5, <1>6, <1>7, <1>8 DEF LiveSound

(* A step that announces nothing: sockets stay as they are or close. *)
LEMMA RecordedHolds ==
    ASSUME LiveSound, LiveTyped', AuthoritySound', Hide, RowsGo, RoomsStay,
           \A e \in DOMAIN log' : e \notin DOMAIN log =>
              /\ ~log'[e].announced
              /\ log'[e].room # None => rooms'[log'[e].room].made,
           UNCHANGED <<tabs, excused>>,
           \A tab \in Tabs : sockets'[tab] = sockets[tab] \/ ~sockets'[tab].open
    PROVE  LiveSound'
<1>1. LiveTyped /\ RowsSound /\ \A tab \in Tabs : TabSound(tab)
  BY DEF LiveSound
<1>2. RowsSound' /\ \A tab \in Tabs : \A e \in Owed(tab)' : e \in DOMAIN log => e \in Owed(tab)
  BY <1>1, HideKeeps
<1>3. ASSUME NEW tab \in Tabs PROVE TabSound(tab)'
  <2>1. \A e \in Owed(tab)' : e \in DOMAIN log
    BY DEF Owed
  <2>2. Owed(tab)' \subseteq Owed(tab)
    BY <1>2, <2>1
  <2>3. TabSound(tab) /\ tabs'[tab] = tabs[tab] /\ excused' = excused
    BY <1>1
  <2> QED BY <1>1, <2>2, <2>3, TabStays
<1> QED BY <1>2, <1>3 DEF LiveSound

LEMMA RowRecorded ==
    ASSUME LiveSound, NEW r \in Rooms, rooms[r].made, RecordRow(r), UNCHANGED <<rooms, local>>
    PROVE  LiveSound'
<1>1. LiveTyped /\ AuthoritySound /\ Len(log) \in Nat /\ purged \in Nat /\ purged <= Len(log)
  BY LogTyped DEF LiveSound
<1>2. /\ log' = Row(r, FALSE) /\ Hide /\ tabs' = tabs /\ excused' = excused /\ sockets' = sockets
      /\ purged' = purged
  BY DEF RecordRow
<1>3. /\ Len(log') = Len(log) + 1 /\ RowsGo
      /\ log' \in Seq([room : Rooms \cup {None}, announced : BOOLEAN])
      /\ DOMAIN log' = DOMAIN log \cup {Len(log) + 1}
      /\ log'[Len(log) + 1].room = r /\ log'[Len(log) + 1].announced = FALSE
  BY <1>1, <1>2, RowIs
<1>4. LiveTyped'
  <2>0. Len(log') = Len(log) + 1 /\ purged' = purged
    BY <1>2, <1>3
  <2>1. purged' \in 0 .. Len(log')
    BY <1>1, <2>0
  <2> QED BY <1>1, <1>2, <1>3, <2>1 DEF LiveTyped
<1>5. AuthoritySound'
  BY <1>1, <1>2, AuthorityStays
<1>6. RoomsStay
  BY DEF RoomsStay
<1>7. \A e \in DOMAIN log' : e \notin DOMAIN log =>
         ~log'[e].announced /\ (log'[e].room # None => rooms'[log'[e].room].made)
  BY <1>3
<1>8. UNCHANGED <<tabs, excused>> /\ \A tab \in Tabs : sockets'[tab] = sockets[tab] \/ ~sockets'[tab].open
  BY <1>2
<1>9. Hide
  BY <1>2
<1> QED BY <1>3, <1>4, <1>5, <1>6, <1>7, <1>8, <1>9, RecordedHolds

(* A frame that tells of no row. *)
LEMMA SentHolds ==
    ASSUME LiveSound, NEW r, NEW frame \in Frame, frame.type = "event", Broadcast(r, frame), Hide,
           RoomsStay, UNCHANGED <<log, purged, tabs, local>>, excused \subseteq excused',
           \A tab \in Tabs : Hears(tab, r) => tab \in excused' \/ frame.sequence <= Len(log)
    PROVE  LiveSound'
<1>1. LiveTyped /\ RowsSound /\ AuthoritySound /\ \A tab \in Tabs : TabSound(tab)
  BY DEF LiveSound
<1>2. LiveTyped'
  BY <1>1, BroadcastTyped DEF LiveTyped
<1>3. RowsGo
  BY <1>1, LogTyped DEF RowsGo
<1>4. RowsSound' /\ \A tab \in Tabs : \A e \in Owed(tab)' : e \in DOMAIN log => e \in Owed(tab)
  BY <1>1, <1>2, <1>3, HideKeeps
<1>5. AuthoritySound'
  BY <1>1, BroadcastIs, AuthorityStays
<1>6. ASSUME NEW tab \in Tabs PROVE TabSound(tab)'
  <2>1. Owed(tab)' \subseteq Owed(tab)
    BY <1>4 DEF Owed
  <2>2. TabSound(tab) /\ tabs'[tab] = tabs[tab] /\ (tab \in excused => tab \in excused')
    BY <1>1
  <2>3. CASE tab \in excused'
    BY <2>3 DEF TabSound
  <2>4. CASE tab \notin excused' /\ Hears(tab, r)
    <3>1. sockets[tab].open /\ sockets'[tab].mail = Append(sockets[tab].mail, frame)
      BY <1>1, <2>4, BroadcastIs
    <3>2. frame.sequence <= Len(log') /\ frame.type # "welcome"
      BY <2>4
    <3>3. \A e \in Owed(tab)' : e \in Owed(tab) \/ (e > Len(log) /\ frame.type = "event" /\ frame.row = e)
      BY <2>1
    <3> QED BY <1>1, <1>2, <1>3, <2>2, <3>1, <3>2, <3>3, TabHears
  <2>5. CASE ~Hears(tab, r)
    <3>1. sockets'[tab] = sockets[tab]
      BY <1>1, <2>5, BroadcastIs
    <3> QED BY <1>1, <1>2, <1>3, <2>1, <2>2, <3>1, TabStays
  <2> QED BY <2>3, <2>4, <2>5
<1> QED BY <1>2, <1>4, <1>5, <1>6 DEF LiveSound

LEMMA MentionHolds ==
    ASSUME LiveSound, NEW r, Mention(r), UNCHANGED <<rooms, local>>
    PROVE  LiveSound'
<1> DEFINE n == Latest(log, purged)
           frame == Event(n, 0)
<1>1. Len(log) \in Nat /\ n \in Nat /\ n <= Len(log)
  BY LogTyped DEF LiveSound, Latest
<1>2. frame \in Frame /\ frame.type = "event" /\ frame.sequence = n
  BY <1>1, EventIs
<1>3. Broadcast(r, frame) /\ Hide /\ UNCHANGED <<log, purged, tabs, excused>>
  BY DEF Mention
<1> HIDE DEF frame, n
<1>4. \A tab \in Tabs : Hears(tab, r) => tab \in excused' \/ frame.sequence <= Len(log)
  BY <1>1, <1>2
<1> QED BY <1>2, <1>3, <1>4, SentHolds DEF RoomsStay

LEMMA CardHolds ==
    ASSUME LiveSound, RoomsTyped, NEW r \in Rooms, PostCard(r)
    PROVE  LiveSound'
<1> DEFINE frame == Event(rooms[r].next, 0)
<1>1. rooms \in [Rooms -> RoomSet] /\ rooms[r].next \in Nat
  BY DEF RoomsTyped, RoomSet
<1>2. frame \in Frame /\ frame.type = "event"
  BY <1>1, EventIs
<1>3. /\ Broadcast(r, frame) /\ Hide /\ UNCHANGED <<log, purged, tabs>>
      /\ excused' = excused \cup {tab \in Tabs : Hears(tab, r)}
      /\ rooms' = [rooms EXCEPT ![r].next = @ + 1] /\ local' = local
  BY DEF PostCard, Written, Move, membersAside, vars
<1>4. RoomsStay
  <2>1. \A q \in Rooms : rooms'[q].made = rooms[q].made
    BY <1>1, <1>3 DEF RoomSet
  <2> QED BY <2>1 DEF RoomsStay
<1> HIDE DEF frame
<1> QED BY <1>2, <1>3, <1>4, SentHolds

(* Whoever is changed and was known comes back with an epoch of his own. *)
LEMMA MembersChangeHolds ==
    ASSUME LiveSound, MembersInvariant, EpochsKept, MembersChange
    PROVE  LiveSound'
<1> DEFINE changed == {p \in People : local'[p] # local[p]}
           gone == {p \in changed : local'[p].epoch > 1 \/ local'[p].status # "active"}
<1>1. LiveTyped /\ AuthoritySound /\ Len(log) \in Nat /\ purged \in Nat /\ purged <= Len(log)
  BY LogTyped DEF LiveSound
<1>2. /\ MembershipNext /\ UNCHANGED <<rooms, inRoom>>
      /\ log' = log \/ log' = Row(None, FALSE)
      /\ sockets' = [tab \in Tabs |-> IF TabOf[tab] \in gone THEN Closed ELSE sockets[tab]]
      /\ Hide /\ tabs' = tabs /\ excused' = excused /\ purged' = purged
  BY DEF MembersChange, MembersMove, content, CloseMemberSockets
<1> HIDE DEF gone
<1>3. /\ RowsGo /\ Len(log') \in Nat /\ Len(log) <= Len(log')
      /\ log' \in Seq([room : Rooms \cup {None}, announced : BOOLEAN])
      /\ \A e \in DOMAIN log' : e \notin DOMAIN log => ~log'[e].announced /\ log'[e].room = None
  <2>1. CASE log' = log
    BY <1>1, <2>1, LogTyped DEF RowsGo, LiveTyped
  <2>2. CASE log' = Row(None, FALSE)
    <3>1. /\ Len(log') = Len(log) + 1 /\ RowsGo
          /\ log' \in Seq([room : Rooms \cup {None}, announced : BOOLEAN])
          /\ DOMAIN log' = DOMAIN log \cup {Len(log) + 1}
          /\ log'[Len(log) + 1].room = None /\ log'[Len(log) + 1].announced = FALSE
      BY <1>1, <2>2, RowIs
    <3> QED BY <1>1, <3>1
  <2> QED BY <1>2, <2>1, <2>2
<1>4. LiveTyped'
  <2>1. purged' \in 0 .. Len(log')
    BY <1>1, <1>2, <1>3
  <2>2. Closed \in [open : BOOLEAN, epoch : Nat, mail : Seq(Frame)]
    BY DEF Closed
  <2>3. sockets' \in [Tabs -> [open : BOOLEAN, epoch : Nat, mail : Seq(Frame)]]
    BY <1>1, <1>2, <2>2 DEF LiveTyped
  <2> QED BY <1>1, <1>2, <1>3, <2>1, <2>3 DEF LiveTyped
<1>5. \A tab \in Tabs : /\ TabOf[tab] \in gone => ~sockets'[tab].open
                        /\ TabOf[tab] \notin gone => sockets'[tab] = sockets[tab]
  BY <1>2 DEF Closed
<1>6. AuthoritySound'
  <2> SUFFICES ASSUME NEW tab \in Tabs, sockets'[tab].open
               PROVE  sockets[tab].open /\ sockets'[tab].epoch = sockets[tab].epoch
                      /\ local'[TabOf[tab]] = local[TabOf[tab]]
    BY <1>1, AuthorityStays
  <2>1. sockets'[tab] = sockets[tab] /\ TabOf[tab] \notin gone /\ TabOf[tab] \in People
    BY <1>1, <1>5, LogTyped
  <2>2. local[TabOf[tab]].status = "active"
    BY <1>1, <2>1 DEF AuthoritySound, Authorised
  <2>3. local[TabOf[tab]] # NoRow
    BY <2>2 DEF NoRow
  <2>4. local'[TabOf[tab]] # local[TabOf[tab]] => local'[TabOf[tab]].epoch > 1
    BY <1>2, <2>1, <2>3, LaterEpoch
  <2> QED BY <2>1, <2>4 DEF gone
<1>7. RoomsStay
  BY <1>2 DEF RoomsStay
<1>8. \A e \in DOMAIN log' : e \notin DOMAIN log =>
         ~log'[e].announced /\ (log'[e].room # None => rooms'[log'[e].room].made)
  BY <1>3
<1>9. \A tab \in Tabs : sockets'[tab] = sockets[tab] \/ ~sockets'[tab].open
  BY <1>5
<1> QED BY <1>2, <1>3, <1>4, <1>6, <1>7, <1>8, <1>9, RecordedHolds

-----------------------------------------------------------------------------
(* Sockets. *)

(* A step of one tab. *)
LEMMA SocketMoves ==
    ASSUME LiveSound, NEW tab \in Tabs, NEW socket \in [open : BOOLEAN, epoch : Nat, mail : Seq(Frame)],
           sockets' = [sockets EXCEPT ![tab] = socket],
           NEW seen \in TabSet, tabs' = [tabs EXCEPT ![tab] = seen],
           UNCHANGED <<log, purged, hidden, rooms, inRoom, local>>, excused \subseteq excused',
           socket.open => local[TabOf[tab]].status = "active" /\ local[TabOf[tab]].epoch = socket.epoch,
           tab \notin excused' =>
              /\ SeenSound(seen, Owed(tab), Len(log))
              /\ socket.open => MailSound(seen, socket.mail, Owed(tab), Len(log))
    PROVE  LiveSound'
<1>1. LiveTyped /\ RowsSound /\ AuthoritySound /\ \A other \in Tabs : TabSound(other)
  BY DEF LiveSound
<1>0. DOMAIN sockets = Tabs /\ DOMAIN tabs = Tabs
  BY <1>1 DEF LiveTyped
<1>2. /\ sockets'[tab] = socket /\ tabs'[tab] = seen
      /\ \A other \in Tabs : other # tab => sockets'[other] = sockets[other] /\ tabs'[other] = tabs[other]
  BY <1>0
<1>3. LiveTyped'
  BY <1>1 DEF LiveTyped
<1>4. RowsSound'
  BY <1>1 DEF RowsSound
<1>5. AuthoritySound'
  BY <1>1, <1>2 DEF AuthoritySound, Authorised
<1>6. \A other \in Tabs : Owed(other)' = Owed(other)
  BY DEF Owed
<1>7. ASSUME NEW other \in Tabs PROVE TabSound(other)'
  <2>1. CASE other = tab
    <3>1. Owed(tab)' = Owed(tab) /\ Len(log') = Len(log)
      BY <1>6
    <3>2. ASSUME tab \notin excused'
          PROVE  /\ SeenSound(seen, Owed(tab)', Len(log'))
                 /\ socket.open => MailSound(seen, socket.mail, Owed(tab)', Len(log'))
      BY <3>1, <3>2
    <3>3. TabSound(tab)'
      BY <1>2, <3>2 DEF TabSound
    <3> QED BY <2>1, <3>3
  <2>2. CASE other # tab
    <3>1. sockets'[other] = sockets[other] /\ tabs'[other] = tabs[other] /\ TabSound(other)
      BY <1>1, <1>2, <2>2
    <3> QED BY <1>6, <3>1 DEF TabSound
  <2> QED BY <2>1, <2>2
<1> QED BY <1>3, <1>4, <1>5, <1>7 DEF LiveSound

LEMMA WelcomeIs ==
    ASSUME NEW n \in Nat
    PROVE  /\ Welcome(n) \in Frame /\ Welcome(n).type = "welcome" /\ Welcome(n).sequence = n
           /\ Reset \in Frame /\ Reset.type = "reset" /\ Reset.sequence = 0
BY DEF Welcome, Reset, Frame

LEMMA ReplaySent ==
    ASSUME LiveTyped, NEW p, NEW since \in Nat
    PROVE  /\ ReplayForSocket(p, since) \in Seq(Frame)
           /\ \A k \in 1 .. Len(ReplayForSocket(p, since)) :
                 /\ ReplayForSocket(p, since)[k].type # "welcome"
                 /\ ReplayForSocket(p, since)[k].sequence <= Len(log)
<1>1. CASE ReplayForSocket(p, since) = <<Reset>>
  <2>1. <<Reset>> \in Seq(Frame) /\ Len(<<Reset>>) = 1 /\ <<Reset>>[1] = Reset
    BY WelcomeIs
  <2>2. Reset.type # "welcome" /\ Reset.sequence <= Len(log)
    BY LogTyped DEF Reset
  <2> QED BY <1>1, <2>1, <2>2
<1>2. CASE ReplayForSocket(p, since) = RowsAfter(p, since)
  <2>1. /\ RowsAfter(p, since) \in Seq(Frame)
        /\ \A k \in 1 .. Len(RowsAfter(p, since)) :
              RowsAfter(p, since)[k].type = "event" /\ RowsAfter(p, since)[k].sequence <= Len(log)
    BY ReplayIs
  <2> QED BY <1>2, <2>1
<1> QED BY <1>1, <1>2 DEF ReplayForSocket

(* What a tab is welcomed with leaves no gap. *)
LEMMA MailOfConnect ==
    ASSUME LiveSound, NEW tab \in Tabs, tab \notin excused, ~ResumesBlind(tab)
    PROVE  MailSound(tabs[tab],
                     <<Welcome(Latest(log, purged))>>
                        \o (IF tabs[tab].cursor > 0 THEN ReplayForSocket(TabOf[tab], tabs[tab].cursor)
                            ELSE <<>>), Owed(tab), Len(log))
<1> DEFINE p == TabOf[tab]
           since == tabs[tab].cursor
           hello == Latest(log, purged)
           first == <<Welcome(hello)>>
<1>1. /\ LiveTyped /\ RowsSound /\ SeenSound(tabs[tab], Owed(tab), Len(log))
      /\ p \in People /\ since \in Nat /\ tabs[tab] \in TabSet
      /\ Len(log) \in Nat /\ purged \in Nat /\ purged <= Len(log)
      /\ Owed(tab) \in SUBSET (1 .. Len(log)) /\ Owed(tab) \in SUBSET Nat
  BY LogTyped DEF LiveSound, TabSound
<1>2. hello \in Nat /\ hello <= Len(log)
  BY <1>1 DEF Latest
<1>3. first \in Seq(Frame) /\ Len(first) = 1 /\ first[1] = Welcome(hello)
  BY <1>2, WelcomeIs
<1>4. CASE since = 0
  <2>1. first \o <<>> = first
    BY <1>3, ConcatEmptySeq
  <2>2. MailSound(tabs[tab], first, Owed(tab), Len(log))
    <3>1. \A e : Brings(tabs[tab], first[1], e)
      BY <1>2, <1>3, <1>4, WelcomeIs DEF Brings
    <3> HIDE DEF first, hello
    <3>2. \A k \in 1 .. Len(first) : k = 1
      BY <1>3
    <3> QED BY <1>2, <1>3, <3>1, <3>2, WelcomeIs DEF MailSound, Arrives
  <2> QED BY <1>1, <1>4, <2>1, <2>2
<1>5. CASE since > 0 /\ ReplayForSocket(p, since) = <<Reset>>
  <2> DEFINE m == first \o <<Reset>>
  <2>1. Len(m) = 2 /\ m[1] = Welcome(hello) /\ m[2] = Reset
    BY <1>3
  <2>2. \A e : Brings(tabs[tab], m[2], e)
    BY <1>2, <2>1, WelcomeIs DEF Brings
  <2> HIDE DEF m, hello
  <2>3. \A k \in 1 .. Len(m) : k = 1 \/ k = 2
    BY <2>1
  <2>4. Reset.sequence <= Len(log)
    BY <1>1, <1>2, WelcomeIs
  <2>5. MailSound(tabs[tab], m, Owed(tab), Len(log))
    <3>0. /\ m[1].type = "welcome" /\ m[1].sequence = hello
          /\ m[2].type = "reset" /\ m[2].sequence = 0 /\ 0 <= Len(log)
      BY <1>1, <1>2, <2>1, WelcomeIs
    <3>1. \A k \in 1 .. Len(m) : m[k].sequence <= Len(log) /\ (m[k].type = "welcome" => k = 1)
      BY <1>2, <2>3, <3>0
    <3>2. \A k \in 1 .. Len(m) : m[k].type # "event"
      BY <2>3, <3>0
    <3>3. \A e \in Owed(tab) : Arrives(tabs[tab], m, Len(m), e)
      BY <2>1, <2>2 DEF Arrives
    <3> QED BY <3>1, <3>2, <3>3 DEF MailSound
  <2> QED BY <1>5, <2>5 DEF m, hello
<1>6. CASE since > 0 /\ ReplayForSocket(p, since) # <<Reset>>
  <2> DEFINE sent == RowsAfter(p, since)
  <2>1. ReplayForSocket(p, since) = sent /\ ~(Oldest > 0 /\ since + 1 < Oldest)
    BY <1>6 DEF ReplayForSocket
  <2>2. /\ sent \in Seq(Frame)
        /\ \A k \in 1 .. Len(sent) : /\ sent[k].type = "event" /\ sent[k].row = sent[k].sequence
                                      /\ sent[k].sequence <= Len(log)
        /\ \A j, k \in 1 .. Len(sent) : sent[j].row <= sent[k].sequence => j <= k
        /\ \A e \in RowsSince(p, since) : \E k \in 1 .. Len(sent) : sent[k].row = e
    <3>1. LiveTyped /\ since \in Nat
      BY <1>1
    <3>2. sent = RowsAfter(p, since)
      OBVIOUS
    <3> HIDE DEF sent
    <3> QED BY <3>1, <3>2, ReplayIs
  <2> HIDE DEF sent
  <2>3. ASSUME NEW e \in Owed(tab)
        PROVE  Heard(tabs[tab], e) \/ \E k \in 1 .. Len(sent) : sent[k].row = e
    <3>0. e \in Nat /\ e <= Len(log)
      BY <1>1
    <3>1. CASE e <= since
      BY <1>1, <3>1 DEF SeenSound
    <3>2. CASE e > since
      <4>1. e > purged
        <5>1. CASE Oldest = 0
          <6>1. Len(log) = purged
            BY <1>1, <5>1 DEF Oldest
          <6>2. ~(since < Len(log))
            BY <1>6, <5>1 DEF ResumesBlind
          <6> QED BY <1>1, <3>0, <3>2, <6>2
        <5>2. CASE Oldest # 0
          <6>1. Oldest = purged + 1
            BY <5>2 DEF Oldest
          <6> QED BY <1>1, <2>1, <3>0, <3>2, <6>1
        <5> QED BY <5>1, <5>2
      <4>2. e \in DOMAIN log /\ <<p, e>> \notin hidden
        BY DEF Owed
      <4>3. log[e].room # None /\ Sees(p, log[e].room)
        BY <1>1, <4>2 DEF RowsSound, Sees
      <4>4. e \in RowsSince(p, since)
        BY <3>2, <4>1, <4>2, <4>3 DEF RowsSince
      <4> QED BY <2>2, <4>4
    <3> QED BY <1>1, <3>0, <3>1, <3>2
  <2>4. MailSound(tabs[tab], first \o sent, Owed(tab), Len(log))
    BY <1>1, <1>2, <2>2, <2>3, MailReplayed
  <2> QED BY <1>6, <2>1, <2>4
<1> QED BY <1>1, <1>4, <1>5, <1>6

LEMMA MailReplaced ==
    ASSUME NEW socket \in [open : BOOLEAN, epoch : Nat, mail : Seq(Frame)], NEW mail \in Seq(Frame)
    PROVE  LET after == [socket EXCEPT !.mail = mail]
           IN  /\ after \in [open : BOOLEAN, epoch : Nat, mail : Seq(Frame)]
               /\ after.open = socket.open /\ after.epoch = socket.epoch /\ after.mail = mail
OBVIOUS

LEMMA Dialled ==
    ASSUME LiveSound, MembersInvariant, NEW tab \in Tabs, Connect(tab), UNCHANGED <<rooms, inRoom, local>>
    PROVE  LiveSound'
<1> DEFINE p == TabOf[tab]
           since == tabs[tab].cursor
           mail == <<Welcome(Latest(log, purged))>>
                      \o (IF since > 0 THEN ReplayForSocket(p, since) ELSE <<>>)
           socket == [open |-> TRUE, epoch |-> rows[p].epoch, mail |-> mail]
<1>1. /\ LiveTyped /\ TabSound(tab) /\ p \in People /\ since \in Nat /\ tabs[tab] \in TabSet
      /\ Len(log) \in Nat
  BY LogTyped DEF LiveSound
<1>2. /\ Access(p) /\ sockets' = [sockets EXCEPT ![tab] = socket]
      /\ excused' = IF ResumesBlind(tab) THEN excused \cup {tab} ELSE excused
      /\ UNCHANGED <<log, purged, tabs, breaks, hidden>>
  BY DEF Connect
<1>3. mail \in Seq(Frame)
  <2>1. Latest(log, purged) \in Nat
    BY <1>1 DEF Latest
  <2>2. <<Welcome(Latest(log, purged))>> \in Seq(Frame)
    BY <2>1, WelcomeIs
  <2>3. (IF since > 0 THEN ReplayForSocket(p, since) ELSE <<>>) \in Seq(Frame)
    BY <1>1, ReplaySent
  <2> QED BY <2>2, <2>3, ConcatProperties
<1>4. /\ local[p].status = "active" /\ rows[p].status = "active"
      /\ rows[p].epoch = local[p].epoch /\ rows[p].epoch \in Nat
  <2>1. rows[p] \in MemberRow \cup {NoRow} /\ rows[p].status = "active" /\ local[p].status = "active"
        /\ rows[p].epoch = local[p].epoch
    BY <1>1, <1>2 DEF MembersInvariant, TablesTyped, Table, Access
  <2>2. rows[p].epoch \in Nat
    BY <2>1 DEF MemberRow, NoRow
  <2> QED BY <2>1, <2>2
<1>5. ASSUME tab \notin excused'
      PROVE  /\ SeenSound(tabs[tab], Owed(tab), Len(log))
             /\ MailSound(tabs[tab], mail, Owed(tab), Len(log))
  <2>1. tab \notin excused /\ ~ResumesBlind(tab)
    BY <1>2, <1>5
  <2> QED BY <1>1, <2>1, MailOfConnect DEF TabSound
<1> HIDE DEF mail
<1>6. /\ socket \in [open : BOOLEAN, epoch : Nat, mail : Seq(Frame)]
      /\ socket.open /\ socket.epoch = rows[p].epoch /\ socket.mail = mail
  BY <1>3, <1>4
<1> HIDE DEF socket
<1>7. tabs' = [tabs EXCEPT ![tab] = tabs[tab]]
  BY <1>1, <1>2 DEF LiveTyped
<1>8. UNCHANGED <<log, purged, hidden, rooms, inRoom, local>> /\ excused \subseteq excused'
  BY <1>2
<1>9. socket.open => local[TabOf[tab]].status = "active" /\ local[TabOf[tab]].epoch = socket.epoch
  BY <1>4, <1>6
<1>10. tab \notin excused' =>
          /\ SeenSound(tabs[tab], Owed(tab), Len(log))
          /\ socket.open => MailSound(tabs[tab], socket.mail, Owed(tab), Len(log))
  BY <1>5, <1>6
<1> QED BY <1>1, <1>2, <1>6, <1>7, <1>8, <1>9, <1>10, SocketMoves

LEMMA Resumed ==
    ASSUME LiveSound, NEW tab \in Tabs, Resume(tab), UNCHANGED <<rooms, inRoom, local>>
    PROVE  LiveSound'
<1> DEFINE p == TabOf[tab]
           since == tabs[tab].cursor
           sent == ReplayForSocket(p, since)
           mail == sockets[tab].mail \o sent
           socket == [sockets[tab] EXCEPT !.mail = mail]
<1>1. /\ LiveTyped /\ TabSound(tab) /\ p \in People /\ since \in Nat /\ tabs[tab] \in TabSet
      /\ Len(log) \in Nat /\ sockets[tab].mail \in Seq(Frame) /\ sockets[tab].epoch \in Nat
      /\ sockets[tab] \in [open : BOOLEAN, epoch : Nat, mail : Seq(Frame)]
  BY LogTyped DEF LiveSound
<1>2. /\ sockets[tab].open /\ Authorised(tab)
      /\ sockets' = [sockets EXCEPT ![tab].mail = sockets[tab].mail \o sent]
      /\ excused \subseteq excused'
      /\ UNCHANGED <<log, purged, tabs, breaks, hidden>>
  BY DEF Resume
<1>3. /\ sent \in Seq(Frame)
      /\ \A k \in 1 .. Len(sent) : sent[k].type # "welcome" /\ sent[k].sequence <= Len(log)
  BY <1>1, ReplaySent
<1> HIDE DEF sent
<1>4. mail \in Seq(Frame)
  BY <1>1, <1>3, ConcatProperties
<1>5. tab \notin excused' =>
          /\ SeenSound(tabs[tab], Owed(tab), Len(log))
          /\ MailSound(tabs[tab], mail, Owed(tab), Len(log))
  BY <1>1, <1>2, <1>3, MailContinued DEF TabSound
<1>6. sockets' = [sockets EXCEPT ![tab] = socket]
  BY <1>2
<1> HIDE DEF mail
<1>7. /\ socket \in [open : BOOLEAN, epoch : Nat, mail : Seq(Frame)]
      /\ socket.open /\ socket.epoch = sockets[tab].epoch /\ socket.mail = mail
  BY <1>1, <1>2, <1>4, MailReplaced
<1> HIDE DEF socket
<1>8. tabs' = [tabs EXCEPT ![tab] = tabs[tab]]
  BY <1>1, <1>2 DEF LiveTyped
<1>9. UNCHANGED <<log, purged, hidden, rooms, inRoom, local>> /\ excused \subseteq excused'
  BY <1>2
<1>10. socket.open => local[TabOf[tab]].status = "active" /\ local[TabOf[tab]].epoch = socket.epoch
  BY <1>2, <1>7 DEF Authorised
<1>11. tab \notin excused' =>
          /\ SeenSound(tabs[tab], Owed(tab), Len(log))
          /\ socket.open => MailSound(tabs[tab], socket.mail, Owed(tab), Len(log))
  BY <1>5, <1>7
<1> QED BY <1>1, <1>6, <1>7, <1>8, <1>9, <1>10, <1>11, SocketMoves

LEMMA Broken ==
    ASSUME LiveSound, NEW tab \in Tabs, Break(tab), UNCHANGED <<rooms, inRoom, local>>
    PROVE  LiveSound'
<1>1. LiveTyped /\ TabSound(tab) /\ tabs[tab] \in TabSet
  BY LogTyped DEF LiveSound
<1>2. sockets' = [sockets EXCEPT ![tab] = Closed] /\ UNCHANGED <<log, purged, tabs, hidden, excused>>
  BY DEF Break
<1>3. Closed \in [open : BOOLEAN, epoch : Nat, mail : Seq(Frame)] /\ ~Closed.open
  BY DEF Closed
<1>4. tabs' = [tabs EXCEPT ![tab] = tabs[tab]]
  BY <1>1, <1>2 DEF LiveTyped
<1>5. UNCHANGED <<log, purged, hidden, rooms, inRoom, local>> /\ excused \subseteq excused'
  BY <1>2
<1>6. Closed.open => local[TabOf[tab]].status = "active" /\ local[TabOf[tab]].epoch = Closed.epoch
  BY <1>3
<1>7. tab \notin excused' =>
          /\ SeenSound(tabs[tab], Owed(tab), Len(log))
          /\ Closed.open => MailSound(tabs[tab], Closed.mail, Owed(tab), Len(log))
  BY <1>1, <1>2, <1>3 DEF TabSound
<1> QED BY <1>1, <1>2, <1>3, <1>4, <1>5, <1>6, <1>7, SocketMoves

LEMMA Received ==
    ASSUME LiveSound, NEW tab \in Tabs, Receive(tab), UNCHANGED <<rooms, inRoom, local>>
    PROVE  LiveSound'
<1> DEFINE old == sockets[tab].mail
           frame == Head(old)
           rest == Tail(old)
           socket == [sockets[tab] EXCEPT !.mail = rest]
           seen == Taken(tabs[tab], frame, Len(log))
<1>1. /\ LiveTyped /\ AuthoritySound /\ TabSound(tab) /\ TabOf[tab] \in People /\ tabs[tab] \in TabSet
      /\ Len(log) \in Nat /\ old \in Seq(Frame) /\ sockets[tab].epoch \in Nat
      /\ Owed(tab) \in SUBSET (1 .. Len(log))
      /\ sockets[tab] \in [open : BOOLEAN, epoch : Nat, mail : Seq(Frame)]
  BY LogTyped DEF LiveSound
<1>2. /\ sockets[tab].open /\ old # <<>>
      /\ sockets' = [sockets EXCEPT ![tab].mail = Tail(@)]
      /\ tabs' = [tabs EXCEPT ![tab] = seen]
      /\ UNCHANGED <<log, purged, breaks, hidden, excused>>
  BY DEF Receive, Taken
<1>3. frame \in Frame /\ rest \in Seq(Frame)
  BY <1>1, <1>2, HeadTailProperties
<1>4. seen \in TabSet
  BY <1>1, <1>3, TakenTyped
<1>5. tab \notin excused' =>
          /\ SeenSound(seen, Owed(tab), Len(log))
          /\ MailSound(seen, rest, Owed(tab), Len(log))
  BY <1>1, <1>2, MailTaken DEF TabSound
<1> HIDE DEF seen, frame
<1>6. sockets' = [sockets EXCEPT ![tab] = socket]
  BY <1>2
<1> HIDE DEF rest, old
<1>7. /\ socket \in [open : BOOLEAN, epoch : Nat, mail : Seq(Frame)]
      /\ socket.open /\ socket.epoch = sockets[tab].epoch /\ socket.mail = rest
  BY <1>1, <1>2, <1>3, MailReplaced DEF old
<1> HIDE DEF socket
<1>9. UNCHANGED <<log, purged, hidden, rooms, inRoom, local>> /\ excused \subseteq excused'
  BY <1>2
<1>10. socket.open => local[TabOf[tab]].status = "active" /\ local[TabOf[tab]].epoch = socket.epoch
  BY <1>1, <1>2, <1>7 DEF AuthoritySound, Authorised
<1>11. tab \notin excused' =>
          /\ SeenSound(seen, Owed(tab), Len(log))
          /\ socket.open => MailSound(seen, socket.mail, Owed(tab), Len(log))
  BY <1>5, <1>7
<1> QED BY <1>1, <1>2, <1>4, <1>6, <1>7, <1>9, <1>10, <1>11, SocketMoves

(* Rows are swept: nobody is told of less than he knows.                    *)
LEMMA Swept ==
    ASSUME LiveSound, NEW n \in 1 .. Len(log), SweepReplay(n), UNCHANGED <<rooms, inRoom, local>>
    PROVE  LiveSound'
<1>1. LiveTyped /\ RowsSound /\ AuthoritySound /\ \A tab \in Tabs : TabSound(tab)
  BY DEF LiveSound
<1>2. UNCHANGED <<log, sockets, tabs, hidden, excused>> /\ purged' = n
  BY DEF SweepReplay
<1>3. LiveTyped'
  <2>1. Len(log) \in Nat /\ Len(log') = Len(log)
    BY <1>1, <1>2, LogTyped
  <2>2. purged' \in 0 .. Len(log')
    BY <1>2, <2>1
  <2> QED BY <1>1, <1>2, <2>2 DEF LiveTyped
<1>4. RowsSound'
  BY <1>1, <1>2 DEF RowsSound
<1>5. AuthoritySound'
  BY <1>1, <1>2 DEF AuthoritySound, Authorised
<1>6. ASSUME NEW tab \in Tabs PROVE TabSound(tab)'
  <2>1. Owed(tab)' = Owed(tab)
    BY <1>2 DEF Owed
  <2> QED BY <1>1, <1>2, <2>1 DEF TabSound
<1> QED BY <1>3, <1>4, <1>5, <1>6 DEF LiveSound

LEMMA SocketStepHolds ==
    ASSUME LiveSound, MembersInvariant, SocketStep, UNCHANGED <<vars, roomVars>>
    PROVE  LiveSound'
<1>1. UNCHANGED <<rooms, inRoom, local>>
  BY DEF vars, roomVars, content
<1>2. CASE \E tab \in Tabs : Connect(tab) \/ Resume(tab) \/ Break(tab) \/ Receive(tab)
  BY <1>1, <1>2, Dialled, Resumed, Broken, Received
<1>3. CASE \E n \in 1 .. Len(log) : SweepReplay(n)
  BY <1>1, <1>3, Swept
<1> QED BY <1>2, <1>3 DEF SocketStep

-----------------------------------------------------------------------------
(* The rooms' own operations. *)

LEMMA WrittenAlike ==
    ASSUME RoomsTyped, NEW r \in Rooms, NEW p, NEW root, NEW from, Written(p, r, root, from)
    PROVE  SameKinds
<1>1. rooms \in [Rooms -> RoomSet] /\ rooms' = [rooms EXCEPT ![r].next = @ + 1]
  BY DEF RoomsTyped, Written
<1>2. \A q \in Rooms : rooms'[q].made = rooms[q].made /\ rooms'[q].kind = rooms[q].kind
  BY <1>1 DEF RoomSet
<1> QED BY <1>2 DEF SameKinds

LEMMA MoveAside == ASSUME NEW name, Move(name) PROVE local' = local
BY MoveKeepsMembers DEF vars

LEMMA AnnouncedHolds ==
    ASSUME LiveSound, RoomsSound, AnnouncedStep
    PROVE  LiveSound'
<1>0. RoomsTyped /\ \A m \in Posts : PostSound(m) /\ posts[m].room \in Rooms
  BY PostsTyped DEF RoomsSound
<1>1. ASSUME NEW p \in People, NEW r \in Rooms, NEW parent \in Posts \cup {0},
             SendMessage(p, r, parent, Nobody, {}, FALSE), Announce(r)
      PROVE  LiveSound'
  <2>1. /\ Move("send") /\ rooms[r].made /\ Written(p, r, RootOf(parent), 0) /\ inRoom' = inRoom
    BY <1>1 DEF SendMessage, Participant
  <2> QED BY <1>0, <1>1, <2>1, WrittenAlike, MoveAside, AnnounceHolds
<1>2. ASSUME NEW p \in People, NEW m \in Posts, NEW r \in Rooms, ForwardMessage(p, m, r), Announce(r)
      PROVE  LiveSound'
  <2>1. /\ Move("forward") /\ rooms[r].made /\ Written(p, r, 0, m) /\ inRoom' = inRoom
    BY <1>2 DEF ForwardMessage, Participant
  <2> QED BY <1>0, <1>2, <2>1, WrittenAlike, MoveAside, AnnounceHolds
<1>3. ASSUME NEW p \in People, NEW m \in Posts, Announce(posts[m].room),
             DeleteMessage(p, m) \/ ReactToMessage(p, m, TRUE) \/ PinMessage(p, m, TRUE)
      PROVE  LiveSound'
  <2>1. rooms' = rooms /\ inRoom' = inRoom /\ (Move("delete") \/ Move("keep"))
    BY <1>3 DEF DeleteMessage, ReactToMessage, PinMessage, content
  <2>2. SameKinds /\ local' = local
    BY <2>1, MoveAside DEF SameKinds
  <2>3. posts[m].room \in Rooms /\ rooms[posts[m].room].made
    BY <1>0 DEF PostSound
  <2> QED BY <1>3, <2>1, <2>2, <2>3, AnnounceHolds
<1>4. ASSUME NEW p \in People, NEW m \in Posts, Mention(posts[m].room),
             ReactToMessage(p, m, FALSE) \/ PinMessage(p, m, FALSE)
      PROVE  LiveSound'
  <2>1. rooms' = rooms /\ Move("keep")
    BY <1>4 DEF ReactToMessage, PinMessage, content
  <2>2. local' = local
    BY <2>1, MoveAside
  <2> QED BY <1>4, <2>1, <2>2, MentionHolds
<1> QED BY <1>1, <1>2, <1>3, <1>4 DEF AnnouncedStep

LEMMA RecordedStepHolds ==
    ASSUME LiveSound, RecordedStep
    PROVE  LiveSound'
<1>1. PICK p \in People, r \in Rooms :
         \/ (JoinChannel(p, r) \/ LeaveChannel(p, r)) /\ RecordRow(r)
         \/ \E q \in People : AddChannelMember(p, r, q) /\ RecordRow(r)
  BY DEF RecordedStep
<1>2. RecordRow(r) /\ rooms[r].made /\ rooms' = rooms /\ Move("places")
  BY <1>1 DEF JoinChannel, LeaveChannel, AddChannelMember, Visitor, Sees, Participant
<1>3. local' = local
  BY <1>2, MoveAside
<1> QED BY <1>2, <1>3, RowRecorded

LEMMA LiveStepHolds ==
    ASSUME LiveSound, MembersInvariant, EpochsKept, RoomsSound, LiveNext
    PROVE  LiveSound'
<1>1. CASE \E r \in Rooms : PostCard(r)
  BY <1>1, CardHolds DEF RoomsSound
<1>2. CASE MembersChange
  BY <1>2, MembersChangeHolds
<1>3. CASE AnnouncedStep
  BY <1>3, AnnouncedHolds
<1>4. CASE RecordedStep
  BY <1>4, RecordedStepHolds
<1>5. CASE SocketStep /\ UNCHANGED <<vars, roomVars>>
  BY <1>5, SocketStepHolds
<1> QED BY <1>1, <1>2, <1>3, <1>4, <1>5 DEF LiveNext

LEMMA LiveStart == LiveInit => LiveSound
<1> SUFFICES ASSUME LiveInit PROVE LiveSound
  OBVIOUS
<1>1. /\ log = <<>> /\ purged = 0 /\ sockets = [tab \in Tabs |-> Closed] /\ tabs = [tab \in Tabs |-> NewTab]
      /\ hidden = {} /\ excused = {}
  BY DEF LiveInit
<1>2. Len(log) = 0 /\ DOMAIN log = {} /\ log \in Seq([room : Rooms \cup {None}, announced : BOOLEAN])
  BY <1>1
<1>3. Closed \in [open : BOOLEAN, epoch : Nat, mail : Seq(Frame)] /\ ~Closed.open
  BY DEF Closed
<1>4. NewTab \in TabSet /\ NewTab.cursor = 0 /\ NewTab.hello = 0
  BY DEF NewTab, TabSet
<1>5. LiveTyped
  BY <1>1, <1>2, <1>3, <1>4 DEF LiveTyped
<1>6. \A tab \in Tabs : ~sockets[tab].open /\ tabs[tab] = NewTab /\ Owed(tab) = {}
  BY <1>1, <1>2, <1>3 DEF Owed
<1>7. \A tab \in Tabs : TabSound(tab)
  BY <1>2, <1>4, <1>6 DEF TabSound, SeenSound
<1> QED BY <1>2, <1>5, <1>6, <1>7 DEF LiveSound, RowsSound, AuthoritySound

-----------------------------------------------------------------------------
(* The tabs of the workspace. *)

LEMMA EpochsHeld == Spec => []EpochsKept
<1>1. Init => EpochsKept
  BY EpochsStart DEF Init
<1>2. Members /\ EpochsKept /\ [Next]_workspaceVars => EpochsKept'
  <2> SUFFICES ASSUME Members, EpochsKept, [Next]_workspaceVars PROVE EpochsKept'
    OBVIOUS
  <2>1. CASE MembershipNext
    BY <2>1, EpochsStep DEF Members
  <2>2. CASE UNCHANGED vars
    BY <2>2, EpochsStutter DEF vars
  <2> QED BY <2>1, <2>2, OnlyMembersMove DEF workspaceVars
<1> QED BY <1>1, <1>2, MembersHeld, PTL DEF Spec

(* Where the tabs are not exercised, nobody opens a socket. *)
LiveOn == "live" \in Exercised /\ ~AsAWhole
LiveInvariant == IF LiveOn THEN LiveSound ELSE log = <<>> /\ \A tab \in Tabs : ~sockets[tab].open

LEMMA LiveInvariantStays ==
    ASSUME ExerciseKnown, Members, EpochsKept, RoomsInvariant, LiveInvariant, [Next]_workspaceVars
    PROVE  LiveInvariant'
<1>1. LiveOn' = LiveOn
  BY ExercisedStays DEF LiveOn
<1>2. CASE LiveOn /\ LiveNext
  <2>1. LiveSound'
    BY <1>2, LiveStepHolds DEF LiveInvariant, Members, RoomsInvariant
  <2> QED BY <1>1, <1>2, <2>1 DEF LiveInvariant
<1>3. CASE LiveOn /\ UNCHANGED <<local, rooms, inRoom, liveVars>>
  <2>1. LiveSound /\ UNCHANGED <<local, rooms, inRoom, log, purged, sockets, tabs, hidden, excused>>
    BY <1>3 DEF LiveInvariant, liveVars
  <2>2. LiveTyped' /\ RowsSound'
    BY <2>1 DEF LiveSound, LiveTyped, RowsSound
  <2>3. AuthoritySound'
    BY <2>1 DEF LiveSound, AuthoritySound, Authorised
  <2>4. ASSUME NEW tab \in Tabs PROVE TabSound(tab)'
    <3>1. TabSound(tab) /\ Owed(tab)' = Owed(tab)
      BY <2>1 DEF LiveSound, Owed
    <3> QED BY <2>1, <3>1 DEF TabSound
  <2>5. LiveSound'
    BY <2>2, <2>3, <2>4 DEF LiveSound
  <2> QED BY <1>1, <1>3, <2>5 DEF LiveInvariant
<1>4. CASE ~LiveOn /\ UNCHANGED liveVars
  BY <1>1, <1>4 DEF LiveInvariant, liveVars
<1>5. CASE IdentityStep /\ UNCHANGED roomsAndTabs
  <2>1. LiveOn => UNCHANGED vars
    BY <1>5 DEF IdentityStep, LiveOn, Places
  <2> QED BY <1>3, <1>4, <1>5, <2>1 DEF roomsAndTabs, roomVars, content, vars
<1>6. CASE PlaceStep
  BY <1>2, <1>4, <1>6 DEF PlaceStep, LiveOn
<1>7. CASE TenantStep /\ UNCHANGED liveVars
  <2>1. LiveOn => UNCHANGED <<vars, roomVars>>
    BY <1>7 DEF TenantStep, LiveOn, AsAWhole
  <2> QED BY <1>3, <1>4, <1>7, <2>1 DEF roomVars, content, vars
<1>8. CASE UNCHANGED workspaceVars
  BY <1>3, <1>4, <1>8 DEF workspaceVars, roomsAndTabs, roomVars, content, vars
<1> QED BY <1>5, <1>6, <1>7, <1>8 DEF Next

LEMMA LiveHeld == Spec => []LiveInvariant
<1>1. Init => LiveInvariant
  <2> SUFFICES ASSUME Init PROVE LiveInvariant
    OBVIOUS
  <2>1. LiveInit
    BY DEF Init
  <2> QED BY <2>1, LiveStart DEF LiveInvariant, LiveInit, Closed
<1>2. ExerciseKnown /\ Members /\ EpochsKept /\ RoomsInvariant /\ LiveInvariant /\ [Next]_workspaceVars
         => LiveInvariant'
  BY LiveInvariantStays
<1> QED BY <1>1, <1>2, ExerciseHeld, MembersHeld, EpochsHeld, RoomsHeld, PTL DEF Spec

LEMMA LiveIsDelivered == LiveSound => DeliveryHolds
<1> SUFFICES ASSUME LiveSound PROVE DeliveryHolds
  OBVIOUS
<1>1. LiveTyped /\ AuthoritySound /\ \A tab \in Tabs : TabSound(tab)
  BY DEF LiveSound
<1>2. ASSUME NEW tab \in Tabs \ excused
      PROVE  /\ \A e \in Owed(tab) : e <= tabs[tab].cursor => e \in Known(tab)
             /\ sockets[tab].open /\ sockets[tab].mail = <<>> => Owed(tab) \subseteq Known(tab)
  <2>1. \A e \in Owed(tab) : Heard(tabs[tab], e) => e \in Known(tab)
    BY DEF Owed, Heard, Known
  <2>2. \A e \in Owed(tab) : e <= tabs[tab].cursor => Heard(tabs[tab], e)
    BY <1>1 DEF TabSound, SeenSound
  <2>3. ASSUME sockets[tab].open, sockets[tab].mail = <<>>, NEW e \in Owed(tab) PROVE Heard(tabs[tab], e)
    <3>1. Arrives(tabs[tab], <<>>, 0, e)
      BY <1>1, <2>3 DEF TabSound, MailSound
    <3> QED BY <3>1 DEF Arrives
  <2> QED BY <2>1, <2>2, <2>3
<1> QED BY <1>1, <1>2 DEF DeliveryHolds, AuthoritySound

(* A tab that is connected and has taken every frame has no gap, and        *)
(* whoever holds a socket open has the authority it was opened with,        *)
(* however many tabs there are, whatever connections broke, rows were swept *)
(* and memberships changed (replayForSocket, broadcastChannelEvent,         *)
(* closeMemberSockets).                                                     *)
THEOREM DeliveryHeld == Spec => []DeliveryHolds
<1>1. LiveInvariant => DeliveryHolds
  <2> SUFFICES ASSUME LiveInvariant PROVE DeliveryHolds
    OBVIOUS
  <2>1. CASE LiveOn
    BY <2>1, LiveIsDelivered DEF LiveInvariant
  <2>2. CASE ~LiveOn
    BY <2>2 DEF LiveInvariant, DeliveryHolds, Owed
  <2> QED BY <2>1, <2>2
<1> QED BY <1>1, LiveHeld, PTL
=============================================================================
