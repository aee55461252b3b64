------------------------------- MODULE Rooms -------------------------------
(***************************************************************************)
(* Rooms and what members keep of them: messages and their threads, the    *)
(* private buckets of a work queue, notifications, pins, saved messages,   *)
(* read cursors and drafts (configureNotifications to listDrafts in        *)
(* src/cloudflare/workspace.ts, src/cloudflare/workspace-rooms.ts).  Every *)
(* operation is one transaction of the workspace object.  Who may act is   *)
(* the projection of module Membership.  Texts are left out: what a        *)
(* message says is whom it names.  So are agents' messages, whose queue is *)
(* module AgentQueue, and the live events, which are module Live.          *)
(***************************************************************************)
EXTENDS Membership

CONSTANTS
    Rooms,
    Buckets,            \* the statuses a queue may define
    Screens,            \* the devices one member writes drafts on
    Writer              \* that member

Kinds == {"public", "private", "dm"}
BucketSet == [on : BOOLEAN, private : BOOLEAN, allowed : SUBSET People]
BuiltSet == [kind : Kinds, creator : People, members : SUBSET People,
             form : BOOLEAN, ranked : BOOLEAN, buckets : [Buckets -> BucketSet]]

(* What a scenario starts with, which is what the operations below make of  *)
(* rooms, and its bounds on messages and on steps.                          *)
ASSUME RoomsAssumption ==
    /\ Writer \in People
    /\ \A sc \in Scenarios :
          /\ {"built", "moves", "posts", "steps"} \subseteq DOMAIN sc.rooms
          /\ sc.rooms.posts \in Nat /\ sc.rooms.steps \in Nat

ASSUME BuiltAssumption ==
    \A sc \in Scenarios :
        LET built == sc.rooms.built
        IN  /\ DOMAIN built \subseteq Rooms
            /\ \A r \in DOMAIN built :
                  /\ built[r] \in BuiltSet
                  /\ (\E b \in Buckets : built[r].buckets[b].on) => built[r].ranked
            /\ \A r, other \in DOMAIN built :
                  r # other /\ built[r].kind = "dm" /\ built[other].kind = "dm"
                     => built[r].members # built[other].members

VARIABLES
    rooms,              \* channels
    inRoom,             \* channel_members
    posts,              \* messages, in the order in which they were written
    notices,            \* notifications
    prefs,              \* notification_preferences, notification_keywords
    levels,             \* channel_notification_preferences
    subscribed,         \* thread_subscriptions
    saved,              \* saved_items
    pins,               \* channel_pins
    reactions,          \* message_reactions, of one emoji
    read,               \* channel_read_state and thread_read_state
    drafts,             \* message_drafts of the writer, by room
    screens,            \* the text and the revision a device shows
    texts,              \* how many texts were written so far; a text is its number
    cleared,            \* history: the rooms whose draft was ever cleared
    demoted,            \* history: members who were owners once and are not any more
    start               \* the rooms of the scenario, and the steps left of it

membersAside == vars
content == <<rooms, inRoom, posts>>
notified == <<notices, prefs, levels, subscribed>>
kept == <<saved, pins, reactions, read>>
drafting == <<drafts, screens, texts, cleared>>
roomVars == <<content, notified, kept, drafting, demoted, start>>

Levels == {"everything", "mentions", "nothing", "mute"}
NoBucket == [on |-> FALSE, private |-> FALSE, allowed |-> {}]
NoRoom == [made |-> FALSE, kind |-> "public", creator |-> None, archived |-> FALSE,
           form |-> FALSE, ranked |-> FALSE, next |-> 1, buckets |-> [b \in Buckets |-> NoBucket]]
NoDraft == [revision |-> 0, text |-> 0]

Move(name) ==
    /\ name \in start.moves /\ start.steps > 0
    /\ start' = [start EXCEPT !.steps = @ - 1]
    /\ UNCHANGED <<membersAside, demoted>>

-----------------------------------------------------------------------------
(* Who may see and do what. *)

(* authorizeActor *)
Acts(p) == local[p].status = "active"
ActivePeople == {p \in People : Acts(p)}

(* canSeeChannel *)
Sees(p, r) == rooms[r].made /\ (rooms[r].kind = "public" \/ p \in inRoom[r])

(* requireVisibleChannel, requireChannelParticipant *)
Visitor(p, r) == Acts(p) /\ Sees(p, r)
Participant(p, r) == Acts(p) /\ rooms[r].made /\ p \in inRoom[r]

Moderator(p) == local[p].role \in {"owner", "admin"}

(* mayManageQueue *)
Manages(p, r) == Moderator(p) \/ rooms[r].creator = p

Posts == DOMAIN posts
Bucket(m) == rooms[posts[m].room].buckets[posts[m].status]

(* mayReadQueueItem: what is in a private bucket is for owners, for who made *)
(* the room, and for whom the bucket lets in.                               *)
Withheld(p, m) ==
    /\ posts[m].status # None
    /\ Bucket(m).on /\ Bucket(m).private
    /\ local[p].role # "owner" /\ rooms[posts[m].room].creator # p
    /\ p \notin Bucket(m).allowed
MayRead(p, m) == ~Withheld(p, m)

Owners == {p \in People : local[p].role = "owner" /\ local[p].status = "active"}
Private(r) == {b \in Buckets : rooms[r].buckets[b].on /\ rooms[r].buckets[b].private}

-----------------------------------------------------------------------------
(* Rooms. *)

(* createChannel *)
CreateChannel(p, r, kind, invited) ==
    /\ Move("rooms")
    /\ Acts(p) /\ ~rooms[r].made /\ kind \in {"public", "private"}
    /\ invited \subseteq ActivePeople
    /\ rooms' = [rooms EXCEPT ![r] = [NoRoom EXCEPT !.made = TRUE, !.kind = kind, !.creator = p]]
    /\ inRoom' = [inRoom EXCEPT ![r] = {p} \cup invited]
    /\ UNCHANGED <<posts, notified, kept, drafting>>

(* openDirectMessage: one room for a set of people, whoever opens it. *)
OpenDirectMessage(p, others, r) ==
    /\ Move("rooms")
    /\ Acts(p) /\ others # {} /\ p \notin others /\ others \subseteq ActivePeople
    /\ ~ \E other \in Rooms : rooms[other].made /\ rooms[other].kind = "dm"
                              /\ inRoom[other] = others \cup {p}
    /\ ~rooms[r].made
    /\ rooms' = [rooms EXCEPT ![r] = [NoRoom EXCEPT !.made = TRUE, !.kind = "dm", !.creator = p]]
    /\ inRoom' = [inRoom EXCEPT ![r] = others \cup {p}]
    /\ UNCHANGED <<posts, notified, kept, drafting>>

(* joinChannel *)
JoinChannel(p, r) ==
    /\ Move("places")
    /\ Visitor(p, r) /\ rooms[r].kind = "public" /\ ~rooms[r].archived
    /\ p \notin inRoom[r]
    /\ inRoom' = [inRoom EXCEPT ![r] = @ \cup {p}]
    /\ UNCHANGED <<rooms, posts, notified, kept, drafting>>

(* addChannelMember *)
AddChannelMember(p, r, q) ==
    /\ Move("places")
    /\ Participant(p, r) /\ rooms[r].kind # "dm" /\ ~rooms[r].archived
    /\ q \in ActivePeople \ inRoom[r]
    /\ inRoom' = [inRoom EXCEPT ![r] = @ \cup {q}]
    /\ UNCHANGED <<rooms, posts, notified, kept, drafting>>

(* leaveChannel *)
LeaveChannel(p, r) ==
    /\ Move("places")
    /\ Visitor(p, r) /\ rooms[r].kind # "dm" /\ p \in inRoom[r]
    /\ inRoom' = [inRoom EXCEPT ![r] = @ \ {p}]
    /\ UNCHANGED <<rooms, posts, notified, kept, drafting>>

(* archiveChannel *)
ArchiveChannel(p, r) ==
    /\ Move("rooms")
    /\ Visitor(p, r) /\ rooms[r].kind # "dm" /\ Manages(p, r) /\ ~rooms[r].archived
    /\ rooms' = [rooms EXCEPT ![r].archived = TRUE]
    /\ UNCHANGED <<inRoom, posts, notified, kept, drafting>>

-----------------------------------------------------------------------------
(* Work queues. *)

(* The rows that repeat the privacy of a message which is now in bucket b. *)
Copied(n, bucket) ==
    [n EXCEPT !.private = bucket.private,
              !.allowed = IF bucket.private THEN bucket.allowed \cup Owners ELSE {}]

(* Faulty variant: the copies of a bucket that is removed stay as they are. *)
ConfigureWorkQueueKeeping(p, r, form, ranked, buckets) ==
    LET removed == {b \in Buckets : rooms[r].buckets[b].on /\ ~buckets[b].on}
        NewStatus(m) == IF posts[m].room = r /\ posts[m].status \in removed THEN None
                        ELSE posts[m].status
        CopyOf(n) == LET status == posts[n.post].status
                     IN  IF posts[n.post].room = r /\ status # None /\ status \notin removed
                         THEN Copied(n, buckets[status]) ELSE n
    IN  /\ Move("queue")
        /\ Visitor(p, r) /\ Manages(p, r) /\ rooms[r].kind # "dm" /\ ~rooms[r].archived
        /\ (\E b \in Buckets : buckets[b].on) => ranked
        /\ rooms' = [rooms EXCEPT ![r].form = form, ![r].ranked = ranked, ![r].buckets = buckets]
        /\ posts' = [m \in Posts |-> [posts[m] EXCEPT !.status = NewStatus(m)]]
        /\ notices' = {CopyOf(n) : n \in notices}
        /\ UNCHANGED <<inRoom, prefs, levels, subscribed, kept, drafting>>

(* configureWorkQueue: messages leave a status that is removed, and the     *)
(* notifications about the others are brought in line.                      *)
ConfigureWorkQueue(p, r, form, ranked, buckets) ==
    LET removed == {b \in Buckets : rooms[r].buckets[b].on /\ ~buckets[b].on}
        NewStatus(m) == IF posts[m].room = r /\ posts[m].status \in removed THEN None
                        ELSE posts[m].status
        CopyOf(n) == LET status == posts[n.post].status
                     IN  IF posts[n.post].room # r \/ status = None THEN n
                         ELSE Copied(n, IF status \in removed THEN NoBucket ELSE buckets[status])
    IN  /\ Move("queue")
        /\ Visitor(p, r) /\ Manages(p, r) /\ rooms[r].kind # "dm" /\ ~rooms[r].archived
        /\ (\E b \in Buckets : buckets[b].on) => ranked
        /\ rooms' = [rooms EXCEPT ![r].form = form, ![r].ranked = ranked, ![r].buckets = buckets]
        /\ posts' = [m \in Posts |-> [posts[m] EXCEPT !.status = NewStatus(m)]]
        /\ notices' = {CopyOf(n) : n \in notices}
        /\ UNCHANGED <<inRoom, prefs, levels, subscribed, kept, drafting>>

(* setItemStatus: whoever moves an item into a private bucket may read it.  *)
SetItemStatus(p, m, status) ==
    LET r == posts[m].room
        chosen == IF status = None THEN NoBucket ELSE rooms[r].buckets[status]
        joined == [chosen EXCEPT !.allowed = IF chosen.private THEN @ \cup {p} ELSE @]
    IN  /\ Move("status")
        /\ ~posts[m].deleted /\ posts[m].root = 0
        /\ Visitor(p, r) /\ Manages(p, r) /\ rooms[r].ranked
        /\ status # None => chosen.on
        /\ posts[m].status # status
        /\ rooms' = IF status = None THEN rooms
                    ELSE [rooms EXCEPT ![r].buckets[status] = joined]
        /\ posts' = [posts EXCEPT ![m].status = status]
        /\ notices' = {IF n.post = m THEN Copied(n, joined) ELSE n : n \in notices}
        /\ UNCHANGED <<inRoom, prefs, levels, subscribed, kept, drafting>>

-----------------------------------------------------------------------------
(* Notifications. *)

(* decideMessageNotification, for a message of a member. *)
Directed(kind, broadcast) == kind \in {"mention", "thread_reply", "dm"} \/ broadcast
InInbox(level, kind, broadcast) ==
    /\ level # "mute"
    /\ level \in {"nothing", "everything"} \/ kind = "keyword" \/ Directed(kind, broadcast)
Pushed(level, kind, broadcast, keyword, quiet) ==
    /\ InInbox(level, kind, broadcast) /\ level # "nothing" /\ ~quiet
    /\ Directed(kind, broadcast) \/ keyword \/ level = "everything"

(* Whom a message addresses: members by name, through a group, or the room. *)
Addresses == [named : SUBSET People, group : SUBSET People, room : BOOLEAN]
Nobody == [named |-> {}, group |-> {}, room |-> FALSE]

KindFor(q, r, root, direct, keyword) ==
    CASE q \in direct -> "mention"
      [] q \notin direct /\ root # 0 /\ <<root, q>> \in subscribed -> "thread_reply"
      [] q \notin direct /\ ~(root # 0 /\ <<root, q>> \in subscribed) ->
            IF rooms[r].kind = "dm" THEN "dm" ELSE IF keyword THEN "keyword" ELSE "channel"

(* recordMessageNotifications: who is told of message m, and how. *)
Notify(p, m, r, root, to, keyworded) ==
    LET group == to.group \ {p}
        direct == (to.named \cup group) \cap ActivePeople
        outside == IF rooms[r].kind = "public" THEN direct ELSE {}
        audience == {q \in (inRoom[r] \cup outside) \ {p} : Acts(q)}
        broadcast == to.room \/ to.group # {}
        Keyword(q) == q \in keyworded /\ prefs[q].keyword
        Kind(q) == KindFor(q, r, root, direct, Keyword(q))
        told == {q \in audience : InInbox(levels[r][q], Kind(q), broadcast)}
    IN  /\ notices' = notices \cup
              {[member |-> q, post |-> m, kind |-> Kind(q), read |-> FALSE,
                badge |-> levels[r][q] # "nothing",
                push |-> Pushed(levels[r][q], Kind(q), broadcast, Keyword(q), prefs[q].quiet),
                private |-> FALSE, allowed |-> {}] : q \in told}
        /\ subscribed' = subscribed \cup {<<IF root = 0 THEN m ELSE root, p>>}
              \cup {<<root, q>> : q \in {q \in told : root # 0 /\ Kind(q) = "mention"}}
        /\ UNCHANGED <<prefs, levels>>

(* nextChannelSequence and insertMessage *)
Written(p, r, root, from) ==
    /\ posts' = Append(posts,
          [room |-> r, author |-> p, root |-> root, seq |-> rooms[r].next,
           tseq |-> IF root = 0 THEN 0 ELSE Cardinality({m \in Posts : posts[m].root = root}) + 1,
           status |-> None, deleted |-> FALSE, from |-> from])
    /\ rooms' = [rooms EXCEPT ![r].next = @ + 1]

-----------------------------------------------------------------------------
(* Messages. *)

(* A reply to a reply goes to the same root (resolveThreadPlacement). *)
RootOf(parent) == IF parent = 0 THEN 0
                  ELSE IF posts[parent].root = 0 THEN parent ELSE posts[parent].root

(* sendMessage, and submitForm in a room that takes entries of its form.    *)
(* To address the room takes a moderator, and somebody who is addressed.    *)
SendMessage(p, r, parent, to, keyworded, viaForm) ==
    LET root == RootOf(parent)
    IN  /\ Move("send")
        /\ Len(posts) < start.posts
        /\ Participant(p, r) /\ ~rooms[r].archived
        /\ parent # 0 => posts[parent].room = r /\ ~posts[parent].deleted
        /\ rooms[r].form /\ root = 0 => viaForm
        /\ viaForm => rooms[r].form /\ root = 0
        /\ to.room => Moderator(p) /\ inRoom[r] \ {p} # {}
        /\ to.group \subseteq ActivePeople
        /\ Written(p, r, root, 0)
        /\ Notify(p, Len(posts) + 1, r, root, to, keyworded)
        /\ UNCHANGED <<inRoom, kept, drafting>>

(* forwardMessage: a copy, which notifies nobody.                           *)
ForwardMessage(p, m, r) ==
    /\ Move("forward")
    /\ Len(posts) < start.posts
    /\ ~posts[m].deleted /\ Visitor(p, posts[m].room)
    /\ Participant(p, r) /\ ~rooms[r].archived
    /\ Written(p, r, 0, m)
    /\ UNCHANGED <<inRoom, notified, kept, drafting>>

(* deleteMessage: a tombstone that keeps its place. *)
DeleteMessage(p, m) ==
    /\ Move("delete")
    /\ ~posts[m].deleted /\ Visitor(p, posts[m].room)
    /\ posts[m].author = p \/ Moderator(p)
    /\ posts' = [posts EXCEPT ![m].deleted = TRUE]
    /\ reactions' = {x \in reactions : x[1] # m}
    /\ UNCHANGED <<rooms, inRoom, notified, saved, pins, read, drafting>>

(* requireReactableMessage *)
Reactable(p, m) ==
    /\ ~posts[m].deleted /\ Participant(p, posts[m].room)
    /\ MayRead(p, m) /\ ~rooms[posts[m].room].archived

(* reactToMessage, unreactToMessage *)
ReactToMessage(p, m, adds) ==
    /\ Move("keep")
    /\ Reactable(p, m) /\ (adds <=> <<m, p>> \notin reactions)
    /\ reactions' = IF adds THEN reactions \cup {<<m, p>>} ELSE reactions \ {<<m, p>>}
    /\ UNCHANGED <<content, notified, saved, pins, read, drafting>>

(* pinMessage, unpinMessage *)
PinMessage(p, m, adds) ==
    LET pin == <<posts[m].room, m>>
    IN  /\ Move("keep")
        /\ Reactable(p, m) /\ (adds <=> pin \notin pins)
        /\ pins' = IF adds THEN pins \cup {pin} ELSE pins \ {pin}
        /\ UNCHANGED <<content, notified, saved, reactions, read, drafting>>

(* saveMessage needs the message to be readable; unsaveMessage does not. *)
SaveMessage(p, m) ==
    /\ Move("keep")
    /\ ~posts[m].deleted /\ Visitor(p, posts[m].room) /\ MayRead(p, m)
    /\ <<p, m>> \notin saved
    /\ saved' = saved \cup {<<p, m>>}
    /\ UNCHANGED <<content, notified, pins, reactions, read, drafting>>

UnsaveMessage(p, m) ==
    /\ Move("keep")
    /\ Acts(p) /\ <<p, m>> \in saved
    /\ saved' = saved \ {<<p, m>>}
    /\ UNCHANGED <<content, notified, pins, reactions, read, drafting>>

-----------------------------------------------------------------------------
(* What a member sets. *)

(* configureNotifications *)
SetNotifyLevel(p, r, level) ==
    /\ Move("prefs")
    /\ Visitor(p, r)
    /\ levels' = [levels EXCEPT ![r][p] = level]
    /\ UNCHANGED <<content, notices, prefs, subscribed, kept, drafting>>

SetNotificationPreferences(p, quiet, keyword) ==
    /\ Move("prefs")
    /\ Acts(p)
    /\ prefs' = [prefs EXCEPT ![p] = [quiet |-> quiet, keyword |-> keyword]]
    /\ UNCHANGED <<content, notices, levels, subscribed, kept, drafting>>

(* setThreadSubscription *)
SetThreadSubscription(p, root, wanted) ==
    /\ Move("prefs")
    /\ posts[root].root = 0 /\ ~posts[root].deleted
    /\ Visitor(p, posts[root].room) /\ MayRead(p, root)
    /\ subscribed' = IF wanted THEN subscribed \cup {<<root, p>>} ELSE subscribed \ {<<root, p>>}
    /\ UNCHANGED <<content, notices, prefs, levels, kept, drafting>>

(* markNotification *)
MarkNotification(p, n, unread) ==
    /\ Move("prefs")
    /\ Acts(p) /\ n \in notices /\ n.member = p
    /\ notices' = (notices \ {n}) \cup {[n EXCEPT !.read = ~unread]}
    /\ UNCHANGED <<content, prefs, levels, subscribed, kept, drafting>>

LatestIn(r) == Max({0} \cup {posts[m].seq : m \in {m \in Posts : posts[m].room = r /\ posts[m].root = 0}})
LatestUnder(root) == Max({0} \cup {posts[m].tseq : m \in {m \in Posts : posts[m].root = root}})

(* advanceReadCursor *)
MaxOf(a, b) == IF a >= b THEN a ELSE b

Advanced(current, requested, latest) ==
    MaxOf(current, IF requested <= latest THEN requested ELSE latest)

(* markChannelRead and the frame that does the same (applyChannelRead). *)
MarkChannelRead(p, r, requested) ==
    /\ Move("read")
    /\ Visitor(p, r)
    /\ read' = [read EXCEPT !.rooms[r][p] = Advanced(@, requested, LatestIn(r))]
    /\ UNCHANGED <<content, notified, saved, pins, reactions, drafting>>

(* markThreadRead; the frame does not ask for a readable item. *)
MarkThreadRead(p, root, requested, byFrame) ==
    /\ Move("read")
    /\ posts[root].root = 0
    /\ Visitor(p, posts[root].room) /\ (byFrame \/ MayRead(p, root))
    /\ read' = [read EXCEPT !.threads =
          [x \in DOMAIN @ \cup {<<root, p>>} |->
             IF x = <<root, p>>
             THEN Advanced(IF x \in DOMAIN @ THEN @[x] ELSE 0, requested, LatestUnder(root))
             ELSE @[x]]]
    /\ UNCHANGED <<content, notified, saved, pins, reactions, drafting>>

-----------------------------------------------------------------------------
(* Drafts of one member, on several devices. *)

(* A device is rendered with what is stored. *)
GetDraft(s, r) ==
    /\ Move("drafts")
    /\ Visitor(Writer, r)
    /\ screens' = [screens EXCEPT ![s][r] = drafts[r]]
    /\ UNCHANGED <<content, notified, kept, drafts, texts, cleared>>

StoreDraft(s, r, draft) ==
    /\ drafts' = [drafts EXCEPT ![r] = draft]
    /\ screens' = [screens EXCEPT ![s][r] = draft]

ClearDraft(s, r) ==
    /\ StoreDraft(s, r, NoDraft)
    /\ cleared' = cleared \cup {r} /\ UNCHANGED texts

WriteDraft(s, r) ==
    /\ StoreDraft(s, r, [revision |-> drafts[r].revision + 1, text |-> texts + 1])
    /\ texts' = texts + 1 /\ UNCHANGED cleared

(* Faulty variant: the revision a device worked from is not compared. *)
SaveDraftAnyway(s, r, empty) ==
    /\ Move("drafts")
    /\ Participant(Writer, r)
    /\ IF empty THEN ClearDraft(s, r) ELSE WriteDraft(s, r)
    /\ UNCHANGED <<content, notified, kept>>

(* saveDraft, from the revision the device was rendered with or saved last; *)
(* a device that knows of no draft names none, and nothing is compared.  An *)
(* empty text clears the draft, and the next one starts its revisions again.*)
SaveDraft(s, r, empty) ==
    /\ Move("drafts")
    /\ Participant(Writer, r)
    /\ drafts[r] = NoDraft \/ screens[s][r].revision \in {0, drafts[r].revision}
    /\ IF empty THEN ClearDraft(s, r) ELSE WriteDraft(s, r)
    /\ UNCHANGED <<content, notified, kept>>

(* A device that sent its message clears the draft, whatever it is by now.  *)
SpendDraft(s, r) ==
    /\ Move("drafts")
    /\ Participant(Writer, r)
    /\ ClearDraft(s, r)
    /\ UNCHANGED <<content, notified, kept>>

-----------------------------------------------------------------------------
(* What a member is shown. *)

(* listNotificationActivity *)
NoticeShown(n) ==
    LET m == posts[n.post]
    IN  /\ ~m.deleted /\ ~rooms[m.room].archived
        /\ Sees(n.member, m.room)
        /\ n.private => n.member \in n.allowed

(* Messages of a room in the order they were written, which is what a room  *)
(* without a ranking shows (readChannelHistory), and the buckets of one     *)
(* that has one (readWorkQueue).                                            *)
HistoryShown(p, r) ==
    {m \in Posts : /\ posts[m].room = r /\ posts[m].root = 0
                   /\ rooms[r].ranked => ~posts[m].deleted /\ MayRead(p, m)}

-----------------------------------------------------------------------------
(* The rooms of a scenario, made, joined and configured with no message yet. *)
RoomsInit ==
    /\ start = budget.rooms
    /\ rooms = [r \in Rooms |->
                   IF r \notin DOMAIN start.built THEN NoRoom
                   ELSE LET given == start.built[r]
                        IN  [NoRoom EXCEPT !.made = TRUE, !.kind = given.kind,
                                           !.creator = given.creator, !.form = given.form,
                                           !.ranked = given.ranked, !.buckets = given.buckets]]
    /\ inRoom = [r \in Rooms |-> IF r \in DOMAIN start.built THEN start.built[r].members ELSE {}]
    /\ posts = <<>> /\ notices = {}
    /\ prefs = [p \in People |-> [quiet |-> FALSE, keyword |-> FALSE]]
    /\ levels = [r \in Rooms |-> [p \in People |-> "mentions"]]
    /\ subscribed = {} /\ saved = {} /\ pins = {} /\ reactions = {}
    /\ read = [rooms |-> [r \in Rooms |-> [p \in People |-> 0]], threads |-> <<>>]
    /\ drafts = [r \in Rooms |-> NoDraft]
    /\ screens = [s \in Screens |-> [r \in Rooms |-> NoDraft]]
    /\ texts = 0 /\ cleared = {} /\ demoted = {}

RoomStep ==
    \E p \in People, r \in Rooms :
        \/ \E kind \in Kinds, others \in SUBSET People : CreateChannel(p, r, kind, others)
        \/ \E others \in SUBSET People : OpenDirectMessage(p, others, r)
        \/ JoinChannel(p, r) \/ LeaveChannel(p, r) \/ ArchiveChannel(p, r)
        \/ \E q \in People : AddChannelMember(p, r, q)

(* What a queue may be configured to, one status at a time. *)
BucketChoices == {NoBucket} \cup [on : {TRUE}, private : {FALSE}, allowed : {{}}]
                 \cup [on : {TRUE}, private : {TRUE}, allowed : SUBSET ActivePeople]
BucketsFor(r) ==
    {[rooms[r].buckets EXCEPT ![b] = bucket] : b \in Buckets, bucket \in BucketChoices}

QueueStep ==
    \/ \E p \in People, r \in Rooms, form, ranked \in BOOLEAN :
           \E buckets \in BucketsFor(r) : ConfigureWorkQueue(p, r, form, ranked, buckets)
    \/ \E p \in People, m \in Posts, status \in Buckets \cup {None} : SetItemStatus(p, m, status)

(* A message addresses one member, everybody in a group, the room, or nobody. *)
Addressed == {Nobody, [Nobody EXCEPT !.room = TRUE], [Nobody EXCEPT !.group = ActivePeople]}
             \cup {[Nobody EXCEPT !.named = {q}] : q \in People}

SendStep ==
    \E p \in People, r \in Rooms, parent \in Posts \cup {0}, to \in Addressed,
       keyworded \in {{}, People}, viaForm \in BOOLEAN :
           SendMessage(p, r, parent, to, keyworded, viaForm)

MessageStep ==
    \E p \in People, m \in Posts :
          \/ \E r \in Rooms : ForwardMessage(p, m, r)
          \/ DeleteMessage(p, m) \/ SaveMessage(p, m) \/ UnsaveMessage(p, m)
          \/ \E adds \in BOOLEAN : ReactToMessage(p, m, adds) \/ PinMessage(p, m, adds)

ReaderStep ==
    \/ \E p \in People, r \in Rooms :
          \/ \E level \in Levels : SetNotifyLevel(p, r, level)
          \/ \E requested \in 0..start.posts : MarkChannelRead(p, r, requested)
    \/ \E p \in People, quiet, keyword \in BOOLEAN : SetNotificationPreferences(p, quiet, keyword)
    \/ \E p \in People, m \in Posts :
          \/ \E wanted \in BOOLEAN : SetThreadSubscription(p, m, wanted)
          \/ \E requested \in 0..start.posts, byFrame \in BOOLEAN :
                 MarkThreadRead(p, m, requested, byFrame)
    \/ \E p \in People, n \in notices, unread \in BOOLEAN : MarkNotification(p, n, unread)

DraftStep ==
    \E s \in Screens, r \in Rooms :
        \/ GetDraft(s, r) \/ SpendDraft(s, r)
        \/ \E empty \in BOOLEAN : SaveDraft(s, r, empty)

(* A scenario that has none of these moves does not look for one. *)
Has(moves) == start.steps > 0 /\ moves \cap start.moves # {}

RoomsNext ==
    \/ Has({"rooms", "places"}) /\ RoomStep
    \/ Has({"queue", "status"}) /\ QueueStep
    \/ Has({"send"}) /\ SendStep
    \/ Has({"forward", "delete", "keep"}) /\ MessageStep
    \/ Has({"prefs", "read"}) /\ ReaderStep
    \/ Has({"drafts"}) /\ DraftStep

(* The members change meanwhile. *)
MembersMove ==
    /\ MembershipNext
    /\ demoted' = demoted \cup {p \in People : OwnerIn(local, p) /\ ~OwnerIn(local', p)}
    /\ UNCHANGED <<content, notified, kept, drafting, start>>

-----------------------------------------------------------------------------
(* Properties. *)

(* Whatever is configured, moved, deleted and written in whatever order:    *)
(* the copy of an item's privacy that its notifications carry is that of    *)
(* the bucket the item is in, and nobody is shown one about an item he may  *)
(* not read, except an owner who was demoted since; neither does a history  *)
(* show one, also that of a room without a ranking, which is unfiltered;    *)
(* no item is in a bucket that was removed; a reply belongs to its room,    *)
(* and nobody has read further than there are messages; and a set of people *)
(* has one conversation (configureWorkQueue, setItemStatus, sendMessage).   *)
NoticesAgree ==
    /\ \A n \in notices :
          LET m == posts[n.post]
          IN  /\ n.private <=> m.status # None /\ Bucket(n.post).private
              /\ NoticeShown(n) => MayRead(n.member, n.post) \/ n.member \in demoted
              /\ n.member # m.author
    /\ \A m \in Posts :
          /\ posts[m].status # None => Bucket(m).on
          /\ posts[m].root # 0 => LET root == posts[posts[m].root]
                                  IN  root.root = 0 /\ root.room = posts[m].room
    /\ \A r \in Rooms, p \in People : /\ read.rooms[r][p] <= LatestIn(r)
                                      /\ \A m \in HistoryShown(p, r) : MayRead(p, m)
    /\ \A r, other \in Rooms : r # other /\ rooms[r].kind = "dm" /\ rooms[other].kind = "dm"
                                => inRoom[r] # inRoom[other]

(* As long as there is the room, nobody's place in it or in a thread of it  *)
(* moves back, however late an acknowledgement comes; and a draft takes the *)
(* place of a text only when the device that saved it showed that text,     *)
(* knew of no draft, or the room's draft had been cleared once              *)
(* (advanceReadCursor, saveDraft).                                          *)
MembersKeepTheirPlace ==
    [][/\ \A r \in Rooms, p \in People : rooms'[r].made => read'.rooms[r][p] >= read.rooms[r][p]
       /\ \A x \in DOMAIN read.threads : posts' # <<>> => read'.threads[x] >= read.threads[x]
       /\ \A r \in Rooms :
             drafts[r] # NoDraft /\ drafts'[r] # drafts[r] /\ r \notin cleared' /\ rooms'[r].made =>
                \E s \in Screens : /\ screens'[s][r] = drafts'[r]
                                   /\ screens[s][r] \in {drafts[r], NoDraft}]_roomVars
=============================================================================
