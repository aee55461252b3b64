-------------------------------- MODULE Live --------------------------------
(***************************************************************************)
(* What open tabs hear of the rooms (replayForSocket and                   *)
(* broadcastChannelEvent in src/cloudflare/workspace.ts): a transaction    *)
(* writes rows of replay_events, then it is broadcast to the open sockets, *)
(* and a tab that was away asks for the rows after the last one it saw.    *)
(* The operations are those of modules Rooms and Membership; this module   *)
(* adds what each of them writes to the replay table and sends.  Payloads, *)
(* presence and typing are left out, and so is the cursor that a socket's  *)
(* attachment carries, which nothing reads.  The repository has no client  *)
(* of the socket: a tab does what HLD.md says of one, and what it fetches  *)
(* is all that there is.                                                   *)
(***************************************************************************)
EXTENDS Rooms

CONSTANTS
    Tabs,
    TabOf               \* whose tab it is

ASSUME LiveAssumption ==
    /\ TabOf \in [Tabs -> People]
    /\ \A sc \in Scenarios : sc.breaks \in Nat

VARIABLES
    log,                \* replay_events, in their sequence; a purged row keeps its number
    purged,             \* so many of the first rows were swept
    sockets,            \* the open sockets, and the frames on their way
    tabs,               \* what a tab has seen (external)
    breaks,             \* how many connections may still break, and rows be swept
    hidden,             \* history: whom a row's room was hidden from at some time since
    excused             \* history: tabs that resumed in an emptied table or saw a card

liveVars == <<log, purged, sockets, tabs, breaks, hidden, excused>>

Closed == [open |-> FALSE, epoch |-> 0, mail |-> <<>>]

(* A tab has seen the rows it was told, and all that were there when it     *)
(* last fetched; it resumes after its cursor.                               *)
NewTab == [cursor |-> 0, told |-> {}, fetched |-> 0, hello |-> 0]

Event(sequence, row) == [type |-> "event", sequence |-> sequence, row |-> row]
Welcome(sequence) == [type |-> "welcome", sequence |-> sequence, row |-> 0]
Reset == [type |-> "reset", sequence |-> 0, row |-> 0]

(* latestReplaySequence and oldestReplaySequence, of the rows that are left. *)
Latest(rows_, swept) == IF Len(rows_) = swept THEN 0 ELSE Len(rows_)
Oldest == IF Len(log) = purged THEN 0 ELSE purged + 1

(* authorizeMember, for the epoch a socket was opened with. *)
Authorised(tab) ==
    /\ local[TabOf[tab]].status = "active"
    /\ local[TabOf[tab]].epoch = sockets[tab].epoch

Hears(tab, r) == sockets[tab].open /\ Authorised(tab) /\ Sees(TabOf[tab], r)

Hide ==
    hidden' = hidden \cup {x \in People \X DOMAIN log' :
                              log'[x[2]].room = None \/ ~(x[1] \in inRoom'[log'[x[2]].room]
                                                     \/ rooms'[log'[x[2]].room].kind = "public")}

-----------------------------------------------------------------------------
(* What a transaction writes to the replay table and sends. *)

Row(r, announced) == Append(log, [room |-> r, announced |-> announced])

(* broadcastChannelEvent: to every open socket whose member may see the     *)
(* room by now.                                                             *)
Broadcast(r, frame) ==
    sockets' = [tab \in Tabs |->
        IF Hears(tab, r) THEN [sockets[tab] EXCEPT !.mail = Append(@, frame)] ELSE sockets[tab]]

(* A message that is written, edited or deleted, a reaction or a pin that   *)
(* is added: one row, and the same to whoever listens.                      *)
Announce(r) ==
    /\ log' = Row(r, TRUE)
    /\ Broadcast(r, Event(Len(log'), Len(log')))
    /\ Hide
    /\ UNCHANGED <<purged, tabs, breaks, excused>>

(* A room or a queue that changes: a row which is not broadcast.            *)
RecordRow(r) ==
    /\ log' = Row(r, FALSE)
    /\ Hide
    /\ UNCHANGED <<purged, sockets, tabs, breaks, excused>>

(* A reaction or a pin that is taken away: no row, and the last row's       *)
(* sequence to whoever listens.                                             *)
Mention(r) ==
    /\ Broadcast(r, Event(Latest(log, purged), 0))
    /\ UNCHANGED <<log, purged, tabs, breaks, excused>>
    /\ Hide

(* postVaultMessage: a card in the member's room with the vault; it writes  *)
(* no row, and is sent with its number in the room for a sequence.          *)
PostCard(r) ==
    /\ Move("card")
    /\ Len(posts) < start.posts
    /\ rooms[r].made /\ rooms[r].kind = "dm"
    /\ Written(None, r, 0, 0)
    /\ UNCHANGED <<inRoom, notified, kept, drafting>>
    /\ Broadcast(r, Event(rooms[r].next, 0))
    /\ excused' = excused \cup {tab \in Tabs : Hears(tab, r)}
    /\ UNCHANGED <<log, purged, tabs, breaks>>
    /\ Hide

(* Faulty variant: the sockets of a member who changes stay open. *)
CloseNoSockets(changed) == sockets' = sockets

(* closeMemberSockets, when applyMembership took an operation: whoever was  *)
(* on that socket has to come back with the epoch of now.                   *)
CloseMemberSockets(changed) ==
    sockets' = [tab \in Tabs |-> IF TabOf[tab] \in changed THEN Closed ELSE sockets[tab]]

MembersChange ==
    LET changed == {p \in People : local'[p] # local[p]}
    IN  /\ MembersMove
        /\ log' = IF changed = {} THEN log ELSE Row(None, FALSE)
        /\ CloseMemberSockets({p \in changed : local'[p].epoch > 1 \/ local'[p].status # "active"})
        /\ Hide
        /\ UNCHANGED <<purged, tabs, breaks, excused>>

-----------------------------------------------------------------------------
(* Sockets. *)

(* The rows after a sequence that the member may see by now. *)
RowsSince(p, since) ==
    {e \in DOMAIN log : /\ e > since /\ e > purged
                        /\ log[e].room # None /\ Sees(p, log[e].room)}

(* Their frames, in the order of the rows. *)
RowsAfter(p, since) ==
    LET sent == RowsSince(p, since)
        Nth(k) == CHOOSE e \in sent : Cardinality({x \in sent : x <= e}) = k
    IN  [k \in 1 .. Cardinality(sent) |-> Event(Nth(k), Nth(k))]

(* Faulty variant: whoever comes back gets the rows that are left. *)
ReplayForSocketGap(p, since) == RowsAfter(p, since)

(* replayForSocket: a cursor before the oldest row is answered by a reset.  *)
ReplayForSocket(p, since) ==
    IF Oldest > 0 /\ since > 0 /\ since + 1 < Oldest THEN <<Reset>> ELSE RowsAfter(p, since)

(* The tab resumes where nothing is left that could tell it apart.          *)
ResumesBlind(tab) == Oldest = 0 /\ tabs[tab].cursor > 0 /\ tabs[tab].cursor < Len(log)

(* fetch: the route names the epoch of the control plane's row; a cursor of *)
(* nought asks for no replay.                                               *)
Connect(tab) ==
    LET p == TabOf[tab]
        since == tabs[tab].cursor
    IN  /\ ~sockets[tab].open /\ Access(p)
        /\ sockets' = [sockets EXCEPT ![tab] =
              [open |-> TRUE, epoch |-> rows[p].epoch,
               mail |-> <<Welcome(Latest(log, purged))>>
                        \o (IF since > 0 THEN ReplayForSocket(p, since) ELSE <<>>)]]
        /\ excused' = IF ResumesBlind(tab) THEN excused \cup {tab} ELSE excused
        /\ UNCHANGED <<log, purged, tabs, breaks, hidden>>

(* The frame "resume" on an open socket (webSocketMessage). *)
Resume(tab) ==
    /\ sockets[tab].open /\ Authorised(tab)
    /\ Len(sockets[tab].mail) < 2
    /\ sockets' = [sockets EXCEPT ![tab].mail = @ \o ReplayForSocket(TabOf[tab], tabs[tab].cursor)]
    /\ excused' = IF ResumesBlind(tab) THEN excused \cup {tab} ELSE excused
    /\ UNCHANGED <<log, purged, tabs, breaks, hidden>>

(* A connection ends, with the frames that are on their way. *)
Break(tab) ==
    /\ sockets[tab].open /\ breaks > 0
    /\ sockets' = [sockets EXCEPT ![tab] = Closed]
    /\ breaks' = breaks - 1
    /\ UNCHANGED <<log, purged, tabs, hidden, excused>>

(* sweepRetention: rows of seven days, the oldest first. *)
SweepReplay(n) ==
    /\ breaks > 0 /\ n \in purged + 1 .. Len(log)
    /\ purged' = n
    /\ breaks' = breaks - 1
    /\ UNCHANGED <<log, sockets, tabs, hidden, excused>>

(* A tab takes a frame: it fetches everything when it starts and when it is *)
(* told to.                                                                 *)
Receive(tab) ==
    LET frame == Head(sockets[tab].mail)
        seen == tabs[tab]
    IN  /\ sockets[tab].open /\ sockets[tab].mail # <<>>
        /\ sockets' = [sockets EXCEPT ![tab].mail = Tail(@)]
        /\ tabs' = [tabs EXCEPT ![tab] =
              CASE frame.type = "welcome" /\ seen.cursor = 0 ->
                      [seen EXCEPT !.fetched = Len(log), !.cursor = frame.sequence,
                                   !.hello = frame.sequence]
                [] frame.type = "welcome" /\ seen.cursor > 0 ->
                      [seen EXCEPT !.hello = frame.sequence]
                [] frame.type = "reset" -> [seen EXCEPT !.fetched = Len(log), !.cursor = seen.hello]
                [] frame.type = "event" ->
                      [seen EXCEPT !.told = @ \cup ({frame.row} \ {0}),
                                   !.cursor = MaxOf(@, frame.sequence)]]
        /\ UNCHANGED <<log, purged, breaks, hidden, excused>>

-----------------------------------------------------------------------------
LiveInit ==
    /\ log = <<>> /\ purged = 0
    /\ sockets = [tab \in Tabs |-> Closed]
    /\ tabs = [tab \in Tabs |-> NewTab]
    /\ breaks = budget.breaks
    /\ hidden = {} /\ excused = {}

(* The operations of the rooms, with what they write and send. *)
AnnouncedStep ==
    \E p \in People :
        \/ \E r \in Rooms, parent \in Posts \cup {0} :
              SendMessage(p, r, parent, Nobody, {}, FALSE) /\ Announce(r)
        \/ \E m \in Posts :
              \/ \E r \in Rooms : ForwardMessage(p, m, r) /\ Announce(r)
              \/ DeleteMessage(p, m) /\ Announce(posts[m].room)
              \/ ReactToMessage(p, m, TRUE) /\ Announce(posts[m].room)
              \/ ReactToMessage(p, m, FALSE) /\ Mention(posts[m].room)
              \/ PinMessage(p, m, TRUE) /\ Announce(posts[m].room)
              \/ PinMessage(p, m, FALSE) /\ Mention(posts[m].room)

RecordedStep ==
    \E p \in People, r \in Rooms :
        \/ (JoinChannel(p, r) \/ LeaveChannel(p, r)) /\ RecordRow(r)
        \/ \E q \in People : AddChannelMember(p, r, q) /\ RecordRow(r)

SocketStep ==
    \/ \E tab \in Tabs : Connect(tab) \/ Resume(tab) \/ Break(tab) \/ Receive(tab)
    \/ \E n \in 1 .. Len(log) : SweepReplay(n)

LiveNext ==
    \/ AnnouncedStep
    \/ RecordedStep
    \/ \E r \in Rooms : PostCard(r)
    \/ MembersChange
    \/ SocketStep /\ UNCHANGED <<vars, roomVars>>

-----------------------------------------------------------------------------
(* Properties. *)

(* What a tab ought to know of: the rows that were broadcast, of rooms its  *)
(* member saw ever since.                                                   *)
Owed(tab) == {e \in DOMAIN log : log[e].announced /\ <<TabOf[tab], e>> \notin hidden}
Known(tab) == {e \in DOMAIN log : e \in tabs[tab].told \/ e <= tabs[tab].fetched}

(* A tab that is connected and has taken every frame has no gap, whatever   *)
(* connections broke, rows were swept and memberships changed before,       *)
(* unless it resumed when the whole table was swept, or saw a card of the   *)
(* vault; and neither has the part that a tab passed over.  Who holds a     *)
(* socket open still has the authority it was opened with                   *)
(* (replayForSocket, broadcastChannelEvent, closeMemberSockets).            *)
DeliveryHolds ==
    /\ \A tab \in Tabs \ excused :
          /\ \A e \in Owed(tab) : e <= tabs[tab].cursor => e \in Known(tab)
          /\ sockets[tab].open /\ sockets[tab].mail = <<>> => Owed(tab) \subseteq Known(tab)
    /\ \A tab \in Tabs : sockets[tab].open => Authorised(tab)
=============================================================================
