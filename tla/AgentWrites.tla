----------------------------- MODULE AgentWrites ----------------------------
(***************************************************************************)
(* What a member's clients and an agent's sessions write into rooms        *)
(* through MCP (app/w/[slug]/mcp/route.ts, sendAttributedMcpMessage and    *)
(* submitForm of src/cloudflare/workspace.ts).                             *)
(*                                                                         *)
(* The Worker authenticates a call, asks the workspace about the session's *)
(* agent and calls it a third time to write; between the calls, and while  *)
(* the workspace hashes, everything the call rests on may change.  A       *)
(* message is written with its receipt, its provenance and its share of    *)
(* the credential's window, stamped with the time the Worker saw.  One     *)
(* member, one agent of theirs, their connection and the agent's session;  *)
(* how these live and die is the matter of modules OauthTokens and         *)
(* AgentSessions.  Threads, mentions and notifications are module Rooms.   *)
(***************************************************************************)
EXTENDS Integers, Sequences, FiniteSets

CONSTANTS
    Calls,              \* calls of clients; a retry is a call of its own
    WriteRooms,
    Delegated           \* the rooms of the session's delegation

(* Bounds and times: writes in a window and its length (MCP_WRITE_LIMIT,     *)
(* MCP_WRITE_WINDOW_MS), how long a receipt is kept, how late a call may     *)
(* arrive; and, for each setup, the requests each call may carry, what may   *)
(* change, how often, the rooms that take forms at first, and how far time   *)
(* goes.                                                                     *)
CONSTANTS WriteLimit, WriteWindow, ReceiptLife, Lateness, WriteSetups

ASSUME AgentWritesAssumption ==
    /\ {WriteLimit, WriteWindow, ReceiptLife} \subseteq Nat \ {0}
    /\ Lateness \in Nat
    /\ Delegated \subseteq WriteRooms
    /\ \A u \in WriteSetups : DOMAIN u.asks = Calls /\ u.changes \in Nat /\ u.ticks \in Nat

VARIABLES
    grounds,            \* what a call rests on: the member, the agent, credentials and rooms
    minute,             \* time
    toolCalls,          \* calls on their way through the Worker and the workspace
    windows,            \* mcp_write_limits and agent_session_write_limits
    receipts,           \* idempotency_keys
    written,            \* messages in the order of their commits, with their attribution
    tripped,            \* requests that were refused for a canary
    forgotten,          \* history: receipts that were swept
    limits              \* what is left of the setup

writeVars == <<grounds, minute, toolCalls, windows, receipts, written, tripped, forgotten, limits>>

Buckets == {<<"oauth", "member">>, <<"oauth", "agent">>, <<"session", "agent">>}
NoCall == [pc |-> "none"]
NoWindow == [from |-> -1, count |-> 0]

By(r) == IF r.tool = "agent_post" THEN "agent" ELSE "member"
ScopeOf(r) ==
    CASE r.tool = "post_message" -> "mcp.message.send"
      [] r.tool = "agent_post" -> "mcp.agent.send"
      [] r.tool = "submit_form" -> "message.send"
Receipt(r) == <<ScopeOf(r), r.key>>

-----------------------------------------------------------------------------
(* What a call rests on. *)

Live(cred) ==
    /\ cred \in grounds.live /\ grounds.standing
    /\ cred = "session" => grounds.agentActive

(* requireChannelParticipant, and a room that is not archived. *)
Takes(r) == r.room \in grounds.joined \ grounds.archived

(* agentMayPostIn: an agent posts where its owner lets it, and a session    *)
(* where it was delegated to.                                               *)
MayPost(r) ==
    /\ Live(r.cred) /\ Takes(r)
    /\ r.tool = "agent_post" => grounds.agentActive /\ r.room \in grounds.scope
    /\ r.cred = "session" => r.room \in Delegated

HasCanary(r) == r.text = "marked" /\ grounds.planted

-----------------------------------------------------------------------------
(* The Worker. *)

(* A request arrives (POST), and its token is looked up.                    *)
AuthenticateMcpToken(c, r) ==
    /\ toolCalls[c] = NoCall /\ r \in limits.asks[c]
    /\ toolCalls' = [toolCalls EXCEPT ![c] =
          IF Live(r.cred) /\ (r.tool = "post_message" => r.cred = "oauth")
          THEN [pc |-> "known", request |-> r] ELSE [pc |-> "over"]]
    /\ UNCHANGED <<grounds, minute, windows, receipts, written, tripped, forgotten, limits>>

(* assertSessionChannel; the time is read when the write is sent.           *)
AssertSessionChannel(c) ==
    /\ toolCalls[c].pc = "known"
    /\ LET r == toolCalls[c].request
       IN  toolCalls' = [toolCalls EXCEPT ![c] =
              IF r.cred = "session" => grounds.standing /\ r.room \in Delegated /\ r.room \in grounds.scope
              THEN [pc |-> "sent", request |-> r, at |-> minute] ELSE [pc |-> "over"]]
    /\ UNCHANGED <<grounds, minute, windows, receipts, written, tripped, forgotten, limits>>

-----------------------------------------------------------------------------
(* The workspace. *)

(* Faulty variant: windows are those of the calendar. *)
CalendarWindow(w, now) ==
    IF w.from < 0 \/ now \div WriteWindow # w.from \div WriteWindow THEN [from |-> now, count |-> 1]
    ELSE [from |-> w.from, count |-> w.count + 1]

(* A window starts with the first write after the last one was over.        *)
NextMcpWriteWindow(w, now) ==
    IF w.from < 0 \/ now - w.from >= WriteWindow THEN [from |-> now, count |-> 1]
    ELSE [from |-> w.from, count |-> w.count + 1]

(* mcp_message_attribution, agent_session_message_attribution. *)
Attribution(r, credential) == <<credential, By(r)>>

(* A canary is told of, and what carries it is refused. *)
RefuseCanaryContent(c, found) == tripped' = IF found THEN tripped \cup {c} ELSE tripped

(* The message, who is accountable for it, its receipt.                     *)
Insert(r, at, credential) ==
    /\ written' = Append(written, [scope |-> ScopeOf(r), key |-> r.key, room |-> r.room, text |-> r.text,
                                   bucket |-> Attribution(r, credential), request |-> r, committed |-> minute])
    /\ receipts' = receipts \cup {[of |-> Receipt(r), until |-> at + ReceiptLife]}

(* consumeMcpWrite and consumeAgentSessionWrite, then the message: all of   *)
(* it or nothing.                                                           *)
Consume(r, at) ==
    LET b == <<r.cred, By(r)>>
        next == NextMcpWriteWindow(windows[b], at)
    IN  IF next.count <= WriteLimit
        THEN windows' = [windows EXCEPT ![b] = next] /\ Insert(r, at, r.cred)
        ELSE UNCHANGED <<windows, written, receipts>>

Known(r) == \E x \in receipts : x.of = Receipt(r)

(* The hash of the body, the first look, and the hash of the token.         *)
LookAtSession(c) ==
    /\ toolCalls[c].pc = "sent"
    /\ toolCalls[c].request.tool = "agent_post" /\ toolCalls[c].request.cred = "session"
    /\ toolCalls' = [toolCalls EXCEPT ![c] =
          IF grounds.standing /\ grounds.agentActive THEN [@ EXCEPT !.pc = "looked"] ELSE [pc |-> "over"]]
    /\ UNCHANGED <<grounds, minute, windows, receipts, written, tripped, forgotten, limits>>

ReadyToWrite(c) ==
    \/ toolCalls[c].pc = "looked"
    \/ toolCalls[c].pc = "sent" /\ toolCalls[c].request.cred = "oauth" /\ toolCalls[c].request.tool # "submit_form"

(* Faulty variant: what was found before the token was hashed is not looked *)
(* at again.                                                                *)
WriteAsLookedAt(c) ==
    /\ ReadyToWrite(c)
    /\ LET r == toolCalls[c].request
       IN  /\ RefuseCanaryContent(c, HasCanary(r))
           /\ IF /\ toolCalls[c].pc = "looked" \/ MayPost(r)
                 /\ ~HasCanary(r) /\ r.room \notin grounds.forms /\ ~Known(r)
              THEN Consume(r, toolCalls[c].at)
              ELSE UNCHANGED <<windows, written, receipts>>
    /\ toolCalls' = [toolCalls EXCEPT ![c] = [pc |-> "over"]]
    /\ UNCHANGED <<grounds, minute, forgotten, limits>>

(* sendAttributedMcpMessage, after its last wait.  A canary is refused and  *)
(* told of; a message that is there already is answered again.              *)
SendAttributedMcpMessage(c) ==
    /\ ReadyToWrite(c)
    /\ LET r == toolCalls[c].request
           stopped == MayPost(r) /\ HasCanary(r)
       IN  /\ RefuseCanaryContent(c, stopped)
           /\ IF MayPost(r) /\ ~stopped /\ r.room \notin grounds.forms /\ ~Known(r)
              THEN Consume(r, toolCalls[c].at)
              ELSE UNCHANGED <<windows, written, receipts>>
    /\ toolCalls' = [toolCalls EXCEPT ![c] = [pc |-> "over"]]
    /\ UNCHANGED <<grounds, minute, forgotten, limits>>

(* submitForm: a message of the member; no credential is looked at here, no *)
(* window is consumed, nothing is attributed.                               *)
SubmitForm(c) ==
    /\ toolCalls[c].pc = "sent" /\ toolCalls[c].request.tool = "submit_form"
    /\ LET r == toolCalls[c].request
           open == grounds.standing /\ Takes(r) /\ r.room \in grounds.forms
       IN  /\ RefuseCanaryContent(c, open /\ HasCanary(r))
           /\ IF open /\ ~HasCanary(r) /\ ~Known(r) THEN Insert(r, toolCalls[c].at, "none")
              ELSE UNCHANGED <<written, receipts>>
    /\ toolCalls' = [toolCalls EXCEPT ![c] = [pc |-> "over"]]
    /\ UNCHANGED <<grounds, minute, windows, forgotten, limits>>

(* The daily retention sweep. *)
SweepReceipts ==
    LET old == {x \in receipts : x.until <= minute}
    IN  /\ old # {}
        /\ receipts' = receipts \ old
        /\ forgotten' = forgotten \cup {x.of : x \in old}
        /\ UNCHANGED <<grounds, minute, toolCalls, windows, written, tripped, limits>>

-----------------------------------------------------------------------------
(* What happens meanwhile. *)

Toggled(s, x) == IF x \in s THEN s \ {x} ELSE s \cup {x}

Altered(what, to) ==
    /\ what \in limits.moves /\ limits.changes > 0
    /\ limits' = [limits EXCEPT !.changes = @ - 1]
    /\ grounds' = to
    /\ UNCHANGED <<minute, toolCalls, windows, receipts, written, tripped, forgotten>>

(* A connection is revoked, a session or its delegation ends.               *)
EndCredential(cred) ==
    /\ cred \in grounds.live
    /\ Altered("revoke", [grounds EXCEPT !.live = @ \ {cred}])

SuspendMember == grounds.standing /\ Altered("suspend", [grounds EXCEPT !.standing = FALSE])
PauseOrResume == Altered("pause", [grounds EXCEPT !.agentActive = ~@])
SetAgentScope(x) == Altered("scope", [grounds EXCEPT !.scope = Toggled(@, x)])
SetArchived(x) == Altered("archive", [grounds EXCEPT !.archived = Toggled(@, x)])
SetJoined(x) == Altered("join", [grounds EXCEPT !.joined = Toggled(@, x)])
SetForm(x) == Altered("form", [grounds EXCEPT !.forms = Toggled(@, x)])
PlantCanary == ~grounds.planted /\ Altered("plant", [grounds EXCEPT !.planted = TRUE])

(* Time goes no further than a call may be late.                            *)
PassMinute ==
    /\ minute < limits.ticks
    /\ \A c \in Calls : toolCalls[c].pc \in {"sent", "looked"} => minute - toolCalls[c].at < Lateness
    /\ minute' = minute + 1
    /\ UNCHANGED <<grounds, toolCalls, windows, receipts, written, tripped, forgotten, limits>>

-----------------------------------------------------------------------------
WritesInit ==
    /\ limits \in WriteSetups
    /\ grounds = [standing |-> TRUE, agentActive |-> TRUE, live |-> {"oauth", "session"}, scope |-> WriteRooms,
                  joined |-> WriteRooms, archived |-> {}, forms |-> limits.forms, planted |-> FALSE]
    /\ minute = 0
    /\ toolCalls = [c \in Calls |-> NoCall]
    /\ windows = [b \in Buckets |-> NoWindow]
    /\ receipts = {} /\ written = <<>> /\ tripped = {} /\ forgotten = {}

CallStep ==
    \E c \in Calls :
       \/ \E r \in limits.asks[c] : AuthenticateMcpToken(c, r)
       \/ AssertSessionChannel(c) \/ LookAtSession(c) \/ SendAttributedMcpMessage(c) \/ SubmitForm(c)

GroundsStep ==
    \/ \E cred \in {"oauth", "session"} : EndCredential(cred)
    \/ SuspendMember \/ PauseOrResume \/ PlantCanary
    \/ \E x \in WriteRooms : SetAgentScope(x) \/ SetArchived(x) \/ SetJoined(x) \/ SetForm(x)

WritesNext == CallStep \/ GroundsStep \/ PassMinute \/ SweepReceipts

-----------------------------------------------------------------------------
(* Properties. *)

(* The messages from i to j that count against one window. *)
WrittenBetween(b, i, j) == {k \in i .. j : written[k].bucket = b}

(* Twice the limit is never written in less than a window, less the time by *)
(* which calls may be late, however their stamps overtake each other.       *)
BudgetKept ==
    \A b \in Buckets : \A i, j \in DOMAIN written :
       /\ {i, j} \subseteq WrittenBetween(b, i, j)
       /\ Cardinality(WrittenBetween(b, i, j)) >= 2 * WriteLimit
       => written[j].committed - written[i].committed >= WriteWindow - Lateness

(* A key is written once, through whatever credential it is tried again,    *)
(* as long as its receipt stands.                                           *)
OneMessagePerKey ==
    \A i, j \in 1 .. Len(written) :
       i # j /\ Receipt(written[i].request) = Receipt(written[j].request) => Receipt(written[i].request) \in forgotten

(* No call writes on grounds that are gone, however long it was under way;  *)
(* no canary reaches a room; no window is overrun; no retry writes twice    *)
(* (sendAttributedMcpMessage).  A form is the member's own message, and     *)
(* rests on the member and the room alone.                                  *)
AgentWritesHold ==
    /\ [](BudgetKept /\ OneMessagePerKey)
    /\ [][\A i \in DOMAIN written' \ DOMAIN written :
            LET r == written'[i].request
            IN  /\ ~HasCanary(r)
                /\ IF r.tool = "submit_form" THEN grounds.standing /\ Takes(r) /\ r.room \in grounds.forms
                   ELSE MayPost(r) /\ r.room \notin grounds.forms]_written
=============================================================================
