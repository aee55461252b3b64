-------------------------------- MODULE Pushes ------------------------------
(***************************************************************************)
(* How a person's browsers are told that something waits for them          *)
(* (subscribeToPush, dispatchPush and renderNotification of                *)
(* src/cloudflare/workspace.ts, cloudflare/web-push.ts, public/sw.js).     *)
(*                                                                         *)
(* The push carries an identifier; the words are fetched by the browser it *)
(* wakes, with the session that browser has by then.  Browsers are shared: *)
(* people sign in and out, and what they asked for may arrive late.  The   *)
(* drain of the outbox sends to one browser after the other and waits for  *)
(* each answer; the push service takes a push or does not, and its answer  *)
(* may be lost.  An endpoint stands for its browser; keys and words are    *)
(* data.  Who is notified of what is module Rooms, cards are module Vault. *)
(***************************************************************************)
EXTENDS Integers, FiniteSets

CONSTANTS
    People,
    Browsers,
    Messages,
    Cards,
    NoBody              \* SQL NULL, a browser where nobody is signed in

(* Bounds: the attempts an outbox entry has; and, for each setup, what may  *)
(* change (moves), how often, how many faults there are, who may be told    *)
(* of what, and whose browsers they are at first.                           *)
CONSTANTS PushAttempts, PushSetups

ASSUME PushesAssumption ==
    /\ NoBody \notin People
    /\ Messages \cap Cards = {}
    /\ PushAttempts \in Nat \ {0}
    /\ \A u \in PushSetups : u.first \in People /\ u.changes \in Nat /\ u.faults \in Nat
                           /\ u.told \subseteq People \X (Messages \cup Cards)

VARIABLES
    standing,           \* people who are active members
    audience,           \* who may see a message, who may decide a card
    waiting,            \* messages that are not deleted, cards that are not answered
    overdue,            \* cards whose time has run out
    signedIn,           \* whose session a browser has (external)
    subscriptions,      \* push_subscriptions: whose each endpoint is
    asked,              \* calls of browsers that have not arrived yet
    gone,               \* endpoints the push service has dropped (external)
    tells,              \* the outbox entry of a person and a subject
    dispatch,           \* the drain, while it sends
    underway,           \* pushes the service has taken (external)
    displayed,          \* words on the screens of browsers, and for whom
    accounted,          \* history: why an entry counts as delivered
    pushed,             \* history: pushes taken for an entry, by browser
    unsure,             \* history: entries whose answer was lost
    room                \* what is left of the bounds

people == <<standing, audience, waiting, overdue, signedIn, room>>
pushVars == <<people, subscriptions, asked, gone, tells, dispatch, underway, displayed, accounted, pushed, unsure>>

Subjects == Messages \cup Cards
NoTell == [status |-> "none", attempts |-> 0]
Resting == [pc |-> "idle", to |-> NoBody, about |-> NoBody, todo |-> {}, any |-> FALSE, at |-> NoBody, answer |-> "none"]
Entry == <<dispatch.to, dispatch.about>>

-----------------------------------------------------------------------------
(* The people, their sessions and what they are told of. *)

Happens(what) ==
    /\ room.changes > 0 /\ what \in room.moves
    /\ room' = [room EXCEPT !.changes = @ - 1]
Mishap == room.faults > 0 /\ room' = [room EXCEPT !.faults = @ - 1]

outer == <<asked, gone, tells, dispatch, underway, displayed, accounted, pushed, unsure>>

Sign(b, p) ==
    /\ Happens("sign") /\ p # signedIn[b]
    /\ signedIn' = [signedIn EXCEPT ![b] = p]
    /\ UNCHANGED <<standing, audience, waiting, overdue, subscriptions, outer>>

(* applyMembership, of somebody who is not active any more. *)
Offboard(p) ==
    /\ Happens("offboard") /\ p \in standing
    /\ standing' = standing \ {p}
    /\ subscriptions' = [b \in Browsers |-> IF subscriptions[b] = p THEN NoBody ELSE subscriptions[b]]
    /\ UNCHANGED <<audience, waiting, overdue, signedIn, outer>>

(* A room is left; a message is deleted or a card answered; a card's time   *)
(* runs out.                                                                *)
Leave(p, s) ==
    /\ Happens("leave") /\ p \in audience[s]
    /\ audience' = [audience EXCEPT ![s] = @ \ {p}]
    /\ UNCHANGED <<standing, waiting, overdue, signedIn, subscriptions, outer>>

Close(s) ==
    /\ Happens("close") /\ s \in waiting
    /\ waiting' = waiting \ {s}
    /\ UNCHANGED <<standing, audience, overdue, signedIn, subscriptions, outer>>

RunOut(s) ==
    /\ Happens("run out") /\ s \in Cards \ overdue
    /\ overdue' = overdue \cup {s}
    /\ UNCHANGED <<standing, audience, waiting, signedIn, subscriptions, outer>>

(* The entry a mutation commits for somebody it notifies. *)
Tell(p, s) ==
    /\ <<p, s>> \in room.told /\ s \in waiting \ overdue
    /\ p \in standing \cap audience[s]
    /\ tells[<<p, s>>] = NoTell
    /\ tells' = [tells EXCEPT ![<<p, s>>].status = "pending"]
    /\ UNCHANGED <<people, subscriptions, asked, gone, dispatch, underway, displayed, accounted, pushed, unsure>>

-----------------------------------------------------------------------------
(* Browsers.  The route knows who asks from the session the request came    *)
(* with; the workspace looks at that member when it arrives.                *)

Ask(b, what) ==
    /\ Happens(what) /\ signedIn[b] # NoBody
    /\ <<b, signedIn[b], what>> \notin asked
    /\ asked' = asked \cup {<<b, signedIn[b], what>>}
    /\ UNCHANGED <<standing, audience, waiting, overdue, signedIn, subscriptions, gone, tells, dispatch,
                   underway, displayed, accounted, pushed, unsure>>

(* Faulty variant: the member is not looked at again. *)
SubscribeLate(b, p) ==
    /\ <<b, p, "subscribe">> \in asked
    /\ asked' = asked \ {<<b, p, "subscribe">>}
    /\ subscriptions' = [subscriptions EXCEPT ![b] = p]
    /\ UNCHANGED <<people, gone, tells, dispatch, underway, displayed, accounted, pushed, unsure>>

SubscribeToPush(b, p) ==
    /\ <<b, p, "subscribe">> \in asked
    /\ asked' = asked \ {<<b, p, "subscribe">>}
    /\ subscriptions' = IF p \in standing THEN [subscriptions EXCEPT ![b] = p] ELSE subscriptions
    /\ UNCHANGED <<people, gone, tells, dispatch, underway, displayed, accounted, pushed, unsure>>

UnsubscribeFromPush(b, p) ==
    /\ <<b, p, "unsubscribe">> \in asked
    /\ asked' = asked \ {<<b, p, "unsubscribe">>}
    /\ subscriptions' = IF p \in standing /\ subscriptions[b] = p
                        THEN [subscriptions EXCEPT ![b] = NoBody] ELSE subscriptions
    /\ UNCHANGED <<people, gone, tells, dispatch, underway, displayed, accounted, pushed, unsure>>

(* A profile is cleared, a permission revoked. *)
DropEndpoint(b) ==
    /\ Happens("drop") /\ b \notin gone
    /\ gone' = gone \cup {b}
    /\ UNCHANGED <<standing, audience, waiting, overdue, signedIn, subscriptions, asked, tells, dispatch,
                   underway, displayed, accounted, pushed, unsure>>

-----------------------------------------------------------------------------
(* dispatchPush, for one entry of the outbox. *)

Settling(e, status, why) ==
    /\ tells' = [tells EXCEPT ![e].attempts = @ + 1, ![e].status = status]
    /\ accounted' = IF status = "delivered" THEN accounted \cup {<<e, why>>} ELSE accounted
    /\ dispatch' = Resting

(* Up to its first wait: the browsers are read. *)
DispatchPush(p, s) ==
    LET mine == {b \in Browsers : subscriptions[b] = p}
        e == <<p, s>>
    IN  /\ dispatch.pc = "idle" /\ tells[e].status = "pending"
        /\ IF mine = {} THEN Settling(e, "delivered", "none")
           ELSE /\ dispatch' = [Resting EXCEPT !.pc = "sealing", !.to = p, !.about = s, !.todo = mine]
                /\ UNCHANGED <<tells, accounted>>
        /\ UNCHANGED <<people, subscriptions, asked, gone, underway, displayed, pushed, unsure>>

(* pushTtlSeconds, once the key is there. *)
CheckTtl ==
    /\ dispatch.pc = "sealing"
    /\ IF dispatch.about \in overdue THEN Settling(Entry, "delivered", "late")
       ELSE dispatch' = [dispatch EXCEPT !.pc = "sending"] /\ UNCHANGED <<tells, accounted>>
    /\ UNCHANGED <<people, subscriptions, asked, gone, underway, displayed, pushed, unsure>>

(* deliverOnePush: the service takes the push, refuses it, or knows nothing *)
(* of that endpoint; or its answer does not come.                           *)
SendPush(b) ==
    LET taken == b \notin gone
    IN  /\ dispatch.pc = "sending" /\ b \in dispatch.todo
        /\ \/ /\ dispatch' = [dispatch EXCEPT !.pc = "answered", !.at = b,
                                              !.answer = IF taken THEN "delivered" ELSE "expired"]
              /\ underway' = IF taken THEN underway \cup {<<b, dispatch.about>>} ELSE underway
              /\ pushed' = IF taken THEN [pushed EXCEPT ![Entry][b] = @ + 1] ELSE pushed
              /\ UNCHANGED <<unsure, room>>
           \/ /\ Mishap
              /\ dispatch' = [dispatch EXCEPT !.pc = "answered", !.at = b, !.answer = "retry"]
              /\ \/ UNCHANGED <<underway, pushed, unsure>>
                 \/ /\ taken
                    /\ underway' = underway \cup {<<b, dispatch.about>>}
                    /\ pushed' = [pushed EXCEPT ![Entry][b] = @ + 1]
                    /\ unsure' = unsure \cup {Entry}
        /\ UNCHANGED <<standing, audience, waiting, overdue, signedIn, subscriptions, asked, gone, tells,
                       displayed, accounted>>

(* Its answer: an endpoint that is gone is forgotten, whoever has it now.   *)
AnswerPush ==
    /\ dispatch.pc = "answered"
    /\ subscriptions' = IF dispatch.answer = "expired" THEN [subscriptions EXCEPT ![dispatch.at] = NoBody]
                        ELSE subscriptions
    /\ dispatch' = [dispatch EXCEPT !.pc = "sending", !.todo = @ \ {dispatch.at}, !.at = NoBody,
                                    !.any = @ \/ dispatch.answer = "delivered", !.answer = "none"]
    /\ UNCHANGED <<people, asked, gone, tells, underway, displayed, accounted, pushed, unsure>>

(* Faulty variant: one browser that was not reached is reason to try again. *)
EndPushUnlessAll ==
    /\ dispatch.pc = "sending" /\ dispatch.todo = {}
    /\ IF dispatch.any /\ \A b \in Browsers : subscriptions[b] = dispatch.to => pushed[Entry][b] > 0
       THEN Settling(Entry, "delivered", "taken")
       ELSE Settling(Entry, IF tells[Entry].attempts + 1 >= PushAttempts THEN "dead" ELSE "pending", "none")
    /\ UNCHANGED <<people, subscriptions, asked, gone, underway, displayed, pushed, unsure>>

(* One browser that was reached is enough; settleOutbox. *)
EndPush ==
    /\ dispatch.pc = "sending" /\ dispatch.todo = {}
    /\ IF dispatch.any THEN Settling(Entry, "delivered", "taken")
       ELSE Settling(Entry, IF tells[Entry].attempts + 1 >= PushAttempts THEN "dead" ELSE "pending", "none")
    /\ UNCHANGED <<people, subscriptions, asked, gone, underway, displayed, pushed, unsure>>

(* The object restarts, and the entry is still there. *)
LoseDispatch ==
    /\ Mishap /\ dispatch.pc # "idle"
    /\ unsure' = unsure \cup {Entry}
    /\ dispatch' = Resting
    /\ UNCHANGED <<standing, audience, waiting, overdue, signedIn, subscriptions, asked, gone, tells, underway,
                   displayed, accounted, pushed>>

-----------------------------------------------------------------------------
(* renderNotification: what there is to show to that member at that moment. *)
Words(p, s) == p \in standing \cap audience[s] /\ s \in waiting \ overdue

(* The browser is woken: whoever is signed in there gets the words, or a    *)
(* line that says nothing; a second push for a subject replaces the first.  *)
Present(b, s) ==
    /\ <<b, s>> \in underway
    /\ underway' = underway \ {<<b, s>>}
    /\ displayed' = [displayed EXCEPT ![b] =
          {d \in @ : d.about # s} \cup
          {[about |-> s, to |-> signedIn[b], words |-> signedIn[b] # NoBody /\ Words(signedIn[b], s)]}]
    /\ UNCHANGED <<people, subscriptions, asked, gone, tells, dispatch, accounted, pushed, unsure>>

-----------------------------------------------------------------------------
PushesInit ==
    /\ room \in PushSetups
    /\ standing = People
    /\ audience = [s \in Subjects |-> People]
    /\ waiting = Subjects /\ overdue = {}
    /\ signedIn = [b \in Browsers |-> room.first]
    /\ subscriptions = [b \in Browsers |-> room.first]
    /\ asked = {} /\ gone = {} /\ underway = {}
    /\ tells = [e \in People \X Subjects |-> NoTell]
    /\ dispatch = Resting
    /\ displayed = [b \in Browsers |-> {}]
    /\ accounted = {} /\ unsure = {}
    /\ pushed = [e \in People \X Subjects |-> [b \in Browsers |-> 0]]

PeopleStep ==
    \/ \E p \in People : Offboard(p) \/ \E s \in Subjects : Leave(p, s) \/ Tell(p, s)
    \/ \E s \in Subjects : Close(s) \/ RunOut(s)

BrowserStep ==
    \E b \in Browsers :
       \/ \E p \in People : SubscribeToPush(b, p) \/ UnsubscribeFromPush(b, p)
       \/ \E p \in People \cup {NoBody} : Sign(b, p)
       \/ Ask(b, "subscribe") \/ Ask(b, "unsubscribe") \/ DropEndpoint(b)
       \/ \E s \in Subjects : Present(b, s)

DispatchStep ==
    \/ \E p \in People, s \in Subjects : DispatchPush(p, s)
    \/ \E b \in Browsers : SendPush(b)
    \/ CheckTtl \/ AnswerPush \/ EndPush \/ LoseDispatch

PushesNext == PeopleStep \/ BrowserStep \/ DispatchStep

-----------------------------------------------------------------------------
(* Properties. *)

(* Whoever is not active any more has no browser that is told anything,     *)
(* however late a request of theirs arrives.                                *)
FormerMembersForgotten == \A b \in Browsers : subscriptions[b] # NoBody => subscriptions[b] \in standing

(* A browser is woken twice for one thing only when an answer was lost or   *)
(* the object with it, and then it shows it once.                           *)
WokenOnce ==
    \A e \in People \X Subjects, b \in Browsers :
       /\ pushed[e][b] > 1 => e \in unsure
       /\ Cardinality({d \in displayed[b] : d.about = e[2]}) <= 1

(* Nothing counts as delivered that no browser was told of, unless there is *)
(* none, or the card's time was over.                                       *)
DeliveredIsTold ==
    \A e \in People \X Subjects : tells[e].status = "delivered" =>
       \/ \E b \in Browsers : pushed[e][b] > 0
       \/ <<e, "none">> \in accounted
       \/ <<e, "late">> \in accounted /\ e[2] \in overdue

(* However browsers change hands, pushes are delayed and answers are lost,  *)
(* nobody is told twice for nothing, nothing is lost without a trace, and   *)
(* who has left is told nothing (applyMembership, dispatchPush, sw.js).     *)
PushesHold == FormerMembersForgotten /\ WokenOnce /\ DeliveredIsTold
=============================================================================
