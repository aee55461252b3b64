-------------------------- MODULE SessionAuthority --------------------------
(***************************************************************************)
(* What the rest of the workspace may rely on about the runner sessions    *)
(* of one agent.  A session is issued once, is live for a while, and ends  *)
(* for good; issuing one ends whichever was live before, and an agent that *)
(* is not active has none.                                                 *)
(*                                                                         *)
(* AgentSessions is the detailed machine (delegations, owners, membership  *)
(* epochs, token expiry and rotation) and is shown to implement this one.  *)
(* AgentQueue is built on this one.                                        *)
(***************************************************************************)

CONSTANT Sessions       \* session ids, each minted at most once

VARIABLES
    active,             \* agents.status = 'active'
    session             \* phase of every session id

authorityVars == <<active, session>>

Phases == {"unused", "live", "ended"}

AuthorityTypeOK ==
    /\ active \in BOOLEAN
    /\ session \in [Sessions -> Phases]

LiveSessions == {s \in Sessions : session[s] = "live"}

(* The session table once every session of S has been ended. *)
EndedIn(S) == [s \in Sessions |-> IF s \in S THEN "ended" ELSE session[s]]

AuthorityInit ==
    /\ active = TRUE
    /\ session = [s \in Sessions |-> "unused"]

(* A new session replaces whichever session of the agent was live. *)
StartSession(s) ==
    /\ active
    /\ session[s] = "unused"
    /\ session' = [EndedIn(LiveSessions) EXCEPT ![s] = "live"]
    /\ UNCHANGED active

(* Stopped, expired, or stripped of the authority it was minted from. *)
EndSession(s) ==
    /\ session[s] = "live"
    /\ session' = [session EXCEPT ![s] = "ended"]
    /\ UNCHANGED active

(* Pausing or archiving the agent ends its sessions; resuming revives none. *)
SetAgentStatus(b) ==
    /\ active' = b
    /\ session' = IF b THEN session ELSE EndedIn(LiveSessions)

AuthorityNext ==
    \/ \E s \in Sessions : StartSession(s) \/ EndSession(s)
    \/ \E b \in BOOLEAN : SetAgentStatus(b)

AuthoritySpec == AuthorityInit /\ [][AuthorityNext]_authorityVars

-----------------------------------------------------------------------------

(* One harness at a time: an agent never has two live sessions, and one it *)
(* does have belongs to an active agent.                                   *)
SingleLiveSession ==
    /\ \A s, t \in LiveSessions : s = t
    /\ LiveSessions # {} => active
=============================================================================
