----------------------------- MODULE OauthTokens -----------------------------
(* MCP connections of a workspace object: the authorization code, the pair  *)
(* of tokens it is exchanged for, its rotation, replay and revocation       *)
(* (src/cloudflare/workspace.ts, beginOauthAuthorization to                 *)
(* revokeOauthConnection; src/domain/mcp-oauth.ts).  Every hash is a wait,  *)
(* so an exchange and a refresh act on what they read before it.  Nobody    *)
(* ends the connections of a member who leaves: each use asks whether the   *)
(* member is active (Membership).                                           *)
EXTENDS Membership

CONSTANTS Codes, Connections, TokenCalls, MaxPairs

ASSUME OauthAssumption == MaxPairs \in Nat

VARIABLES
    codes,         \* oauth_codes
    connections,   \* oauth_connections
    tokenCalls,    \* exchanges and refreshes that wait for a hash
    minted,        \* pairs of tokens minted so far; a pair is its number
    made,          \* history: the connections each code made
    rotated,       \* history: how often each refresh token was exchanged
    raced          \* history: two refreshes of one token were in flight

oauthVars == <<codes, connections, tokenCalls, minted, made, rotated, raced>>

Pairs == 1 .. MaxPairs

NoCode == [state |-> "none", member |-> None, lapsed |-> FALSE]
NoConnection == [state |-> "none", member |-> None, current |-> 0, previous |-> 0]
NoTokenCall == [pc |-> "idle", code |-> None, connection |-> None, pair |-> 0]

Active(p) == local[p].status = "active"

(* authenticateOauthToken: the access token of a current pair, of a         *)
(* connection that was not revoked, for a member who is active now.  (Its   *)
(* hour can only take that away, and is left out.)                          *)
Honoured(conn, pair) ==
    /\ connections[conn].state = "open"
    /\ connections[conn].current = pair
    /\ Active(connections[conn].member)

Mint == minted' = minted + 1 /\ minted < MaxPairs

-----------------------------------------------------------------------------
(* beginOauthAuthorization, after its hash: codes that ran out are swept.   *)
Authorize(p, code) ==
    /\ Active(p)
    /\ codes[code].state = "none"
    /\ codes' = [c \in Codes |-> IF c = code THEN [NoCode EXCEPT !.state = "live", !.member = p]
                                 ELSE IF codes[c].lapsed THEN [codes[c] EXCEPT !.state = "swept"]
                                 ELSE codes[c]]
    /\ UNCHANGED <<connections, tokenCalls, minted, made, rotated, raced>>

(* exchangeOauthCode, up to the proof of the verifier: checkCodeExchange.   *)
BeginExchange(t, code) ==
    /\ tokenCalls[t] = NoTokenCall
    /\ codes[code].state = "live" /\ ~codes[code].lapsed
    /\ tokenCalls' = [tokenCalls EXCEPT ![t] = [@ EXCEPT !.pc = "verifying", !.code = code]]
    /\ UNCHANGED <<codes, connections, minted, made, rotated, raced>>

(* The verifier held or not, and the member is asked for again. *)
Verified(t) ==
    /\ tokenCalls[t].pc = "verifying"
    /\ \/ /\ Active(codes[tokenCalls[t].code].member)
          /\ tokenCalls' = [tokenCalls EXCEPT ![t].pc = "exchanging"]
       \/ tokenCalls' = [tokenCalls EXCEPT ![t] = NoTokenCall]
    /\ UNCHANGED <<codes, connections, minted, made, rotated, raced>>

(* After the hashes one conditional update spends the code.  It compares    *)
(* the code's expiry with the request's stamp, which it has passed already. *)
FinishExchange(t, conn) ==
    LET code == tokenCalls[t].code
    IN  /\ tokenCalls[t].pc = "exchanging" /\ connections[conn].state = "none"
        /\ codes[code].state = "live"
        /\ Mint
        /\ codes' = [codes EXCEPT ![code].state = "spent"]
        /\ connections' = [connections EXCEPT ![conn] =
              [NoConnection EXCEPT !.state = "open", !.member = codes[code].member,
                                   !.current = minted + 1]]
        /\ made' = [made EXCEPT ![code] = @ + 1]
        /\ tokenCalls' = [tokenCalls EXCEPT ![t] = NoTokenCall]
        /\ UNCHANGED <<rotated, raced>>

ExchangeRefused(t) ==
    /\ tokenCalls[t].pc = "exchanging"
    /\ codes[tokenCalls[t].code].state # "live"
    /\ tokenCalls' = [tokenCalls EXCEPT ![t] = NoTokenCall]
    /\ UNCHANGED <<codes, connections, minted, made, rotated, raced>>

-----------------------------------------------------------------------------
(* decideRefresh. *)
Refreshing(conn, pair) ==
    {t \in TokenCalls : /\ tokenCalls[t].pc = "refreshing"
                        /\ tokenCalls[t].connection = conn /\ tokenCalls[t].pair = pair}

(* refreshOauthTokens, up to the hashes: the current token rotates.         *)
BeginRefresh(t, conn, pair) ==
    /\ tokenCalls[t] = NoTokenCall
    /\ connections[conn].state = "open" /\ connections[conn].current = pair
    /\ Active(connections[conn].member)
    /\ raced' = (raced \/ Refreshing(conn, pair) # {})
    /\ tokenCalls' = [tokenCalls EXCEPT ![t] =
          [@ EXCEPT !.pc = "refreshing", !.connection = conn, !.pair = pair]]
    /\ UNCHANGED <<codes, connections, minted, made, rotated>>

(* The token before the current one has been rotated away: the connection   *)
(* dies.                                                                    *)
Replay(conn, pair) ==
    /\ connections[conn].state = "open" /\ connections[conn].previous = pair
    /\ connections' = [connections EXCEPT ![conn].state = "revoked"]
    /\ UNCHANGED <<codes, tokenCalls, minted, made, rotated, raced>>

(* Faulty variant: the connection is not asked for again. *)
FinishRefreshUnread(t) ==
    LET conn == tokenCalls[t].connection
    IN  /\ tokenCalls[t].pc = "refreshing"
        /\ Mint
        /\ connections' = [connections EXCEPT ![conn] =
              [@ EXCEPT !.current = minted + 1, !.previous = tokenCalls[t].pair]]
        /\ rotated' = [rotated EXCEPT ![tokenCalls[t].pair] = @ + 1]
        /\ tokenCalls' = [tokenCalls EXCEPT ![t] = NoTokenCall]
        /\ UNCHANGED <<codes, made, raced>>

(* rotateOauthConnection: it asks that the connection is not revoked, and   *)
(* not that the token presented is still the current one.                   *)
FinishRefresh(t) ==
    LET conn == tokenCalls[t].connection
    IN  /\ tokenCalls[t].pc = "refreshing"
        /\ connections[conn].state = "open"
        /\ Mint
        /\ connections' = [connections EXCEPT ![conn] =
              [@ EXCEPT !.current = minted + 1, !.previous = tokenCalls[t].pair]]
        /\ rotated' = [rotated EXCEPT ![tokenCalls[t].pair] = @ + 1]
        /\ tokenCalls' = [tokenCalls EXCEPT ![t] = NoTokenCall]
        /\ UNCHANGED <<codes, made, raced>>

RefreshRefused(t) ==
    /\ tokenCalls[t].pc = "refreshing"
    /\ connections[tokenCalls[t].connection].state # "open"
    /\ tokenCalls' = [tokenCalls EXCEPT ![t] = NoTokenCall]
    /\ UNCHANGED <<codes, connections, minted, made, rotated, raced>>

-----------------------------------------------------------------------------
(* revokeOauthToken: either half of a pair, or the refresh token before it. *)
RevokeToken(conn, pair) ==
    /\ connections[conn].state = "open"
    /\ pair \in {connections[conn].current, connections[conn].previous} \cap Pairs
    /\ connections' = [connections EXCEPT ![conn].state = "revoked"]
    /\ UNCHANGED <<codes, tokenCalls, minted, made, rotated, raced>>

(* revokeOauthConnection: by its member, who must be active. *)
Disconnect(conn) ==
    /\ connections[conn].state = "open" /\ Active(connections[conn].member)
    /\ connections' = [connections EXCEPT ![conn].state = "revoked"]
    /\ UNCHANGED <<codes, tokenCalls, minted, made, rotated, raced>>

(* A code runs out. *)
LapseCode(code) ==
    /\ codes[code].state = "live" /\ ~codes[code].lapsed
    /\ codes' = [codes EXCEPT ![code].lapsed = TRUE]
    /\ UNCHANGED <<connections, tokenCalls, minted, made, rotated, raced>>

OauthInit ==
    /\ codes = [c \in Codes |-> NoCode]
    /\ connections = [c \in Connections |-> NoConnection]
    /\ tokenCalls = [t \in TokenCalls |-> NoTokenCall]
    /\ minted = 0
    /\ made = [c \in Codes |-> 0]
    /\ rotated = [p \in Pairs |-> 0]
    /\ raced = FALSE

OauthNext ==
    \/ \E code \in Codes : \/ \E p \in People : Authorize(p, code)
                           \/ \E t \in TokenCalls : BeginExchange(t, code)
                           \/ LapseCode(code)
    \/ \E t \in TokenCalls : \/ Verified(t) \/ ExchangeRefused(t)
                             \/ FinishRefresh(t) \/ RefreshRefused(t)
                             \/ \E conn \in Connections : FinishExchange(t, conn)
    \/ \E conn \in Connections : \/ Disconnect(conn)
                                 \/ \E pair \in 1 .. minted :
                                       \/ Replay(conn, pair) \/ RevokeToken(conn, pair)
                                       \/ \E t \in TokenCalls : BeginRefresh(t, conn, pair)

-----------------------------------------------------------------------------
(* Properties. *)

OauthTypeOK ==
    /\ \A c \in Codes : codes[c].state \in {"none", "live", "spent", "swept"}
    /\ \A c \in Connections : /\ connections[c].state \in {"none", "open", "revoked"}
                              /\ connections[c].current \in 0 .. minted
                              /\ connections[c].previous \in 0 .. minted
    /\ \A t \in TokenCalls : tokenCalls[t].pc \in {"idle", "verifying", "exchanging", "refreshing"}
    /\ minted \in 0 .. MaxPairs

(* A code makes one connection however many redeem it (consumeOauthCode),   *)
(* no token is honoured by two connections, and a refresh token that was    *)
(* rotated away buys nothing more, except where two refreshes of it waited  *)
(* for their hashes at the same time.                                       *)
SpentOnce ==
    /\ OauthTypeOK
    /\ \A c \in Codes : made[c] <= 1
    /\ \A c, d \in Connections : \A pair \in Pairs : Honoured(c, pair) /\ Honoured(d, pair) => c = d
    /\ raced \/ \A pair \in Pairs : rotated[pair] <= 1

(* A replay, a revocation or a disconnection is final too: no exchange or   *)
(* refresh that was waiting brings the connection back, renews its pair, or *)
(* gives it to somebody else.                                               *)
ConnectionsStand ==
    /\ []SpentOnce
    /\ [][\A c \in Connections :
             /\ connections[c].state = "revoked" => connections'[c] = connections[c]
             /\ connections[c].state = "open" => connections'[c].member = connections[c].member
          ]_oauthVars
=============================================================================
