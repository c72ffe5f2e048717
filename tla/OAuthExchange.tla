---------------------------- MODULE OAuthExchange ----------------------------
(***************************************************************************)
(* The OAuth endpoints of the HTTP server (internal/httpserver/oauth.go)   *)
(* and the authorization-code exchange they drive (internal/mcpauth), over *)
(* the resolver of AuthServiceCache.                                       *)
(*                                                                         *)
(* GET /start makes an authorization: it stores the PKCE verifier under a  *)
(* fresh nonce in the pending map of the Service and redirects the browser *)
(* with a signed state.  GET /callback pops the entry, exchanges the code, *)
(* stores the token row and starts the goroutine that resumes the thread.  *)
(* The browser may call back any number of times with a state it was once  *)
(* given, also after the process was restarted.                            *)
(*                                                                         *)
(* Nonces are random, so an authorization is identified with the start     *)
(* request that made it.                                                   *)
(***************************************************************************)
EXTENDS AuthServiceCache

CONSTANT User   \* <<Slack team, Slack user>> pairs

VARIABLES phase,    \* where each handler is
          user,     \* start: team_id and user_id of the query
          nonce,    \* callback: the authorization named by its state
          pending,  \* pendingAuth of each Service: nonces with a verifier
          tokens,   \* mcp_oauth_tokens: the authorization of each row, or None
          resumed   \* callbacks that started the resume goroutine

oauthVars == <<phase, user, nonce, pending, tokens, resumed>>
vars == <<cacheVars, oauthVars>>

StartPhase == {"start", "refused", "orphaned", "redirected"}
CallbackPhase == {"callback", "denied", "unknown", "exchanging", "failed", "stored", "done"}

\* A callback in one of these phases has popped the pending entry.
Redeemed == {"exchanging", "failed", "stored", "done"}

TypeOK ==
  /\ CacheTypeOK
  /\ phase \in [Request -> {"none"} \cup StartPhase \cup CallbackPhase]
  /\ user \in [Request -> User \cup {None}]
  /\ nonce \in [Request -> Request \cup {None}]
  /\ pending \in [Request -> SUBSET Request]
  /\ tokens \in [User \X Server -> Request \cup {None}]
  /\ resumed \subseteq Request

Init ==
  /\ CacheInit
  /\ phase = [r \in Request |-> "none"]
  /\ user = [r \in Request |-> None]
  /\ nonce = [r \in Request |-> None]
  /\ pending = [r \in Request |-> {}]
  /\ tokens = [k \in User \X Server |-> None]
  /\ resumed = {}

\* The handler of r, its service resolved, goes from one phase to another.
Proceed(r, from, to) ==
  /\ at[r] = "found"
  /\ phase[r] = from
  /\ phase' = [phase EXCEPT ![r] = to]
  /\ UNCHANGED cacheVars

-----------------------------------------------------------------------------
(* GET /slacker/v1/oauth/{mcp_server}/start                                *)

OAuthStart(r, s, u) ==
  /\ Ask(r, s)
  /\ phase' = [phase EXCEPT ![r] = "start"]
  /\ user' = [user EXCEPT ![r] = u]
  /\ UNCHANGED <<nonce, pending, tokens, resumed>>

\* A missing parameter, or AuthorizeURL failing in discovery, registration
\* or signing, before the pending entry exists.
AuthorizeURLFails(r) ==
  /\ Proceed(r, "start", "refused")
  /\ UNCHANGED <<user, nonce, pending, tokens, resumed>>

PutPending(r) == pending' = [pending EXCEPT ![svc[r]] = @ \cup {r}]

\* AuthorizeURL succeeds: the verifier is stored, the browser redirected.
AuthorizeURL(r) ==
  /\ Proceed(r, "start", "redirected")
  /\ PutPending(r)
  /\ UNCHANGED <<user, nonce, tokens, resumed>>

\* The authorization endpoint cannot be parsed once the entry is stored: the
\* entry stays, the browser gets an error and no state.
AuthorizeURLOrphaned(r) ==
  /\ Proceed(r, "start", "orphaned")
  /\ PutPending(r)
  /\ UNCHANGED <<user, nonce, tokens, resumed>>

-----------------------------------------------------------------------------
(* GET /slacker/v1/oauth/{mcp_server}/callback                             *)

\* The provider sends the browser to the redirect URI of the authorization n.
OAuthCallback(c, n) ==
  /\ phase[n] = "redirected"
  /\ Ask(c, name[n])
  /\ phase' = [phase EXCEPT ![c] = "callback"]
  /\ nonce' = [nonce EXCEPT ![c] = n]
  /\ UNCHANGED <<user, pending, tokens, resumed>>

\* The provider reports an error, or code or state is missing.
ProviderError(c) ==
  /\ Proceed(c, "callback", "denied")
  /\ UNCHANGED <<user, nonce, pending, tokens, resumed>>

\* Fault variant: the entry is read and not deleted.
PeekPending(c) ==
  /\ Proceed(c, "callback", "exchanging")
  /\ nonce[c] \in pending[svc[c]]
  /\ UNCHANGED <<user, nonce, pending, tokens, resumed>>

\* ExchangeCallback takes the pending entry out of the map.
PopPending(c) ==
  /\ Proceed(c, "callback", "exchanging")
  /\ nonce[c] \in pending[svc[c]]
  /\ pending' = [pending EXCEPT ![svc[c]] = @ \ {nonce[c]}]
  /\ UNCHANGED <<user, nonce, tokens, resumed>>

\* "authorization state was not found or expired".
PendingNotFound(c) ==
  /\ Proceed(c, "callback", "unknown")
  /\ nonce[c] \notin pending[svc[c]]
  /\ UNCHANGED <<user, nonce, pending, tokens, resumed>>

\* Discovery, the token endpoint, encryption or the database fails.
ExchangeFails(c) ==
  /\ Proceed(c, "exchanging", "failed")
  /\ UNCHANGED <<user, nonce, pending, tokens, resumed>>

\* The row is keyed by the identity in the signed state.
TokenKey(n) == <<user[n], name[n]>>

\* Fault variant: an error of PutDelegatedOAuthToken is ignored.
TokenNotStored(c) ==
  /\ Proceed(c, "exchanging", "stored")
  /\ UNCHANGED <<user, nonce, pending, tokens, resumed>>

\* PutDelegatedOAuthToken upserts the row.
StoreToken(c) ==
  /\ Proceed(c, "exchanging", "stored")
  /\ tokens' = [tokens EXCEPT ![TokenKey(nonce[c])] = nonce[c]]
  /\ UNCHANGED <<user, nonce, pending, resumed>>

\* The handler starts the resume goroutine and answers the browser.
Respond(c) ==
  /\ Proceed(c, "stored", "done")
  /\ resumed' = resumed \cup {c}
  /\ UNCHANGED <<user, nonce, pending, tokens>>

-----------------------------------------------------------------------------
HandlerStep(r) ==
  \/ AuthorizeURLFails(r) \/ AuthorizeURL(r) \/ AuthorizeURLOrphaned(r)
  \/ ProviderError(r) \/ PopPending(r) \/ PendingNotFound(r)
  \/ ExchangeFails(r) \/ StoreToken(r) \/ Respond(r)

Crash ==
  /\ Restart
  /\ pending' = [r \in Request |-> {}]
  /\ UNCHANGED <<phase, user, nonce, tokens, resumed>>

ConfigStep ==
  /\ \/ \E s \in Server, c \in Config : UpsertMCPServer(s, c)
     \/ \E s \in Server : DeleteMCPServer(s)
  /\ UNCHANGED oauthVars

Next ==
  \/ \E r \in Request, s \in Server, u \in User : OAuthStart(r, s, u)
  \/ \E c, n \in Request : OAuthCallback(c, n)
  \/ \E r \in Request : LookupStep(r) /\ UNCHANGED oauthVars
  \/ \E r \in Request : HandlerStep(r)
  \/ ConfigStep
  \/ Crash

Spec == Init /\ [][Next]_vars

-----------------------------------------------------------------------------
(* Properties.                                                             *)

\* A pending entry, and with it the authorization code and the PKCE verifier,
\* is redeemed by at most one callback, however the callbacks of a reloaded
\* page and the restarts interleave.
RedeemedAtMostOnce ==
  \A c, d \in Request :
    phase[c] \in Redeemed /\ phase[d] \in Redeemed /\ nonce[c] = nonce[d] => c = d

\* No callback has redeemed the authorization n.
Unredeemed(n) == \A c \in Request : nonce[c] = n => phase[c] \notin Redeemed

\* A state this process handed out and nobody redeemed is found by whichever
\* callback brings it back first: the map it was put into is the map of the
\* Service every later lookup of the name returns.
FreshStateIsRedeemable ==
  \A n \in Request :
    /\ at[n] = "found"
    /\ phase[n] = "redirected"
    /\ Unredeemed(n)
    => n \in pending[cache[name[n]]]

\* The conversation is resumed only when the database holds a token for the
\* user and server of the authorization: the resumed run reads it.
ResumedHasToken ==
  \A c \in resumed : tokens[TokenKey(nonce[c])] # None

\* Inductive strengthening: which handlers exist, what a pending entry and an
\* unredeemed state know of each other, what follows a stored token.
HandlerInv ==
  \A r \in Request :
    /\ at[r] = "idle" <=> phase[r] = "none"
    /\ phase[r] \notin {"none", "start", "callback"} => at[r] \in {"found", "gone"}
    /\ phase[r] \in StartPhase => user[r] \in User
    /\ phase[r] \in CallbackPhase <=> nonce[r] # None
    /\ nonce[r] # None => phase[nonce[r]] = "redirected"

PendingInv ==
  \A i, n \in Request : n \in pending[i] =>
    /\ at[n] = "found" /\ svc[n] = i
    /\ phase[n] \in {"redirected", "orphaned"}
    /\ Unredeemed(n)

FreshInv ==
  \A n \in Request :
    at[n] = "found" /\ phase[n] = "redirected" /\ Unredeemed(n) => n \in pending[svc[n]]

StoredInv ==
  /\ \A c \in Request : phase[c] \in {"stored", "done"} => tokens[TokenKey(nonce[c])] # None
  /\ \A c \in resumed : phase[c] = "done"

IInv ==
  /\ TypeOK /\ OneServicePerName
  /\ HandlerInv /\ PendingInv /\ FreshInv /\ StoredInv
  /\ RedeemedAtMostOnce

\* The status of an authorization, read off the handlers and the maps.
Connected(n) ==
  \E c \in Request : nonce[c] = n /\ phase[c] \in {"stored", "done"}

BeingRedeemed(n) ==
  \E c \in Request : nonce[c] = n /\ phase[c] = "exchanging" /\ at[c] = "found"

StatusOf(n) ==
  IF phase[n] \notin {"redirected", "orphaned"} THEN "none"
  ELSE IF Connected(n) THEN "connected"
  ELSE IF BeingRedeemed(n) THEN "redeemed"
  ELSE IF Unredeemed(n) /\ at[n] = "found" THEN "issued"
  ELSE "spent"

\* The endpoints implement one-shot authorizations.
Authorization == INSTANCE OneShotAuthorization
                   WITH Nonce <- Request, status <- [n \in Request |-> StatusOf(n)]
OneShot == Authorization!Spec
==============================================================================
