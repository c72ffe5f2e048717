-------------------------- MODULE OAuthExchangeProofs -------------------------
(***************************************************************************)
(* Proofs about the resolver of MCP auth services (its types, one Service  *)
(* per name and process, get-or-create) and, from them, about the OAuth    *)
(* endpoints: types, one redemption per authorization, no fresh state      *)
(* turned away, no resume without a token.                                 *)
(***************************************************************************)
EXTENDS OAuthExchange, TLAPS


(* Types are preserved by each step of a lookup and by the process's own   *)
(* steps.                                                                  *)
LEMMA CacheTypeStep == CacheTypeOK /\ [CacheNext]_cacheVars => CacheTypeOK'
<1> SUFFICES ASSUME CacheTypeOK, [CacheNext]_cacheVars
             PROVE  CacheTypeOK'
  OBVIOUS
<1> USE NoneAssumption DEF CacheTypeOK, Position, MoveTo
<1>1. ASSUME NEW r \in Request, NEW s \in Server, Ask(r, s)
      PROVE  CacheTypeOK'
  BY <1>1 DEF Ask
<1>2. ASSUME NEW r \in Request, CacheHit(r)
      PROVE  CacheTypeOK'
  BY <1>2 DEF CacheHit
<1>3. ASSUME NEW r \in Request, CacheMiss(r)
      PROVE  CacheTypeOK'
  BY <1>3 DEF CacheMiss
<1>4. ASSUME NEW r \in Request, Build(r)
      PROVE  CacheTypeOK'
  BY <1>4 DEF Build
<1>5. ASSUME NEW r \in Request, BuildFindsNoRow(r)
      PROVE  CacheTypeOK'
  BY <1>5 DEF BuildFindsNoRow
<1>6. ASSUME NEW r \in Request, BuildFails(r)
      PROVE  CacheTypeOK'
  BY <1>6 DEF BuildFails
<1>7. ASSUME NEW r \in Request, Publish(r)
      PROVE  CacheTypeOK'
  BY <1>7 DEF Publish
<1>8. ASSUME NEW s \in Server, NEW c \in Config, UpsertMCPServer(s, c)
      PROVE  CacheTypeOK'
  BY <1>8 DEF UpsertMCPServer
<1>9. ASSUME NEW s \in Server, DeleteMCPServer(s)
      PROVE  CacheTypeOK'
  BY <1>9 DEF DeleteMCPServer
<1>10. CASE Restart
  BY <1>10 DEF Restart
<1>11. CASE UNCHANGED cacheVars
  BY <1>11 DEF cacheVars
<1>12. QED
  BY <1>1, <1>2, <1>3, <1>4, <1>5, <1>6, <1>7, <1>8, <1>9, <1>10, <1>11
     DEF CacheNext, LookupStep

(* The initial state is well typed.                                        *)
LEMMA CacheTypeInit == CacheInit => CacheTypeOK
  BY NoneAssumption DEF CacheInit, CacheTypeOK, Position

(* CacheTypeOK is an invariant of the resolver.                            *)
THEOREM CacheTypeCorrect == CacheSpec => []CacheTypeOK
  BY CacheTypeInit, CacheTypeStep, PTL DEF CacheSpec

-----------------------------------------------------------------------------
(* Within one process a published service is never replaced: only Restart  *)
(* changes a cache entry that is not empty.  (main.go's second look under  *)
(* the write lock.)                                                        *)
LEMMA PublishedStays ==
  ASSUME CacheTypeOK, [CacheNext]_cacheVars, ~Restart,
         NEW s \in Server, cache[s] # None
  PROVE  cache'[s] = cache[s]
<1>1. ASSUME NEW r \in Request, Publish(r)
      PROVE  cache'[s] = cache[s]
  BY <1>1 DEF Publish, CacheTypeOK
<1>2. (\E r \in Request : Publish(r)) \/ UNCHANGED cache
  BY DEF CacheNext, LookupStep, cacheVars, Ask, CacheHit, CacheMiss, Build,
         BuildFindsNoRow, BuildFails, UpsertMCPServer, DeleteMCPServer
<1>3. QED
  BY <1>1, <1>2

(* A request that is still answered keeps its answer and its name.         *)
LEMMA AnswerStays ==
  ASSUME CacheTypeOK, [CacheNext]_cacheVars,
         NEW r \in Request, at[r] = "found", at'[r] = "found"
  PROVE  svc'[r] = svc[r] /\ name'[r] = name[r] /\ ~Restart
<1> USE DEF CacheTypeOK, MoveTo
<1>1. ~Restart
  BY DEF Restart
<1>2. ASSUME NEW q \in Request, LookupStep(q)
      PROVE  svc'[r] = svc[r] /\ name'[r] = name[r]
  BY <1>2 DEF LookupStep, CacheHit, CacheMiss, Build, BuildFindsNoRow, BuildFails, Publish
<1>3. ASSUME NEW q \in Request, NEW s \in Server, Ask(q, s)
      PROVE  svc'[r] = svc[r] /\ name'[r] = name[r]
  BY <1>3 DEF Ask
<1>4. QED
  BY <1>1, <1>2, <1>3 DEF CacheNext, cacheVars, UpsertMCPServer, DeleteMCPServer

(* A request is answered with the service that is in the cache afterwards. *)
LEMMA NewAnswerIsCached ==
  ASSUME CacheTypeOK, [CacheNext]_cacheVars,
         NEW r \in Request, at[r] # "found", at'[r] = "found"
  PROVE  svc'[r] = cache'[name'[r]]
<1> USE DEF CacheTypeOK, MoveTo
<1>1. CacheHit(r) \/ Publish(r)
  BY DEF CacheNext, LookupStep, cacheVars, Ask, CacheHit, CacheMiss, Build, Publish,
         BuildFindsNoRow, BuildFails, UpsertMCPServer, DeleteMCPServer, Restart
<1>2. QED
  BY <1>1 DEF CacheHit, Publish

(* OneServicePerName is inductive relative to the types.                   *)
LEMMA OneServiceStep ==
  CacheTypeOK /\ OneServicePerName /\ [CacheNext]_cacheVars => OneServicePerName'
<1> SUFFICES ASSUME CacheTypeOK, OneServicePerName, [CacheNext]_cacheVars,
                    NEW r \in Request, at'[r] = "found"
             PROVE  svc'[r] = cache'[name'[r]]
  BY DEF OneServicePerName
<1>1. CASE at[r] # "found"
  BY <1>1, NewAnswerIsCached
<1>2. CASE at[r] = "found"
  <2>1. svc'[r] = svc[r] /\ name'[r] = name[r] /\ ~Restart
    BY <1>2, AnswerStays
  <2>2. name[r] \in Server /\ svc[r] = cache[name[r]] /\ cache[name[r]] # None
    BY <1>2 DEF OneServicePerName, CacheTypeOK
  <2>3. QED
    BY <2>1, <2>2, PublishedStays
<1>3. QED
  BY <1>1, <1>2

(* OneServicePerName for any number of servers, configurations, requests   *)
(* and restarts.                                                           *)
THEOREM OneServiceCorrect == CacheSpec => []OneServicePerName
<1>1. CacheInit => OneServicePerName
  BY DEF CacheInit, OneServicePerName
<1>2. QED
  BY <1>1, OneServiceStep, CacheTypeCorrect, PTL DEF CacheSpec

-----------------------------------------------------------------------------
(* The resolver implements get-or-create: a hit and a lost race are Get,   *)
(* the publication that wins is Create, a restart is Forget, the rest      *)
(* stutters.                                                               *)
THEOREM ResolverRefinesRegistry == CacheSpec => GetOrCreate
<1>1. CacheInit => Registry!Init
  BY DEF CacheInit, Registry!Init
<1>2. CacheTypeOK /\ [CacheNext]_cacheVars => [Registry!Next]_(Registry!regVars)
  <2> SUFFICES ASSUME CacheTypeOK, [CacheNext]_cacheVars
               PROVE  [Registry!Next]_(Registry!regVars)
    OBVIOUS
  <2> USE DEF CacheTypeOK, MoveTo
  <2>1. ASSUME NEW r \in Request, CacheHit(r)
        PROVE  Registry!Get(r, name[r]) /\ name[r] \in Server
    BY <2>1 DEF CacheHit, Registry!Get
  <2>2. ASSUME NEW r \in Request, Publish(r)
        PROVE  name[r] \in Server /\ (Registry!Get(r, name[r]) \/ Registry!Create(r, name[r]))
    BY <2>2, NoneAssumption DEF Publish, Registry!Get, Registry!Create
  <2>3. CASE Restart
    BY <2>3 DEF Restart, Registry!Forget, Registry!Init, Registry!Next
  <2>4. \/ \E r \in Request : CacheHit(r) \/ Publish(r)
        \/ Restart
        \/ UNCHANGED <<cache, svc>>
    BY DEF CacheNext, LookupStep, cacheVars, Ask, CacheMiss, Build,
           BuildFindsNoRow, BuildFails, UpsertMCPServer, DeleteMCPServer
  <2>5. QED
    BY <2>1, <2>2, <2>3, <2>4 DEF Registry!Next, Registry!regVars
<1>3. QED
  BY <1>1, <1>2, CacheTypeCorrect, PTL DEF CacheSpec, GetOrCreate, Registry!Spec

-----------------------------------------------------------------------------
(* The endpoints.                                                          *)


(* Seen from the resolver, a step of the endpoints is a step of the        *)
(* resolver or leaves it alone.                                            *)
LEMMA StepOfCache == TypeOK /\ HandlerInv /\ [Next]_vars => [CacheNext]_cacheVars
<1> SUFFICES ASSUME TypeOK, HandlerInv, Next
             PROVE  CacheNext \/ UNCHANGED cacheVars
  BY DEF vars
<1>1. ASSUME NEW c \in Request, NEW n \in Request, OAuthCallback(c, n)
      PROVE  Ask(c, name[n]) /\ name[n] \in Server
  BY <1>1 DEF OAuthCallback, TypeOK, CacheTypeOK, HandlerInv
<1>2. ASSUME NEW r \in Request, HandlerStep(r)
      PROVE  UNCHANGED cacheVars
  BY <1>2 DEF HandlerStep, Proceed, AuthorizeURLFails, AuthorizeURL, AuthorizeURLOrphaned,
              ProviderError, PopPending, PendingNotFound, ExchangeFails, StoreToken, Respond
<1>3. QED
  BY <1>1, <1>2 DEF Next, CacheNext, OAuthStart, ConfigStep, Crash

(* A step of a lookup concerns one request that is still looking up.       *)
LEMMA LookupEffect ==
  ASSUME CacheTypeOK, NEW r \in Request, LookupStep(r)
  PROVE  /\ at[r] \in {"lookup", "build", "publish"}
         /\ at'[r] \in Position \ {"idle", "gone"}
         /\ \A q \in Request \ {r} : at'[q] = at[q] /\ svc'[q] = svc[q]
         /\ name' = name
  BY DEF LookupStep, CacheHit, CacheMiss, Build, BuildFindsNoRow, BuildFails, Publish,
         CacheTypeOK, MoveTo, Position

(* Types of the variables of the endpoints.                                *)
LEMMA TypeStep ==
  TypeOK /\ HandlerInv /\ [Next]_vars
    => TypeOK'
<1> SUFFICES ASSUME TypeOK, HandlerInv, [Next]_vars
             PROVE  TypeOK'
  OBVIOUS
<1>0. CacheTypeOK'
  BY CacheTypeStep, StepOfCache DEF TypeOK
<1> USE <1>0, NoneAssumption DEF TypeOK, StartPhase, CallbackPhase, HandlerInv
<1>1. ASSUME NEW r \in Request, NEW s \in Server, NEW u \in User, OAuthStart(r, s, u)
      PROVE  TypeOK'
  BY <1>1 DEF OAuthStart, Ask
<1>2. ASSUME NEW c \in Request, NEW n \in Request, OAuthCallback(c, n)
      PROVE  TypeOK'
  BY <1>2 DEF OAuthCallback, Ask
<1>3. ASSUME NEW r \in Request, LookupStep(r), UNCHANGED oauthVars
      PROVE  TypeOK'
  BY <1>3, LookupEffect DEF oauthVars
<1>4. ASSUME NEW r \in Request, AuthorizeURLFails(r)
      PROVE  TypeOK'
  BY <1>4 DEF AuthorizeURLFails, Proceed, cacheVars
<1>5. ASSUME NEW r \in Request, AuthorizeURL(r)
      PROVE  TypeOK'
  BY <1>5 DEF AuthorizeURL, Proceed, cacheVars, PutPending
<1>6. ASSUME NEW r \in Request, AuthorizeURLOrphaned(r)
      PROVE  TypeOK'
  BY <1>6 DEF AuthorizeURLOrphaned, Proceed, cacheVars, PutPending
<1>7. ASSUME NEW r \in Request, ProviderError(r)
      PROVE  TypeOK'
  BY <1>7 DEF ProviderError, Proceed, cacheVars
<1>8. ASSUME NEW r \in Request, PopPending(r)
      PROVE  TypeOK'
  BY <1>8 DEF PopPending, Proceed, cacheVars
<1>9. ASSUME NEW r \in Request, PendingNotFound(r)
      PROVE  TypeOK'
  BY <1>9 DEF PendingNotFound, Proceed, cacheVars
<1>10. ASSUME NEW r \in Request, ExchangeFails(r)
      PROVE  TypeOK'
  BY <1>10 DEF ExchangeFails, Proceed, cacheVars
<1>11. ASSUME NEW r \in Request, StoreToken(r)
      PROVE  TypeOK'
  BY <1>11 DEF StoreToken, Proceed, cacheVars, TokenKey
<1>12. ASSUME NEW r \in Request, Respond(r)
      PROVE  TypeOK'
  BY <1>12 DEF Respond, Proceed, cacheVars
<1>13. CASE ConfigStep
  BY <1>13 DEF ConfigStep, UpsertMCPServer, DeleteMCPServer, oauthVars
<1>14. CASE Crash
  BY <1>14 DEF Crash, Restart
<1>15. CASE UNCHANGED vars
  BY <1>15 DEF vars, cacheVars, oauthVars
<1>16. QED
  BY <1>1, <1>2, <1>3, <1>4, <1>5, <1>6, <1>7, <1>8, <1>9, <1>10, <1>11, <1>12,
     <1>13, <1>14, <1>15
     DEF Next, HandlerStep

(* HandlerInv is inductive relative to the types.                          *)
LEMMA HandlerInvStep ==
  TypeOK /\ HandlerInv /\ [Next]_vars
    => HandlerInv'
<1> SUFFICES ASSUME TypeOK, HandlerInv, [Next]_vars
             PROVE  HandlerInv'
  OBVIOUS
<1> USE NoneAssumption DEF TypeOK, CacheTypeOK, Position, StartPhase, CallbackPhase, Redeemed,
        HandlerInv, MoveTo
<1>1. ASSUME NEW r \in Request, NEW s \in Server, NEW u \in User, OAuthStart(r, s, u)
      PROVE  HandlerInv'
  BY <1>1 DEF OAuthStart, Ask
<1>2. ASSUME NEW c \in Request, NEW n \in Request, OAuthCallback(c, n)
      PROVE  HandlerInv'
  BY <1>2 DEF OAuthCallback, Ask
<1>3. ASSUME NEW r \in Request, LookupStep(r), UNCHANGED oauthVars
      PROVE  HandlerInv'
  BY <1>3, LookupEffect DEF oauthVars
<1>4. ASSUME NEW r \in Request, AuthorizeURLFails(r)
      PROVE  HandlerInv'
  BY <1>4 DEF AuthorizeURLFails, Proceed, cacheVars
<1>5. ASSUME NEW r \in Request, AuthorizeURL(r)
      PROVE  HandlerInv'
  BY <1>5 DEF AuthorizeURL, Proceed, cacheVars, PutPending
<1>6. ASSUME NEW r \in Request, AuthorizeURLOrphaned(r)
      PROVE  HandlerInv'
  BY <1>6 DEF AuthorizeURLOrphaned, Proceed, cacheVars, PutPending
<1>7. ASSUME NEW r \in Request, ProviderError(r)
      PROVE  HandlerInv'
  BY <1>7 DEF ProviderError, Proceed, cacheVars
<1>8. ASSUME NEW r \in Request, PopPending(r)
      PROVE  HandlerInv'
  BY <1>8 DEF PopPending, Proceed, cacheVars
<1>9. ASSUME NEW r \in Request, PendingNotFound(r)
      PROVE  HandlerInv'
  BY <1>9 DEF PendingNotFound, Proceed, cacheVars
<1>10. ASSUME NEW r \in Request, ExchangeFails(r)
      PROVE  HandlerInv'
  BY <1>10 DEF ExchangeFails, Proceed, cacheVars
<1>11. ASSUME NEW r \in Request, StoreToken(r)
      PROVE  HandlerInv'
  BY <1>11 DEF StoreToken, Proceed, cacheVars, TokenKey
<1>12. ASSUME NEW r \in Request, Respond(r)
      PROVE  HandlerInv'
  BY <1>12 DEF Respond, Proceed, cacheVars
<1>13. CASE ConfigStep
  BY <1>13 DEF ConfigStep, UpsertMCPServer, DeleteMCPServer, oauthVars
<1>14. CASE Crash
  BY <1>14 DEF Crash, Restart
<1>15. CASE UNCHANGED vars
  BY <1>15 DEF vars, cacheVars, oauthVars
<1>16. QED
  BY <1>1, <1>2, <1>3, <1>4, <1>5, <1>6, <1>7, <1>8, <1>9, <1>10, <1>11, <1>12,
     <1>13, <1>14, <1>15
     DEF Next, HandlerStep

(* A pending entry is put by its start into the map of the service of that *)
(* start, and taken out by the callback that redeems it.                   *)
LEMMA PendingInvStep ==
  TypeOK /\ HandlerInv /\ PendingInv /\ [Next]_vars
    => PendingInv'
<1> SUFFICES ASSUME TypeOK, HandlerInv, PendingInv, [Next]_vars
             PROVE  PendingInv'
  OBVIOUS
<1> USE NoneAssumption DEF TypeOK, CacheTypeOK, Position, StartPhase, CallbackPhase, Redeemed,
        HandlerInv, MoveTo, PendingInv, Unredeemed
<1>1. ASSUME NEW r \in Request, NEW s \in Server, NEW u \in User, OAuthStart(r, s, u)
      PROVE  PendingInv'
  BY <1>1 DEF OAuthStart, Ask
<1>2. ASSUME NEW c \in Request, NEW n \in Request, OAuthCallback(c, n)
      PROVE  PendingInv'
  BY <1>2 DEF OAuthCallback, Ask
<1>3. ASSUME NEW r \in Request, LookupStep(r), UNCHANGED oauthVars
      PROVE  PendingInv'
  BY <1>3, LookupEffect DEF oauthVars
<1>4. ASSUME NEW r \in Request, AuthorizeURLFails(r)
      PROVE  PendingInv'
  BY <1>4 DEF AuthorizeURLFails, Proceed, cacheVars
<1>5. ASSUME NEW r \in Request, AuthorizeURL(r)
      PROVE  PendingInv'
  BY <1>5 DEF AuthorizeURL, Proceed, cacheVars, PutPending
<1>6. ASSUME NEW r \in Request, AuthorizeURLOrphaned(r)
      PROVE  PendingInv'
  BY <1>6 DEF AuthorizeURLOrphaned, Proceed, cacheVars, PutPending
<1>7. ASSUME NEW r \in Request, ProviderError(r)
      PROVE  PendingInv'
  BY <1>7 DEF ProviderError, Proceed, cacheVars
<1>8. ASSUME NEW r \in Request, PopPending(r)
      PROVE  PendingInv'
  BY <1>8 DEF PopPending, Proceed, cacheVars
<1>9. ASSUME NEW r \in Request, PendingNotFound(r)
      PROVE  PendingInv'
  BY <1>9 DEF PendingNotFound, Proceed, cacheVars
<1>10. ASSUME NEW r \in Request, ExchangeFails(r)
      PROVE  PendingInv'
  BY <1>10 DEF ExchangeFails, Proceed, cacheVars
<1>11. ASSUME NEW r \in Request, StoreToken(r)
      PROVE  PendingInv'
  BY <1>11 DEF StoreToken, Proceed, cacheVars, TokenKey
<1>12. ASSUME NEW r \in Request, Respond(r)
      PROVE  PendingInv'
  BY <1>12 DEF Respond, Proceed, cacheVars
<1>13. CASE ConfigStep
  BY <1>13 DEF ConfigStep, UpsertMCPServer, DeleteMCPServer, oauthVars
<1>14. CASE Crash
  BY <1>14 DEF Crash, Restart
<1>15. CASE UNCHANGED vars
  BY <1>15 DEF vars, cacheVars, oauthVars
<1>16. QED
  BY <1>1, <1>2, <1>3, <1>4, <1>5, <1>6, <1>7, <1>8, <1>9, <1>10, <1>11, <1>12,
     <1>13, <1>14, <1>15
     DEF Next, HandlerStep

(* An entry leaves the map only when it is redeemed or the process ends.   *)
LEMMA FreshInvStep ==
  TypeOK /\ HandlerInv /\ FreshInv /\ [Next]_vars
    => FreshInv'
<1> SUFFICES ASSUME TypeOK, HandlerInv, FreshInv, [Next]_vars
             PROVE  FreshInv'
  OBVIOUS
<1> USE NoneAssumption DEF TypeOK, CacheTypeOK, Position, StartPhase, CallbackPhase, Redeemed,
        HandlerInv, MoveTo, FreshInv, Unredeemed
<1>1. ASSUME NEW r \in Request, NEW s \in Server, NEW u \in User, OAuthStart(r, s, u)
      PROVE  FreshInv'
  <2>1. /\ phase[r] = "none" /\ phase' = [phase EXCEPT ![r] = "start"]
        /\ at[r] = "idle" /\ at' = [at EXCEPT ![r] = "lookup"]
        /\ UNCHANGED <<nonce, svc, pending>>
    BY <1>1 DEF OAuthStart, Ask
  <2>2. \A m \in Request : Unredeemed(m)' => Unredeemed(m)
    BY <2>1
  <2>3. QED
    BY <2>1, <2>2
<1>2. ASSUME NEW c \in Request, NEW n \in Request, OAuthCallback(c, n)
      PROVE  FreshInv'
  <2>1. /\ phase[c] = "none" /\ phase' = [phase EXCEPT ![c] = "callback"]
        /\ at[c] = "idle" /\ at' = [at EXCEPT ![c] = "lookup"]
        /\ nonce' = [nonce EXCEPT ![c] = n]
        /\ UNCHANGED <<svc, pending>>
    BY <1>2 DEF OAuthCallback, Ask
  <2>2. \A m \in Request : Unredeemed(m)' => Unredeemed(m)
    BY <2>1
  <2>3. QED
    BY <2>1, <2>2
<1>3. ASSUME NEW r \in Request, LookupStep(r), UNCHANGED oauthVars
      PROVE  FreshInv'
  BY <1>3, LookupEffect DEF oauthVars
<1>4. ASSUME NEW r \in Request, AuthorizeURLFails(r)
      PROVE  FreshInv'
  BY <1>4 DEF AuthorizeURLFails, Proceed, cacheVars
<1>5. ASSUME NEW r \in Request, AuthorizeURL(r)
      PROVE  FreshInv'
  BY <1>5 DEF AuthorizeURL, Proceed, cacheVars, PutPending
<1>6. ASSUME NEW r \in Request, AuthorizeURLOrphaned(r)
      PROVE  FreshInv'
  BY <1>6 DEF AuthorizeURLOrphaned, Proceed, cacheVars, PutPending
<1>7. ASSUME NEW r \in Request, ProviderError(r)
      PROVE  FreshInv'
  BY <1>7 DEF ProviderError, Proceed, cacheVars
<1>8. ASSUME NEW r \in Request, PopPending(r)
      PROVE  FreshInv'
  BY <1>8 DEF PopPending, Proceed, cacheVars
<1>9. ASSUME NEW r \in Request, PendingNotFound(r)
      PROVE  FreshInv'
  BY <1>9 DEF PendingNotFound, Proceed, cacheVars
<1>10. ASSUME NEW r \in Request, ExchangeFails(r)
      PROVE  FreshInv'
  BY <1>10 DEF ExchangeFails, Proceed, cacheVars
<1>11. ASSUME NEW r \in Request, StoreToken(r)
      PROVE  FreshInv'
  BY <1>11 DEF StoreToken, Proceed, cacheVars, TokenKey
<1>12. ASSUME NEW r \in Request, Respond(r)
      PROVE  FreshInv'
  BY <1>12 DEF Respond, Proceed, cacheVars
<1>13. CASE ConfigStep
  BY <1>13 DEF ConfigStep, UpsertMCPServer, DeleteMCPServer, oauthVars
<1>14. CASE Crash
  BY <1>14 DEF Crash, Restart
<1>15. CASE UNCHANGED vars
  BY <1>15 DEF vars, cacheVars, oauthVars
<1>16. QED
  BY <1>1, <1>2, <1>3, <1>4, <1>5, <1>6, <1>7, <1>8, <1>9, <1>10, <1>11, <1>12,
     <1>13, <1>14, <1>15
     DEF Next, HandlerStep

(* The second callback of an authorization does not find the entry.        *)
LEMMA RedeemedStep ==
  TypeOK /\ HandlerInv /\ PendingInv /\ RedeemedAtMostOnce /\ [Next]_vars
    => RedeemedAtMostOnce'
<1> SUFFICES ASSUME TypeOK, HandlerInv, PendingInv, RedeemedAtMostOnce, [Next]_vars
             PROVE  RedeemedAtMostOnce'
  OBVIOUS
<1> USE NoneAssumption DEF TypeOK, CacheTypeOK, Position, StartPhase, CallbackPhase, Redeemed,
        HandlerInv, MoveTo, PendingInv, Unredeemed, RedeemedAtMostOnce
<1>1. ASSUME NEW r \in Request, NEW s \in Server, NEW u \in User, OAuthStart(r, s, u)
      PROVE  RedeemedAtMostOnce'
  BY <1>1 DEF OAuthStart, Ask
<1>2. ASSUME NEW c \in Request, NEW n \in Request, OAuthCallback(c, n)
      PROVE  RedeemedAtMostOnce'
  BY <1>2 DEF OAuthCallback, Ask
<1>3. ASSUME NEW r \in Request, LookupStep(r), UNCHANGED oauthVars
      PROVE  RedeemedAtMostOnce'
  BY <1>3, LookupEffect DEF oauthVars
<1>4. ASSUME NEW r \in Request, AuthorizeURLFails(r)
      PROVE  RedeemedAtMostOnce'
  BY <1>4 DEF AuthorizeURLFails, Proceed, cacheVars
<1>5. ASSUME NEW r \in Request, AuthorizeURL(r)
      PROVE  RedeemedAtMostOnce'
  BY <1>5 DEF AuthorizeURL, Proceed, cacheVars, PutPending
<1>6. ASSUME NEW r \in Request, AuthorizeURLOrphaned(r)
      PROVE  RedeemedAtMostOnce'
  BY <1>6 DEF AuthorizeURLOrphaned, Proceed, cacheVars, PutPending
<1>7. ASSUME NEW r \in Request, ProviderError(r)
      PROVE  RedeemedAtMostOnce'
  BY <1>7 DEF ProviderError, Proceed, cacheVars
<1>8. ASSUME NEW r \in Request, PopPending(r)
      PROVE  RedeemedAtMostOnce'
  BY <1>8 DEF PopPending, Proceed, cacheVars
<1>9. ASSUME NEW r \in Request, PendingNotFound(r)
      PROVE  RedeemedAtMostOnce'
  BY <1>9 DEF PendingNotFound, Proceed, cacheVars
<1>10. ASSUME NEW r \in Request, ExchangeFails(r)
      PROVE  RedeemedAtMostOnce'
  BY <1>10 DEF ExchangeFails, Proceed, cacheVars
<1>11. ASSUME NEW r \in Request, StoreToken(r)
      PROVE  RedeemedAtMostOnce'
  BY <1>11 DEF StoreToken, Proceed, cacheVars, TokenKey
<1>12. ASSUME NEW r \in Request, Respond(r)
      PROVE  RedeemedAtMostOnce'
  BY <1>12 DEF Respond, Proceed, cacheVars
<1>13. CASE ConfigStep
  BY <1>13 DEF ConfigStep, UpsertMCPServer, DeleteMCPServer, oauthVars
<1>14. CASE Crash
  BY <1>14 DEF Crash, Restart
<1>15. CASE UNCHANGED vars
  BY <1>15 DEF vars, cacheVars, oauthVars
<1>16. QED
  BY <1>1, <1>2, <1>3, <1>4, <1>5, <1>6, <1>7, <1>8, <1>9, <1>10, <1>11, <1>12,
     <1>13, <1>14, <1>15
     DEF Next, HandlerStep

(* A token row, once written, stays (it may be overwritten by a later      *)
(* authorization of the same user and server).                             *)
LEMMA StoredInvStep ==
  TypeOK /\ HandlerInv /\ StoredInv /\ [Next]_vars
    => StoredInv'
<1> SUFFICES ASSUME TypeOK, HandlerInv, StoredInv, [Next]_vars
             PROVE  StoredInv'
  OBVIOUS
<1> USE NoneAssumption DEF TypeOK, CacheTypeOK, Position, StartPhase, CallbackPhase, Redeemed,
        HandlerInv, MoveTo, StoredInv, TokenKey
<1>1. ASSUME NEW r \in Request, NEW s \in Server, NEW u \in User, OAuthStart(r, s, u)
      PROVE  StoredInv'
  BY <1>1 DEF OAuthStart, Ask
<1>2. ASSUME NEW c \in Request, NEW n \in Request, OAuthCallback(c, n)
      PROVE  StoredInv'
  BY <1>2 DEF OAuthCallback, Ask
<1>3. ASSUME NEW r \in Request, LookupStep(r), UNCHANGED oauthVars
      PROVE  StoredInv'
  BY <1>3, LookupEffect DEF oauthVars
<1>4. ASSUME NEW r \in Request, AuthorizeURLFails(r)
      PROVE  StoredInv'
  BY <1>4 DEF AuthorizeURLFails, Proceed, cacheVars
<1>5. ASSUME NEW r \in Request, AuthorizeURL(r)
      PROVE  StoredInv'
  BY <1>5 DEF AuthorizeURL, Proceed, cacheVars, PutPending
<1>6. ASSUME NEW r \in Request, AuthorizeURLOrphaned(r)
      PROVE  StoredInv'
  BY <1>6 DEF AuthorizeURLOrphaned, Proceed, cacheVars, PutPending
<1>7. ASSUME NEW r \in Request, ProviderError(r)
      PROVE  StoredInv'
  BY <1>7 DEF ProviderError, Proceed, cacheVars
<1>8. ASSUME NEW r \in Request, PopPending(r)
      PROVE  StoredInv'
  BY <1>8 DEF PopPending, Proceed, cacheVars
<1>9. ASSUME NEW r \in Request, PendingNotFound(r)
      PROVE  StoredInv'
  BY <1>9 DEF PendingNotFound, Proceed, cacheVars
<1>10. ASSUME NEW r \in Request, ExchangeFails(r)
      PROVE  StoredInv'
  BY <1>10 DEF ExchangeFails, Proceed, cacheVars
<1>11. ASSUME NEW r \in Request, StoreToken(r)
      PROVE  StoredInv'
  BY <1>11 DEF StoreToken, Proceed, cacheVars, TokenKey
<1>12. ASSUME NEW r \in Request, Respond(r)
      PROVE  StoredInv'
  BY <1>12 DEF Respond, Proceed, cacheVars
<1>13. CASE ConfigStep
  BY <1>13 DEF ConfigStep, UpsertMCPServer, DeleteMCPServer, oauthVars
<1>14. CASE Crash
  BY <1>14 DEF Crash, Restart
<1>15. CASE UNCHANGED vars
  BY <1>15 DEF vars, cacheVars, oauthVars
<1>16. QED
  BY <1>1, <1>2, <1>3, <1>4, <1>5, <1>6, <1>7, <1>8, <1>9, <1>10, <1>11, <1>12,
     <1>13, <1>14, <1>15
     DEF Next, HandlerStep

-----------------------------------------------------------------------------
(* The inductive invariant holds in every reachable state.                 *)
THEOREM InductiveInvariant == Spec => []IInv
<1>1. Init => IInv
  <2> SUFFICES ASSUME Init PROVE IInv
    OBVIOUS
  <2>1. TypeOK
    BY CacheTypeInit, NoneAssumption DEF Init, TypeOK
  <2>2. QED
    BY <2>1 DEF Init, CacheInit, IInv, OneServicePerName, HandlerInv, PendingInv, FreshInv,
                StoredInv, RedeemedAtMostOnce, StartPhase, CallbackPhase, Redeemed
<1>2. IInv /\ [Next]_vars => IInv'
  BY TypeStep, HandlerInvStep, PendingInvStep, FreshInvStep, RedeemedStep, StoredInvStep,
     OneServiceStep, StepOfCache
     DEF IInv, TypeOK
<1>3. QED
  BY <1>1, <1>2, PTL DEF Spec

(* Type correctness of the endpoints.                                      *)
THEOREM TypeCorrect == Spec => []TypeOK
  BY InductiveInvariant, PTL DEF IInv

(* No authorization is redeemed by two callbacks, for any number of        *)
(* requests, servers, users and restarts (popPending under the mutex).     *)
THEOREM RedeemedAtMostOnceCorrect == Spec => []RedeemedAtMostOnce
  BY InductiveInvariant, PTL DEF IInv

(* A state the running process handed out is found by the first callback   *)
(* that brings it back: the double-checked insertion of the resolver makes *)
(* start and callback meet in the same Service.                            *)
THEOREM FreshStateCorrect == Spec => []FreshStateIsRedeemable
<1>1. IInv => FreshStateIsRedeemable
  BY DEF IInv, FreshInv, OneServicePerName, FreshStateIsRedeemable
<1>2. QED
  BY <1>1, InductiveInvariant, PTL

(* Whoever resumes a conversation finds a token row for the user and the   *)
(* server of the authorization.                                            *)
THEOREM ResumedHasTokenCorrect == Spec => []ResumedHasToken
<1>1. IInv => ResumedHasToken
  BY DEF IInv, TypeOK, StoredInv, ResumedHasToken
<1>2. QED
  BY <1>1, InductiveInvariant, PTL

-----------------------------------------------------------------------------
(* The status of an authorization, case by case: it follows from its own   *)
(* start and from the one callback that redeemed it, if any.               *)
StatusTable ==
  \A n \in Request :
    /\ phase[n] \notin {"redirected", "orphaned"} => StatusOf(n) = "none"
    /\ phase[n] \in {"redirected", "orphaned"} /\ Unredeemed(n)
         => StatusOf(n) = IF at[n] = "found" THEN "issued" ELSE "spent"
    /\ \A c \in Request : nonce[c] = n /\ phase[c] \in Redeemed =>
         StatusOf(n) = IF phase[c] \in {"stored", "done"} THEN "connected"
                       ELSE IF phase[c] = "exchanging" /\ at[c] = "found" THEN "redeemed"
                       ELSE "spent"

LEMMA StatusTableHolds == IInv => StatusTable
<1> SUFFICES ASSUME IInv, NEW n \in Request
             PROVE  StatusTable!(n)
  BY DEF StatusTable
<1> USE DEF IInv, HandlerInv, RedeemedAtMostOnce, Redeemed, Unredeemed, StatusOf,
        Connected, BeingRedeemed
<1>1. phase[n] \notin {"redirected", "orphaned"} => StatusOf(n) = "none"
  OBVIOUS
<1>2. phase[n] \in {"redirected", "orphaned"} /\ Unredeemed(n)
      => StatusOf(n) = IF at[n] = "found" THEN "issued" ELSE "spent"
  OBVIOUS
<1>3. ASSUME NEW c \in Request, nonce[c] = n, phase[c] \in Redeemed
      PROVE  StatusOf(n) = IF phase[c] \in {"stored", "done"} THEN "connected"
                           ELSE IF phase[c] = "exchanging" /\ at[c] = "found" THEN "redeemed"
                           ELSE "spent"
  <2>1. phase[n] = "redirected"
    BY <1>3, NoneAssumption
  <2>2. \A d \in Request : nonce[d] = n /\ phase[d] \in Redeemed => d = c
    BY <1>3
  <2>3. QED
    BY <1>3, <2>1, <2>2
<1>4. QED
  BY <1>1, <1>2, <1>3

(* The status depends on nothing but the handlers.                         *)
LEMMA StatusFrame ==
  UNCHANGED <<at, phase, nonce>> => \A m \in Request : StatusOf(m)' = StatusOf(m)
  BY DEF StatusOf, Connected, BeingRedeemed, Unredeemed

(* A handler that neither issues nor redeems, before or after a step of    *)
(* its own, does not count.                                                *)
LEMMA StatusUntouched ==
  ASSUME NEW r \in Request,
         \A m \in Request \ {r} : at'[m] = at[m] /\ phase'[m] = phase[m] /\ nonce'[m] = nonce[m],
         phase[r] \notin Redeemed \cup {"redirected", "orphaned"},
         phase'[r] \notin Redeemed \cup {"redirected", "orphaned"}
  PROVE  \A m \in Request : StatusOf(m)' = StatusOf(m)
<1> SUFFICES ASSUME NEW m \in Request PROVE StatusOf(m)' = StatusOf(m)
  OBVIOUS
<1>1. Connected(m)' <=> Connected(m)
  BY DEF Connected, Redeemed
<1>2. BeingRedeemed(m)' <=> BeingRedeemed(m)
  BY DEF BeingRedeemed, Redeemed
<1>3. Unredeemed(m)' <=> Unredeemed(m)
  BY DEF Unredeemed
<1>4. QED
  BY <1>1, <1>2, <1>3 DEF StatusOf

(* An issuing start changes its own status only, a callback that of the    *)
(* authorization it brings back.                                           *)
LEMMA StatusOfOtherStarts ==
  ASSUME NEW r \in Request,
         \A m \in Request \ {r} : phase'[m] = phase[m],
         UNCHANGED <<at, nonce>>,
         phase[r] \notin Redeemed, phase'[r] \notin Redeemed
  PROVE  \A m \in Request \ {r} : StatusOf(m)' = StatusOf(m)
<1> SUFFICES ASSUME NEW m \in Request \ {r} PROVE StatusOf(m)' = StatusOf(m)
  OBVIOUS
<1>1. Connected(m)' <=> Connected(m)
  BY DEF Connected, Redeemed
<1>2. BeingRedeemed(m)' <=> BeingRedeemed(m)
  BY DEF BeingRedeemed, Redeemed
<1>3. Unredeemed(m)' <=> Unredeemed(m)
  BY DEF Unredeemed
<1>4. QED
  BY <1>1, <1>2, <1>3 DEF StatusOf

LEMMA StatusOfOtherNonces ==
  ASSUME NEW r \in Request, NEW n \in Request, n = nonce[r],
         \A m \in Request \ {r} : phase'[m] = phase[m],
         UNCHANGED <<at, nonce>>,
         phase[r] \notin {"redirected", "orphaned"}, phase'[r] \notin {"redirected", "orphaned"}
  PROVE  \A m \in Request \ {n} : StatusOf(m)' = StatusOf(m)
<1> SUFFICES ASSUME NEW m \in Request \ {n} PROVE StatusOf(m)' = StatusOf(m)
  OBVIOUS
<1>1. Connected(m)' <=> Connected(m)
  BY DEF Connected
<1>2. BeingRedeemed(m)' <=> BeingRedeemed(m)
  BY DEF BeingRedeemed
<1>3. Unredeemed(m)' <=> Unredeemed(m)
  BY DEF Unredeemed
<1>4. QED
  BY <1>1, <1>2, <1>3 DEF StatusOf

LEMMA StatusInLookup ==
  ASSUME CacheTypeOK, HandlerInv, NEW r \in Request, LookupStep(r), UNCHANGED oauthVars
  PROVE  \A m \in Request : StatusOf(m)' = StatusOf(m)
<1>1. /\ at[r] \in {"lookup", "build", "publish"}
      /\ \A m \in Request \ {r} : at'[m] = at[m]
  BY LookupEffect
<1>2. UNCHANGED <<phase, nonce>>
  BY DEF oauthVars
<1>3. phase[r] \notin Redeemed \cup {"redirected", "orphaned"}
  <2>1. phase[r] \in {"none", "start", "callback"}
    BY <1>1 DEF HandlerInv
  <2>2. QED
    BY <2>1 DEF Redeemed
<1>4. QED
  BY <1>1, <1>2, <1>3, StatusUntouched

(* A step that changes the status of the authorization n only, as a step   *)
(* of the abstract specification.                                          *)
LEMMA OneMove ==
  ASSUME NEW n \in Request, NEW from, NEW to,
         StatusOf(n) = from, StatusOf(n)' = to,
         \A m \in Request \ {n} : StatusOf(m)' = StatusOf(m)
  PROVE  Authorization!Move(n, from, to)
  BY DEF Authorization!Move

(* The endpoints implement one-shot authorizations: redirecting (or        *)
(* orphaning an entry) issues, popping redeems, storing connects, failing  *)
(* spends, a crash loses, everything else stutters.                        *)
LEMMA StatusStep ==
  IInv /\ IInv' /\ StatusTable /\ StatusTable' /\ [Next]_vars
    => Authorization!Next \/ \A m \in Request : StatusOf(m)' = StatusOf(m)
<1> SUFFICES ASSUME IInv, IInv', StatusTable, StatusTable', [Next]_vars
             PROVE  Authorization!Next \/ \A m \in Request : StatusOf(m)' = StatusOf(m)
  OBVIOUS
<1> USE NoneAssumption DEF IInv
<1>1. ASSUME NEW r \in Request, AuthorizeURL(r)
      PROVE  Authorization!Next
  <2>1. StatusOf(r) = "none" /\ StatusOf(r)' = "issued" /\ r \in Request
    BY <1>1
    DEF AuthorizeURL, Proceed, cacheVars, TypeOK, CacheTypeOK, HandlerInv, PendingInv,
        Redeemed, Unredeemed, StatusTable, StartPhase, CallbackPhase
  <2>2. \A m \in Request \ {r} : StatusOf(m)' = StatusOf(m)
    <3>1. /\ phase[r] \notin Redeemed /\ phase'[r] \notin Redeemed
          /\ \A m \in Request \ {r} : phase'[m] = phase[m]
          /\ UNCHANGED <<at, nonce>>
      BY <1>1 DEF AuthorizeURL, Proceed, cacheVars, TypeOK, CacheTypeOK, HandlerInv, Redeemed
    <3>2. QED
      BY <3>1, StatusOfOtherStarts
  <2>3. QED
    BY <2>1, <2>2, OneMove DEF Authorization!Next, Authorization!Issue
<1>2. ASSUME NEW r \in Request, AuthorizeURLOrphaned(r)
      PROVE  Authorization!Next
  <2>1. StatusOf(r) = "none" /\ StatusOf(r)' = "issued" /\ r \in Request
    BY <1>2
    DEF AuthorizeURLOrphaned, Proceed, cacheVars, TypeOK, CacheTypeOK, HandlerInv, PendingInv,
        Redeemed, Unredeemed, StatusTable, StartPhase, CallbackPhase
  <2>2. \A m \in Request \ {r} : StatusOf(m)' = StatusOf(m)
    <3>1. /\ phase[r] \notin Redeemed /\ phase'[r] \notin Redeemed
          /\ \A m \in Request \ {r} : phase'[m] = phase[m]
          /\ UNCHANGED <<at, nonce>>
      BY <1>2
      DEF AuthorizeURLOrphaned, Proceed, cacheVars, TypeOK, CacheTypeOK, HandlerInv, Redeemed
    <3>2. QED
      BY <3>1, StatusOfOtherStarts
  <2>3. QED
    BY <2>1, <2>2, OneMove DEF Authorization!Next, Authorization!Issue
<1>3. ASSUME NEW r \in Request, NEW n \in Request, n = nonce[r], PopPending(r)
      PROVE  Authorization!Next
  <2>1. StatusOf(n) = "issued" /\ StatusOf(n)' = "redeemed"
    BY <1>3
    DEF PopPending, Proceed, cacheVars, TypeOK, CacheTypeOK, HandlerInv, PendingInv, Redeemed,
        Unredeemed, StatusTable, StartPhase, CallbackPhase
  <2>2. \A m \in Request \ {n} : StatusOf(m)' = StatusOf(m)
    <3>1. /\ phase[r] \notin {"redirected", "orphaned"} /\ phase'[r] \notin {"redirected", "orphaned"}
          /\ \A m \in Request \ {r} : phase'[m] = phase[m]
          /\ UNCHANGED <<at, nonce>>
      BY <1>3 DEF PopPending, Proceed, cacheVars, TypeOK, CacheTypeOK, HandlerInv, Redeemed
    <3>2. QED
      BY <1>3, <3>1, StatusOfOtherNonces
  <2>3. Authorization!Move(n, "issued", "redeemed")
    BY <2>1, <2>2, OneMove
  <2>4. QED
    BY <2>1, <2>3 DEF Authorization!Next, Authorization!Redeem
<1>4. ASSUME NEW r \in Request, NEW n \in Request, n = nonce[r], StoreToken(r)
      PROVE  Authorization!Next
  <2>0. /\ at[r] = "found" /\ phase[r] = "exchanging"
        /\ phase' = [phase EXCEPT ![r] = "stored"]
        /\ UNCHANGED <<at, nonce>>
    BY <1>4 DEF StoreToken, Proceed, cacheVars, TypeOK, CacheTypeOK, HandlerInv, Redeemed
  <2>1. StatusOf(n) = "redeemed" /\ StatusOf(n)' = "connected"
    BY <1>4, <2>0
    DEF TypeOK, CacheTypeOK, HandlerInv, PendingInv, Redeemed, Unredeemed, StatusTable,
        StartPhase, CallbackPhase
  <2>2. \A m \in Request \ {n} : StatusOf(m)' = StatusOf(m)
    <3>1. /\ phase[r] \notin {"redirected", "orphaned"} /\ phase'[r] \notin {"redirected", "orphaned"}
          /\ \A m \in Request \ {r} : phase'[m] = phase[m]
      BY <2>0
    <3>2. QED
      BY <1>4, <2>0, <3>1, StatusOfOtherNonces
  <2>3. Authorization!Move(n, "redeemed", "connected")
    BY <2>1, <2>2, OneMove
  <2>4. QED
    BY <2>1, <2>3 DEF Authorization!Next, Authorization!Connect
<1>5. ASSUME NEW r \in Request, NEW n \in Request, n = nonce[r], ExchangeFails(r)
      PROVE  Authorization!Next
  <2>1. StatusOf(n) = "redeemed" /\ StatusOf(n)' = "spent"
    BY <1>5
    DEF ExchangeFails, Proceed, cacheVars, TypeOK, CacheTypeOK, HandlerInv, PendingInv,
        Redeemed, Unredeemed, StatusTable, StartPhase, CallbackPhase
  <2>2. \A m \in Request \ {n} : StatusOf(m)' = StatusOf(m)
    <3>1. /\ phase[r] \notin {"redirected", "orphaned"} /\ phase'[r] \notin {"redirected", "orphaned"}
          /\ \A m \in Request \ {r} : phase'[m] = phase[m]
          /\ UNCHANGED <<at, nonce>>
      BY <1>5 DEF ExchangeFails, Proceed, cacheVars, TypeOK, CacheTypeOK, HandlerInv, Redeemed
    <3>2. QED
      BY <1>5, <3>1, StatusOfOtherNonces
  <2>3. Authorization!Move(n, "redeemed", "spent")
    BY <2>1, <2>2, OneMove
  <2>4. QED
    BY <2>1, <2>3 DEF Authorization!Next, Authorization!Spend
<1>6. ASSUME NEW r \in Request, NEW s \in Server, NEW u \in User, OAuthStart(r, s, u)
      PROVE  \A m \in Request : StatusOf(m)' = StatusOf(m)
  <2>1. \A m \in Request \ {r} : at'[m] = at[m] /\ phase'[m] = phase[m] /\ nonce'[m] = nonce[m]
    BY <1>6 DEF OAuthStart, Ask, MoveTo, TypeOK, CacheTypeOK, HandlerInv, Redeemed
  <2>2. /\ phase[r] \notin Redeemed \cup {"redirected", "orphaned"}
        /\ phase'[r] \notin Redeemed \cup {"redirected", "orphaned"}
    BY <1>6 DEF OAuthStart, Ask, MoveTo, TypeOK, CacheTypeOK, HandlerInv, Redeemed
  <2>3. QED
    BY <2>1, <2>2, StatusUntouched
<1>7. ASSUME NEW c \in Request, NEW n \in Request, OAuthCallback(c, n)
      PROVE  \A m \in Request : StatusOf(m)' = StatusOf(m)
  <2>1. \A m \in Request \ {c} : at'[m] = at[m] /\ phase'[m] = phase[m] /\ nonce'[m] = nonce[m]
    BY <1>7 DEF OAuthCallback, Ask, MoveTo, TypeOK, CacheTypeOK, HandlerInv, Redeemed
  <2>2. /\ phase[c] \notin Redeemed \cup {"redirected", "orphaned"}
        /\ phase'[c] \notin Redeemed \cup {"redirected", "orphaned"}
    BY <1>7 DEF OAuthCallback, Ask, MoveTo, TypeOK, CacheTypeOK, HandlerInv, Redeemed
  <2>3. QED
    BY <2>1, <2>2, StatusUntouched
<1>8. ASSUME NEW r \in Request, LookupStep(r), UNCHANGED oauthVars
      PROVE  \A m \in Request : StatusOf(m)' = StatusOf(m)
  BY <1>8, StatusInLookup DEF TypeOK
<1>9. ASSUME NEW r \in Request, AuthorizeURLFails(r)
      PROVE  \A m \in Request : StatusOf(m)' = StatusOf(m)
  <2>1. \A m \in Request \ {r} : at'[m] = at[m] /\ phase'[m] = phase[m] /\ nonce'[m] = nonce[m]
    BY <1>9 DEF AuthorizeURLFails, Proceed, cacheVars, TypeOK, CacheTypeOK, HandlerInv, Redeemed
  <2>2. /\ phase[r] \notin Redeemed \cup {"redirected", "orphaned"}
        /\ phase'[r] \notin Redeemed \cup {"redirected", "orphaned"}
    BY <1>9 DEF AuthorizeURLFails, Proceed, cacheVars, TypeOK, CacheTypeOK, HandlerInv, Redeemed
  <2>3. QED
    BY <2>1, <2>2, StatusUntouched
<1>10. ASSUME NEW r \in Request, ProviderError(r)
      PROVE  \A m \in Request : StatusOf(m)' = StatusOf(m)
  <2>1. \A m \in Request \ {r} : at'[m] = at[m] /\ phase'[m] = phase[m] /\ nonce'[m] = nonce[m]
    BY <1>10 DEF ProviderError, Proceed, cacheVars, TypeOK, CacheTypeOK, HandlerInv, Redeemed
  <2>2. /\ phase[r] \notin Redeemed \cup {"redirected", "orphaned"}
        /\ phase'[r] \notin Redeemed \cup {"redirected", "orphaned"}
    BY <1>10 DEF ProviderError, Proceed, cacheVars, TypeOK, CacheTypeOK, HandlerInv, Redeemed
  <2>3. QED
    BY <2>1, <2>2, StatusUntouched
<1>11. ASSUME NEW r \in Request, PendingNotFound(r)
      PROVE  \A m \in Request : StatusOf(m)' = StatusOf(m)
  <2>1. \A m \in Request \ {r} : at'[m] = at[m] /\ phase'[m] = phase[m] /\ nonce'[m] = nonce[m]
    BY <1>11 DEF PendingNotFound, Proceed, cacheVars, TypeOK, CacheTypeOK, HandlerInv, Redeemed
  <2>2. /\ phase[r] \notin Redeemed \cup {"redirected", "orphaned"}
        /\ phase'[r] \notin Redeemed \cup {"redirected", "orphaned"}
    BY <1>11 DEF PendingNotFound, Proceed, cacheVars, TypeOK, CacheTypeOK, HandlerInv, Redeemed
  <2>3. QED
    BY <2>1, <2>2, StatusUntouched
<1>12. ASSUME NEW r \in Request, Respond(r)
      PROVE  \A m \in Request : StatusOf(m)' = StatusOf(m)
  <2>1. /\ phase[r] = "stored" /\ phase' = [phase EXCEPT ![r] = "done"]
        /\ UNCHANGED <<at, nonce>>
    BY <1>12 DEF Respond, Proceed, cacheVars, TypeOK, CacheTypeOK, HandlerInv, Redeemed
  <2>2. \A m \in Request : (Connected(m)' <=> Connected(m)) /\ (Unredeemed(m)' <=> Unredeemed(m))
    BY <2>1 DEF Connected, Unredeemed, Redeemed, TypeOK
  <2>3. \A m \in Request : BeingRedeemed(m)' <=> BeingRedeemed(m)
    BY <2>1 DEF BeingRedeemed, TypeOK
  <2>4. QED
    BY <2>1, <2>2, <2>3 DEF StatusOf, TypeOK
<1>13. ASSUME ConfigStep
      PROVE  \A m \in Request : StatusOf(m)' = StatusOf(m)
  BY <1>13, StatusFrame DEF ConfigStep, UpsertMCPServer, DeleteMCPServer, oauthVars
<1>14. ASSUME UNCHANGED vars
      PROVE  \A m \in Request : StatusOf(m)' = StatusOf(m)
  BY <1>14, StatusFrame DEF vars, cacheVars, oauthVars
<1>15. CASE Crash
  <2>1. \A m \in Request :
          StatusOf(m)' = IF StatusOf(m) \in {"issued", "redeemed"} THEN "spent" ELSE StatusOf(m)
    BY <1>15
    DEF Crash, Restart, TypeOK, CacheTypeOK, HandlerInv, PendingInv, Redeemed, Unredeemed,
        StatusTable, StartPhase, CallbackPhase
  <2>2. QED
    BY <2>1 DEF Authorization!Next, Authorization!Lose
<1>16. ASSUME NEW r \in Request, PopPending(r) \/ StoreToken(r) \/ ExchangeFails(r)
       PROVE  nonce[r] \in Request
  BY <1>16
  DEF PopPending, StoreToken, ExchangeFails, Proceed, TypeOK, HandlerInv, CallbackPhase
<1>17. QED
  BY <1>1, <1>2, <1>3, <1>4, <1>5, <1>6, <1>7, <1>8, <1>9, <1>10, <1>11, <1>12, <1>13, <1>14,
     <1>15, <1>16
     DEF Next, HandlerStep

(* The refinement, from the inductive invariant.                           *)
THEOREM EndpointsAreOneShot == Spec => OneShot
<1>1. Init => Authorization!Init
  BY DEF Init, Authorization!Init, StatusOf
<1>2. (IInv => StatusTable)'
  BY StatusTableHolds, PTL
<1>3. IInv /\ IInv' /\ [Next]_vars => [Authorization!Next]_[n \in Request |-> StatusOf(n)]
  BY <1>2, StatusTableHolds, StatusStep
<1>4. QED
  BY <1>1, <1>3, InductiveInvariant, PTL DEF Spec, OneShot, Authorization!Spec
==============================================================================
