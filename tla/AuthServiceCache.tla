-------------------------- MODULE AuthServiceCache ---------------------------
(***************************************************************************)
(* The resolver of MCP auth services (cmd/slacker/main.go): a process-wide *)
(* map from MCP server name to *mcpauth.Service, filled on demand by the   *)
(* goroutines of the HTTP requests.  The lock is held for the lookup and   *)
(* for the insertion, not for the database read between them.              *)
(*                                                                         *)
(* Each request looks up one name and builds at most one Service, so a     *)
(* Service is identified with the request that built it.                   *)
(***************************************************************************)
CONSTANTS Server,    \* MCP server names (rows of mcp_servers)
          Config,    \* contents a row of mcp_servers can have
          Request,   \* HTTP requests, each served by its own goroutine
          None       \* Go's nil, and "no row"

ASSUME NoneAssumption == None \notin Request \cup Config

VARIABLES mcpServers,  \* the table mcp_servers: a row's content, or None
          cache,       \* cache map[string]*mcpauth.Service of this process
          at,          \* where each request is in its lookup
          name,        \* the server name each request asks for
          snapshot,    \* the row content the Service built by a request holds
          svc          \* the Service each request was answered with

cacheVars == <<mcpServers, cache, at, name, snapshot, svc>>

\* "gone": the process serving the request stopped.
Position == {"idle", "lookup", "build", "publish", "found", "absent", "failed", "gone"}

\* Types; a lookup under way has its name, and holds a service exactly when it
\* succeeded (main.go never returns a nil service as a hit).
CacheTypeOK ==
  /\ mcpServers \in [Server -> Config \cup {None}]
  /\ cache \in [Server -> Request \cup {None}]
  /\ at \in [Request -> Position]
  /\ name \in [Request -> Server \cup {None}]
  /\ snapshot \in [Request -> Config \cup {None}]
  /\ svc \in [Request -> Request \cup {None}]
  /\ \A r \in Request :
       /\ at[r] # "idle" => name[r] \in Server
       /\ at[r] = "found" <=> svc[r] # None

CacheInit ==
  /\ mcpServers \in [Server -> Config \cup {None}]
  /\ cache = [s \in Server |-> None]
  /\ at = [r \in Request |-> "idle"]
  /\ name = [r \in Request |-> None]
  /\ snapshot = [r \in Request |-> None]
  /\ svc = [r \in Request |-> None]

MoveTo(r, p) == at' = [at EXCEPT ![r] = p]

-----------------------------------------------------------------------------
(* The resolver, step by step.                                             *)

\* A handler calls the resolver with the server of its URL.
Ask(r, s) ==
  /\ at[r] = "idle"
  /\ name' = [name EXCEPT ![r] = s]
  /\ MoveTo(r, "lookup")
  /\ UNCHANGED <<mcpServers, cache, snapshot, svc>>

\* Fault variant: the cached pointer is returned without the nil check.
CacheHitUnchecked(r) ==
  /\ at[r] = "lookup"
  /\ svc' = [svc EXCEPT ![r] = cache[name[r]]]
  /\ MoveTo(r, "found")
  /\ UNCHANGED <<mcpServers, cache, name, snapshot>>

\* Read lock: the cached service is returned.
CacheHit(r) ==
  /\ at[r] = "lookup"
  /\ cache[name[r]] # None
  /\ svc' = [svc EXCEPT ![r] = cache[name[r]]]
  /\ MoveTo(r, "found")
  /\ UNCHANGED <<mcpServers, cache, name, snapshot>>

\* Read lock: nothing cached yet.
CacheMiss(r) ==
  /\ at[r] = "lookup"
  /\ cache[name[r]] = None
  /\ MoveTo(r, "build")
  /\ UNCHANGED <<mcpServers, cache, name, snapshot, svc>>

\* buildMCPAuthService copies the row into a new Service, with no lock held.
Build(r) ==
  /\ at[r] = "build"
  /\ mcpServers[name[r]] # None
  /\ snapshot' = [snapshot EXCEPT ![r] = mcpServers[name[r]]]
  /\ MoveTo(r, "publish")
  /\ UNCHANGED <<mcpServers, cache, name, svc>>

BuildFindsNoRow(r) ==
  /\ at[r] = "build"
  /\ mcpServers[name[r]] = None
  /\ MoveTo(r, "absent")
  /\ UNCHANGED <<mcpServers, cache, name, snapshot, svc>>

\* ListMCPServers returns an error.
BuildFails(r) ==
  /\ at[r] = "build"
  /\ MoveTo(r, "failed")
  /\ UNCHANGED <<mcpServers, cache, name, snapshot, svc>>

\* Fault variant: the write lock is taken without looking again.
PublishWithoutSecondLook(r) ==
  /\ at[r] = "publish"
  /\ cache' = [cache EXCEPT ![name[r]] = r]
  /\ svc' = [svc EXCEPT ![r] = r]
  /\ MoveTo(r, "found")
  /\ UNCHANGED <<mcpServers, name, snapshot>>

\* Write lock: a service published in the meantime wins over the new one.
Publish(r) ==
  /\ at[r] = "publish"
  /\ LET winner == IF cache[name[r]] = None THEN r ELSE cache[name[r]]
     IN /\ cache' = [cache EXCEPT ![name[r]] = winner]
        /\ svc' = [svc EXCEPT ![r] = winner]
  /\ MoveTo(r, "found")
  /\ UNCHANGED <<mcpServers, name, snapshot>>

LookupStep(r) ==
  \/ CacheHit(r) \/ CacheMiss(r)
  \/ Build(r) \/ BuildFindsNoRow(r) \/ BuildFails(r)
  \/ Publish(r)

-----------------------------------------------------------------------------
(* The rest of the process and its database.                               *)

\* /slacker-config mcp add: UpsertMCPServer.
UpsertMCPServer(s, c) ==
  /\ mcpServers' = [mcpServers EXCEPT ![s] = c]
  /\ UNCHANGED <<cache, at, name, snapshot, svc>>

\* /slacker-config mcp remove: DeleteMCPServer.
DeleteMCPServer(s) ==
  /\ mcpServers' = [mcpServers EXCEPT ![s] = None]
  /\ UNCHANGED <<cache, at, name, snapshot, svc>>

\* Fault variant: the requests of the old process are not forgotten.
RestartKeepingCallers ==
  /\ cache' = [s \in Server |-> None]
  /\ UNCHANGED <<mcpServers, at, name, snapshot, svc>>

\* The process stops and a new one starts: only the database is kept.
Restart ==
  /\ cache' = [s \in Server |-> None]
  /\ at' = [r \in Request |-> IF at[r] = "idle" THEN "idle" ELSE "gone"]
  /\ snapshot' = [r \in Request |-> None]
  /\ svc' = [r \in Request |-> None]
  /\ UNCHANGED <<mcpServers, name>>

CacheNext ==
  \/ \E r \in Request, s \in Server : Ask(r, s)
  \/ \E r \in Request : LookupStep(r)
  \/ \E s \in Server, c \in Config : UpsertMCPServer(s, c)
  \/ \E s \in Server : DeleteMCPServer(s)
  \/ Restart

CacheSpec == CacheInit /\ [][CacheNext]_cacheVars

-----------------------------------------------------------------------------
(* Properties.                                                             *)

\* All requests one process answered for a name hold the same Service, the
\* one in the cache: the pending authorizations live in it, so two services
\* for one name would send a callback to a map its start never wrote.
OneServicePerName ==
  \A r \in Request : at[r] = "found" => svc[r] = cache[name[r]]

\* The resolver implements get-or-create: concurrent misses are linearized
\* at the write lock.
Registry == INSTANCE ServiceRegistry WITH registry <- cache, answer <- svc
GetOrCreate == Registry!Spec
==============================================================================
