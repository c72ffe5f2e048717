-------------------------- MODULE ClientRegistration --------------------------
(***************************************************************************)
(* Client credentials of an MCP server (resolveClientCredentials in        *)
(* internal/mcpauth/service.go).  Each start runs in a goroutine of its    *)
(* own and shares the Service of its server.  In DCR mode a start that     *)
(* finds no client registers one, writes it into the Service under the     *)
(* lock and saves it to mcp_servers; but the fields are READ without the   *)
(* lock.  Meanwhile administrators edit and remove the row.                *)
(*                                                                         *)
(* A client registered dynamically is named after the start that           *)
(* registered it; its secret, when it has one, has the same name.  The     *)
(* resolver is taken at its promise (ServiceRegistry): one Service per     *)
(* name, holding the row as it was when the Service was built.             *)
(***************************************************************************)
EXTENDS AdminConfig

CONSTANTS Start,  \* GET .../start requests
          Torn    \* a string read while another goroutine overwrites it

VARIABLES service,  \* Registration of each server's Service, or None
          mu,       \* holder of each Service's lock, or None
          at,       \* where each start is
          of,       \* the server of each start
          client,   \* the credentials a start has so far
          issued,   \* the secret registered with each start's client, or None
          late      \* history: a start of this process had a client before

serviceVars == <<service, mu>>
startVars == <<at, of, client, issued, late>>
vars == <<adminVars, serviceVars, startVars>>

Position == {"idle", "readId", "readSecret", "register", "lock", "writeId",
             "writeSecret", "save", "authorized", "failed", "gone"}
Writing == {"writeId", "writeSecret"}
Client == Start \cup Typed
Registration == [mode : Mode, id : Client \cup {None}, secret : Client \cup {None}]
NoClient == [id |-> None, secret |-> None]
Value == Client \cup {None, Torn}

ASSUME RegistrationAssumption ==
  /\ None \notin Client \cup Row(Client) \cup Registration
  /\ Torn \notin Client \cup {None}
  /\ Start \cap Typed = {}

DataTypeOK ==
  /\ mcpServers \in [Server -> Row(Client) \cup {None}]
  /\ view \in [View -> [kind : Kind, shown : SUBSET Server]]
  /\ service \in [Server -> Registration \cup {None}]
  /\ mu \in [Server -> Start \cup {None}]
  /\ at \in [Start -> Position]
  /\ of \in [Start -> Server \cup {None}]
  /\ client \in [Start -> [id : Value, secret : Value]]
  /\ issued \in [Start -> Start \cup {None}]
  /\ late \in [Start -> BOOLEAN]

\* A start under way has a server and its Service.
PlaceOK ==
  \A r \in Start :
    /\ at[r] # "idle" => of[r] \in Server
    /\ at[r] \notin {"idle", "gone"} => service[of[r]] # None

\* The lock is held by the start that is writing, by no other.
LockOK ==
  \A r \in Start, s \in Server : mu[s] = r <=> at[r] \in Writing /\ of[r] = s

\* Types, and whose the lock is.
TypeOK == DataTypeOK /\ PlaceOK /\ LockOK

Init ==
  /\ AdminInit
  /\ service = [s \in Server |-> None]
  /\ mu = [s \in Server |-> None]
  /\ at = [r \in Start |-> "idle"]
  /\ of = [r \in Start |-> None]
  /\ client = [r \in Start |-> NoClient]
  /\ issued = [r \in Start |-> None]
  /\ late = [r \in Start |-> FALSE]

MoveTo(r, p) == at' = [at EXCEPT ![r] = p]

-----------------------------------------------------------------------------
(* A start, up to the credentials it authorizes with.                      *)

\* The resolver answers with the Service, building it from the row if needed.
Begin(r, s) ==
  /\ at[r] = "idle"
  /\ \/ service[s] # None /\ UNCHANGED service
     \/ /\ service[s] = None /\ s \in Configured
        /\ service' = [service EXCEPT ![s] =
             [mode |-> mcpServers[s].mode, id |-> mcpServers[s].id,
              secret |-> mcpServers[s].secret]]
  /\ of' = [of EXCEPT ![r] = s]
  /\ late' = [late EXCEPT ![r] =
       \E q \in Start : of[q] = s /\ at[q] \in {"save", "authorized"}]
  /\ MoveTo(r, "readId")
  /\ UNCHANGED <<adminVars, mu, client, issued>>

\* The texts about to overwrite a field of the Service of s.
NewIds(s) == {q \in Start : mu[s] = q /\ at[q] = "writeId"}
NewSecrets(s) ==
  {issued[q] : q \in {w \in Start : mu[s] = w /\ at[w] = "writeSecret"}}

\* What a string field holds when it is read without the lock: its text, or a
\* mix of pointer and length of two texts while one replaces the other.
Read(old, new) ==
  {old} \cup (IF old # None /\ new \ {None} # {} THEN {Torn} ELSE {})

ReadId(r) ==
  /\ at[r] = "readId"
  /\ \E x \in Read(service[of[r]].id, NewIds(of[r])) :
       client' = [client EXCEPT ![r].id = x]
  /\ MoveTo(r, "readSecret")
  /\ UNCHANGED <<adminVars, serviceVars, of, issued, late>>

\* With a client the start can authorize; without one it fails or registers.
ReadSecret(r) ==
  /\ at[r] = "readSecret"
  /\ \E x \in Read(service[of[r]].secret, NewSecrets(of[r])) :
       client' = [client EXCEPT ![r].secret = x]
  /\ MoveTo(r, CASE client[r].id # None -> "authorized"
                 [] client[r].id = None /\ service[of[r]].mode = "static" -> "failed"
                 [] OTHER -> "register")
  /\ UNCHANGED <<adminVars, serviceVars, of, issued, late>>

\* Discovery or the registration request fails, or a field is read with the
\* length of a text and the pointer of none: the handler ends.
Fail(r) ==
  /\ at[r] \in {"readId", "readSecret", "register"}
  /\ MoveTo(r, "failed")
  /\ UNCHANGED <<adminVars, serviceVars, of, client, issued, late>>

\* registerClientDCR: the provider issues a client, with or without a secret.
RegisterClientDCR(r) ==
  /\ at[r] = "register"
  /\ \E secret \in {r, None} : issued' = [issued EXCEPT ![r] = secret]
  /\ MoveTo(r, "lock")
  /\ UNCHANGED <<adminVars, serviceVars, of, client, late>>

\* Fault variant: the write does not wait for the one before it.
LockTaken(r) ==
  /\ at[r] = "lock"
  /\ mu' = [mu EXCEPT ![of[r]] = r]
  /\ MoveTo(r, "writeId")
  /\ UNCHANGED <<adminVars, service, of, client, issued, late>>

Lock(r) ==
  /\ at[r] = "lock"
  /\ mu[of[r]] = None
  /\ mu' = [mu EXCEPT ![of[r]] = r]
  /\ MoveTo(r, "writeId")
  /\ UNCHANGED <<adminVars, service, of, client, issued, late>>

\* Fault variant: the client goes to the database only.
WriteNoId(r) ==
  /\ at[r] = "writeId"
  /\ MoveTo(r, "writeSecret")
  /\ UNCHANGED <<adminVars, serviceVars, of, client, issued, late>>

WriteId(r) ==
  /\ at[r] = "writeId"
  /\ service' = [service EXCEPT ![of[r]].id = r]
  /\ MoveTo(r, "writeSecret")
  /\ UNCHANGED <<adminVars, mu, of, client, issued, late>>

\* Fault variant: an empty secret does not replace the one before.
WriteSecretIfAny(r) ==
  /\ at[r] = "writeSecret"
  /\ service' = [service EXCEPT ![of[r]].secret =
       IF issued[r] = None THEN @ ELSE issued[r]]
  /\ mu' = [mu EXCEPT ![of[r]] = None]
  /\ MoveTo(r, "save")
  /\ UNCHANGED <<adminVars, of, client, issued, late>>

\* The second field, and the unlock.
WriteSecret(r) ==
  /\ at[r] = "writeSecret"
  /\ service' = [service EXCEPT ![of[r]].secret = issued[r]]
  /\ mu' = [mu EXCEPT ![of[r]] = None]
  /\ MoveTo(r, "save")
  /\ UNCHANGED <<adminVars, of, client, issued, late>>

\* The start goes on with the client it registered, whatever became of the row.
Authorize(r) ==
  /\ at[r] = "save"
  /\ client' = [client EXCEPT ![r] = [id |-> r, secret |-> issued[r]]]
  /\ MoveTo(r, "authorized")
  /\ UNCHANGED <<view, serviceVars, of, issued, late>>

\* Fault variant: the save inserts the row when it is missing.
SaveInserting(r) ==
  /\ Authorize(r)
  /\ mcpServers' = [mcpServers EXCEPT ![of[r]] =
       [mode |-> "dcr", id |-> r, secret |-> issued[r], enabled |-> TRUE]]

\* SaveMCPRegistration: UPDATE ... WHERE name = ..., so a row or nothing.
SaveMCPRegistration(r) ==
  /\ Authorize(r)
  /\ mcpServers' = [s \in Server |->
       IF s = of[r] /\ s \in Configured
       THEN [mcpServers[s] EXCEPT !.mode = "dcr", !.id = r, !.secret = issued[r]]
       ELSE mcpServers[s]]

\* The error is logged, and nothing else.
SaveFails(r) == Authorize(r) /\ UNCHANGED mcpServers

ResolveClientCredentials(r) ==
  \/ ReadId(r) \/ ReadSecret(r) \/ Fail(r)
  \/ RegisterClientDCR(r) \/ Lock(r) \/ WriteId(r) \/ WriteSecret(r)
  \/ SaveMCPRegistration(r) \/ SaveFails(r)

\* The process stops and a new one starts, with the database and the modals.
Restart ==
  /\ service' = [s \in Server |-> None]
  /\ mu' = [s \in Server |-> None]
  /\ at' = [r \in Start |-> IF at[r] = "idle" THEN "idle" ELSE "gone"]
  /\ client' = [r \in Start |-> NoClient]
  /\ UNCHANGED <<adminVars, of, issued, late>>

Admin(v) == ModalStep(v) /\ UNCHANGED <<serviceVars, startVars>>

Next ==
  \/ \E r \in Start, s \in Server : Begin(r, s)
  \/ \E r \in Start : ResolveClientCredentials(r)
  \/ \E v \in View : Admin(v)
  \/ Restart

Spec == Init /\ [][Next]_vars

-----------------------------------------------------------------------------
(* Properties.                                                             *)

\* Credentials of one registration: a registered id with the secret issued
\* with it.
Whole(c) == c.id \in Start => c.secret = issued[c.id]

\* Whenever nobody is writing them, the credentials in the Service are those of
\* one registration, and so are those in the row: concurrent registrations,
\* saves out of order, edits and restarts never mix two.
CredentialsAreWhole ==
  \A s \in Server :
    /\ service[s] # None /\ mu[s] = None => Whole(service[s])
    /\ s \in Configured => Whole(mcpServers[s])

\* A registered client is in use only once its start has written it; what is
\* being written is written under the id.
PublishedInv ==
  /\ \A r \in Start : at[r] \in {"idle", "readId", "readSecret", "register"} =>
       \A s \in Server :
         /\ service[s] # None => service[s].id # r
         /\ s \in Configured => mcpServers[s].id # r
  /\ \A r \in Start : at[r] = "writeSecret" => service[of[r]].id = r

\* Once a start of this process has a client, its Service has one for good.
KnownInv ==
  \A r \in Start :
    /\ at[r] \in {"save", "authorized"} => service[of[r]].id # None
    /\ late[r] /\ at[r] = "readId" => service[of[r]].id # None
    /\ at[r] = "readSecret" /\ (client[r].id # None \/ late[r])
         => service[of[r]].id # None /\ client[r].id # None

\* A client is registered once: a start that begins when another of the same
\* process already has a client for the server uses that one.
RegistrationReused ==
  \A r \in Start : at[r] = "register" => ~late[r]

\* The inductive invariant.
IInv ==
  /\ TypeOK /\ StaticHasClient
  /\ PublishedInv /\ CredentialsAreWhole
  /\ KnownInv /\ RegistrationReused
==============================================================================
