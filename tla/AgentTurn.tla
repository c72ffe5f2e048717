------------------------------ MODULE AgentTurn ------------------------------
(***************************************************************************)
(* One answer of the bot in a thread: postAgentResponseToThread of         *)
(* internal/slack/handlers.go and the access checks of mcp_access.go.      *)
(* The turn looks up which MCP servers the user has not connected, runs    *)
(* the agent, and when access is missing persists one resume request per   *)
(* server and posts the links to the user, up to twice, before it          *)
(* publishes the reply.  Turns run in the event loop and in the resume     *)
(* goroutines of OAuth callbacks, concurrently.                            *)
(***************************************************************************)
EXTENDS Naturals, FiniteSets

CONSTANTS Turn,        \* answers of the bot, in the event loop or resumed
          Server,      \* MCP servers with OAuth
          User,        \* <<Slack team, Slack user>> pairs
          MaxButtons,  \* buttons of one prompt (5 in the code)
          None

\* A resume request (a fresh UUID) is named after the turn that made it, the
\* prompt of the turn (1: the run failed, 2: after the run), and the server.
RowId == Turn \X {1, 2} \X Server

ASSUME TurnAssumption ==
  /\ None \notin User \cup RowId \cup (User \X Server)
  /\ MaxButtons \in Nat \ {0}

VARIABLES servers,    \* enabled rows of mcp_servers
          connected,  \* <<user, server>> with an unexpired token
          stage,      \* of each turn
          user,       \* the user a turn answers
          needed,     \* servers the classifier named, among the unconnected
          round,      \* which prompt the turn has begun last, 0 for none
          todo,       \* servers of the current prompt still to be persisted
          rows,       \* mcp_oauth_resume_requests
          stale,      \* rows older than 48 hours
          lapsed,     \* rows deleted as stale or with their server
          links,      \* rows whose link was posted to their user
          replied     \* turns whose reply was published

accessVars == <<servers, connected>>
turnVars == <<stage, user, needed, round, todo>>
rowVars == <<rows, stale, lapsed, links>>
agentVars == <<accessVars, turnVars, rowVars, replied>>

Owner(id) == user[id[1]]
ServerOf(id) == id[3]

TurnStage == {"idle", "check", "agent", "prompt", "persist", "post", "after", "publish"}

TurnTypeOK ==
  /\ servers \subseteq Server /\ connected \subseteq User \X Server
  /\ stage \in [Turn -> TurnStage \cup {"load", "announce", "delete", "done"}]
  /\ user \in [Turn -> User \cup {None}]
  /\ needed \in [Turn -> SUBSET Server] /\ todo \in [Turn -> SUBSET Server]
  /\ round \in [Turn -> 0..2]
  /\ rows \subseteq RowId /\ stale \subseteq rows /\ lapsed \subseteq RowId
  /\ links \subseteq RowId
  /\ replied \subseteq Turn
  /\ \A t \in Turn :
       /\ stage[t] \in {"prompt", "persist", "post"} => round[t] > 0
       /\ stage[t] = "persist" => todo[t] # {}

TurnInit ==
  /\ servers \in SUBSET Server /\ connected = {}
  /\ stage = [t \in Turn |-> "idle"]
  /\ user = [t \in Turn |-> None]
  /\ needed = [t \in Turn |-> {}] /\ todo = [t \in Turn |-> {}]
  /\ round = [t \in Turn |-> 0]
  /\ rows = {} /\ stale = {} /\ lapsed = {} /\ links = {}
  /\ replied = {}

Go(t, from, to) == stage[t] = from /\ stage' = [stage EXCEPT ![t] = to]

-----------------------------------------------------------------------------
\* postAgentResponseToThread returns: the turn's local variables are gone.
Return(t) ==
  /\ needed' = [needed EXCEPT ![t] = {}]
  /\ round' = [round EXCEPT ![t] = 0]

\* The event loop begins a turn for the user u.
BeginTurn(t, u) ==
  /\ Go(t, "idle", "check")
  /\ user' = [user EXCEPT ![t] = u]
  /\ UNCHANGED <<accessVars, needed, round, todo, rowVars, replied>>

\* filterUnauthenticatedOAuthServers: no servers needed means all of them.
Unauthenticated(u, wanted) ==
  {s \in servers : <<u, s>> \notin connected /\ (wanted = {} \/ s \in wanted)}

\* unauthenticatedOAuthServers, then classifyOAuthMCPAccess over the result
\* (whose answer is the model's); an error leaves nothing needed.
CheckAccess(t) ==
  /\ Go(t, "check", "agent")
  /\ \E named \in SUBSET Unauthenticated(user[t], {}) :
       needed' = [needed EXCEPT ![t] = named]
  /\ UNCHANGED <<accessVars, user, round, todo, rowVars, replied>>

\* The agent answers, or fails for a reason other than MCP access.
AgentAnswers(t) ==
  /\ Go(t, "agent", "after")
  /\ UNCHANGED <<accessVars, user, needed, round, todo, rowVars, replied>>

\* isMCPAuthError: the user is prompted at once.
AgentLacksAccess(t) ==
  /\ Go(t, "agent", "prompt")
  /\ round' = [round EXCEPT ![t] = 1]
  /\ UNCHANGED <<accessVars, user, needed, todo, rowVars, replied>>

\* Servers were missing before the run, and the answer says it could not, or
\* the classifier reads it so: the user is prompted after the run.
AnswerLacksAccess(t) ==
  /\ Go(t, "after", "prompt")
  /\ needed[t] # {}
  /\ round' = [round EXCEPT ![t] = 2]
  /\ UNCHANGED <<accessVars, user, needed, todo, rowVars, replied>>

AnswerStands(t) ==
  /\ Go(t, "after", "publish")
  /\ UNCHANGED <<accessVars, user, needed, round, todo, rowVars, replied>>

-----------------------------------------------------------------------------
(* promptMissingMCPAccess and postMCPAuthPromptEphemeral.                  *)

NextStage(t) == IF round[t] = 1 THEN "after" ELSE "publish"

\* Rows deleted with age or with their server.
Discard(ids) ==
  /\ rows' = rows \ ids
  /\ stale' = stale \ ids
  /\ lapsed' = lapsed \cup (ids \cap rows)

\* Nothing to connect any more, or the servers cannot be listed.
PromptNotNeeded(t) ==
  /\ Go(t, "prompt", NextStage(t))
  /\ UNCHANGED <<accessVars, user, needed, round, todo, rowVars, replied>>

\* Rows older than 48 hours are deleted first; an error of that is ignored.
PromptStarts(t) ==
  /\ Go(t, "prompt", "persist")
  /\ Unauthenticated(user[t], needed[t]) # {}
  /\ todo' = [todo EXCEPT ![t] = Unauthenticated(user[t], needed[t])]
  /\ Discard(stale) \/ UNCHANGED <<rows, stale, lapsed>>
  /\ UNCHANGED <<accessVars, user, needed, round, links, replied>>

\* Fault variant: a turn has one request per server, which both its prompts use.
PersistSameRow(t, s) ==
  /\ stage[t] = "persist"
  /\ s \in todo[t] \cap servers
  /\ rows' = rows \cup {<<t, 1, s>>}
  /\ todo' = [todo EXCEPT ![t] = @ \ {s}]
  /\ stage' = [stage EXCEPT ![t] = IF todo[t] = {s} THEN "post" ELSE "persist"]
  /\ UNCHANGED <<accessVars, user, needed, round, stale, lapsed, links, replied>>

\* One row per server; the foreign key wants the server to exist.
PersistRow(t, s) ==
  /\ stage[t] = "persist"
  /\ s \in todo[t] \cap servers
  /\ rows' = rows \cup {<<t, round[t], s>>}
  /\ todo' = [todo EXCEPT ![t] = @ \ {s}]
  /\ stage' = [stage EXCEPT ![t] = IF todo[t] = {s} THEN "post" ELSE "persist"]
  /\ UNCHANGED <<accessVars, user, needed, round, stale, lapsed, links, replied>>

\* An insert fails: the rows already inserted stay, no link is posted.
PersistFails(t) ==
  /\ Go(t, "persist", NextStage(t))
  /\ todo' = [todo EXCEPT ![t] = {}]
  /\ UNCHANGED <<accessVars, user, needed, round, rowVars, replied>>

\* The rows inserted by the current prompt (some may have lapsed since).
RowsOfPrompt(t) == {id \in rows \cup lapsed : id[1] = t /\ id[2] = round[t]}

\* The ephemeral message carries a button for the first five servers only.
PostLinks(t) ==
  /\ Go(t, "post", NextStage(t))
  /\ \E shown \in SUBSET RowsOfPrompt(t) :
       /\ Cardinality(shown) <= MaxButtons
       /\ shown # RowsOfPrompt(t) => Cardinality(shown) = MaxButtons
       /\ links' = links \cup shown
  /\ UNCHANGED <<accessVars, user, needed, round, todo, rows, stale, lapsed, replied>>

PostFails(t) ==
  /\ Go(t, "post", NextStage(t))
  /\ UNCHANGED <<accessVars, user, needed, round, todo, rowVars, replied>>

Prompting(t) ==
  \/ PromptNotNeeded(t) \/ PromptStarts(t)
  \/ \E s \in Server : PersistRow(t, s)
  \/ PersistFails(t) \/ PostLinks(t) \/ PostFails(t)

Answering(t) ==
  \/ CheckAccess(t) \/ AgentAnswers(t) \/ AgentLacksAccess(t)
  \/ AnswerLacksAccess(t) \/ AnswerStands(t)

==============================================================================
