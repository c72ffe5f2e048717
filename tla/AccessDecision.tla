--------------------------- MODULE AccessDecision ---------------------------
(***************************************************************************)
(* How one turn decides which MCP servers to ask its user to connect       *)
(* (internal/slack/mcp_access.go, postAgentResponseToThread of             *)
(* internal/slack/handlers.go), and the calls to the model in between,     *)
(* which are retried under a deadline (internal/openaiadapter).            *)
(*                                                                         *)
(* Before the run the turn reads the servers, then the tokens of the user, *)
(* and has the model classify the prompt.  After the run it may have the   *)
(* model classify the reply, and reads servers and tokens again before it  *)
(* offers anything.  Administrators and authorizations change both tables  *)
(* at any time.  AgentTurn takes each of these checks as one step.         *)
(***************************************************************************)
EXTENDS Naturals, FiniteSets

CONSTANTS Row,             \* rows of mcp_servers with an issuer
          KeyOf,           \* the name of a row in lower case
          Mentioned,       \* rows whose name or host occurs in the prompt
          Definition,      \* mcp_servers of the agents a turn may run
          Deadline,        \* mcpAccessClassifierTimeout (12 s)
          InitialBackoff,  \* 1 s
          BackoffMultiple, \* 2
          MaxRetries,      \* maxLLMRetries (3)
          MaxEdits,        \* bound on the changes of servers and tokens
          None

ASSUME AccessAssumption ==
  /\ Mentioned \subseteq Row
  /\ Definition \subseteq SUBSET Row
  /\ {Deadline, InitialBackoff, BackoffMultiple, MaxRetries, MaxEdits} \subseteq Nat
  /\ None \notin Row /\ None \notin {KeyOf[r] : r \in Row}

VARIABLES servers,  \* enabled rows
          tokens,   \* rows the user has an unexpired token for
          edits,
          at,       \* where the turn is
          round,    \* "before" the run, it "failed" for access, "after" it
          listed,   \* servers as last listed
          asked,    \* candidates; once classified, the missing servers
          needed,   \* names the classifier answered, in lower case
          tools,    \* rows the agent runs with
          lacked,   \* row without access that made the run fail, or None
          found,    \* rows the prompt offers
          attempt, backoff,       \* of the call to the model: which
          elapsed, wait,          \* attempt, next pause, time, rest of a pause
          held,     \* history: enabled and connected since the check began
          lost      \* history: enabled and unconnected since it began

tableVars == <<servers, tokens, edits>>
choiceVars == <<listed, asked, needed, tools, lacked, found>>
callVars == <<attempt, backoff, elapsed, wait>>
historyVars == <<held, lost>>
vars == <<tableVars, at, round, choiceVars, callVars, historyVars>>

Keys(rows) == {KeyOf[r] : r \in rows}

\* Types; what is needed are names of servers.
TypeOK ==
  /\ {servers, tokens, listed, asked, tools, found, held, lost} \subseteq SUBSET Row
  /\ edits \in 0..MaxEdits
  /\ at \in {"list", "tokens", "call", "backoff", "resolve", "run", "judge",
             "relist", "retokens", "post", "done"}
  /\ round \in {"before", "failed", "after"}
  /\ needed \subseteq Keys(Row)
  /\ lacked \in Row \cup {None}
  /\ attempt \in 0..MaxRetries
  /\ {backoff, elapsed, wait} \subseteq Nat

Go(from, to) == at = from /\ at' = to

\* Rows the user lacks access to; a token counts for every row whose name
\* differs in case only (ListConnectedMCPServers returns lower case).
Lacks(r, rows, toks) == KeyOf[r] \notin Keys(rows \cap toks)

\* A check begins: what is true of the tables now.
Observe ==
  /\ held' = servers \cap tokens
  /\ lost' = {r \in servers : Lacks(r, servers, tokens)}

Forget == held' = {} /\ lost' = {}

Init ==
  /\ servers \in SUBSET Row /\ tokens \in SUBSET Row
  /\ edits = 0
  /\ at = "list" /\ round = "before"
  /\ listed = {} /\ asked = {} /\ needed = {} /\ tools = {} /\ found = {}
  /\ lacked = None
  /\ attempt = 0 /\ backoff = InitialBackoff
  /\ elapsed = 0 /\ wait = 0
  /\ held = servers \cap tokens
  /\ lost = {r \in servers : Lacks(r, servers, tokens)}

-----------------------------------------------------------------------------
(* The tables.  Bound: MaxEdits.                                           *)

\* Administrators enable, disable, add and remove servers; authorizations
\* complete and tokens expire.
Edit ==
  /\ edits < MaxEdits
  /\ edits' = edits + 1
  /\ \/ servers' \in SUBSET Row /\ UNCHANGED tokens
     \/ UNCHANGED servers /\ \E r \in Row : tokens' \in {tokens \cup {r}, tokens \ {r}}
  /\ held' = held \cap servers' \cap tokens'
  /\ lost' = {r \in lost \cap servers' : Lacks(r, servers', tokens')}
  /\ UNCHANGED <<at, round, choiceVars, callVars>>

-----------------------------------------------------------------------------
(* unauthenticatedOAuthServers before the run.                             *)

\* Fault variant: names are compared as they are written.
UnauthenticatedAsWritten(rows, wanted) ==
  {r \in rows : (wanted = {} \/ KeyOf[r] \in wanted) /\ r \notin servers \cap tokens}

\* filterUnauthenticatedOAuthServers, with the tokens read at this moment.
Unauthenticated(rows, wanted) ==
  {r \in rows : (wanted = {} \/ KeyOf[r] \in wanted) /\ Lacks(r, servers, tokens)}

ListServers ==
  /\ Go("list", "tokens")
  /\ listed' = servers
  /\ UNCHANGED <<tableVars, round, asked, needed, tools, lacked, found, callVars, historyVars>>

NoCall ==
  /\ attempt' = 0 /\ backoff' = InitialBackoff
  /\ elapsed' = 0 /\ wait' = 0

ListTokens ==
  /\ at = "tokens"
  /\ asked' = Unauthenticated(listed, {})
  /\ at' = IF asked' = {} THEN "resolve" ELSE "call"
  /\ NoCall
  /\ UNCHANGED <<tableVars, round, listed, needed, tools, lacked, found, historyVars>>

\* An error of either query is logged; the run goes on without candidates.
CheckFails ==
  /\ at \in {"list", "tokens"}
  /\ at' = "resolve"
  /\ Forget
  /\ UNCHANGED <<tableVars, round, choiceVars, callVars>>

-----------------------------------------------------------------------------
(* classifyOAuthMCPAccess and the model adapter.                           *)

\* Fault variant: the call has no timeout.
NeverDead == FALSE

\* The context of the classification is done.
Dead == elapsed >= Deadline

Awake == wait = 0 \/ Dead

\* Nothing waits longer than it must.  Bound: elapsed.
Tick ==
  /\ \/ at = "call" /\ ~Dead
     \/ at = "backoff" /\ ~Awake
  /\ elapsed <= Deadline
  /\ elapsed' = elapsed + 1
  /\ wait' = IF wait = 0 THEN 0 ELSE wait - 1
  /\ UNCHANGED <<tableVars, at, round, choiceVars, attempt, backoff, historyVars>>

\* Fault variant: candidates of the whole prompt count as missing.
AllAsked(keys) == asked

\* missingServers: filterUnauthenticatedOAuthServers of the candidates by the
\* names needed, unless none is.
MissingServers(keys) == {r \in asked : KeyOf[r] \in keys}

\* The names the classification of the prompt, or of the reply, ends with.
Decide(keys) ==
  /\ NoCall
  /\ IF round = "before"
     THEN /\ at' = "resolve"
          /\ needed' = keys
          /\ asked' = MissingServers(keys)
          /\ Forget
     ELSE /\ at' = IF keys = {} THEN "done" ELSE "relist"
          /\ Observe
          /\ UNCHANGED <<needed, asked>>

\* Fault variant: names the model made up are kept.
AnyName(named) == named

\* parseMCPAccessDecision, uniqueConfiguredServers: only names of candidates
\* count, in any case; the answer's field "needed" does not.
Matched(named) == named \cap Keys(asked)

\* The model answers; text that is not JSON names nothing.
ModelAnswers ==
  /\ at = "call"
  /\ ~Dead
  /\ \E named \in SUBSET (Keys(Row) \cup {None}) : Decide(Matched(named))
  /\ UNCHANGED <<tableVars, round, listed, tools, lacked, found>>

\* mentionedOAuthMCPServers: candidates the text mentions.  What the reply
\* mentions is open.
FallBack ==
  \E text \in (IF round = "before" THEN {Mentioned} ELSE SUBSET Row) :
    Decide(Keys(asked \cap text))

\* An answer without text is an error of Complete.
ModelAnswersNothing ==
  /\ at = "call"
  /\ ~Dead
  /\ FallBack
  /\ UNCHANGED <<tableVars, round, listed, tools, lacked, found>>

\* The request fails: an error that is not retried, or the last attempt, or
\* the context is done.
CallFails ==
  /\ at = "call"
  /\ FallBack
  /\ UNCHANGED <<tableVars, round, listed, tools, lacked, found>>

\* isRetryableError: timeouts, 429, 5xx.
AttemptFails ==
  /\ Go("call", "backoff")
  /\ ~Dead /\ attempt < MaxRetries
  /\ wait' = backoff
  /\ UNCHANGED <<tableVars, round, choiceVars, attempt, backoff, elapsed, historyVars>>

\* Woken by the end of the pause or of the context, it tries once more.
Retry ==
  /\ Go("backoff", "call")
  /\ Awake
  /\ attempt' = attempt + 1 /\ backoff' = backoff * BackoffMultiple
  /\ wait' = 0
  /\ UNCHANGED <<tableVars, round, choiceVars, elapsed, historyVars>>

-----------------------------------------------------------------------------
(* agents.Runtime.Run.                                                     *)

\* filterMCPServers: the enabled servers the agent lists, by their exact
\* names; all of them if it lists none.
Selected(def) == {r \in servers : def = {} \/ r \in def}

\* resolveAgentDefinition: the agent named, else the first one, else the
\* default; then its servers.
SelectServers ==
  /\ Go("resolve", "run")
  /\ \E def \in Definition : tools' = Selected(def)
  /\ UNCHANGED <<tableVars, round, listed, asked, needed, lacked, found, callVars, historyVars>>

\* The run answers, or fails for another reason than access; or there is no
\* definition, no list of servers or no toolset to run with.
RunEnds ==
  /\ at \in {"resolve", "run"}
  /\ at' = "judge"
  /\ round' = "after"
  /\ tools' = {}
  /\ UNCHANGED <<tableVars, listed, asked, needed, lacked, found, callVars, historyVars>>

\* isMCPAuthError: a server answered that its token is missing or rejected.
RunLacksAccess(r) ==
  /\ Go("run", "relist")
  /\ r \in tools
  /\ round' = "failed"
  /\ lacked' = r
  /\ tools' = {}
  /\ Observe
  /\ UNCHANGED <<tableVars, listed, asked, needed, found, callVars>>

-----------------------------------------------------------------------------
(* After the run, and promptMissingMCPAccess.                              *)

\* Nothing was missing before the run: the reply is published as it is.
NothingMissing ==
  /\ Go("judge", "done")
  /\ asked = {}
  /\ UNCHANGED <<tableVars, round, choiceVars, callVars, historyVars>>

\* The reply says that it cannot.
ReplyCannot ==
  /\ Go("judge", "relist")
  /\ asked # {}
  /\ Observe
  /\ UNCHANGED <<tableVars, round, choiceVars, callVars>>

ClassifyReply ==
  /\ Go("judge", "call")
  /\ asked # {}
  /\ NoCall
  /\ UNCHANGED <<tableVars, round, choiceVars, historyVars>>

\* Where the turn goes on after a prompt for access.
AfterPrompt == IF round = "failed" THEN "judge" ELSE "done"
EndPrompt ==
  /\ at' = AfterPrompt /\ round' = "after"
  /\ found' = {} /\ lacked' = None
  /\ Forget

\* Fault variant: the list of before the run is used again.
UseListAgain == UNCHANGED listed

ListAgain == listed' = servers

RelistServers ==
  /\ Go("relist", "retokens")
  /\ ListAgain
  /\ UNCHANGED <<tableVars, round, asked, needed, tools, lacked, found, callVars, historyVars>>

\* No names needed means all that are missing.
FindMissing ==
  /\ Go("retokens", "post")
  /\ found' = Unauthenticated(listed, needed)
  /\ found' # {}
  /\ UNCHANGED <<tableVars, round, listed, asked, needed, tools, lacked, callVars, historyVars>>

\* One of the queries fails, or the user has connected everything meanwhile.
NothingToOffer ==
  /\ \/ at = "relist"
     \/ at = "retokens"
  /\ EndPrompt
  /\ UNCHANGED <<tableVars, listed, asked, needed, tools, callVars>>

\* postMCPAuthPromptEphemeral; AgentTurn has its steps.
OfferAccess ==
  /\ at = "post"
  /\ EndPrompt
  /\ UNCHANGED <<tableVars, listed, asked, needed, tools, callVars>>

Check == ListServers \/ ListTokens \/ CheckFails
Wake == (CallFails /\ Dead) \/ Retry
Call == ModelAnswers \/ ModelAnswersNothing \/ CallFails \/ AttemptFails \/ Retry
Run == SelectServers \/ RunEnds \/ \E r \in Row : RunLacksAccess(r)
Prompt ==
  \/ NothingMissing \/ ReplyCannot \/ ClassifyReply
  \/ RelistServers \/ FindMissing \/ NothingToOffer \/ OfferAccess

Next == Edit \/ Tick \/ Check \/ Call \/ Run \/ Prompt
Spec == Init /\ [][Next]_vars

\* Assumed, for only the classifications have a deadline: queries, runs and
\* writes to Slack return or fail.  Of the model nothing is, but that time
\* passes and a context that is done ends its call.
Fairness == WF_vars(Check) /\ WF_vars(Run) /\ WF_vars(Prompt) /\ WF_vars(Wake) /\ WF_vars(Tick)
FairSpec == Spec /\ Fairness

-----------------------------------------------------------------------------
(* Properties.                                                             *)

\* Nobody is asked to connect, or judged to lack, a server they were
\* connected to all the while the two tables were read, under whatever case
\* its name is written.
ConnectedIsNotMissing ==
  /\ at = "post" => Keys(found) \cap Keys(held) = {}
  /\ at \in {"call", "backoff"} /\ round = "before" =>
       Keys(asked) \cap Keys(held) = {}

\* Offers follow the classification of the prompt: after a run that did not
\* fail for access, only servers it named are offered, whatever the reply
\* looks like and whatever has been enabled meanwhile.
OffersWereNeeded ==
  at = "post" /\ (round = "after" \/ needed # {}) => Keys(found) \subseteq needed

\* A run that failed because a server refused its token offers that server,
\* although it was not missing before the run, when nothing else was named.
LackedAccessIsOffered ==
  at = "post" /\ round = "failed" /\ needed = {} /\ lacked \in lost => lacked \in found

\* A model that never answers, or fails in every attempt, does not keep a turn
\* from its end: attempts and pauses share one deadline (openai.go:68-83).
TurnEnds == <>(at = "done")
==============================================================================
