# Slacker in TLA+

Models, model-checking runs and machine-checked proofs for Slacker, a Slack
bot that runs LLM agents with MCP tools and authorizes those tools per Slack
user with OAuth. Paths below are relative to the repository's root; every
definition that models code is listed with its lines in `PROJECT.json` under
`map`.

## 1. The system

One Go process, one Postgres database, one Redis, one object store. Three kinds of goroutine matter:

- the **event loop** (`internal/slack/runtime.go`), one goroutine that takes
  Slack's events off a channel and handles each to the end, agent run included;
- **HTTP handlers** (`internal/httpserver`), one goroutine per request, for the
  start and callback of OAuth authorizations;
- **resume goroutines**, one per successful callback, that rerun the prompt
  which lacked access.

They meet in the resolver's cache of MCP auth services, in the pending
authorizations of each service, in the Slack thread they write to, in the registry
of Block Kit blocks, in the list of recent messages, and in the database. A fourth,
small goroutine evicts old blocks from that registry.

### Components

| Component | State | Operations | What is hard | What makes it correct |
|---|---|---|---|---|
| Resolver of auth services, `cmd/slacker/main.go` | map name → Service | get, build, publish | two requests build for one name; rows change under the cache | one Service per name and process; get-or-create |
| OAuth endpoints and exchange, `internal/httpserver/oauth.go`, `internal/mcpauth` | pending map of each Service, token rows | start, callback | repeated callbacks, restarts between start and callback, providers failing | an authorization is one-shot; a fresh state is redeemable; a token precedes the resume |
| Event loop, `internal/slack/runtime.go` | messages seen in the last two minutes, bot identity | mention, message, slash command | twin events, redelivery, runs longer than the memory, identity resolved late | no double answers, no prompt lost |
| Agent turn and access prompt, `internal/slack/handlers.go`, `mcp_access.go` | resume requests | check, run, prompt, publish | partial failures between rows, links and replies; two prompts of a turn | a link is backed by its request; links for all that is missing |
| OAuth resume, `handlers.go` | resume requests | load, verify, announce, rerun, delete | two resumes of one request, crash before the delete | resumed for the owner who authorized; answered once |
| Dynamic client registration, `mcpauth/service.go` | credentials of the Service, row of `mcp_servers` | register, save | concurrent registrations, unguarded reads, save failures | credentials belong together and are saved |
| Reply publishing and progress, `handlers.go`, `progress.go` | the "working" message | publish, retry, progress | lost acknowledgements, late progress updates | the reply is the last text |
| Administration modals, `config_modal.go` | rows of `mcp_servers` | add, list, remove | modals submitted with old contents | static rows complete; removed rows stay removed |
| Model adapter, `openaiadapter` | none | complete, with retries | retries and pauses share a deadline | a classification ends in time |
| Access check, `mcp_access.go`, `agents/runtime.go` | none of its own | list servers, list tokens, classify, run, offer | tables read in two queries and read again; names in any case | who is connected is not asked; what a run lacked is offered |
| Memory, `memory/memory.go` | a table, a bounded list in Redis | save, recent | list lost, late, repeated or shorter than the table | what is read is the history; a turn reads its own message |
| Prompt documents, `prompt/service.go`, `objectstore` | rows of versions, objects | save | number read before it is taken; object and row are two writes | versions 1, 2, 3 ...; each leads to its text; an append-only log |
| Block Kit tools, `tooling/blockkit` | registry with eviction | store, consume, evict | load and delete are two steps; eviction runs beside them | shown once; kept until shown or expired; gone in the end |
| MCP toolsets, `mcpclient`, `mcpauth/resolver.go` | none | build, bearer token per request | token expires mid-run | token of the right user |
| Agent runtime, `agents` | sessions of the agent library | choose agent and servers, run | concurrent runs of a session | the servers the agent lists |
| Discovery, cipher, signed state, configuration, logging | none | pure or I/O | | |

The hazards, at the line where each bites, are in `PROJECT.json` under
`hazards`, each with the properties that would catch it or a note.

## 2. Modules

### Resolver: `ServiceRegistry`, `AuthServiceCache`

`ServiceRegistry` is the promise: a registry that answers `Get` with what is
registered and `Create` with what the caller just registered; a restart forgets
everything.

`AuthServiceCache` is the code of `newMCPAuthServiceResolver`, lock by lock:
`CacheHit`/`CacheMiss` (read lock), `Build` and its failures (no lock, reads the
row), `Publish` (write lock, second look). A request looks up one name and
builds at most one Service, so a Service is named after the request that built
it. `UpsertMCPServer`, `DeleteMCPServer` change rows at any time; `Restart`
drops the cache and every request in flight.

### OAuth endpoints: `OneShotAuthorization`, `OAuthExchange`

`OAuthExchange` extends the resolver. `at` says where a request is in the
resolver, `phase` where its handler is. A start stores an entry in the pending
map of *its* Service and redirects; a callback pops the entry from the map of
the Service *it* was given, exchanges, stores the token row, starts the resume
goroutine. Nonces are random, so an authorization is named after its start.
`OAuthCallback` may be taken by any number of requests for one authorization,
before or after a restart: page reloads, the back button, slow providers.
`ExchangeFails` stands for every error between the pop and the row (metadata,
token endpoint, encryption, database). `AuthorizeURLOrphaned` is the error
after the entry was stored.

`OneShotAuthorization` is the promise: none → issued → redeemed → connected or
spent. `OAuthExchange!OneShot` reads the status off handlers and maps.

### Event loop: `EventLoop`

Events wait in `queue`; `Ack` takes the first and acknowledges it before
anything is done. `markMessageAsNew` is `SkipDuplicate`/`MarkMessageAsNew` with
the eviction of old entries; then `Route` decides as `handleUserPrompt`,
`continueKnownThread` and `startChatConversation` do; then the run takes time.
Slack is modelled from how the code meets it: an event is delivered until it is
acknowledged (at most `MaxCopies` times), a mention has two events, the bot's
reply is an event of a bot. `Deliver` is in any order. `now` is a clock with
the bound `MaxTime`; the time a handler takes is counted in its run, at most
`MaxRun`. Whether a text mentions the bot is known to the loop once the bot id
is resolved; the configured display name, a second spelling, is left out.

### Turns and resumes: `AgentTurn`, `ResumeFlow`

`AgentTurn` is `postAgentResponseToThread` with the two places where it prompts
for access: after a run that failed for lack of it, and after a run that
answered so. A resume request is named after turn, prompt and server.
Persisting is one action per row, posting the links another, and each can fail.
What classifier and agent say is nondeterministic. `ResumeFlow` adds the
goroutine of the callback, administrators removing a server (the foreign key
cascades), rows growing stale, tokens expiring, and crashes. The event loop
runs one turn at a time; resumed turns run beside it. The retries of a Slack
write are one outcome here, success or failure.

### Administration and client registration: `AdminConfig`, `ClientRegistration`

`AdminConfig` is the table `mcp_servers` and the modals of `/slacker-config`. A
modal keeps what it listed when it was opened; a submission is one statement or
one transaction, handled by the event loop. A modal that is cancelled, refused
by `ValidAdd` or lost is `DropModal`. Opening fails without effect, so failures
have no action. Typed ids and secrets are model values.

`ClientRegistration` adds the starts of the HTTP server around
`resolveClientCredentials`: `ReadId`, `ReadSecret` (no lock), `RegisterClientDCR`,
`Lock`, `WriteId`, `WriteSecret` with the unlock, then the save, which updates
whatever row has the name by then, or fails and is logged. The resolver is taken
at the promise of `ServiceRegistry`: one Service per name, a copy of its row. A
client is named after the start that registered it; the provider may issue a
secret with it or none. Because the fields are read while they may be written, the read of
a field is a choice: the old text, the new one (the write came first), a mix of
the two (`Torn`), or a panic that ends the handler (`Fail`). `late` is a history
variable: whether a start began when another already had a client.

### Reply and progress: `ThreadReply`

One turn and its thread. `thread` holds the texts of the bot's messages, the
placeholder first. A call to Slack returns nil and took effect, or returns an
error and took effect, did not, or takes effect later (`TakesEffect`): an update
replaces the placeholder then (`lateUpdates`, one of each text), a post is one more
message (`latePosts`). `overtaken` remembers that one did after the publication.
`Push` is a progress report that is not throttled, `Flush` the last one, then
`WriteThreadReply`/`WriteFails`, `WarnInPlace` and `WarnAndRetry`, `GiveUp`. With
`known` false the same loop posts instead of updating; `postThreadTextWithRetry`,
which announces a resumed turn, is that case.

### Which servers to ask for: `AccessDecision`

One turn from the access check to its prompts, in the detail `AgentTurn` leaves
out. `ListServers` and `ListTokens` are the two queries, with `Edit` (an
administrator, an authorization, an expiry) between any steps; `ListConnectedMCPServers`'s
lower-case names are `Lacks`. The classification is the loop of
`ModelAdapter.GenerateContent` under the classifier's timeout: `AttemptFails`
pauses, `Awake` is the end of the pause or of the context, `Retry` doubles the
backoff and, as in the code, tries once more even when the context is done. An
answer may name anything (`Matched` keeps candidates, in any case; its field
`needed` is not used; text that is not JSON names nothing), an error falls back
on what the text mentions. `SelectServers` is the agent's choice: the agent
named, else the first, else the default one, and the servers it lists. The run
answers, or fails because a server refused its token (`RunLacksAccess`); then
the turn prompts (`RelistServers`, `FindMissing`, `OfferAccess`), possibly twice.
`held` and `lost` are history variables: what was connected, and what was not,
all the while since a check began.

### Prompt documents: `VersionLog`, `PromptVersions`

`VersionLog` is the promise: each document is a log of texts that only grows.

`PromptVersions` is `SaveVersion`: read the latest version (`guess`), put the text
under a key with the next number, then one transaction that finds or creates the
document, takes the number (`number`), inserts and commits. The number in the key
may differ from the row's; the key carries the hash of the text, taken here as
the text itself, so this does no harm (`RowsAreReadable`). Names may share a
folder (`Sanitize`). Postgres is external: read committed, and an insert of a
unique key waits (`Waits`) for the open transaction that inserted the same key.
Every call may fail with or without effect, also the commit. The program wires
the service at start-up (main.go:76) but only its tests call it yet.

### Recent messages: `RecentMemory`

The list of one channel. `Save` is its calls one by one: `Insert`, `Push`, `Trim`;
the errors of the last two are ignored, and the Redis client repeats a command
whose answer was lost, so a push arrives 0, 1 or 2 times. `Forget` is the expiry
of the key or a Redis that comes back empty. `Recent` reads the list
(`RangeFound`) or, without one, the table (`SelectRows`). The event loop saves and
then reads; resume goroutines read at any time. Messages are numbered in the order
they are saved; one content stands for one message. Two things about the callers:
they pass no embedding, and the literal of an empty one is refused by pgvector, so
that a message without an embedding is not kept (`Insertable`, `InsertFails`);
and the `recent` they read is not yet put into the prompt (handlers.go:311).

### Blocks: `BlockRegistry`

Runs `Store` blocks and end with a text that names any placeholders, their own or
others', once or more (an agent sees old ones in its session). Each is consumed
by `Load` and `Delete`, two steps on a `sync.Map`. `Sweep` is the ticker with the
entries `Range` will delete, `Evict` each deletion; `Tick` ages every block by one,
up to the time it is expired. `together` is a history variable: which runs
resolved their texts at one time.

## 3. Runs

| Run | Bounds | Shows |
|---|---|---|
| `oauth_exchange` | 1 server whose row comes and goes, 4 requests, 2 users | one Service per name, get-or-create, one-shot authorizations, fresh states redeemable, token before resume |
| `event_loop` | mention and thread reply, 2 copies, 1 restart, TTL 2, runs of 1 | at most one answer per process, and per event; only a crash loses a message |
| `event_loop_live` | mention and slash command, 1 restart, identity resolved late | every prompt that waits in a process that knows its id is answered or given up on, as long as no call hangs |
| `resume_flow` | 2 turns, 2 users, 1 server | links backed, resumed for the authorized owner, requests that are gone stay gone |
| `client_registration` | 1 server, 3 starts, 2 modals, 1 typed client | credentials whole, one registration per process, static rows complete, removed rows stay removed |
| `thread_reply` | 3 attempts | bounded attempts, a published reply stays, warnings followed by an attempt, a publication ends |
| `prompt_versions` | 3 saves, 2 names that share a folder, 2 texts | versions dense, rows readable, append-only log, saves end |
| `recent_memory` | 5 messages, list of 3, 2 asked for, 1 resume goroutine, pushes up to twice | the history, own message in front, no holes |
| `block_registry` | 2 runs of 1 block, 2 placeholders a text, TTL 2 | shown once, kept until shown, evicted in the end |
| `access_decision` | rows `jira`, `JIRA`, `wiki`; 2 edits; timeout 12, backoff 1, 3 retries | the connected not asked, offers needed, lacked access offered, turns end |
| `event_loop_mention` | identity resolved late | **violated**: a mention is passed over |
| `resume_twice` | 3 turns | **violated**: one request answered twice |

Why the bounds are enough. Four requests hold the races of the endpoints: two
starts whose lookups race, and two callbacks of one authorization; a second
server adds nothing, since maps and rows are per server, nor does a second content of the row, since a
Service is told apart by the request that built it. Two messages, one in the thread of
the other, with two copies of three events, hold every order of twins, copies and a
restart. Two
turns are one that prompts and one that resumes it and may prompt again; the
answering of one request twice needs a third. Three starts hold two that
register at once and one that reads between their writes; two modals hold one that
is submitted with what it listed before the other was. Three attempts are the code's, and so
are five buttons (`MaxButtons`), more than the runs have servers. Three saves hold
two that race for a number and a third that finds what they left. Five messages overfill a list of three by two, so
that a trim matters after a message that was not kept. Two runs that may name each
other's block, one of them twice, hold every race of `Load` and `Delete`; a TTL of two
tells a block about to expire from one that has. Two rows whose names differ in case
and one more, with two edits, hold a change between the queries and one between the
checks; timeout, backoff and retries are the code's.

Requests are interchangeable in the OAuth models, turns and users in
`ResumeFlow`, starts and modals in `ClientRegistration`; those runs use
symmetry, which is sound for invariants and for safety properties that treat
them alike. No run with a liveness property does.

Deadlock is checked except where a system really stops: in the runs of `EventLoop`,
whose clock stops at `MaxTime` when Slack has finished sending, and of `ThreadReply`,
`AccessDecision`, `PromptVersions` and `BlockRegistry`, whose turns, saves and runs
end.

### Fairness

Fairness is assumed where the code or the scheduler gives a reason for it; what a
property needs beyond that is a premise in the property, or called an assumption here.

`EventLoop!FairSpec` assumes weak fairness of taking the next event: the consumer
goroutine is scheduled, and `socket.Ack`, which only hands the library its answer,
returns. Of the handling that follows nothing is assumed, because the code gives it no
deadline: its posts to Slack (handlers.go:85, 104, 247, 564) use the context of the loop
and the client `slack.New` makes by default, its queries and the tool rounds of
`agents.Run` the same context. One such call that hangs stalls the loop, and every prompt
that waits. So `PromptsAreAnswered` has the premise `HandlingEnds`: whatever is
being handled ends sometime, or the process is restarted. It then says that the loop
itself loses no prompt. Nothing is assumed of Slack's deliveries, of
`resolveBotIdentity`, which gives up after five attempts, or of the clock.
`event_loop_live` has a restart and an identity that is resolved late; its property
speaks of prompts that wait in a process that knows its id and does not crash
meanwhile, because an acknowledged event is lost in a crash, and because of the
finding below.

`ThreadReply!ReplyFairSpec` assumes weak fairness of `publishThreadReply` only
(`PublishStep`): each attempt and each warning has a context of its own with
`slackWriteTimeout`, and the pauses between them are short. The placeholder before it and
the agent run may hang, as in the event loop; a turn may never get to its publication,
and `ReplyingEnds` begins there. How often the run reports progress is left open.

`PromptVersions!FairSpec` assumes that a statement which need not wait for another
transaction returns; failures are never forced. `BlockRegistry!FairSpec` assumes
that time passes and that the eviction is scheduled (`NewRegistry` starts it and
nothing stops it). `AccessDecision!FairSpec` assumes that time passes and that a call
whose context is done returns, which is what the deadline of a classification gives; of
the model no answer is assumed. That queries, the run and writes return or fail is an
assumption there, as that of `PromptVersions` is, and no promise of the code: `TurnEnds`
says that the classifications do not keep a turn from its end.

### Disagreements between code and text

Each violated run has an entry under `findings`, with the line quoted. In
short: a mention handled before the bot knows its id is ignored, and its twin
skipped; the resume request is deleted after the rerun rather than before.

The models show more behaviours that have no run of their own, because what they
contradict is loosely worded, or nothing is said. They are in the actions named:

- a cached Service is not rebuilt when its row changes (`CacheHit`,
  `UpsertMCPServer`; docs/oauth-flow.md:31);
- the twin of an event is answered again when it waited in the queue for longer
  than the two minutes the duplicate check remembers (`Evicted`; runtime.go:268);
- when recording a thread fails after its starter was posted, the replies it
  invites to are ignored (`PersistThread`, `IgnoreMessage`; handlers.go:84);
- a sixth missing server is persisted and gets no link (`AgentTurn`;
  handlers.go:534);
- a start may go on with the id of a registration and the secret from before it,
  since the fields are read outside the lock (`ReadId`, `ReadSecret`;
  service.go:321);
- a registration saved late makes a row `dcr` again that an administrator has
  made `static` in between (`SaveMCPRegistration`; README.md:187);
- a list modal disables the servers added after it was opened
  (`SetEnabledMCPServers`; repository.go:294);
- a warning replaces a reply that Slack had accepted without acknowledging it
  (`WarnInPlace`; handlers.go:338);
- a message is kept only with an embedding, and no caller passes one
  (`Insertable`; memory.go:132);
- when the classifier named another server, the one a run lacked is not offered
  (`FindMissing`; handlers.go:288), and servers the agent may not use are
  (`Selected`; agents/runtime.go:219).

## 4. Proofs

Proved for every value of the constants, from `NoneAssumption`,
`TurnAssumption`, `RegistrationAssumption`, `ReplyAssumption`, `AccessAssumption`,
`SaveAssumption`, `MemoryAssumption`, `RegistryAssumption`, `MessageAssumption` and
`BoundAssumption` only: that
`None` and `Torn` are none of the values they stand beside, that an
administrator does not type a client id a provider will issue later, that a
prompt has a button and a publication an attempt, that bounds and timeouts are
natural numbers, that no more recent messages are asked for than the list
keeps, and that messages are finitely many, mentions and commands among them, and
commands in no thread.

- `OAuthExchangeProofs`, the resolver: `CacheTypeCorrect`, `OneServiceCorrect`,
  `ResolverRefinesRegistry`. `OneServicePerName` is inductive with the types:
  a published Service stays until the restart that also forgets every answer
  (`PublishedStays`, `AnswerStays`), and a new answer is the cached one
  (`NewAnswerIsCached`). The refinement follows with the same lemmas.
- `OAuthExchangeProofs`, the endpoints: `InductiveInvariant`, with `TypeCorrect`,
  `RedeemedAtMostOnceCorrect`, `FreshStateCorrect`, `ResumedHasTokenCorrect` and
  `EndpointsAreOneShot`. `RedeemedAtMostOnce` alone is not inductive: nothing
  in it says that an entry still pending has no redeemer. `IInv` adds
  `PendingInv` (an entry is of a live start, in the map of its own Service, and
  unredeemed), `FreshInv` (an unredeemed live state has its entry),
  `HandlerInv` (which handlers exist in which phase) and `StoredInv` (a token
  row is never removed). That the two Services of start and callback are the
  same is `OneServicePerName`, preserved because every step of the endpoints is
  a step of the resolver or leaves it alone (`StepOfCache`). For the refinement,
  `StatusTable` gives the status of an authorization by cases and `StatusStep`
  maps each action to a step of the abstract specification or a stutter.
- `ResumeFlowProofs`: `ResumeInvariant`, with `ResumeTypeCorrect`,
  `LinkIsBackedCorrect` and `ResumedForOwnerCorrect`. `RowInv`, `OriginInv` and
  `ReplyInv` say that rows belong to turns under way, that a resumed turn comes
  from a link and a completed exchange, and that only a turn that has replied
  deletes its request. Most steps are inside one turn and have the same effect
  on these (`Inner`); they are treated together.
  `RequestAnsweredOnce` does not hold (see above); two theorems say how far it is
  from it. `DeletedRequestsStayDeleted`, of the property `DeletedStaysDeleted`: a
  request that is gone is not persisted again, because a prompt that still persists has
  posted no link (`LinkInv`).
  `AnsweredOnceUnlessOverlapping`: where no two turns rerun one request at a time
  (`Alone`) and a rerun that has replied deletes it (`Deletes`), it is answered once.
  These are hypotheses about behaviours, not about constants; the code guarantees
  neither, and that is the finding.
- `EventLoopProofs`: `EventLoopInvariant`, with `EventLoopTypeCorrect`,
  `AnsweredOncePerProcessCorrect`, `AtMostOneLostPerCrashCorrect` and
  `TakenPromptsConcludeCorrect`. A message is answered again when a copy or its twin
  is taken after its mark was evicted, so the invariant is a budget of time: what
  the loop may still handle before the channel holds nothing of the message
  (`TimeLeft`: messages not marked since, deliveries of commands, the rest of the
  run in hand), added to the age of the mark, stays within the TTL (`Covered`).
  `BurstFits` makes it true when the mark is made; time passes only in a run, which pays
  for it, or while nothing waits; eviction never takes a covered mark nor one made
  later (`EvictionSpares`). `CommandInv` bounds the runs of a command by its
  deliveries, `MarkInv` and `DeliveryInv` tie marks and acknowledgements to
  deliveries. A later process has no such budget for what the one before it saw; there
  the answers are counted against the events that are still to be acknowledged
  (`LaterProcess`). `LossNeedsCrash` says what each step may lose. That a prompt in
  the channel is taken, and in the end concluded, is `PromptsAreAnswered`, for TLC.
- `ClientRegistrationProofs`: `RegistrationInvariant`, with
  `RegistrationTypeCorrect`, `StaticHasClientCorrect`,
  `CredentialsAreWholeCorrect`, `RegistrationReusedCorrect` and
  `RemovedStaysRemovedCorrect`. `RowChanges` and `ServiceChanges` list what a
  step can make of one row and of one Service; everything about credentials
  follows from these. `CredentialsAreWhole` is not inductive: `PublishedInv` adds
  that a client is in use only after its start has registered it, so that the
  secret issued with it no longer changes, and that the secret is written over
  the id of the same start. `RegistrationReused` needs `KnownInv`: a Service that
  has a client keeps one, through both fields being read while they are written.
- `ReplyProofs`, the thread: `ReplyInvariant`, with `ReplyTypeCorrect`,
  `ReplyStandsCorrect`, `WarningsAnnounceRetriesCorrect` and `ReplyIsBounded`. `RetryInv` bounds the
  attempts. The reply is the last thing a turn writes, so only a call that was
  given up before can cover it, which is the exception `ReplyStands` makes.
  `WarningsAnnounceRetries` is not inductive, for a warning may still appear:
  `WarningsCounted` counts those with the ones in the thread, a warning written adds
  one at most, and a late one is in the count already. `StepsLeft` bounds the steps of a turn, whatever Slack does.
- `PromptVersionsProofs`: `VersionsInvariant`, with `VersionsTypeCorrect`,
  `VersionsAreDenseCorrect`, `RowsAreReadableCorrect` and `SavesRefineLog`. Density is
  not inductive: `CommitInv` says that an inserted number is free and taken by no
  other inserted row of the document (the unique index), `NumberInv` that it is at
  most one beyond the last row; together they make a commit append. `StoredInv` says
  that the object is there before the transaction, `ObjectInv` that its key names its
  text, so that writing a key again changes nothing. For the refinement, a commit
  appends the writer's text and every other step leaves each log as it is.
  `WaitsAreNotChainedCorrect` is the freedom from deadlock: a save that is waited for
  has inserted a version, and only commits, or a document that it alone knows
  (`HoldInv`, `CreatorInv`), and waits for none itself.
- `RecentMemoryProofs`: `MemoryInvariant`, with `MemoryTypeCorrect`,
  `RecentIsHistoryCorrect`, `ReadsOwnMessageCorrect` and `ListHasNoHolesCorrect`.
  `TableInv` orders the rows, `ListInv` says that the list is made of rows, newest
  first, `FrontInv` that the message saved last is in front of a list that exists
  once it was pushed. The lemmas before it are about prefixes, reversals and
  repeated pushes of sequences.
- `ReplyProofs`, the blocks: `RegistryInvariant`, with `RegistryTypeCorrect`,
  `ShownOnceCorrect` and `FreshUntilShownCorrect`. `ShownInv` is the reason for
  `ShownOnce`: a block that is shown and still in the registry is the one its run
  has loaded and is about to delete. `DueInv` says that what an eviction is about to
  delete has expired.
- `AccessDecisionProofs`: `AccessInvariant`, with `AccessTypeCorrect`,
  `ConnectedIsNotMissingCorrect`, `OffersWereNeededCorrect`,
  `LackedAccessIsOfferedCorrect` and `TurnIsBounded`. `TableInv` ties the two
  histories to the tables, `RoundInv` and `NeededInv` say which step belongs to which
  round and that after the run nothing is asked for unless a name was needed,
  `LostInv` carries what lacked access from the list to the offer. `TurnIsBounded`
  counts the steps that are left, of the turn, of the retries of a call and of its
  time: every step uses one of them up, in this order.

Model-checked only: the liveness properties (`ReplyingEnds`, `PromptsAreAnswered`,
`SaveEnds`, `EntriesGo`, `TurnEnds`), which are out of the prover's reach, since it
knows neither fairness nor ENABLED. What of them is safety is proved: the bounds on
steps (`ReplyIsBounded`, `TurnIsBounded`), that no waiting is chained
(`WaitsAreNotChainedCorrect`), and that no prompt is dropped (`TakenPromptsConcludeCorrect`).
The type invariants of `EventLoop` and `ResumeFlow` are proved and in no run; the
properties expected to be violated have their run only.

## 5. Not modelled, and the plan

Not modelled, with the reason for each under `components`: metadata discovery,
bearer tokens and MCP toolsets, the token cipher and signed states, process wiring
and configuration. Of parts that are modelled: the conversion of requests and
answers of the model API, the loop of tool calls and the sessions of the agent
library, the search by embedding, which has no caller, rendering, throttling and
wording.

Order of work, most important behaviour first:

1. done: `AuthServiceCache`, `OAuthExchange`, `EventLoop`, `AgentTurn`,
   `ResumeFlow`, `AdminConfig`, `ClientRegistration`, `ThreadReply`,
   `AccessDecision`, `PromptVersions`, `RecentMemory`, `BlockRegistry`, three abstract
   specifications, and proofs of the safety properties of all of them;
2. `AccessDecision` as the refinement of the checks `AgentTurn` takes as one step;
3. discovery: start and callback each discover the metadata of the provider, and both
   should arrive at the same token endpoint while the row is not edited.
