------------------------------ MODULE EventLoop ------------------------------
(***************************************************************************)
(* The Slack event loop (internal/slack/runtime.go): one goroutine takes   *)
(* events off the socket channel, acknowledges each, and handles it to the *)
(* end, agent run included, before it takes the next.                      *)
(*                                                                         *)
(* Slack sends a message event for every message, an app_mention event as  *)
(* well when the message mentions the bot, and sends an event again until  *)
(* it is acknowledged.  The runtime remembers the messages it has seen for *)
(* two minutes.  The reply of an agent is itself a message event, of a     *)
(* bot.  Slash commands go through the same loop without that memory.      *)
(***************************************************************************)
EXTENDS Integers, Sequences, FiniteSets

CONSTANTS Message,     \* user messages and slash commands
          Mention,     \* messages that mention the bot
          Slash,       \* slash commands
          ThreadOf,    \* the message whose thread a message is posted in, or None
          TTL,         \* how long a seen message is remembered
          MaxRun,      \* longest time the handling of one message takes
          MaxCopies,   \* deliveries of one event by Slack
          MaxTime,     \* bound on the clock
          MaxCrashes,  \* bound on restarts
          KnownAtStart,\* whether auth.test has answered before the first event
          None

ASSUME MessageAssumption ==
  /\ IsFiniteSet(Message)
  /\ Mention \subseteq Message /\ Slash \subseteq Message
  /\ Mention \cap Slash = {}
  /\ None \notin Message
  /\ ThreadOf \in [Message -> Message \cup {None}]
  /\ \A m \in Slash : ThreadOf[m] = None
ASSUME BoundAssumption ==
  /\ {TTL, MaxRun, MaxTime, MaxCrashes} \subseteq Nat
  /\ MaxCopies \in Nat \ {0}
  /\ KnownAtStart \in BOOLEAN

\* What Slack sends about the message m; "bot" is the agent's reply to it.
EventsOf(m) ==
  IF m \in Slash THEN {[msg |-> m, kind |-> "slash"]}
  ELSE {[msg |-> m, kind |-> "message"]}
       \cup (IF m \in Mention THEN {[msg |-> m, kind |-> "app_mention"]} ELSE {})
BotEvent(m) == [msg |-> m, kind |-> "bot"]
Event == (UNION {EventsOf(m) : m \in Message}) \cup {BotEvent(m) : m \in Message}

ASSUME NoneAssumption == None \notin Event /\ None \notin Nat

VARIABLES queue,     \* socket.Events: delivered, not yet acknowledged
          sent,      \* how often Slack has delivered each event
          acked,     \* events acknowledged to Slack
          stage,     \* of the consumer: "idle", "route" or "run"
          current,   \* the event being handled, or None
          busy,      \* how long its handling has taken
          seen,      \* processedMessages: when a message was marked, or None
          identity,  \* whether botUserID has been resolved
          threads,   \* chat_threads: roots of known threads
          now, crashes,
          answers,   \* agent runs started for each message
          ignored,   \* messages handled to the end without a run
          failed     \* messages given up on after an error

slackVars == <<sent, acked>>
consumerVars == <<stage, current>>
outcomeVars == <<answers, ignored, failed>>
vars == <<queue, slackVars, consumerVars, busy, seen, identity, threads, now, crashes, outcomeVars>>

Time == 0..MaxTime

TypeOK ==
  /\ queue \in Seq(Event)
  /\ sent \in [Event -> 0..MaxCopies] /\ acked \subseteq Event
  /\ stage \in {"idle", "route", "run"} /\ current \in Event \cup {None}
  /\ stage = "idle" <=> current = None
  /\ busy \in 0..MaxRun
  /\ seen \in [Message -> Time \cup {None}]
  /\ identity \in BOOLEAN
  /\ threads \subseteq Message
  /\ now \in Time /\ crashes \in 0..MaxCrashes
  /\ answers \in [Message -> Nat]
  /\ ignored \subseteq Message /\ failed \subseteq Message

Init ==
  /\ queue = <<>>
  /\ sent = [e \in Event |-> 0] /\ acked = {}
  /\ stage = "idle" /\ current = None /\ busy = 0
  /\ seen = [m \in Message |-> None]
  /\ identity = KnownAtStart
  /\ threads = {}
  /\ now = 0 /\ crashes = 0
  /\ answers = [m \in Message |-> 0]
  /\ ignored = {} /\ failed = {}

-----------------------------------------------------------------------------
(* Slack.                                                                  *)

\* Bounds: deliveries of an event.
CopiesOf(e) == IF e = BotEvent(e.msg) THEN 1 ELSE MaxCopies

\* Slack delivers an event that has not been acknowledged; a bot event
\* exists once the agent has replied, a thread reply once its thread does.
Deliver(e) ==
  /\ sent[e] < CopiesOf(e)
  /\ e \notin acked
  /\ e = BotEvent(e.msg) => answers[e.msg] > 0
  /\ ThreadOf[e.msg] # None => \E x \in EventsOf(ThreadOf[e.msg]) : sent[x] > 0
  /\ queue' = Append(queue, e)
  /\ sent' = [sent EXCEPT ![e] = @ + 1]
  /\ UNCHANGED <<acked, consumerVars, busy, seen, identity, threads, now, crashes, outcomeVars>>

\* Both events of a mention are on their way at the same time.
TwinsTogether ==
  \A m \in Message : (\E e \in EventsOf(m) : sent[e] > 0) => \A e \in EventsOf(m) : sent[e] > 0

\* Time passes while a message is being handled, or while there is nothing
\* to do.  Bounds: MaxTime, MaxRun.
Tick ==
  /\ now < MaxTime
  /\ TwinsTogether
  /\ IF stage = "run" THEN busy < MaxRun ELSE stage = "idle" /\ queue = <<>>
  /\ now' = now + 1
  /\ busy' = IF stage = "run" THEN busy + 1 ELSE busy
  /\ UNCHANGED <<queue, slackVars, consumerVars, seen, identity, threads, crashes, outcomeVars>>

-----------------------------------------------------------------------------
(* consumeEvents: take, acknowledge, handle.                               *)

\* Fault variant: the next event does not wait for the one being handled.
AckAnyTime(e) ==
  /\ queue # <<>>
  /\ e = Head(queue)
  /\ queue' = Tail(queue)
  /\ acked' = acked \cup {e}
  /\ UNCHANGED <<sent, busy, identity, threads, now, crashes>>

\* The next event is acknowledged before anything is done about it.
Ack(e) ==
  /\ stage = "idle"
  /\ queue # <<>>
  /\ e = Head(queue)
  /\ queue' = Tail(queue)
  /\ acked' = acked \cup {e}
  /\ UNCHANGED <<sent, busy, identity, threads, now, crashes>>

Pursue(e, s) == current' = e /\ stage' = s

\* handleMessageEvent returns at once when BotID is set.
IgnoreBotMessage(e) ==
  /\ Ack(e)
  /\ e = BotEvent(e.msg)
  /\ UNCHANGED <<consumerVars, seen, outcomeVars>>

HandleSlashCommand(e) ==
  /\ Ack(e)
  /\ e.kind = "slash"
  /\ Pursue(e, "route")
  /\ UNCHANGED <<seen, outcomeVars>>

\* Fault variant: the entry is evicted one tick early.
EvictedAtTTL == [m \in Message |-> IF seen[m] # None /\ now - seen[m] >= TTL THEN None ELSE seen[m]]

\* processedMessages without the entries older than the TTL.
Evicted == [m \in Message |-> IF seen[m] # None /\ now - seen[m] > TTL THEN None ELSE seen[m]]

\* markMessageAsNew, under its mutex.
SkipDuplicate(e) ==
  /\ Ack(e)
  /\ e.kind \in {"message", "app_mention"}
  /\ Evicted[e.msg] # None
  /\ seen' = Evicted
  /\ UNCHANGED <<consumerVars, outcomeVars>>

MarkMessageAsNew(e) ==
  /\ Ack(e)
  /\ e.kind \in {"message", "app_mention"}
  /\ Evicted[e.msg] = None
  /\ seen' = [Evicted EXCEPT ![e.msg] = now]
  /\ Pursue(e, "route")
  /\ UNCHANGED outcomeVars

-----------------------------------------------------------------------------
(* handleUserPrompt after the duplicate check, and respondChat.            *)

Routing(m) == stage = "route" /\ current # None /\ current.msg = m
UnchangedByRouting == UNCHANGED <<queue, slackVars, seen, identity, now, crashes>>

StopHandling == stage' = "idle" /\ current' = None /\ busy' = 0

\* postAgentResponseToThread begins.
StartRun(m) ==
  /\ answers' = [answers EXCEPT ![m] = @ + 1]
  /\ stage' = "run"
  /\ UNCHANGED <<current, busy>>

InKnownThread(m) == ThreadOf[m] # None /\ ThreadOf[m] \in threads
Root(m) == IF ThreadOf[m] = None THEN m ELSE ThreadOf[m]

\* UpsertChatThread; its error is only logged.
PersistThread(root) == threads' = threads \cup {root} \/ UNCHANGED threads

ContinueKnownThread(m) ==
  /\ Routing(m) /\ m \notin Slash
  /\ InKnownThread(m)
  /\ StartRun(m)
  /\ UnchangedByRouting /\ UNCHANGED <<threads, ignored, failed>>

\* GetChatThread fails: the message counts as handled.
ThreadLookupFails(m) ==
  /\ Routing(m) /\ m \notin Slash
  /\ ThreadOf[m] # None
  /\ failed' = failed \cup {m}
  /\ StopHandling
  /\ UnchangedByRouting /\ UNCHANGED <<threads, answers, ignored>>

\* Fault variant: the text of a message event is not searched for a mention.
AddressesByKind(e) == e.kind = "app_mention"

\* FromMention, or a mention recognized in the text.
AddressesBot(e) == e.kind = "app_mention" \/ (e.msg \in Mention /\ identity)

StartMentionConversation(m) ==
  /\ Routing(m) /\ m \notin Slash
  /\ ~InKnownThread(m)
  /\ AddressesBot(current)
  /\ PersistThread(Root(m))
  /\ StartRun(m)
  /\ UnchangedByRouting /\ UNCHANGED <<ignored, failed>>

IgnoreMessage(m) ==
  /\ Routing(m) /\ m \notin Slash
  /\ ~InKnownThread(m)
  /\ ~AddressesBot(current)
  /\ ignored' = ignored \cup {m}
  /\ StopHandling
  /\ UnchangedByRouting /\ UNCHANGED <<threads, answers, failed>>

\* The starter is posted; it is the root of a thread of its own.
StartChatConversation(m) ==
  /\ Routing(m) /\ m \in Slash
  /\ PersistThread(m)
  /\ StartRun(m)
  /\ UnchangedByRouting /\ UNCHANGED <<ignored, failed>>

StarterFails(m) ==
  /\ Routing(m) /\ m \in Slash
  /\ failed' = failed \cup {m}
  /\ StopHandling
  /\ UnchangedByRouting /\ UNCHANGED <<threads, answers, ignored>>

\* The run ends, with a reply or with an error that is logged.
FinishRun ==
  /\ stage = "run"
  /\ StopHandling
  /\ UnchangedByRouting /\ UNCHANGED <<threads, outcomeVars>>

-----------------------------------------------------------------------------
\* resolveBotIdentity, concurrently; after five failures it gives up.
ResolveBotIdentity ==
  /\ ~identity
  /\ identity' = TRUE
  /\ UNCHANGED <<queue, slackVars, consumerVars, busy, seen, threads, now, crashes, outcomeVars>>

\* The process stops and a new one connects.  Bound: MaxCrashes.
Crash ==
  /\ crashes < MaxCrashes
  /\ crashes' = crashes + 1
  /\ queue' = <<>>
  /\ StopHandling
  /\ seen' = [m \in Message |-> None]
  /\ identity' = FALSE
  /\ UNCHANGED <<slackVars, threads, now, outcomeVars>>

TakeEvent ==
  \E e \in Event :
    IgnoreBotMessage(e) \/ HandleSlashCommand(e) \/ SkipDuplicate(e) \/ MarkMessageAsNew(e)

Route ==
  \E m \in Message :
    \/ ContinueKnownThread(m) \/ ThreadLookupFails(m)
    \/ StartMentionConversation(m) \/ IgnoreMessage(m)
    \/ StartChatConversation(m) \/ StarterFails(m)

Next ==
  \/ \E e \in Event : Deliver(e)
  \/ Tick
  \/ TakeEvent \/ Route \/ FinishRun
  \/ ResolveBotIdentity
  \/ Crash

Spec == Init /\ [][Next]_vars

\* The consumer goroutine is scheduled, and handing socket.Ack its answer does
\* not block.  Nothing is assumed of the handling that follows: its posts to
\* Slack (handlers.go:85, 104, 247, 564), its queries and the tool rounds of
\* agents.Run are made with the context of the loop, which has no deadline.
Fairness == WF_vars(TakeEvent)
FairSpec == Spec /\ Fairness

-----------------------------------------------------------------------------
(* Properties.                                                             *)

\* Every message is answered at most once per process, whatever copies and
\* twins Slack sends, as long as a burst is handled within the TTL; a restart
\* forgets which messages were seen, but never makes for more answers than the
\* message has events.
BurstFits ==
  (Cardinality(Message \ Slash) + MaxCopies * Cardinality(Slash)) * MaxRun <= TTL
AnsweredOncePerProcess ==
  BurstFits => \A m \in Message \ Slash :
    answers[m] <= 1 + crashes /\ answers[m] <= Cardinality(EventsOf(m))

\* An event of m has been acknowledged, and its handling has had an outcome.
WasTaken(m) == EventsOf(m) \cap acked # {}
Concluded(m) == answers[m] > 0 \/ m \in ignored \cup failed

\* An event is acknowledged before it is handled (runtime.go:81), so a crash
\* loses the message in hand: but that one only, and nothing else loses any.
\* What was acknowledged is answered, given up on after an error that is logged,
\* found not to be for the bot, or in hand; the twins and copies that are
\* skipped are no exception.
Lost == {m \in Message : WasTaken(m) /\ ~Concluded(m) /\ ~Routing(m)}
AtMostOneLostPerCrash == Cardinality(Lost) <= crashes

\* Until it crashes, a process that knew its id from the start answers every
\* mention and every slash command it has taken off the channel, or gives it up
\* after an error: none is skipped with its twin, and none ignored.
TakenPromptsConclude ==
  KnownAtStart /\ crashes = 0 =>
    \A m \in Mention \cup Slash :
      WasTaken(m) => answers[m] > 0 \/ m \in failed \/ Routing(m)

\* agents/runtime.go:27 tells users that they start a conversation "by
\* mentioning the bot in a channel": once both events of a mention have been
\* handled it has not been passed over.
MentionsAreNotIgnored ==
  \A m \in Mention :
    m \in ignored /\ EventsOf(m) \subseteq acked /\ stage = "idle" => answers[m] > 0

\* No event of the message m has been taken, and one is in the channel.
Waits(m) == EventsOf(m) \cap acked = {} /\ \E i \in DOMAIN queue : queue[i] \in EventsOf(m)

\* Every call that the handling of an event makes returns, or the process is
\* restarted.  The code does not see to it: one call that hangs stalls the loop,
\* and with it all that waits in the channel.
HandlingEnds == []<>(stage = "idle")

\* As long as no call hangs, a prompt that waits in the channel of a process
\* that knows its own id, a mention or a slash command, is eventually answered,
\* or given up on after an error that is logged, unless the process crashes:
\* neither its twin nor the messages handled before it, nor what an earlier
\* process saw, make the loop lose it.
PromptsAreAnswered ==
  HandlingEnds =>
    \A m \in Mention \cup Slash, c \in 0..MaxCrashes :
      Waits(m) /\ identity /\ crashes = c ~> answers[m] > 0 \/ m \in failed \/ crashes > c
==============================================================================
