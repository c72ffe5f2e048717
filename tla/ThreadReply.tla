----------------------------- MODULE ThreadReply ------------------------------
(***************************************************************************)
(* How one answer reaches its Slack thread (postAgentResponseToThread and  *)
(* publishThreadReply in internal/slack/handlers.go, and progress.go).     *)
(* A placeholder is posted first; while the agent runs, progress replaces  *)
(* its text; the reply replaces it in the end, with retries and a warning  *)
(* before each.  Without the placeholder the reply is a message of its     *)
(* own.  Calls to Slack may be refused, or accepted with the               *)
(* acknowledgement lost; a call that timed out may take effect later.      *)
(***************************************************************************)
EXTENDS Naturals, SequencesExt

CONSTANT MaxAttempts   \* slackWriteMaxAttempts, 3 in the code

ASSUME ReplyAssumption == MaxAttempts \in Nat \ {0}

VARIABLES thread,   \* texts of the bot's messages in the thread, in order
          known,    \* thinkingErr == nil: the placeholder is thread[1]
          phase,    \* where the goroutine of the turn is
          attempt,  \* of publishThreadReply
          lateUpdates, \* updates that timed out and have not taken effect yet
          latePosts,   \* such posts: how many of each text
          overtaken    \* history: did one take effect after the publication?

slackVars == <<thread, lateUpdates, latePosts, overtaken>>
replyVars == <<slackVars, known, phase, attempt>>

Text == {"working", "progress", "warning", "reply", "exhausted"}
Phase == {"think", "run", "write", "warnUpdate", "warnPost", "giveUp",
          "published", "failed"}
Ended == {"published", "failed"}

\* Types; a known placeholder exists, and only what was written may be late.
ReplyTypeOK ==
  /\ thread \in Seq(Text)
  /\ known \in BOOLEAN /\ (known => thread # <<>>)
  /\ phase \in Phase
  /\ attempt \in 1..MaxAttempts
  /\ lateUpdates \subseteq Text /\ (lateUpdates # {} => known)
  /\ latePosts \in [Text -> Nat]
  /\ phase = "think" => ~known
  /\ overtaken \in BOOLEAN

ReplyInit ==
  /\ thread = <<>> /\ known = FALSE
  /\ phase = "think"
  /\ attempt = 1
  /\ lateUpdates = {} /\ latePosts = [text \in Text |-> 0] /\ overtaken = FALSE

-----------------------------------------------------------------------------
(* Calls to Slack.                                                         *)

\* chat.postMessage and chat.update have taken effect.
Posted(text) ==
  /\ thread' = Append(thread, text)
  /\ UNCHANGED <<lateUpdates, latePosts, overtaken>>
Updated(text) ==
  /\ thread' = [thread EXCEPT ![1] = text]
  /\ UNCHANGED <<lateUpdates, latePosts, overtaken>>

NoEffect == UNCHANGED slackVars

\* A call returned an error: refused, or done, or still to be done.
PostLost(text) ==
  \/ NoEffect
  \/ Posted(text)
  \/ /\ latePosts' = [latePosts EXCEPT ![text] = @ + 1]
     /\ UNCHANGED <<thread, lateUpdates, overtaken>>
UpdateLost(text) ==
  \/ NoEffect
  \/ Updated(text)
  \/ /\ lateUpdates' = lateUpdates \cup {text}
     /\ UNCHANGED <<thread, latePosts, overtaken>>

\* Calls whose errors are ignored.
TryPost(text) == PostLost(text)
TryUpdate(text) == UpdateLost(text)

-----------------------------------------------------------------------------
(* The turn.                                                               *)

PostThinking ==
  /\ phase = "think"
  /\ \/ Posted("working") /\ known' = TRUE
     \/ PostLost("working") /\ known' = FALSE
  /\ phase' = "run"
  /\ UNCHANGED attempt

\* Fault variant: progress is reported by a goroutine that outlives the run.
PushAnyTime ==
  /\ phase # "think" /\ known
  /\ TryUpdate("progress")
  /\ UNCHANGED <<known, phase, attempt>>

\* progress.Push, when it is not throttled: the agent and its tools report in
\* the goroutine of the turn.  Without a placeholder there is no publisher.
Push ==
  /\ phase = "run" /\ known
  /\ TryUpdate("progress")
  /\ UNCHANGED <<known, phase, attempt>>

\* The run has ended; progress.Flush.
Flush ==
  /\ phase = "run"
  /\ IF known THEN TryUpdate("progress") ELSE NoEffect
  /\ phase' = "write"
  /\ UNCHANGED <<known, attempt>>

\* writeThreadReply returns nil.
WriteThreadReply ==
  /\ phase = "write"
  /\ IF known THEN Updated("reply") ELSE Posted("reply")
  /\ phase' = "published"
  /\ UNCHANGED <<known, attempt>>

\* Fault variant: one attempt too many.
IsPastLast == attempt > MaxAttempts

IsLast == attempt = MaxAttempts

WriteFails ==
  /\ phase = "write"
  /\ IF known THEN UpdateLost("reply") ELSE PostLost("reply")
  /\ phase' = CASE IsLast -> "giveUp"
                [] ~IsLast /\ known -> "warnUpdate"
                [] OTHER -> "warnPost"
  /\ UNCHANGED <<known, attempt>>

\* notifySlackRetry: the warning replaces the placeholder's text ...
WarnInPlace ==
  /\ phase = "warnUpdate"
  /\ TryUpdate("warning")
  /\ phase' = "warnPost"
  /\ UNCHANGED <<known, attempt>>

\* Fault variant: the next attempt is not counted.
RetryUncounted ==
  /\ phase = "warnPost"
  /\ TryPost("warning")
  /\ phase' = "write"
  /\ UNCHANGED <<known, attempt>>

\* ... and is posted to the thread; then the loop goes round.
WarnAndRetry ==
  /\ phase = "warnPost"
  /\ TryPost("warning")
  /\ attempt' = attempt + 1
  /\ phase' = "write"
  /\ UNCHANGED known

\* Fault variant: the last failure is announced as if a retry followed.
GiveUpAsRetry ==
  /\ phase = "giveUp"
  /\ TryPost("warning")
  /\ phase' = "failed"
  /\ UNCHANGED <<known, attempt>>

\* notifySlackRetryExhausted.
GiveUp ==
  /\ phase = "giveUp"
  /\ TryPost("exhausted")
  /\ phase' = "failed"
  /\ UNCHANGED <<known, attempt>>

\* A call that timed out takes effect.
UpdateTakesEffect(text) ==
  /\ text \in lateUpdates
  /\ thread' = [thread EXCEPT ![1] = text]
  /\ lateUpdates' = lateUpdates \ {text}
  /\ UNCHANGED latePosts

PostTakesEffect(text) ==
  /\ latePosts[text] > 0
  /\ thread' = Append(thread, text)
  /\ latePosts' = [latePosts EXCEPT ![text] = @ - 1]
  /\ UNCHANGED lateUpdates

TakesEffect ==
  /\ \E text \in Text : UpdateTakesEffect(text) \/ PostTakesEffect(text)
  /\ overtaken' = (overtaken \/ phase = "published")
  /\ UNCHANGED <<known, phase, attempt>>

\* The steps of publishThreadReply.
PublishStep == WriteThreadReply \/ WriteFails \/ WarnInPlace \/ WarnAndRetry \/ GiveUp

TurnStep == PostThinking \/ Flush \/ PublishStep

ReplyNext == TurnStep \/ Push \/ TakesEffect

ReplySpec == ReplyInit /\ [][ReplyNext]_replyVars

\* publishThreadReply has a fresh context of slackWriteTimeout for each attempt
\* and each warning (handlers.go:433).  Nothing is assumed of what comes before
\* it: the placeholder is posted with the context of the caller, which has no
\* deadline in the event loop, and so are the calls of the agent run.
ReplyFairSpec == ReplySpec /\ WF_replyVars(PublishStep)

-----------------------------------------------------------------------------
(* Properties.                                                             *)

\* A warning is written before another attempt only, and in place only when
\* there is a placeholder.
RetryInv ==
  /\ phase = "warnUpdate" => known
  /\ phase \in {"warnUpdate", "warnPost"} => attempt < MaxAttempts

\* docs/oauth-flow.md:51 has the bot "Update thread with response": when
\* publishThreadReply returns nil, the reply is what the placeholder shows, or
\* the last message where there was none.  Progress of the run and warnings of
\* earlier attempts do not cover it, unless Slack carries one out only then,
\* after its call was given up.
ReplyStands ==
  phase = "published" /\ ~overtaken =>
    IF known THEN thread[1] = "reply" ELSE Last(thread) = "reply"

\* A warning says "Retrying ..." (handlers.go:415): however many of a turn's
\* warnings reached the thread as messages, an attempt has followed each.
Warnings == {i \in (IF known THEN 2 ELSE 1)..Len(thread) : thread[i] = "warning"}
WarningsAnnounceRetries == Cardinality(Warnings) < attempt

\* The same of the warnings that are still to appear.
WarningCount == Cardinality(Warnings) + latePosts["warning"]
WarningsCounted == WarningCount < attempt

\* The inductive invariant.
ReplyIInv == ReplyTypeOK /\ RetryInv /\ ReplyStands /\ WarningsCounted

\* A publication that has begun ends: its reply is accepted or given up on,
\* whatever Slack refuses, loses or does late.
ReplyingEnds == phase = "write" ~> phase \in Ended
==============================================================================
