--------------------------- MODULE EventLoopProofs ----------------------------
(***************************************************************************)
(* Proofs about EventLoop, for any messages, mentions and slash commands,  *)
(* any number of deliveries and restarts, and any times.                   *)
(*                                                                         *)
(* A message that was marked is not answered again by the same process if  *)
(* its mark outlasts whatever of it is still in the channel.  The argument *)
(* is a budget of time: what the loop may still do before the channel is   *)
(* empty, added to the age of the mark, stays within the TTL.              *)
(***************************************************************************)
EXTENDS EventLoop, SequenceTheorems, FiniteSetTheorems, TLAPS

UserMessage == Message \ Slash
SlashEvent(s) == [msg |-> s, kind |-> "slash"]

Queued == {queue[i] : i \in DOMAIN queue}
Copies(e) == Cardinality({i \in DOMAIN queue : queue[i] = e})

\* One while the message m has been taken and neither run nor dropped.
Pending(m) == IF stage = "route" /\ current.msg = m THEN 1 ELSE 0

\* How many of the events of a user message have not been acknowledged.
Unacked(m) ==
  (IF [msg |-> m, kind |-> "message"] \in EventsOf(m) \ acked THEN 1 ELSE 0) +
  (IF [msg |-> m, kind |-> "app_mention"] \in EventsOf(m) \ acked THEN 1 ELSE 0)

\* Messages that may still be marked before m is marked again.
Later(m) == {x \in UserMessage : seen[x] = None \/ seen[x] < seen[m]}

\* Deliveries of slash commands that may still be run.
CommandsLeft == {p \in Slash \X (1..MaxCopies) : p[2] > answers[p[1]]}

\* What is left of the time of the message that is being handled.
CurrentLeft ==
  IF stage = "run" \/ (stage = "route" /\ current.msg \notin Slash) THEN MaxRun - busy ELSE 0

TimeLeft(m) ==
  (Cardinality(Later(m)) + Cardinality(CommandsLeft)) * MaxRun + CurrentLeft

\* The mark of m outlasts what may still be handled.
Covered(m) == seen[m] # None /\ now - seen[m] + TimeLeft(m) <= TTL

-----------------------------------------------------------------------------
(* The inductive invariant.                                                *)

IdleInv == stage # "run" => busy = 0

\* A mark is of the past, and of a message of which an event was taken.
MarkInv ==
  \A m \in Message :
    seen[m] # None => m \in UserMessage /\ seen[m] <= now /\ EventsOf(m) \cap acked # {}

\* Nothing is taken that was not delivered; the first process loses nothing.
DeliveryInv ==
  /\ \A e \in acked \cup Queued : sent[e] > 0
  /\ crashes = 0 => \A e \in Event : sent[e] > 0 => e \in acked \cup Queued

\* Each delivery of a slash command is run at most once.
CommandInv ==
  \A s \in Slash : answers[s] + Pending(s) + Copies(SlashEvent(s)) <= sent[SlashEvent(s)]

\* In the first process: once a message was taken, its mark outlasts what
\* is still to come of it.
FirstProcess(m) ==
  /\ EventsOf(m) \cap acked = {} => answers[m] + Pending(m) = 0
  /\ answers[m] + Pending(m) <= 1
  /\ EventsOf(m) \cap acked # {} /\ (EventsOf(m) \cap Queued # {} \/ ~(EventsOf(m) \subseteq acked))
       => Covered(m)

\* In a later one: an event is a reason for one more answer until it is
\* acknowledged, and again when a copy of it outlasts the mark; a message has
\* no more answers and reasons than events.
EventCount(m) == IF m \in Mention THEN 2 ELSE 1
Risk(m) == IF EventsOf(m) \cap acked \cap Queued # {} /\ ~Covered(m) THEN 1 ELSE 0
LaterProcess(m) == answers[m] + Pending(m) + Unacked(m) + Risk(m) <= EventCount(m)

AnswerInv ==
  BurstFits => \A m \in UserMessage : IF crashes = 0 THEN FirstProcess(m) ELSE LaterProcess(m)

Supported == TypeOK /\ IdleInv /\ MarkInv /\ DeliveryInv /\ CommandInv
IInv == Supported /\ AnswerInv

-----------------------------------------------------------------------------
(* Events and the channel.                                                 *)

LEMMA EventKinds ==
  ASSUME MessageAssumption, NEW e \in Event
  PROVE  /\ e.msg \in Message
         /\ e.kind = "slash" => e.msg \in Slash /\ e = SlashEvent(e.msg)
         /\ e.kind \in {"message", "app_mention"} => e.msg \in UserMessage /\ e \in EventsOf(e.msg)
         /\ \A m \in Message : e \in EventsOf(m) => e.msg = m /\ e # BotEvent(m)
BY DEF Event, EventsOf, BotEvent, SlashEvent, UserMessage, MessageAssumption

\* The events of a user message.
LEMMA EventsOfUser ==
  ASSUME NEW m \in UserMessage
  PROVE  /\ EventsOf(m) \subseteq Event
         /\ EventsOf(m) \subseteq
              {[msg |-> m, kind |-> "message"], [msg |-> m, kind |-> "app_mention"]}
         /\ [msg |-> m, kind |-> "message"] \in EventsOf(m)
         /\ \A e \in EventsOf(m) : e.msg = m /\ e.kind \in {"message", "app_mention"}
BY DEF EventsOf, Event, UserMessage

LEMMA EventOfSlash ==
  ASSUME MessageAssumption, NEW s \in Slash
  PROVE  SlashEvent(s) \in Event /\ SlashEvent(s).msg = s /\ SlashEvent(s) # BotEvent(s)
BY DEF SlashEvent, EventsOf, Event, BotEvent, MessageAssumption

\* An event that is delivered.
LEMMA Delivered ==
  ASSUME queue \in Seq(Event), NEW e \in Event, queue' = Append(queue, e)
  PROVE  /\ queue' \in Seq(Event)
         /\ Queued' = Queued \cup {e}
         /\ \A f \in Event : /\ Copies(f) \in Nat /\ Copies(f)' \in Nat
                             /\ Copies(f)' = IF f = e THEN Copies(f) + 1 ELSE Copies(f)
<1>1. /\ queue' \in Seq(Event) /\ Len(queue') = Len(queue) + 1 /\ Len(queue) \in Nat
      /\ \A i \in 1..Len(queue) : queue'[i] = queue[i]
      /\ queue'[Len(queue) + 1] = e
  BY AppendProperties, LenProperties
<1>2. DOMAIN queue = 1..Len(queue) /\ DOMAIN queue' = 1..(Len(queue) + 1)
  BY <1>1, LenProperties
<1>3. Queued' = Queued \cup {e}
  <2>1. \A f : f \in Queued' <=> f \in Queued \cup {e}
    BY <1>1, <1>2 DEF Queued
  <2> QED BY <2>1
<1>4. ASSUME NEW f \in Event
      PROVE  /\ Copies(f) \in Nat /\ Copies(f)' \in Nat
             /\ Copies(f)' = IF f = e THEN Copies(f) + 1 ELSE Copies(f)
  <2> DEFINE at == {i \in DOMAIN queue : queue[i] = f}
             last == Len(queue) + 1
  <2>1. IsFiniteSet(at) /\ last \notin at
    <3>1. IsFiniteSet(1..Len(queue)) /\ at \subseteq 1..Len(queue)
      BY <1>1, <1>2, FS_Interval
    <3> QED BY <1>1, <3>1, FS_Subset
  <2>2. at' = IF f = e THEN at \cup {last} ELSE at
    <3>1. \A i : i \in at' <=> i \in (IF f = e THEN at \cup {last} ELSE at)
      BY <1>1, <1>2
    <3> HIDE DEF at, last
    <3> QED BY <3>1
  <2>3. Copies(f) = Cardinality(at) /\ Copies(f)' = Cardinality(at')
    BY DEF Copies
  <2> HIDE DEF at, last
  <2>4. Cardinality(at) \in Nat /\ Cardinality(at \cup {last}) = Cardinality(at) + 1
    BY <2>1, FS_AddElement, FS_CardinalityType
  <2> QED BY <2>2, <2>3, <2>4
<1> QED BY <1>1, <1>3, <1>4

\* An event that is taken.
LEMMA Taken ==
  ASSUME queue \in Seq(Event), queue # <<>>, queue' = Tail(queue)
  PROVE  /\ queue' \in Seq(Event) /\ Head(queue) \in Queued
         /\ Queued' \subseteq Queued /\ Queued \subseteq Queued' \cup {Head(queue)}
         /\ \A f \in Event :
              /\ Copies(f) \in Nat /\ Copies(f)' \in Nat
              /\ Copies(f)' + (IF f = Head(queue) THEN 1 ELSE 0) <= Copies(f)
<1>1. /\ queue' \in Seq(Event) /\ Len(queue') = Len(queue) - 1 /\ Len(queue) \in Nat \ {0}
      /\ \A i \in 1..(Len(queue) - 1) : queue'[i] = queue[i + 1]
      /\ Head(queue) = queue[1]
  BY HeadTailProperties, EmptySeq
<1>2. DOMAIN queue = 1..Len(queue) /\ DOMAIN queue' = 1..(Len(queue) - 1)
  BY <1>1, LenProperties
<1>3. Queued' \subseteq Queued
  BY <1>1, <1>2 DEF Queued
<1>4. Queued \subseteq Queued' \cup {Head(queue)}
  <2> SUFFICES ASSUME NEW i \in 1..Len(queue), i # 1 PROVE queue[i] \in Queued'
    BY <1>1, <1>2 DEF Queued
  <2>1. i - 1 \in 1..(Len(queue) - 1) /\ queue'[i - 1] = queue[i]
    BY <1>1
  <2> QED BY <1>2, <2>1 DEF Queued
<1>5. ASSUME NEW f \in Event
      PROVE  /\ Copies(f) \in Nat /\ Copies(f)' \in Nat
             /\ Copies(f)' + (IF f = Head(queue) THEN 1 ELSE 0) <= Copies(f)
  <2> DEFINE at == {i \in DOMAIN queue : queue[i] = f}
             before == {i \in DOMAIN queue' : queue'[i] = f}
             behind == at \ {1}
  <2>1. IsFiniteSet(at) /\ IsFiniteSet(behind)
    <3>1. IsFiniteSet(1..Len(queue)) /\ at \subseteq 1..Len(queue) /\ behind \subseteq at
      BY <1>1, <1>2, FS_Interval
    <3> QED BY <1>1, <3>1, FS_Subset
  <2>2. IsFiniteSet(before) /\ Cardinality(before) = Cardinality(behind)
    <3> DEFINE back == [i \in behind |-> i - 1]
    <3>1. back \in Bijection(behind, before)
      <4>1. back \in [behind -> before]
        BY <1>1, <1>2
      <4>2. \A i, j \in behind : back[i] = back[j] => i = j
        BY <1>1, <1>2
      <4>3. \A j \in before : \E i \in behind : back[i] = j
        <5> TAKE j \in before
        <5>1. j \in 1..(Len(queue) - 1) /\ queue'[j] = f
          BY <1>2
        <5>2. j + 1 \in 1..Len(queue) /\ j + 1 # 1 /\ queue[j + 1] = f
          BY <1>1, <5>1
        <5>3. j + 1 \in behind
          BY <1>2, <5>2
        <5>4. back[j + 1] = j
          BY <5>1, <5>3
        <5> QED BY <5>3, <5>4
      <4> QED BY <4>1, <4>2, <4>3 DEF Bijection, Injection, Surjection, IsInjective
    <3> HIDE DEF behind, before, back
    <3>2. ExistsBijection(behind, before)
      BY <3>1 DEF ExistsBijection
    <3> QED BY <2>1, <3>2, FS_Bijection
  <2>3. 1 \in at <=> f = Head(queue)
    BY <1>1, <1>2
  <2>4. Copies(f) = Cardinality(at) /\ Copies(f)' = Cardinality(before)
    BY DEF Copies
  <2> HIDE DEF at, before
  <2>5. /\ Cardinality(at) \in Nat /\ Cardinality(before) \in Nat
        /\ Cardinality(behind) = IF 1 \in at THEN Cardinality(at) - 1 ELSE Cardinality(at)
    BY <2>1, <2>2, FS_RemoveElement, FS_CardinalityType
  <2> QED BY <2>2, <2>3, <2>4, <2>5
<1>6. Head(queue) \in Queued
  BY <1>1, <1>2 DEF Queued
<1> QED BY <1>1, <1>3, <1>4, <1>5, <1>6

LEMMA CopiesType ==
  ASSUME TypeOK, NEW e \in Event PROVE Copies(e) \in Nat
<1>1. Len(queue) \in Nat /\ DOMAIN queue = 1..Len(queue)
  BY LenProperties DEF TypeOK
<1>2. IsFiniteSet(1..Len(queue)) /\ {i \in DOMAIN queue : queue[i] = e} \subseteq 1..Len(queue)
  BY <1>1, FS_Interval
<1>3. IsFiniteSet({i \in DOMAIN queue : queue[i] = e})
  BY <1>2, FS_Subset
<1> QED BY <1>3, FS_CardinalityType DEF Copies

LEMMA Emptied ==
  ASSUME queue' = <<>>
  PROVE  queue' \in Seq(Event) /\ Queued' = {} /\ \A f : Copies(f)' = 0
<1>1. queue' \in Seq(Event) /\ DOMAIN queue' = {}
  BY EmptySeq, LenProperties
<1>2. Queued' = {}
  BY <1>1 DEF Queued
<1>3. ASSUME NEW f PROVE Copies(f)' = 0
  <2>1. {i \in DOMAIN queue' : queue'[i] = f} = {}
    BY <1>1
  <2> QED BY <2>1, FS_EmptySet DEF Copies
<1> QED BY <1>1, <1>2, <1>3

-----------------------------------------------------------------------------
(* Types and the supporting invariants.                                    *)

LEMMA EvictedTypes ==
  ASSUME TypeOK PROVE Evicted \in [Message -> Time \cup {None}]
BY DEF TypeOK, Evicted

LEMMA TypesPreserved ==
  ASSUME MessageAssumption, BoundAssumption, NoneAssumption, TypeOK, IdleInv, [Next]_vars
  PROVE  TypeOK'
<1> USE DEF Time
<1>1. CASE UNCHANGED vars
  BY <1>1 DEF vars, slackVars, consumerVars, outcomeVars, TypeOK
<1>2. ASSUME NEW e \in Event, Deliver(e) PROVE TypeOK'
  <2>1. queue' \in Seq(Event)
    BY <1>2, Delivered DEF Deliver, TypeOK
  <2>2. sent[e] + 1 \in 0..MaxCopies
    BY <1>2 DEF Deliver, CopiesOf, TypeOK, BoundAssumption
  <2> QED BY <1>2, <2>1, <2>2 DEF Deliver, consumerVars, outcomeVars, TypeOK
<1>3. CASE Tick
  <2>1. now' \in 0..MaxTime /\ busy' \in 0..MaxRun
    BY <1>3 DEF Tick, TypeOK, BoundAssumption
  <2> QED BY <1>3, <2>1 DEF Tick, slackVars, consumerVars, outcomeVars, TypeOK
<1>4. ASSUME NEW e \in Event, Ack(e)
      PROVE  /\ queue' \in Seq(Event) /\ acked' \subseteq Event
             /\ UNCHANGED <<sent, busy, identity, threads, now, crashes>> /\ e # None
  BY <1>4, Taken, NoneAssumption DEF Ack, TypeOK
<1>5. ASSUME NEW e \in Event, IgnoreBotMessage(e) \/ HandleSlashCommand(e) PROVE TypeOK'
  BY <1>4, <1>5
     DEF IgnoreBotMessage, HandleSlashCommand, Pursue, consumerVars, outcomeVars, TypeOK
<1>6. ASSUME NEW e \in Event, SkipDuplicate(e) \/ MarkMessageAsNew(e) PROVE TypeOK'
  <2>1. Ack(e) /\ UNCHANGED outcomeVars
    BY <1>6 DEF SkipDuplicate, MarkMessageAsNew
  <2>2. seen' \in [Message -> Time \cup {None}]
    <3>1. seen' = Evicted \/ seen' = [Evicted EXCEPT ![e.msg] = now]
      BY <1>6 DEF SkipDuplicate, MarkMessageAsNew
    <3>2. Evicted \in [Message -> Time \cup {None}] /\ now \in Time
      BY EvictedTypes DEF TypeOK
    <3> QED BY <3>1, <3>2
  <2>3. \/ UNCHANGED <<stage, current>>
        \/ stage' = "route" /\ current' = e
    BY <1>6 DEF SkipDuplicate, MarkMessageAsNew, Pursue, consumerVars
  <2>4. /\ queue' \in Seq(Event) /\ acked' \subseteq Event
        /\ UNCHANGED <<sent, busy, identity, threads, now, crashes>> /\ e # None
    BY <1>4, <2>1
  <2>5. /\ stage' \in {"idle", "route", "run"} /\ current' \in Event \cup {None}
        /\ stage' = "idle" <=> current' = None
    BY <2>3, <2>4 DEF TypeOK
  <2> QED BY <2>1, <2>2, <2>4, <2>5 DEF outcomeVars, TypeOK
<1>7. ASSUME NEW m \in Message,
             \/ ContinueKnownThread(m) \/ StartMentionConversation(m) \/ StartChatConversation(m)
      PROVE  TypeOK'
  <2>1. threads' \subseteq Message
    BY <1>7, MessageAssumption
       DEF ContinueKnownThread, StartMentionConversation, StartChatConversation, PersistThread,
           Root, TypeOK, MessageAssumption
  <2>2. /\ Routing(m) /\ StartRun(m)
        /\ UNCHANGED <<queue, sent, acked, seen, identity, now, crashes, ignored, failed>>
    BY <1>7 DEF ContinueKnownThread, StartMentionConversation, StartChatConversation,
                UnchangedByRouting, slackVars
  <2>3. answers' \in [Message -> Nat]
    BY <2>2 DEF StartRun, TypeOK
  <2>4. stage' = "run" /\ current # None /\ UNCHANGED <<current, busy>>
    BY <2>2 DEF StartRun, Routing
  <2> QED BY <2>1, <2>2, <2>3, <2>4 DEF TypeOK
<1>8. ASSUME NEW m \in Message, ThreadLookupFails(m) \/ IgnoreMessage(m) \/ StarterFails(m)
      PROVE  TypeOK'
  BY <1>8, BoundAssumption
     DEF ThreadLookupFails, IgnoreMessage, StarterFails, StopHandling, UnchangedByRouting,
         slackVars, TypeOK, BoundAssumption
<1>9. CASE FinishRun
  BY <1>9, BoundAssumption
     DEF FinishRun, StopHandling, UnchangedByRouting, slackVars, outcomeVars, TypeOK,
         BoundAssumption
<1>10. CASE ResolveBotIdentity
  BY <1>10 DEF ResolveBotIdentity, slackVars, consumerVars, outcomeVars, TypeOK
<1>11. CASE Crash
  <2>1. crashes' \in 0..MaxCrashes /\ 0 \in 0..MaxRun
    BY <1>11 DEF Crash, TypeOK, BoundAssumption
  <2>2. queue' \in Seq(Event)
    BY <1>11, Emptied DEF Crash
  <2> QED BY <1>11, <2>1, <2>2 DEF Crash, StopHandling, slackVars, outcomeVars, TypeOK
<1> QED BY <1>1, <1>2, <1>3, <1>5, <1>6, <1>7, <1>8, <1>9, <1>10, <1>11 DEF Next, TakeEvent, Route

LEMMA IdlePreserved ==
  ASSUME IdleInv, [Next]_vars PROVE IdleInv'
<1> USE DEF IdleInv
<1>1. CASE Tick
  BY <1>1 DEF Tick, consumerVars
<1>2. ASSUME NEW e \in Event, Ack(e) PROVE IdleInv'
  BY <1>2 DEF Ack
<1>3. CASE StopHandling
  BY <1>3 DEF StopHandling
<1>4. ASSUME NEW m \in Message, StartRun(m) PROVE IdleInv'
  BY <1>4 DEF StartRun
<1>5. CASE UNCHANGED <<stage, busy>>
  BY <1>5
<1> QED BY <1>1, <1>2, <1>3, <1>4, <1>5
        DEF Next, TakeEvent, Route, Deliver, IgnoreBotMessage, HandleSlashCommand, SkipDuplicate,
            MarkMessageAsNew, ContinueKnownThread, ThreadLookupFails, StartMentionConversation,
            IgnoreMessage, StartChatConversation, StarterFails, FinishRun, ResolveBotIdentity,
            Crash, vars, consumerVars

LEMMA DeliveryPreserved ==
  ASSUME MessageAssumption, BoundAssumption, TypeOK, DeliveryInv, [Next]_vars
  PROVE  DeliveryInv'
<1> USE DEF DeliveryInv
<1>1. ASSUME NEW e \in Event, Deliver(e) PROVE DeliveryInv'
  <2>1. Queued' = Queued \cup {e} /\ UNCHANGED <<acked, crashes>>
    BY <1>1, Delivered DEF Deliver, TypeOK
  <2>2. \A f \in Event : sent'[f] = (IF f = e THEN sent[f] + 1 ELSE sent[f]) /\ sent[f] \in Nat
    BY <1>1 DEF Deliver, TypeOK, BoundAssumption
  <2>3. acked \cup Queued' \subseteq Event
    <3>1. Queued \subseteq Event
      BY LenProperties DEF Queued, TypeOK
    <3> QED BY <2>1, <3>1 DEF TypeOK
  <2> QED BY <2>1, <2>2, <2>3
<1>2. ASSUME NEW e \in Event, Ack(e) PROVE DeliveryInv'
  <2>1. /\ e \in Queued /\ Queued' \subseteq Queued /\ Queued \subseteq Queued' \cup {e}
        /\ acked' = acked \cup {e} /\ UNCHANGED <<sent, crashes>>
    BY <1>2, Taken DEF Ack, TypeOK
  <2> QED BY <2>1
<1>3. CASE Crash
  <2>1. Queued' = {} /\ UNCHANGED <<sent, acked>> /\ crashes' # 0
    BY <1>3, Emptied DEF Crash, slackVars, TypeOK, BoundAssumption
  <2> QED BY <2>1
<1>4. CASE UNCHANGED <<queue, sent, acked, crashes>>
  BY <1>4 DEF Queued
<1> QED BY <1>1, <1>2, <1>3, <1>4
        DEF Next, TakeEvent, Route, Tick, IgnoreBotMessage, HandleSlashCommand, SkipDuplicate,
            MarkMessageAsNew, ContinueKnownThread, ThreadLookupFails, StartMentionConversation,
            IgnoreMessage, StartChatConversation, StarterFails, FinishRun, ResolveBotIdentity,
            UnchangedByRouting, vars, slackVars

\* What routing and the end of a run come to, as far as answers are concerned.
Start(m) ==
  Routing(m) /\ StartRun(m) /\ UNCHANGED <<queue, sent, acked, seen, now, crashes>>
Stop ==
  /\ stage # "idle" /\ StopHandling
  /\ UNCHANGED <<queue, sent, acked, seen, now, crashes, answers>>
Aside ==
  UNCHANGED <<queue, sent, acked, stage, current, busy, seen, now, crashes, answers>>

LEMMA StepKinds ==
  ASSUME [Next]_vars
  PROVE  \/ \E e \in Event :
              \/ Deliver(e)
              \/ IgnoreBotMessage(e) \/ HandleSlashCommand(e)
              \/ SkipDuplicate(e) \/ MarkMessageAsNew(e)
         \/ Tick \/ Crash
         \/ \E m \in Message : Start(m)
         \/ Stop \/ Aside
<1>1. ASSUME NEW m \in Message,
             \/ ContinueKnownThread(m) \/ StartMentionConversation(m) \/ StartChatConversation(m)
      PROVE  Start(m)
  BY <1>1 DEF ContinueKnownThread, StartMentionConversation, StartChatConversation,
              UnchangedByRouting, slackVars, Start
<1>2. ASSUME NEW m \in Message, ThreadLookupFails(m) \/ IgnoreMessage(m) \/ StarterFails(m)
      PROVE  Stop
  BY <1>2 DEF ThreadLookupFails, IgnoreMessage, StarterFails, Routing,
              UnchangedByRouting, slackVars, Stop
<1>3. CASE FinishRun
  BY <1>3 DEF FinishRun, UnchangedByRouting, slackVars, outcomeVars, Stop
<1>4. CASE ResolveBotIdentity \/ UNCHANGED vars
  BY <1>4 DEF ResolveBotIdentity, vars, slackVars, consumerVars, outcomeVars, Aside
<1> QED BY <1>1, <1>2, <1>3, <1>4 DEF Next, TakeEvent, Route

\* Starting a run turns a pending message into an answer.
LEMMA StartAnswers ==
  ASSUME TypeOK, NEW m \in Message, Start(m), NEW x \in Message
  PROVE  /\ answers[x] \in Nat /\ answers'[x] \in Nat
         /\ Pending(x) \in 0..1 /\ Pending(x)' \in 0..1
         /\ answers'[x] + Pending(x)' = answers[x] + Pending(x)
BY DEF Start, Routing, StartRun, Pending, TypeOK

LEMMA StopDrops ==
  ASSUME StopHandling, NEW x PROVE Pending(x) \in 0..1 /\ Pending(x)' = 0
BY DEF StopHandling, Pending

LEMMA TakePends ==
  ASSUME NEW e \in Event, Ack(e), NEW x
  PROVE  /\ Pending(x) = 0
         /\ UNCHANGED <<stage, current>> => Pending(x)' = 0
         /\ Pursue(e, "route") => Pending(x)' = IF e.msg = x THEN 1 ELSE 0
BY DEF Ack, Pursue, Pending, consumerVars

LEMMA EvictedMarks ==
  ASSUME TypeOK, NEW m \in Message
  PROVE  /\ Evicted[m] # None => Evicted[m] = seen[m]
         /\ Evicted[m] = None => seen[m] = None \/ now - seen[m] > TTL
BY DEF Evicted

LEMMA MarkPreserved ==
  ASSUME MessageAssumption, TypeOK, MarkInv, [Next]_vars PROVE MarkInv'
<1> USE DEF MarkInv
<1>1. CASE Tick
  BY <1>1 DEF Tick, slackVars, TypeOK, Time
<1>2. ASSUME NEW e \in Event, Ack(e), UNCHANGED seen PROVE MarkInv'
  BY <1>2 DEF Ack
<1>3. ASSUME NEW e \in Event, SkipDuplicate(e) PROVE MarkInv'
  BY <1>3, EvictedMarks DEF SkipDuplicate, Ack
<1>4. ASSUME NEW e \in Event, MarkMessageAsNew(e) PROVE MarkInv'
  <2>1. e.msg \in UserMessage /\ e \in EventsOf(e.msg) /\ e \in acked' /\ UNCHANGED now
    BY <1>4, EventKinds DEF MarkMessageAsNew, Ack
  <2>2. /\ acked \subseteq acked' /\ now \in Nat
        /\ \A m \in Message : seen'[m] = IF m = e.msg THEN now ELSE Evicted[m]
    BY <1>4 DEF MarkMessageAsNew, Ack, TypeOK, Evicted, Time
  <2> SUFFICES ASSUME NEW m \in Message, seen'[m] # None
               PROVE  m \in UserMessage /\ seen'[m] <= now' /\ EventsOf(m) \cap acked' # {}
    OBVIOUS
  <2>3. CASE m = e.msg
    BY <2>1, <2>2, <2>3
  <2>4. CASE m # e.msg
    BY <2>1, <2>2, <2>4, EvictedMarks
  <2> QED BY <2>3, <2>4
<1>5. CASE Crash
  BY <1>5 DEF Crash
<1>6. CASE UNCHANGED <<seen, now, acked>>
  BY <1>6
<1> QED BY <1>1, <1>2, <1>3, <1>4, <1>5, <1>6, StepKinds
        DEF Deliver, IgnoreBotMessage, HandleSlashCommand, Start, Stop, Aside

LEMMA CommandPreserved ==
  ASSUME MessageAssumption, BoundAssumption, TypeOK, CommandInv, [Next]_vars PROVE CommandInv'
<1> SUFFICES ASSUME NEW s \in Slash
             PROVE  answers'[s] + Pending(s)' + Copies(SlashEvent(s))' <= sent'[SlashEvent(s)]
  BY DEF CommandInv
<1> DEFINE c == SlashEvent(s)
<1>1. c \in Event /\ c.msg = s /\ c.kind = "slash" /\ s \in Message
  BY EventOfSlash DEF SlashEvent, MessageAssumption
<1>2. /\ answers[s] + Pending(s) + Copies(c) <= sent[c]
      /\ answers[s] \in Nat /\ sent[c] \in Nat
  BY <1>1 DEF CommandInv, TypeOK, BoundAssumption
<1>3. Pending(s) \in 0..1
  BY DEF Pending
<1> HIDE DEF c
<1> SUFFICES answers'[s] + Pending(s)' + Copies(c)' <= sent'[c]
  BY DEF c
<1>4. ASSUME NEW e \in Event, Deliver(e)
      PROVE  answers'[s] + Pending(s)' + Copies(c)' <= sent'[c]
  <2>1. /\ Copies(c) \in Nat /\ Copies(c)' = IF c = e THEN Copies(c) + 1 ELSE Copies(c)
    BY <1>1, <1>4, Delivered DEF Deliver, TypeOK
  <2>2. sent'[c] = IF c = e THEN sent[c] + 1 ELSE sent[c]
    BY <1>1, <1>4 DEF Deliver, TypeOK
  <2>3. Pending(s)' = Pending(s) /\ UNCHANGED answers
    BY <1>4 DEF Deliver, Pending, consumerVars, outcomeVars
  <2> QED BY <1>2, <1>3, <2>1, <2>2, <2>3
<1>5. ASSUME NEW e \in Event, UNCHANGED answers,
             Ack(e),
             UNCHANGED <<stage, current>> \/ (Pursue(e, "route") /\ (e.msg = s => e = c))
      PROVE  answers'[s] + Pending(s)' + Copies(c)' <= sent'[c]
  <2>1. /\ Copies(c) \in Nat /\ Copies(c)' \in Nat
        /\ Copies(c)' + (IF c = e THEN 1 ELSE 0) <= Copies(c)
    BY <1>1, <1>5, Taken DEF Ack, TypeOK
  <2>2. Pending(s)' = 0 \/ (c = e /\ Pending(s)' = 1)
    BY <1>1, <1>5, TakePends
  <2>3. Pending(s) = 0 /\ UNCHANGED sent
    BY <1>5, TakePends DEF Ack
  <2> QED BY <1>2, <1>5, <2>1, <2>2, <2>3
<1>6. ASSUME NEW e \in Event,
             \/ IgnoreBotMessage(e) \/ HandleSlashCommand(e)
             \/ SkipDuplicate(e) \/ MarkMessageAsNew(e)
      PROVE  answers'[s] + Pending(s)' + Copies(c)' <= sent'[c]
  <2>1. HandleSlashCommand(e) => (e.msg = s => e = c)
    BY EventKinds DEF HandleSlashCommand, c
  <2>2. MarkMessageAsNew(e) => e.msg # s
    BY EventKinds DEF MarkMessageAsNew, UserMessage
  <2>3. Ack(e) /\ UNCHANGED answers
    BY <1>6 DEF IgnoreBotMessage, HandleSlashCommand, SkipDuplicate, MarkMessageAsNew, outcomeVars
  <2>4. UNCHANGED <<stage, current>> \/ (Pursue(e, "route") /\ (e.msg = s => e = c))
    <3>1. CASE IgnoreBotMessage(e) \/ SkipDuplicate(e)
      BY <3>1 DEF IgnoreBotMessage, SkipDuplicate, consumerVars
    <3>2. CASE HandleSlashCommand(e)
      BY <2>1, <3>2 DEF HandleSlashCommand
    <3>3. CASE MarkMessageAsNew(e)
      BY <2>2, <3>3 DEF MarkMessageAsNew
    <3> QED BY <1>6, <3>1, <3>2, <3>3
  <2> QED BY <1>5, <2>3, <2>4
<1>7. ASSUME UNCHANGED <<queue, sent>>, answers'[s] + Pending(s)' <= answers[s] + Pending(s),
             answers'[s] \in Nat, Pending(s)' \in 0..1
      PROVE  answers'[s] + Pending(s)' + Copies(c)' <= sent'[c]
  <2>1. Copies(c)' = Copies(c) /\ Copies(c) \in Nat
    BY <1>1, <1>7, CopiesType DEF Copies
  <2> QED BY <1>2, <1>3, <1>7, <2>1
<1>8. ASSUME NEW m \in Message, Start(m)
      PROVE  answers'[s] + Pending(s)' + Copies(c)' <= sent'[c]
  BY <1>1, <1>7, <1>8, StartAnswers DEF Start
<1>9. CASE Stop
  <2>1. Pending(s)' = 0 /\ UNCHANGED <<queue, sent, answers>>
    BY <1>9, StopDrops DEF Stop
  <2> QED BY <1>2, <1>3, <1>7, <2>1
<1>10. CASE Tick \/ Aside
  BY <1>2, <1>3, <1>7, <1>10 DEF Tick, Aside, Pending, slackVars, consumerVars, outcomeVars
<1>11. CASE Crash
  <2>1. Copies(c)' = 0 /\ Pending(s)' = 0 /\ UNCHANGED <<sent, answers>>
    BY <1>11, Emptied, StopDrops DEF Crash, slackVars, outcomeVars
  <2>2. Copies(c) \in Nat
    BY <1>1, CopiesType
  <2> QED BY <1>2, <1>3, <2>1, <2>2
<1> QED BY <1>4, <1>6, <1>8, <1>9, <1>10, <1>11, StepKinds

-----------------------------------------------------------------------------
(* The budget.                                                             *)

LEMMA TimesMonotonic ==
  ASSUME NEW a \in Nat, NEW b \in Nat, a <= b, NEW k \in Nat
  PROVE  a * k \in Nat /\ b * k \in Nat /\ a * k <= b * k /\ (a + 1) * k = a * k + k
<1>1. PICK d \in Nat : b = a + d
  <2>1. b - a \in Nat /\ b = a + (b - a)
    OBVIOUS
  <2> QED BY <2>1
<1>2. b * k = a * k + d * k /\ d * k \in Nat /\ a * k \in Nat /\ b * k \in Nat
  BY <1>1
<1>3. (a + 1) * k = a * k + k
  OBVIOUS
<1> QED BY <1>2, <1>3

LEMMA UserMessagesFinite ==
  ASSUME MessageAssumption, NEW S \in SUBSET UserMessage
  PROVE  IsFiniteSet(S) /\ Cardinality(S) \in Nat /\ Cardinality(S) <= Cardinality(UserMessage)
<1>1. IsFiniteSet(UserMessage)
  BY FS_Difference DEF UserMessage, MessageAssumption
<1>2. IsFiniteSet(S) /\ Cardinality(S) <= Cardinality(UserMessage)
  BY <1>1, FS_Subset
<1> QED BY <1>2, FS_CardinalityType

LEMMA CommandsFinite ==
  ASSUME MessageAssumption, BoundAssumption, NEW S \in SUBSET (Slash \X (1..MaxCopies))
  PROVE  /\ IsFiniteSet(S) /\ Cardinality(S) \in Nat
         /\ Cardinality(S) <= Cardinality(Slash) * MaxCopies /\ Cardinality(Slash) \in Nat
<1>1. IsFiniteSet(Slash) /\ Cardinality(Slash) \in Nat
  BY FS_Subset, FS_CardinalityType DEF MessageAssumption
<1>2. IsFiniteSet(1..MaxCopies) /\ Cardinality(1..MaxCopies) = MaxCopies
  <2>1. 1 \in Int /\ MaxCopies \in Int /\ MaxCopies >= 1
    BY DEF BoundAssumption
  <2>2. /\ IsFiniteSet(1..MaxCopies)
        /\ Cardinality(1..MaxCopies) = IF 1 > MaxCopies THEN 0 ELSE MaxCopies - 1 + 1
    BY <2>1, FS_Interval
  <2> QED BY <2>1, <2>2
<1>3. /\ IsFiniteSet(Slash \X (1..MaxCopies))
      /\ Cardinality(Slash \X (1..MaxCopies)) = Cardinality(Slash) * MaxCopies
  BY <1>1, <1>2, FS_Product
<1>4. IsFiniteSet(S) /\ Cardinality(S) <= Cardinality(Slash) * MaxCopies
  BY <1>3, FS_Subset
<1> QED BY <1>1, <1>4, FS_CardinalityType

LEMMA BudgetTypes ==
  ASSUME MessageAssumption, BoundAssumption, TypeOK, NEW m \in UserMessage
  PROVE  /\ Cardinality(Later(m)) \in Nat /\ Cardinality(CommandsLeft) \in Nat
         /\ CurrentLeft \in 0..MaxRun /\ TimeLeft(m) \in Nat
         /\ seen[m] # None => seen[m] \in Nat /\ now \in Nat
<1>1. Cardinality(Later(m)) \in Nat /\ Cardinality(CommandsLeft) \in Nat
  BY UserMessagesFinite, CommandsFinite DEF Later, CommandsLeft
<1>2. MaxRun \in Nat /\ CurrentLeft \in 0..MaxRun
  BY DEF CurrentLeft, TypeOK, BoundAssumption
<1>3. (Cardinality(Later(m)) + Cardinality(CommandsLeft)) * MaxRun \in Nat
  BY <1>1, <1>2, TimesMonotonic
<1>4. seen[m] # None => seen[m] \in Nat /\ now \in Nat
  BY DEF TypeOK, Time, UserMessage
<1> QED BY <1>1, <1>2, <1>3, <1>4 DEF TimeLeft

\* A mark stays good if the budget pays for the time that passes.
LEMMA BudgetPays ==
  ASSUME MessageAssumption, BoundAssumption, TypeOK, TypeOK', NEW m \in UserMessage, Covered(m),
         seen'[m] = seen[m], TimeLeft(m)' \in Int,
         now' + TimeLeft(m)' <= now + TimeLeft(m)
  PROVE  Covered(m)'
<1>1. /\ seen[m] # None /\ now - seen[m] + TimeLeft(m) <= TTL
      /\ seen[m] \in Int /\ TimeLeft(m) \in Int
  BY BudgetTypes DEF Covered
<1>2. {now, now', TTL} \subseteq Int
  BY DEF TypeOK, Time, BoundAssumption
<1>3. now' - seen[m] + TimeLeft(m)' <= TTL
  BY <1>1, <1>2
<1> QED BY <1>1, <1>3 DEF Covered

\* Eviction takes neither a mark that is good nor one made after it.
LEMMA EvictionSpares ==
  ASSUME MessageAssumption, BoundAssumption, TypeOK, NEW m \in UserMessage, Covered(m)
  PROVE  /\ Evicted[m] = seen[m]
         /\ \A x \in UserMessage :
              /\ Evicted[x] = None <=> seen[x] = None \/ now - seen[x] > TTL
              /\ Evicted[x] # None => Evicted[x] = seen[x]
              /\ Evicted[x] = None => x \in Later(m)
<1>1. seen[m] # None /\ seen[m] \in Nat /\ now \in Nat /\ TTL \in Nat /\ now - seen[m] <= TTL
  BY BudgetTypes DEF Covered, BoundAssumption
<1>2. \A x \in UserMessage :
        Evicted[x] = IF seen[x] # None /\ now - seen[x] > TTL THEN None ELSE seen[x]
  BY DEF Evicted, UserMessage
<1>3. \A x \in UserMessage : seen[x] # None => seen[x] \in Nat
  BY DEF TypeOK, Time, UserMessage
<1> QED BY <1>1, <1>2, <1>3 DEF Later

\* Steps that cost nothing.
LEMMA CoverKept ==
  ASSUME MessageAssumption, BoundAssumption, TypeOK, TypeOK', NEW m \in UserMessage, Covered(m),
         seen' \in {seen, Evicted}, UNCHANGED now,
         \A s \in Slash : answers'[s] >= answers[s],
         CurrentLeft' \in Int, CurrentLeft' <= CurrentLeft
  PROVE  Covered(m)'
<1>1. seen'[m] = seen[m] /\ Later(m)' = Later(m)
  <2>1. CASE seen' = seen
    BY <2>1 DEF Later
  <2>2. CASE seen' = Evicted
    <3>1. seen'[m] = seen[m]
      BY <2>2, EvictionSpares
    <3>2. \A x \in UserMessage : x \in Later(m)' <=> x \in Later(m)
      BY <2>2, <3>1, EvictionSpares DEF Later
    <3>3. Later(m)' \subseteq UserMessage /\ Later(m) \subseteq UserMessage
      BY DEF Later
    <3> QED BY <3>1, <3>2, <3>3
  <2> QED BY <2>1, <2>2
<1>2. CommandsLeft' \subseteq CommandsLeft
  BY DEF CommandsLeft, TypeOK, MessageAssumption
<1>3. /\ Cardinality(CommandsLeft') \in Nat
      /\ Cardinality(CommandsLeft') <= Cardinality(CommandsLeft)
  <2>1. CommandsLeft \subseteq Slash \X (1..MaxCopies)
    BY DEF CommandsLeft
  <2>2. IsFiniteSet(CommandsLeft)
    BY <2>1, CommandsFinite
  <2> QED BY <1>2, <2>2, FS_Subset, FS_CardinalityType
<1> DEFINE l == Cardinality(Later(m))
           before == l + Cardinality(CommandsLeft)
           after == l + Cardinality(CommandsLeft')
<1>4. before \in Nat /\ after \in Nat /\ after <= before /\ MaxRun \in Nat
  BY <1>3, BudgetTypes DEF BoundAssumption
<1>5. TimeLeft(m) = before * MaxRun + CurrentLeft /\ TimeLeft(m)' = after * MaxRun + CurrentLeft'
  BY <1>1 DEF TimeLeft
<1> HIDE DEF before, after
<1>6. after * MaxRun <= before * MaxRun /\ after * MaxRun \in Nat /\ before * MaxRun \in Nat
  BY <1>4, TimesMonotonic
<1>7. TimeLeft(m)' <= TimeLeft(m) /\ TimeLeft(m)' \in Int /\ TimeLeft(m) \in Nat
  BY <1>5, <1>6, BudgetTypes
<1>8. now' + TimeLeft(m)' <= now + TimeLeft(m)
  BY <1>7 DEF TypeOK, Time
<1> QED BY <1>1, <1>7, <1>8, BudgetPays

\* The run of a slash command is paid for by a delivery of it.
LEMMA CoverPaidByCommand ==
  ASSUME MessageAssumption, BoundAssumption, Supported, TypeOK', NEW m \in UserMessage, Covered(m),
         NEW s \in Slash, Start(s)
  PROVE  Covered(m)'
<1> DEFINE p == <<s, answers[s] + 1>>
<1>1. /\ stage = "route" /\ current.msg = s /\ stage' = "run" /\ busy = 0 /\ busy' = 0
      /\ answers' = [answers EXCEPT ![s] = @ + 1] /\ UNCHANGED <<seen, now>>
  BY DEF Start, Routing, StartRun, Supported, IdleInv
<1>2. answers[s] \in Nat /\ answers[s] + 1 \in 1..MaxCopies
  <2>1. answers[s] + Pending(s) + Copies(SlashEvent(s)) <= sent[SlashEvent(s)]
    BY DEF Supported, CommandInv
  <2>2. /\ Pending(s) = 1 /\ Copies(SlashEvent(s)) \in Nat /\ answers[s] \in Nat
        /\ sent[SlashEvent(s)] \in 0..MaxCopies
    BY <1>1, EventOfSlash, CopiesType DEF Pending, Supported, TypeOK, MessageAssumption
  <2> QED BY <2>1, <2>2 DEF BoundAssumption
<1>3. p \in CommandsLeft /\ CommandsLeft' = CommandsLeft \ {p}
  <2>1. \A x \in Slash :
          answers[x] \in Nat /\ answers'[x] = IF x = s THEN answers[s] + 1 ELSE answers[x]
    BY <1>1 DEF Supported, TypeOK, MessageAssumption
  <2>2. p \in CommandsLeft
    BY <1>2 DEF CommandsLeft
  <2>3. \A x \in Slash, k \in 1..MaxCopies : k > answers'[x] <=> k > answers[x] /\ <<x, k>> # p
    BY <2>1 DEF BoundAssumption
  <2>4. \A q \in Slash \X (1..MaxCopies) : q[2] > answers'[q[1]] <=> q[2] > answers[q[1]] /\ q # p
    BY <2>3
  <2> HIDE DEF p
  <2> QED BY <2>2, <2>4 DEF CommandsLeft
<1> HIDE DEF p
<1> DEFINE l == Cardinality(Later(m))
           c == Cardinality(CommandsLeft)
           a == l + Cardinality(CommandsLeft')
<1>4. Cardinality(CommandsLeft') = c - 1 /\ Cardinality(CommandsLeft') \in Nat
  <2>1. /\ CommandsLeft \subseteq Slash \X (1..MaxCopies)
        /\ CommandsLeft' \subseteq Slash \X (1..MaxCopies)
    BY DEF CommandsLeft
  <2>2. IsFiniteSet(CommandsLeft) /\ Cardinality(CommandsLeft') \in Nat
    BY <2>1, CommandsFinite
  <2> QED BY <1>3, <2>2, FS_RemoveElement
<1>5. l \in Nat /\ c \in Nat /\ a \in Nat /\ l + c = a + 1 /\ MaxRun \in Nat
  BY <1>4, BudgetTypes DEF Supported, BoundAssumption
<1>6. (l + c) * MaxRun = a * MaxRun + MaxRun /\ a * MaxRun \in Nat
  BY <1>5, TimesMonotonic
<1>7. Later(m)' = Later(m) /\ CurrentLeft = 0 /\ CurrentLeft' = MaxRun
  BY <1>1, <1>5 DEF Later, CurrentLeft
<1>8. TimeLeft(m) = (l + c) * MaxRun /\ TimeLeft(m)' = a * MaxRun + MaxRun
  <2>1. TimeLeft(m) = (l + c) * MaxRun + 0 /\ TimeLeft(m)' = a * MaxRun + MaxRun
    BY <1>7 DEF TimeLeft
  <2> QED BY <1>6, <2>1
<1>9. TimeLeft(m)' = TimeLeft(m) /\ TimeLeft(m)' \in Int
  BY <1>5, <1>6, <1>8
<1>10. now' + TimeLeft(m)' <= now + TimeLeft(m)
  BY <1>1, <1>9 DEF Supported, TypeOK, Time
<1> QED BY <1>1, <1>9, <1>10, BudgetPays DEF Supported

\* The time a run takes is its own.
LEMMA CoverPaidByRun ==
  ASSUME MessageAssumption, BoundAssumption, TypeOK, TypeOK', NEW m \in UserMessage, Covered(m),
         Tick, stage = "run"
  PROVE  Covered(m)'
<1>1. /\ now' = now + 1 /\ now \in Nat /\ UNCHANGED <<seen, answers, stage>>
      /\ busy \in Nat /\ busy' = busy + 1 /\ MaxRun \in Nat
  BY DEF Tick, consumerVars, outcomeVars, TypeOK, Time, BoundAssumption
<1>2. Later(m)' = Later(m) /\ CommandsLeft' = CommandsLeft
  BY <1>1 DEF Later, CommandsLeft
<1>3. CurrentLeft = MaxRun - busy /\ CurrentLeft' = MaxRun - busy - 1
  BY <1>1 DEF CurrentLeft
<1>4. TimeLeft(m)' = TimeLeft(m) - 1 /\ TimeLeft(m) \in Nat
  <2> DEFINE b == (Cardinality(Later(m)) + Cardinality(CommandsLeft)) * MaxRun
  <2>1. b \in Nat
    <3>1. Cardinality(Later(m)) + Cardinality(CommandsLeft) \in Nat
      BY BudgetTypes
    <3> QED BY <1>1, <3>1, TimesMonotonic
  <2>2. TimeLeft(m) = b + (MaxRun - busy) /\ TimeLeft(m)' = b + (MaxRun - busy - 1)
    BY <1>2, <1>3 DEF TimeLeft
  <2> HIDE DEF b
  <2> QED BY <1>1, <2>1, <2>2, BudgetTypes
<1> QED BY <1>1, <1>4, BudgetPays

\* Another message is marked: it is not marked again before m is.
LEMMA CoverPaidByMark ==
  ASSUME MessageAssumption, BoundAssumption, NoneAssumption, Supported, TypeOK',
         NEW m \in UserMessage, Covered(m), NEW e \in Event, MarkMessageAsNew(e)
  PROVE  Covered(m)' /\ e.msg # m
<1> DEFINE x == e.msg
<1>1. /\ x \in UserMessage /\ Evicted[x] = None /\ seen' = [Evicted EXCEPT ![x] = now]
      /\ stage = "idle" /\ stage' = "route" /\ current' = e /\ UNCHANGED <<busy, now, answers>>
      /\ busy = 0 /\ now \in Nat
  BY EventKinds
     DEF MarkMessageAsNew, Ack, Pursue, outcomeVars, Supported, IdleInv, TypeOK, Time
<1>2. TypeOK /\ seen[m] # None /\ seen[m] <= now /\ seen[m] \in Nat
  <2>1. TypeOK /\ MarkInv /\ seen[m] # None /\ m \in Message
    BY DEF Covered, Supported, UserMessage
  <2>2. seen[m] \in Nat
    BY <2>1, BudgetTypes
  <2> QED BY <2>1, <2>2 DEF MarkInv
<1>3. x # m /\ x \in Later(m)
  BY <1>1, <1>2, EvictionSpares
<1>4. \A y \in UserMessage : seen'[y] = IF y = x THEN now ELSE Evicted[y]
  BY <1>1 DEF UserMessage, Evicted
<1>5. seen'[m] = seen[m]
  BY <1>2, <1>3, <1>4, EvictionSpares
<1>6. Later(m)' = Later(m) \ {x}
  <2>1. x \notin Later(m)'
    BY <1>1, <1>2, <1>4, <1>5, NoneAssumption DEF Later, NoneAssumption
  <2>2. ASSUME NEW y \in UserMessage, y # x PROVE y \in Later(m)' <=> y \in Later(m)
    <3>1. seen'[y] = Evicted[y]
      BY <1>4, <2>2
    <3>2. CASE Evicted[y] = None
      BY <1>2, <3>1, <3>2, EvictionSpares DEF Later
    <3>3. CASE Evicted[y] # None
      BY <1>2, <1>5, <3>1, <3>3, EvictionSpares DEF Later
    <3> QED BY <3>2, <3>3
  <2>3. Later(m) \subseteq UserMessage /\ Later(m)' \subseteq UserMessage
    BY DEF Later
  <2> HIDE DEF x
  <2> QED BY <2>1, <2>2, <2>3
<1>7. CommandsLeft' = CommandsLeft
  BY <1>1 DEF CommandsLeft
<1>8. CurrentLeft = 0 /\ CurrentLeft' = MaxRun /\ MaxRun \in Nat
  BY <1>1 DEF CurrentLeft, UserMessage, BoundAssumption
<1> HIDE DEF x
<1> DEFINE l == Cardinality(Later(m))
           c == Cardinality(CommandsLeft)
           a == Cardinality(Later(m)') + c
<1>9. Cardinality(Later(m)') = l - 1 /\ Cardinality(Later(m)') \in Nat
  <2>1. Later(m) \subseteq UserMessage /\ Later(m)' \subseteq UserMessage
    BY DEF Later
  <2>2. IsFiniteSet(Later(m)) /\ Cardinality(Later(m)') \in Nat
    BY <2>1, UserMessagesFinite
  <2> QED BY <1>3, <1>6, <2>2, FS_RemoveElement
<1>10. l \in Nat /\ c \in Nat /\ a \in Nat /\ l + c = a + 1
  BY <1>2, <1>9, BudgetTypes
<1>11. (l + c) * MaxRun = a * MaxRun + MaxRun /\ a * MaxRun \in Nat
  BY <1>8, <1>10, TimesMonotonic
<1>12. TimeLeft(m) = (l + c) * MaxRun + 0 /\ TimeLeft(m)' = a * MaxRun + MaxRun
  BY <1>7, <1>8 DEF TimeLeft
<1>13. TimeLeft(m)' = TimeLeft(m) /\ TimeLeft(m)' \in Int
  BY <1>8, <1>11, <1>12
<1>14. now' + TimeLeft(m)' <= now + TimeLeft(m)
  BY <1>1, <1>13
<1> QED BY <1>2, <1>3, <1>5, <1>13, <1>14, BudgetPays DEF x

\* As long as the process lives, a mark that is good stays good, except while
\* time passes for want of anything to do.
LEMMA CoverPreserved ==
  ASSUME MessageAssumption, BoundAssumption, NoneAssumption, Supported, TypeOK', [Next]_vars,
         UNCHANGED crashes, ~(Tick /\ stage = "idle"), NEW m \in UserMessage, Covered(m)
  PROVE  Covered(m)' /\ (\A e \in Event : MarkMessageAsNew(e) => e.msg # m)
<1>1. TypeOK /\ MaxRun \in Nat /\ CurrentLeft \in 0..MaxRun
  BY BudgetTypes DEF Supported, BoundAssumption
<1>2. ASSUME NEW e \in Event, MarkMessageAsNew(e) PROVE Covered(m)' /\ e.msg # m
  BY <1>2, CoverPaidByMark
<1>3. ASSUME seen' \in {seen, Evicted}, UNCHANGED <<now, answers>>,
             CurrentLeft' \in Int, CurrentLeft' <= CurrentLeft
      PROVE  Covered(m)'
  <2>1. \A s \in Slash : answers'[s] >= answers[s]
    BY <1>1, <1>3 DEF TypeOK, MessageAssumption
  <2> QED BY <1>1, <1>3, <2>1, CoverKept
<1>4. ASSUME NEW e \in Event, Deliver(e) PROVE Covered(m)'
  BY <1>1, <1>3, <1>4 DEF Deliver, CurrentLeft, consumerVars, outcomeVars
<1>5. ASSUME NEW e \in Event, IgnoreBotMessage(e) \/ SkipDuplicate(e) PROVE Covered(m)'
  BY <1>1, <1>3, <1>5
     DEF IgnoreBotMessage, SkipDuplicate, Ack, CurrentLeft, consumerVars, outcomeVars
<1>6. ASSUME NEW e \in Event, HandleSlashCommand(e) PROVE Covered(m)'
  <2>1. CurrentLeft' = 0 /\ UNCHANGED <<seen, now, answers>>
    BY <1>6, EventKinds DEF HandleSlashCommand, Ack, Pursue, CurrentLeft, outcomeVars
  <2> QED BY <1>1, <1>3, <2>1
<1>7. ASSUME NEW s \in Message, Start(s) PROVE Covered(m)'
  <2>1. CASE s \in Slash
    BY <1>7, <2>1, CoverPaidByCommand
  <2>2. CASE s \notin Slash
    <3>1. CurrentLeft' = CurrentLeft
      BY <1>7, <2>2 DEF Start, Routing, StartRun, CurrentLeft
    <3>2. \A x \in Slash : answers'[x] >= answers[x]
      BY <1>1, <1>7 DEF Start, StartRun, TypeOK, MessageAssumption
    <3> QED BY <1>1, <1>7, <3>1, <3>2, CoverKept DEF Start
  <2> QED BY <2>1, <2>2
<1>8. ASSUME Stop PROVE Covered(m)'
  <2>1. CurrentLeft' = 0
    BY <1>8 DEF Stop, StopHandling, CurrentLeft
  <2> QED BY <1>1, <1>3, <1>8, <2>1 DEF Stop
<1>9. ASSUME Tick PROVE Covered(m)'
  <2>1. stage = "run"
    BY <1>9 DEF Tick
  <2> QED BY <1>1, <1>9, <2>1, CoverPaidByRun
<1>10. ASSUME Aside PROVE Covered(m)'
  BY <1>1, <1>3, <1>10 DEF Aside, CurrentLeft
<1>11. ASSUME Crash PROVE Covered(m)'
  BY <1>1, <1>11 DEF Crash, TypeOK, BoundAssumption
<1>12. ASSUME NEW e \in Event, MarkMessageAsNew(e) PROVE e.msg # m
  BY <1>2, <1>12
<1> QED BY <1>2, <1>4, <1>5, <1>6, <1>7, <1>8, <1>9, <1>10, <1>11, <1>12, StepKinds

\* A burst that fits the TTL is what a mark pays for when it is made.
LEMMA MarkCovers ==
  ASSUME MessageAssumption, BoundAssumption, NoneAssumption, TypeOK, TypeOK', IdleInv, BurstFits,
         NEW e \in Event, MarkMessageAsNew(e)
  PROVE  Covered(e.msg)'
<1> DEFINE m == e.msg
<1>1. /\ m \in UserMessage /\ seen' = [Evicted EXCEPT ![m] = now]
      /\ stage' = "route" /\ current' = e /\ UNCHANGED <<busy, now>>
      /\ busy = 0 /\ now \in Nat
  BY EventKinds DEF MarkMessageAsNew, Ack, Pursue, IdleInv, TypeOK, Time
<1>2. seen'[m] = now /\ now # None
  BY <1>1, NoneAssumption DEF UserMessage, Evicted, NoneAssumption
<1>3. CurrentLeft' = MaxRun /\ MaxRun \in Nat /\ TTL \in Nat /\ MaxCopies \in Nat
  BY <1>1 DEF CurrentLeft, UserMessage, BoundAssumption
<1> HIDE DEF m
<1> DEFINE u == Cardinality(UserMessage)
           a == Cardinality(Later(m)') + Cardinality(CommandsLeft')
           b == u + MaxCopies * Cardinality(Slash)
<1>4. a \in Nat /\ b \in Nat /\ a + 1 <= b
  <2>1. /\ Later(m)' \subseteq UserMessage \ {m}
        /\ CommandsLeft' \subseteq Slash \X (1..MaxCopies)
    BY <1>2, <1>1 DEF Later, CommandsLeft
  <2>2. IsFiniteSet(UserMessage) /\ u \in Nat
    BY UserMessagesFinite
  <2>3. Cardinality(UserMessage \ {m}) = u - 1 /\ IsFiniteSet(UserMessage \ {m})
    BY <1>1, <2>2, FS_RemoveElement
  <2>4. Cardinality(Later(m)') \in Nat /\ Cardinality(Later(m)') <= u - 1
    BY <2>1, <2>3, FS_Subset, FS_CardinalityType
  <2>5. /\ Cardinality(CommandsLeft') \in Nat /\ Cardinality(Slash) \in Nat
        /\ Cardinality(CommandsLeft') <= Cardinality(Slash) * MaxCopies
    BY <2>1, CommandsFinite
  <2>6. /\ Cardinality(Slash) * MaxCopies = MaxCopies * Cardinality(Slash)
        /\ MaxCopies * Cardinality(Slash) \in Nat
    BY <1>3, <2>5
  <2> QED BY <2>2, <2>4, <2>5, <2>6
<1>5. b * MaxRun <= TTL
  BY DEF BurstFits, UserMessage
<1> HIDE DEF a, b
<1>6. /\ a * MaxRun + MaxRun = (a + 1) * MaxRun /\ (a + 1) * MaxRun <= b * MaxRun
      /\ a * MaxRun \in Nat /\ b * MaxRun \in Nat
  <2>1. a + 1 \in Nat
    BY <1>4
  <2> QED BY <1>3, <1>4, <2>1, TimesMonotonic
<1>7. TimeLeft(m)' = a * MaxRun + MaxRun
  BY <1>3 DEF TimeLeft, a
<1>8. TimeLeft(m)' <= TTL /\ TimeLeft(m)' \in Nat
  BY <1>3, <1>5, <1>6, <1>7
<1>9. seen'[m] # None /\ now' - seen'[m] + TimeLeft(m)' <= TTL
  BY <1>1, <1>2, <1>3, <1>8
<1> QED BY <1>9 DEF Covered, m

-----------------------------------------------------------------------------
(* Answers.                                                                *)

Answered(m) == IF crashes = 0 THEN FirstProcess(m) ELSE LaterProcess(m)

LEMMA AnswerTypes ==
  ASSUME TypeOK, NEW m \in UserMessage
  PROVE  /\ answers[m] \in Nat /\ Pending(m) \in 0..1 /\ Risk(m) \in 0..1
         /\ EventCount(m) \in 1..2 /\ Unacked(m) \in 0..EventCount(m)
BY DEF TypeOK, Pending, Unacked, Risk, UserMessage, EventCount, EventsOf

\* Steps that acknowledge nothing of m and deliver nothing of it.
LEMMA QuietForMessage ==
  ASSUME TypeOK, TypeOK', NEW m \in UserMessage, Answered(m), UNCHANGED crashes,
         answers'[m] + Pending(m)' <= answers[m] + Pending(m),
         EventsOf(m) \cap acked' = EventsOf(m) \cap acked,
         EventsOf(m) \cap Queued' \subseteq EventsOf(m) \cap Queued,
         Covered(m) => Covered(m)'
  PROVE  Answered(m)'
<1>1. /\ answers[m] + Pending(m) \in Nat /\ answers'[m] + Pending(m)' \in Nat
      /\ Risk(m) \in 0..1 /\ EventCount(m) \in 1..2 /\ Unacked(m) \in 0..EventCount(m)
  BY AnswerTypes DEF TypeOK, UserMessage, Pending
<1>2. Unacked(m)' = Unacked(m)
  <2>1. \A e : e \in EventsOf(m) \ acked' <=> e \in EventsOf(m) \ acked
    OBVIOUS
  <2> QED BY <2>1 DEF Unacked
<1>3. Risk(m)' \in 0..1 /\ Risk(m)' <= Risk(m)
  BY DEF Risk
<1>4. CASE crashes = 0
  BY <1>1, <1>4 DEF Answered, FirstProcess
<1>5. CASE crashes # 0
  <2>1. answers[m] + Pending(m) + Unacked(m) + Risk(m) <= EventCount(m)
    BY <1>5 DEF Answered, LaterProcess
  <2>2. answers'[m] + Pending(m)' + Unacked(m)' + Risk(m)' <= EventCount(m)
    BY <1>1, <1>2, <1>3, <2>1
  <2> QED BY <1>5, <2>2 DEF Answered, LaterProcess
<1> QED BY <1>4, <1>5

\* An event of m is acknowledged: it is no reason for an answer any more, or
\* it was a copy.
LEMMA UnackedFalls ==
  ASSUME TypeOK, NEW m \in UserMessage, NEW e \in EventsOf(m), acked' = acked \cup {e}
  PROVE  /\ e \notin acked => Unacked(m)' = Unacked(m) - 1
         /\ e \in acked => Unacked(m)' = Unacked(m)
<1>1. \A k \in {"message", "app_mention"} :
        [msg |-> m, kind |-> k] \in EventsOf(m) \ acked'
          <=> [msg |-> m, kind |-> k] \in EventsOf(m) \ acked /\ [msg |-> m, kind |-> k] # e
  OBVIOUS
<1>2. e \in {[msg |-> m, kind |-> "message"], [msg |-> m, kind |-> "app_mention"]}
  BY EventsOfUser
<1>3. [msg |-> m, kind |-> "message"] # [msg |-> m, kind |-> "app_mention"]
  OBVIOUS
<1> QED BY <1>1, <1>2, <1>3 DEF Unacked

\* A message of which an event was acknowledged has one event left at most.
LEMMA OneLeft ==
  ASSUME NEW m \in UserMessage, EventsOf(m) \cap acked # {} PROVE Unacked(m) <= EventCount(m) - 1
BY DEF Unacked, EventsOf, EventCount, UserMessage

LEMMA AnsweredOnDelivery ==
  ASSUME TypeOK, TypeOK', NEW m \in UserMessage, Answered(m), Covered(m) => Covered(m)',
         NEW e \in EventsOf(m), Deliver(e)
  PROVE  Answered(m)'
<1>1. /\ e \notin acked /\ UNCHANGED <<acked, crashes, answers>> /\ Queued' = Queued \cup {e}
      /\ Pending(m)' = Pending(m)
  BY Delivered, EventsOfUser DEF Deliver, TypeOK, consumerVars, outcomeVars, Pending
<1>2. Unacked(m)' = Unacked(m)
  BY <1>1 DEF Unacked
<1>3. Risk(m)' <= Risk(m) /\ Risk(m)' \in 0..1
  BY <1>1 DEF Risk
<1>4. CASE crashes = 0
  BY <1>1, <1>4 DEF Answered, FirstProcess
<1>5. CASE crashes # 0
  <2>1. answers[m] + Pending(m) + Unacked(m) + Risk(m) <= EventCount(m)
    BY <1>5 DEF Answered, LaterProcess
  <2>2. answers'[m] + Pending(m)' + Unacked(m)' + Risk(m)' <= EventCount(m)
    BY <1>1, <1>2, <1>3, <2>1, AnswerTypes
  <2> QED BY <1>1, <1>5, <2>2 DEF Answered, LaterProcess
<1> QED BY <1>4, <1>5

\* A copy or a twin is skipped.
LEMMA AnsweredOnSkip ==
  ASSUME TypeOK, MarkInv, NEW m \in UserMessage, Answered(m), Covered(m) => Covered(m)',
         NEW e \in EventsOf(m), SkipDuplicate(e)
  PROVE  Answered(m)'
<1>1. /\ e \in Event /\ e.msg = m /\ Ack(e) /\ Evicted[m] # None
      /\ UNCHANGED <<stage, current, answers, crashes>> /\ acked' = acked \cup {e}
  BY EventsOfUser DEF SkipDuplicate, Ack, consumerVars, outcomeVars
<1>2. e \in Queued /\ Queued' \subseteq Queued
  BY <1>1, Taken DEF Ack, TypeOK
<1>3. EventsOf(m) \cap acked # {}
  <2>1. m \in Message /\ seen[m] # None
    BY <1>1, EvictedMarks DEF UserMessage
  <2> QED BY <2>1 DEF MarkInv
<1>4. Pending(m)' = Pending(m)
  BY <1>1 DEF Pending
<1>5. CASE crashes = 0
  BY <1>1, <1>2, <1>3, <1>4, <1>5 DEF Answered, FirstProcess
<1>6. CASE crashes # 0
  <2>1. answers[m] + Pending(m) + Unacked(m) + Risk(m) <= EventCount(m)
    BY <1>6 DEF Answered, LaterProcess
  <2>2. Risk(m)' \in 0..1 /\ (e \in acked => Risk(m)' <= Risk(m))
    BY <1>1, <1>2 DEF Risk
  <2>3. answers'[m] + Pending(m)' + Unacked(m)' + Risk(m)' <= EventCount(m)
    BY <1>1, <1>4, <2>1, <2>2, UnackedFalls, AnswerTypes
  <2> QED BY <1>1, <1>6, <2>3 DEF Answered, LaterProcess
<1> QED BY <1>5, <1>6

\* The message is marked and will be answered.  It was not marked before, or
\* the mark did not last.
LEMMA AnsweredOnMark ==
  ASSUME TypeOK, NEW m \in UserMessage, Answered(m), ~Covered(m), Covered(m)',
         NEW e \in EventsOf(m), MarkMessageAsNew(e)
  PROVE  Answered(m)'
<1>1. /\ e \in Event /\ e.msg = m /\ Ack(e) /\ Pursue(e, "route")
      /\ UNCHANGED <<answers, crashes>> /\ acked' = acked \cup {e}
  BY EventsOfUser DEF MarkMessageAsNew, Ack, outcomeVars
<1>2. e \in Queued /\ Pending(m) = 0 /\ Pending(m)' = 1
  BY <1>1, Taken, TakePends DEF Ack, TypeOK
<1>3. CASE crashes = 0
  <2>1. answers[m] + Pending(m) = 0
    BY <1>2, <1>3 DEF Answered, FirstProcess
  <2>2. answers'[m] + Pending(m)' <= 1
    BY <1>1, <1>2, <2>1, AnswerTypes
  <2>3. e \in EventsOf(m) \cap acked' /\ crashes' = 0
    BY <1>1, <1>3
  <2> QED BY <2>2, <2>3 DEF Answered, FirstProcess
<1>4. CASE crashes # 0
  <2>1. answers[m] + Pending(m) + Unacked(m) + Risk(m) <= EventCount(m)
    BY <1>4 DEF Answered, LaterProcess
  <2>2. Risk(m)' = 0 /\ (e \in acked => Risk(m) = 1)
    BY <1>1, <1>2 DEF Risk
  <2>3. answers'[m] + Pending(m)' + Unacked(m)' + Risk(m)' <= EventCount(m)
    BY <1>1, <1>2, <2>1, <2>2, UnackedFalls, AnswerTypes
  <2> QED BY <1>1, <1>4, <2>3 DEF Answered, LaterProcess
<1> QED BY <1>3, <1>4

\* Time passes with nothing to do: nothing of m is left, or nobody has taken
\* any of it.
LEMMA AnsweredOnIdling ==
  ASSUME TypeOK, TypeOK', DeliveryInv, NEW m \in UserMessage, Answered(m), Tick, stage = "idle"
  PROVE  Answered(m)'
<1>1. /\ queue = <<>> /\ TwinsTogether
      /\ UNCHANGED <<queue, sent, acked, stage, current, crashes, answers>>
  BY DEF Tick, slackVars, consumerVars, outcomeVars
<1>2. Queued = {} /\ Queued' = {}
  BY <1>1, Emptied DEF Queued
<1>3. Pending(m)' = Pending(m) /\ Unacked(m)' = Unacked(m) /\ Risk(m)' = 0
  BY <1>1, <1>2 DEF Pending, Unacked, Risk
<1>4. CASE crashes = 0
  <2>1. ASSUME EventsOf(m) \cap acked # {} PROVE EventsOf(m) \subseteq acked
    <3>1. \E e \in EventsOf(m) : sent[e] > 0
      BY <2>1 DEF DeliveryInv
    <3>2. \A e \in EventsOf(m) : sent[e] > 0
      BY <1>1, <3>1 DEF TwinsTogether, UserMessage
    <3> QED BY <1>2, <1>4, <3>2, EventsOfUser DEF DeliveryInv
  <2> QED BY <1>1, <1>2, <1>3, <1>4, <2>1 DEF Answered, FirstProcess
<1>5. CASE crashes # 0
  <2>1. answers[m] + Pending(m) + Unacked(m) + Risk(m) <= EventCount(m)
    BY <1>5 DEF Answered, LaterProcess
  <2>2. answers'[m] + Pending(m)' + Unacked(m)' + Risk(m)' <= EventCount(m)
    BY <1>1, <1>3, <2>1, AnswerTypes
  <2> QED BY <1>1, <1>5, <2>2 DEF Answered, LaterProcess
<1> QED BY <1>4, <1>5

\* The process stops: the events that are not acknowledged will be delivered
\* to the next.
LEMMA AnsweredOnCrash ==
  ASSUME BoundAssumption, TypeOK, NEW m \in UserMessage, Answered(m), Crash PROVE Answered(m)'
<1>1. /\ Queued' = {} /\ Pending(m)' = 0 /\ UNCHANGED <<acked, answers>>
      /\ crashes' # 0
  BY Emptied, StopDrops DEF Crash, slackVars, outcomeVars, TypeOK, BoundAssumption
<1>2. Unacked(m)' = Unacked(m) /\ Risk(m)' = 0
  BY <1>1 DEF Unacked, Risk
<1>3. answers[m] + Unacked(m) <= EventCount(m)
  <2>1. CASE crashes = 0 /\ EventsOf(m) \cap acked = {}
    BY <2>1, AnswerTypes DEF Answered, FirstProcess
  <2>2. CASE crashes = 0 /\ EventsOf(m) \cap acked # {}
    <3>1. answers[m] + Pending(m) <= 1 /\ Unacked(m) <= EventCount(m) - 1
      BY <2>2, OneLeft DEF Answered, FirstProcess
    <3> QED BY <3>1, AnswerTypes
  <2>3. CASE crashes # 0
    BY <2>3, AnswerTypes DEF Answered, LaterProcess
  <2> QED BY <2>1, <2>2, <2>3
<1>4. answers'[m] + Pending(m)' + Unacked(m)' + Risk(m)' <= EventCount(m)
  BY <1>1, <1>2, <1>3, AnswerTypes
<1> QED BY <1>1, <1>4 DEF Answered, LaterProcess

LEMMA AnswersPreserved ==
  ASSUME MessageAssumption, BoundAssumption, NoneAssumption, Supported, TypeOK', AnswerInv,
         [Next]_vars
  PROVE  AnswerInv'
<1> SUFFICES ASSUME BurstFits, NEW m \in UserMessage PROVE Answered(m)'
  BY DEF AnswerInv, Answered, BurstFits
<1>1. TypeOK /\ IdleInv /\ MarkInv /\ DeliveryInv /\ Answered(m) /\ m \in Message
  BY DEF Supported, AnswerInv, Answered, UserMessage
<1>2. CASE Crash
  BY <1>1, <1>2, AnsweredOnCrash
<1>3. CASE Tick /\ stage = "idle"
  BY <1>1, <1>3, AnsweredOnIdling
<1> SUFFICES ASSUME ~Crash, ~(Tick /\ stage = "idle") PROVE Answered(m)'
  BY <1>2, <1>3
<1>4. UNCHANGED crashes
  BY StepKinds
     DEF Deliver, IgnoreBotMessage, HandleSlashCommand, SkipDuplicate, MarkMessageAsNew, Ack,
         Tick, Start, Stop, Aside
<1>5. Covered(m) => Covered(m)' /\ \A e \in Event : MarkMessageAsNew(e) => e.msg # m
  BY <1>4, CoverPreserved
<1>6. ASSUME NEW e \in Event, Deliver(e) PROVE Answered(m)'
  <2>1. CASE e \in EventsOf(m)
    BY <1>1, <1>5, <1>6, <2>1, AnsweredOnDelivery
  <2>2. CASE e \notin EventsOf(m)
    <3>1. /\ Queued' = Queued \cup {e} /\ UNCHANGED <<acked, answers>> /\ Pending(m)' = Pending(m)
      BY <1>1, <1>6, Delivered DEF Deliver, TypeOK, consumerVars, outcomeVars, Pending
    <3>2. answers'[m] + Pending(m)' <= answers[m] + Pending(m)
      BY <1>1, <3>1, AnswerTypes
    <3> QED BY <1>1, <1>4, <1>5, <2>2, <3>1, <3>2, QuietForMessage
  <2> QED BY <2>1, <2>2
<1>7. ASSUME NEW e \in Event, Ack(e), e \notin EventsOf(m), UNCHANGED answers, Pending(m)' = 0
      PROVE  Answered(m)'
  <2>1. acked' = acked \cup {e} /\ Queued' \subseteq Queued
    BY <1>1, <1>7, Taken DEF Ack, TypeOK
  <2>2. answers'[m] + Pending(m)' <= answers[m] + Pending(m)
    BY <1>1, <1>7, AnswerTypes
  <2> QED BY <1>1, <1>4, <1>5, <1>7, <2>1, <2>2, QuietForMessage
<1>8. ASSUME NEW e \in Event, IgnoreBotMessage(e) PROVE Answered(m)'
  <2>1. Ack(e) /\ UNCHANGED <<stage, current, answers>> /\ e \notin EventsOf(m)
    BY <1>1, <1>8, EventKinds DEF IgnoreBotMessage, consumerVars, outcomeVars
  <2> QED BY <1>7, <2>1, TakePends
<1>9. ASSUME NEW e \in Event, HandleSlashCommand(e) PROVE Answered(m)'
  <2>1. Ack(e) /\ Pursue(e, "route") /\ UNCHANGED answers /\ e.kind = "slash"
    BY <1>9 DEF HandleSlashCommand, outcomeVars
  <2>2. e.msg # m /\ e \notin EventsOf(m)
    BY <2>1, EventKinds, EventsOfUser DEF UserMessage
  <2> QED BY <1>7, <2>1, <2>2, TakePends
<1>10. ASSUME NEW e \in Event, SkipDuplicate(e) PROVE Answered(m)'
  <2>1. CASE e \in EventsOf(m)
    BY <1>1, <1>5, <1>10, <2>1, AnsweredOnSkip
  <2>2. CASE e \notin EventsOf(m)
    <3>1. Ack(e) /\ UNCHANGED <<stage, current, answers>>
      BY <1>10 DEF SkipDuplicate, consumerVars, outcomeVars
    <3> QED BY <1>7, <2>2, <3>1, TakePends
  <2> QED BY <2>1, <2>2
<1>11. ASSUME NEW e \in Event, MarkMessageAsNew(e) PROVE Answered(m)'
  <2>1. e.msg \in UserMessage /\ e \in EventsOf(e.msg)
    BY <1>11, EventKinds DEF MarkMessageAsNew
  <2>2. CASE e.msg = m
    <3>1. Covered(m)' /\ ~Covered(m)
      BY <1>1, <1>5, <1>11, <2>2, MarkCovers
    <3> QED BY <1>1, <1>11, <2>1, <2>2, <3>1, AnsweredOnMark
  <2>3. CASE e.msg # m
    <3>1. Ack(e) /\ Pursue(e, "route") /\ UNCHANGED answers /\ e \notin EventsOf(m)
      BY <1>11, <2>3, EventsOfUser DEF MarkMessageAsNew, outcomeVars
    <3> QED BY <1>7, <2>3, <3>1, TakePends
  <2> QED BY <2>2, <2>3
<1>12. ASSUME UNCHANGED <<queue, acked>>, answers'[m] + Pending(m)' <= answers[m] + Pending(m)
       PROVE  Answered(m)'
  <2>1. Queued' = Queued
    BY <1>12 DEF Queued
  <2> QED BY <1>1, <1>4, <1>5, <1>12, <2>1, QuietForMessage
<1>13. ASSUME NEW x \in Message, Start(x) PROVE Answered(m)'
  <2>1. answers'[m] + Pending(m)' <= answers[m] + Pending(m)
    BY <1>1, <1>13, StartAnswers
  <2> QED BY <1>12, <1>13, <2>1 DEF Start
<1>14. CASE Stop
  <2>1. UNCHANGED <<queue, acked, answers>> /\ Pending(m)' = 0
    BY <1>14, StopDrops DEF Stop
  <2>2. answers'[m] + Pending(m)' <= answers[m] + Pending(m)
    BY <1>1, <2>1, AnswerTypes
  <2> QED BY <1>12, <2>1, <2>2
<1>15. CASE Tick \/ Aside
  <2>1. UNCHANGED <<queue, acked, answers>> /\ Pending(m)' = Pending(m)
    BY <1>15 DEF Tick, Aside, Pending, slackVars, consumerVars, outcomeVars
  <2>2. answers'[m] + Pending(m)' <= answers[m] + Pending(m)
    BY <1>1, <2>1, AnswerTypes
  <2> QED BY <1>12, <2>1, <2>2
<1> QED BY <1>6, <1>8, <1>9, <1>10, <1>11, <1>13, <1>14, <1>15, StepKinds

-----------------------------------------------------------------------------
\* The inductive invariant of the event loop.
THEOREM EventLoopInvariant == Spec => []IInv
<1>1. Init => IInv
  <2> SUFFICES ASSUME Init PROVE IInv
    OBVIOUS
  <2>1. TypeOK
    BY BoundAssumption, NoneAssumption, EmptySeq DEF Init, TypeOK, Time, BoundAssumption
  <2>2. Queued = {} /\ \A e : Copies(e) = 0
    <3>1. DOMAIN queue = {}
      BY EmptySeq, LenProperties DEF Init
    <3>2. \A e : {i \in DOMAIN queue : queue[i] = e} = {}
      BY <3>1
    <3> QED BY <3>1, <3>2, FS_EmptySet DEF Queued, Copies
  <2>3. IdleInv /\ MarkInv
    BY DEF Init, IdleInv, MarkInv
  <2>4. DeliveryInv
    BY <2>2 DEF Init, DeliveryInv
  <2>5. \A m : Pending(m) = 0
    BY DEF Init, Pending
  <2>6. CommandInv
    BY <2>2, <2>5, MessageAssumption, EventOfSlash DEF Init, CommandInv, MessageAssumption
  <2>7. AnswerInv
    BY <2>5 DEF Init, AnswerInv, FirstProcess, UserMessage
  <2> QED BY <2>1, <2>3, <2>4, <2>6, <2>7 DEF IInv, Supported
<1>2. IInv /\ [Next]_vars => IInv'
  <2> SUFFICES ASSUME IInv, [Next]_vars PROVE IInv'
    OBVIOUS
  <2>1. TypeOK /\ IdleInv /\ MarkInv /\ DeliveryInv /\ CommandInv /\ Supported /\ AnswerInv
    BY DEF IInv, Supported
  <2>2. TypeOK'
    BY <2>1, MessageAssumption, BoundAssumption, NoneAssumption, TypesPreserved
  <2>3. IdleInv' /\ MarkInv' /\ DeliveryInv' /\ CommandInv'
    BY <2>1, MessageAssumption, BoundAssumption, IdlePreserved, MarkPreserved, DeliveryPreserved,
       CommandPreserved
  <2>4. AnswerInv'
    BY <2>1, <2>2, MessageAssumption, BoundAssumption, NoneAssumption, AnswersPreserved
  <2> QED BY <2>2, <2>3, <2>4 DEF IInv, Supported
<1> QED BY <1>1, <1>2, PTL DEF Spec

\* Type correctness: among it, that the loop handles one event at a time and
\* lets go of it when it is idle.
THEOREM EventLoopTypeCorrect == Spec => []TypeOK
<1>1. IInv => TypeOK BY DEF IInv, Supported
<1> QED BY <1>1, EventLoopInvariant, PTL

\* A process answers a message once, as long as a burst of everything Slack may
\* deliver is handled within the TTL: markMessageAsNew (runtime.go) holds copies
\* and twins off until the last of them is out of the channel.  However often
\* the process restarts, a message is answered at most once for each of its
\* events: what was acknowledged is not sent to the next process.
THEOREM AnsweredOncePerProcessCorrect == Spec => []AnsweredOncePerProcess
<1>1. IInv => AnsweredOncePerProcess
  <2> SUFFICES ASSUME IInv, BurstFits, NEW m \in UserMessage
               PROVE  answers[m] <= 1 + crashes /\ answers[m] <= Cardinality(EventsOf(m))
    BY DEF AnsweredOncePerProcess, UserMessage
  <2>1. /\ answers[m] \in Nat /\ Pending(m) \in 0..1 /\ Risk(m) \in 0..1
        /\ EventCount(m) \in 1..2 /\ Unacked(m) \in 0..EventCount(m) /\ crashes \in Nat
    BY BoundAssumption, AnswerTypes DEF IInv, Supported, TypeOK, BoundAssumption
  <2>2. Cardinality(EventsOf(m)) = EventCount(m)
    <3> DEFINE first == {[msg |-> m, kind |-> "message"]}
               twin == [msg |-> m, kind |-> "app_mention"]
    <3>1. IsFiniteSet(first) /\ Cardinality(first) = 1 /\ twin \notin first
      BY FS_Singleton
    <3>2. Cardinality(first \cup {twin}) = 2
      <4> HIDE DEF first, twin
      <4>1. Cardinality(first \cup {twin})
              = IF twin \in first THEN Cardinality(first) ELSE Cardinality(first) + 1
        BY <3>1, FS_AddElement
      <4> QED BY <3>1, <4>1
    <3>3. EventsOf(m) = IF m \in Mention THEN first \cup {twin} ELSE first
      BY DEF EventsOf, UserMessage
    <3> HIDE DEF first, twin
    <3> QED BY <3>1, <3>2, <3>3 DEF EventCount
  <2>3. CASE crashes = 0
    BY <2>1, <2>2, <2>3 DEF IInv, AnswerInv, FirstProcess
  <2>4. CASE crashes # 0
    BY <2>1, <2>2, <2>4 DEF IInv, AnswerInv, LaterProcess
  <2> QED BY <2>3, <2>4
<1> QED BY <1>1, EventLoopInvariant, PTL
-----------------------------------------------------------------------------
(* What a crash costs.                                                     *)

\* In a first process that knows its id no mention and no command is ignored.
NothingPassedOver ==
  KnownAtStart /\ crashes = 0 => identity /\ ignored \cap (Mention \cup Slash) = {}
LEMMA LostType ==
  ASSUME MessageAssumption, NEW S \in SUBSET Message
  PROVE  IsFiniteSet(S) /\ Cardinality(S) \in Nat
BY FS_Subset, FS_CardinalityType DEF MessageAssumption

\* Only a crash loses a message, and then the one being handled.
LEMMA LossNeedsCrash ==
  ASSUME MessageAssumption, NoneAssumption, TypeOK, TypeOK', MarkInv, [Next]_vars
  PROVE  Lost' \subseteq Lost \/ (Crash /\ Lost' \subseteq Lost \cup {current.msg})
<1>0. /\ Lost = {m \in Message : WasTaken(m) /\ ~Concluded(m) /\ Pending(m) = 0}
      /\ Lost' = {m \in Message : WasTaken(m)' /\ ~Concluded(m)' /\ Pending(m)' = 0}
  <2>1. ASSUME NEW m PROVE (~Routing(m) <=> Pending(m) = 0) /\ (~Routing(m)' <=> Pending(m)' = 0)
    BY DEF Routing, Pending, TypeOK
  <2>2. \A m : m \in Lost <=> m \in Message /\ WasTaken(m) /\ ~Concluded(m) /\ Pending(m) = 0
    BY <2>1 DEF Lost
  <2>3. \A m : m \in Lost' <=> m \in Message /\ WasTaken(m)' /\ ~Concluded(m)' /\ Pending(m)' = 0
    BY <2>1 DEF Lost
  <2> QED BY <2>2, <2>3
<1>1. ASSUME NEW m \in Message, Concluded(m) PROVE Concluded(m)'
  <2>1. /\ ignored \subseteq ignored' /\ failed \subseteq failed'
        /\ \/ answers' = answers
           \/ \E x \in Message : answers' = [answers EXCEPT ![x] = @ + 1]
    BY DEF Next, TakeEvent, Route, Deliver, Tick, IgnoreBotMessage, HandleSlashCommand,
           SkipDuplicate, MarkMessageAsNew, ContinueKnownThread, ThreadLookupFails,
           StartMentionConversation, IgnoreMessage, StartChatConversation, StarterFails,
           StartRun, FinishRun, ResolveBotIdentity, Crash, vars, outcomeVars
  <2>2. answers[m] > 0 => answers'[m] > 0
    <3>1. answers \in [Message -> Nat]
      BY DEF TypeOK
    <3>2. ASSUME NEW x \in Message, answers' = [answers EXCEPT ![x] = @ + 1]
          PROVE  answers[m] > 0 => answers'[m] > 0
      BY <3>1, <3>2
    <3> QED BY <2>1, <3>2
  <2> QED BY <1>1, <2>1, <2>2 DEF Concluded
<1>2. ASSUME UNCHANGED acked,
             \A m \in Message : Pending(m) = 0 \/ Pending(m)' # 0 \/ Concluded(m)'
      PROVE  Lost' \subseteq Lost
  BY <1>0, <1>1, <1>2 DEF WasTaken
<1>3. ASSUME NEW e \in Event, Ack(e),
             \A m \in Message : e \in EventsOf(m) => WasTaken(m) \/ Pending(m)' # 0
      PROVE  Lost' \subseteq Lost
  <2>1. \A m \in Message : Pending(m) = 0
    BY <1>3, TakePends
  <2>2. acked' = acked \cup {e}
    BY <1>3 DEF Ack
  <2> QED BY <1>0, <1>1, <1>3, <2>1, <2>2 DEF WasTaken
<1>4. ASSUME NEW e \in Event, IgnoreBotMessage(e) PROVE Lost' \subseteq Lost
  BY <1>3, <1>4, EventKinds DEF IgnoreBotMessage
<1>5. ASSUME NEW e \in Event, HandleSlashCommand(e) \/ MarkMessageAsNew(e)
      PROVE  Lost' \subseteq Lost
  <2>1. Ack(e) /\ Pursue(e, "route")
    BY <1>5 DEF HandleSlashCommand, MarkMessageAsNew
  <2>2. \A m \in Message : e \in EventsOf(m) => Pending(m)' # 0
    BY <2>1, TakePends, EventKinds
  <2> QED BY <1>3, <2>1, <2>2
<1>6. ASSUME NEW e \in Event, SkipDuplicate(e) PROVE Lost' \subseteq Lost
  <2>1. Ack(e) /\ e.msg \in Message /\ WasTaken(e.msg)
    BY <1>6, EventKinds, EvictedMarks DEF SkipDuplicate, MarkInv, WasTaken
  <2> QED BY <1>3, <2>1, EventKinds
<1>7. ASSUME NEW m \in Message,
             \/ ContinueKnownThread(m) \/ StartMentionConversation(m) \/ StartChatConversation(m)
             \/ ThreadLookupFails(m) \/ IgnoreMessage(m) \/ StarterFails(m)
      PROVE  Lost' \subseteq Lost
  <2>1. Routing(m) /\ UNCHANGED acked
    BY <1>7 DEF ContinueKnownThread, StartMentionConversation, StartChatConversation,
                ThreadLookupFails, IgnoreMessage, StarterFails, UnchangedByRouting, slackVars
  <2>2. \/ answers' = [answers EXCEPT ![m] = @ + 1]
        \/ m \in ignored' \cup failed'
    BY <1>7 DEF ContinueKnownThread, StartMentionConversation, StartChatConversation, StartRun,
                ThreadLookupFails, IgnoreMessage, StarterFails
  <2>3. Concluded(m)'
    BY <2>2 DEF Concluded, TypeOK
  <2>4. \A x \in Message : x # m => Pending(x) = 0
    BY <2>1 DEF Routing, Pending
  <2> QED BY <1>2, <2>1, <2>3, <2>4
<1>8. CASE \/ \E e \in Event : Deliver(e)
           \/ Tick \/ FinishRun \/ ResolveBotIdentity \/ UNCHANGED vars
  <2>1. UNCHANGED acked
    BY <1>8 DEF Deliver, Tick, FinishRun, ResolveBotIdentity, UnchangedByRouting, slackVars, vars
  <2>2. UNCHANGED <<stage, current>> \/ stage = "run"
    BY <1>8 DEF Deliver, Tick, FinishRun, ResolveBotIdentity, consumerVars, vars
  <2>3. \A m \in Message : Pending(m) = 0 \/ Pending(m)' # 0
    BY <2>2 DEF Pending
  <2> QED BY <1>2, <2>1, <2>3
<1>9. CASE Crash
  <2>1. UNCHANGED acked
    BY <1>9 DEF Crash, slackVars
  <2>2. \A m \in Message : m # current.msg => Pending(m) = 0
    BY DEF Pending
  <2> QED BY <1>0, <1>1, <1>9, <2>1, <2>2 DEF WasTaken
<1> QED BY <1>4, <1>5, <1>6, <1>7, <1>8, <1>9 DEF Next, TakeEvent, Route

\* A crash loses the message in hand, and nothing else loses one: what
\* consumeEvents acknowledged (runtime.go:81) comes to an outcome, and the twins
\* and copies that are skipped are no exception.
THEOREM AtMostOneLostPerCrashCorrect == Spec => []AtMostOneLostPerCrash
<1>1. Init => AtMostOneLostPerCrash
  <2> SUFFICES ASSUME Init PROVE AtMostOneLostPerCrash
    OBVIOUS
  <2>1. Lost = {} /\ crashes = 0
    BY DEF Init, Lost, WasTaken
  <2> QED BY <2>1, FS_EmptySet DEF AtMostOneLostPerCrash
<1>2. IInv /\ AtMostOneLostPerCrash /\ [Next]_vars => AtMostOneLostPerCrash'
  <2> SUFFICES ASSUME IInv, AtMostOneLostPerCrash, [Next]_vars PROVE AtMostOneLostPerCrash'
    OBVIOUS
  <2>1. /\ IsFiniteSet(Lost) /\ Cardinality(Lost) \in Nat /\ Cardinality(Lost) <= crashes
        /\ IsFiniteSet(Lost') /\ Cardinality(Lost') \in Nat
        /\ crashes \in Nat
    BY MessageAssumption, BoundAssumption, LostType
       DEF Lost, AtMostOneLostPerCrash, IInv, Supported, TypeOK, BoundAssumption
  <2>2. Lost' \subseteq Lost \/ (Crash /\ Lost' \subseteq Lost \cup {current.msg})
    <3>1. TypeOK'
      BY MessageAssumption, BoundAssumption, NoneAssumption, TypesPreserved DEF IInv, Supported
    <3> QED BY <3>1, MessageAssumption, NoneAssumption, LossNeedsCrash DEF IInv, Supported
  <2>3. Crash => crashes' = crashes + 1
    BY DEF Crash
  <2>4. ~Crash => crashes' = crashes
    BY DEF Next, TakeEvent, Route, Deliver, Tick, Ack, IgnoreBotMessage, HandleSlashCommand,
           SkipDuplicate, MarkMessageAsNew, ContinueKnownThread, ThreadLookupFails,
           StartMentionConversation, IgnoreMessage, StartChatConversation, StarterFails,
           FinishRun, ResolveBotIdentity, UnchangedByRouting, vars
  <2>5. CASE Lost' \subseteq Lost
    <3>1. Cardinality(Lost') <= Cardinality(Lost)
      BY <2>1, <2>5, FS_Subset
    <3>2. crashes' \in Nat /\ crashes <= crashes'
      BY <2>1, <2>3, <2>4
    <3>3. Cardinality(Lost') <= crashes'
      BY <2>1, <3>1, <3>2
    <3> QED BY <3>3 DEF AtMostOneLostPerCrash
  <2>6. CASE Crash /\ Lost' \subseteq Lost \cup {current.msg}
    <3>1. /\ IsFiniteSet(Lost \cup {current.msg})
          /\ Cardinality(Lost \cup {current.msg}) <= Cardinality(Lost) + 1
          /\ Cardinality(Lost \cup {current.msg}) \in Nat
      BY <2>1, FS_AddElement, FS_CardinalityType
    <3>2. Cardinality(Lost') <= Cardinality(Lost \cup {current.msg})
      BY <2>6, <3>1, FS_Subset
    <3>3. Cardinality(Lost') <= crashes'
      BY <2>1, <2>3, <2>6, <3>1, <3>2
    <3> QED BY <3>3 DEF AtMostOneLostPerCrash
  <2> QED BY <2>2, <2>5, <2>6
<1> QED BY <1>1, <1>2, EventLoopInvariant, PTL DEF Spec

\* The safety half of PromptsAreAnswered: until it crashes, a process that
\* knew its id from the start does not drop a mention or a command it has taken
\* (runtime.go:75-86, 263-275), neither with its twin nor as not meant for it.
THEOREM TakenPromptsConcludeCorrect == Spec => []TakenPromptsConclude
<1>1. Init => NothingPassedOver
  BY DEF Init, NothingPassedOver
<1>2. IInv /\ NothingPassedOver /\ [Next]_vars => NothingPassedOver'
  <2> SUFFICES ASSUME IInv, NothingPassedOver, [Next]_vars PROVE NothingPassedOver'
    OBVIOUS
  <2> USE DEF NothingPassedOver
  <2>1. CASE Crash
    BY <2>1, BoundAssumption DEF Crash, IInv, Supported, TypeOK, BoundAssumption
  <2>2. ASSUME NEW m \in Message, IgnoreMessage(m) PROVE NothingPassedOver'
    <3>1. /\ m \notin Slash /\ current.msg = m
          /\ ignored' = ignored \cup {m} /\ UNCHANGED <<identity, crashes>>
      BY <2>2 DEF IgnoreMessage, Routing, UnchangedByRouting
    <3>2. m \in Mention => ~identity
      BY <2>2, <3>1 DEF IgnoreMessage, AddressesBot
    <3> QED BY <3>1, <3>2
  <2>3. CASE ResolveBotIdentity
    BY <2>3 DEF ResolveBotIdentity, outcomeVars
  <2>4. CASE UNCHANGED <<identity, crashes, ignored>>
    BY <2>4
  <2> QED BY <2>1, <2>2, <2>3, <2>4
          DEF Next, TakeEvent, Route, Deliver, Tick, Ack, IgnoreBotMessage, HandleSlashCommand,
              SkipDuplicate, MarkMessageAsNew, ContinueKnownThread, ThreadLookupFails,
              StartMentionConversation, StartChatConversation, StarterFails,
              FinishRun, UnchangedByRouting, vars, outcomeVars
<1>3. IInv /\ NothingPassedOver /\ AtMostOneLostPerCrash => TakenPromptsConclude
  <2> SUFFICES ASSUME IInv, NothingPassedOver, AtMostOneLostPerCrash, KnownAtStart, crashes = 0,
                      NEW m \in Mention \cup Slash, WasTaken(m), m \notin failed, ~Routing(m)
               PROVE  answers[m] > 0
    BY DEF TakenPromptsConclude
  <2>1. Lost = {}
    <3>1. IsFiniteSet(Lost) /\ Cardinality(Lost) \in Nat /\ Cardinality(Lost) <= 0
      BY MessageAssumption, LostType DEF Lost, AtMostOneLostPerCrash
    <3> QED BY <3>1, FS_EmptySet
  <2>2. m \in Message /\ m \notin ignored
    BY MessageAssumption DEF MessageAssumption, NothingPassedOver
  <2> QED BY <2>1, <2>2 DEF Lost, Concluded
<1> QED BY <1>1, <1>2, <1>3, EventLoopInvariant, AtMostOneLostPerCrashCorrect, PTL DEF Spec
==============================================================================
