----------------------------- MODULE ReplyProofs ------------------------------
(***************************************************************************)
(* Proofs about how a reply is made: its blocks are taken out of the       *)
(* registry (BlockRegistry), for any runs, blocks, placeholders and time   *)
(* to live, and it is written to its thread (ThreadReply), for any number  *)
(* of attempts.                                                            *)
(***************************************************************************)
EXTENDS BlockRegistry, ThreadReply, SequenceTheorems, FiniteSetTheorems, TLAPS

-----------------------------------------------------------------------------
(* BlockRegistry.                                                          *)

\* Runs that resolve their texts do so together.
TogetherInv ==
  \A t, u \in Turn :
    t # u /\ stage[t] = "resolve" /\ stage[u] = "resolve" => <<t, u>> \in together

\* What an eviction is about to delete has expired.
DueInv == \A b \in due : Expired(b)

\* A block that was loaded is shown, and until it is deleted its run is at its
\* placeholder; so no block can be loaded twice by one run.
LoadedInv == \A t \in Turn : loaded[t] => Head(text[t]) \in ToSet(shown[t])
ShownInv ==
  \A t \in Turn : \A b \in ToSet(shown[t]) \cap entries : loaded[t] /\ Head(text[t]) = b

RegistryIInv ==
  /\ TypeOK /\ TogetherInv /\ DueInv /\ LoadedInv /\ ShownInv
  /\ ShownOnce /\ FreshUntilShown

-----------------------------------------------------------------------------
\* One more block is shown.
LEMMA OneMoreShown ==
  ASSUME NEW S, NEW s \in Seq(S), NEW b \in S
  PROVE  /\ Append(s, b) \in Seq(S)
         /\ ToSet(Append(s, b)) = ToSet(s) \cup {b}
         /\ IsInjective(s) /\ b \notin ToSet(s) => IsInjective(Append(s, b))
<1>1. /\ Append(s, b) \in Seq(S) /\ Len(Append(s, b)) = Len(s) + 1
      /\ \A i \in 1..Len(s) : Append(s, b)[i] = s[i]
      /\ Append(s, b)[Len(s) + 1] = b
  BY AppendProperties
<1>2. Len(s) \in Nat /\ DOMAIN s = 1..Len(s) /\ DOMAIN Append(s, b) = 1..(Len(s) + 1)
  BY <1>1, LenProperties
<1>3. ToSet(Append(s, b)) = ToSet(s) \cup {b}
  BY <1>1, <1>2 DEF ToSet
<1>4. ASSUME IsInjective(s), b \notin ToSet(s) PROVE IsInjective(Append(s, b))
  BY <1>1, <1>2, <1>4 DEF IsInjective, ToSet
<1> QED BY <1>1, <1>3, <1>4

LEMMA TextsOfStored ==
  ASSUME TypeOK, NEW named \in BoundedSeq(Stored, MaxNamed), MaxNamed \in Nat
  PROVE  named \in Seq(Stored)
BY DEF BoundedSeq, SeqOf

\* What was stored stays stored, and expired what had expired.
LEMMA AgesGrow ==
  ASSUME RegistryAssumption, TypeOK, [Next]_vars
  PROVE  /\ Stored \subseteq Stored'
         /\ \A b \in Stored : Expired(b) => Expired(b)'
         /\ age' \in [Block -> 0..(TTL + 1) \cup {None}]
<1> USE DEF Stored, Expired
<1>1. CASE Tick
  BY <1>1 DEF Tick, TypeOK, RegistryAssumption
<1>2. ASSUME NEW t \in Turn, NEW b \in Block, Store(t, b)
      PROVE  /\ Stored \subseteq Stored'
             /\ \A c \in Stored : Expired(c) => Expired(c)'
             /\ age' \in [Block -> 0..(TTL + 1) \cup {None}]
  BY <1>2 DEF Store, Stamped, TypeOK, RegistryAssumption
<1>3. CASE UNCHANGED age
  BY <1>3 DEF TypeOK
<1> QED BY <1>1, <1>2, <1>3
        DEF Next, vars, BeginRun, FindPlaceholders, Load, LoadMisses, Delete, Resolved, Sweep, Evict

\* The texts and what is shown are of stored blocks.
LEMMA RegistryTypesPreserved ==
  ASSUME RegistryAssumption, TypeOK, [Next]_vars PROVE TypeOK'
<1>1. /\ Stored \subseteq Stored'
      /\ age' \in [Block -> 0..(TTL + 1) \cup {None}]
  BY AgesGrow
<1>2. \A s \in Seq(Stored) : s \in Seq(Stored')
  BY <1>1
<1>3. CASE UNCHANGED vars
  BY <1>1, <1>3 DEF vars, TypeOK, Stored
<1>4. ASSUME NEW t \in Turn,
             BeginRun(t) \/ FindPlaceholders(t) \/ LoadMisses(t) \/ Delete(t) \/ Resolved(t)
      PROVE  TypeOK'
  <2>1. stage' \in [Turn -> {"idle", "run", "resolve", "done"}]
    BY <1>4 DEF TypeOK, BeginRun, FindPlaceholders, LoadMisses, Delete, Resolved
  <2>2. text' \in [Turn -> Seq(Stored)]
    <3>1. CASE FindPlaceholders(t)
      BY <3>1, TextsOfStored DEF FindPlaceholders, TypeOK, RegistryAssumption
    <3>2. CASE LoadMisses(t) \/ Delete(t)
      <4>1. text[t] \in Seq(Stored) /\ text[t] # <<>>
        BY <3>2 DEF LoadMisses, Delete, TypeOK
      <4>2. Tail(text[t]) \in Seq(Stored)
        BY <4>1, HeadTailProperties
      <4> QED BY <3>2, <4>2 DEF LoadMisses, Delete, TypeOK
    <3> QED BY <1>4, <3>1, <3>2 DEF BeginRun, Resolved, TypeOK
  <2>3. /\ UNCHANGED <<age, shown, due>> /\ entries' \subseteq entries
        /\ loaded' \in [Turn -> BOOLEAN]
        /\ \A u \in Turn : loaded'[u] => loaded[u] /\ u # t
    BY <1>4 DEF BeginRun, FindPlaceholders, LoadMisses, Delete, DeleteConsumed, Resolved, TypeOK
  <2>4. \A u \in Turn : loaded'[u] => stage'[u] = "resolve" /\ text'[u] # <<>>
    BY <1>4, <2>3 DEF BeginRun, FindPlaceholders, LoadMisses, Delete, Resolved, TypeOK
  <2>5. together' \subseteq Turn \X Turn
    BY <1>4 DEF BeginRun, FindPlaceholders, LoadMisses, Delete, Resolved, Resolving, TypeOK
  <2> QED BY <1>1, <2>1, <2>2, <2>3, <2>4, <2>5 DEF TypeOK, Stored
<1>5. ASSUME NEW t \in Turn, Load(t) PROVE TypeOK'
  <2>1. shown[t] \in Seq(Stored) /\ Head(text[t]) \in Stored
    BY <1>5 DEF Load, TypeOK
  <2>2. Append(shown[t], Head(text[t])) \in Seq(Stored)
    BY <2>1, OneMoreShown
  <2> QED BY <1>5, <2>2 DEF Load, TypeOK, Stored
<1>6. ASSUME NEW t \in Turn, NEW b \in Block, Store(t, b) PROVE TypeOK'
  <2>1. b \in Stored'
    BY <1>6 DEF Store, Stamped, Stored, TypeOK, RegistryAssumption
  <2> QED BY <1>1, <1>2, <1>6, <2>1 DEF Store, TypeOK
<1>7. CASE Tick
  BY <1>1, <1>2, <1>7 DEF Tick, TypeOK
<1>8. CASE Sweep \/ \E b \in Block : Evict(b)
  BY <1>8 DEF Sweep, Evict, Evictable, TypeOK, Stored
<1> QED BY <1>3, <1>4, <1>5, <1>6, <1>7, <1>8 DEF Next

LEMMA TogetherPreserved ==
  ASSUME TypeOK, TogetherInv, [Next]_vars PROVE TogetherInv'
<1> USE DEF TogetherInv
<1>1. ASSUME NEW t \in Turn, FindPlaceholders(t) PROVE TogetherInv'
  BY <1>1 DEF FindPlaceholders, Resolving, TypeOK
<1>2. ASSUME NEW t \in Turn, BeginRun(t) \/ Resolved(t) PROVE TogetherInv'
  BY <1>2 DEF BeginRun, Resolved, TypeOK
<1>3. CASE UNCHANGED <<stage, together>>
  BY <1>3
<1> QED BY <1>1, <1>2, <1>3 DEF Next, vars, Load, LoadMisses, Delete, Store, Tick, Sweep, Evict

LEMMA DuePreserved ==
  ASSUME RegistryAssumption, TypeOK, DueInv, [Next]_vars PROVE DueInv'
<1>1. \A b \in Stored : Expired(b) => Expired(b)'
  BY AgesGrow
<1>2. CASE due' \subseteq due
  BY <1>1, <1>2 DEF DueInv, TypeOK
<1>3. CASE Sweep
  BY <1>3 DEF Sweep, Evictable, DueInv, Expired
<1> QED BY <1>2, <1>3
        DEF Next, vars, BeginRun, FindPlaceholders, Load, LoadMisses, Delete, Resolved, Store,
            Tick, Evict

\* A block that was loaded and is not deleted yet is among those to show.
LEMMA LoadedPreserved ==
  ASSUME TypeOK, LoadedInv, [Next]_vars PROVE LoadedInv'
<1> USE DEF LoadedInv
<1>1. ASSUME NEW t \in Turn, Load(t) PROVE LoadedInv'
  <2>1. ToSet(Append(shown[t], Head(text[t]))) = ToSet(shown[t]) \cup {Head(text[t])}
    BY <1>1, OneMoreShown DEF Load, TypeOK
  <2> QED BY <1>1, <2>1 DEF Load, TypeOK
<1>2. ASSUME NEW t \in Turn, FindPlaceholders(t) \/ LoadMisses(t) \/ Delete(t) PROVE LoadedInv'
  BY <1>2 DEF FindPlaceholders, LoadMisses, Delete, TypeOK
<1>3. CASE UNCHANGED <<text, loaded, shown>>
  BY <1>3
<1> QED BY <1>1, <1>2, <1>3 DEF Next, vars, BeginRun, Resolved, Store, Tick, Sweep, Evict

LEMMA ShownPreserved ==
  ASSUME TypeOK, ShownInv, [Next]_vars PROVE ShownInv'
<1> USE DEF ShownInv
<1>1. ASSUME NEW t \in Turn, Load(t) PROVE ShownInv'
  <2>1. ToSet(Append(shown[t], Head(text[t]))) = ToSet(shown[t]) \cup {Head(text[t])}
    BY <1>1, OneMoreShown DEF Load, TypeOK
  <2> QED BY <1>1, <2>1 DEF Load, TypeOK
<1>2. ASSUME NEW t \in Turn, Delete(t) PROVE ShownInv'
  BY <1>2 DEF Delete, DeleteConsumed, TypeOK
<1>3. ASSUME NEW t \in Turn, FindPlaceholders(t) \/ LoadMisses(t) PROVE ShownInv'
  BY <1>3 DEF FindPlaceholders, LoadMisses, TypeOK
<1>4. ASSUME NEW t \in Turn, NEW b \in Block, Store(t, b) PROVE ShownInv'
  <2>1. \A u \in Turn : b \notin ToSet(shown[u])
    <3> TAKE u \in Turn
    <3>1. shown[u] \in Seq(Stored) /\ b \notin Stored
      BY <1>4 DEF Store, TypeOK
    <3> QED BY <3>1, LenProperties DEF ToSet
  <2> QED BY <1>4, <2>1 DEF Store
<1>5. CASE UNCHANGED <<text, loaded, shown>> /\ entries' \subseteq entries
  BY <1>5
<1> QED BY <1>1, <1>2, <1>3, <1>4, <1>5 DEF Next, vars, BeginRun, Resolved, Tick, Sweep, Evict

LEMMA ShownOncePreserved ==
  ASSUME TypeOK, TogetherInv, ShownInv, ShownOnce, [Next]_vars PROVE ShownOnce'
<1>1. ASSUME NEW t \in Turn, Load(t) PROVE ShownOnce'
  <2> DEFINE b == Head(text[t])
  <2>1. b \in entries /\ ~loaded[t] /\ stage[t] = "resolve"
    BY <1>1 DEF Load
  <2>2. shown[t] \in Seq(Stored) /\ b \in Stored
    BY <2>1 DEF TypeOK
  <2>3. b \notin ToSet(shown[t])
    BY <2>1 DEF ShownInv
  <2>4. /\ IsInjective(Append(shown[t], b))
        /\ ToSet(Append(shown[t], b)) = ToSet(shown[t]) \cup {b}
    BY <2>2, <2>3, OneMoreShown DEF ShownOnce
  <2>5. \A u \in Turn : u # t /\ b \in ToSet(shown[u]) => <<t, u>> \in together /\ <<u, t>> \in together
    BY <2>1 DEF ShownInv, TogetherInv, TypeOK
  <2>6. shown' = [shown EXCEPT ![t] = Append(shown[t], b)] /\ together' = together
    BY <1>1 DEF Load
  <2> HIDE DEF b
  <2>7. ASSUME NEW u \in Turn PROVE IsInjective(shown'[u])
    BY <2>4, <2>6 DEF ShownOnce, TypeOK
  <2>8. ASSUME NEW u \in Turn, NEW v \in Turn, u # v,
               ToSet(shown'[u]) \cap ToSet(shown'[v]) # {}
        PROVE  <<u, v>> \in together'
    <3>1. CASE u # t /\ v # t
      BY <2>6, <2>8, <3>1 DEF ShownOnce, TypeOK
    <3>2. CASE u = t
      BY <2>4, <2>5, <2>6, <2>8, <3>2 DEF ShownOnce, TypeOK
    <3>3. CASE v = t
      BY <2>4, <2>5, <2>6, <2>8, <3>3 DEF ShownOnce, TypeOK
    <3> QED BY <3>1, <3>2, <3>3
  <2> QED BY <2>7, <2>8 DEF ShownOnce
<1>2. CASE UNCHANGED shown /\ together \subseteq together'
  BY <1>2 DEF ShownOnce
<1> QED BY <1>1, <1>2
        DEF Next, vars, BeginRun, FindPlaceholders, LoadMisses, Delete, Resolved, Store, Tick, Sweep, Evict

\* An entry leaves by a reply that shows it, or by an eviction after it has
\* expired.
LEMMA FreshPreserved ==
  ASSUME RegistryAssumption, TypeOK, DueInv, LoadedInv, FreshUntilShown, [Next]_vars
  PROVE  FreshUntilShown'
<1> USE DEF FreshUntilShown
<1>1. \A b \in Stored : Expired(b) => Expired(b)'
  BY AgesGrow
<1>2. \A t \in Turn : ToSet(shown[t]) \subseteq ToSet(shown[t])'
  <2>1. ASSUME NEW t \in Turn, Load(t), NEW u \in Turn PROVE ToSet(shown[u]) \subseteq ToSet(shown'[u])
    <3>1. ToSet(Append(shown[t], Head(text[t]))) = ToSet(shown[t]) \cup {Head(text[t])}
      BY <2>1, OneMoreShown DEF Load, TypeOK
    <3> QED BY <2>1, <3>1 DEF Load, TypeOK
  <2> QED BY <2>1
          DEF Next, vars, BeginRun, FindPlaceholders, LoadMisses, Delete, Resolved, Store, Tick, Sweep, Evict
<1>3. ASSUME NEW t \in Turn, NEW b \in Block, Store(t, b) PROVE FreshUntilShown'
  BY <1>1, <1>2, <1>3 DEF Store, Stamped, Stored, TypeOK
<1>4. CASE Tick
  <2>1. Stored' = Stored
    BY <1>4 DEF Tick, Stored, Expired, TypeOK, RegistryAssumption
  <2> QED BY <1>1, <1>2, <1>4, <2>1 DEF Tick
<1>5. ASSUME NEW t \in Turn, Delete(t) PROVE FreshUntilShown'
  BY <1>1, <1>2, <1>5 DEF Delete, DeleteConsumed, LoadedInv, Stored, TypeOK
<1>6. ASSUME NEW b \in Block, Evict(b) PROVE FreshUntilShown'
  BY <1>1, <1>2, <1>6 DEF Evict, DueInv, Stored
<1>7. CASE UNCHANGED <<entries, age>>
  BY <1>1, <1>2, <1>7 DEF Stored
<1> QED BY <1>3, <1>4, <1>5, <1>6, <1>7
        DEF Next, vars, BeginRun, FindPlaceholders, Load, LoadMisses, Resolved, Sweep

-----------------------------------------------------------------------------
\* The inductive invariant of the registry.
THEOREM RegistryInvariant == Spec => []RegistryIInv
<1>1. Init => RegistryIInv
  <2> SUFFICES ASSUME Init PROVE RegistryIInv
    OBVIOUS
  <2>1. TypeOK
    <3>1. \A t \in Turn : text[t] \in Seq(Stored) /\ shown[t] \in Seq(Stored)
      BY EmptySeq DEF Init
    <3> QED BY <3>1, RegistryAssumption DEF Init, TypeOK, Stored
  <2>2. \A t \in Turn : ToSet(shown[t]) = {} /\ IsInjective(shown[t])
    BY DEF Init, ToSet, IsInjective
  <2>3. Stored = {}
    BY DEF Init, Stored
  <2> QED BY <2>1, <2>2, <2>3
          DEF Init, RegistryIInv, TogetherInv, DueInv, LoadedInv, ShownInv, ShownOnce, FreshUntilShown
<1>2. RegistryIInv /\ [Next]_vars => RegistryIInv'
  BY RegistryAssumption, RegistryTypesPreserved, TogetherPreserved, DuePreserved, LoadedPreserved,
     ShownPreserved, ShownOncePreserved, FreshPreserved DEF RegistryIInv
<1> QED BY <1>1, <1>2, PTL DEF Spec

\* Type correctness; among it, that what is shown and named was stored.
THEOREM RegistryTypeCorrect == Spec => []TypeOK
<1>1. RegistryIInv => TypeOK BY DEF RegistryIInv
<1> QED BY <1>1, RegistryInvariant, PTL

\* Consume shows a block once per reply, and in two replies only when they
\* were resolved at the same time.
THEOREM ShownOnceCorrect == Spec => []ShownOnce
<1>1. RegistryIInv => ShownOnce BY DEF RegistryIInv
<1> QED BY <1>1, RegistryInvariant, PTL

\* No block is lost before its time.
THEOREM FreshUntilShownCorrect == Spec => []FreshUntilShown
<1>1. RegistryIInv => FreshUntilShown BY DEF RegistryIInv
<1> QED BY <1>1, RegistryInvariant, PTL

-----------------------------------------------------------------------------
(* ThreadReply.                                                            *)

\* Posting and updating keep a thread a sequence of texts.
LEMMA ThreadWritten ==
  ASSUME NEW t \in Seq(Text), NEW words \in Text
  PROVE  /\ Append(t, words) \in Seq(Text) /\ Append(t, words) # <<>>
         /\ Append(t, words)[Len(Append(t, words))] = words
         /\ t # <<>> => /\ [t EXCEPT ![1] = words] \in Seq(Text)
                        /\ [t EXCEPT ![1] = words] # <<>>
                        /\ [t EXCEPT ![1] = words][1] = words
<1>1. Append(t, words)[Len(Append(t, words))] = words
  BY AppendProperties
<1>2. ASSUME t # <<>>
      PROVE  /\ [t EXCEPT ![1] = words] \in Seq(Text)
             /\ [t EXCEPT ![1] = words] # <<>>
             /\ [t EXCEPT ![1] = words][1] = words
  <2>1. 1 \in 1..Len(t)
    BY <1>2
  <2>2. /\ [t EXCEPT ![1] = words] \in Seq(Text)
        /\ Len([t EXCEPT ![1] = words]) = Len(t)
        /\ [t EXCEPT ![1] = words][1] = words
    BY <2>1, ExceptSeq
  <2> QED BY <2>1, <2>2
<1> QED BY <1>1, <1>2, AppendProperties

\* What calls to Slack leave of the types.
LEMMA CallTypes ==
  ASSUME ReplyTypeOK, NEW words \in Text,
         \/ Posted(words)
         \/ PostLost(words)
         \/ NoEffect
         \/ known /\ (Updated(words) \/ UpdateLost(words))
  PROVE  /\ thread' \in Seq(Text) /\ (thread # <<>> => thread' # <<>>)
         /\ lateUpdates' \subseteq Text /\ (lateUpdates' # {} => known)
         /\ latePosts' \in [Text -> Nat]
         /\ UNCHANGED overtaken
<1>1. CASE Posted(words) \/ PostLost(words)
  <2>1. /\ latePosts' \in {latePosts, [latePosts EXCEPT ![words] = @ + 1]}
        /\ thread' \in {thread, Append(thread, words)}
        /\ UNCHANGED <<lateUpdates, overtaken>>
    BY <1>1 DEF Posted, PostLost, NoEffect, slackVars
  <2>2. [latePosts EXCEPT ![words] = @ + 1] \in [Text -> Nat]
    <3>1. latePosts \in [Text -> Nat] /\ latePosts[words] + 1 \in Nat
      BY DEF ReplyTypeOK
    <3> QED BY <3>1
  <2> QED BY <2>1, <2>2, ThreadWritten DEF ReplyTypeOK
<1>2. CASE NoEffect
  BY <1>2 DEF NoEffect, slackVars, ReplyTypeOK
<1>3. CASE known /\ (Updated(words) \/ UpdateLost(words))
  BY <1>3, ThreadWritten DEF Updated, UpdateLost, NoEffect, slackVars, ReplyTypeOK
<1> QED BY <1>1, <1>2, <1>3

LEMMA ReplyTypesInitially == ASSUME ReplyAssumption, ReplyInit PROVE ReplyTypeOK
<1>1. <<>> \in Seq(Text)
  OBVIOUS
<1>2. 1 \in 1..MaxAttempts
  BY DEF ReplyAssumption
<1> QED BY <1>1, <1>2 DEF ReplyInit, ReplyTypeOK, Phase

LEMMA ReplyTypesPreserved ==
  ASSUME ReplyAssumption, ReplyTypeOK, RetryInv, [ReplyNext]_replyVars
  PROVE  ReplyTypeOK'
<1> USE DEF Phase
<1>1. {"working", "progress", "warning", "reply", "exhausted"} \subseteq Text
  BY DEF Text
<1>2. CASE UNCHANGED replyVars
  BY <1>2 DEF replyVars, slackVars, ReplyTypeOK
<1>3. CASE PostThinking
  <2>1. /\ thread' \in Seq(Text)
        /\ lateUpdates' \subseteq Text /\ (lateUpdates' # {} => known)
        /\ latePosts' \in [Text -> Nat]
        /\ UNCHANGED overtaken
    BY <1>1, <1>3, CallTypes DEF PostThinking
  <2>2. ~known
    BY <1>3 DEF PostThinking, ReplyTypeOK
  <2>3. known' => thread' # <<>>
    BY <1>1, <1>3, ThreadWritten DEF PostThinking, Posted, ReplyTypeOK
  <2> QED BY <1>3, <2>1, <2>2, <2>3 DEF PostThinking, ReplyTypeOK
<1>4. CASE Flush \/ Push
  <2>1. \/ known /\ UpdateLost("progress")
        \/ NoEffect
    BY <1>4 DEF Flush, Push, TryUpdate
  <2>2. /\ thread' \in Seq(Text) /\ (thread # <<>> => thread' # <<>>)
        /\ lateUpdates' \subseteq Text /\ (lateUpdates' # {} => known)
        /\ latePosts' \in [Text -> Nat]
        /\ UNCHANGED overtaken
    BY <1>1, <2>1, CallTypes
  <2>3. UNCHANGED <<known, attempt>> /\ phase' \in {"run", "write"}
    BY <1>4 DEF Flush, Push
  <2> QED BY <2>2, <2>3 DEF ReplyTypeOK
<1>5. CASE WriteThreadReply
  BY <1>1, <1>5, CallTypes DEF WriteThreadReply, ReplyTypeOK
<1>6. CASE WriteFails
  <2>1. phase' \in {"giveUp", "warnUpdate", "warnPost"}
    BY <1>6 DEF WriteFails
  <2> QED BY <1>1, <1>6, <2>1, CallTypes DEF WriteFails, ReplyTypeOK
<1>7. CASE WarnInPlace
  BY <1>1, <1>7, CallTypes DEF WarnInPlace, TryUpdate, ReplyTypeOK, RetryInv
<1>8. CASE WarnAndRetry
  <2>1. /\ thread' \in Seq(Text) /\ (thread # <<>> => thread' # <<>>)
        /\ lateUpdates' \subseteq Text /\ (lateUpdates' # {} => known)
        /\ latePosts' \in [Text -> Nat]
        /\ UNCHANGED overtaken
    BY <1>1, <1>8, CallTypes DEF WarnAndRetry, TryPost
  <2>2. attempt' \in 1..MaxAttempts
    BY <1>8 DEF WarnAndRetry, ReplyTypeOK, RetryInv, ReplyAssumption
  <2> QED BY <1>8, <2>1, <2>2 DEF WarnAndRetry, ReplyTypeOK
<1>9. CASE GiveUp
  BY <1>1, <1>9, CallTypes DEF GiveUp, TryPost, ReplyTypeOK
<1>10. CASE TakesEffect
  <2>1. PICK words \in Text : UpdateTakesEffect(words) \/ PostTakesEffect(words)
    BY <1>10 DEF TakesEffect
  <2>2. CASE UpdateTakesEffect(words)
    BY <1>10, <2>2, ThreadWritten DEF TakesEffect, UpdateTakesEffect, ReplyTypeOK
  <2>3. CASE PostTakesEffect(words)
    <3>1. latePosts[words] - 1 \in Nat
      BY <2>3 DEF PostTakesEffect, ReplyTypeOK
    <3> QED BY <1>10, <2>3, <3>1, ThreadWritten DEF TakesEffect, PostTakesEffect, ReplyTypeOK
  <2> QED BY <2>1, <2>2, <2>3
<1> QED BY <1>2, <1>3, <1>4, <1>5, <1>6, <1>7, <1>8, <1>9, <1>10 DEF ReplyNext, TurnStep, PublishStep

LEMMA RetryPreserved ==
  ASSUME ReplyAssumption, ReplyTypeOK, RetryInv, [ReplyNext]_replyVars PROVE RetryInv'
<1>1. CASE WriteFails
  <2>1. CASE attempt = MaxAttempts
    BY <1>1, <2>1 DEF WriteFails, IsLast, RetryInv
  <2>2. CASE attempt < MaxAttempts
    BY <1>1, <2>2 DEF WriteFails, IsLast, RetryInv
  <2> QED BY <2>1, <2>2 DEF ReplyTypeOK, ReplyAssumption
<1>2. CASE WarnInPlace
  BY <1>2 DEF WarnInPlace, RetryInv
<1>3. CASE Push \/ TakesEffect \/ UNCHANGED replyVars
  BY <1>3 DEF Push, TakesEffect, replyVars, RetryInv
<1>4. CASE PostThinking \/ Flush \/ WriteThreadReply \/ WarnAndRetry \/ GiveUp
  BY <1>4 DEF PostThinking, Flush, WriteThreadReply, WarnAndRetry, GiveUp, RetryInv
<1> QED BY <1>1, <1>2, <1>3, <1>4 DEF ReplyNext, TurnStep, PublishStep

\* A published reply is the last thing the turn writes; what comes later is of a
\* call that timed out before.
LEMMA ReplyStandsPreserved ==
  ASSUME ReplyTypeOK, ReplyStands, [ReplyNext]_replyVars PROVE ReplyStands'
<1> SUFFICES ASSUME phase' = "published", ~overtaken'
             PROVE  (IF known THEN thread[1] = "reply" ELSE Last(thread) = "reply")'
  BY DEF ReplyStands
<1>1. CASE WriteThreadReply
  <2>1. "reply" \in Text /\ thread \in Seq(Text)
    BY DEF Text, ReplyTypeOK
  <2>2. CASE known
    BY <1>1, <2>1, <2>2, ThreadWritten DEF WriteThreadReply, Updated, ReplyTypeOK
  <2>3. CASE ~known
    BY <1>1, <2>1, <2>3, ThreadWritten DEF WriteThreadReply, Posted, Last
  <2> QED BY <2>2, <2>3
<1>2. CASE UNCHANGED replyVars
  BY <1>2 DEF replyVars, slackVars, ReplyStands
<1>3. CASE TakesEffect
  BY <1>3 DEF TakesEffect
<1>4. CASE PostThinking \/ Push \/ Flush \/ WriteFails \/ WarnInPlace \/ WarnAndRetry \/ GiveUp
  BY <1>4 DEF PostThinking, Push, Flush, WriteFails, WarnInPlace, WarnAndRetry, GiveUp
<1> QED BY <1>1, <1>2, <1>3, <1>4 DEF ReplyNext, TurnStep, PublishStep

LEMMA WarningsFinite ==
  ASSUME ReplyTypeOK PROVE IsFiniteSet(Warnings) /\ Cardinality(Warnings) \in Nat
<1>1. IsFiniteSet(1..Len(thread)) /\ Warnings \subseteq 1..Len(thread)
  BY FS_Interval, LenProperties DEF ReplyTypeOK, Warnings
<1> QED BY <1>1, FS_Subset, FS_CardinalityType

\* One message more is at most one warning more.
LEMMA WarningPosted ==
  ASSUME ReplyTypeOK, UNCHANGED known, NEW words \in Text, thread' = Append(thread, words)
  PROVE  /\ Cardinality(Warnings') <= Cardinality(Warnings) + 1
         /\ Cardinality(Warnings') \in Nat
         /\ words # "warning" => Warnings' = Warnings
<1>1. /\ Len(thread') = Len(thread) + 1
      /\ \A i \in 1..Len(thread) : thread'[i] = thread[i]
      /\ thread'[Len(thread) + 1] = words
      /\ Len(thread) \in Nat /\ (known => Len(thread) >= 1)
  BY AppendProperties, LenProperties, EmptySeq DEF ReplyTypeOK
<1>2. CASE words = "warning"
  <2>1. \A i : i \in Warnings' <=> i \in Warnings \/ i = Len(thread) + 1
    BY <1>1, <1>2 DEF Warnings
  <2>2. Warnings' = Warnings \cup {Len(thread) + 1}
    BY <2>1
  <2>3. /\ IsFiniteSet(Warnings')
        /\ Cardinality(Warnings') <= Cardinality(Warnings) + 1
    <3> DEFINE last == Len(thread) + 1
    <3>1. /\ IsFiniteSet(Warnings \cup {last})
          /\ Cardinality(Warnings \cup {last})
               = IF last \in Warnings THEN Cardinality(Warnings) ELSE Cardinality(Warnings) + 1
      BY WarningsFinite, FS_AddElement
    <3>2. Cardinality(Warnings \cup {last}) <= Cardinality(Warnings) + 1
      BY <3>1, WarningsFinite
    <3>3. Warnings' = Warnings \cup {last}
      BY <2>2
    <3> HIDE DEF last
    <3> QED BY <3>1, <3>2, <3>3
  <2> QED BY <1>2, <2>3, FS_CardinalityType
<1>3. CASE words # "warning"
  <2>1. \A i : i \in Warnings' <=> i \in Warnings
    BY <1>1, <1>3 DEF Warnings
  <2>2. Warnings' = Warnings
    BY <2>1
  <2>3. Cardinality(Warnings') = Cardinality(Warnings)
    BY <2>2
  <2> QED BY <2>2, <2>3, WarningsFinite
<1> QED BY <1>2, <1>3

\* An update changes the placeholder only.
LEMMA PlaceholderUpdated ==
  ASSUME ReplyTypeOK, known, UNCHANGED known, NEW words \in Text,
         thread' = [thread EXCEPT ![1] = words]
  PROVE  Warnings' = Warnings
<1>1. 1 \in 1..Len(thread)
  BY LenProperties, EmptySeq DEF ReplyTypeOK
<1>2. Len(thread') = Len(thread) /\ \A i \in 2..Len(thread) : thread'[i] = thread[i]
  BY <1>1, ExceptSeq DEF ReplyTypeOK
<1> QED BY <1>2 DEF Warnings

\* Of the warnings in the thread and those still to appear, a post adds one at
\* most, an update none.
LEMMA WarningsOfPost ==
  ASSUME ReplyTypeOK, UNCHANGED known, NEW words \in Text, Posted(words) \/ PostLost(words)
  PROVE  /\ WarningCount \in Nat /\ WarningCount' \in Nat
         /\ WarningCount' <= WarningCount + 1
         /\ words # "warning" => WarningCount' = WarningCount
<1> USE DEF WarningCount
<1>1. /\ Cardinality(Warnings) \in Nat
      /\ "warning" \in Text /\ latePosts \in [Text -> Nat]
  BY WarningsFinite DEF Text, ReplyTypeOK
<1>2. CASE Posted(words)
  <2>1. thread' = Append(thread, words) /\ UNCHANGED latePosts
    BY <1>2 DEF Posted
  <2>2. /\ Cardinality(Warnings') <= Cardinality(Warnings) + 1
        /\ Cardinality(Warnings') \in Nat
        /\ words # "warning" => Warnings' = Warnings
    BY <2>1, WarningPosted
  <2> QED BY <1>1, <2>1, <2>2
<1>3. CASE ~Posted(words)
  <2>1. /\ UNCHANGED thread
        /\ latePosts' = latePosts \/ latePosts' = [latePosts EXCEPT ![words] = @ + 1]
    BY <1>3 DEF PostLost, NoEffect, slackVars
  <2>2. Warnings' = Warnings
    BY <2>1 DEF Warnings
  <2>3. /\ latePosts'["warning"] \in {latePosts["warning"], latePosts["warning"] + 1}
        /\ words # "warning" => latePosts'["warning"] = latePosts["warning"]
    BY <1>1, <2>1
  <2> QED BY <1>1, <2>2, <2>3
<1> QED BY <1>2, <1>3

LEMMA WarningsOfUpdate ==
  ASSUME ReplyTypeOK, known, UNCHANGED known, NEW words \in Text,
         Updated(words) \/ UpdateLost(words)
  PROVE  WarningCount' = WarningCount
<1>1. CASE Updated(words)
  <2>1. Warnings' = Warnings
    BY <1>1, PlaceholderUpdated DEF Updated
  <2> QED BY <1>1, <2>1 DEF Updated, WarningCount
<1>2. CASE UNCHANGED <<thread, latePosts>>
  <2>1. Warnings' = Warnings
    BY <1>2 DEF Warnings
  <2> QED BY <1>2, <2>1 DEF WarningCount
<1> QED BY <1>1, <1>2 DEF UpdateLost, NoEffect, slackVars

\* A post that takes effect late was counted before.
LEMMA WarningsOfLatePost ==
  ASSUME ReplyTypeOK, UNCHANGED known, NEW words \in Text, PostTakesEffect(words)
  PROVE  WarningCount' <= WarningCount /\ WarningCount' \in Nat
<1> USE DEF WarningCount
<1>1. /\ "warning" \in Text /\ latePosts \in [Text -> Nat]
      /\ thread' = Append(thread, words) /\ latePosts[words] > 0
      /\ latePosts' = [latePosts EXCEPT ![words] = @ - 1]
  BY DEF PostTakesEffect, Text, ReplyTypeOK
<1>2. /\ Cardinality(Warnings) \in Nat
      /\ Cardinality(Warnings') <= Cardinality(Warnings) + 1
      /\ Cardinality(Warnings') \in Nat
      /\ words # "warning" => Warnings' = Warnings
  BY <1>1, WarningsFinite, WarningPosted
<1>3. CASE words = "warning"
  <2>1. /\ latePosts'["warning"] = latePosts["warning"] - 1
        /\ latePosts["warning"] \in Nat /\ latePosts["warning"] - 1 \in Nat
    BY <1>1, <1>3
  <2> QED BY <1>2, <2>1
<1>4. CASE words # "warning"
  <2>1. latePosts'["warning"] = latePosts["warning"] /\ latePosts["warning"] \in Nat
    BY <1>1, <1>4
  <2> QED BY <1>2, <1>4, <2>1
<1> QED BY <1>3, <1>4

LEMMA WarningsPreserved ==
  ASSUME ReplyAssumption, ReplyTypeOK, RetryInv, WarningsCounted, [ReplyNext]_replyVars
  PROVE  WarningsCounted'
<1> USE DEF WarningsCounted
<1>1. /\ {"working", "progress", "warning", "reply", "exhausted"} \subseteq Text
      /\ attempt \in Nat
  BY DEF Text, ReplyTypeOK
<1>2. WarningCount \in Nat
  BY WarningsFinite DEF WarningCount, Text, ReplyTypeOK
<1>3. CASE UNCHANGED <<slackVars, known, attempt>>
  <2>1. Warnings' = Warnings
    BY <1>3 DEF Warnings, slackVars
  <2> QED BY <1>3, <2>1 DEF WarningCount, slackVars
<1>4. ASSUME NEW words \in {"progress", "reply", "exhausted"}, UNCHANGED <<known, attempt>>,
             \/ Posted(words) \/ PostLost(words)
             \/ known /\ (Updated(words) \/ UpdateLost(words))
      PROVE  WarningsCounted'
  BY <1>1, <1>4, WarningsOfPost, WarningsOfUpdate
<1>5. CASE PostThinking /\ Posted("working")
  <2>1. ~known /\ UNCHANGED attempt
    BY <1>5 DEF PostThinking, ReplyTypeOK
  <2>2. /\ Len(thread') = Len(thread) + 1 /\ Len(thread) \in Nat
        /\ \A i \in 1..Len(thread) : thread'[i] = thread[i]
        /\ thread'[Len(thread) + 1] = "working"
        /\ UNCHANGED latePosts
    BY <1>1, <1>5, AppendProperties, LenProperties DEF Posted, ReplyTypeOK
  <2>3. Warnings' \subseteq Warnings
    <3> SUFFICES ASSUME NEW i \in Warnings' PROVE i \in Warnings
      OBVIOUS
    <3>1. i \in 1..(Len(thread) + 1) /\ thread'[i] = "warning"
      BY <2>2 DEF Warnings
    <3>2. i # Len(thread) + 1
      BY <2>2, <3>1
    <3> QED BY <2>1, <2>2, <3>1, <3>2 DEF Warnings
  <2>4. /\ Cardinality(Warnings') <= Cardinality(Warnings) /\ Cardinality(Warnings') \in Nat
        /\ Cardinality(Warnings) \in Nat
    BY <2>3, WarningsFinite, FS_Subset, FS_CardinalityType
  <2>5. latePosts["warning"] \in Nat
    BY <1>1 DEF ReplyTypeOK
  <2> QED BY <1>1, <2>1, <2>2, <2>4, <2>5 DEF WarningCount
<1>6. CASE PostThinking /\ ~Posted("working")
  <2>1. known' = known /\ UNCHANGED attempt /\ PostLost("working")
    BY <1>6 DEF PostThinking, ReplyTypeOK
  <2> QED BY <1>1, <2>1, WarningsOfPost
<1>7. CASE WarnInPlace
  <2>1. known /\ UpdateLost("warning") /\ UNCHANGED <<known, attempt>>
    BY <1>7 DEF WarnInPlace, TryUpdate, RetryInv
  <2> QED BY <1>1, <2>1, WarningsOfUpdate
<1>8. CASE WarnAndRetry
  <2>1. attempt' = attempt + 1 /\ PostLost("warning") /\ UNCHANGED known
    BY <1>8 DEF WarnAndRetry, TryPost
  <2>2. WarningCount' <= WarningCount + 1 /\ WarningCount' \in Nat
    BY <1>1, <2>1, WarningsOfPost
  <2> QED BY <1>1, <1>2, <2>1, <2>2
<1>9. CASE TakesEffect
  <2>1. PICK words \in Text : UpdateTakesEffect(words) \/ PostTakesEffect(words)
    BY <1>9 DEF TakesEffect
  <2>2. UNCHANGED <<known, attempt>>
    BY <1>9 DEF TakesEffect
  <2>3. CASE UpdateTakesEffect(words)
    <3>1. known /\ UNCHANGED latePosts /\ thread' = [thread EXCEPT ![1] = words]
      BY <2>3 DEF UpdateTakesEffect, ReplyTypeOK
    <3>2. Warnings' = Warnings
      BY <2>2, <3>1, PlaceholderUpdated
    <3> QED BY <2>2, <3>1, <3>2 DEF WarningCount
  <2>4. CASE PostTakesEffect(words)
    <3>1. WarningCount' <= WarningCount /\ WarningCount' \in Nat
      BY <2>2, <2>4, WarningsOfLatePost
    <3> QED BY <1>1, <1>2, <2>2, <3>1
  <2> QED BY <2>1, <2>3, <2>4
<1>10. CASE Push \/ Flush
  BY <1>3, <1>4, <1>10 DEF Push, Flush, TryUpdate, NoEffect
<1>11. CASE WriteThreadReply \/ WriteFails \/ GiveUp
  BY <1>4, <1>11 DEF WriteThreadReply, WriteFails, GiveUp, TryPost
<1> QED BY <1>3, <1>5, <1>6, <1>7, <1>8, <1>9, <1>10, <1>11
        DEF ReplyNext, TurnStep, PublishStep, replyVars

\* The inductive invariant of a turn's writes to its thread.
THEOREM ReplyInvariant == ReplySpec => []ReplyIInv
<1>1. ReplyInit => ReplyIInv
  <2> SUFFICES ASSUME ReplyInit PROVE ReplyIInv
    OBVIOUS
  <2>1. ReplyTypeOK
    BY ReplyAssumption, ReplyTypesInitially
  <2>2. Warnings = {} /\ latePosts["warning"] = 0
    BY DEF ReplyInit, Warnings, Text
  <2>3. WarningsCounted
    BY <2>2, FS_EmptySet DEF ReplyInit, WarningsCounted, WarningCount
  <2> QED BY <2>1, <2>3 DEF ReplyInit, ReplyIInv, RetryInv, ReplyStands
<1>2. ReplyIInv /\ [ReplyNext]_replyVars => ReplyIInv'
  BY ReplyAssumption, ReplyTypesPreserved, RetryPreserved, ReplyStandsPreserved, WarningsPreserved
     DEF ReplyIInv
<1> QED BY <1>1, <1>2, PTL DEF ReplySpec

\* Type correctness; among it, that publishThreadReply makes at most
\* slackWriteMaxAttempts attempts.
THEOREM ReplyTypeCorrect == ReplySpec => []ReplyTypeOK
<1>1. ReplyIInv => ReplyTypeOK BY DEF ReplyIInv
<1> QED BY <1>1, ReplyInvariant, PTL

\* The thread shows the reply whose publication returned nil, until a call
\* that was given up before takes effect: progress and warnings of the same turn
\* are written before the reply.
THEOREM ReplyStandsCorrect == ReplySpec => []ReplyStands
<1>1. ReplyIInv => ReplyStands BY DEF ReplyIInv
<1> QED BY <1>1, ReplyInvariant, PTL

\* There are never as many warnings of a retry in the thread as attempts have
\* begun, whatever calls lose their acknowledgement.
THEOREM WarningsAnnounceRetriesCorrect == ReplySpec => []WarningsAnnounceRetries
<1>1. ReplyIInv => WarningsAnnounceRetries
  <2> SUFFICES ASSUME ReplyIInv PROVE WarningsAnnounceRetries
    OBVIOUS
  <2>1. ReplyTypeOK /\ WarningCount < attempt
    BY DEF ReplyIInv, WarningsCounted
  <2>2. latePosts["warning"] \in Nat /\ Cardinality(Warnings) \in Nat /\ attempt \in Nat
    BY <2>1, WarningsFinite DEF ReplyTypeOK, Text
  <2> QED BY <2>1, <2>2 DEF WarningCount, WarningsAnnounceRetries
<1> QED BY <1>1, ReplyInvariant, PTL

-----------------------------------------------------------------------------
(* A turn has only so many steps: the bound under ReplyingEnds.            *)

\* Steps the turn may still take.
StepsLeft ==
  3 * (MaxAttempts - attempt) +
  (CASE phase = "think" -> 5
     [] phase = "run" -> 4
     [] phase = "write" -> 3
     [] phase = "warnUpdate" -> 2
     [] phase \in {"warnPost", "giveUp"} -> 1
     [] phase \in Ended -> 0)

\* A step of the turn leaves fewer; progress and late updates are none.
UsesStep ==
  /\ TurnStep => StepsLeft' < StepsLeft
  /\ Push \/ TakesEffect => StepsLeft' = StepsLeft

\* Whatever Slack refuses, loses or does late, publishThreadReply and the
\* warnings between its attempts take at most 3 * slackWriteMaxAttempts + 2
\* steps (handlers.go:323-408).  That the turn takes them is left to fairness.
THEOREM ReplyIsBounded ==
  ReplySpec => [](StepsLeft \in 0..(3 * MaxAttempts + 2)) /\ [][UsesStep]_replyVars
<1>1. ReplyIInv => StepsLeft \in 0..(3 * MaxAttempts + 2)
  BY ReplyAssumption DEF ReplyIInv, ReplyTypeOK, Phase, Ended, StepsLeft, ReplyAssumption
<1>2. ReplyIInv /\ [ReplyNext]_replyVars => [UsesStep]_replyVars
  <2> SUFFICES ASSUME ReplyIInv, ReplyNext PROVE UsesStep
    OBVIOUS
  <2> USE DEF StepsLeft, Ended
  <2>1. attempt \in Nat /\ MaxAttempts \in Nat
    BY ReplyAssumption DEF ReplyIInv, ReplyTypeOK, ReplyAssumption
  <2>2. PostThinking \/ Flush \/ WriteThreadReply \/ WriteFails \/ WarnInPlace \/ GiveUp
          => StepsLeft' < StepsLeft
    BY <2>1 DEF PostThinking, Flush, WriteThreadReply, WriteFails, WarnInPlace, GiveUp
  <2>3. WarnAndRetry => StepsLeft' < StepsLeft
    BY <2>1 DEF WarnAndRetry
  <2>4. Push \/ TakesEffect => StepsLeft' = StepsLeft
    BY DEF Push, TakesEffect
  <2> QED BY <2>2, <2>3, <2>4 DEF UsesStep, TurnStep, PublishStep
<1> QED BY <1>1, <1>2, ReplyInvariant, PTL DEF ReplySpec
==============================================================================
