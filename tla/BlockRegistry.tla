---------------------------- MODULE BlockRegistry -----------------------------
(***************************************************************************)
(* Blocks of a reply (internal/tooling/blockkit).  A tool call of an agent *)
(* stores a block in the registry of the process and gets a placeholder,   *)
(* which the agent puts in its text; before a reply is published, each     *)
(* placeholder is consumed and taken out of the text.  Runs of the event   *)
(* loop and of resume goroutines share the registry, and the agent reads   *)
(* earlier placeholders in its session: a text may name blocks of other    *)
(* runs, or one block twice.  A goroutine evicts what nobody consumed.     *)
(***************************************************************************)
EXTENDS Naturals, SequencesExt

CONSTANTS Turn,       \* runs of an agent, each with its reply
          MaxBlocks,  \* bound on the blocks of a run
          MaxNamed,   \* bound on the placeholders of a text
          TTL,        \* registryTTL
          None

ASSUME RegistryAssumption ==
  /\ {MaxBlocks, MaxNamed, TTL} \subseteq Nat
  /\ None \notin Nat

\* A block and its placeholder (a UUID) are named after run and number.
Block == Turn \X (1..MaxBlocks)

VARIABLES stage,    \* of each run
          entries,  \* the sync.Map: blocks stored and neither consumed nor evicted
          age,      \* time since a block was stored (TTL + 1: expired), or None
          text,     \* the placeholders left in each text, in order
          loaded,   \* the first of them was loaded and not deleted yet
          shown,    \* blocks collected for each reply
          due,      \* what the eviction that is under way still has to delete
          together  \* history: pairs of runs that were resolving at one time

vars == <<stage, entries, age, text, loaded, shown, due, together>>

Stored == {b \in Block : age[b] # None}
Expired(b) == age[b] = TTL + 1

\* Types; an entry was stored, and only resolving texts have loaded one.
TypeOK ==
  /\ stage \in [Turn -> {"idle", "run", "resolve", "done"}]
  /\ entries \subseteq Stored /\ due \subseteq Stored
  /\ age \in [Block -> 0..(TTL + 1) \cup {None}]
  /\ text \in [Turn -> Seq(Stored)] /\ shown \in [Turn -> Seq(Stored)]
  /\ loaded \in [Turn -> BOOLEAN]
  /\ \A t \in Turn : loaded[t] => stage[t] = "resolve" /\ text[t] # <<>>
  /\ together \subseteq Turn \X Turn

Init ==
  /\ stage = [t \in Turn |-> "idle"]
  /\ entries = {} /\ due = {}
  /\ age = [b \in Block |-> None]
  /\ text = [t \in Turn |-> <<>>] /\ shown = [t \in Turn |-> <<>>]
  /\ loaded = [t \in Turn |-> FALSE]
  /\ together = {}

-----------------------------------------------------------------------------
(* A run and its reply.                                                    *)

BeginRun(t) ==
  /\ stage[t] = "idle"
  /\ stage' = [stage EXCEPT ![t] = "run"]
  /\ UNCHANGED <<entries, age, text, loaded, shown, due, together>>

\* Fault variant: the entry is stored without expireAt.
Unstamped(b) == UNCHANGED age

Stamped(b) == age' = [age EXCEPT ![b] = 0]

\* A tool call: the block gets the next number of its run.
Store(t, b) ==
  /\ stage[t] = "run"
  /\ b[1] = t /\ b \notin Stored
  /\ \A n \in 1..(b[2] - 1) : <<t, n>> \in Stored
  /\ entries' = entries \cup {b}
  /\ Stamped(b)
  /\ UNCHANGED <<stage, text, loaded, shown, due, together>>

Resolving == {t \in Turn : stage[t] = "resolve"}

\* The run ends with a text; ResolvePlaceholders finds its placeholders.
FindPlaceholders(t) ==
  /\ stage[t] = "run"
  /\ \E named \in BoundedSeq(Stored, MaxNamed) : text' = [text EXCEPT ![t] = named]
  /\ stage' = [stage EXCEPT ![t] = "resolve"]
  /\ together' = together \cup ({t} \X Resolving) \cup (Resolving \X {t})
  /\ UNCHANGED <<entries, age, loaded, shown, due>>

\* Consume: Load, then Delete.
Load(t) ==
  /\ stage[t] = "resolve" /\ ~loaded[t] /\ text[t] # <<>>
  /\ Head(text[t]) \in entries
  /\ loaded' = [loaded EXCEPT ![t] = TRUE]
  /\ shown' = [shown EXCEPT ![t] = Append(@, Head(text[t]))]
  /\ UNCHANGED <<stage, entries, age, text, due, together>>

LoadMisses(t) ==
  /\ stage[t] = "resolve" /\ ~loaded[t] /\ text[t] # <<>>
  /\ Head(text[t]) \notin entries
  /\ text' = [text EXCEPT ![t] = Tail(@)]
  /\ UNCHANGED <<stage, entries, age, loaded, shown, due, together>>

\* Fault variant: a consumed entry is left to the eviction.
DeleteLeft(t) == UNCHANGED entries

DeleteConsumed(t) == entries' = entries \ {Head(text[t])}

Delete(t) ==
  /\ loaded[t]
  /\ DeleteConsumed(t)
  /\ loaded' = [loaded EXCEPT ![t] = FALSE]
  /\ text' = [text EXCEPT ![t] = Tail(@)]
  /\ UNCHANGED <<stage, age, shown, due, together>>

\* The reply is published with the blocks that were shown.
Resolved(t) ==
  /\ stage[t] = "resolve" /\ text[t] = <<>>
  /\ stage' = [stage EXCEPT ![t] = "done"]
  /\ UNCHANGED <<entries, age, text, loaded, shown, due, together>>

-----------------------------------------------------------------------------
(* Eviction.                                                               *)

\* Time passes for every block.
Tick ==
  /\ \E b \in entries : ~Expired(b)
  /\ age' = [b \in Block |-> IF b \notin Stored \/ Expired(b) THEN age[b] ELSE age[b] + 1]
  /\ UNCHANGED <<stage, entries, text, loaded, shown, due, together>>

\* Fault variant: expireAt and the time of the tick are swapped.
NotYetExpired == {b \in entries : ~Expired(b)}

\* Fault variant: what will expire is evicted with what has expired.
EvictableAtTTL == {b \in entries : age[b] >= TTL}

Evictable == {b \in entries : Expired(b)}

\* The ticker fires: Range visits the entries.
Sweep ==
  /\ due = {}
  /\ Evictable # {}
  /\ due' = Evictable
  /\ UNCHANGED <<stage, entries, age, text, loaded, shown, together>>

\* An entry may have been consumed since Range read it.
Evict(b) ==
  /\ b \in due
  /\ entries' = entries \ {b}
  /\ due' = due \ {b}
  /\ UNCHANGED <<stage, age, text, loaded, shown, together>>

Next ==
  \/ \E t \in Turn :
       \/ BeginRun(t) \/ FindPlaceholders(t)
       \/ Load(t) \/ LoadMisses(t) \/ Delete(t) \/ Resolved(t)
  \/ \E t \in Turn, b \in Block : Store(t, b)
  \/ Tick \/ Sweep \/ \E b \in Block : Evict(b)

Spec == Init /\ [][Next]_vars

\* Time passes, and the goroutine of the registry is scheduled.
FairSpec ==
  /\ Spec
  /\ WF_vars(Tick) /\ WF_vars(Sweep) /\ \A b \in Block : WF_vars(Evict(b))

-----------------------------------------------------------------------------
(* Properties.                                                             *)

\* A reply shows a block once, however often its text names it; two replies
\* show the same block only if they were resolved at the same time, because
\* Consume loads and then deletes (registry.go:43-47).
ShownOnce ==
  /\ \A t \in Turn : IsInjective(shown[t])
  /\ \A t, u \in Turn :
       t # u /\ ToSet(shown[t]) \cap ToSet(shown[u]) # {} => <<t, u>> \in together

\* A block stays in the registry for its ten minutes unless a reply shows it:
\* neither the eviction nor a text that repeats a placeholder loses it
\* (registry.go:57).
FreshUntilShown ==
  \A b \in Stored : b \in entries \/ Expired(b) \/ \E t \in Turn : b \in ToSet(shown[t])

\* A block nobody consumes does not stay in the registry (registry.go:52-63).
EntriesGo == \A b \in Block : b \in entries ~> b \notin entries
==============================================================================
