----------------------------- MODULE RecentMemory -----------------------------
(***************************************************************************)
(* The recent messages of one channel (internal/memory/memory.go): a table *)
(* in Postgres and, before it, a bounded list in Redis.  The event loop    *)
(* saves each message it handles and reads the recent ones for the prompt  *)
(* of a run; resume goroutines read them at any time.  The table is        *)
(* written first; errors of Redis are ignored.                             *)
(*                                                                         *)
(* Messages are numbered in the order of their created_at.  The client of  *)
(* Redis sends a command again when its answer is lost, so a push arrives  *)
(* any number of times, here up to two.                                    *)
(***************************************************************************)
EXTENDS Naturals, SequencesExt

CONSTANTS Resume,       \* goroutines that resume a conversation
          Loop,         \* the event loop
          MaxMessages,  \* bound on the messages saved
          Embedded,     \* messages saved with an embedding
          Cap,          \* length of the list after a trim (100 in the code)
          Limit,        \* messages asked for (5 in the code)
          MaxPushes     \* bound on the arrivals of one push

ASSUME MemoryAssumption ==
  /\ Loop \notin Resume
  /\ {MaxMessages, MaxPushes} \subseteq Nat
  /\ Cap \in Nat \ {0} /\ Limit \in 1..Cap

VARIABLES at,      \* where each goroutine is
          last,    \* the message saved last
          table,   \* memory_entries of the channel, oldest first
          list,    \* the list in Redis, newest first; empty without a key
          got,     \* what the last call of Recent returned to each goroutine
          missed   \* history: rows that were not pushed

vars == <<at, last, table, list, got, missed>>

Actor == Resume \cup {Loop}
Message == 1..MaxMessages

\* Types; only the event loop saves, and it reads after it has saved.
TypeOK ==
  /\ at \in [Actor -> {"idle", "insert", "push", "trim", "range", "select", "done"}]
  /\ \A r \in Resume : at[r] \notin {"insert", "push", "trim"}
  /\ last \in 0..MaxMessages
  /\ table \in Seq(Message) /\ list \in Seq(Message)
  /\ got \in [Actor -> Seq(Message)]
  /\ missed \subseteq ToSet(table)

Init ==
  /\ at = [a \in Actor |-> "idle"]
  /\ last = 0
  /\ table = <<>> /\ list = <<>>
  /\ got = [a \in Actor |-> <<>>]
  /\ missed = {}

First(s, n) == [i \in 1..Min({n, Len(s)}) |-> s[i]]

Go(a, from, to) == at[a] = from /\ at' = [at EXCEPT ![a] = to]

-----------------------------------------------------------------------------
(* Save.                                                                   *)

Save ==
  /\ last < MaxMessages
  /\ Go(Loop, "idle", "insert")
  /\ last' = last + 1
  /\ UNCHANGED <<table, list, got, missed>>

\* The literal of no embedding is "[]", which pgvector does not accept.
Insertable == last \in Embedded

Insert ==
  /\ Go(Loop, "insert", "push")
  /\ Insertable
  /\ table' = Append(table, last)
  /\ UNCHANGED <<last, list, got, missed>>

\* Fault variant: the error is not looked at, and the message is pushed.
InsertErrorIgnored ==
  /\ Go(Loop, "insert", "push")
  /\ UNCHANGED <<table, last, list, got, missed>>

\* Save returns without a push; the row may be there all the same.
InsertFails ==
  /\ Go(Loop, "insert", "idle")
  /\ \/ UNCHANGED <<table, missed>>
     \/ Insertable /\ table' = Append(table, last) /\ missed' = missed \cup {last}
  /\ UNCHANGED <<last, list, got>>

\* Fault variant: RPUSH.
AppendedTo(l, n) == l \o [i \in 1..n |-> last]

\* The list after n arrivals of the push.
Pushed(l, n) == [i \in 1..n |-> last] \o l

Push ==
  /\ Go(Loop, "push", "trim")
  /\ \E n \in 0..MaxPushes :
       /\ list' = Pushed(list, n)
       /\ missed' = IF n = 0 THEN missed \cup {last} ELSE missed
  /\ UNCHANGED <<last, table, got>>

\* Fault variant: LTRIM 1 Cap.
KeptFromSecond == First(SubSeq(list, 2, Len(list)), Cap)

\* LTRIM 0 99 keeps the newest; what EXPIRE does is in Forget.
Kept == First(list, Cap)

Trim ==
  /\ Go(Loop, "trim", "idle")
  /\ list' = Kept \/ UNCHANGED list
  /\ UNCHANGED <<last, table, got, missed>>

-----------------------------------------------------------------------------
(* Recent.                                                                 *)

\* The event loop reads after it has saved.
Recent(a) ==
  /\ Go(a, "idle", "range")
  /\ got' = [got EXCEPT ![a] = <<>>]
  /\ UNCHANGED <<last, table, list, missed>>

Answer(a, messages) == got' = [got EXCEPT ![a] = messages]

RangeFound(a) ==
  /\ Go(a, "range", "done")
  /\ list # <<>>
  /\ Answer(a, First(list, Limit))
  /\ UNCHANGED <<last, table, list, missed>>

\* LRANGE fails, or there is no list.
RangeMisses(a) ==
  /\ Go(a, "range", "select")
  /\ UNCHANGED <<last, table, list, got, missed>>

\* Fault variant: ORDER BY created_at.
OldestRows == First(table, Limit)

NewestRows == First(Reverse(table), Limit)

SelectRows(a) ==
  /\ Go(a, "select", "done")
  /\ Answer(a, NewestRows)
  /\ UNCHANGED <<last, table, list, missed>>

\* The run begins, without recent messages if Recent returned an error.
UseRecent(a) ==
  /\ at[a] \in {"select", "done"}
  /\ at' = [at EXCEPT ![a] = "idle"]
  /\ UNCHANGED <<last, table, list, got, missed>>

-----------------------------------------------------------------------------
\* The key expires, 24 hours after the last save, or Redis restarts empty.
Forget ==
  /\ list # <<>>
  /\ list' = <<>>
  /\ UNCHANGED <<at, last, table, got, missed>>

\* The process restarts; a message may have its row and no push yet.
Crash ==
  /\ at' = [a \in Actor |-> "idle"]
  /\ missed' = missed \cup IF at[Loop] = "push" THEN {last} ELSE {}
  /\ UNCHANGED <<last, table, list, got>>

Next ==
  \/ Save \/ Insert \/ InsertFails \/ Push \/ Trim
  \/ \E a \in Actor :
       Recent(a) \/ RangeFound(a) \/ RangeMisses(a) \/ SelectRows(a) \/ UseRecent(a)
  \/ Forget \/ Crash

Spec == Init /\ [][Next]_vars

-----------------------------------------------------------------------------
(* Properties.                                                             *)

NewestFirst(s) == \A i, j \in 1..Len(s) : i < j => s[i] >= s[j]

\* Whether list or table answers, Recent returns at most as many messages as
\* asked for, saved ones only, newest first (memory.go:64-95).
RecentIsHistory ==
  \A a \in Actor :
    /\ Len(got[a]) <= Limit
    /\ ToSet(got[a]) \subseteq ToSet(table)
    /\ NewestFirst(got[a])

\* A turn is given the message that asked for it among the recent ones, in
\* front, if Save could store it; that the list may be lost between the push
\* and the read does not matter (runtime.go:213-247).
ReadsOwnMessage ==
  at[Loop] = "done" /\ last \in ToSet(table) \ missed =>
    got[Loop] # <<>> /\ Head(got[Loop]) = last

\* The list has no holes but rows whose push was lost or is under way: what
\* is newer than its oldest message is in it (memory.go:56-59).
Unpushed == missed \cup IF at[Loop] = "push" THEN {last} ELSE {}
ListHasNoHoles ==
  \A m \in ToSet(list), n \in ToSet(table) \ Unpushed : m < n => n \in ToSet(list)
==============================================================================
